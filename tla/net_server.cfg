SPECIFICATION Spec
CONSTANTS
  c1 = c1
  c2 = c2
  None = None
  Conn = {c1, c2}
  Fd = {3, 4}
  Thread = {1, 2}
  Msgs <- MCMsgs
  MaxShort = 2
  BufLimit = 6
CHECK_DEADLOCK FALSE
INVARIANTS
  MapIsOpen
  AnsweredInOrder
