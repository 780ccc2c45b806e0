---------------------------- MODULE MCOrderFlow ----------------------------
(* Instances of OrderFlow for TLC.                                         *)
EXTENDS OrderFlow

M(id, type, market, cl, orig, key, qty, mode, ok) ==
    [id |-> id, type |-> type, market |-> market, cl |-> cl, orig |-> orig,
     key |-> key, qty |-> qty, mode |-> mode, valid |-> ok]

MCClordid == {"A", "B", "X"}

D(id, market, cl, key, qty, mode) == M(id, "D", market, cl, cl, key, qty, mode, TRUE)
F(id, market, cl, orig, key) == M(id, "F", market, cl, orig, key, 1, "All", TRUE)

\* An order that trades in slices and its cancel, and one of: an order that
\* never matches, is refused, trades whole on the other matching thread, is
\* invalid, or trades in part and has the number of the first.
FlowMsgs ==
    {D(1, "SZ", "B", 0, 5, "Divide"), F(2, "SZ", "X", "B", 0),
     D(3, "SH", "A", 0, 1, "NotMatch"), D(3, "SH", "A", 0, 1, "Err"),
     D(3, "SH", "A", 1, 1, "All"), M(3, "D", "SH", "A", "A", 1, 1, "All", FALSE),
     D(3, "SH", "B", 0, 2, "Part")}

\* One order number twice.
RepeatMsgs == {D(1, "SZ", "A", 0, 1, "All"), D(2, "SZ", "A", 0, 1, "All")}

OneOrder == {D(1, "SZ", "A", 0, 2, "Divide")}
=============================================================================
