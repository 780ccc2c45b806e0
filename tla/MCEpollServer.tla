--------------------------- MODULE MCEpollServer ---------------------------
EXTENDS EpollServer
CONSTANTS c1, c2

MCMsgs == c1 :> 2 @@ c2 :> 1
=============================================================================
