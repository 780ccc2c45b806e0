------------------------- MODULE TradePolicyManage --------------------------
(***************************************************************************)
(* cache/TradePolicyManage.cpp: how orders of a connection are treated.    *)
(* The web server may give a strategy to a Shanghai connection, to a       *)
(* Shenzhen connection and to a seat of one; without one the global        *)
(* settings count, which the switch request changes one by one without any *)
(* lock.  A policy here has two of its five fields.                        *)
(***************************************************************************)
EXTENDS Naturals

CONSTANT NoPolicy
ASSUME PolicyAssumption == NoPolicy \notin [match : Nat, check : Nat]

VARIABLES polSh,  \* the Shanghai connection's policy, or NoPolicy
          polSz,  \* [self, seat] of the Shenzhen connection
          glob    \* the global settings

polVars == <<polSh, polSz, glob>>

Cell(n) == [match |-> n, check |-> n]

\* The global settings: [match, check, quot], of the file at first.
GlobalDefault == [match |-> 10, check |-> 10, quot |-> TRUE]
CheckOn == 20
Global(g) == [match |-> g.match, check |-> g.check]

PolicyInit == polSh = NoPolicy /\ polSz = [self |-> NoPolicy, seat |-> NoPolicy] /\ glob = GlobalDefault

Set_Sh(n) == polSh' = Cell(n) /\ UNCHANGED <<polSz, glob>>
Set_Sz_Conn(n) == polSz' = [polSz EXCEPT !.self = Cell(n)] /\ UNCHANGED <<polSh, glob>>
\* A seat of a connection without a policy gives it to the connection too.
Set_Sz_Seat(n) ==
    /\ polSz' = [self |-> IF polSz.self = NoPolicy THEN Cell(n) ELSE polSz.self, seat |-> Cell(n)]
    /\ UNCHANGED <<polSh, glob>>

Get_Sh == IF polSh = NoPolicy THEN Global(glob) ELSE polSh

\* seat: the order's seat is the one that may have a policy of its own.
Get_Sz(seat) == IF polSz.self = NoPolicy THEN Global(glob)
                ELSE IF seat /\ polSz.seat # NoPolicy THEN polSz.seat ELSE polSz.self
=============================================================================
