--------------------------- MODULE UserStockVolume ---------------------------
(***************************************************************************)
(* UserStockVolume (cache/UserStockVolume.cpp): what one account holds of  *)
(* one security.  The total "stk" is kept next to the parts it is made of: *)
(* shares bought today ("act"), got by redeeming an ETF ("rdp"), ETF units *)
(* got by creation ("crt"), and shares available from earlier days         *)
(* ("avl").  "last" only remembers the total before the last write.        *)
(*                                                                         *)
(* An operation takes shares from a first part and then from "avl"; the    *)
(* four pairs of operations differ in the first part.  The caller holds    *)
(* g_mapUStockMutex.  m_stk_stp_pch_Balance is never used, IsExpired has   *)
(* no effect on the counts, and both are left out.                         *)
(***************************************************************************)
EXTENDS FrozeVolume

Part == {"act", "rdp", "crt", "avl"}

Balance == Part \cup {"stk", "last"}

Holding == [Balance -> Volume]

Load(row) == [b \in Balance |-> VolumeInit(IF b \in DOMAIN row THEN row[b] ELSE 0)]

Empty == [b \in Balance |-> VolumeInit(0)]

-----------------------------------------------------------------------------
(* Freezing                                                                *)

\* What is taken from the first part, and then from "avl".
FromFirst(h, first, n) == Query(h[first], n)
FromAvl(h, first, n) == Query(h["avl"], n - FromFirst(h, first, n))

Enough(h, first, n) == FromFirst(h, first, n) + FromAvl(h, first, n) = n

\* Mutant of FrozeParts: what "avl" gave stays frozen when it is not enough.
FrozeParts_KeepAvl(h, first, undo, n) ==
    LET a == FromFirst(h, first, n)
        b == FromAvl(h, first, n)
        taken == [h EXCEPT ![first] = Froze(@, a), !["avl"] = Froze(@, b)]
    IN  CASE a = n -> taken
          [] a # n /\ a + b = n -> [taken EXCEPT !["stk"] = Froze(@, n)]
          [] OTHER -> [taken EXCEPT ![undo] = Defroze(@, a)]

\* When the first part has enough, the function returns before it gets to the
\* total.  When both have not, what was frozen is given back to the part undo.
FrozeParts(h, first, undo, n) ==
    LET a == FromFirst(h, first, n)
        b == FromAvl(h, first, n)
        taken == [h EXCEPT ![first] = Froze(@, a), !["avl"] = Froze(@, b)]
    IN  CASE a = n -> taken
          [] a # n /\ a + b = n -> [taken EXCEPT !["stk"] = Froze(@, n)]
          [] OTHER -> [taken EXCEPT ![undo] = Defroze(@, a), !["avl"] = Defroze(@, b)]

SellFroze(h, n) == FrozeParts(h, "rdp", "rdp", n)

SellEtfFroze(h, n) == FrozeParts(h, "crt", "crt", n)

CreationFroze(h, n) == FrozeParts(h, "act", "rdp", n)

RedemptionFroze(h, n) == FrozeParts(h, "act", "rdp", n)

-----------------------------------------------------------------------------
(* Unfreezing and confirming                                               *)

DeFrozeParts(h, first, a, b) ==
    [h EXCEPT ![first] = Defroze(@, a),
              !["avl"] = Defroze(@, b),
              !["stk"] = Defroze(@, a + b)]

SellDeFroze(h, a, b) == DeFrozeParts(h, "rdp", a, b)

SellEtfDeFroze(h, a, b) == DeFrozeParts(h, "crt", a, b)

\* Each Confirm that fails ends the function.
ConfirmParts(h, first, a, b) ==
    CASE ~CanConfirm(h[first], a) -> h
      [] CanConfirm(h[first], a) /\ ~CanConfirm(h["avl"], b) ->
            [h EXCEPT ![first] = Confirm(@, a)]
      [] OTHER -> [h EXCEPT ![first] = Confirm(@, a),
                            !["avl"] = Confirm(@, b),
                            !["stk"] = Confirm(@, a + b)]

\* Mutant of SellConfirm: the parts are swapped.
SellConfirm_Swapped(h, a, b) == ConfirmParts(h, "rdp", b, a)

SellConfirm(h, a, b) == ConfirmParts(h, "rdp", a, b)

SellEtfConfirm(h, a, b) == ConfirmParts(h, "crt", a, b)

CreationConfirm(h, a, b) == ConfirmParts(h, "act", a, b)

RedemptionConfirm(h, a, b) == ConfirmParts(h, "act", a, b)

AddTo(h, part, n) == [h EXCEPT ![part] = Add(@, n), !["stk"] = Add(@, n)]

AddAct(h, n) == AddTo(h, "act", n)

AddCrt(h, n) == AddTo(h, "crt", n)

AddRdp(h, n) == AddTo(h, "rdp", n)

-----------------------------------------------------------------------------
(* SellDBSyn, AddActSyn and the others: the parts named have been written  *)
(* to the database together with the total.                                *)

\* Mutant of SynParts: the value of "last" is not remembered.
SynParts_NoLast(h, parts) ==
    [b \in Balance |-> IF b \in parts \cup {"stk"} THEN DBSyn(h[b]) ELSE h[b]]

SynParts(h, parts) ==
    [b \in Balance |->
        IF b \in parts \cup {"stk"} THEN DBSyn(h[b])
        ELSE IF b = "last" THEN ResetSyn(h[b], h["stk"].syn)
        ELSE h[b]]
=============================================================================
