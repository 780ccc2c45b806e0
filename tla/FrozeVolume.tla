----------------------------- MODULE FrozeVolume -----------------------------
(***************************************************************************)
(* FrozeVolume (cache/FrozeVolume.h): one count of shares, split into a    *)
(* frozen and an unfrozen part, with the value last written to the         *)
(* database.  Every operation holds the object's mutex, so it is a         *)
(* function of the object's value.  The counts are unsigned and wrap.      *)
(***************************************************************************)
EXTENDS Integers

CONSTANT Modulus        \* one more than the largest count; 2^64 in the code

ASSUME ModulusAssumption == Modulus \in Nat \ {0}

Count == 0 .. Modulus - 1

\* m_ui64LatestSynVolume, m_ui64UnFrozeVolume, m_ui64ForzeVolume
Volume == [syn : Count, unfroze : Count, froze : Count]

VolumeInit(n) == [syn |-> n, unfroze |-> n, froze |-> 0]

\* Query: how many of n unfrozen shares there are
Query(v, n) == IF v.unfroze < n THEN v.unfroze ELSE n

\* Froze takes what it can get and always returns 0.
Froze(v, n) ==
    [v EXCEPT !.froze = (@ + Query(v, n)) % Modulus, !.unfroze = @ - Query(v, n)]

\* Mutant of Defroze: what is given back is not added to the unfrozen part.
Defroze_Drop(v, n) == [v EXCEPT !.froze = (@ - n) % Modulus]

\* Defroze complains of too large a count, and takes it all the same.
Defroze(v, n) ==
    [v EXCEPT !.froze = (@ - n) % Modulus, !.unfroze = (@ + n) % Modulus]

CanConfirm(v, n) == v.froze >= n

\* Mutant of Confirm: the frozen part is not checked.
Confirm_Unchecked(v, n) == [v EXCEPT !.froze = @ - n]

Confirm(v, n) == IF CanConfirm(v, n) THEN [v EXCEPT !.froze = @ - n] ELSE v

Add(v, n) == [v EXCEPT !.unfroze = (@ + n) % Modulus]

Held(v) == (v.froze + v.unfroze) % Modulus

DBSyn(v) == [v EXCEPT !.syn = Held(v)]

ResetSyn(v, n) == [v EXCEPT !.syn = n]
=============================================================================
