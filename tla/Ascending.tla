----------------------------- MODULE Ascending ------------------------------
(***************************************************************************)
(* A finite set of numbers as the sequence an ORDER BY, or a map with      *)
(* those keys, lists it in.                                                *)
(***************************************************************************)
EXTENDS Naturals, FiniteSets

Ascending(ids) ==
    [k \in 1..Cardinality(ids) |-> CHOOSE i \in ids : Cardinality({j \in ids : j <= i}) = k]
=============================================================================
