------------------------------ MODULE MC_WebUi ------------------------------
(* Two originals of one name, and one file id. *)
EXTENDS WebUiClaims, TLC

CONSTANT n1

OneName == [o \in Original |-> n1]
Symmetry == Permutations(Request) \union Permutations(Original)
=============================================================================
