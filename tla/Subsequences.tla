---------------------------- MODULE Subsequences ----------------------------
(***************************************************************************)
(* What std::remove_if and the program's own loops that erase leave of a   *)
(* list, for modules that theorems are about: SelectSeq of Sequences has   *)
(* no definition the prover can expand.                                    *)
(***************************************************************************)
EXTENDS Naturals, Sequences, FiniteSets

\* The positions of s that hold an element of S, and the k-th of them.
At(s, S)     == {i \in 1 .. Len(s) : s[i] \in S}
Nth(s, S, k) == CHOOSE i \in At(s, S) : Cardinality({j \in At(s, S) : j <= i}) = k

\* The elements of s that are in S, and those that are not, in their order.
Only(s, S)    == [k \in 1 .. Cardinality(At(s, S)) |-> s[Nth(s, S, k)]]
Without(s, S) == Only(s, {s[i] : i \in 1 .. Len(s)} \ S)
=============================================================================
