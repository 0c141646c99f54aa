----------------------------- MODULE Subsequence -----------------------------
(***************************************************************************)
(* The elements of a sequence at some of its positions, in their order:    *)
(* what SelectSeq of the standard module Sequences returns, but defined    *)
(* without recursion, so that facts about it can be proved                 *)
(* (SubsequenceProofs.tla).                                                *)
(***************************************************************************)
EXTENDS Integers, Sequences, FiniteSets

\* The place of position i among the positions in P.
Rank(P, i) == Cardinality({j \in P : j <= i})

\* The elements of s at the positions in P.
Subsequence(s, P) == [k \in 1 .. Cardinality(P) |-> s[CHOOSE i \in P : Rank(P, i) = k]]
==============================================================================
