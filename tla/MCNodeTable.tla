----------------------------- MODULE MCNodeTable -----------------------------
(* A small instance of NodeTable.                                            *)
EXTENDS NodeTable, TLC

CONSTANTS e1, e2, h1, h2

\* Two devices whose identifiers differ in both halves.
MCIeees == {e1, e2}
MCIdOf == [e \in Ieees |-> IF e = e1 THEN <<h1, h1>> ELSE <<h2, h2>>]

\* Addresses only ever get compared.
ShortSymmetry == Permutations(Shorts)
==============================================================================
