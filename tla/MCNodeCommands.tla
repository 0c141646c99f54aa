--------------------------- MODULE MCNodeCommands ---------------------------
(* A small instance of NodeCommands.                                         *)
EXTENDS NodeCommands, TLC

CONSTANTS e1, e2, h1, h2

\* Two devices whose identifiers differ in both halves.
MCIeees == {e1, e2}
MCIdOf == [e \in {e1, e2} |-> IF e = e1 THEN <<h1, h1>> ELSE <<h2, h2>>]

\* Commands read nothing the clock or the heartbeat writes: this instance
\* stops at the first tick (MCNodeTable lets the clock run).
ClockStopped == clock = 0

ShortSymmetry == Permutations(Shorts)
==============================================================================
