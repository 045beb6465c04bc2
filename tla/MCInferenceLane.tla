-------------------------- MODULE MCInferenceLane --------------------------
(* InferenceLane for TLC: three callers and what may befall them. *)
EXTENDS InferenceLane

CONSTANTS c1, c2, c3

World(callers, human, mortal, stalls) ==
  [callers |-> callers, human |-> human, mortal |-> mortal, stalls |-> stalls]

\* A caller that may be killed anywhere and a turn for a human among three; two
\* callers of which one is suspended, in its turn or while it waits, and the
\* other killed.
PassingWorlds ==
  {World({c1, c2, c3}, {c2}, {c3}, {}), World({c1, c2}, {}, {c2}, {c1})}

\* A holder that is killed among three seats.
SeatsAndCrash == {World({c1, c2, c3}, {}, {c3}, {})}
=============================================================================
