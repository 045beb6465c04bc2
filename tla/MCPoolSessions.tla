--------------------------- MODULE MCPoolSessions ---------------------------
(* PoolSessions for TLC: what the environment calls, and the caps. *)
EXTENDS PoolSessions, TLC

\* Seats are only parked, never resumed; the pool may restart.
SeatOps == {"spawn", "release", "reap", "park", "exit", "restart"}

\* Seats close themselves, park and are resumed, closed ones too, also by the
\* updater's pass, and the pool restarts but between a launch and its record, or
\* a close and its kill; nobody reaps the seats.
ResumeOps ==
  {"spawn", "release", "park", "resume", "exit", "calm_restart", "for_update"}

\* Two resumes of a closed seat, and nothing else.
ReopenOps == {"spawn", "release", "resume"}

\* Nobody parks or resumes.
CloseOps == {"spawn", "release", "reap", "usage", "sweep", "exit"}

AllHandles == {Handle}
OnePerGroup == [g \in Group |-> 1]
TwoPerGroup == [g \in Group |-> 2]

Symmetry == Permutations(Shell) \cup Permutations(Caller)
              \cup Permutations(Generation)
SymmetryOfHandles == Symmetry \cup Permutations(Handle)
=============================================================================
