SPECIFICATION Spec
CONSTANTS
  c1 = c1
  c2 = c2
  c3 = c3
  NoOne = NoOne
  Caller = {c1, c2, c3}
  Worlds <- SeatsAndCrash
INVARIANT OneLane
