SPECIFICATION FairSpec
CONSTANTS
  Proc = {p1, p2, p3}
  Cli = {c1, c2}
  Tick = Tick
  Nobody = Nobody
  Bundled <- InBundle
  FailThreshold <- TwoMisses
  CrashLoopMax <- OneRestart
  MaxCommands = 2
  MaxFaults = 2
CHECK_DEADLOCK FALSE
INVARIANTS TypeOK StopHolds
PROPERTIES ComesBack
