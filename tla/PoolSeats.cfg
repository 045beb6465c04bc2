SPECIFICATION Spec
CONSTANTS
  Handle = {h1, h2}
  Generation = {g1, g2}
  Shell = {p1, p2}
  Caller = {t1, t2}
  Group <- AllHandles
  Cap <- OnePerGroup
  LiveCap = 1
  Ops <- SeatOps
  LaunchMayOutliveGrace = FALSE
  ClosedResumesOverlap = FALSE
  Nobody = Nobody
SYMMETRY SymmetryOfHandles
CHECK_DEADLOCK FALSE
INVARIANTS SeatHoldsLock LiveCeiling
