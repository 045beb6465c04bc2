SPECIFICATION Spec
CONSTANTS
  Handle = {h1}
  Generation = {g1}
  Shell = {p1, p2, p3}
  Caller = {t1, t2}
  Group <- AllHandles
  Cap <- TwoPerGroup
  LiveCap = 2
  Ops <- ReopenOps
  LaunchMayOutliveGrace = FALSE
  ClosedResumesOverlap = TRUE
  Nobody = Nobody
SYMMETRY Symmetry
CHECK_DEADLOCK FALSE
INVARIANT OneShellPerHandle
