SPECIFICATION Spec
CONSTANTS
  Handle = {h1}
  Generation = {g1, g2}
  Shell = {p1, p2, p3}
  Caller = {t1, t2, t3}
  Group <- AllHandles
  Cap <- TwoPerGroup
  LiveCap = 2
  Ops <- ResumeOps
  LaunchMayOutliveGrace = FALSE
  ClosedResumesOverlap = FALSE
  Nobody = Nobody
SYMMETRY Symmetry
CHECK_DEADLOCK FALSE
INVARIANTS TypeOK ReservationHoldsLock OneShellPerHandle NoShellIsLost
PROPERTIES SeatsOnePerHandle
