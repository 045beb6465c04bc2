SPECIFICATION FairSpec
CONSTANTS
  Handle = {h1}
  Generation = {g1, g2}
  Shell = {p1, p2}
  Caller = {t1, t2}
  Group <- AllHandles
  Cap <- TwoPerGroup
  LiveCap = 2
  Ops <- CloseOps
  LaunchMayOutliveGrace = TRUE
  ClosedResumesOverlap = FALSE
  Nobody = Nobody
CHECK_DEADLOCK FALSE
PROPERTIES CloseHonoured GivenUpLaunchEnds
