SPECIFICATION Spec
CONSTANTS
  e = e
  s = s
  r = r
  k = k
  q = q
  w = w
  ce = ce
  cs = cs
  cz = cz
  cr = cr
  ck = ck
  cq = cq
  cw = cw
  a = a
  b = b
  Epic = e
  Story = {s, r, k, q}
  Task = {w}
  Home <- TaskHome
  Review = {r}
  Knowledge = {k}
  Quick = {q}
  Criterion = {ce, cs, cz, cr, ck, cq, cw}
  On <- LineOf
  Overridden = {}
  Thread = {a, b}
  Worlds <- WalkWorlds
SYMMETRY Threads
INVARIANTS TypeOK NoStrandedReview NothingLeftWaiting LastReleaseReviews
PROPERTIES ReadyIsEarned EndedIsSettled FinalIsFinal
