SPECIFICATION FairSpec
CONSTANTS
  colon = colon
  under = under
  dash = dash
  child = child
  f1 = f1
  f2 = f2
  f3 = f3
  s1 = s1
  MailCount = 3
  SentTs = {1, 2}
  Address = {colon, under, dash, child}
  SentTo = {colon, child}
  Relative = {child}
  Registered <- ChildMoves
  File = {f1, f2, f3}
  FileOf <- SharedFile
  Stream = {s1}
  Sub <- OneReader
  MaxFaults = 1
INVARIANTS TypeOK NothingSkipped AckedIsStored SoleReaderAwake
PROPERTIES DeliversInOrder EveryMailArrives
CHECK_DEADLOCK FALSE
