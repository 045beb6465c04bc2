SPECIFICATION FairSpec
CONSTANTS
  Seat = {h1, h2}
  Trouble <- HelperTroubles
CHECK_DEADLOCK FALSE
INVARIANTS TypeOK OldRunsOnOldData LockCoversUpdate
PROPERTIES OutcomeIsTrue SeatsComeBack
