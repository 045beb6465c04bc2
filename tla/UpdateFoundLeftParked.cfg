SPECIFICATION FairSpec
CONSTANTS
  Seat = {h1, h2}
  Trouble <- LaunchTroubles
CHECK_DEADLOCK FALSE
PROPERTIES OutcomeIsTrue
