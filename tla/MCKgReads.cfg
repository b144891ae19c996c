SPECIFICATION GraphSpec
CONSTANTS
  x = x
  y = y
  z = z
  Names = {x, y, z}
  Types = {"CONCEPT"}
  Mentioned <- MCMentioned
  Facts <- Triangle
  Sessions = {}
  Disliked = {}
  Identities = {"ana"}
  Owner <- MCOwner
  Written = {"accepted"}
  Writers = {"w"}
  Curators = {}
  Pruners = {}
  Classifiers = {}
  MaxId = 6
  MaxDepth = 2
VIEW Seen
CONSTRAINT PurgesAlone
CHECK_DEADLOCK FALSE
INVARIANTS
  SameWalk
  SameAnswers
  StatsAreTheContexts
  EdgesShowTheirEnds
PROPERTIES
  HiddenShowsInOffersAlone
