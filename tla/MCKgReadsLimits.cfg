SPECIFICATION GraphSpec
CONSTANTS
  x = x
  y = y
  z = z
  Names = {x, y, z}
  Types = {"CONCEPT"}
  Mentioned <- MCMentioned
  Facts <- Fork
  Sessions = {}
  Disliked = {}
  Identities = {"ana"}
  Owner <- MCOwner
  Written = {"accepted", "proposed"}
  Writers = {"w"}
  Curators = {}
  Pruners = {}
  Classifiers = {}
  MaxId = 5
  MaxDepth = 2
VIEW Seen
CHECK_DEADLOCK FALSE
\* TLC stops at the first that it finds violated: leave one at a time.
INVARIANTS
  EdgesAreCounted
  RelatedCanBeWalked
PROPERTY
  HiddenStaysHidden
