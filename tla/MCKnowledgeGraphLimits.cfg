SPECIFICATION GraphSpec
CONSTANTS
  i1 = i1
  n1 = n1
  n2 = n2
  w1 = w1
  c1 = c1
  p1 = p1
  m1 = m1
  Names = {n1, n2}
  Types = {"CONCEPT"}
  Facts <- OneFact
  Mentioned <- InFull
  Sessions = {"s1"}
  Disliked = {"s1"}
  Identities = {i1}
  Owner <- OneOwner
  Written = {"accepted", "proposed"}
  Writers = {w1}
  Curators = {c1}
  Pruners = {p1}
  Classifiers = {m1}
  MaxId = 4
CHECK_DEADLOCK FALSE
\* TLC stops at the first that it finds violated: leave one at a time.
INVARIANTS
  RejectionsStick
PROPERTIES
  UpsertsNeverWiden
  SpokenWasReviewed
  OrphansHadNoEdges
  OnlyUnclassifiedChange
