SPECIFICATION GraphSpec
CONSTANTS
  i1 = i1
  n1 = n1
  n2 = n2
  w1 = w1
  c1 = c1
  p1 = p1
  m1 = m1
  Names = {n1, n2}
  Types = {"CONCEPT", "PERSON"}
  Facts <- OneFact
  Mentioned <- InFull
  Sessions = {"s1"}
  Disliked = {"s1"}
  Identities = {i1}
  Owner <- OneOwner
  Written = {"accepted", "proposed"}
  Writers = {w1}
  Curators = {c1}
  Pruners = {p1}
  Classifiers = {m1}
  MaxId = 4
CONSTRAINT OneReader
CHECK_DEADLOCK FALSE
INVARIANTS
  EdgesHaveEnds
PROPERTIES
  VerdictsStand
  AcceptedGainNoProposals
  UpsertsKeepAudiences
