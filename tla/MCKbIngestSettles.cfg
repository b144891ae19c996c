SPECIFICATION LiveSpec
CONSTANTS
  d1 = d1
  owner = owner
  a = a
  b = b
  w1 = w1
  w2 = w2
  Nil = Nil
  Docs = {d1}
  Owners = {owner}
  OwnerOf <- MCOwnerOf
  Under <- MCUnder
  Contents = {a, b}
  SameBytes <- MCOneModel
  PlansOf <- MCOnePlan
  Ordinals = {1}
  StageBatch = 1
  Workers = {w1}
  DraftTtl = 1
  Stale = 0
  SweepLimit = 1
  MaxDocuments = 1
  MaxVersion = 2
  MaxClock = 2
  LastUpload = 1
VIEW LiveView
CHECK_DEADLOCK FALSE
PROPERTIES
  EveryVersionSettles
