SPECIFICATION IngestSpec
CONSTANTS
  d1 = d1
  owner = owner
  a = a
  b = b
  w1 = w1
  w2 = w2
  Nil = Nil
  Docs = {d1}
  Owners = {owner}
  OwnerOf <- MCOwnerOf
  Under <- MCUnder
  Contents = {a, b}
  SameBytes <- MCOneModel
  PlansOf <- MCOnePlan
  Ordinals = {1, 2}
  StageBatch = 1
  Workers = {w1, w2}
  DraftTtl = 1
  Stale = 0
  SweepLimit = 1
  MaxDocuments = 1
  MaxVersion = 2
  MaxClock = 1
  LastUpload = 1
CHECK_DEADLOCK FALSE
SYMMETRY Symmetry
VIEW LiveView
\* TLC stops at the first that it finds violated: leave one at a time.
INVARIANTS
  ServedIsWhole
  EmbeddedOnce
PROPERTIES
  SupersededByALiveUpload
