SPECIFICATION SearchSpec
CONSTANTS
  d1 = d1
  owner = owner
  a = a
  b = b
  r1 = r1
  guest = guest
  Nil = Nil
  Docs = {d1}
  Owners = {owner}
  OwnerOf <- MCOwnerOf
  Under <- MCUnder
  Contents = {a, b}
  Ordinals = {1}
  DraftTtl = 1
  Stale = 0
  SweepLimit = 1
  MaxDocuments = 1
  MaxVersion = 2
  MaxClock = 0
  Profiles = {guest}
  Readers = {r1}
  PageSize = 1
  ModelOf <- MCModelOf
  InMemory = FALSE
SYMMETRY Symmetry
VIEW LiveView
CHECK_DEADLOCK FALSE
INVARIANTS
  OneVectorSpace
