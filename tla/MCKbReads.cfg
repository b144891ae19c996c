SPECIFICATION ReadsSpec
CONSTANTS
  d1 = d1
  d2 = d2
  tenant = tenant
  agent = agent
  a = a
  b = b
  c = c
  r1 = r1
  guest = guest
  Nil = Nil
  Docs = {d1}
  Owners = {tenant, agent}
  OwnerOf <- MCOwnerOf
  Under <- MCUnder
  Contents = {a, b}
  Ordinals = {1, 2}
  DraftTtl = 1
  Stale = 0
  SweepLimit = 2
  MaxDocuments = 1
  MaxVersion = 2
  MaxClock = 1
  Profiles = {guest}
  Readers = {r1}
  PageSize = 1
SYMMETRY Symmetry
VIEW LiveView
CHECK_DEADLOCK FALSE
INVARIANTS
  StoreInv
  WalksReadOneText
PROPERTIES
  ServedIsImmutable
  NumbersAreNotReused
  AnswersMoveForward
  RemovalsAreRecorded
