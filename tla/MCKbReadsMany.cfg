SPECIFICATION ReadsSpec
CONSTANTS
  d1 = d1
  d2 = d2
  tenant = tenant
  agent = agent
  a = a
  b = b
  c = c
  r1 = r1
  guest = guest
  Nil = Nil
  Docs = {d1, d2}
  Owners = {tenant, agent}
  OwnerOf <- MCOwnerOf
  Under <- MCUnder
  Contents = {a}
  Ordinals = {1}
  DraftTtl = 1
  Stale = 0
  SweepLimit = 2
  MaxDocuments = 1
  MaxVersion = 1
  MaxClock = 1
  Profiles = {}
  Readers = {}
  PageSize = 1
SYMMETRY Symmetry
VIEW LiveView
CHECK_DEADLOCK FALSE
INVARIANTS
  NoOrphans
PROPERTIES
  RemovalsAreRecorded
