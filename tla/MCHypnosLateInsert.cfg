SPECIFICATION HypnosSpec
CONSTANTS
  s1 = s1
  s2 = s2
  k1 = k1
  k2 = k2
  w1 = w1
  w2 = w2
  j1 = j1
  j2 = j2
  p1 = p1
  Nil = Nil
  Attempts = 1
  Pins = {}
  Connections = {"pool"}
  Limit = 1
  Scopes = {s1}
  Ids = {k1}
  Minted = {}
  Writers = {w1, w2}
  Janitors = {j1}
  Callers = {}
  Locking = FALSE
  MaxTurn = 2
  LastSave = 2
  MaxClock = 3
  MaxFaults = 0
CHECK_DEADLOCK FALSE
INVARIANTS
  MarkersAgree
