SPECIFICATION ConvSpec
CONSTANTS
  s1 = s1
  s2 = s2
  k1 = k1
  k2 = k2
  w1 = w1
  w2 = w2
  w3 = w3
  Nil = Nil
  Scopes = {s1, s2}
  Ids = {k1}
  Minted = {k1}
  Writers = {w1, w2}
  Attempts = 2
  Pins = {3}
  Connections = {"dsn", "pool"}
  MaxTurn = 4
  LastSave = 3
  MaxClock = 4
CHECK_DEADLOCK FALSE
CONSTRAINT Few
SYMMETRY Symmetry
VIEW TurnView
INVARIANTS
  TurnsInOrder
PROPERTIES
  TurnsAreNeverReplaced
  NoSilentLoss
  CloseKeepsToItsScope
