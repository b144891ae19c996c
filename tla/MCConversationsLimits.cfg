SPECIFICATION ConvSpec
CONSTANTS
  s1 = s1
  s2 = s2
  k1 = k1
  k2 = k2
  w1 = w1
  w2 = w2
  w3 = w3
  Nil = Nil
  Scopes = {s1}
  Ids = {k1}
  Minted = {k1}
  Writers = {w1, w2}
  Attempts = 1
  Pins = {0}
  Connections = {"dsn"}
  MaxTurn = 2
  LastSave = 2
  MaxClock = 3
CHECK_DEADLOCK FALSE
\* TLC stops at the first that it finds violated: leave one at a time.
INVARIANTS
  TurnsInTime
PROPERTIES
  ErasedAtOnce
  AnswersTellLosses
