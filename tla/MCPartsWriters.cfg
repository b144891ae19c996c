SPECIFICATION AmongWriters
CONSTANTS
  f1 = f1
  f2 = f2
  f3 = f3
  Nil = Nil
  Facts = {f1, f2, f3}
  Ids = {1, 2, 3}
  Personas = {"front"}
  Batch = 2
  Ceiling = 1
  Confidences = {1, 2}
  ScoreCap = 1
  Touched = 1
  MaxCalls = 2
  Jobs = {j1, j2}
  Limit = 2
  MaxTokens = 3
  LastTick = 6
  Nodes = {1, 2, 3, 4}
  Key <- MCKey
  Keys = {"rex", "ana"}
  Relations = {"knows"}
  Start <- MCStart
  Asserted <- MCAsserted
  NoNode = NoNode
  Characters <- MCCharacters
  Target = 10
  Overlap = 3
  Title <- MCTitle
  Lines <- MCLines
  Pages <- MCPages
  Bookmarks <- MCBookmarks
  MaxPieces = 4
  Edges <- MCEdges
  Recall <- MCRecall
  Questions <- MCQuestions
  Stopwords = {"the", "a", "has"}
  Scale = 24
  Floor = 8
  TopK = 2
  MaxCandidates = 9
  Turns = {c1, c2}
  Writers = {w1, w2}
  RevisionWindow = 1
  NoTrace = NoTrace
  LastDay = 3
  MaxLosses = 1
  Talks = {t1, t2}
  MaxSize = 2
  Ttl = 2
  MaxPushes = 4
  LastInstant = 5
CHECK_DEADLOCK FALSE
INVARIANTS
  EveryEdgeIsKept
