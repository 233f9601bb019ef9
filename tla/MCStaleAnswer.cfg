SPECIFICATION SystemSpec
CONSTANTS
  NoJob = NoJob
  NoAnswer = NoAnswer
  Docs = {d1}
  Texts = {t1}
  ChunkCount <- MCChunkCount
  MaxVersion = 2
  Fingerprints = {f1}
  SessionIds = {s1}
  MaxTurns = 2
  Chats = {c1}
  KEach = 3
  TopN = 2
  RerankTopN = 1
  HistoryLimit = 2
CHECK_DEADLOCK FALSE
INVARIANT
  CachedAnswersAreFresh
