SPECIFICATION SystemSpec
CONSTANTS
  NoJob = NoJob
  NoAnswer = NoAnswer
  Docs = {d1}
  Texts = {t1}
  ChunkCount <- MCChunkCount
  MaxVersion = 2
  Fingerprints = {f1}
  SessionIds = {s1}
  MaxTurns = 2
  Chats = {c1, c2}
  KEach = 3
  TopN = 2
  RerankTopN = 1
  HistoryLimit = 2
SYMMETRY RequestSymmetry
CHECK_DEADLOCK FALSE
INVARIANTS
  SystemTypeOK
  LiveAnswersAreFresh
  PublishedIsRetrieved
  StaleOnlyByRace
  CacheHoldsNoConversation
  SessionMatchesOutcome
