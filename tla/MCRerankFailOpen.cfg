SPECIFICATION EvalSpec
CONSTANTS
  MaxTokens = 10
  Overlap = 2
  SegmentSizes = {1, 3, 6}
  MaxSentences = 5
  MaxWords = 8
  Chunks = {"c1", "c2", "c3", "c4"}
  DocOf <- MCDocOf
  KEach = 3
  TopN = 3
  Replies <- MCReplies
CHECK_DEADLOCK FALSE
INVARIANT RerankFailsOpen
