SPECIFICATION Spec
CONSTANTS
  d1 = d1
  blank = blank
  short = short
  long = long
  NoJob = NoJob
  Docs = {d1}
  Texts <- MCTexts
  ChunkCount <- MCChunkCount
  MaxVersion = 3
CHECK_DEADLOCK FALSE
INVARIANTS
  TypeOK
  CommittedServed
  OrphansReclaimable
  SuccessLeavesOneVersion
  RollbackLeavesNoOrphans
  OneActiveVersion
PROPERTIES
  ImplementsCatalog
  IngestEnds
