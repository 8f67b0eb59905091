\* One collection: a child, a descendant of it, two reader threads, the
\* calling thread, and a disk that changes.
CONSTANTS
  Limit <- MCLimit
  Timeout = 2
  ChunkSize = 2
  MaxWritten = 3
  ArtifactTypes <- MCArtifactTypes
  Stray = "stray"
  MaxChanges = 2
  ProtocolSize = 2
  None = None
SPECIFICATION Spec
INVARIANTS TypeOK OutputIsWhole VerdictIsRight EvidenceIsEarned
PROPERTY CollectionEnds
CHECK_DEADLOCK FALSE
