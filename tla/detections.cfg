\* Two evaluations at a time, beside imports, edits and a failed verification.
CONSTANTS
  v1 = v1  e1 = e1  e2 = e2  None = None
  Feed <- MCFeed
  Deliveries <- MCDeliveries
  Verifications = {v1}
  Contents <- MCContents
  Evaluators = {e1, e2}
  ChunkSize = 3
  MaxCandidates = 5
SYMMETRY Interchangeable
SPECIFICATION Spec
INVARIANTS TypeOK WindowsAsDescribed AlertsExplained NothingMissed
PROPERTY AlertsStay
CHECK_DEADLOCK FALSE
