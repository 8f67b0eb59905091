\* Two threads and three requests of one case, overlapping freely, with every
\* failure; bounded by OneOrElevenRows.
CONSTANTS
  c1 = c1  c2 = c2  r1 = r1  r2 = r2  r3 = r3
  Cases = {c1}
  Requests = {r1, r2, r3}
  CaseOf <- ThreeCaseOf
  Workers = {w1, w2}
  Analysts = {ana}
  Reviewers = {rev}
  Overlap = TRUE
  Faults = TRUE
  None = None
SYMMETRY Alike
CONSTRAINT OneOrElevenRows
SPECIFICATION Spec
INVARIANTS TypeOK ReviewerGate OneEndPerStart EvidenceMatchesCompletion HistoryTellsStatus NoMoreLiveThanThreads
PROPERTY BundlePermanent
