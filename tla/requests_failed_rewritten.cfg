\* Two threads on one request, overlapping freely; no thread dies.
CONSTANTS
  c1 = c1  c2 = c2  r1 = r1  r2 = r2  r3 = r3
  Cases = {c1}
  Requests = {r1}
  CaseOf <- OneCaseOf
  Workers = {w1, w2}
  Analysts = {ana}
  Reviewers = {rev}
  Overlap = TRUE
  Faults = FALSE
  None = None
SPECIFICATION Spec
PROPERTY FailedStaysFailed
