\* Two cases, two requests on the first; one handler at a time per case, with
\* every failure.
CONSTANTS
  c1 = c1  c2 = c2  r1 = r1  r2 = r2  r3 = r3
  Cases = {c1, c2}
  Requests = {r1, r2, r3}
  CaseOf <- TwoCaseOf
  Workers = {w1, w2}
  Analysts = {ana}
  Reviewers = {rev}
  Overlap = FALSE
  Faults = TRUE
  None = None
SPECIFICATION Spec
INVARIANT OutcomeMatchesEvidence
PROPERTY FollowsLifecycle
