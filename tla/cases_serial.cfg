\* Two threads, one alert, two cases; one handler at a time per case.
CONSTANTS
  Alerts = {a1}
  CaseIds = {c1, c2}
  Workers = {w1, w2}
  Overlap = FALSE
  None = None
SPECIFICATION Spec
INVARIANT TimelineIsChain
