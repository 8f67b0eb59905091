\* Two threads, two alerts, one case; handlers on the case overlap freely.
CONSTANTS
  Alerts = {a1, a2}
  CaseIds = {c1}
  Workers = {w1, w2}
  Overlap = TRUE
  None = None
SPECIFICATION Spec
INVARIANTS TypeOK CaseRestsOnEscalation ResolutionJustified StagesInOrder
