\* Two alerts, two tabs: every race of pages, posts and evaluations.
CONSTANTS
  Alerts = {a1, a2}
  Workers = {w1, w2}
  None = None
SPECIFICATION FairSpec
INVARIANTS TypeOK HistoryIsChain
PROPERTIES ImplementsWorkflow DecisionOrProgress
