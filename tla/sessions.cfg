\* Two tabs of one browser, two users, two sessions; a session lives for three
\* ticks, two without use.
CONSTANTS
  Tabs = {t1, t2}
  Users = {ann, bob}
  Ids = {s1, s2}
  Idle = 2
  Absolute = 3
  MaxTime = 3
  None = None
SPECIFICATION Spec
SYMMETRY Symmetry
INVARIANTS TypeOK EndIsFinal OnlyUseKeepsAlive
PROPERTY ActsForItsPage
