------------------------- MODULE DetectionsProofs -------------------------
(***************************************************************************)
(* Proofs about Detections: that the loop of _candidates finds the windows *)
(* its rules describe, for every feed of events and every part of it that  *)
(* has arrived, and that every alert can be explained from the tables,     *)
(* for every number of evaluations, files and verifications.               *)
(***************************************************************************)
EXTENDS Detections, FiniteSetTheorems, WellFoundedInduction, TLAPS

-----------------------------------------------------------------------------
(* Induction over the natural numbers, for a set instead of a formula.     *)

\* Every nonempty set of natural numbers has a least element.
LEMMA LeastElement ==
  ASSUME NEW S, S \subseteq Nat, S # {}
  PROVE  \E n \in S : \A m \in S : n <= m
<1> DEFINE R == {ss \in Nat \X Nat : ss[1] < ss[2]}
<1>1. IsWellFoundedOn(R, Nat)
  BY NatLessThanWellFounded DEF OpToRel
<1>2. PICK n \in S : \A m \in S : ~ (<<m, n>> \in R)
  <2> HIDE DEF R
  <2> QED
    BY <1>1, WFMin
<1>3. ASSUME NEW m \in S PROVE n <= m
  <2>1. m \in Nat /\ n \in Nat
    OBVIOUS
  <2>2. ~ m < n
    BY <1>2, <2>1
  <2> QED
    BY <2>1, <2>2
<1> QED
  BY <1>3

\* What 0 has and every successor inherits, every natural number has.
LEMMA NatSetInduction ==
  ASSUME NEW S, 0 \in S, \A n \in Nat : n \in S => n + 1 \in S
  PROVE  Nat \subseteq S
<1> DEFINE T == Nat \ S
<1> SUFFICES ASSUME T # {} PROVE FALSE
  OBVIOUS
<1>1. PICK n \in T : \A m \in T : n <= m
  <2>1. T \subseteq Nat
    OBVIOUS
  <2> HIDE DEF T
  <2> QED
    BY <2>1, LeastElement
<1>2. n # 0 /\ n - 1 \in Nat /\ ~ n <= n - 1
  OBVIOUS
<1>3. n - 1 \in S => (n - 1) + 1 \in S
  BY <1>2
<1> QED
  BY <1>1, <1>2, <1>3

-----------------------------------------------------------------------------
(* The last elements of a set of events.                                   *)

\* A set of at least k natural numbers has k last ones: the lists history of
\* the loop are long enough for the slice history[-threshold:].
LEMMA LastOfCardinality ==
  ASSUME NEW S, S \subseteq Nat, IsFiniteSet(S),
         NEW k \in Nat, k <= Cardinality(S)
  PROVE  Cardinality(LastOf(k, S)) = k
<1> DEFINE Good(T) == \A l \in Nat : l <= Cardinality(T) => Cardinality(LastOf(l, T)) = l
           I == {n \in Nat : \A T \in SUBSET Nat :
                   IsFiniteSet(T) /\ Cardinality(T) = n => Good(T)}
<1>1. 0 \in I
  <2> SUFFICES ASSUME NEW T \in SUBSET Nat, IsFiniteSet(T), Cardinality(T) = 0
               PROVE  Good(T)
    OBVIOUS
  <2>1. T = {}
    BY FS_EmptySet
  <2>2. \A l \in Nat : LastOf(l, {}) = {}
    BY DEF LastOf
  <2> QED
    BY <2>1, <2>2, FS_EmptySet
<1>2. ASSUME NEW n \in Nat, n \in I PROVE n + 1 \in I
  <2> SUFFICES ASSUME NEW T \in SUBSET Nat, IsFiniteSet(T), Cardinality(T) = n + 1,
                      NEW l \in Nat, l <= n + 1
               PROVE  Cardinality(LastOf(l, T)) = l
    OBVIOUS
  <2>1. T # {}
    BY FS_EmptySet
  <2>2. PICK m \in T : \A j \in T : m <= j
    BY <2>1, LeastElement
  <2> DEFINE U == T \ {m}
  <2>3. U \in SUBSET Nat /\ IsFiniteSet(U) /\ Cardinality(U) = n
    <3>1. IsFiniteSet(U) /\ Cardinality(U) = Cardinality(T) - 1
      BY FS_RemoveElement
    <3>2. U \in SUBSET Nat
      OBVIOUS
    <3> HIDE DEF U
    <3> QED
      BY <3>1, <3>2
  <2>4. Good(U)
    BY <1>2, <2>3
  <2>5. {j \in T : j > m} = U
    <3>1. ASSUME NEW j \in T PROVE j > m <=> j # m
      <4>1. j \in Nat /\ m \in Nat /\ m <= j
        BY <2>2
      <4> QED
        BY <4>1
    <3> QED
      BY <3>1
  <2>6. \A x \in U : {j \in T : j > x} = {j \in U : j > x}
    BY <2>2
  <2>7. CASE l <= n
    <3>1. LastOf(l, T) = LastOf(l, U)
      <4>1. m \notin LastOf(l, T)
        BY <2>3, <2>5, <2>7 DEF LastOf
      <4>2. \A x \in U : x \in LastOf(l, T) <=> x \in LastOf(l, U)
        BY <2>6 DEF LastOf
      <4>3. LastOf(l, T) \subseteq T /\ LastOf(l, U) \subseteq U
        BY DEF LastOf
      <4> QED
        BY <4>1, <4>2, <4>3
    <3> QED
      BY <3>1, <2>3, <2>4, <2>7
  <2>8. CASE l = n + 1
    <3>1. \A x \in T : Cardinality({j \in T : j > x}) < l
      <4> SUFFICES ASSUME NEW x \in T PROVE Cardinality({j \in T : j > x}) <= n
        BY <2>8, FS_Subset, FS_CardinalityType
      <4>1. {j \in T : j > x} \in SUBSET U
        BY <2>2
      <4> QED
        BY <4>1, <2>3, FS_Subset
    <3>2. LastOf(l, T) = T
      BY <3>1 DEF LastOf
    <3> QED
      BY <3>2, <2>8
  <2> QED
    BY <2>7, <2>8
<1>3. Nat \subseteq I
  <2> HIDE DEF I
  <2> QED
    BY <1>1, <1>2, NatSetInduction
<1>4. Cardinality(S) \in Nat
  BY FS_CardinalityType
<1> QED
  BY <1>3, <1>4

-----------------------------------------------------------------------------
(* The loop of _candidates.                                                *)

LEMMA FeedTyped ==
  /\ Len(Feed) \in Nat
  /\ DOMAIN Feed = 1..Len(Feed)
  /\ \A n \in DOMAIN Feed : Feed[n].time \in Int
  /\ \A n, m \in DOMAIN Feed : n < m => Feed[n].time <= Feed[m].time
BY FeedAssumption

\* What the loop makes of an event.
Advance(r, c, events, actor, acc, n) ==
  IF n \in events /\ IsLogin(actor, n) THEN WindowStep(r, c, acc, n) ELSE acc

Start == [history |-> {}, found |-> {}]

\* The recursive definition of the loop defines a function: it holds nothing
\* before the first event and goes on from each event to the next.
LEMMA LoopEquations ==
  ASSUME NEW r, NEW c, NEW events, NEW actor
  PROVE  /\ Loop(r, c, events, actor)[0] = Start
         /\ \A n \in DOMAIN Feed :
              Loop(r, c, events, actor)[n] =
                Advance(r, c, events, actor, Loop(r, c, events, actor)[n - 1], n)
<1> DEFINE N == Len(Feed)
           Body(g, n) == IF n = 0 THEN Start
                         ELSE Advance(r, c, events, actor, g[n - 1], n)
           I == {k \in Nat : \E g : g = [n \in 0..k |-> Body(g, n)]}
<1>1. 0 \in I
  <2>1. [n \in 0..0 |-> Start] = [n \in 0..0 |-> Body([n_1 \in 0..0 |-> Start], n)]
    OBVIOUS
  <2> QED
    BY <2>1
<1>2. ASSUME NEW k \in Nat, k \in I PROVE k + 1 \in I
  <2>1. PICK g : g = [n \in 0..k |-> Body(g, n)]
    BY <1>2
  <2> DEFINE h == [n \in 0..(k + 1) |->
                     IF n = k + 1 THEN Advance(r, c, events, actor, g[k], n) ELSE g[n]]
  <2>2. ASSUME NEW n \in 0..(k + 1) PROVE h[n] = Body(h, n)
    <3>1. CASE n = k + 1
      <4>1. h[n - 1] = g[k]
        BY <3>1
      <4>2. h[n] = Advance(r, c, events, actor, g[k], n)
        BY <3>1
      <4> QED
        BY <3>1, <4>1, <4>2
    <3>2. CASE n # k + 1
      <4>1. n \in 0..k /\ h[n] = g[n]
        BY <3>2
      <4>2. g[n] = Body(g, n)
        BY <2>1, <4>1
      <4>3. n # 0 => h[n - 1] = g[n - 1]
        BY <3>2
      <4> QED
        BY <4>1, <4>2, <4>3
    <3> QED
      BY <3>1, <3>2
  <2>3. h = [n \in 0..(k + 1) |-> Body(h, n)]
    <3>1. h = [n \in 0..(k + 1) |-> h[n]]
      OBVIOUS
    <3> HIDE DEF h, Body
    <3> QED
      BY <2>2, <3>1
  <2>4. \E f : f = [n \in 0..(k + 1) |-> Body(f, n)]
    <3> HIDE DEF h, Body
    <3> QED
      BY <2>3
  <2> QED
    BY <2>4
<1>3. Nat \subseteq I
  <2> HIDE DEF I
  <2> QED
    BY <1>1, <1>2, NatSetInduction
<1>4. \E g : g = [n \in 0..N |-> Body(g, n)]
  BY <1>3, FeedTyped
<1> DEFINE L == Loop(r, c, events, actor)
<1>5. L = CHOOSE g : g = [n \in 0..N |-> Body(g, n)]
  BY DEF Loop, Start, Advance
<1>6. L = [n \in 0..N |-> Body(L, n)]
  <2> HIDE DEF L, Body
  <2> QED
    BY <1>4, <1>5
<1>7. \A n \in 0..N : L[n] = Body(L, n)
  <2> HIDE DEF L, Body
  <2> QED
    BY <1>6
<1> QED
  <2>1. 0 \in 0..N /\ \A n \in DOMAIN Feed : n \in 0..N /\ n # 0
    BY FeedTyped
  <2> QED
    BY <1>7, <2>1

WindowRules == {"AUTH-001", "AUTH-002"}

\* The failures of an actor up to event n that a rule may still count,
\* whatever its window: for AUTH-002 those since the last success.
Fresh(r, events, actor, n) ==
  {k \in events :
     /\ k <= n
     /\ IsLogin(actor, k)
     /\ Feed[k].outcome = "FAILURE"
     /\ r = "AUTH-002" => \A j \in events :
          IsLogin(actor, j) /\ Feed[j].outcome = "SUCCESS" /\ j <= n => j < k}

\* The events up to n that end a window, and the window one of them ends.
Ends(r, c, events, actor, n) ==
  {m \in events :
     /\ m <= n
     /\ IsLogin(actor, m)
     /\ Feed[m].outcome = IF r = "AUTH-001" THEN "FAILURE" ELSE "SUCCESS"
     /\ Cardinality(Counting(r, c, m, events)) >= c.threshold}

WindowAt(r, c, events, m) == {m} \cup LastOf(c.threshold, Counting(r, c, m, events))

\* What the loop holds after event n: all failures that an event to come may
\* still count, though it has forgotten others, and the windows ended so far.
LoopHolds(r, c, events, actor, n, acc) ==
  /\ acc.history \subseteq Fresh(r, events, actor, n)
  /\ \A m \in DOMAIN Feed, k \in Fresh(r, events, actor, n) :
       n < m /\ Feed[k].time >= Feed[m].time - c.window => k \in acc.history
  /\ acc.found = {WindowAt(r, c, events, m) : m \in Ends(r, c, events, actor, n)}

LEMMA EventsTyped ==
  ASSUME NEW events, events \subseteq DOMAIN Feed
  PROVE  events \subseteq Nat /\ events \subseteq Int /\ \A n \in events : Feed[n].time \in Int
<1>1. DOMAIN Feed \subseteq Nat /\ Nat \subseteq Int
  BY FeedTyped
<1>2. \A n \in events : n \in DOMAIN Feed
  OBVIOUS
<1> QED
  BY <1>1, <1>2, FeedTyped

LEMMA ContentTyped ==
  ASSUME NEW r \in WindowRules, NEW c, ValidContent(r, c)
  PROVE  c.window \in Nat /\ c.threshold \in Nat /\ c.threshold >= 2
<1>1. c.threshold \in 2..10 /\ c.window \in 30..900
  BY DEF ValidContent, WindowRules
<1> QED
  BY <1>1

\* What an event counts is what the loop keeps of the fresh failures before it,
\* and the event itself if it is one.
LEMMA CountingFromFresh ==
  ASSUME NEW r \in WindowRules, NEW c, ValidContent(r, c),
         NEW events, events \subseteq DOMAIN Feed, NEW actor,
         NEW n \in events, IsLogin(actor, n)
  PROVE  LET recent == Recent(Fresh(r, events, actor, n - 1), n, c.window)
         IN  /\ Feed[n].outcome = "FAILURE" =>
                  Counting(r, c, n, events) = recent \cup {n}
             /\ r = "AUTH-002" /\ Feed[n].outcome = "SUCCESS" =>
                  Counting(r, c, n, events) = recent
<1> DEFINE recent == Recent(Fresh(r, events, actor, n - 1), n, c.window)
<1>1. events \subseteq Int /\ c.window \in Nat /\ \A k \in events : Feed[k].time \in Int
  BY ContentTyped, EventsTyped
<1>2. Feed[n].actor = actor
  BY DEF IsLogin
<1>3. \A k \in events : k <= n <=> (k <= n - 1 \/ k = n)
  BY <1>1
<1>4. \A k \in events : k < n <=> k <= n - 1
  BY <1>1
<1>5. \A k \in events : Feed[n].time - Feed[k].time <= c.window
                          <=> Feed[k].time >= Feed[n].time - c.window
  BY <1>1
<1>6. ASSUME NEW k \in events, k # n
      PROVE  k \in Counting(r, c, n, events) <=> k \in recent
  BY <1>2, <1>3, <1>4, <1>5, <1>6 DEF Counting, LoginsLike, Recent, Fresh
<1>7. n \notin recent
  BY <1>1 DEF Recent, Fresh
<1>8. n \in Counting(r, c, n, events) => Feed[n].outcome = "FAILURE"
  BY DEF Counting, LoginsLike
<1>9. Feed[n].outcome = "FAILURE" => n \in Counting(r, c, n, events)
  BY <1>1, <1>2 DEF Counting, LoginsLike
<1>10. Counting(r, c, n, events) \subseteq events /\ recent \subseteq events
  BY DEF Counting, LoginsLike, Recent, Fresh
<1>11. Feed[n].outcome = "FAILURE" => Counting(r, c, n, events) = recent \cup {n}
  <2> HIDE DEF recent
  <2> QED
    BY <1>6, <1>7, <1>9, <1>10
<1>12. Feed[n].outcome = "SUCCESS" => Counting(r, c, n, events) = recent
  <2> HIDE DEF recent
  <2> QED
    BY <1>6, <1>7, <1>8, <1>10
<1> QED
  BY <1>11, <1>12

\* One event of the actor.
LEMMA StepHolds ==
  ASSUME NEW r \in WindowRules, NEW c, ValidContent(r, c),
         NEW events, events \subseteq DOMAIN Feed, NEW actor,
         NEW n \in events, IsLogin(actor, n),
         NEW acc, LoopHolds(r, c, events, actor, n - 1, acc)
  PROVE  LoopHolds(r, c, events, actor, n, WindowStep(r, c, acc, n))
<1> DEFINE before == Fresh(r, events, actor, n - 1)
           now == Fresh(r, events, actor, n)
           recent == Recent(acc.history, n, c.window)
           grown == recent \cup {n}
           counted == Counting(r, c, n, events)
           next == WindowStep(r, c, acc, n)
           o == Feed[n].outcome
           found == {WindowAt(r, c, events, m) : m \in Ends(r, c, events, actor, n)}
<1>1. /\ events \subseteq Int /\ c.window \in Nat
      /\ \A k \in DOMAIN Feed : Feed[k].time \in Int
      /\ n \in DOMAIN Feed /\ n \in Nat /\ n - 1 < n
  BY ContentTyped, EventsTyped, FeedTyped
<1>2. recent = Recent(before, n, c.window)
  <2>1. acc.history \subseteq before
    BY DEF LoopHolds
  <2>2. \A k \in before : Feed[k].time >= Feed[n].time - c.window => k \in acc.history
    BY <1>1 DEF LoopHolds
  <2> QED
    BY <2>1, <2>2 DEF Recent
<1>3. /\ o = "FAILURE" => counted = grown
      /\ r = "AUTH-002" /\ o = "SUCCESS" => counted = recent
  BY <1>2, CountingFromFresh
<1>4. \A k \in events : k <= n <=> (k <= n - 1 \/ k = n)
  BY <1>1
\* the fresh failures
<1>5. /\ o = "FAILURE" => now = before \cup {n}
      /\ r = "AUTH-002" /\ o = "SUCCESS" => now = {}
      /\ ~ (o = "FAILURE") /\ ~ (r = "AUTH-002" /\ o = "SUCCESS") => now = before
  <2>1. \A k \in now : k \in events /\ k <= n
    BY DEF Fresh
  <2>2. \A k \in before : k \in events /\ k <= n - 1
    BY DEF Fresh
  <2>3. ASSUME o = "FAILURE" PROVE now = before \cup {n}
    <3>1. n \in now
      <4>1. \A j \in events : Feed[j].outcome = "SUCCESS" /\ j <= n => j < n
        BY <1>1, <2>3
      <4> QED
        BY <1>1, <2>3, <4>1 DEF Fresh
    <3>2. \A k \in events : k # n => (k \in now <=> k \in before)
      BY <1>4, <2>3 DEF Fresh
    <3> HIDE DEF now, before
    <3> QED
      BY <3>1, <3>2, <2>1, <2>2
  <2>4. ASSUME r = "AUTH-002", o = "SUCCESS" PROVE now = {}
    <3>1. ASSUME NEW k \in now PROVE FALSE
      <4>1. n < k /\ k <= n
        BY <1>1, <2>4 DEF Fresh
      <4>2. k \in Int
        BY <1>1, <2>1
      <4> QED
        BY <1>1, <4>1, <4>2
    <3> QED
      BY <3>1
  <2>5. ASSUME o # "FAILURE", ~ (r = "AUTH-002" /\ o = "SUCCESS") PROVE now = before
    <3>1. \A k \in events : k \in now <=> k \in before
      BY <1>4, <2>5 DEF Fresh
    <3> HIDE DEF now, before
    <3> QED
      BY <3>1, <2>1, <2>2
  <2> QED
    BY <2>3, <2>4, <2>5
\* the windows ended
<1>6. found = acc.found \cup IF n \in Ends(r, c, events, actor, n)
                             THEN {WindowAt(r, c, events, n)} ELSE {}
  <2> DEFINE ends == Ends(r, c, events, actor, n)
             endsBefore == Ends(r, c, events, actor, n - 1)
  <2>1. \A m \in events : m # n => (m \in ends <=> m \in endsBefore)
    BY <1>4 DEF Ends
  <2>2. ends \subseteq events /\ endsBefore \subseteq events /\ n \notin endsBefore
    BY <1>1 DEF Ends
  <2>3. acc.found = {WindowAt(r, c, events, m) : m \in endsBefore}
    BY DEF LoopHolds
  <2> HIDE DEF ends, endsBefore
  <2>4. ends = endsBefore \cup IF n \in ends THEN {n} ELSE {}
    BY <2>1, <2>2
  <2> QED
    BY <2>3, <2>4 DEF ends
\* what is forgotten is out of reach for every event to come
<1>7. ASSUME NEW m \in DOMAIN Feed, n < m, NEW k \in before,
             Feed[k].time >= Feed[m].time - c.window
      PROVE  k \in recent
  <2>1. Feed[n].time <= Feed[m].time
    BY <1>1, <1>7, FeedTyped
  <2>2. k \in DOMAIN Feed
    BY DEF Fresh
  <2>3. Feed[k].time >= Feed[n].time - c.window
    BY <1>1, <1>7, <2>1, <2>2
  <2> QED
    BY <1>2, <2>3 DEF Recent
<1>8. recent \subseteq before
  BY <1>2 DEF Recent
<1>9. CASE o = "FAILURE"
  <2>1. next = [history |-> grown,
                found |-> acc.found \cup IF r = "AUTH-001" /\ Cardinality(grown) >= c.threshold
                                         THEN {LastOf(c.threshold, grown)} ELSE {}]
    BY <1>9 DEF WindowStep
  <2>2. n \in Ends(r, c, events, actor, n) <=> r = "AUTH-001" /\ Cardinality(grown) >= c.threshold
    <3>1. counted = grown /\ n <= n
      BY <1>1, <1>3, <1>9
    <3>2. (o = IF r = "AUTH-001" THEN "FAILURE" ELSE "SUCCESS") <=> r = "AUTH-001"
      BY <1>9
    <3> HIDE DEF grown
    <3> QED
      BY <3>1, <3>2 DEF Ends
  <2>3. WindowAt(r, c, events, n) = LastOf(c.threshold, grown)
    <3>1. {j \in grown : j > n} = {}
      <4>1. \A j \in grown : j \in Int /\ j <= n
        BY <1>1, <1>8 DEF Fresh
      <4> QED
        BY <1>1, <4>1
    <3>2. n \in LastOf(c.threshold, grown)
      BY <3>1, FS_EmptySet, ContentTyped DEF LastOf
    <3> QED
      BY <1>3, <1>9, <3>2 DEF WindowAt
  <2>4. next.found = found
    BY <1>6, <2>1, <2>2, <2>3
  <2>5. next.history = grown
    BY <2>1
  <2>6. now = before \cup {n}
    BY <1>5, <1>9
  <2>9. LoopHolds(r, c, events, actor, n, next)
    <3> HIDE DEF next, recent
    <3> QED
      BY <1>7, <1>8, <2>4, <2>5, <2>6 DEF LoopHolds
  <2> QED
    BY <2>9
<1>10. CASE r = "AUTH-002" /\ o = "SUCCESS"
  <2>1. next = [history |-> {},
                found |-> acc.found \cup IF Cardinality(recent) >= c.threshold
                                         THEN {LastOf(c.threshold, recent) \cup {n}} ELSE {}]
    BY <1>10 DEF WindowStep
  <2>2. n \in Ends(r, c, events, actor, n) <=> Cardinality(recent) >= c.threshold
    BY <1>1, <1>3, <1>10 DEF Ends
  <2>3. WindowAt(r, c, events, n) = LastOf(c.threshold, recent) \cup {n}
    BY <1>3, <1>10 DEF WindowAt
  <2>4. next.found = found
    BY <1>6, <2>1, <2>2, <2>3
  <2>5. next.history = {} /\ now = {}
    BY <1>5, <1>10, <2>1
  <2>9. LoopHolds(r, c, events, actor, n, next)
    <3> HIDE DEF next, recent
    <3> QED
      BY <2>4, <2>5 DEF LoopHolds
  <2> QED
    BY <2>9
<1>11. CASE o # "FAILURE" /\ ~ (r = "AUTH-002" /\ o = "SUCCESS")
  <2>1. next = [history |-> recent, found |-> acc.found]
    BY <1>11 DEF WindowStep
  <2>2. n \notin Ends(r, c, events, actor, n)
    BY <1>11 DEF Ends, WindowRules
  <2>3. next.found = found
    BY <1>6, <2>1, <2>2
  <2>4. next.history = recent /\ now = before
    BY <1>5, <1>11, <2>1
  <2>9. LoopHolds(r, c, events, actor, n, next)
    <3> HIDE DEF next, recent
    <3> QED
      BY <1>7, <1>8, <2>3, <2>4 DEF LoopHolds
  <2> QED
    BY <2>9
<1> QED
  BY <1>9, <1>10, <1>11

\* The loop, event after event.
LEMMA LoopInvariant ==
  ASSUME NEW r \in WindowRules, NEW c, ValidContent(r, c),
         NEW events, events \subseteq DOMAIN Feed, NEW actor
  PROVE  \A n \in 0..Len(Feed) :
           LoopHolds(r, c, events, actor, n, Loop(r, c, events, actor)[n])
<1> DEFINE L == Loop(r, c, events, actor)
           Holds(n) == LoopHolds(r, c, events, actor, n, L[n])
           I == {n \in Nat : n <= Len(Feed) => Holds(n)}
<1>1. \A n \in DOMAIN Feed : n \in Nat /\ n >= 1
  BY FeedTyped
<1>2. 0 \in I
  <2>1. L[0] = Start
    BY LoopEquations
  <2>2. Fresh(r, events, actor, 0) = {} /\ Ends(r, c, events, actor, 0) = {}
    BY <1>1 DEF Fresh, Ends
  <2>3. Holds(0)
    <3> HIDE DEF L
    <3> QED
      BY <2>1, <2>2 DEF LoopHolds, Start
  <2> HIDE DEF Holds
  <2> QED
    BY <2>3
<1>3. ASSUME NEW n \in Nat, n \in I PROVE n + 1 \in I
  <2> SUFFICES ASSUME n + 1 <= Len(Feed) PROVE Holds(n + 1)
    OBVIOUS
  <2> DEFINE m == n + 1
  <2>1. m \in DOMAIN Feed /\ m - 1 = n /\ n < m
    BY FeedTyped
  <2>2. LoopHolds(r, c, events, actor, n, L[n])
    BY <1>3, FeedTyped
  <2>3. L[m] = Advance(r, c, events, actor, L[n], m)
    <3> HIDE DEF m
    <3> QED
      BY <2>1, LoopEquations
  <2>4. CASE m \in events /\ IsLogin(actor, m)
    <3>1. L[m] = WindowStep(r, c, L[n], m)
      BY <2>3, <2>4 DEF Advance
    <3>2. LoopHolds(r, c, events, actor, m, WindowStep(r, c, L[n], m))
      <4> HIDE DEF L, m
      <4> QED
        BY <2>1, <2>2, <2>4, StepHolds
    <3> QED
      BY <3>1, <3>2
  <2>5. CASE ~ (m \in events /\ IsLogin(actor, m))
    <3>1. L[m] = L[n]
      BY <2>3, <2>5 DEF Advance
    <3>2. \A k \in events : IsLogin(actor, k) => (k <= m <=> k <= n)
      BY <1>1, <2>1, <2>5
    <3>3. Fresh(r, events, actor, m) = Fresh(r, events, actor, n)
      <4>1. \A k \in events : k \in Fresh(r, events, actor, m) <=> k \in Fresh(r, events, actor, n)
        BY <3>2 DEF Fresh
      <4> QED
        BY <4>1 DEF Fresh
    <3>4. Ends(r, c, events, actor, m) = Ends(r, c, events, actor, n)
      <4>1. \A k \in events : k \in Ends(r, c, events, actor, m) <=> k \in Ends(r, c, events, actor, n)
        BY <3>2 DEF Ends
      <4> QED
        BY <4>1 DEF Ends
    <3>5. \A k \in DOMAIN Feed : m < k => n < k
      BY <1>1, <2>1
    <3> HIDE DEF L, m
    <3>6. LoopHolds(r, c, events, actor, m, L[m])
      BY <2>2, <3>1, <3>3, <3>4, <3>5 DEF LoopHolds
    <3> QED
      BY <3>6 DEF L, m
  <2> QED
    BY <2>4, <2>5
<1>4. Nat \subseteq I
  <2> HIDE DEF I
  <2> QED
    BY <1>2, <1>3, NatSetInduction
<1> QED
  BY <1>4, FeedTyped

\* The loop finds for one actor each window its rule describes and nothing else.
LEMMA ActorWindowsFound ==
  ASSUME NEW r \in WindowRules, NEW c, ValidContent(r, c),
         NEW events, events \subseteq DOMAIN Feed, NEW actor
  PROVE  ActorWindows(r, c, events, actor) =
           {WindowAt(r, c, events, m) : m \in Ends(r, c, events, actor, Len(Feed))}
<1>1. Len(Feed) \in 0..Len(Feed)
  BY FeedTyped
<1>2. LoopHolds(r, c, events, actor, Len(Feed), Loop(r, c, events, actor)[Len(Feed)])
  BY <1>1, LoopInvariant
<1> QED
  BY <1>2 DEF LoopHolds, ActorWindows

\* The loop of _candidates, run for every actor, finds the windows described
\* without it (detections.py lines 309-343), whatever the feed, the part of it
\* that has arrived, threshold and window.
THEOREM WindowsFound ==
  ASSUME NEW r \in WindowRules, NEW c, ValidContent(r, c),
         NEW events, events \subseteq DOMAIN Feed
  PROVE  Members(r, c, events) = ExpectedWindows(r, c, events)
<1> DEFINE N == Len(Feed)
           Ending == {m \in events :
                        /\ Relevant("SSH_PASSWORD", m)
                        /\ Feed[m].outcome = IF r = "AUTH-001" THEN "FAILURE" ELSE "SUCCESS"
                        /\ Cardinality(Counting(r, c, m, events)) >= c.threshold}
<1>1. Members(r, c, events) =
        UNION {{WindowAt(r, c, events, m) : m \in Ends(r, c, events, a, N)} : a \in Actors}
  <2>1. Members(r, c, events) = UNION {ActorWindows(r, c, events, a) : a \in Actors}
    BY DEF Members, WindowRules
  <2> QED
    BY <2>1, ActorWindowsFound
<1>2. \A m \in events : m <= N /\ Feed[m].actor \in Actors
  BY FeedTyped DEF Actors
<1>3. \A m \in Ending : m \in Ends(r, c, events, Feed[m].actor, N)
  BY <1>2 DEF Ends, IsLogin
<1>4. \A a \in Actors : Ends(r, c, events, a, N) \subseteq Ending
  BY DEF Ends, IsLogin
<1>5. ExpectedWindows(r, c, events) = {WindowAt(r, c, events, m) : m \in Ending}
  BY DEF ExpectedWindows, WindowAt, LastOf
<1> HIDE DEF Ending
<1>6. \A m \in Ending : Feed[m].actor \in Actors
  BY <1>2 DEF Ending
<1> QED
  BY <1>1, <1>3, <1>4, <1>5, <1>6

-----------------------------------------------------------------------------
(* Candidates.                                                             *)

LEMMA FeedFinite ==
  ASSUME NEW events, events \subseteq DOMAIN Feed
  PROVE  IsFiniteSet(events)
<1>1. IsFiniteSet(1..Len(Feed)) /\ events \in SUBSET (1..Len(Feed))
  BY FeedTyped, FS_Interval
<1> QED
  BY <1>1, FS_Subset

\* A window holds as many failures as the threshold says, and not more time
\* than the window.
LEMMA WindowsMeetTheRule ==
  ASSUME NEW r \in WindowRules, NEW c, ValidContent(r, c),
         NEW events, events \subseteq DOMAIN Feed, NEW found \in Members(r, c, events)
  PROVE  /\ found \subseteq events
         /\ Cardinality({n \in found : Feed[n].outcome = "FAILURE"}) = c.threshold
         /\ \A n, m \in found : Feed[n].time - Feed[m].time <= c.window
<1>1. PICK n \in events :
        /\ Feed[n].outcome = IF r = "AUTH-001" THEN "FAILURE" ELSE "SUCCESS"
        /\ Relevant("SSH_PASSWORD", n)
        /\ Cardinality(Counting(r, c, n, events)) >= c.threshold
        /\ found = WindowAt(r, c, events, n)
  BY WindowsFound DEF ExpectedWindows, WindowAt, LastOf
<1> DEFINE counted == Counting(r, c, n, events)
           last == LastOf(c.threshold, counted)
<1>2. /\ counted \subseteq events
      /\ \A k \in counted : k <= n /\ Feed[k].outcome = "FAILURE"
                              /\ Feed[n].time - Feed[k].time <= c.window
  BY DEF Counting, LoginsLike
<1>3. counted \subseteq DOMAIN Feed /\ counted \subseteq Nat /\ IsFiniteSet(counted)
  BY <1>2, FeedFinite, EventsTyped
<1>4. c.threshold \in Nat /\ c.threshold > 0 /\ c.window \in Nat
  BY ContentTyped
<1>5. last \subseteq counted
  BY DEF LastOf
<1>6. Cardinality(last) = c.threshold
  BY <1>1, <1>3, <1>4, LastOfCardinality, FS_CardinalityType
<1>7. found = last \cup {n}
  BY <1>1 DEF WindowAt
<1>8. Feed[n].outcome = "FAILURE" => n \in last
  <2> SUFFICES ASSUME Feed[n].outcome = "FAILURE" PROVE n \in last
    OBVIOUS
  <2>1. r = "AUTH-001"
    BY <1>1
  <2>2. n \in counted
    <3>1. n <= n /\ Feed[n].time - Feed[n].time <= c.window
      BY <1>4, EventsTyped
    <3> QED
      BY <1>1, <2>1, <3>1 DEF Counting, LoginsLike, IsLogin
  <2>3. {j \in counted : j > n} = {}
    <3>1. \A j \in counted : ~ j > n
      BY <1>2, <1>3, EventsTyped
    <3> QED
      BY <3>1
  <2> QED
    BY <1>4, <2>2, <2>3, FS_EmptySet DEF LastOf
<1>9. {k \in found : Feed[k].outcome = "FAILURE"} = last
  <2> HIDE DEF last, counted
  <2> QED
    BY <1>2, <1>5, <1>7, <1>8
<1>10. \A k \in found : /\ k \in events
                        /\ k <= n
                        /\ Feed[n].time - Feed[k].time <= c.window
  <2>1. n <= n /\ Feed[n].time - Feed[n].time <= c.window
    BY <1>4, EventsTyped
  <2> HIDE DEF last, counted
  <2> QED
    BY <1>2, <1>5, <1>7, <2>1
<1>11. ASSUME NEW k \in found, NEW m \in found
       PROVE  Feed[k].time - Feed[m].time <= c.window
  <2>1. /\ Feed[k].time \in Int /\ Feed[m].time \in Int /\ Feed[n].time \in Int
        /\ k \in DOMAIN Feed /\ n \in DOMAIN Feed /\ k \in Nat /\ n \in Nat
    BY <1>10, EventsTyped
  <2>2. Feed[k].time <= Feed[n].time
    <3>1. k < n \/ k = n
      BY <1>10, <2>1
    <3> QED
      BY <2>1, <3>1, FeedTyped
  <2>3. Feed[n].time - Feed[m].time <= c.window
    BY <1>10
  <2> QED
    BY <1>4, <2>1, <2>2, <2>3
<1> QED
  BY <1>6, <1>9, <1>10, <1>11

\* What the tables must hold for an alert of identity i to be explained by the
\* rule content c: the events E stored and the verifications F failed.
Explained(i, c, E, F) ==
  /\ i.rule = "EVID-001" => i.members \subseteq F
  /\ i.rule # "EVID-001" => i.members \subseteq E
  /\ i.rule \in {"AUTH-001", "AUTH-002"} =>
       /\ Cardinality({n \in i.members : Feed[n].outcome = "FAILURE"}) = c.threshold
       /\ \A n, m \in i.members : Feed[n].time - Feed[m].time <= c.window

CandidateOk(i, rules, E, F) ==
  /\ i.rule \in RuleIds
  /\ i.version = rules[i.rule].version
  /\ Explained(i, rules[i.rule], E, F)

RulesValid(rules) == \A r \in RuleIds : ValidContent(r, rules[r])

\* Every candidate is explained by what it was made of.
LEMMA CandidatesExplained ==
  ASSUME NEW rules, RulesValid(rules), NEW E, E \subseteq DOMAIN Feed, NEW F,
         NEW i \in Identities(rules, E, F)
  PROVE  CandidateOk(i, rules, E, F)
<1>1. PICK r \in RuleIds :
        \E m \in IF r = "EVID-001" THEN {{v} : v \in F} ELSE Members(r, rules[r], E) :
          i = [rule |-> r, version |-> rules[r].version, members |-> m]
  BY DEF Identities
<1>2. i.rule = r /\ i.version = rules[r].version
  BY <1>1
<1>3. CASE r = "EVID-001"
  <2>1. \E v \in F : i.members = {v}
    BY <1>1, <1>3
  <2> QED
    BY <1>2, <1>3, <2>1 DEF CandidateOk, Explained
<1>4. CASE r \in WindowRules
  <2>1. i.members \in Members(r, rules[r], E)
    BY <1>1, <1>4 DEF WindowRules
  <2>2. ValidContent(r, rules[r])
    BY DEF RulesValid
  <2>3. /\ i.members \subseteq E
        /\ Cardinality({n \in i.members : Feed[n].outcome = "FAILURE"}) = rules[r].threshold
        /\ \A n, m \in i.members : Feed[n].time - Feed[m].time <= rules[r].window
    BY <1>4, <2>1, <2>2, WindowsMeetTheRule
  <2>4. r # "EVID-001"
    BY <1>4 DEF WindowRules
  <2> QED
    BY <1>2, <2>3, <2>4 DEF CandidateOk, Explained
<1>5. CASE r # "EVID-001" /\ r \notin WindowRules
  <2>1. i.members \in Singles(r, E)
    BY <1>1, <1>5 DEF Members, WindowRules
  <2>2. i.members \subseteq E
    BY <2>1 DEF Singles
  <2> QED
    BY <1>2, <1>5, <2>2 DEF CandidateOk, Explained, WindowRules
<1> QED
  BY <1>3, <1>4, <1>5

\* An evaluation never has infinitely many candidates.
LEMMA CandidatesFinite ==
  ASSUME NEW rules, RulesValid(rules), NEW E, E \subseteq DOMAIN Feed,
         NEW F, IsFiniteSet(F)
  PROVE  IsFiniteSet(Identities(rules, E, F))
<1> DEFINE M == (SUBSET E) \cup (SUBSET F)
           identity == [p \in RuleIds \X M |->
                          [rule |-> p[1], version |-> rules[p[1]].version, members |-> p[2]]]
           all == {identity[p] : p \in RuleIds \X M}
<1>1. IsFiniteSet(M)
  BY FeedFinite, FS_SUBSET, FS_Union
<1>2. IsFiniteSet(RuleIds)
  <2>1. RuleIds = {"AUTH-001"} \cup ({"AUTH-002"} \cup ({"PRIV-001"} \cup ({"NET-001"} \cup {"EVID-001"})))
    BY DEF RuleIds
  <2> QED
    BY <2>1, FS_Singleton, FS_Union
<1>3. IsFiniteSet(RuleIds \X M)
  BY <1>1, <1>2, FS_Product
<1>4. identity \in Surjection(RuleIds \X M, all)
  BY DEF Surjection
<1>5. IsFiniteSet(all)
  <2> HIDE DEF identity, all, M
  <2> QED
    BY <1>3, <1>4, FS_Surjection
<1>6. ASSUME NEW i \in Identities(rules, E, F) PROVE i \in all
  <2>1. PICK r \in RuleIds :
          \E m \in IF r = "EVID-001" THEN {{v} : v \in F} ELSE Members(r, rules[r], E) :
            i = [rule |-> r, version |-> rules[r].version, members |-> m]
    BY DEF Identities
  <2>2. i = [rule |-> r, version |-> rules[r].version, members |-> i.members]
    BY <2>1
  <2>3. CandidateOk(i, rules, E, F)
    BY CandidatesExplained
  <2>4. i.members \in M
    BY <2>3 DEF CandidateOk, Explained
  <2>5. i = identity[<<r, i.members>>] /\ <<r, i.members>> \in RuleIds \X M
    BY <2>2, <2>4
  <2> QED
    BY <2>5
<1> QED
  BY <1>5, <1>6, FS_Subset

\* A chunk is taken from what is left.
LEMMA ChunkOfLeft ==
  ASSUME NEW left, IsFiniteSet(left)
  PROVE  Chunk(left) \subseteq left
<1>1. CASE Cardinality(left) <= ChunkSize
  BY <1>1 DEF Chunk
<1>2. CASE ~ Cardinality(left) <= ChunkSize
  <2> DEFINE N == Cardinality(left)
  <2>1. N \in Nat /\ ExistsBijection(1..N, left)
    BY FS_CardinalityType
  <2>2. ChunkSize \in Nat /\ ChunkSize < N
    BY <1>2, <2>1, BoundsAssumption
  <2>3. PICK f : f \in Bijection(1..N, left)
    BY <2>1 DEF ExistsBijection
  <2> DEFINE chunk == {f[n] : n \in 1..ChunkSize}
             g == [n \in 1..ChunkSize |-> f[n]]
  <2>4. 1..ChunkSize \subseteq 1..N
    BY <2>1, <2>2
  <2>5. f \in [1..N -> left] /\ \A m, n \in 1..N : m # n => f[m] # f[n]
    BY <2>3 DEF Bijection, Injection, IsInjective
  <2>6. chunk \in SUBSET left
    BY <2>4, <2>5
  <2>7. g \in Bijection(1..ChunkSize, chunk)
    BY <2>4, <2>5 DEF Bijection, Injection, IsInjective, Surjection
  <2>8. Cardinality(chunk) = ChunkSize
    <3> HIDE DEF chunk, g
    <3> QED
      BY <2>2, <2>7, FS_CountingElements DEF ExistsBijection
  <2> HIDE DEF chunk
  <2> QED
    BY <1>2, <2>6, <2>8 DEF Chunk
<1> QED
  BY <1>1, <1>2

-----------------------------------------------------------------------------
(* The inductive invariant.                                                *)

\* Every version of the rules has its row with their content.
Recorded(rules, R) ==
  \A r \in RuleIds : Key(r, rules[r]) \in DOMAIN R /\ R[Key(r, rules[r])] = rules[r]

\* An evaluation that has checked the versions works with recorded rules; what
\* it holds for existing are alerts, and it can explain its candidates.
JobOk(j, E, F, R, A) ==
  /\ DOMAIN j = {"pc", "rules", "missing", "candidates", "known", "left"}
  /\ j.pc \in {"idle", "loaded", "registering", "verifying", "looking", "inserting"}
  /\ j.known \cup j.left \subseteq j.candidates
  /\ IsFiniteSet(j.candidates)
  /\ j.known \subseteq A
  /\ j.pc = "idle" => j.known = {} /\ j.left = {}
  /\ j.pc # "idle" => /\ RulesValid(j.rules)
                      /\ \A i \in j.candidates : CandidateOk(i, j.rules, E, F)
  /\ j.pc \in {"verifying", "looking", "inserting"} => Recorded(j.rules, R)

AlertOk(i, alert, E, F, R) ==
  LET recorded == R[<<i.rule, i.version>>]
  IN  /\ <<i.rule, i.version>> \in DOMAIN R
      /\ alert.content = recorded
      /\ alert.created \in Nat
      /\ Explained(i, recorded, E, F)

TablesOk ==
  /\ arrived \subseteq DOMAIN Feed
  /\ failed \subseteq Verifications /\ IsFiniteSet(failed)
  /\ files = [r \in RuleIds |-> files[r]] /\ \A r \in RuleIds : files[r] \in Contents[r]
  /\ \A k \in DOMAIN ruleVersions : ruleVersions[k].version = k[2]
  /\ \A i \in DOMAIN alerts : AlertOk(i, alerts[i], arrived, failed, ruleVersions)
  /\ reported = DOMAIN alerts

JobsOk ==
  /\ job = [w \in Evaluators |-> job[w]]
  /\ \A w \in Evaluators : JobOk(job[w], arrived, failed, ruleVersions, DOMAIN alerts)

IInv == TablesOk /\ JobsOk

\* The tables only grow.
Grown ==
  /\ arrived \subseteq arrived' /\ failed \subseteq failed'
  /\ \A k \in DOMAIN ruleVersions :
       k \in DOMAIN ruleVersions' /\ ruleVersions'[k] = ruleVersions[k]
  /\ \A i \in DOMAIN alerts : i \in DOMAIN alerts' /\ alerts'[i] = alerts[i]

LEMMA InitIInv == Init => IInv
<1> SUFFICES ASSUME Init PROVE IInv
  OBVIOUS
<1>1. DOMAIN ruleVersions = {} /\ DOMAIN alerts = {}
  BY DEF Init
<1>2. JobOk(Idle, arrived, failed, ruleVersions, DOMAIN alerts)
  BY FS_EmptySet DEF JobOk, Idle
<1>3. JobsOk
  BY <1>2 DEF JobsOk, Init
<1>4. TablesOk
  BY <1>1, FS_EmptySet DEF TablesOk, Init
<1> QED
  BY <1>3, <1>4 DEF IInv

LEMMA CandidateStaysOk ==
  ASSUME NEW i, NEW rules, NEW E, NEW F, NEW E2, NEW F2, E \subseteq E2, F \subseteq F2,
         CandidateOk(i, rules, E, F)
  PROVE  CandidateOk(i, rules, E2, F2)
BY DEF CandidateOk, Explained

\* An evaluation stays in order while the tables grow, and so does an alert.
LEMMA GrowthKeeps ==
  ASSUME Grown
  PROVE  /\ \A j : JobOk(j, arrived, failed, ruleVersions, DOMAIN alerts)
                     => JobOk(j, arrived', failed', ruleVersions', DOMAIN alerts')
         /\ \A i, alert : AlertOk(i, alert, arrived, failed, ruleVersions)
                            => AlertOk(i, alert, arrived', failed', ruleVersions')
<1>1. ASSUME NEW j, JobOk(j, arrived, failed, ruleVersions, DOMAIN alerts)
      PROVE  JobOk(j, arrived', failed', ruleVersions', DOMAIN alerts')
  <2>1. \A i \in j.candidates : CandidateOk(i, j.rules, arrived, failed)
          => CandidateOk(i, j.rules, arrived', failed')
    BY CandidateStaysOk DEF Grown
  <2>2. Recorded(j.rules, ruleVersions) => Recorded(j.rules, ruleVersions')
    BY DEF Grown, Recorded
  <2>3. DOMAIN alerts \subseteq DOMAIN alerts'
    BY DEF Grown
  <2> QED
    BY <1>1, <2>1, <2>2, <2>3 DEF JobOk
<1>2. ASSUME NEW i, NEW alert, AlertOk(i, alert, arrived, failed, ruleVersions)
      PROVE  AlertOk(i, alert, arrived', failed', ruleVersions')
  <2> DEFINE recorded == ruleVersions[<<i.rule, i.version>>]
  <2>1. <<i.rule, i.version>> \in DOMAIN ruleVersions' /\ ruleVersions'[<<i.rule, i.version>>] = recorded
    BY <1>2 DEF AlertOk, Grown
  <2>2. Explained(i, recorded, arrived', failed')
    BY <1>2 DEF AlertOk, Explained, Grown
  <2> QED
    BY <1>2, <2>1, <2>2 DEF AlertOk
<1> QED
  BY <1>1, <1>2

\* A step of one evaluation leaves the others in order.
LEMMA JobChanged ==
  ASSUME JobsOk, Grown, NEW w \in Evaluators, NEW j, job' = [job EXCEPT ![w] = j],
         JobOk(j, arrived', failed', ruleVersions', DOMAIN alerts')
  PROVE  JobsOk'
<1>1. job' = [v \in Evaluators |-> job'[v]]
  BY DEF JobsOk
<1>2. ASSUME NEW v \in Evaluators
      PROVE  JobOk(job'[v], arrived', failed', ruleVersions', DOMAIN alerts')
  <2>1. CASE v = w
    <3>1. job'[v] = j
      BY <2>1 DEF JobsOk
    <3> QED
      BY <3>1
  <2>2. CASE v # w
    <3>1. job'[v] = job[v]
      BY <2>2 DEF JobsOk
    <3>2. JobOk(job[v], arrived, failed, ruleVersions, DOMAIN alerts)
      BY DEF JobsOk
    <3> QED
      BY <3>1, <3>2, GrowthKeeps
  <2> QED
    BY <2>1, <2>2
<1> QED
  BY <1>1, <1>2 DEF JobsOk

LEMMA JobsOkElsewhere ==
  ASSUME JobsOk, Grown, UNCHANGED job
  PROVE  JobsOk'
<1>1. ASSUME NEW w \in Evaluators
      PROVE  JobOk(job'[w], arrived', failed', ruleVersions', DOMAIN alerts')
  BY GrowthKeeps DEF JobsOk
<1> QED
  BY <1>1 DEF JobsOk

LEMMA TablesUnchanged ==
  ASSUME TablesOk, UNCHANGED <<outside, ruleVersions, alerts, reported>>
  PROVE  TablesOk' /\ Grown
BY DEF TablesOk, Grown, outside

\* The imports, verifications and edits beside the evaluations.
LEMMA OutsideKeeps ==
  ASSUME IInv,
         \/ \E d \in Deliveries : Deliver(d)
         \/ \E v \in Verifications : VerificationFails(v)
         \/ \E r \in RuleIds : \E c \in Contents[r] : EditRule(r, c)
  PROVE  IInv' /\ Grown
<1> USE DEF IInv
<1>1. ASSUME NEW d \in Deliveries, Deliver(d) PROVE IInv' /\ Grown
  <2>1. Grown
    BY <1>1 DEF Deliver, Grown
  <2>2. arrived' \subseteq DOMAIN Feed
    BY <1>1, DeliveriesAssumption DEF Deliver, TablesOk
  <2>3. TablesOk'
    BY <1>1, <2>1, <2>2, GrowthKeeps DEF Deliver, TablesOk
  <2>4. JobsOk'
    BY <1>1, <2>1, JobsOkElsewhere DEF Deliver
  <2> QED
    BY <2>1, <2>3, <2>4
<1>2. ASSUME NEW v \in Verifications, VerificationFails(v) PROVE IInv' /\ Grown
  <2>1. Grown
    BY <1>2 DEF VerificationFails, Grown
  <2>2. failed' \subseteq Verifications /\ IsFiniteSet(failed')
    BY <1>2, FS_AddElement DEF VerificationFails, TablesOk
  <2>3. TablesOk'
    BY <1>2, <2>1, <2>2, GrowthKeeps DEF VerificationFails, TablesOk
  <2>4. JobsOk'
    BY <1>2, <2>1, JobsOkElsewhere DEF VerificationFails
  <2> QED
    BY <2>1, <2>3, <2>4
<1>3. ASSUME NEW r \in RuleIds, NEW c \in Contents[r], EditRule(r, c) PROVE IInv' /\ Grown
  <2>1. Grown
    BY <1>3 DEF EditRule, Grown
  <2>2. /\ files' = [q \in RuleIds |-> files'[q]]
        /\ \A q \in RuleIds : files'[q] \in Contents[q]
    BY <1>3 DEF EditRule, TablesOk
  <2>3. TablesOk'
    BY <1>3, <2>2 DEF EditRule, TablesOk
  <2>4. JobsOk'
    BY <1>3, <2>1, JobsOkElsewhere DEF EditRule
  <2> QED
    BY <2>1, <2>3, <2>4
<1> QED
  BY <1>1, <1>2, <1>3

\* The reads of an evaluation, and its end without a result.
LEMMA ReadingKeeps ==
  ASSUME IInv, NEW w \in Evaluators,
         \/ Load(w) \/ CheckVersions(w) \/ ReadVerifications(w)
         \/ LookUpChunk(w) \/ LookedUp(w) \/ Abort(w)
  PROVE  IInv' /\ Grown
<1> DEFINE j == job[w]
<1>1. UNCHANGED <<outside, ruleVersions, alerts, reported>>
  BY DEF Load, CheckVersions, ReadVerifications, LookUpChunk, LookedUp, Abort
<1>2. TablesOk' /\ Grown
  BY <1>1, TablesUnchanged DEF IInv
<1>3. /\ arrived \subseteq DOMAIN Feed
      /\ IsFiniteSet(failed)
      /\ arrived' = arrived /\ failed' = failed /\ ruleVersions' = ruleVersions
      /\ DOMAIN alerts' = DOMAIN alerts
  BY <1>1 DEF IInv, TablesOk, outside
<1>4. JobOk(j, arrived, failed, ruleVersions, DOMAIN alerts) /\ job = [v \in Evaluators |-> job[v]]
  BY DEF IInv, JobsOk
<1> SUFFICES \E next : /\ job' = [job EXCEPT ![w] = next]
                        /\ JobOk(next, arrived, failed, ruleVersions, DOMAIN alerts)
  <2>1. ASSUME NEW next, job' = [job EXCEPT ![w] = next],
               JobOk(next, arrived, failed, ruleVersions, DOMAIN alerts)
        PROVE  JobsOk'
    BY <1>2, <1>3, <2>1, JobChanged DEF IInv
  <2> QED
    BY <1>2, <2>1 DEF IInv
<1>5. CASE Load(w)
  <2> DEFINE candidates == Identities(files, arrived, {})
             next == [j EXCEPT !.pc = "loaded", !.rules = files, !.candidates = candidates]
  <2>1. job' = [job EXCEPT ![w] = next]
    BY <1>4, <1>5 DEF Load
  <2>2. RulesValid(files)
    BY <1>5 DEF Load, RulesValid
  <2>3. IsFiniteSet(candidates)
    BY <1>3, <2>2, CandidatesFinite, FS_EmptySet
  <2>4. \A i \in candidates : CandidateOk(i, files, arrived, failed)
    BY <1>3, <2>2, CandidatesExplained, CandidateStaysOk
  <2>5. j.known = {} /\ j.left = {}
    BY <1>4, <1>5 DEF Load, JobOk
  <2> HIDE DEF candidates
  <2>6. JobOk(next, arrived, failed, ruleVersions, DOMAIN alerts)
    BY <1>4, <2>2, <2>3, <2>4, <2>5 DEF JobOk
  <2> QED
    BY <2>1, <2>6
<1>6. CASE CheckVersions(w) /\ Missing(j.rules) = {}
  <2> DEFINE next == [j EXCEPT !.pc = "verifying"]
  <2>1. job' = [job EXCEPT ![w] = next]
    BY <1>4, <1>6 DEF CheckVersions
  <2>2. Recorded(j.rules, ruleVersions)
    BY <1>6 DEF CheckVersions, Missing, Conflicting, Recorded
  <2>3. JobOk(next, arrived, failed, ruleVersions, DOMAIN alerts)
    BY <1>4, <1>6, <2>2 DEF CheckVersions, JobOk
  <2> QED
    BY <2>1, <2>3
<1>7. CASE CheckVersions(w) /\ Missing(j.rules) # {}
  <2>1. PICK r \in Missing(j.rules) :
          job' = [job EXCEPT ![w].pc = "registering", ![w].missing = r]
    BY <1>7 DEF CheckVersions
  <2> DEFINE next == [j EXCEPT !.pc = "registering", !.missing = r]
  <2>2. job' = [job EXCEPT ![w] = next]
    BY <1>4, <2>1
  <2>3. j.pc = "loaded"
    BY <1>7 DEF CheckVersions
  <2>4. JobOk(next, arrived, failed, ruleVersions, DOMAIN alerts)
    BY <1>4, <2>3 DEF JobOk
  <2> QED
    BY <2>2, <2>4
<1>8. CASE ReadVerifications(w)
  <2> DEFINE verified == Identities(j.rules, {}, failed)
             candidates == j.candidates \cup verified
             next == [j EXCEPT !.pc = "looking", !.candidates = candidates, !.left = candidates]
  <2>1. job' = [job EXCEPT ![w] = next]
    BY <1>4, <1>8 DEF ReadVerifications
  <2>2. RulesValid(j.rules) /\ Recorded(j.rules, ruleVersions)
    BY <1>4, <1>8 DEF ReadVerifications, JobOk
  <2>3. IsFiniteSet(verified) /\ \A i \in verified : CandidateOk(i, j.rules, arrived, failed)
    <3>1. {} \subseteq DOMAIN Feed /\ {} \subseteq arrived
      OBVIOUS
    <3> QED
      BY <1>3, <2>2, <3>1, CandidatesFinite, CandidatesExplained, CandidateStaysOk
  <2>4. IsFiniteSet(j.candidates) /\ IsFiniteSet(candidates)
    BY <1>4, <2>3, FS_Union DEF JobOk
  <2> HIDE DEF verified
  <2>5. JobOk(next, arrived, failed, ruleVersions, DOMAIN alerts)
    BY <1>4, <1>8, <2>2, <2>3, <2>4 DEF ReadVerifications, JobOk
  <2> QED
    BY <2>1, <2>5
<1>9. CASE LookUpChunk(w)
  <2> DEFINE chunk == Chunk(j.left)
             next == [j EXCEPT !.left = j.left \ chunk,
                               !.known = j.known \cup (chunk \cap DOMAIN alerts)]
  <2>1. job' = [job EXCEPT ![w] = next]
    BY <1>4, <1>9 DEF LookUpChunk
  <2>2. chunk \subseteq j.left
    BY <1>4, ChunkOfLeft, FS_Subset DEF JobOk
  <2> HIDE DEF chunk
  <2>3. j.pc = "looking"
    BY <1>9 DEF LookUpChunk
  <2>4. JobOk(next, arrived, failed, ruleVersions, DOMAIN alerts)
    BY <1>4, <2>2, <2>3 DEF JobOk
  <2> QED
    BY <2>1, <2>4
<1>10. CASE LookedUp(w)
  <2> DEFINE next == [j EXCEPT !.pc = "inserting"]
  <2>1. job' = [job EXCEPT ![w] = next]
    BY <1>4, <1>10 DEF LookedUp
  <2>2. JobOk(next, arrived, failed, ruleVersions, DOMAIN alerts)
    BY <1>4, <1>10 DEF LookedUp, JobOk
  <2> QED
    BY <2>1, <2>2
<1>11. CASE Abort(w)
  <2>1. JobOk(Idle, arrived, failed, ruleVersions, DOMAIN alerts)
    BY FS_EmptySet DEF JobOk, Idle
  <2> QED
    BY <1>11, <2>1 DEF Abort, Finish
<1> QED
  BY <1>5, <1>6, <1>7, <1>8, <1>9, <1>10, <1>11

\* Alerts inserted for explained candidates under recorded rules.
LEMMA InsertedOk ==
  ASSUME TablesOk, NEW rules, NEW new, new \cap DOMAIN alerts = {},
         \A i \in new : CandidateOk(i, rules, arrived, failed),
         Recorded(rules, ruleVersions'),
         \A k \in DOMAIN ruleVersions :
           k \in DOMAIN ruleVersions' /\ ruleVersions'[k] = ruleVersions[k],
         alerts' = WithAlerts(new, rules), UNCHANGED outside
  PROVE  /\ Grown
         /\ DOMAIN alerts' = DOMAIN alerts \cup new
         /\ \A i \in DOMAIN alerts' : AlertOk(i, alerts'[i], arrived', failed', ruleVersions')
<1>1. /\ DOMAIN alerts' = DOMAIN alerts \cup new
      /\ \A i \in DOMAIN alerts : alerts'[i] = alerts[i]
      /\ \A i \in new : alerts'[i] = [content |-> rules[i.rule], created |-> 1]
  BY DEF WithAlerts
<1>2. Grown
  BY <1>1 DEF Grown, outside
<1>3. ASSUME NEW i \in DOMAIN alerts
      PROVE  AlertOk(i, alerts'[i], arrived', failed', ruleVersions')
  BY <1>1, <1>2, GrowthKeeps DEF TablesOk
<1>4. ASSUME NEW i \in new
      PROVE  AlertOk(i, alerts'[i], arrived', failed', ruleVersions')
  <2>1. CandidateOk(i, rules, arrived', failed')
    BY DEF outside
  <2>2. i.rule \in RuleIds /\ <<i.rule, i.version>> = Key(i.rule, rules[i.rule])
    BY <2>1 DEF CandidateOk, Key
  <2>3. /\ <<i.rule, i.version>> \in DOMAIN ruleVersions'
        /\ ruleVersions'[<<i.rule, i.version>>] = rules[i.rule]
    BY <2>2 DEF Recorded
  <2>4. Explained(i, rules[i.rule], arrived', failed')
    BY <2>1 DEF CandidateOk
  <2> QED
    BY <1>1, <2>3, <2>4 DEF AlertOk
<1> QED
  BY <1>1, <1>2, <1>3, <1>4

\* The transactions of an evaluation.
LEMMA RegisterAndInsertKeeps ==
  ASSUME IInv, NEW w \in Evaluators, RegisterAndInsert(w)
  PROVE  IInv' /\ Grown
<1> DEFINE j == job[w]
           rules == j.rules
           verified == Identities(rules, {}, failed)
           candidates == j.candidates \cup verified
           new == candidates \ DOMAIN alerts
           added == {Key(r, rules[r]) : r \in Missing(rules)}
<1>1. /\ Conflicting(rules) = {}
      /\ ruleVersions' = [k \in DOMAIN ruleVersions \cup added |->
                            IF k \in DOMAIN ruleVersions THEN ruleVersions[k] ELSE rules[k[1]]]
      /\ alerts' = WithAlerts(new, rules)
      /\ reported' = reported \cup candidates
      /\ job' = [job EXCEPT ![w] = Idle]
      /\ UNCHANGED outside
      /\ j.pc = "registering"
  BY DEF RegisterAndInsert, Finish
<1>2. TablesOk /\ JobsOk /\ JobOk(j, arrived, failed, ruleVersions, DOMAIN alerts)
  BY DEF IInv, JobsOk
<1>3. RulesValid(rules) /\ \A i \in j.candidates : CandidateOk(i, rules, arrived, failed)
  BY <1>1, <1>2 DEF JobOk
<1>4. \A i \in candidates : CandidateOk(i, rules, arrived, failed)
  <2>1. {} \subseteq DOMAIN Feed /\ {} \subseteq arrived
    OBVIOUS
  <2>2. \A i \in verified : CandidateOk(i, rules, arrived, failed)
    BY <1>3, <2>1, CandidatesExplained, CandidateStaysOk
  <2> QED
    BY <1>3, <2>2
<1>5. /\ DOMAIN ruleVersions' = DOMAIN ruleVersions \cup added
      /\ \A k \in DOMAIN ruleVersions : ruleVersions'[k] = ruleVersions[k]
      /\ \A k \in added : k \notin DOMAIN ruleVersions /\ ruleVersions'[k] = rules[k[1]]
  BY <1>1 DEF Missing
<1>6. Recorded(rules, ruleVersions')
  <2> SUFFICES ASSUME NEW r \in RuleIds
               PROVE  /\ Key(r, rules[r]) \in DOMAIN ruleVersions'
                      /\ ruleVersions'[Key(r, rules[r])] = rules[r]
    BY DEF Recorded
  <2>1. CASE r \in Missing(rules)
    <3>1. Key(r, rules[r]) \in added /\ Key(r, rules[r])[1] = r
      BY <2>1 DEF Key
    <3> QED
      BY <1>5, <3>1
  <2>2. CASE r \notin Missing(rules)
    <3>1. Key(r, rules[r]) \in DOMAIN ruleVersions
      BY <2>2 DEF Missing
    <3>2. ruleVersions[Key(r, rules[r])] = rules[r]
      BY <1>1, <2>2 DEF Conflicting
    <3> QED
      BY <1>5, <3>1, <3>2
  <2> QED
    BY <2>1, <2>2
<1>7. \A k \in DOMAIN ruleVersions' : ruleVersions'[k].version = k[2]
  <2>1. ASSUME NEW k \in added PROVE rules[k[1]].version = k[2]
    BY DEF Key
  <2> QED
    BY <1>2, <1>5, <2>1 DEF TablesOk
<1>8. /\ Grown
      /\ DOMAIN alerts' = DOMAIN alerts \cup new
      /\ \A i \in DOMAIN alerts' : AlertOk(i, alerts'[i], arrived', failed', ruleVersions')
  <2> HIDE DEF candidates, added, rules
  <2> QED
    BY <1>1, <1>2, <1>4, <1>5, <1>6, InsertedOk
<1>9. reported' = DOMAIN alerts'
  BY <1>1, <1>2, <1>8 DEF TablesOk
<1>10. TablesOk'
  BY <1>1, <1>2, <1>7, <1>8, <1>9 DEF TablesOk, outside
<1>11. JobOk(Idle, arrived', failed', ruleVersions', DOMAIN alerts')
  BY FS_EmptySet DEF JobOk, Idle
<1>12. JobsOk'
  BY <1>1, <1>2, <1>8, <1>11, JobChanged
<1> QED
  BY <1>8, <1>10, <1>12 DEF IInv

LEMMA InsertAlertsKeeps ==
  ASSUME IInv, NEW w \in Evaluators, InsertAlerts(w)
  PROVE  IInv' /\ Grown
<1> DEFINE j == job[w]
           new == j.candidates \ j.known
<1>1. /\ new \cap DOMAIN alerts = {}
      /\ alerts' = WithAlerts(new, j.rules)
      /\ reported' = reported \cup j.candidates
      /\ job' = [job EXCEPT ![w] = Idle]
      /\ UNCHANGED <<outside, ruleVersions>>
      /\ j.pc = "inserting"
  BY DEF InsertAlerts, Finish
<1>2. TablesOk /\ JobsOk /\ JobOk(j, arrived, failed, ruleVersions, DOMAIN alerts)
  BY DEF IInv, JobsOk
<1>3. /\ \A i \in new : CandidateOk(i, j.rules, arrived, failed)
      /\ Recorded(j.rules, ruleVersions')
      /\ j.known \subseteq DOMAIN alerts
  BY <1>1, <1>2 DEF JobOk
<1>4. /\ Grown
      /\ DOMAIN alerts' = DOMAIN alerts \cup new
      /\ \A i \in DOMAIN alerts' : AlertOk(i, alerts'[i], arrived', failed', ruleVersions')
  <2> HIDE DEF new, j
  <2> QED
    BY <1>1, <1>2, <1>3, InsertedOk
\* what was known is there, what is new was not: every candidate has its alert
<1>5. reported' = DOMAIN alerts'
  BY <1>1, <1>2, <1>3, <1>4 DEF TablesOk
<1>6. TablesOk'
  BY <1>1, <1>2, <1>4, <1>5 DEF TablesOk, outside
<1>7. JobOk(Idle, arrived', failed', ruleVersions', DOMAIN alerts')
  BY FS_EmptySet DEF JobOk, Idle
<1>8. JobsOk'
  BY <1>1, <1>2, <1>4, <1>7, JobChanged
<1> QED
  BY <1>4, <1>6, <1>8 DEF IInv

LEMMA StepKeeps == IInv /\ [Next]_vars => IInv' /\ Grown
<1> SUFFICES ASSUME IInv, [Next]_vars PROVE IInv' /\ Grown
  OBVIOUS
<1>1. CASE UNCHANGED vars
  <2>1. Grown
    BY <1>1 DEF vars, Grown
  <2> QED
    BY <1>1, <2>1 DEF vars, IInv, TablesOk, JobsOk
<1>2. CASE Next
  BY <1>2, OutsideKeeps, ReadingKeeps, RegisterAndInsertKeeps, InsertAlertsKeeps DEF Next
<1> QED
  BY <1>1, <1>2

LEMMA SpecIInv == Spec => []IInv
BY InitIInv, StepKeeps, PTL DEF Spec

-----------------------------------------------------------------------------
(* The properties.                                                         *)

\* Types: what is known or left to be looked up is among the candidates, and a
\* rule version's row is stored under its own number (models.py RuleVersion).
THEOREM TypeInvariant == Spec => []TypeOK
<1>1. IInv => TypeOK
  BY DEF IInv, TablesOk, JobsOk, JobOk, AlertOk, TypeOK
<1> QED
  BY <1>1, SpecIInv, PTL

\* The loop finds the windows described, in every state and for every part of
\* the events that has arrived (detections.py lines 309-343).
THEOREM WindowsAsDescribedForAll == Spec => []WindowsAsDescribed
<1>1. IInv => WindowsAsDescribed
  <2> SUFFICES ASSUME IInv, NEW r \in WindowRules, NEW events \in SUBSET arrived,
                      ValidContent(r, files[r])
               PROVE  Members(r, files[r], events) = ExpectedWindows(r, files[r], events)
    BY DEF WindowsAsDescribed, WindowRules
  <2>1. events \subseteq DOMAIN Feed
    BY DEF IInv, TablesOk
  <2> QED
    BY <2>1, WindowsFound
<1> QED
  BY <1>1, SpecIInv, PTL

\* Every alert can be explained from the tables, whatever was edited, imported
\* or verified since it was raised (evaluate, lines 374-528).
THEOREM AlertsExplainedForAll == Spec => []AlertsExplained
<1>1. IInv => AlertsExplained
  BY DEF IInv, TablesOk, AlertOk, Explained, AlertsExplained
<1> QED
  BY <1>1, SpecIInv, PTL

\* The alerts are the candidates of the evaluations that returned a result,
\* none missing and none too many (evaluate, lines 422-521).
THEOREM NothingMissedForAll == Spec => []NothingMissed
<1>1. IInv => NothingMissed
  BY DEF IInv, TablesOk, NothingMissed
<1> QED
  BY <1>1, SpecIInv, PTL

\* No step touches an alert that is there (UNIQUE(stable_identity)).
THEOREM AlertsStayForAll == Spec => AlertsStay
<1>1. IInv /\ [Next]_vars => [\A i \in DOMAIN alerts : i \in DOMAIN alerts' /\ alerts'[i] = alerts[i]]_vars
  BY StepKeeps DEF Grown
<1> QED
  BY <1>1, SpecIInv, PTL DEF Spec, AlertsStay
=============================================================================
