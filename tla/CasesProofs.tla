---------------------------- MODULE CasesProofs ---------------------------
(***************************************************************************)
(* The safety properties of Cases for any alerts, cases and threads.       *)
(***************************************************************************)
EXTENDS Cases, SequenceTheorems, TLAPS

AlertStatus == Workflow!AlertStatus

AlertsTyped ==
  /\ status \in [Alerts -> AlertStatus \cup {"ABSENT"}]
  /\ trail \in [Alerts -> Seq(AlertStatus)]

WasEscalated(a) == \E k \in 1..Len(trail[a]) : trail[a][k] = "ESCALATED"
Rests(a) == status[a] \in {"ESCALATED", "CLOSED"} /\ WasEscalated(a)

EscalationInTrail == \A a \in Alerts : status[a] = "ESCALATED" => WasEscalated(a)

\* The stage s of case c is in its timeline, or the one a case begins with.
Reached(c, s) ==
  s = "OPEN" \/ \E i \in 1..Len(timeline[c]) : timeline[c][i].to = s

\* What a handler between its reads and its commit knows, and what no step of
\* another handler takes away: an escalation, a stage reached, PASS evidence.
Justified(j) ==
  /\ j.pc = "opening" => j.alert \in Alerts /\ Rests(j.alert)
  /\ j.pc \in {"checking", "moving"} =>
       /\ j.case \in CaseIds
       /\ cases[j.case].status # "ABSENT"
       /\ <<j.from, j.to>> \in CaseMoves
       /\ Required[j.to] \subseteq j.texts
       /\ Reached(j.case, j.from)
  /\ j.pc = "moving" /\ j.to # "INVESTIGATING" =>
       passed[j.case] \/ "waiver" \in j.texts

JobsJustified == \A w \in Workers : Justified(job[w])

\* Only an OPEN case, or none, has an empty timeline.
TimelineBegun ==
  \A c \in CaseIds : timeline[c] = <<>> => cases[c].status \in {"ABSENT", "OPEN"}

\* An opened case has its link to an alert.
CaseLinked == \A c \in CaseIds : cases[c] # NoRow => cases[c].alert \in Alerts

\* The row of a case may be overwritten at any time, so the three properties
\* rest on what the handlers carry (JobsJustified).
IInv == /\ TypeOK /\ AlertsTyped /\ EscalationInTrail /\ JobsJustified /\ TimelineBegun
        /\ CaseLinked /\ CaseRestsOnEscalation /\ ResolutionJustified /\ StagesInOrder

\* With one handler per case at a time, what a handler read is still so when it
\* commits.
Current(j) ==
  j.pc \in {"checking", "moving"} =>
    /\ j.case \in CaseIds
    /\ cases[j.case].status # "ABSENT"
    /\ cases[j.case].status = j.from
    /\ cases[j.case].version = j.version

JobsCurrent == \A w \in Workers : Current(job[w])

OneHandlerPerCase ==
  \A w, v \in Workers : w # v /\ job[w].case # None => job[w].case # job[v].case

NoTimelineWithoutCase == \A c \in CaseIds : cases[c] = NoRow => timeline[c] = <<>>

SerialInv == /\ TypeOK /\ JobsCurrent /\ OneHandlerPerCase
             /\ NoTimelineWithoutCase /\ TimelineIsChain
-----------------------------------------------------------------------------

\* The initial state satisfies the invariant.
LEMMA InitIInv == Init => IInv
<1> SUFFICES ASSUME Init PROVE IInv
  OBVIOUS
<1>1. /\ status = [a \in Alerts |-> "ABSENT"] /\ trail = [a \in Alerts |-> <<>>]
      /\ passed = [c \in CaseIds |-> FALSE] /\ cases = [c \in CaseIds |-> NoRow]
      /\ timeline = [c \in CaseIds |-> <<>>] /\ job = [w \in Workers |-> Idle]
  BY DEF Init, Workflow!WorkflowInit
<1>2. NoRow \in Row /\ NoRow.status = "ABSENT" /\ Idle \in Job /\ Idle.pc = "idle"
  BY DEF NoRow, Row, CaseStatus, Idle, Job
<1>3. TypeOK /\ AlertsTyped
  BY <1>1, <1>2 DEF TypeOK, AlertsTyped
<1>4. EscalationInTrail /\ JobsJustified /\ TimelineBegun
  BY <1>1, <1>2 DEF EscalationInTrail, JobsJustified, Justified, TimelineBegun
<1>5. CaseLinked /\ CaseRestsOnEscalation /\ ResolutionJustified
  BY <1>1, <1>2 DEF CaseLinked, CaseRestsOnEscalation, ResolutionJustified
<1>6. StagesInOrder
  <2>1. ASSUME NEW c \in CaseIds PROVE timeline[c] = <<>> /\ Len(timeline[c]) = 0
    BY <1>1
  <2> QED
    BY <2>1 DEF StagesInOrder
<1> QED
  BY <1>3, <1>4, <1>5, <1>6 DEF IInv

\* A trail that grows keeps its escalation.
LEMMA TrailGrows ==
  ASSUME AlertsTyped, NEW a \in Alerts, NEW s \in AlertStatus,
         trail'[a] = Append(trail[a], s)
  PROVE  /\ WasEscalated(a) => WasEscalated(a)'
         /\ s = "ESCALATED" => WasEscalated(a)'
<1> DEFINE t == trail[a]
           t1 == Append(t, s)
<1>1. /\ t \in Seq(AlertStatus) /\ Len(t) \in Nat /\ trail'[a] = t1
      /\ Len(t1) = Len(t) + 1 /\ t1[Len(t) + 1] = s
      /\ \A k \in 1..Len(t) : t1[k] = t[k]
  BY AppendProperties, LenProperties DEF AlertsTyped
<1> HIDE DEF t1
<1>2. ASSUME WasEscalated(a) PROVE WasEscalated(a)'
  <2>1. PICK k \in 1..Len(t) : t[k] = "ESCALATED"
    BY <1>2 DEF WasEscalated
  <2>2. k \in 1..Len(t1) /\ t1[k] = "ESCALATED"
    BY <2>1, <1>1
  <2> QED
    BY <2>2, <1>1 DEF WasEscalated
<1>3. ASSUME s = "ESCALATED" PROVE WasEscalated(a)'
  <2>1. Len(t) + 1 \in 1..Len(t1)
    BY <1>1
  <2> QED
    BY <2>1, <1>1, <1>3 DEF WasEscalated
<1> QED
  BY <1>2, <1>3

\* Triage never takes an escalation away: from ESCALATED an alert only closes.
LEMMA TriageKeepsEscalation ==
  ASSUME AlertsTyped, EscalationInTrail, Workflow!WorkflowNext
  PROVE  /\ AlertsTyped' /\ EscalationInTrail'
         /\ \A a \in Alerts : Rests(a) => Rests(a)'
<1> USE DEF AlertStatus, Workflow!AlertStatus
<1>1. ASSUME NEW S \in SUBSET Alerts, Workflow!Raise(S)
      PROVE  /\ AlertsTyped' /\ EscalationInTrail'
             /\ \A a \in Alerts : Rests(a) => Rests(a)'
  <2>1. /\ \A a \in S : status[a] = "ABSENT"
        /\ status' = [a \in Alerts |-> IF a \in S THEN "NEW" ELSE status[a]]
        /\ trail' = [a \in Alerts |-> IF a \in S THEN Append(trail[a], "NEW") ELSE trail[a]]
    BY <1>1 DEF Workflow!Raise
  <2>2. \A a \in Alerts : Append(trail[a], "NEW") \in Seq(AlertStatus)
    BY AppendProperties DEF AlertsTyped
  <2>3. AlertsTyped'
    BY <2>1, <2>2 DEF AlertsTyped
  <2>4. ASSUME NEW a \in Alerts, a \notin S
        PROVE  status'[a] = status[a] /\ trail'[a] = trail[a]
    BY <2>1, <2>4
  <2>5. EscalationInTrail'
    BY <2>1, <2>4 DEF EscalationInTrail, WasEscalated
  <2>6. \A a \in Alerts : Rests(a) => Rests(a)'
    BY <2>1, <2>4 DEF Rests, WasEscalated
  <2> QED
    BY <2>3, <2>5, <2>6
<1>2. ASSUME NEW b \in Alerts, NEW s \in Workflow!AlertStatus, Workflow!Transition(b, s)
      PROVE  /\ AlertsTyped' /\ EscalationInTrail'
             /\ \A a \in Alerts : Rests(a) => Rests(a)'
  <2>1. /\ <<status[b], s>> \in Workflow!AllowedTransitions
        /\ status' = [status EXCEPT ![b] = s]
        /\ trail' = [trail EXCEPT ![b] = Append(@, s)]
    BY <1>2 DEF Workflow!Transition
  <2>2. Append(trail[b], s) \in Seq(AlertStatus)
    BY AppendProperties DEF AlertsTyped
  <2>3. AlertsTyped'
    BY <2>1, <2>2 DEF AlertsTyped
  <2>4. /\ status'[b] = s /\ trail'[b] = Append(trail[b], s)
        /\ \A a \in Alerts \ {b} : status'[a] = status[a] /\ trail'[a] = trail[a]
    BY <2>1 DEF AlertsTyped
  <2>5. /\ WasEscalated(b) => WasEscalated(b)'
        /\ s = "ESCALATED" => WasEscalated(b)'
    BY <2>4, TrailGrows
  <2>6. EscalationInTrail'
    BY <2>4, <2>5 DEF EscalationInTrail, WasEscalated
  <2>7. status[b] \in {"ESCALATED", "CLOSED"} => s = "CLOSED"
    BY <2>1 DEF Workflow!AllowedTransitions
  <2>8. \A a \in Alerts : Rests(a) => Rests(a)'
    BY <2>4, <2>5, <2>7 DEF Rests, WasEscalated
  <2> QED
    BY <2>3, <2>6, <2>8
<1> QED
  BY <1>1, <1>2 DEF Workflow!WorkflowNext

-----------------------------------------------------------------------------
(* One lemma per kind of step.                                             *)

\* What a handler knows outlives every step that keeps escalations, stages, rows
\* and PASS evidence.
LEMMA JustifiedStays ==
  ASSUME NEW j \in Job, Justified(j),
         \A a \in Alerts : Rests(a) => Rests(a)',
         \A x \in CaseIds, s \in CaseStatus : Reached(x, s) => Reached(x, s)',
         \A x \in CaseIds : cases[x].status # "ABSENT" => cases'[x].status # "ABSENT",
         \A x \in CaseIds : passed[x] => passed'[x]
  PROVE  Justified(j)'
<1>1. ASSUME j.pc = "opening" PROVE j.alert \in Alerts /\ Rests(j.alert)'
  <2>1. PICK a \in Alerts : a = j.alert /\ Rests(a)
    BY <1>1 DEF Justified
  <2>2. Rests(a)'
    BY <2>1
  <2> QED
    BY <2>1, <2>2
<1>2. ASSUME j.pc \in {"checking", "moving"} PROVE Reached(j.case, j.from)'
  <2>1. PICK x \in CaseIds, s \in CaseStatus : x = j.case /\ s = j.from /\ Reached(x, s)
    BY <1>2 DEF Justified, Job
  <2>2. Reached(x, s)'
    BY <2>1
  <2> QED
    BY <2>1, <2>2
<1> QED
  BY <1>1, <1>2 DEF Justified

\* A step that changes only what thread w holds, and to something justified.
LEMMA JobStep ==
  ASSUME IInv, NEW w \in Workers, NEW j \in Job, Justified(j),
         job' = [job EXCEPT ![w] = j],
         UNCHANGED <<status, trail, passed, cases, timeline>>
  PROVE  IInv'
<1>1. TypeOK' /\ AlertsTyped' /\ EscalationInTrail' /\ TimelineBegun'
  BY DEF IInv, TypeOK, AlertsTyped, EscalationInTrail, WasEscalated, TimelineBegun
<1>2. CaseLinked' /\ CaseRestsOnEscalation' /\ ResolutionJustified' /\ StagesInOrder'
  BY DEF IInv, CaseLinked, CaseRestsOnEscalation, ResolutionJustified, StagesInOrder
<1>3. ASSUME NEW v \in Workers PROVE Justified(job[v])'
  <2>1. job'[v] = j \/ job'[v] = job[v]
    BY DEF IInv, TypeOK
  <2>2. Justified(job[v])
    BY DEF IInv, JobsJustified
  <2> QED
    BY <2>1, <2>2 DEF Justified, Reached, Rests, WasEscalated
<1> QED
  BY <1>1, <1>2, <1>3 DEF IInv, JobsJustified

\* The ends of handlers that change no table.
LEMMA IdleStep ==
  ASSUME IInv, NEW w \in Workers, Finish(w),
         UNCHANGED <<status, trail, passed, cases, timeline>>
  PROVE  IInv'
<1>1. Idle \in Job /\ Justified(Idle)
  BY DEF Idle, Job, CaseStatus, Justified
<1> QED
  BY <1>1, JobStep DEF Finish

LEMMA ReadAlertStep ==
  ASSUME IInv, NEW w \in Workers, NEW a \in Alerts, ReadAlert(w, a)
  PROVE  IInv'
<1> DEFINE j == [Idle EXCEPT !.pc = "opening", !.alert = a]
<1>1. /\ status[a] = "ESCALATED" /\ job' = [job EXCEPT ![w] = j]
      /\ UNCHANGED <<status, trail, passed, cases, timeline>>
  BY DEF ReadAlert
<1>2. j \in Job /\ j.pc = "opening" /\ j.alert = a
  BY DEF Idle, Job, CaseStatus
<1>3. Rests(a)
  BY <1>1 DEF IInv, EscalationInTrail, Rests
<1> HIDE DEF j
<1>4. Justified(j)
  BY <1>2, <1>3 DEF Justified
<1> QED
  BY <1>1, <1>2, <1>4, JobStep

\* The row read says which stage the case has reached.
LEMMA ReadCaseStep ==
  ASSUME IInv, NEW w \in Workers, NEW c \in CaseIds, NEW next \in DOMAIN Required,
         NEW given \in SUBSET Texts, ReadCase(w, c, next, given)
  PROVE  IInv'
<1> DEFINE j == [pc |-> IF next = "INVESTIGATING" THEN "moving" ELSE "checking",
                 alert |-> cases[c].alert, case |-> c, from |-> cases[c].status,
                 to |-> next, version |-> cases[c].version, texts |-> given]
<1>1. /\ <<cases[c].status, next>> \in CaseMoves /\ Required[next] \subseteq given
      /\ job' = [job EXCEPT ![w] = j]
      /\ UNCHANGED <<status, trail, passed, cases, timeline>>
  BY DEF ReadCase
<1>2. cases[c] \in Row
  BY DEF IInv, TypeOK
<1>3. cases[c].status \in CaseStatus /\ next \in CaseStatus
  BY <1>1 DEF CaseMoves, CaseStatus
<1>4. /\ j \in Job /\ j.case = c /\ j.from = cases[c].status /\ j.to = next
      /\ j.texts = given /\ j.pc \in {"moving", "checking"}
      /\ j.pc = "moving" => j.to = "INVESTIGATING"
  BY <1>2, <1>3 DEF Job, Row
<1>5. Reached(c, cases[c].status)
  <2>1. CASE timeline[c] = <<>>
    BY <1>3, <2>1 DEF IInv, TimelineBegun, Reached, CaseStatus
  <2>2. CASE timeline[c] # <<>>
    <3>1. timeline[c] \in Seq(Entry)
      BY DEF IInv, TypeOK
    <3>2. Len(timeline[c]) \in 1..Len(timeline[c])
      BY <2>2, <3>1, EmptySeq, LenProperties
    <3> QED
      BY <2>2, <3>2 DEF IInv, StagesInOrder, Reached
  <2> QED
    BY <2>1, <2>2
<1> HIDE DEF j
<1>6. Justified(j)
  BY <1>1, <1>3, <1>4, <1>5 DEF Justified, CaseStatus
<1> QED
  BY <1>1, <1>4, <1>6, JobStep

LEMMA CheckEvidenceStep ==
  ASSUME IInv, NEW w \in Workers, CheckEvidence(w)
  PROVE  IInv'
<1>1. CASE Finish(w)
  BY <1>1, IdleStep DEF CheckEvidence
<1>2. CASE ~ Finish(w)
  <2> DEFINE j == [job[w] EXCEPT !.pc = "moving"]
  <2>1. /\ job[w].pc = "checking"
        /\ passed[job[w].case] \/ "waiver" \in job[w].texts
        /\ UNCHANGED <<status, trail, passed, cases, timeline>>
    BY <1>2 DEF CheckEvidence
  <2>2. job' = [job EXCEPT ![w] = j]
    BY <1>2 DEF CheckEvidence, IInv, TypeOK
  <2>3. job[w] \in Job /\ Justified(job[w])
    BY DEF IInv, TypeOK, JobsJustified
  <2>4. /\ j \in Job /\ j.pc = "moving" /\ j.case = job[w].case
        /\ j.from = job[w].from /\ j.to = job[w].to /\ j.texts = job[w].texts
    BY <2>3 DEF Job
  <2> HIDE DEF j
  <2>5. Justified(j)
    BY <2>1, <2>3, <2>4 DEF Justified
  <2> QED
    BY <2>1, <2>2, <2>4, <2>5, JobStep
<1> QED
  BY <1>1, <1>2

\* The surroundings take nothing away from a handler or a case.
LEMMA SurroundingStep ==
  ASSUME IInv, AlertStep \/ \E c \in CaseIds : EvidencePasses(c)
  PROVE  IInv'
<1>1. UNCHANGED <<cases, timeline, job>>
  BY DEF AlertStep, EvidencePasses
<1>2. /\ AlertsTyped' /\ EscalationInTrail'
      /\ \A a \in Alerts : Rests(a) => Rests(a)'
  <2>1. CASE AlertStep
    BY <2>1, TriageKeepsEscalation DEF AlertStep, IInv
  <2>2. CASE UNCHANGED <<status, trail>>
    BY <2>2 DEF IInv, AlertsTyped, EscalationInTrail, Rests, WasEscalated
  <2> QED
    BY <2>1, <2>2 DEF EvidencePasses
<1>3. passed' \in [CaseIds -> BOOLEAN] /\ \A c \in CaseIds : passed[c] => passed'[c]
  BY DEF AlertStep, EvidencePasses, IInv, TypeOK
<1>4. TypeOK' /\ CaseLinked' /\ TimelineBegun' /\ StagesInOrder'
  BY <1>1, <1>3 DEF IInv, TypeOK, CaseLinked, TimelineBegun, StagesInOrder
<1>5. ASSUME NEW w \in Workers PROVE Justified(job[w])'
  <2>1. Justified(job[w])
    BY DEF IInv, JobsJustified
  <2> QED
    BY <2>1, <1>1, <1>2, <1>3 DEF Justified, Reached
<1>6. CaseRestsOnEscalation'
  <2>1. ASSUME NEW c \in CaseIds, cases[c] # NoRow
        PROVE  cases[c].alert \in Alerts /\ Rests(cases[c].alert)
    BY <2>1 DEF IInv, CaseRestsOnEscalation, CaseLinked, Rests, WasEscalated
  <2> QED
    BY <2>1, <1>1, <1>2 DEF CaseRestsOnEscalation, Rests, WasEscalated
<1>7. ResolutionJustified'
  BY <1>1, <1>3 DEF IInv, ResolutionJustified
<1> QED
  BY <1>2, <1>4, <1>5, <1>6, <1>7 DEF IInv, JobsJustified

\* A new case: the alert it was decided on still rests on its escalation.
LEMMA OpenCaseStep ==
  ASSUME IInv, NEW w \in Workers, NEW c \in CaseIds, OpenCase(w, c)
  PROVE  IInv'
<1> DEFINE row == [status |-> "OPEN", version |-> 1, texts |-> {}, alert |-> job[w].alert]
<1>1. /\ job[w].pc = "opening" /\ cases[c] = NoRow
      /\ cases' = [cases EXCEPT ![c] = row]
      /\ Finish(w)
      /\ UNCHANGED <<status, trail, passed, timeline>>
  BY DEF OpenCase
<1>2. job[w].alert \in Alerts /\ Rests(job[w].alert)
  BY <1>1 DEF IInv, JobsJustified, Justified
<1>3. row \in Row /\ row.status = "OPEN" /\ row.alert = job[w].alert
  BY <1>2 DEF Row, CaseStatus
<1> HIDE DEF row
<1>4. Idle \in Job /\ Idle.pc = "idle" /\ NoRow.status = "ABSENT"
  BY DEF Idle, Job, CaseStatus, NoRow
<1>5. /\ job' \in [Workers -> Job] /\ cases' \in [CaseIds -> Row]
      /\ cases'[c] = row /\ \A x \in CaseIds \ {c} : cases'[x] = cases[x]
      /\ \A v \in Workers : job'[v] = Idle \/ job'[v] = job[v]
  BY <1>1, <1>3, <1>4 DEF Finish, IInv, TypeOK
<1>6. timeline[c] = <<>>
  <2>1. timeline[c] \in Seq(Entry)
    BY DEF IInv, TypeOK
  <2>2. ASSUME timeline[c] # <<>> PROVE FALSE
    <3>1. Len(timeline[c]) \in 1..Len(timeline[c])
      BY <2>1, <2>2, EmptySeq, LenProperties
    <3>2. timeline[c][Len(timeline[c])] \in Entry
      BY <2>1, <3>1, ElementOfSeq
    <3> QED
      BY <2>2, <3>2, <1>1, <1>4 DEF IInv, StagesInOrder, Entry, CaseStatus
  <2> QED
    BY <2>2
<1>7. TypeOK' /\ AlertsTyped' /\ EscalationInTrail'
  BY <1>1, <1>5 DEF IInv, TypeOK, AlertsTyped, EscalationInTrail, WasEscalated
<1>8. ASSUME NEW v \in Workers PROVE Justified(job[v])'
  <2>1. Justified(job[v])
    BY DEF IInv, JobsJustified
  <2> QED
    BY <2>1, <1>1, <1>3, <1>4, <1>5 DEF Justified, Reached, Rests, WasEscalated
<1>9. TimelineBegun' /\ CaseLinked' /\ ResolutionJustified'
  BY <1>1, <1>2, <1>3, <1>5 DEF IInv, TimelineBegun, CaseLinked, ResolutionJustified
<1>10. CaseRestsOnEscalation'
  BY <1>1, <1>2, <1>3, <1>5 DEF IInv, CaseRestsOnEscalation, Rests, WasEscalated
<1>11. StagesInOrder'
  BY <1>1, <1>5, <1>6 DEF IInv, StagesInOrder
<1> QED
  BY <1>7, <1>8, <1>9, <1>10, <1>11 DEF IInv, JobsJustified

\* A transition: whatever the row says by now, what is written over it is
\* justified by what the handler carries and by the texts that are there.
LEMMA MoveCommitStep ==
  ASSUME IInv, NEW w \in Workers, MoveCommit(w)
  PROVE  IInv'
<1> DEFINE j == job[w]
           c == job[w].case
           e == [from |-> j.from, to |-> j.to]
           row == [cases[c] EXCEPT !.status = j.to, !.version = j.version + 1,
                                   !.texts = @ \cup j.texts]
           h == timeline[c]
           h1 == Append(h, e)
<1>1. /\ j.pc = "moving" /\ Finish(w)
      /\ timeline' = [timeline EXCEPT ![c] = h1]
      /\ UNCHANGED <<status, trail, passed>>
  BY DEF MoveCommit
<1>2. j \in Job /\ Justified(j)
  BY DEF IInv, TypeOK, JobsJustified
<1>3. /\ c \in CaseIds /\ cases[c].status # "ABSENT" /\ cases[c] \in Row
      /\ <<j.from, j.to>> \in CaseMoves /\ Required[j.to] \subseteq j.texts
      /\ Reached(c, j.from)
      /\ j.to # "INVESTIGATING" => passed[c] \/ "waiver" \in j.texts
  BY <1>1, <1>2 DEF Justified, IInv, TypeOK
<1>4. /\ row \in Row /\ row.status = j.to /\ row.alert = cases[c].alert
      /\ j.texts \subseteq row.texts
      /\ j.to \in {"INVESTIGATING", "RESOLVED", "CLOSED"}
  <2>1. /\ j.to \in CaseStatus /\ j.version + 1 \in Nat
        /\ cases[c].texts \cup j.texts \in SUBSET Texts
    BY <1>2, <1>3 DEF Row, Job
  <2>2. /\ row \in Row /\ row.status = j.to /\ row.alert = cases[c].alert
        /\ row.texts = cases[c].texts \cup j.texts
    BY <1>3, <2>1 DEF Row
  <2> QED
    BY <1>3, <2>2 DEF CaseMoves
<1>5. cases' = [cases EXCEPT ![c] = row]
  BY <1>3 DEF MoveCommit, IInv, TypeOK
<1>6. e \in Entry /\ e.from = j.from /\ e.to = j.to
  BY <1>2 DEF Job, Entry
<1> HIDE DEF row, e
<1>7. /\ h \in Seq(Entry) /\ Len(h) \in Nat /\ h1 \in Seq(Entry)
      /\ Len(h1) = Len(h) + 1 /\ h1[Len(h) + 1] = e /\ h1 # <<>>
      /\ \A k \in 1..Len(h) : h1[k] = h[k]
  <2>1. h \in Seq(Entry) /\ Len(h) \in Nat
    BY <1>3, LenProperties DEF IInv, TypeOK
  <2>2. /\ h1 \in Seq(Entry) /\ Len(h1) = Len(h) + 1 /\ h1[Len(h) + 1] = e
        /\ \A k \in 1..Len(h) : h1[k] = h[k]
    BY <2>1, <1>6, AppendProperties
  <2>3. h1 # <<>>
    BY <2>1, <2>2, EmptySeq
  <2> QED
    BY <2>1, <2>2, <2>3
<1> HIDE DEF h1
<1>8. Idle \in Job /\ Idle.pc = "idle" /\ NoRow.status = "ABSENT"
  BY DEF Idle, Job, CaseStatus, NoRow
<1>9. /\ job' \in [Workers -> Job] /\ cases' \in [CaseIds -> Row]
      /\ timeline' \in [CaseIds -> Seq(Entry)]
      /\ cases'[c] = row /\ \A x \in CaseIds \ {c} : cases'[x] = cases[x]
      /\ timeline'[c] = h1 /\ \A x \in CaseIds \ {c} : timeline'[x] = timeline[x]
      /\ \A v \in Workers : job'[v] = Idle \/ job'[v] = job[v]
  BY <1>1, <1>3, <1>4, <1>5, <1>7, <1>8 DEF Finish, IInv, TypeOK
<1>10. TypeOK' /\ AlertsTyped' /\ EscalationInTrail'
  BY <1>1, <1>9 DEF IInv, TypeOK, AlertsTyped, EscalationInTrail, WasEscalated
<1>11. ASSUME NEW x \in CaseIds, NEW s \in CaseStatus, Reached(x, s) PROVE Reached(x, s)'
  <2>1. CASE x # c
    BY <2>1, <1>9, <1>11 DEF Reached
  <2>2. CASE x = c /\ s # "OPEN"
    <3>1. PICK i \in 1..Len(h) : h[i].to = s
      BY <2>2, <1>11 DEF Reached
    <3>2. i \in 1..Len(h1) /\ h1[i].to = s
      BY <3>1, <1>7
    <3> QED
      BY <2>2, <3>2, <1>9 DEF Reached
  <2> QED
    BY <2>1, <2>2 DEF Reached
<1>12. ASSUME NEW v \in Workers PROVE Justified(job[v])'
  <2>1. CASE job'[v] = Idle
    BY <2>1, <1>8 DEF Justified
  <2>2. CASE job'[v] = job[v]
    <3>1. PICK i \in Job : i = job[v] /\ Justified(i)
      BY DEF IInv, TypeOK, JobsJustified
    <3>2. Justified(i)'
      BY <3>1, <1>1, <1>4, <1>9, <1>11, JustifiedStays DEF Rests, WasEscalated
    <3> QED
      BY <2>2, <3>1, <3>2 DEF Justified, Reached, Rests, WasEscalated
  <2> QED
    BY <2>1, <2>2, <1>9
<1>13. TimelineBegun' /\ CaseLinked'
  BY <1>3, <1>4, <1>7, <1>8, <1>9 DEF IInv, TimelineBegun, CaseLinked
<1>14. CaseRestsOnEscalation'
  <2>1. ASSUME NEW x \in CaseIds, cases'[x] # NoRow
        PROVE  cases'[x].alert = cases[x].alert /\ cases[x] # NoRow
    BY <2>1, <1>3, <1>4, <1>8, <1>9
  <2> QED
    BY <2>1, <1>1 DEF IInv, CaseRestsOnEscalation
<1>15. ResolutionJustified'
  BY <1>1, <1>3, <1>4, <1>9 DEF IInv, ResolutionJustified
<1>16. StagesInOrder'
  <2>1. ASSUME NEW x \in CaseIds, NEW k \in 1..Len(timeline'[x])
        PROVE  /\ timeline'[x][k].from # "OPEN" =>
                    \E i \in 1..(k - 1) : timeline'[x][i].to = timeline'[x][k].from
               /\ <<timeline'[x][k].from, timeline'[x][k].to>> \in CaseMoves
    <3>1. CASE x # c
      <4>1. timeline'[x] = timeline[x] /\ k \in 1..Len(timeline[x])
        BY <3>1, <1>9
      <4>2. /\ timeline[x][k].from # "OPEN" =>
                 \E i \in 1..(k - 1) : timeline[x][i].to = timeline[x][k].from
            /\ <<timeline[x][k].from, timeline[x][k].to>> \in CaseMoves
        BY <4>1 DEF IInv, StagesInOrder
      <4> QED
        BY <4>1, <4>2
    <3>2. CASE x = c /\ k \in 1..Len(h)
      <4>1. /\ h[k].from # "OPEN" => \E i \in 1..(k - 1) : h[i].to = h[k].from
            /\ <<h[k].from, h[k].to>> \in CaseMoves
        BY <3>2 DEF IInv, StagesInOrder
      <4>2. \A i \in 1..(k - 1) : h1[i] = h[i]
        BY <3>2, <1>7
      <4> QED
        BY <3>2, <4>1, <4>2, <1>7, <1>9
    <3>3. CASE x = c /\ k = Len(h) + 1
      <4>1. h1[k].from # "OPEN" => \E i \in 1..(k - 1) : h1[i].to = h1[k].from
        <5> SUFFICES ASSUME j.from # "OPEN" PROVE \E i \in 1..(k - 1) : h1[i].to = j.from
          BY <3>3, <1>6, <1>7
        <5>1. PICK i \in 1..Len(h) : h[i].to = j.from
          BY <1>3 DEF Reached
        <5>2. i \in 1..(k - 1) /\ h1[i] = h[i]
          BY <3>3, <1>7
        <5> QED
          BY <5>1, <5>2
      <4> QED
        BY <3>3, <4>1, <1>3, <1>6, <1>7, <1>9
    <3> QED
      BY <3>1, <3>2, <3>3, <1>7, <1>9
  <2>2. ASSUME NEW x \in CaseIds, timeline'[x] # <<>>
        PROVE  cases'[x].status = timeline'[x][Len(timeline'[x])].to
    <3>1. CASE x # c
      BY <2>2, <3>1, <1>9 DEF IInv, StagesInOrder
    <3>2. CASE x = c
      BY <3>2, <1>4, <1>6, <1>7, <1>9
    <3> QED
      BY <3>1, <3>2
  <2> QED
    BY <2>1, <2>2 DEF StagesInOrder
<1> QED
  BY <1>10, <1>12, <1>13, <1>14, <1>15, <1>16 DEF IInv, JobsJustified

\* Every step of the system keeps the invariant.
LEMMA NextIInv == IInv /\ [Next]_vars => IInv'
<1> SUFFICES ASSUME IInv, [Next]_vars PROVE IInv'
  OBVIOUS
<1>1. CASE AlertStep \/ \E c \in CaseIds : EvidencePasses(c)
  BY <1>1, SurroundingStep
<1>2. ASSUME NEW w \in Workers, NEW a \in Alerts, ReadAlert(w, a) PROVE IInv'
  BY <1>2, ReadAlertStep
<1>3. ASSUME NEW w \in Workers, NEW c \in CaseIds, OpenCase(w, c) PROVE IInv'
  BY <1>3, OpenCaseStep
<1>4. ASSUME NEW w \in Workers, NEW c \in CaseIds, NEW next \in DOMAIN Required,
             NEW given \in SUBSET Texts, ReadCase(w, c, next, given)
      PROVE  IInv'
  BY <1>4, ReadCaseStep
<1>5. ASSUME NEW w \in Workers, CheckEvidence(w) PROVE IInv'
  BY <1>5, CheckEvidenceStep
<1>6. ASSUME NEW w \in Workers, MoveCommit(w) PROVE IInv'
  BY <1>6, MoveCommitStep
<1>7. ASSUME NEW w \in Workers, Abort(w) PROVE IInv'
  BY <1>7, IdleStep DEF Abort
<1>8. CASE UNCHANGED vars
  <2>1. UNCHANGED <<status, trail, passed, cases, timeline, job>>
    BY <1>8 DEF vars
  <2> QED
    BY <2>1 DEF IInv, TypeOK, AlertsTyped, EscalationInTrail, WasEscalated, Rests, Reached,
                JobsJustified, Justified, TimelineBegun, CaseLinked, CaseRestsOnEscalation,
                ResolutionJustified, StagesInOrder
<1> QED
  BY <1>1, <1>2, <1>3, <1>4, <1>5, <1>6, <1>7, <1>8 DEF Next

\* The inductive invariant holds throughout.
LEMMA Invariant == Spec => []IInv
  BY InitIInv, NextIInv, PTL DEF Spec

-----------------------------------------------------------------------------

\* The tables and what the handlers hold keep their types.
THEOREM TypeCorrect == Spec => []TypeOK
  BY Invariant, PTL DEF IInv

\* Every case rests on an escalation, for any number of racing handlers,
\* although create_case never looks at the alert again.
THEOREM RestsOnEscalation == Spec => []CaseRestsOnEscalation
  BY Invariant, PTL DEF IInv

\* A resolved or closed case is justified by what the tables hold, whichever
\* handler wrote its row last.
THEOREM ResolutionHolds == Spec => []ResolutionJustified
  BY Invariant, PTL DEF IInv

\* The timeline never shows a stage before the one it builds on.
THEOREM StagesHold == Spec => []StagesInOrder
  BY Invariant, PTL DEF IInv

-----------------------------------------------------------------------------
(* Handlers that take turns on a case.                                     *)

\* The initial state satisfies the invariant of turns.
LEMMA InitSerial == Init => SerialInv
<1> SUFFICES ASSUME Init PROVE SerialInv
  OBVIOUS
<1>1. TypeOK
  BY InitIInv DEF IInv
<1>2. /\ \A w \in Workers : job[w] = Idle
      /\ \A c \in CaseIds : cases[c] = NoRow /\ timeline[c] = <<>>
  BY DEF Init
<1>3. Idle.pc = "idle" /\ Idle.case = None
  BY DEF Idle
<1> QED
  BY <1>1, <1>2, <1>3 DEF SerialInv, JobsCurrent, Current, OneHandlerPerCase,
                          NoTimelineWithoutCase, TimelineIsChain

\* A thread takes up, goes on with or ends a handler; no case changes.
LEMMA SerialJobStep ==
  ASSUME SerialInv, NEW w \in Workers, NEW j \in Job, Current(j),
         j.case # None => \A v \in Workers \ {w} : job[v].case # j.case,
         job' = [job EXCEPT ![w] = j], UNCHANGED <<passed, cases, timeline>>
  PROVE  SerialInv'
<1>1. TypeOK' /\ NoTimelineWithoutCase' /\ TimelineIsChain'
  BY DEF SerialInv, TypeOK, NoTimelineWithoutCase, TimelineIsChain
<1>2. job'[w] = j /\ \A v \in Workers \ {w} : job'[v] = job[v]
  BY DEF SerialInv, TypeOK
<1>3. JobsCurrent'
  BY <1>2 DEF SerialInv, JobsCurrent, Current
<1>4. OneHandlerPerCase'
  <2> SUFFICES ASSUME NEW x \in Workers, NEW y \in Workers, x # y, job'[x].case # None
               PROVE  job'[x].case # job'[y].case
    BY DEF OneHandlerPerCase
  <2>1. CASE x = w
    BY <2>1, <1>2
  <2>2. CASE y = w
    BY <2>2, <1>2
  <2>3. CASE x # w /\ y # w
    BY <2>3, <1>2 DEF SerialInv, OneHandlerPerCase
  <2> QED
    BY <2>1, <2>2, <2>3
<1> QED
  BY <1>1, <1>3, <1>4 DEF SerialInv

LEMMA SerialIdleStep ==
  ASSUME SerialInv, NEW w \in Workers, Finish(w), UNCHANGED <<passed, cases, timeline>>
  PROVE  SerialInv'
<1>1. Idle \in Job /\ Idle.case = None /\ Current(Idle)
  BY DEF Idle, Job, CaseStatus, Current
<1> QED
  BY <1>1, SerialJobStep DEF Finish

LEMMA SerialOpenCase ==
  ASSUME SerialInv, NEW w \in Workers, NEW c \in CaseIds, OpenCase(w, c), TypeOK'
  PROVE  SerialInv'
<1>1. /\ cases[c] = NoRow /\ Finish(w) /\ UNCHANGED timeline
      /\ cases'[c] = [status |-> "OPEN", version |-> 1, texts |-> {},
                      alert |-> job[w].alert]
      /\ \A x \in CaseIds \ {c} : cases'[x] = cases[x]
  BY DEF OpenCase, SerialInv, TypeOK
<1>2. /\ NoRow.status = "ABSENT" /\ Idle.pc = "idle" /\ Idle.case = None
      /\ cases'[c].status = "OPEN" /\ cases'[c].version = 1
  BY <1>1 DEF NoRow, Idle
<1>3. job'[w] = Idle /\ \A v \in Workers \ {w} : job'[v] = job[v]
  BY <1>1 DEF Finish, SerialInv, TypeOK
<1>4. timeline[c] = <<>> /\ Len(timeline[c]) = 0
  BY <1>1 DEF SerialInv, NoTimelineWithoutCase
<1>5. JobsCurrent'
  BY <1>1, <1>2, <1>3 DEF SerialInv, JobsCurrent, Current
<1>6. OneHandlerPerCase'
  BY <1>2, <1>3 DEF SerialInv, OneHandlerPerCase
<1>7. NoTimelineWithoutCase'
  BY <1>1, <1>4 DEF SerialInv, NoTimelineWithoutCase
<1>8. TimelineIsChain'
  BY <1>1, <1>2, <1>4 DEF SerialInv, TimelineIsChain
<1> QED
  BY <1>5, <1>6, <1>7, <1>8 DEF SerialInv

\* The row is as it was read, so the new entry continues the chain.
LEMMA SerialMoveCommit ==
  ASSUME SerialInv, NEW w \in Workers, MoveCommit(w), TypeOK'
  PROVE  SerialInv'
<1> DEFINE j == job[w]
           c == job[w].case
           e == [from |-> j.from, to |-> j.to]
           h == timeline[c]
           h1 == Append(h, e)
<1>1. /\ j \in Job /\ j.pc = "moving" /\ c \in CaseIds /\ c # None
      /\ cases[c].status # "ABSENT" /\ cases[c].status = j.from
      /\ cases[c].version = j.version /\ Finish(w)
  BY NoneAssumption DEF MoveCommit, SerialInv, TypeOK, JobsCurrent, Current
<1>2. /\ cases'[c].status = j.to /\ cases'[c].version = j.version + 1
      /\ \A x \in CaseIds \ {c} : cases'[x] = cases[x] /\ timeline'[x] = timeline[x]
      /\ timeline'[c] = h1
  <2>1. cases[c] \in Row
    BY <1>1 DEF SerialInv, TypeOK
  <2> QED
    BY <1>1, <2>1 DEF MoveCommit, SerialInv, TypeOK, Row
<1>3. j.to \in CaseStatus /\ j.to # "ABSENT" /\ NoRow.status = "ABSENT"
      /\ Idle.pc = "idle" /\ Idle.case = None
  BY <1>1 DEF Job, CaseStatus, NoRow, Idle
<1>4. job'[w] = Idle /\ \A v \in Workers \ {w} : job'[v] = job[v] /\ job[v].case # c
  BY <1>1 DEF Finish, SerialInv, TypeOK, OneHandlerPerCase
<1>5. JobsCurrent'
  BY <1>2, <1>3, <1>4 DEF SerialInv, JobsCurrent, Current
<1>6. OneHandlerPerCase'
  BY <1>3, <1>4 DEF SerialInv, OneHandlerPerCase
<1>7. cases'[c] # NoRow /\ cases[c] # NoRow
  BY <1>1, <1>2, <1>3
<1>8. NoTimelineWithoutCase'
  BY <1>2, <1>7 DEF SerialInv, NoTimelineWithoutCase
<1>9. e \in Entry /\ e.from = j.from /\ e.to = j.to
  BY <1>1 DEF Job, Entry
<1> HIDE DEF e
<1>10. /\ h \in Seq(Entry) /\ Len(h) \in Nat
       /\ Len(h1) = Len(h) + 1 /\ h1[Len(h) + 1] = e /\ h1 # <<>>
       /\ \A k \in 1..Len(h) : h1[k] = h[k]
  <2>1. h \in Seq(Entry) /\ Len(h) \in Nat
    BY <1>1, LenProperties DEF SerialInv, TypeOK
  <2>2. /\ h1 \in Seq(Entry) /\ Len(h1) = Len(h) + 1 /\ h1[Len(h) + 1] = e
        /\ \A k \in 1..Len(h) : h1[k] = h[k]
    BY <2>1, <1>9, AppendProperties
  <2>3. h1 # <<>>
    BY <2>1, <2>2, EmptySeq
  <2> QED
    BY <2>1, <2>2, <2>3
<1> HIDE DEF h1
<1>11. /\ cases[c].version = Len(h) + 1
       /\ \A k \in 1..Len(h) : h[k].from = IF k = 1 THEN "OPEN" ELSE h[k - 1].to
       /\ cases[c].status = IF h = <<>> THEN "OPEN" ELSE h[Len(h)].to
  BY <1>1, <1>7 DEF SerialInv, TimelineIsChain
<1>12. ASSUME NEW k \in 1..Len(h1)
       PROVE  h1[k].from = IF k = 1 THEN "OPEN" ELSE h1[k - 1].to
  <2>1. CASE k \in 1..Len(h)
    <3>1. k = 1 \/ k - 1 \in 1..Len(h)
      BY <2>1, <1>10
    <3> QED
      BY <2>1, <3>1, <1>10, <1>11
  <2>2. CASE k = Len(h) + 1
    <3>1. CASE h = <<>>
      BY <2>2, <3>1, <1>1, <1>9, <1>10, <1>11, EmptySeq
    <3>2. CASE h # <<>>
      <4>1. Len(h) # 0 /\ Len(h) \in 1..Len(h)
        BY <3>2, <1>10, EmptySeq
      <4> QED
        BY <2>2, <3>2, <4>1, <1>1, <1>9, <1>10, <1>11
    <3> QED
      BY <3>1, <3>2
  <2> QED
    BY <2>1, <2>2, <1>10
<1>13. TimelineIsChain'
  <2>1. ASSUME NEW x \in CaseIds, cases'[x] # NoRow
        PROVE  /\ cases'[x].version = Len(timeline'[x]) + 1
               /\ \A k \in 1..Len(timeline'[x]) :
                    timeline'[x][k].from = IF k = 1 THEN "OPEN" ELSE timeline'[x][k - 1].to
               /\ cases'[x].status =
                    IF timeline'[x] = <<>> THEN "OPEN"
                    ELSE timeline'[x][Len(timeline'[x])].to
    <3>1. CASE x # c
      <4>1. cases'[x] = cases[x] /\ timeline'[x] = timeline[x]
        BY <3>1, <1>2
      <4> QED
        BY <2>1, <4>1 DEF SerialInv, TimelineIsChain
    <3>2. CASE x = c
      <4>1. cases'[c].version = Len(h1) + 1
        BY <1>1, <1>2, <1>10, <1>11
      <4>2. cases'[c].status = h1[Len(h1)].to
        BY <1>2, <1>9, <1>10
      <4> QED
        BY <3>2, <4>1, <4>2, <1>2, <1>10, <1>12
    <3> QED
      BY <3>1, <3>2
  <2> QED
    BY <2>1 DEF TimelineIsChain
<1> QED
  BY <1>5, <1>6, <1>8, <1>13 DEF SerialInv

\* Every step of handlers that take turns keeps the invariant.
LEMMA NextSerial ==
  ASSUME Overlap = FALSE
  PROVE  SerialInv /\ TypeOK' /\ [Next]_vars => SerialInv'
<1> SUFFICES ASSUME SerialInv, TypeOK', [Next]_vars PROVE SerialInv'
  OBVIOUS
<1>1. CASE AlertStep \/ \E c \in CaseIds : EvidencePasses(c)
  <2>1. UNCHANGED <<cases, timeline, job>>
    BY <1>1 DEF AlertStep, EvidencePasses
  <2> QED
    BY <2>1 DEF SerialInv, JobsCurrent, Current, OneHandlerPerCase,
                NoTimelineWithoutCase, TimelineIsChain
<1>2. ASSUME NEW w \in Workers, NEW a \in Alerts, ReadAlert(w, a) PROVE SerialInv'
  <2> DEFINE j == [Idle EXCEPT !.pc = "opening", !.alert = a]
  <2>1. j \in Job /\ j.pc = "opening" /\ j.case = None
    BY DEF Idle, Job, CaseStatus
  <2>2. job' = [job EXCEPT ![w] = j] /\ UNCHANGED <<passed, cases, timeline>>
    BY <1>2 DEF ReadAlert
  <2> HIDE DEF j
  <2>3. Current(j)
    BY <2>1 DEF Current
  <2> QED
    BY <2>1, <2>2, <2>3, SerialJobStep
<1>3. ASSUME NEW w \in Workers, NEW c \in CaseIds, OpenCase(w, c) PROVE SerialInv'
  BY <1>3, SerialOpenCase
<1>4. ASSUME NEW w \in Workers, NEW c \in CaseIds, NEW next \in DOMAIN Required,
             NEW given \in SUBSET Texts, ReadCase(w, c, next, given)
      PROVE  SerialInv'
  <2> DEFINE j == [pc |-> IF next = "INVESTIGATING" THEN "moving" ELSE "checking",
                   alert |-> cases[c].alert, case |-> c, from |-> cases[c].status,
                   to |-> next, version |-> cases[c].version, texts |-> given]
  <2>1. /\ <<cases[c].status, next>> \in CaseMoves
        /\ job' = [job EXCEPT ![w] = j] /\ UNCHANGED <<passed, cases, timeline>>
        /\ \A v \in Workers \ {w} : job[v].case # c
    BY <1>4, Overlap = FALSE DEF ReadCase, Free
  <2>2. /\ cases[c] \in Row /\ cases[c].status \in CaseStatus /\ next \in CaseStatus
        /\ cases[c].status # "ABSENT"
    BY <2>1 DEF SerialInv, TypeOK, CaseMoves, CaseStatus
  <2>3. /\ j \in Job /\ j.case = c /\ j.from = cases[c].status
        /\ j.version = cases[c].version
    BY <2>2 DEF Job, Row
  <2> HIDE DEF j
  <2>4. Current(j)
    BY <2>2, <2>3 DEF Current
  <2> QED
    BY <2>1, <2>3, <2>4, SerialJobStep
<1>5. ASSUME NEW w \in Workers, CheckEvidence(w) PROVE SerialInv'
  <2>1. CASE Finish(w)
    BY <1>5, <2>1, SerialIdleStep DEF CheckEvidence
  <2>2. CASE ~ Finish(w)
    <3> DEFINE j == [job[w] EXCEPT !.pc = "moving"]
    <3>1. job[w].pc = "checking" /\ UNCHANGED <<passed, cases, timeline>>
      BY <1>5 DEF CheckEvidence
    <3>2. job' = [job EXCEPT ![w] = j]
      BY <1>5, <2>2 DEF CheckEvidence, SerialInv, TypeOK
    <3>3. job[w] \in Job /\ Current(job[w])
      BY DEF SerialInv, TypeOK, JobsCurrent
    <3>4. /\ j \in Job /\ j.case = job[w].case /\ j.from = job[w].from
          /\ j.version = job[w].version
      BY <3>3 DEF Job
    <3>5. j.case # None => \A v \in Workers \ {w} : job[v].case # j.case
      BY <3>4 DEF SerialInv, OneHandlerPerCase
    <3> HIDE DEF j
    <3>6. Current(j)
      BY <3>1, <3>3, <3>4 DEF Current
    <3> QED
      BY <3>1, <3>2, <3>4, <3>5, <3>6, SerialJobStep
  <2> QED
    BY <2>1, <2>2
<1>6. ASSUME NEW w \in Workers, MoveCommit(w) PROVE SerialInv'
  BY <1>6, SerialMoveCommit
<1>7. ASSUME NEW w \in Workers, Abort(w) PROVE SerialInv'
  BY <1>7, SerialIdleStep DEF Abort
<1>8. CASE UNCHANGED vars
  <2>1. UNCHANGED <<passed, cases, timeline, job>>
    BY <1>8 DEF vars
  <2> QED
    BY <2>1 DEF SerialInv, JobsCurrent, Current, OneHandlerPerCase,
                NoTimelineWithoutCase, TimelineIsChain
<1> QED
  BY <1>1, <1>2, <1>3, <1>4, <1>5, <1>6, <1>7, <1>8 DEF Next

\* When handlers on a case take turns, the timeline of every case is one chain
\* that ends in its row, and the version counts it.
THEOREM ChainWhenSerial ==
  ASSUME Overlap = FALSE
  PROVE  Spec => []TimelineIsChain
<1>1. SerialInv /\ TypeOK' /\ [Next]_vars => SerialInv'
  BY NextSerial
<1> QED
  BY <1>1, InitSerial, TypeCorrect, PTL DEF Spec, SerialInv

=============================================================================
