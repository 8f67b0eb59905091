------------------------ MODULE AlertTriageProofs -------------------------
(***************************************************************************)
(* The safety properties of AlertTriage for any alerts and any number of   *)
(* tabs.                                                                   *)
(***************************************************************************)
EXTENDS AlertTriage, SequenceTheorems, TLAPS

\* What a handler past its checks knows: its form asks for an allowed move
\* from the status it read, and completing moves carry a reason.
PostChecked ==
  \A w \in Workers :
    post[w].pc \in {"viewing", "deciding"} =>
      /\ post[w].alert \in Alerts
      /\ post[w].pc = "deciding" =>
           /\ <<post[w].status, post[w].next>> \in AllowedTransitions
           /\ post[w].next \in Completing => post[w].reason

\* TypeOK and the chain are inductive together; the optimistic lock needs
\* nothing more than what the UPDATE compares.
IInv == TypeOK /\ PostChecked /\ HistoryIsChain /\ DispositionExplained

USE DEF AlertStatus, Workflow!AlertStatus, AllowedTransitions,
        Workflow!AllowedTransitions, Completing

\* The initial state satisfies the invariant.
LEMMA InitIInv == Init => IInv
<1> SUFFICES ASSUME Init PROVE IInv
  OBVIOUS
<1>1. TypeOK
  BY DEF Init, TypeOK, Row, Entry, Post, NoPost
<1>2. PostChecked
  BY DEF Init, PostChecked, NoPost
<1>3. HistoryIsChain
  <2>1. ASSUME NEW a \in Alerts
        PROVE  history[a] = <<>> /\ alerts[a].version = 0 /\ alerts[a].status = "ABSENT"
    BY DEF Init
  <2>2. ASSUME NEW a \in Alerts PROVE Len(history[a]) = 0 /\ 1..Len(history[a]) = {}
    BY <2>1
  <2> QED
    BY <2>1, <2>2 DEF HistoryIsChain
<1>4. DispositionExplained
  BY DEF Init, DispositionExplained
<1> QED
  BY <1>1, <1>2, <1>3, <1>4 DEF IInv

\* Appending an entry that continues the chain of alert b keeps every chain.
LEMMA ChainStep ==
  ASSUME TypeOK, HistoryIsChain, NEW b \in Alerts,
         NEW row \in Row, NEW e \in Entry,
         row.version = alerts[b].version + 1, row.status = e.to,
         e.version = alerts[b].version + 1, e.from = alerts[b].status,
         alerts' = [alerts EXCEPT ![b] = row],
         history' = [history EXCEPT ![b] = Append(@, e)]
  PROVE  HistoryIsChain'
<1> DEFINE h == history[b]
           h1 == Append(h, e)
<1>1. h \in Seq(Entry) /\ Len(h) \in Nat /\ alerts[b].version = Len(h)
  BY DEF TypeOK, HistoryIsChain
<1>2. /\ h1 \in Seq(Entry)
      /\ Len(h1) = Len(h) + 1
      /\ h1[Len(h) + 1] = e
      /\ \A k \in 1..Len(h) : h1[k] = h[k]
  BY <1>1, AppendProperties
<1>3. /\ \A k \in 1..Len(h) :
           /\ h[k].version = k
           /\ h[k].from = IF k = 1 THEN "ABSENT" ELSE h[k - 1].to
      /\ alerts[b].status = IF h = <<>> THEN "ABSENT" ELSE h[Len(h)].to
  BY DEF HistoryIsChain
<1>4. ASSUME NEW k \in 1..Len(h1)
      PROVE  /\ h1[k].version = k
             /\ h1[k].from = IF k = 1 THEN "ABSENT" ELSE h1[k - 1].to
  <2>1. CASE k \in 1..Len(h)
    <3>1. k = 1 \/ k - 1 \in 1..Len(h)
      BY <2>1, <1>1
    <3> QED
      BY <2>1, <3>1, <1>2, <1>3
  <2>2. CASE k = Len(h) + 1
    <3>1. CASE Len(h) = 0
      BY <3>1, <2>2, <1>1, <1>2, <1>3, EmptySeq
    <3>2. CASE Len(h) # 0
      <4>1. h # <<>> /\ k # 1 /\ k - 1 = Len(h) /\ Len(h) \in 1..Len(h)
        BY <3>2, <2>2, <1>1
      <4> QED
        BY <4>1, <2>2, <1>1, <1>2, <1>3
    <3> QED
      BY <3>1, <3>2
  <2> QED
    BY <2>1, <2>2, <1>1, <1>2
<1>5. h1 # <<>>
  <2>1. Len(h1) # 0
    BY <1>1, <1>2
  <2> QED
    BY <2>1, <1>2, EmptySeq
<1>6. alerts'[b] = row /\ history'[b] = h1
  BY DEF TypeOK
<1>7. \A a \in Alerts : a # b => alerts'[a] = alerts[a] /\ history'[a] = history[a]
  BY DEF TypeOK
<1>8. row.status = h1[Len(h1)].to /\ row.version = Len(h1)
  BY <1>1, <1>2
<1>9. SUFFICES ASSUME NEW a \in Alerts
               PROVE  /\ alerts'[a].version = Len(history'[a])
                      /\ \A k \in 1..Len(history'[a]) :
                           /\ history'[a][k].version = k
                           /\ history'[a][k].from =
                                IF k = 1 THEN "ABSENT" ELSE history'[a][k - 1].to
                      /\ alerts'[a].status = IF history'[a] = <<>> THEN "ABSENT"
                                             ELSE history'[a][Len(history'[a])].to
  BY DEF HistoryIsChain
<1>10. CASE a = b
  BY <1>10, <1>4, <1>5, <1>6, <1>8
<1>11. CASE a # b
  BY <1>11, <1>7 DEF HistoryIsChain
<1> QED
  BY <1>10, <1>11

\* The facts a decision brings to its commit.
LEMMA DecisionFacts ==
  ASSUME IInv, NEW w \in Workers, post[w].pc = "deciding"
  PROVE  LET p == post[w]  a == post[w].alert
             row == [status |-> p.next, version |-> p.seen + 1, reason |-> p.reason]
             e == [from |-> p.status, to |-> p.next, version |-> p.seen + 1]
         IN /\ a \in Alerts /\ p \in Post
            /\ <<p.status, p.next>> \in AllowedTransitions
            /\ p.next \in Completing => p.reason
            /\ row \in Row /\ e \in Entry
<1>1. post[w] \in Post
  BY DEF IInv, TypeOK
<1>2. /\ post[w].alert \in Alerts
      /\ <<post[w].status, post[w].next>> \in AllowedTransitions
      /\ post[w].next \in Completing => post[w].reason
  BY DEF IInv, PostChecked
<1>3. post[w].next \in AlertStatus /\ post[w].seen \in Nat /\ post[w].reason \in BOOLEAN
      /\ post[w].status \in AlertStatus
  BY <1>1, <1>2 DEF Post
<1> QED
  BY <1>1, <1>2, <1>3 DEF Row, Entry

\* Steps that touch only the posts of tab w keep the tables and their chains.
LEMMA PostStep ==
  ASSUME IInv, NEW w \in Workers, NEW p \in Post,
         post' = [post EXCEPT ![w] = p], UNCHANGED <<alerts, history>>,
         p.pc \in {"viewing", "deciding"} =>
           /\ p.alert \in Alerts
           /\ p.pc = "deciding" =>
                /\ <<p.status, p.next>> \in AllowedTransitions
                /\ p.next \in Completing => p.reason
  PROVE  IInv'
<1>1. TypeOK'
  BY DEF IInv, TypeOK
<1>2. PostChecked'
  BY DEF IInv, TypeOK, PostChecked
<1>3. HistoryIsChain' /\ DispositionExplained'
  BY DEF IInv, HistoryIsChain, DispositionExplained
<1> QED
  BY <1>1, <1>2, <1>3 DEF IInv

LEMMA EvaluateIInv ==
  ASSUME IInv, NEW S \in SUBSET Alerts, Evaluate(S)
  PROVE  IInv'
<1> DEFINE row == [status |-> "NEW", version |-> 1, reason |-> FALSE]
           e == [from |-> "ABSENT", to |-> "NEW", version |-> 1]
<1>1. /\ alerts' = [a \in Alerts |-> IF a \in S THEN row ELSE alerts[a]]
      /\ history' = [a \in Alerts |-> IF a \in S THEN Append(history[a], e) ELSE history[a]]
      /\ post' = post
      /\ \A a \in S : alerts[a].status = "ABSENT"
  BY DEF Evaluate
<1>2. row \in Row /\ e \in Entry
  BY DEF Row, Entry
\* A status ABSENT is the status of no entry, so the history is still empty.
<1>3. ASSUME NEW a \in S
      PROVE  history[a] = <<>> /\ Append(history[a], e) = <<e>>
  <2>1. a \in Alerts /\ history[a] \in Seq(Entry) /\ alerts[a].status = "ABSENT"
    BY <1>1 DEF IInv, TypeOK
  <2>2. alerts[a].status = IF history[a] = <<>> THEN "ABSENT"
                           ELSE history[a][Len(history[a])].to
    BY <2>1 DEF IInv, HistoryIsChain
  <2>3. CASE history[a] # <<>>
    <3>1. Len(history[a]) \in 1..Len(history[a])
      BY <2>1, <2>3, EmptySeq, LenProperties
    <3>2. history[a][Len(history[a])] \in Entry
      BY <2>1, <3>1, ElementOfSeq
    <3>3. history[a][Len(history[a])].to \in AlertStatus
      BY <3>2 DEF Entry
    <3> QED
      BY <2>1, <2>2, <2>3, <3>3
  <2>4. history[a] = <<>> => Append(history[a], e) = <<e>>
    OBVIOUS
  <2> QED
    BY <2>3, <2>4
<1>4. TypeOK'
  <2>1. \A a \in Alerts : alerts'[a] \in Row
    BY <1>1, <1>2 DEF IInv, TypeOK
  <2>2. \A a \in Alerts : history'[a] \in Seq(Entry)
    BY <1>1, <1>2, <1>3 DEF IInv, TypeOK
  <2> QED
    BY <1>1, <2>1, <2>2 DEF IInv, TypeOK
<1>5. PostChecked'
  BY <1>1 DEF IInv, PostChecked
<1>6. HistoryIsChain'
  <2>1. ASSUME NEW a \in S
        PROVE  /\ alerts'[a].version = 1 /\ alerts'[a].status = "NEW"
               /\ history'[a] = <<e>> /\ Len(history'[a]) = 1
               /\ history'[a][1] = e /\ history'[a] # <<>>
    <3>1. alerts'[a] = row /\ history'[a] = Append(history[a], e)
      BY <1>1
    <3>2. history'[a] = <<e>>
      BY <1>3, <3>1
    <3>3. alerts'[a].version = 1 /\ alerts'[a].status = "NEW"
      BY <3>1
    <3> HIDE DEF row, e
    <3>4. Len(<<e>>) = 1 /\ <<e>>[1] = e /\ <<e>> # <<>>
      OBVIOUS
    <3> QED
      BY <3>2, <3>3, <3>4
  <2>2. ASSUME NEW a \in Alerts \ S
        PROVE  alerts'[a] = alerts[a] /\ history'[a] = history[a]
    BY <1>1
  <2>3. ASSUME NEW a \in Alerts
        PROVE  /\ alerts'[a].version = Len(history'[a])
               /\ \A k \in 1..Len(history'[a]) :
                    /\ history'[a][k].version = k
                    /\ history'[a][k].from =
                         IF k = 1 THEN "ABSENT" ELSE history'[a][k - 1].to
               /\ alerts'[a].status = IF history'[a] = <<>> THEN "ABSENT"
                                      ELSE history'[a][Len(history'[a])].to
    <3>1. CASE a \in S
      BY <2>1, <3>1
    <3>2. CASE a \notin S
      BY <2>2, <3>2 DEF IInv, HistoryIsChain
    <3> QED
      BY <3>1, <3>2
  <2> QED
    BY <2>3 DEF HistoryIsChain
<1>7. DispositionExplained'
  BY <1>1 DEF IInv, DispositionExplained
<1> QED
  BY <1>4, <1>5, <1>6, <1>7 DEF IInv

LEMMA CommitIInv ==
  ASSUME IInv, NEW w \in Workers, TriageCommit(w)
  PROVE  IInv'
<1> DEFINE p == post[w]
           a == post[w].alert
           row == [status |-> p.next, version |-> p.seen + 1, reason |-> p.reason]
           e == [from |-> p.status, to |-> p.next, version |-> p.seen + 1]
<1>1. /\ p.pc = "deciding"
      /\ alerts[a].version = p.seen /\ alerts[a].status = p.status
      /\ alerts' = [alerts EXCEPT ![a] = row]
      /\ history' = [history EXCEPT ![a] = Append(@, e)]
      /\ post' = [post EXCEPT ![w] = NoPost("idle")]
  BY DEF TriageCommit, End
<1>2. /\ a \in Alerts /\ row \in Row /\ e \in Entry
      /\ p.next \in Completing => p.reason
  BY <1>1, DecisionFacts
<1>3. TypeOK'
  <2>1. NoPost("idle") \in Post
    BY DEF NoPost, Post
  <2>2. Append(history[a], e) \in Seq(Entry)
    BY <1>2, AppendProperties DEF IInv, TypeOK
  <2> QED
    BY <1>1, <1>2, <2>1, <2>2 DEF IInv, TypeOK
<1>4. PostChecked'
  BY <1>1 DEF IInv, TypeOK, PostChecked, NoPost
<1>5. HistoryIsChain'
  <2>1. /\ row.version = alerts[a].version + 1 /\ row.status = e.to
        /\ e.version = alerts[a].version + 1 /\ e.from = alerts[a].status
    BY <1>1
  <2> HIDE DEF row, e
  <2> QED
    BY <1>1, <1>2, <2>1, ChainStep DEF IInv
<1>6. DispositionExplained'
  BY <1>1, <1>2 DEF IInv, TypeOK, DispositionExplained
<1> QED
  BY <1>3, <1>4, <1>5, <1>6 DEF IInv

\* Every step of the system keeps the invariant.
LEMMA NextIInv == IInv /\ [Next]_vars => IInv'
<1> SUFFICES ASSUME IInv, [Next]_vars PROVE IInv'
  OBVIOUS
<1>1. ASSUME NEW S \in SUBSET Alerts, Evaluate(S) PROVE IInv'
  BY <1>1, EvaluateIInv
<1>2. ASSUME NEW w \in Workers, NEW a \in Alerts, View(w, a) PROVE IInv'
  <2> DEFINE p == [NoPost("viewing") EXCEPT !.alert = a, !.seen = alerts[a].version]
  <2>1. p \in Post /\ p.pc = "viewing" /\ p.alert \in Alerts
    BY DEF IInv, TypeOK, Row, Post, NoPost
  <2>2. post' = [post EXCEPT ![w] = p] /\ UNCHANGED <<alerts, history>>
    BY <1>2 DEF View
  <2> HIDE DEF p
  <2> QED
    BY <2>1, <2>2, PostStep
<1>3. ASSUME NEW w \in Workers, CheckPost(w) PROVE IInv'
  <2>1. PICK next \in AlertStatus, reason \in BOOLEAN :
          /\ <<alerts[post[w].alert].status, next>> \in AllowedTransitions
          /\ next \in Completing => reason
          /\ post' = [post EXCEPT ![w].pc = "deciding",
                                  ![w].status = alerts[post[w].alert].status,
                                  ![w].next = next, ![w].reason = reason]
    BY <1>3 DEF CheckPost
  <2> DEFINE p == [post[w] EXCEPT !.pc = "deciding",
                                  !.status = alerts[post[w].alert].status,
                                  !.next = next, !.reason = reason]
  <2>2. post[w] \in Post /\ post[w].alert \in Alerts
    BY <1>3 DEF CheckPost, IInv, TypeOK, PostChecked
  <2>3. alerts[post[w].alert].status \in AlertStatus \cup {"ABSENT"}
    BY <2>2 DEF IInv, TypeOK, Row
  <2>4. /\ p \in Post /\ p.alert \in Alerts
        /\ <<p.status, p.next>> \in AllowedTransitions
        /\ p.next \in Completing => p.reason
    BY <2>1, <2>2, <2>3 DEF Post
  <2>5. post' = [post EXCEPT ![w] = p] /\ UNCHANGED <<alerts, history>>
    BY <1>3, <2>1, <2>2 DEF CheckPost, IInv, TypeOK
  <2> HIDE DEF p
  <2> QED
    BY <2>4, <2>5, PostStep
<1>4. ASSUME NEW w \in Workers,
             RefusePost(w) \/ TriageConflict(w) \/ Abort(w)
      PROVE  IInv'
  <2>1. PICK pc \in {"idle", "lost"} : post' = [post EXCEPT ![w] = NoPost(pc)]
    BY <1>4 DEF RefusePost, TriageConflict, Abort, End
  <2>2. UNCHANGED <<alerts, history>>
    BY <1>4 DEF RefusePost, TriageConflict, Abort
  <2>3. NoPost(pc) \in Post /\ NoPost(pc).pc \notin {"viewing", "deciding"}
    BY DEF NoPost, Post
  <2> QED
    BY <2>1, <2>2, <2>3, PostStep
<1>5. ASSUME NEW w \in Workers, TriageCommit(w) PROVE IInv'
  BY <1>5, CommitIInv
<1>6. CASE UNCHANGED vars
  BY <1>6 DEF vars, IInv, TypeOK, PostChecked, HistoryIsChain, DispositionExplained
<1> QED
  BY <1>1, <1>2, <1>3, <1>4, <1>5, <1>6 DEF Next, Decide

\* The inductive invariant holds throughout.
LEMMA Invariant == Spec => []IInv
  BY InitIInv, NextIInv, PTL DEF Spec

-----------------------------------------------------------------------------

\* Tables and posts keep their types, for any alerts and any number of tabs.
THEOREM TypeCorrect == Spec => []TypeOK
  BY Invariant, PTL DEF IInv

\* The optimistic lock of triage_alert makes the history of every alert one
\* unbroken chain that ends in its row.
THEOREM ChainCorrect == Spec => []HistoryIsChain
  BY Invariant, PTL DEF IInv

\* An alert that left triage has a disposition reason (_clean_form with
\* completing_triage, and no path that empties the column later).
THEOREM DispositionCorrect == Spec => []DispositionExplained
  BY Invariant, PTL DEF IInv

-----------------------------------------------------------------------------
(* Refinement: triage implements AlertWorkflow.                            *)

MappedStatus == [a \in Alerts |-> alerts[a].status]
MappedTrail == [a \in Alerts |-> [k \in 1..Len(history[a]) |-> history[a][k].to]]

\* The mapped trail of an alert grows by the status the new entry announces.
LEMMA TrailAppend ==
  ASSUME NEW h \in Seq(Entry), NEW e \in Entry
  PROVE  [k \in 1..Len(Append(h, e)) |-> Append(h, e)[k].to]
           = Append([k \in 1..Len(h) |-> h[k].to], e.to)
<1> DEFINE h1 == Append(h, e)
           t == [k \in 1..Len(h) |-> h[k].to]
           t1 == [k \in 1..Len(h1) |-> h1[k].to]
<1>1. /\ Len(h) \in Nat /\ h1 \in Seq(Entry)
      /\ Len(h1) = Len(h) + 1 /\ h1[Len(h) + 1] = e
      /\ \A k \in 1..Len(h) : h1[k] = h[k]
  BY AppendProperties, LenProperties
<1>2. ASSUME NEW k \in 1..Len(h) PROVE h[k].to \in AlertStatus
  <2>1. h[k] \in Entry
    BY ElementOfSeq
  <2> QED
    BY <2>1 DEF Entry
<1>3. t \in Seq(AlertStatus) /\ Len(t) = Len(h)
  <2>1. t \in [1..Len(h) -> AlertStatus]
    BY <1>2
  <2>2. t \in Seq(AlertStatus)
    BY <1>1, <2>1 
  <2> QED
    BY <1>1, <2>1, <2>2, LenProperties
<1>4. e.to \in AlertStatus
  BY DEF Entry
<1>5. /\ Append(t, e.to) \in Seq(AlertStatus)
      /\ Len(Append(t, e.to)) = Len(h) + 1
      /\ Append(t, e.to)[Len(h) + 1] = e.to
      /\ \A k \in 1..Len(h) : Append(t, e.to)[k] = t[k]
  BY <1>1, <1>3, <1>4, AppendProperties
<1>6. t1 \in Seq(AlertStatus) /\ Len(t1) = Len(h) + 1
  <2>1. ASSUME NEW k \in 1..Len(h1) PROVE h1[k].to \in AlertStatus
    <3>1. h1[k] \in Entry
      BY <1>1, ElementOfSeq
    <3> QED
      BY <3>1 DEF Entry
  <2>2. t1 \in [1..Len(h1) -> AlertStatus]
    BY <2>1
  <2>3. t1 \in Seq(AlertStatus)
    BY <1>1, <2>2
  <2> QED
    BY <1>1, <2>2, <2>3, LenProperties
<1>7. \A k \in 1..Len(t1) : t1[k] = Append(t, e.to)[k]
  BY <1>1, <1>5, <1>6
<1> HIDE DEF t, t1, h1
<1>8. t1 = Append(t, e.to)
  BY <1>5, <1>6, <1>7, SeqEqual
<1> QED
  BY <1>8 DEF t, t1, h1

LEMMA InitRefines == Init => Workflow!WorkflowInit
<1> SUFFICES ASSUME Init PROVE Workflow!WorkflowInit
  OBVIOUS
<1>1. MappedStatus = [a \in Alerts |-> "ABSENT"]
  BY DEF Init, MappedStatus
<1>2. ASSUME NEW a \in Alerts
      PROVE  [k \in 1..Len(history[a]) |-> history[a][k].to] = <<>>
  <2>1. history[a] = <<>> /\ Len(history[a]) = 0
    BY DEF Init
  <2> QED
    BY <2>1
<1>3. MappedTrail = [a \in Alerts |-> <<>>]
  BY <1>2 DEF MappedTrail
<1> QED
  BY <1>1, <1>3 DEF Workflow!WorkflowInit, MappedStatus, MappedTrail

\* An evaluation raises its alerts; a commit is one transition of the workflow;
\* every other step leaves the alerts as they are.
LEMMA StepRefines ==
  IInv /\ [Next]_vars => [Workflow!WorkflowNext]_(Workflow!workflowVars)
<1> SUFFICES ASSUME IInv, [Next]_vars
             PROVE  \/ Workflow!WorkflowNext
                    \/ MappedStatus' = MappedStatus /\ MappedTrail' = MappedTrail
  BY DEF Workflow!workflowVars, MappedStatus, MappedTrail
<1>1. ASSUME NEW S \in SUBSET Alerts, Evaluate(S) PROVE Workflow!Raise(S)
  <2> DEFINE e == [from |-> "ABSENT", to |-> "NEW", version |-> 1]
  <2>1. e \in Entry /\ e.to = "NEW"
    BY DEF Entry
  <2>2. /\ \A a \in S : alerts[a].status = "ABSENT"
        /\ \A a \in S : alerts'[a].status = "NEW" /\ history'[a] = Append(history[a], e)
        /\ \A a \in Alerts \ S : alerts'[a] = alerts[a] /\ history'[a] = history[a]
    BY <1>1 DEF Evaluate
  <2>3. \A a \in Alerts : history[a] \in Seq(Entry)
    BY DEF IInv, TypeOK
  <2>4. MappedStatus' = [a \in Alerts |-> IF a \in S THEN "NEW" ELSE MappedStatus[a]]
    BY <2>2 DEF MappedStatus
  <2>5. ASSUME NEW a \in Alerts
        PROVE  [k \in 1..Len(history'[a]) |-> history'[a][k].to]
                 = IF a \in S THEN Append(MappedTrail[a], "NEW") ELSE MappedTrail[a]
    <3> HIDE DEF e
    <3>1. CASE a \in S
      BY <2>1, <2>2, <2>3, <3>1, TrailAppend DEF MappedTrail
    <3>2. CASE a \notin S
      BY <2>2, <3>2 DEF MappedTrail
    <3> QED
      BY <3>1, <3>2
  <2>6. MappedTrail' =
          [a \in Alerts |-> IF a \in S THEN Append(MappedTrail[a], "NEW") ELSE MappedTrail[a]]
    BY <2>5 DEF MappedTrail
  <2>7. \A a \in S : MappedStatus[a] = "ABSENT"
    BY <2>2 DEF MappedStatus
  <2> QED
    BY <2>4, <2>6, <2>7 DEF Workflow!Raise, MappedStatus, MappedTrail
<1>2. ASSUME NEW w \in Workers, TriageCommit(w)
      PROVE  \E a \in Alerts, s \in AlertStatus : Workflow!Transition(a, s)
  <2> DEFINE p == post[w]
             a == post[w].alert
             row == [status |-> p.next, version |-> p.seen + 1, reason |-> p.reason]
             e == [from |-> p.status, to |-> p.next, version |-> p.seen + 1]
  <2>1. /\ p.pc = "deciding" /\ alerts[a].status = p.status
        /\ alerts' = [alerts EXCEPT ![a] = row]
        /\ history' = [history EXCEPT ![a] = Append(@, e)]
    BY <1>2 DEF TriageCommit
  <2>2. /\ a \in Alerts /\ e \in Entry /\ p.next \in AlertStatus
        /\ <<alerts[a].status, p.next>> \in AllowedTransitions
        /\ history[a] \in Seq(Entry)
    BY <2>1, DecisionFacts DEF IInv, TypeOK
  <2>3. MappedStatus' = [MappedStatus EXCEPT ![a] = p.next]
    BY <2>1, <2>2 DEF MappedStatus, IInv, TypeOK
  <2>4. [k \in 1..Len(Append(history[a], e)) |-> Append(history[a], e)[k].to]
          = Append(MappedTrail[a], p.next)
    <3>1. e.to = p.next
      OBVIOUS
    <3> HIDE DEF e
    <3> QED
      BY <2>2, <3>1, TrailAppend DEF MappedTrail
  <2>5. MappedTrail' = [MappedTrail EXCEPT ![a] = Append(@, p.next)]
    BY <2>1, <2>2, <2>4 DEF MappedTrail, IInv, TypeOK
  <2>6. <<MappedStatus[a], p.next>> \in AllowedTransitions
    BY <2>2 DEF MappedStatus
  <2>7. PICK b \in Alerts, s \in AlertStatus : b = a /\ s = p.next
    BY <2>2
  <2>8. Workflow!Transition(b, s)
    BY <2>3, <2>5, <2>6, <2>7 DEF Workflow!Transition, MappedStatus, MappedTrail
  <2> QED
    BY <2>8
<1>3. CASE UNCHANGED <<alerts, history>>
  BY <1>3 DEF MappedStatus, MappedTrail
<1>4. ASSUME NEW w \in Workers,
             \/ \E a \in Alerts : View(w, a)
             \/ CheckPost(w) \/ RefusePost(w) \/ TriageConflict(w) \/ Abort(w)
      PROVE  UNCHANGED <<alerts, history>>
  BY <1>4 DEF View, CheckPost, RefusePost, TriageConflict, Abort
<1>5. CASE UNCHANGED vars
  BY <1>3, <1>5 DEF vars
<1> QED
  BY <1>1, <1>2, <1>3, <1>4, <1>5 DEF Next, Decide, Workflow!WorkflowNext

\* Triage implements the abstract workflow for any alerts and any number of
\* tabs: no interleaving makes an alert jump, turn back or forget a status.
THEOREM TriageImplementsWorkflow == Spec => ImplementsWorkflow
<1>1. Init => Workflow!WorkflowInit
  BY InitRefines
<1>2. IInv /\ [Next]_vars => [Workflow!WorkflowNext]_(Workflow!workflowVars)
  BY StepRefines
<1> QED
  BY <1>1, <1>2, Invariant, PTL DEF Spec, ImplementsWorkflow, Workflow!WorkflowSpec
=============================================================================
