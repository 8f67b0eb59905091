---------------------------- MODULE AlertTriage ---------------------------
(***************************************************************************)
(* POST /alerts/{id}/triage (main.py triage_alert), run by threads that    *)
(* interleave, on the alerts that evaluations raise.                       *)
(*                                                                         *)
(* An analyst decides on a page that shows a version of the alert; the     *)
(* handler reads the row, compares the version the form carries, checks    *)
(* the transition and the required fields, and later writes with an UPDATE *)
(* that repeats version and status in its WHERE: the one optimistic lock   *)
(* of the application.                                                     *)
(***************************************************************************)
EXTENDS Integers, Sequences

CONSTANTS
  Alerts,    \* stable identities of alerts
  Workers,   \* analysts' tabs, each posting on a thread of its own
  None       \* "no alert"

ASSUME NoneAssumption == None \notin Alerts

VARIABLES
  alerts,    \* table alerts: status, version, is disposition_reason filled in?
  history,   \* history[a]: the alert_history rows of a, oldest first
  post       \* post[w]: what tab w shows, and what its handler has read

vars == <<alerts, history, post>>

Workflow == INSTANCE AlertWorkflow WITH
  status <- [a \in Alerts |-> alerts[a].status],
  trail  <- [a \in Alerts |-> [k \in 1..Len(history[a]) |-> history[a][k].to]]

AlertStatus == Workflow!AlertStatus
AllowedTransitions == Workflow!AllowedTransitions

\* The statuses whose triage fields are required (completing_triage).
Completing == {"ESCALATED", "BENIGN", "CLOSED"}

Row == [status: AlertStatus \cup {"ABSENT"}, version: Nat, reason: BOOLEAN]
Entry == [from: AlertStatus \cup {"ABSENT"}, to: AlertStatus, version: Nat]

\* "seen": the version on the page; "status", "next", "reason": of a post
\* whose checks have passed, the status read and what is to be written.
Post == [pc: {"idle", "viewing", "deciding", "lost"}, alert: Alerts \cup {None},
         seen: Nat, status: AlertStatus \cup {"ABSENT"},
         next: AlertStatus \cup {"ABSENT"}, reason: BOOLEAN]
NoPost(pc) == [pc |-> pc, alert |-> None, seen |-> 0, status |-> "ABSENT",
               next |-> "ABSENT", reason |-> FALSE]

TypeOK ==
  /\ alerts \in [Alerts -> Row]
  /\ history \in [Alerts -> Seq(Entry)]
  /\ post \in [Workers -> Post]

Init ==
  /\ alerts = [a \in Alerts |-> [status |-> "ABSENT", version |-> 0, reason |-> FALSE]]
  /\ history = [a \in Alerts |-> <<>>]
  /\ post = [w \in Workers |-> NoPost("idle")]

End(w, pc) == post' = [post EXCEPT ![w] = NoPost(pc)]

-----------------------------------------------------------------------------
(* Slips: what a plausible bug would turn an action below into.            *)

\* next_status is stored as the form sends it
CheckPostUnvalidated(w) ==
  LET a == post[w].alert IN
  /\ post[w].pc = "viewing"
  /\ post[w].seen = alerts[a].version
  /\ post' = [post EXCEPT ![w].pc = "deciding", ![w].status = alerts[a].status,
                          ![w].next = "REOPENED", ![w].reason = TRUE]
  /\ UNCHANGED <<alerts, history>>

\* the UPDATE of the other handlers: WHERE id alone
TriageCommitById(w) ==
  LET p == post[w]  a == post[w].alert IN
  /\ p.pc = "deciding"
  /\ alerts' = [alerts EXCEPT ![a] =
       [status |-> p.next, version |-> p.seen + 1, reason |-> p.reason]]
  /\ history' = [history EXCEPT ![a] =
       Append(@, [from |-> p.status, to |-> p.next, version |-> p.seen + 1])]
  /\ End(w, "idle")

\* the WHERE compares the new version, so that no row is ever found
TriageConflictAlways(w) ==
  LET a == post[w].alert IN
  /\ post[w].pc = "deciding"
  /\ End(w, "idle")
  /\ UNCHANGED <<alerts, history>>

-----------------------------------------------------------------------------

\* detections.evaluate commits the new alerts of one evaluation together.
Evaluate(S) ==
  /\ S # {}
  /\ \A a \in S : alerts[a].status = "ABSENT"
  /\ alerts' = [a \in Alerts |->
       IF a \in S THEN [status |-> "NEW", version |-> 1, reason |-> FALSE] ELSE alerts[a]]
  /\ history' = [a \in Alerts |->
       IF a \in S THEN Append(history[a], [from |-> "ABSENT", to |-> "NEW", version |-> 1])
                  ELSE history[a]]
  /\ UNCHANGED post

\* An analyst opens the page of an alert.
View(w, a) ==
  /\ post[w].pc \in {"idle", "lost"}
  /\ alerts[a].status # "ABSENT"
  /\ post' = [post EXCEPT ![w] =
       [NoPost("viewing") EXCEPT !.alert = a, !.seen = alerts[a].version]]
  /\ UNCHANGED <<alerts, history>>

\* The analyst posts, the handler reads the row and its checks pass; the page
\* may be as old as the analyst likes.
CheckPost(w) ==
  LET a == post[w].alert IN
  /\ post[w].pc = "viewing"
  /\ post[w].seen = alerts[a].version
  /\ \E next \in AlertStatus, reason \in BOOLEAN :
       /\ <<alerts[a].status, next>> \in AllowedTransitions
       /\ next \in Completing => reason
       /\ post' = [post EXCEPT ![w].pc = "deciding", ![w].status = alerts[a].status,
                               ![w].next = next, ![w].reason = reason]
  /\ UNCHANGED <<alerts, history>>

\* 409 "Stale alert version", 422, or the analyst walks away.
RefusePost(w) ==
  /\ post[w].pc = "viewing"
  /\ End(w, "idle")
  /\ UNCHANGED <<alerts, history>>

\* UPDATE ... WHERE id AND version AND status finds its row.
TriageCommit(w) ==
  LET p == post[w]  a == post[w].alert IN
  /\ p.pc = "deciding"
  /\ alerts[a].version = p.seen
  /\ alerts[a].status = p.status
  /\ alerts' = [alerts EXCEPT ![a] =
       [status |-> p.next, version |-> p.seen + 1, reason |-> p.reason]]
  /\ history' = [history EXCEPT ![a] =
       Append(@, [from |-> p.status, to |-> p.next, version |-> p.seen + 1])]
  /\ End(w, "idle")

\* rowcount is 0: rollback and 409 "Concurrent alert update".
TriageConflict(w) ==
  LET p == post[w]  a == post[w].alert IN
  /\ p.pc = "deciding"
  /\ ~ (alerts[a].version = p.seen /\ alerts[a].status = p.status)
  /\ End(w, "idle")
  /\ UNCHANGED <<alerts, history>>

\* The database stays locked or the thread dies: the transaction is rolled back.
Abort(w) ==
  /\ post[w].pc = "deciding"
  /\ End(w, "lost")
  /\ UNCHANGED <<alerts, history>>

-----------------------------------------------------------------------------

Decide(w) == TriageCommit(w) \/ TriageConflict(w)

Next ==
  \/ \E S \in SUBSET Alerts : Evaluate(S)
  \/ \E w \in Workers :
       \/ \E a \in Alerts : View(w, a)
       \/ CheckPost(w) \/ RefusePost(w) \/ Decide(w) \/ Abort(w)

Spec == Init /\ [][Next]_vars

\* A handler past its checks is run to its end by its thread.  Analysts need
\* not do anything.
Fairness == \A w \in Workers : WF_vars(Decide(w))

FairSpec == Spec /\ Fairness

-----------------------------------------------------------------------------

\* Triage implements the workflow: however the threads interleave, the alert
\* moves along ALLOWED_TRANSITIONS and its history is the trail of it.
ImplementsWorkflow == Workflow!WorkflowSpec

\* The history of an alert is one unbroken chain that ends in its row: every
\* decision starts from the status the one before it left, carries the next
\* version, and none is lost or recorded twice.
HistoryIsChain ==
  \A a \in Alerts :
    /\ alerts[a].version = Len(history[a])
    /\ \A k \in 1..Len(history[a]) :
         /\ history[a][k].version = k
         /\ history[a][k].from = IF k = 1 THEN "ABSENT" ELSE history[a][k - 1].to
    /\ alerts[a].status =
         IF history[a] = <<>> THEN "ABSENT" ELSE history[a][Len(history[a])].to

\* What module Cases takes for granted (main.py transition_case tests it once
\* more), proved in AlertTriageProofs: a row never shows ESCALATED, BENIGN or
\* CLOSED over an empty reason.
DispositionExplained ==
  \A a \in Alerts : alerts[a].status \in Completing => alerts[a].reason

\* A decision that was current when its page was opened, and passed the checks,
\* is recorded unless another one was recorded first: a conflict means that
\* somebody else made progress.  (An alert has at most three decisions.)
DecisionOrProgress ==
  \A w \in Workers, a \in Alerts, v \in 1..3 :
    (post[w].pc = "deciding" /\ post[w].alert = a /\ post[w].seen = v)
      ~> (alerts[a].version > v \/ post[w].pc = "lost")
=============================================================================
