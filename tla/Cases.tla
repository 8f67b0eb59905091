------------------------------- MODULE Cases ------------------------------
(***************************************************************************)
(* Incident cases: create_case and transition_case of main.py, run by      *)
(* threads that interleave with each other, with the triage of the alerts  *)
(* and with the arrival of verified evidence.                              *)
(*                                                                         *)
(* The alerts are those of the abstract AlertWorkflow, which AlertTriage   *)
(* implements; its DispositionExplained is why the test of                 *)
(* disposition_reason in transition_case is not repeated here.  Evidence   *)
(* is what CollectionRequests records: a PASS verdict, once there, stays.  *)
(***************************************************************************)
EXTENDS Integers, Sequences

CONSTANTS
  Alerts, CaseIds, Workers,
  Overlap,   \* may two handlers on the same case be in flight at once?
  None

ASSUME NoneAssumption == None \notin Alerts \cup CaseIds
ASSUME OverlapAssumption == Overlap \in BOOLEAN

VARIABLES
  status, trail,  \* the alerts, as in AlertWorkflow
  passed,    \* passed[c]: has a verification_runs row of case c the status PASS?
  cases,     \* table incident_cases with the alert of case_alerts
  timeline,  \* timeline[c]: the STATUS rows of case_timeline_entries, oldest first
  job        \* job[w]: what the handler running on thread w holds

vars == <<status, trail, passed, cases, timeline, job>>

Workflow == INSTANCE AlertWorkflow

CaseStatus == {"OPEN", "INVESTIGATING", "RESOLVED", "CLOSED"}

\* transitions of transition_case
CaseMoves == { <<"OPEN", "INVESTIGATING">>, <<"INVESTIGATING", "RESOLVED">>,
               <<"RESOLVED", "CLOSED">> }

\* The free-text columns, by whether they are filled in; "waiver" is the
\* no_collection_reason.
Texts == {"resolution", "summary", "waiver"}
Required == [INVESTIGATING |-> {}, RESOLVED |-> {"resolution"},
             CLOSED |-> {"resolution", "summary"}]

Row == [status: CaseStatus \cup {"ABSENT"}, version: Nat, texts: SUBSET Texts,
        alert: Alerts \cup {None}]
NoRow == [status |-> "ABSENT", version |-> 0, texts |-> {}, alert |-> None]
Entry == [from: CaseStatus, to: CaseStatus]

\* "from" and "version" are what the handler read, "to" and "texts" what the
\* form asks for.
Job == [pc: {"idle", "opening", "checking", "moving"}, alert: Alerts \cup {None},
        case: CaseIds \cup {None}, from: CaseStatus, to: CaseStatus,
        version: Nat, texts: SUBSET Texts]
Idle == [pc |-> "idle", alert |-> None, case |-> None, from |-> "OPEN", to |-> "OPEN",
         version |-> 0, texts |-> {}]

TypeOK ==
  /\ passed \in [CaseIds -> BOOLEAN]
  /\ cases \in [CaseIds -> Row]
  /\ timeline \in [CaseIds -> Seq(Entry)]
  /\ job \in [Workers -> Job]

Init ==
  /\ Workflow!WorkflowInit
  /\ passed = [c \in CaseIds |-> FALSE]
  /\ cases = [c \in CaseIds |-> NoRow]
  /\ timeline = [c \in CaseIds |-> <<>>]
  /\ job = [w \in Workers |-> Idle]

Free(w, c) == Overlap \/ \A v \in Workers \ {w} : job[v].case # c

Finish(w) == job' = [job EXCEPT ![w] = Idle]

-----------------------------------------------------------------------------
(* Slips: what a plausible bug would turn an action below into.            *)

\* a case opened on any alert that left triage
ReadAlertDisposed(w, a) ==
  /\ job[w].pc = "idle"
  /\ status[a] \in {"ESCALATED", "BENIGN"}
  /\ job' = [job EXCEPT ![w] = [Idle EXCEPT !.pc = "opening", !.alert = a]]
  /\ UNCHANGED <<status, trail, passed, cases, timeline>>

\* next_status is stored as the form sends it
ReadCaseUnvalidated(w, c, next, given) ==
  /\ job[w].pc = "idle"
  /\ Free(w, c)
  /\ cases[c].status # "ABSENT"
  /\ job' = [job EXCEPT ![w] =
       [pc |-> "moving", alert |-> cases[c].alert, case |-> c, from |-> cases[c].status,
        to |-> "REOPENED", version |-> cases[c].version, texts |-> given]]
  /\ UNCHANGED <<status, trail, passed, cases, timeline>>

\* a case that may be resolved before it was investigated
ReadCaseSkipping(w, c, next, given) ==
  /\ job[w].pc = "idle"
  /\ Free(w, c)
  /\ <<cases[c].status, next>> \in CaseMoves \cup {<<"OPEN", "RESOLVED">>}
  /\ Required[next] \subseteq given
  /\ job' = [job EXCEPT ![w] =
       [pc |-> IF next = "INVESTIGATING" THEN "moving" ELSE "checking",
        alert |-> cases[c].alert, case |-> c, from |-> cases[c].status,
        to |-> next, version |-> cases[c].version, texts |-> given]]
  /\ UNCHANGED <<status, trail, passed, cases, timeline>>

\* any verification of the case counts, a FAIL one too
CheckEvidenceAnyVerdict(w) ==
  LET j == job[w] IN
  /\ j.pc = "checking"
  /\ \E verified \in BOOLEAN :
       /\ passed[j.case] => verified
       /\ IF /\ status[j.alert] \in {"ESCALATED", "CLOSED"}
             /\ verified \/ "waiver" \in j.texts
            THEN job' = [job EXCEPT ![w].pc = "moving"]
            ELSE Finish(w)
  /\ UNCHANGED <<status, trail, passed, cases, timeline>>

\* transition_case without "case.version += 1"
MoveCommitSameVersion(w) ==
  LET j == job[w]  c == job[w].case IN
  /\ j.pc = "moving"
  /\ cases' = [cases EXCEPT ![c].status = j.to, ![c].texts = @ \cup j.texts]
  /\ timeline' = [timeline EXCEPT ![c] = Append(@, [from |-> j.from, to |-> j.to])]
  /\ Finish(w)
  /\ UNCHANGED <<status, trail, passed>>

-----------------------------------------------------------------------------
(* The surroundings.                                                       *)

\* Alerts are raised and triaged meanwhile (module AlertTriage).
AlertStep ==
  /\ Workflow!WorkflowNext
  /\ UNCHANGED <<passed, cases, timeline, job>>

\* An execution of a collection request records a PASS verdict for the case
\* (module CollectionRequests, RecordBundle).
EvidencePasses(c) ==
  /\ cases[c].status \notin {"ABSENT", "OPEN"}
  /\ ~ passed[c]
  /\ passed' = [passed EXCEPT ![c] = TRUE]
  /\ UNCHANGED <<status, trail, cases, timeline, job>>

-----------------------------------------------------------------------------
(* POST /alerts/{id}/cases                                                 *)

ReadAlert(w, a) ==
  /\ job[w].pc = "idle"
  /\ status[a] = "ESCALATED"
  /\ job' = [job EXCEPT ![w] = [Idle EXCEPT !.pc = "opening", !.alert = a]]
  /\ UNCHANGED <<status, trail, passed, cases, timeline>>

\* case, link and timeline in one transaction; the alert is not read again, and
\* CaseIds bounds the cases opened.
OpenCase(w, c) ==
  /\ job[w].pc = "opening"
  /\ cases[c] = NoRow
  /\ cases' = [cases EXCEPT ![c] =
       [status |-> "OPEN", version |-> 1, texts |-> {}, alert |-> job[w].alert]]
  /\ Finish(w)
  /\ UNCHANGED <<status, trail, passed, timeline>>

-----------------------------------------------------------------------------
(* POST /cases/{id}/transition                                             *)

\* The row is read; version, transition and required texts are checked.
ReadCase(w, c, next, given) ==
  /\ job[w].pc = "idle"
  /\ Free(w, c)
  /\ <<cases[c].status, next>> \in CaseMoves
  /\ Required[next] \subseteq given
  /\ job' = [job EXCEPT ![w] =
       [pc |-> IF next = "INVESTIGATING" THEN "moving" ELSE "checking",
        alert |-> cases[c].alert, case |-> c, from |-> cases[c].status,
        to |-> next, version |-> cases[c].version, texts |-> given]]
  /\ UNCHANGED <<status, trail, passed, cases, timeline>>

\* Later SELECTs load the linked alert and the verifications of the case.
CheckEvidence(w) ==
  LET j == job[w] IN
  /\ j.pc = "checking"
  /\ IF /\ status[j.alert] \in {"ESCALATED", "CLOSED"}
        /\ passed[j.case] \/ "waiver" \in j.texts
       THEN job' = [job EXCEPT ![w].pc = "moving"]
       ELSE Finish(w)
  /\ UNCHANGED <<status, trail, passed, cases, timeline>>

\* The UPDATE names the row by id alone and writes the columns that changed: a
\* blank text keeps the one that is there.
MoveCommit(w) ==
  LET j == job[w]  c == job[w].case IN
  /\ j.pc = "moving"
  /\ cases' = [cases EXCEPT ![c].status = j.to, ![c].version = j.version + 1,
                            ![c].texts = @ \cup j.texts]
  /\ timeline' = [timeline EXCEPT ![c] = Append(@, [from |-> j.from, to |-> j.to])]
  /\ Finish(w)
  /\ UNCHANGED <<status, trail, passed>>

\* The thread dies or its transaction is refused, and is rolled back.
Abort(w) ==
  /\ job[w].pc # "idle"
  /\ Finish(w)
  /\ UNCHANGED <<status, trail, passed, cases, timeline>>

-----------------------------------------------------------------------------

Next ==
  \/ AlertStep
  \/ \E c \in CaseIds : EvidencePasses(c)
  \/ \E w \in Workers :
       \/ \E a \in Alerts : ReadAlert(w, a)
       \/ \E c \in CaseIds : OpenCase(w, c)
       \/ \E c \in CaseIds, next \in DOMAIN Required, given \in SUBSET Texts :
            ReadCase(w, c, next, given)
       \/ CheckEvidence(w) \/ MoveCommit(w) \/ Abort(w)

Spec == Init /\ [][Next]_vars

-----------------------------------------------------------------------------

\* Every case rests on an alert that was escalated and is ESCALATED or CLOSED
\* now, although create_case does not look again before it commits: the
\* rationale test of transition_case cannot refuse a case the program opened.
CaseRestsOnEscalation ==
  \A c \in CaseIds : cases[c] # NoRow =>
    LET a == cases[c].alert IN
    /\ status[a] \in {"ESCALATED", "CLOSED"}
    /\ \E k \in 1..Len(trail[a]) : trail[a][k] = "ESCALATED"

\* A case that says RESOLVED or CLOSED is justified by what the tables hold now,
\* whichever racing handler wrote last: its texts are there, and PASS evidence
\* or a reason for having none.
ResolutionJustified ==
  \A c \in CaseIds : cases[c].status \in {"RESOLVED", "CLOSED"} =>
    /\ Required[cases[c].status] \subseteq cases[c].texts
    /\ passed[c] \/ "waiver" \in cases[c].texts

\* The timeline never shows a stage before the one it builds on, and its last
\* entry is the row's status.
StagesInOrder ==
  \A c \in CaseIds :
    /\ \A k \in 1..Len(timeline[c]) : timeline[c][k].from # "OPEN" =>
         \E i \in 1..(k - 1) : timeline[c][i].to = timeline[c][k].from
    /\ timeline[c] # <<>> => cases[c].status = timeline[c][Len(timeline[c])].to
    /\ \A k \in 1..Len(timeline[c]) :
         <<timeline[c][k].from, timeline[c][k].to>> \in CaseMoves

\* When handlers on a case take turns, its timeline is one chain from OPEN to the
\* status of the row, and the version a form carries identifies one place in it.
TimelineIsChain ==
  \A c \in CaseIds : cases[c] # NoRow =>
    /\ cases[c].version = Len(timeline[c]) + 1
    /\ \A k \in 1..Len(timeline[c]) :
         timeline[c][k].from = IF k = 1 THEN "OPEN" ELSE timeline[c][k - 1].to
    /\ cases[c].status =
         IF timeline[c] = <<>> THEN "OPEN" ELSE timeline[c][Len(timeline[c])].to

\* runbook 02 line 23: "the case moved through OPEN -> INVESTIGATING ->
\* RESOLVED -> CLOSED using supported transitions".
CaseForwardOnly ==
  [][\A c \in CaseIds :
       cases'[c].status # cases[c].status /\ cases[c] # NoRow =>
         <<cases[c].status, cases'[c].status>> \in CaseMoves]_vars
=============================================================================
