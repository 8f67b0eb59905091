------------------------ MODULE CollectionRequests ------------------------
(***************************************************************************)
(* Collection requests: the handlers create, submit, review and execute   *)
(* of main.py and execute_request of cases.py, run by request threads     *)
(* that interleave.                                                        *)
(*                                                                         *)
(* A handler reads its row, decides, and writes later: the reads are       *)
(* autocommitted SELECTs, and everything from its first write to its       *)
(* COMMIT is one SQLite write transaction.  So a handler is a read step    *)
(* and a commit step, with the steps of other threads in between, and its  *)
(* UPDATE names the row by id alone: it writes "version read + 1" over     *)
(* whatever the row has become.                                            *)
(*                                                                         *)
(* The early returns (401, 403, 404, 409, 422) change nothing; they are    *)
(* the guards of the read steps.                                           *)
(***************************************************************************)
EXTENDS Integers, Sequences, FiniteSets

CONSTANTS
  Requests,    \* request ids
  Cases,       \* case ids
  CaseOf,      \* CaseOf[r]: the case a request with (fresh) id r is made for
  Workers,     \* threads of the request thread pool
  Analysts, Reviewers,  \* users by role
  Overlap,     \* may two handlers on the same case be in flight at once?
  Faults,      \* may a thread die, the database refuse a write, a verify raise?
  None         \* "no value"

ASSUME CaseOfAssumption == CaseOf \in [Requests -> Cases]
\* models.py User.role holds one role.
ASSUME RolesAssumption == Analysts \cap Reviewers = {}
ASSUME NoneAssumption == None \notin Requests \cup Cases \cup Analysts \cup Reviewers
ASSUME FlagsAssumption == Overlap \in BOOLEAN /\ Faults \in BOOLEAN

VARIABLES
  investigating,  \* investigating[c]: the row of case c says INVESTIGATING
  requests,       \* table collection_requests
  history,        \* history[r]: the collection_history rows of r, oldest first
  bundles,        \* bundles[r]: the evidence_bundles row of r with its verdict
  stored,         \* stored[r]: how many bundle directories were stored for r
  job             \* job[w]: what the handler running on thread w holds

vars == <<investigating, requests, history, bundles, stored, job>>

Users == Analysts \cup Reviewers

Life == INSTANCE RequestLifecycle WITH status <- [r \in Requests |-> requests[r].status]

Statuses == Life!Statuses
Blocking == Life!Blocking

Row == [status: Statuses \cup {"ABSENT"}, version: Nat,
        requester: Analysts \cup {None}, reviewer: Reviewers \cup {None}]
NoRow == [status |-> "ABSENT", version |-> 0, requester |-> None, reviewer |-> None]

\* One evidence_bundles row per request: the column request_id is UNIQUE.
\* "dir" is which of the stored directories it names; "UNVERIFIED" a bundle
\* row that was committed without a verification_runs row.
Bundle == [dir: Nat, verdict: {"NONE", "PASS", "FAIL", "UNVERIFIED"}]
NoBundle == [dir |-> 0, verdict |-> "NONE"]

Entry == [action: {"CREATED", "SUBMITTED", "REVIEWED", "EXECUTION_STARTED",
                   "EXECUTION_COMPLETED", "EXECUTION_FAILED"},
          from: Statuses \cup {"ABSENT"}, to: Statuses, actor: Users]

\* What a handler holds between its reads and its commit: the user of its
\* session, the case or request it loaded, the version it read.
Job == [pc: {"idle", "listing", "creating", "submitting", "reviewing",
             "starting", "collecting", "recording"},
        user: Users \cup {None}, case: Cases \cup {None},
        req: Requests \cup {None}, version: Nat, dir: Nat]
Idle == [pc |-> "idle", user |-> None, case |-> None, req |-> None,
         version |-> 0, dir |-> 0]

TypeOK ==
  /\ investigating \in [Cases -> BOOLEAN]
  /\ requests \in [Requests -> Row]
  /\ history \in [Requests -> Seq(Entry)]
  /\ bundles \in [Requests -> Bundle]
  /\ stored \in [Requests -> Nat]
  /\ job \in [Workers -> Job]

Init ==
  /\ investigating = [c \in Cases |-> FALSE]
  /\ requests = [r \in Requests |-> NoRow]
  /\ history = [r \in Requests |-> <<>>]
  /\ bundles = [r \in Requests |-> NoBundle]
  /\ stored = [r \in Requests |-> 0]
  /\ job = [w \in Workers |-> Idle]

-----------------------------------------------------------------------------
(* Helpers.                                                                *)

\* With Overlap = FALSE a thread starts on a case no other thread works on.
Free(w, c) == Overlap \/ \A v \in Workers \ {w} : job[v].case # c

Finish(w) == job' = [job EXCEPT ![w] = Idle]

\* add_collection_history
AddHistory(r, action, from, to, user) ==
  history' = [history EXCEPT ![r] =
    Append(@, [action |-> action, from |-> from, to |-> to, actor |-> user])]

\* A handler loads row r, whose status is s, and keeps what it read.
Load(w, u, r, s, pc) ==
  /\ job[w].pc = "idle"
  /\ Free(w, CaseOf[r])
  /\ requests[r].status = s
  /\ job' = [job EXCEPT ![w] =
       [pc |-> pc, user |-> u, case |-> CaseOf[r], req |-> r,
        version |-> requests[r].version, dir |-> 0]]
  /\ UNCHANGED <<investigating, requests, history, bundles, stored>>

\* The UPDATE of status and version, by id alone.
SetStatus(r, s, version) ==
  requests' = [requests EXCEPT ![r].status = s, ![r].version = version]

-----------------------------------------------------------------------------
(* Slips: what a plausible bug would turn an action below into.  No action *)
(* uses them; each shows that a property notices its bug.                  *)

\* review without its role check
ReadForReviewAnyRole(w, u, r) == u \in Users /\ Load(w, u, r, "SUBMITTED", "reviewing")

\* execute that accepts a request still waiting for its decision
ReadForExecuteUndecided(w, u, r) ==
  u \in Analysts /\ Load(w, u, r, "SUBMITTED", "starting")

\* create without the check for an active collection
ListRequestsUnchecked(w) ==
  /\ job[w].pc = "listing"
  /\ job' = [job EXCEPT ![w].pc = "creating"]
  /\ UNCHANGED <<investigating, requests, history, bundles, stored>>

\* an except branch that records FAILED and then collects once more
CollectFailsThenRetries(w) ==
  LET r == job[w].req IN
  /\ job[w].pc = "collecting"
  /\ SetStatus(r, "FAILED", job[w].version + 1)
  /\ AddHistory(r, "EXECUTION_FAILED", "EXECUTING", "FAILED", job[w].user)
  /\ Len(history[r]) < 8
  /\ UNCHANGED <<investigating, bundles, stored, job>>

\* an except branch that does not commit
CollectFailsUnrecorded(w) ==
  /\ job[w].pc = "collecting"
  /\ Finish(w)
  /\ UNCHANGED <<investigating, requests, history, bundles, stored>>

\* evidence_bundles without the UNIQUE request_id
RecordBundleAgain(w, verdict) ==
  LET r == job[w].req IN
  /\ job[w].pc = "recording"
  /\ bundles' = [bundles EXCEPT ![r] = [dir |-> job[w].dir, verdict |-> verdict]]
  /\ SetStatus(r, "SUCCEEDED", job[w].version + 1)
  /\ AddHistory(r, "EXECUTION_COMPLETED", "EXECUTING", "SUCCEEDED", job[w].user)
  /\ Finish(w)
  /\ UNCHANGED <<investigating, stored>>

\* an except branch that keeps SUCCEEDED when only the verification raised
VerifyRaisesSucceeds(w) ==
  LET r == job[w].req IN
  /\ Faults
  /\ job[w].pc = "recording"
  /\ bundles[r] = NoBundle
  /\ bundles' = [bundles EXCEPT ![r] = [dir |-> job[w].dir, verdict |-> "UNVERIFIED"]]
  /\ SetStatus(r, "SUCCEEDED", job[w].version + 1)
  /\ AddHistory(r, "EXECUTION_COMPLETED", "EXECUTING", "SUCCEEDED", job[w].user)
  /\ Finish(w)
  /\ UNCHANGED <<investigating, stored>>

\* a duplicate bundle answered by a bare UPDATE in a fresh session
RecordDuplicateAsFailed(w) ==
  LET r == job[w].req IN
  /\ job[w].pc = "recording"
  /\ bundles[r] # NoBundle
  /\ SetStatus(r, "FAILED", job[w].version + 1)
  /\ Finish(w)
  /\ UNCHANGED <<investigating, history, bundles, stored>>

-----------------------------------------------------------------------------
(* POST /cases/{id}/collections                                            *)

\* The case leaves or enters INVESTIGATING (transition_case, module Cases).
CaseMoves(c) ==
  /\ Free(None, c)
  /\ investigating' = [investigating EXCEPT ![c] = ~ @]
  /\ UNCHANGED <<requests, history, bundles, stored, job>>

\* The bound on requests: a creating handler starts only while c has an id
\* left for it (the code's uuid4 never runs out).
IdLeft(c) ==
  Cardinality({w \in Workers : job[w].case = c /\ job[w].pc \in {"listing", "creating"}})
    < Cardinality({r \in Requests : CaseOf[r] = c /\ requests[r] = NoRow})

ReadCase(w, u, c) ==
  /\ job[w].pc = "idle"
  /\ u \in Analysts
  /\ Free(w, c)
  /\ IdLeft(c)
  /\ investigating[c]
  /\ job' = [job EXCEPT ![w] = [Idle EXCEPT !.pc = "listing", !.user = u, !.case = c]]
  /\ UNCHANGED <<investigating, requests, history, bundles, stored>>

\* A second SELECT, the lazy load of case.collection_requests.
ListRequests(w) ==
  /\ job[w].pc = "listing"
  /\ IF Life!BlockedCase(job[w].case)
       THEN Finish(w)
       ELSE job' = [job EXCEPT ![w].pc = "creating"]
  /\ UNCHANGED <<investigating, requests, history, bundles, stored>>

InsertRequest(w, r) ==
  /\ job[w].pc = "creating"
  /\ requests[r] = NoRow
  /\ CaseOf[r] = job[w].case
  /\ requests' = [requests EXCEPT ![r] =
       [status |-> "DRAFT", version |-> 1, requester |-> job[w].user, reviewer |-> None]]
  /\ AddHistory(r, "CREATED", "ABSENT", "DRAFT", job[w].user)
  /\ Finish(w)
  /\ UNCHANGED <<investigating, bundles, stored>>

-----------------------------------------------------------------------------
(* POST /collections/{id}/submit and /collections/{id}/review              *)

ReadForSubmit(w, u, r) == u \in Analysts /\ Load(w, u, r, "DRAFT", "submitting")

SubmitCommit(w) ==
  LET r == job[w].req IN
  /\ job[w].pc = "submitting"
  /\ SetStatus(r, "SUBMITTED", job[w].version + 1)
  /\ AddHistory(r, "SUBMITTED", "DRAFT", "SUBMITTED", job[w].user)
  /\ Finish(w)
  /\ UNCHANGED <<investigating, bundles, stored>>

ReadForReview(w, u, r) == u \in Reviewers /\ Load(w, u, r, "SUBMITTED", "reviewing")

ReviewCommit(w, decision) ==
  LET r == job[w].req IN
  /\ job[w].pc = "reviewing"
  /\ requests' = [requests EXCEPT ![r].status = decision,
                                  ![r].version = job[w].version + 1,
                                  ![r].reviewer = job[w].user]
  /\ AddHistory(r, "REVIEWED", "SUBMITTED", decision, job[w].user)
  /\ Finish(w)
  /\ UNCHANGED <<investigating, bundles, stored>>

-----------------------------------------------------------------------------
(* POST /collections/{id}/execute and cases.execute_request                *)

ReadForExecute(w, u, r) == u \in Analysts /\ Load(w, u, r, "APPROVED", "starting")

\* The first transaction: EXECUTING is committed before anything is collected.
StartCommit(w) ==
  LET r == job[w].req IN
  /\ job[w].pc = "starting"
  /\ SetStatus(r, "EXECUTING", job[w].version + 1)
  /\ AddHistory(r, "EXECUTION_STARTED", "APPROVED", "EXECUTING", job[w].user)
  /\ job' = [job EXCEPT ![w].pc = "collecting", ![w].version = @ + 1]
  /\ UNCHANGED <<investigating, bundles, stored>>

\* The collector answers and store_bundle renames a complete directory into
\* place, outside any transaction.
Collect(w) ==
  LET r == job[w].req IN
  /\ job[w].pc = "collecting"
  /\ stored' = [stored EXCEPT ![r] = @ + 1]
  /\ job' = [job EXCEPT ![w].pc = "recording", ![w].dir = stored[r] + 1]
  /\ UNCHANGED <<investigating, requests, history, bundles>>

FailCommit(w) ==
  LET r == job[w].req IN
  /\ SetStatus(r, "FAILED", job[w].version + 1)
  /\ AddHistory(r, "EXECUTION_FAILED", "EXECUTING", "FAILED", job[w].user)
  /\ Finish(w)
  /\ UNCHANGED <<investigating, stored>>

\* The collector or store_bundle raises: the except branch records FAILED.
CollectFails(w) ==
  /\ job[w].pc = "collecting"
  /\ FailCommit(w)
  /\ UNCHANGED bundles

\* The second transaction: bundle row, artifacts, verification and SUCCEEDED.
RecordBundle(w, verdict) ==
  LET r == job[w].req IN
  /\ job[w].pc = "recording"
  /\ bundles[r] = NoBundle
  /\ bundles' = [bundles EXCEPT ![r] = [dir |-> job[w].dir, verdict |-> verdict]]
  /\ SetStatus(r, "SUCCEEDED", job[w].version + 1)
  /\ AddHistory(r, "EXECUTION_COMPLETED", "EXECUTING", "SUCCEEDED", job[w].user)
  /\ Finish(w)
  /\ UNCHANGED <<investigating, stored>>

\* verify_bundle raises after the bundle row was flushed: the except branch
\* commits FAILED together with the rows already flushed.
VerifyRaises(w) ==
  LET r == job[w].req IN
  /\ Faults
  /\ job[w].pc = "recording"
  /\ bundles[r] = NoBundle
  /\ bundles' = [bundles EXCEPT ![r] = [dir |-> job[w].dir, verdict |-> "UNVERIFIED"]]
  /\ FailCommit(w)

\* The flush of a second bundle row violates request_id UNIQUE and leaves the
\* session unusable: the except branch raises before it writes anything.
RecordDuplicate(w) ==
  /\ job[w].pc = "recording"
  /\ bundles[job[w].req] # NoBundle
  /\ Finish(w)
  /\ UNCHANGED <<investigating, requests, history, bundles, stored>>

\* The thread dies, or the database refuses its transaction ("database is
\* locked"): whatever it had not committed is rolled back.
Abort(w) ==
  /\ Faults
  /\ job[w].pc # "idle"
  /\ Finish(w)
  /\ UNCHANGED <<investigating, requests, history, bundles, stored>>

-----------------------------------------------------------------------------
(* The system.                                                             *)

\* What thread w does on its own once it has begun a handler.
Proceed(w) ==
  \/ ListRequests(w)
  \/ \E r \in Requests : InsertRequest(w, r)
  \/ SubmitCommit(w)
  \/ \E decision \in {"APPROVED", "REJECTED"} : ReviewCommit(w, decision)
  \/ StartCommit(w)
  \/ Collect(w)
  \/ CollectFails(w)
  \/ \E verdict \in {"PASS", "FAIL"} : RecordBundle(w, verdict)
  \/ RecordDuplicate(w)

\* A user's request reaches thread w.
Receive(w) ==
  \E u \in Users :
    \/ \E c \in Cases : ReadCase(w, u, c)
    \/ \E r \in Requests : \/ ReadForSubmit(w, u, r)
                           \/ ReadForReview(w, u, r)
                           \/ ReadForExecute(w, u, r)

Next ==
  \/ \E c \in Cases : CaseMoves(c)
  \/ \E w \in Workers : Receive(w) \/ Proceed(w) \/ VerifyRaises(w) \/ Abort(w)

Spec == Init /\ [][Next]_vars

\* A handler that was started is run by its thread to its end, and a creating
\* handler never runs out of fresh ids (uuid4); users may do nothing at all.
Fairness == \A w \in Workers : WF_vars(Proceed(w))

FairSpec == Spec /\ Fairness

-----------------------------------------------------------------------------
(* Properties that hold whatever overlaps and whatever fails.              *)

Approval(e) == e.action = "REVIEWED" /\ e.to = "APPROVED" /\ e.actor \in Reviewers

\* Every execution that was ever started (main.py execute_collection_request)
\* follows, in the request's own history, an APPROVED decision of a reviewer,
\* although the row it read may have been overwritten by any number of racing
\* handlers since.
ReviewerGate ==
  \A r \in Requests : \A k \in 1..Len(history[r]) :
    history[r][k].action = "EXECUTION_STARTED" =>
      \E j \in 1..(k - 1) : Approval(history[r][j])

Count(r, actions) == Cardinality({k \in 1..Len(history[r]) : history[r][k].action \in actions})
Running(r) == {w \in Workers : job[w].req = r /\ job[w].pc \in {"collecting", "recording"}}

\* Every start recorded for a request has at most one end: completed, failed
\* or still on a thread.  No outcome is invented, also when two executions of
\* the same request race (cases.execute_request).
OneEndPerStart ==
  \A r \in Requests :
    Count(r, {"EXECUTION_COMPLETED", "EXECUTION_FAILED"}) + Cardinality(Running(r))
      =< Count(r, {"EXECUTION_STARTED"})

\* Of all executions of a request at most one completes, and it completes
\* exactly when it leaves a verified bundle row; a SUCCEEDED request has one,
\* naming a directory that is in the store (cases.py 128-168, the UNIQUE
\* request_id of models.py).
EvidenceMatchesCompletion ==
  \A r \in Requests :
    /\ Count(r, {"EXECUTION_COMPLETED"}) =
         IF bundles[r].verdict \in {"PASS", "FAIL"} THEN 1 ELSE 0
    /\ requests[r].status = "SUCCEEDED" => bundles[r].verdict \in {"PASS", "FAIL"}
    /\ bundles[r] # NoBundle => bundles[r].dir \in 1..stored[r]

\* The status shown for a request is the one its last history row announced:
\* no path writes one of the two tables without the other.
HistoryTellsStatus ==
  \A r \in Requests :
    requests[r].status =
      IF history[r] = <<>> THEN "ABSENT" ELSE history[r][Len(history[r])].to

\* The requests that keep case c from taking another one.
LiveOf(c) == {r \in Requests : CaseOf[r] = c /\ requests[r].status \in Blocking}

\* The check for an active collection and the INSERT are not one transaction,
\* and a stale review may bring a rejected request back, so a case can get more
\* than one live request; but never more than there are threads, however long
\* creations, reviews and executions go on overlapping: the check of each new
\* one must have come before all the others (main.py create_collection_request
\* 540-556, review_collection_request 622).
NoMoreLiveThanThreads == \A c \in Cases : Cardinality(LiveOf(c)) =< Cardinality(Workers)

\* Evidence is never rewritten: a bundle row, once committed, keeps its
\* directory and its verdict (runbook 02, "never rewrite evidence state").
BundlePermanent ==
  [][\A r \in Requests : bundles[r] # NoBundle => bundles'[r] = bundles[r]]_vars

-----------------------------------------------------------------------------
(* Properties of a case on which one handler works at a time.              *)

\* The requests follow their lifecycle: decided once, run at most once, final
\* when REJECTED, SUCCEEDED or FAILED, and never two live ones on a case, with
\* crashes and failed transactions anywhere.
FollowsLifecycle == Life!LifecycleSpec

\* An outcome and its evidence agree: a verified bundle row exactly under
\* SUCCEEDED, a bundle row without verification only under FAILED.
OutcomeMatchesEvidence ==
  \A r \in Requests :
    /\ (requests[r].status = "SUCCEEDED") <=> (bundles[r].verdict \in {"PASS", "FAIL"})
    /\ bundles[r].verdict = "UNVERIFIED" => requests[r].status = "FAILED"

-----------------------------------------------------------------------------
(* Properties of racing handlers whose threads do not die.                 *)

\* A request that says EXECUTING while nobody executes it already has its
\* bundle: the one way to abandon it is a second execution that was overtaken
\* by the first (cases.execute_request, the IntegrityError of its flush).
AbandonedHasEvidence ==
  \A r \in Requests :
    requests[r].status = "EXECUTING" /\ Running(r) = {} => bundles[r] # NoBundle

\* An execution ends: the request leaves EXECUTING or has its bundle (the
\* collectors give up after their deadlines).
ExecutionSettles ==
  \A r \in Requests :
    requests[r].status = "EXECUTING"
      ~> (requests[r].status # "EXECUTING" \/ bundles[r] # NoBundle)

-----------------------------------------------------------------------------
(* What the documents say of the records, for the runs that refute it when *)
(* handlers overlap.                                                        *)

\* runbook 02 line 51: "preserve FAILED requests and verification history".
FailedStaysFailed ==
  [][\A r \in Requests :
       requests[r].status = "FAILED" => requests'[r].status = "FAILED"]_vars
=============================================================================
