--------------------- MODULE CollectionRequestsProofs ---------------------
(***************************************************************************)
(* CollectionRequests for any requests, cases, users and threads, whatever *)
(* fails: first what holds although handlers overlap (the reviewer gate,   *)
(* the history, the permanence of evidence, the counts of starts and ends, *)
(* how many requests of a case are live), then what holds when the         *)
(* handlers on a case take turns, the refinement of RequestLifecycle       *)
(* included.                                                               *)
(***************************************************************************)
EXTENDS CollectionRequests, FiniteSetTheorems, SequenceTheorems, TLAPS

USE DEF Statuses, Life!Statuses, Users

Approved(r) == \E j \in 1..Len(history[r]) : Approval(history[r][j])

\* What a handler between its reads and its commit has loaded, and for whom.
JobsLoaded ==
  \A w \in Workers :
    /\ job[w].pc \in {"listing", "creating"} =>
         job[w].user \in Analysts /\ job[w].case \in Cases
    /\ job[w].pc \in {"submitting", "starting", "collecting", "recording"} =>
         job[w].user \in Analysts /\ job[w].req \in Requests
    /\ job[w].pc = "reviewing" =>
         job[w].user \in Reviewers /\ job[w].req \in Requests

\* The history keeps every approval.  So a row that says APPROVED, and a handler
\* that once read APPROVED, have an approval behind them even after the row was
\* overwritten.
ApprovalRemembered ==
  /\ \A r \in Requests : requests[r].status = "APPROVED" => Approved(r)
  /\ \A w \in Workers, r \in Requests :
       job[w].pc = "starting" /\ job[w].req = r => Approved(r)

\* ReviewerGate alone is not inductive: the start of an execution must know that
\* its request was approved, which ApprovalRemembered provides.
IInv == TypeOK /\ JobsLoaded /\ ApprovalRemembered /\ ReviewerGate /\ HistoryTellsStatus

-----------------------------------------------------------------------------

\* The initial state satisfies the invariant.
LEMMA InitIInv == Init => IInv
<1> SUFFICES ASSUME Init PROVE IInv
  OBVIOUS
<1>1. TypeOK
  <2>1. NoRow \in Row /\ NoBundle \in Bundle /\ Idle \in Job /\ <<>> \in Seq(Entry)
    BY DEF NoRow, Row, NoBundle, Bundle, Idle, Job
  <2> QED
    BY <2>1 DEF Init, TypeOK
<1>2. JobsLoaded
  BY DEF Init, JobsLoaded, Idle
<1>3. ApprovalRemembered
  BY DEF Init, ApprovalRemembered, NoRow, Idle
<1>4. ASSUME NEW r \in Requests
      PROVE  history[r] = <<>> /\ Len(history[r]) = 0 /\ requests[r].status = "ABSENT"
  BY DEF Init, NoRow
<1>5. ReviewerGate /\ HistoryTellsStatus
  BY <1>4 DEF ReviewerGate, HistoryTellsStatus
<1> QED
  BY <1>1, <1>2, <1>3, <1>5 DEF IInv

\* A step that leaves requests and history alone: a handler that is about to
\* start an execution was so before, or has just read APPROVED.
LEMMA QuietStep ==
  ASSUME IInv, TypeOK', JobsLoaded', UNCHANGED <<requests, history>>,
         \A w \in Workers, r \in Requests :
           job'[w].pc = "starting" /\ job'[w].req = r =>
             \/ job'[w] = job[w]
             \/ requests[r].status = "APPROVED"
  PROVE  IInv'
<1>1. ReviewerGate' /\ HistoryTellsStatus'
  BY DEF IInv, ReviewerGate, HistoryTellsStatus
<1>2. ASSUME NEW r \in Requests PROVE Approved(r) => Approved(r)'
  BY DEF Approved
<1>3. ASSUME NEW r \in Requests, requests'[r].status = "APPROVED" PROVE Approved(r)'
  BY <1>2, <1>3 DEF IInv, ApprovalRemembered
<1>4. ASSUME NEW w \in Workers, NEW r \in Requests,
             job'[w].pc = "starting", job'[w].req = r
      PROVE  Approved(r)'
  BY <1>2, <1>4 DEF IInv, ApprovalRemembered
<1>5. ApprovalRemembered'
  BY <1>3, <1>4 DEF ApprovalRemembered
<1> QED
  BY <1>1, <1>5 DEF IInv

\* A commit: it appends one entry e to the history of q and gives q the status
\* that e announces; e is an execution start only of an approved request, and
\* an approval only as a reviewer's decision.
LEMMA CommitStep ==
  ASSUME IInv, TypeOK', JobsLoaded', NEW q \in Requests, NEW e \in Entry,
         history' = [history EXCEPT ![q] = Append(@, e)],
         requests'[q].status = e.to,
         \A r \in Requests \ {q} : requests'[r] = requests[r],
         e.action = "EXECUTION_STARTED" => Approved(q),
         e.to = "APPROVED" => Approval(e),
         \A w \in Workers : job'[w].pc = "starting" => job'[w] = job[w]
  PROVE  IInv'
<1> DEFINE h == history[q]
           h1 == Append(h, e)
<1>1. /\ h \in Seq(Entry) /\ Len(h) \in Nat /\ history'[q] = h1
      /\ \A r \in Requests \ {q} : history'[r] = history[r]
  BY LenProperties DEF IInv, TypeOK
<1>2. /\ h1 \in Seq(Entry) /\ Len(h1) = Len(h) + 1 /\ h1[Len(h) + 1] = e
      /\ \A k \in 1..Len(h) : h1[k] = h[k]
  BY <1>1, AppendProperties
<1>3. ASSUME NEW r \in Requests, Approved(r) PROVE Approved(r)'
  <2>1. CASE r = q
    <3>1. PICK j \in 1..Len(h) : Approval(h[j])
      BY <1>3, <2>1 DEF Approved
    <3>2. j \in 1..Len(h1) /\ h1[j] = h[j]
      BY <1>1, <1>2
    <3> QED
      BY <2>1, <3>1, <3>2, <1>1 DEF Approved
  <2>2. CASE r # q
    BY <2>2, <1>1, <1>3 DEF Approved
  <2> QED
    BY <2>1, <2>2
<1>4. e.to = "APPROVED" => Approved(q)'
  <2>1. Len(h) + 1 \in 1..Len(h1)
    BY <1>1, <1>2
  <2> QED
    BY <2>1, <1>1, <1>2 DEF Approved
<1>5. ApprovalRemembered'
  <2>1. ASSUME NEW r \in Requests, requests'[r].status = "APPROVED" PROVE Approved(r)'
    BY <2>1, <1>3, <1>4 DEF IInv, ApprovalRemembered
  <2>2. ASSUME NEW w \in Workers, NEW r \in Requests,
               job'[w].pc = "starting", job'[w].req = r
        PROVE  Approved(r)'
    BY <2>2, <1>3 DEF IInv, ApprovalRemembered
  <2> QED
    BY <2>1, <2>2 DEF ApprovalRemembered
<1>6. ReviewerGate'
  <2>1. ASSUME NEW r \in Requests, NEW k \in 1..Len(history'[r]),
               history'[r][k].action = "EXECUTION_STARTED"
        PROVE  \E j \in 1..(k - 1) : Approval(history'[r][j])
    <3>1. CASE r # q
      BY <2>1, <3>1, <1>1 DEF IInv, ReviewerGate
    <3>2. CASE r = q /\ k \in 1..Len(h)
      <4>1. PICK j \in 1..(k - 1) : Approval(h[j])
        BY <2>1, <3>2, <1>1, <1>2 DEF IInv, ReviewerGate
      <4>2. j \in 1..Len(h)
        BY <3>2, <1>1
      <4> QED
        BY <3>2, <4>1, <4>2, <1>1, <1>2
    <3>3. CASE r = q /\ k = Len(h) + 1
      <4>1. PICK j \in 1..Len(h) : Approval(h[j])
        BY <2>1, <3>3, <1>1, <1>2 DEF Approved
      <4>2. j \in 1..(k - 1)
        BY <3>3, <1>1
      <4> QED
        BY <3>3, <4>1, <4>2, <1>1, <1>2
    <3> QED
      BY <3>1, <3>2, <3>3, <1>1, <1>2
  <2> QED
    BY <2>1 DEF ReviewerGate
<1>7. HistoryTellsStatus'
  <2>1. h1 # <<>> /\ h1[Len(h1)].to = e.to
    <3>1. Len(h1) # 0
      BY <1>1, <1>2
    <3> QED
      BY <3>1, <1>2, EmptySeq
  <2>2. ASSUME NEW r \in Requests
        PROVE  requests'[r].status = IF history'[r] = <<>> THEN "ABSENT"
                                     ELSE history'[r][Len(history'[r])].to
    <3>1. CASE r = q
      BY <3>1, <2>1, <1>1
    <3>2. CASE r # q
      BY <3>2, <1>1 DEF IInv, HistoryTellsStatus
    <3> QED
      BY <3>1, <3>2
  <2> QED
    BY <2>2 DEF HistoryTellsStatus
<1> QED
  BY <1>5, <1>6, <1>7 DEF IInv

-----------------------------------------------------------------------------
(* One lemma per kind of step.                                             *)

\* A handler that ends leaves its thread idle.
LEMMA FinishStep ==
  ASSUME TypeOK, JobsLoaded, NEW w \in Workers, Finish(w)
  PROVE  /\ job' \in [Workers -> Job]
         /\ JobsLoaded'
         /\ \A v \in Workers : job'[v].pc = "starting" => job'[v] = job[v]
<1>1. Idle \in Job /\ Idle.pc = "idle"
  BY DEF Idle, Job
<1>2. job' = [job EXCEPT ![w] = Idle]
  BY DEF Finish
<1>3. job' \in [Workers -> Job]
  BY <1>1, <1>2 DEF TypeOK
<1>4. JobsLoaded'
  BY <1>1, <1>2 DEF TypeOK, JobsLoaded
<1>5. \A v \in Workers : job'[v].pc = "starting" => job'[v] = job[v]
  BY <1>1, <1>2 DEF TypeOK
<1> QED
  BY <1>3, <1>4, <1>5

\* The read step of submit, review and execute.
LEMMA LoadStep ==
  ASSUME IInv, NEW w \in Workers, NEW r \in Requests, NEW u \in Users,
         NEW s, NEW pc \in {"submitting", "reviewing", "starting"},
         Load(w, u, r, s, pc),
         pc = "reviewing" => u \in Reviewers,
         pc # "reviewing" => u \in Analysts,
         pc = "starting" => s = "APPROVED"
  PROVE  IInv'
<1> DEFINE j == [pc |-> pc, user |-> u, case |-> CaseOf[r], req |-> r,
                 version |-> requests[r].version, dir |-> 0]
<1>1. /\ requests[r].status = s
      /\ job' = [job EXCEPT ![w] = j]
      /\ UNCHANGED <<investigating, requests, history, bundles, stored>>
  BY DEF Load
<1>2. requests[r] \in Row
  BY DEF IInv, TypeOK
<1>3. j \in Job /\ j.pc = pc /\ j.user = u /\ j.req = r
  BY <1>2, CaseOfAssumption DEF Job, Row
<1> HIDE DEF j
<1>4. TypeOK'
  BY <1>1, <1>3 DEF IInv, TypeOK
<1>5. JobsLoaded'
  BY <1>1, <1>3 DEF IInv, TypeOK, JobsLoaded
<1>6. \A v \in Workers, q \in Requests :
        job'[v].pc = "starting" /\ job'[v].req = q =>
          job'[v] = job[v] \/ requests[q].status = "APPROVED"
  BY <1>1, <1>3 DEF IInv, TypeOK
<1> QED
  BY <1>1, <1>4, <1>5, <1>6, QuietStep

\* A handler of the create path moves on without touching a request.
LEMMA CreateReads ==
  ASSUME IInv, NEW w \in Workers,
         (\E u \in Users, c \in Cases : ReadCase(w, u, c)) \/ ListRequests(w)
  PROVE  IInv'
<1>1. UNCHANGED <<investigating, requests, history, bundles, stored>>
  BY DEF ReadCase, ListRequests
<1>2. PICK j \in Job : /\ job' = [job EXCEPT ![w] = j]
                       /\ j.pc \in {"listing", "creating", "idle"}
                       /\ j.pc # "idle" => j.user \in Analysts /\ j.case \in Cases
  <2>1. ASSUME NEW u \in Users, NEW c \in Cases, ReadCase(w, u, c)
        PROVE  \E j \in Job : /\ job' = [job EXCEPT ![w] = j]
                              /\ j.pc \in {"listing", "creating", "idle"}
                              /\ j.pc # "idle" => j.user \in Analysts /\ j.case \in Cases
    <3> DEFINE j == [Idle EXCEPT !.pc = "listing", !.user = u, !.case = c]
    <3>1. j \in Job /\ j.pc = "listing" /\ j.user = u /\ j.case = c
      BY DEF Idle, Job
    <3>2. job' = [job EXCEPT ![w] = j] /\ u \in Analysts
      BY <2>1 DEF ReadCase
    <3> HIDE DEF j
    <3> QED
      BY <3>1, <3>2
  <2>2. ASSUME ListRequests(w)
        PROVE  \E j \in Job : /\ job' = [job EXCEPT ![w] = j]
                              /\ j.pc \in {"listing", "creating", "idle"}
                              /\ j.pc # "idle" => j.user \in Analysts /\ j.case \in Cases
    <3>1. CASE job' = [job EXCEPT ![w] = Idle]
      <4>1. Idle \in Job /\ Idle.pc = "idle"
        BY DEF Idle, Job
      <4> QED
        BY <3>1, <4>1
    <3>2. CASE job' = [job EXCEPT ![w].pc = "creating"]
      <4> DEFINE j == [job[w] EXCEPT !.pc = "creating"]
      <4>1. job[w] \in Job /\ job[w].user \in Analysts /\ job[w].case \in Cases
        BY <2>2 DEF ListRequests, IInv, TypeOK, JobsLoaded
      <4>2. j \in Job /\ j.pc = "creating" /\ j.user \in Analysts /\ j.case \in Cases
        BY <4>1 DEF Job
      <4>3. job' = [job EXCEPT ![w] = j]
        BY <3>2
      <4> HIDE DEF j
      <4> QED
        BY <4>2, <4>3
    <3> QED
      BY <2>2, <3>1, <3>2 DEF ListRequests, Finish
  <2> QED
    BY <2>1, <2>2
<1>3. TypeOK'
  BY <1>1, <1>2 DEF IInv, TypeOK
<1>4. JobsLoaded'
  BY <1>1, <1>2 DEF IInv, TypeOK, JobsLoaded
<1>5. \A v \in Workers, q \in Requests :
        job'[v].pc = "starting" /\ job'[v].req = q => job'[v] = job[v]
  BY <1>2 DEF IInv, TypeOK
<1> QED
  BY <1>1, <1>3, <1>4, <1>5, QuietStep

LEMMA InsertStep ==
  ASSUME IInv, NEW w \in Workers, NEW r \in Requests, InsertRequest(w, r)
  PROVE  IInv'
<1> DEFINE row == [status |-> "DRAFT", version |-> 1, requester |-> job[w].user,
                   reviewer |-> None]
           e == [action |-> "CREATED", from |-> "ABSENT", to |-> "DRAFT",
                 actor |-> job[w].user]
<1>1. /\ job[w].pc = "creating"
      /\ requests' = [requests EXCEPT ![r] = row]
      /\ history' = [history EXCEPT ![r] = Append(@, e)]
      /\ Finish(w)
      /\ UNCHANGED <<investigating, bundles, stored>>
  BY DEF InsertRequest, AddHistory
<1>2. row \in Row /\ e \in Entry /\ row.status = e.to
      /\ e.action # "EXECUTION_STARTED" /\ e.to # "APPROVED"
  BY <1>1 DEF IInv, JobsLoaded, Row, Entry
<1> HIDE DEF row, e
<1>3. Append(history[r], e) \in Seq(Entry)
  BY <1>2, AppendProperties DEF IInv, TypeOK
<1>4. job' \in [Workers -> Job] /\ JobsLoaded'
      /\ \A v \in Workers : job'[v].pc = "starting" => job'[v] = job[v]
  BY <1>1, FinishStep DEF IInv
<1>5. TypeOK'
  BY <1>1, <1>2, <1>3, <1>4 DEF IInv, TypeOK
<1>6. requests'[r].status = e.to /\ \A q \in Requests \ {r} : requests'[q] = requests[q]
  BY <1>1, <1>2 DEF IInv, TypeOK
<1> QED
  BY <1>1, <1>2, <1>4, <1>5, <1>6, CommitStep

\* Every commit of a handler that loaded a request: the UPDATE of some columns
\* of its row and the history entry that goes with it.
LEMMA UpdateStep ==
  ASSUME IInv, NEW r \in Requests, NEW e \in Entry, NEW row \in Row,
         requests' = [requests EXCEPT ![r] = row], row.status = e.to,
         history' = [history EXCEPT ![r] = Append(@, e)],
         e.action = "EXECUTION_STARTED" => Approved(r),
         e.to = "APPROVED" => Approval(e),
         job' \in [Workers -> Job], JobsLoaded',
         \A v \in Workers : job'[v].pc = "starting" => job'[v] = job[v],
         bundles' \in [Requests -> Bundle],
         UNCHANGED <<investigating, stored>>
  PROVE  IInv'
<1>1. Append(history[r], e) \in Seq(Entry)
  BY AppendProperties DEF IInv, TypeOK
<1>2. TypeOK'
  BY <1>1 DEF IInv, TypeOK
<1>3. requests'[r].status = e.to /\ \A q \in Requests \ {r} : requests'[q] = requests[q]
  BY DEF IInv, TypeOK
<1> QED
  BY <1>2, <1>3, CommitStep

\* The row after the UPDATE of status and version is a row.
LEMMA SetStatusRow ==
  ASSUME TypeOK, NEW r \in Requests, NEW s \in Statuses, NEW n \in Nat,
         SetStatus(r, s, n)
  PROVE  \E row \in Row : row.status = s /\ requests' = [requests EXCEPT ![r] = row]
<1> DEFINE row == [requests[r] EXCEPT !.status = s, !.version = n]
<1>1. row \in Row /\ row.status = s
  BY DEF TypeOK, Row
<1>2. requests' = [requests EXCEPT ![r] = row]
  BY DEF SetStatus, TypeOK
<1> HIDE DEF row
<1> QED
  BY <1>1, <1>2

\* What a handler past its reads holds.
LEMMA JobFacts ==
  ASSUME IInv, NEW w \in Workers,
         job[w].pc \in {"submitting", "reviewing", "starting", "collecting", "recording"}
  PROVE  /\ job[w] \in Job /\ job[w].req \in Requests
         /\ job[w].version + 1 \in Nat /\ job[w].dir \in Nat
         /\ job[w].pc = "reviewing" => job[w].user \in Reviewers
         /\ job[w].pc # "reviewing" => job[w].user \in Analysts
<1>1. job[w] \in Job
  BY DEF IInv, TypeOK
<1> QED
  BY <1>1 DEF Job, IInv, JobsLoaded

LEMMA SubmitStep ==
  ASSUME IInv, NEW w \in Workers, SubmitCommit(w)
  PROVE  IInv'
<1> DEFINE r == job[w].req
           e == [action |-> "SUBMITTED", from |-> "DRAFT", to |-> "SUBMITTED",
                 actor |-> job[w].user]
<1>1. /\ job[w].pc = "submitting"
      /\ SetStatus(r, "SUBMITTED", job[w].version + 1)
      /\ history' = [history EXCEPT ![r] = Append(@, e)]
      /\ Finish(w)
      /\ UNCHANGED <<investigating, bundles, stored>>
  BY DEF SubmitCommit, AddHistory
<1>2. r \in Requests /\ e \in Entry
      /\ e.action # "EXECUTION_STARTED" /\ e.to = "SUBMITTED"
  BY <1>1, JobFacts DEF Entry
<1>3. PICK row \in Row : row.status = "SUBMITTED" /\ requests' = [requests EXCEPT ![r] = row]
  BY <1>1, <1>2, JobFacts, SetStatusRow DEF IInv
<1>4. job' \in [Workers -> Job] /\ JobsLoaded'
      /\ \A v \in Workers : job'[v].pc = "starting" => job'[v] = job[v]
  BY <1>1, FinishStep DEF IInv
<1>5. bundles' \in [Requests -> Bundle]
  BY <1>1 DEF IInv, TypeOK
<1> HIDE DEF r, e
<1> QED
  BY <1>1, <1>2, <1>3, <1>4, <1>5, UpdateStep

LEMMA ReviewStep ==
  ASSUME IInv, NEW w \in Workers, NEW d \in {"APPROVED", "REJECTED"}, ReviewCommit(w, d)
  PROVE  IInv'
<1> DEFINE r == job[w].req
           e == [action |-> "REVIEWED", from |-> "SUBMITTED", to |-> d,
                 actor |-> job[w].user]
           row == [requests[r] EXCEPT !.status = d, !.version = job[w].version + 1,
                                      !.reviewer = job[w].user]
<1>1. /\ job[w].pc = "reviewing"
      /\ history' = [history EXCEPT ![r] = Append(@, e)]
      /\ Finish(w)
      /\ UNCHANGED <<investigating, bundles, stored>>
  BY DEF ReviewCommit, AddHistory
<1>2. r \in Requests /\ e \in Entry /\ (e.to = "APPROVED" => Approval(e))
      /\ e.action # "EXECUTION_STARTED" /\ e.to = d
  BY <1>1, JobFacts DEF Entry, Approval
<1>3. row \in Row /\ row.status = d
  BY <1>1, <1>2, JobFacts DEF IInv, TypeOK, Row
<1>4. requests' = [requests EXCEPT ![r] = row]
  BY <1>2 DEF ReviewCommit, IInv, TypeOK
<1>5. job' \in [Workers -> Job] /\ JobsLoaded'
      /\ \A v \in Workers : job'[v].pc = "starting" => job'[v] = job[v]
  BY <1>1, FinishStep DEF IInv
<1>6. bundles' \in [Requests -> Bundle]
  BY <1>1 DEF IInv, TypeOK
<1> HIDE DEF r, e, row
<1> QED
  BY <1>1, <1>2, <1>3, <1>4, <1>5, <1>6, UpdateStep

\* The start of an execution: the approval its handler once read is remembered.
LEMMA StartStep ==
  ASSUME IInv, NEW w \in Workers, StartCommit(w)
  PROVE  IInv'
<1> DEFINE r == job[w].req
           e == [action |-> "EXECUTION_STARTED", from |-> "APPROVED", to |-> "EXECUTING",
                 actor |-> job[w].user]
           j == [job[w] EXCEPT !.pc = "collecting", !.version = @ + 1]
<1>1. /\ job[w].pc = "starting"
      /\ SetStatus(r, "EXECUTING", job[w].version + 1)
      /\ history' = [history EXCEPT ![r] = Append(@, e)]
      /\ UNCHANGED <<investigating, bundles, stored>>
  BY DEF StartCommit, AddHistory
<1>2. r \in Requests /\ e \in Entry /\ e.to = "EXECUTING"
  BY <1>1, JobFacts DEF Entry
<1>3. PICK row \in Row : row.status = "EXECUTING" /\ requests' = [requests EXCEPT ![r] = row]
  BY <1>1, <1>2, JobFacts, SetStatusRow DEF IInv
<1>4. Approved(r)
  BY <1>1, <1>2 DEF IInv, ApprovalRemembered
<1>5. job' = [job EXCEPT ![w] = j]
  BY DEF StartCommit, IInv, TypeOK
<1>6. j \in Job /\ j.pc = "collecting" /\ j.user \in Analysts /\ j.req \in Requests
  BY <1>1, JobFacts DEF Job
<1>7. job' \in [Workers -> Job] /\ JobsLoaded'
      /\ \A v \in Workers : job'[v].pc = "starting" => job'[v] = job[v]
  <2> HIDE DEF j
  <2> QED
    BY <1>5, <1>6 DEF IInv, TypeOK, JobsLoaded
<1>8. bundles' \in [Requests -> Bundle]
  BY <1>1 DEF IInv, TypeOK
<1>9. e.to # "APPROVED"
  BY <1>2
<1>10. PICK q \in Requests : q = r
  BY <1>2
<1>11. Approved(q)
  BY <1>4, <1>10
<1> HIDE DEF r, e
<1> QED
  BY <1>1, <1>2, <1>3, <1>7, <1>8, <1>9, <1>10, <1>11, UpdateStep

\* The except branch of execute_request, whatever it does to the bundle rows.
LEMMA FailStep ==
  ASSUME IInv, NEW w \in Workers, job[w].pc \in {"collecting", "recording"},
         FailCommit(w), bundles' \in [Requests -> Bundle]
  PROVE  IInv'
<1> DEFINE r == job[w].req
           e == [action |-> "EXECUTION_FAILED", from |-> "EXECUTING", to |-> "FAILED",
                 actor |-> job[w].user]
<1>1. /\ SetStatus(r, "FAILED", job[w].version + 1)
      /\ history' = [history EXCEPT ![r] = Append(@, e)]
      /\ Finish(w)
      /\ UNCHANGED <<investigating, stored>>
  BY DEF FailCommit, AddHistory
<1>2. r \in Requests /\ e \in Entry
      /\ e.action # "EXECUTION_STARTED" /\ e.to = "FAILED"
  BY JobFacts DEF Entry
<1>3. PICK row \in Row : row.status = "FAILED" /\ requests' = [requests EXCEPT ![r] = row]
  BY <1>1, <1>2, JobFacts, SetStatusRow DEF IInv
<1>4. job' \in [Workers -> Job] /\ JobsLoaded'
      /\ \A v \in Workers : job'[v].pc = "starting" => job'[v] = job[v]
  BY <1>1, FinishStep DEF IInv
<1> HIDE DEF r, e
<1> QED
  BY <1>1, <1>2, <1>3, <1>4, UpdateStep

LEMMA RecordStep ==
  ASSUME IInv, NEW w \in Workers, NEW v \in {"PASS", "FAIL"}, RecordBundle(w, v)
  PROVE  IInv'
<1> DEFINE r == job[w].req
           e == [action |-> "EXECUTION_COMPLETED", from |-> "EXECUTING", to |-> "SUCCEEDED",
                 actor |-> job[w].user]
<1>1. /\ job[w].pc = "recording"
      /\ bundles' = [bundles EXCEPT ![r] = [dir |-> job[w].dir, verdict |-> v]]
      /\ SetStatus(r, "SUCCEEDED", job[w].version + 1)
      /\ history' = [history EXCEPT ![r] = Append(@, e)]
      /\ Finish(w)
      /\ UNCHANGED <<investigating, stored>>
  BY DEF RecordBundle, AddHistory
<1>2. r \in Requests /\ e \in Entry
      /\ e.action # "EXECUTION_STARTED" /\ e.to = "SUCCEEDED"
  BY <1>1, JobFacts DEF Entry
<1>3. PICK row \in Row : row.status = "SUCCEEDED" /\ requests' = [requests EXCEPT ![r] = row]
  BY <1>1, <1>2, JobFacts, SetStatusRow DEF IInv
<1>4. job' \in [Workers -> Job] /\ JobsLoaded'
      /\ \A x \in Workers : job'[x].pc = "starting" => job'[x] = job[x]
  BY <1>1, FinishStep DEF IInv
<1>5. bundles' \in [Requests -> Bundle]
  <2>1. [dir |-> job[w].dir, verdict |-> v] \in Bundle
    BY <1>1, JobFacts DEF Bundle
  <2> QED
    BY <1>1, <2>1 DEF IInv, TypeOK
<1> HIDE DEF r, e
<1> QED
  BY <1>1, <1>2, <1>3, <1>4, <1>5, UpdateStep

\* The steps that change no request: the directory is stored, the case moves, a
\* duplicate or a dead thread ends a handler.
LEMMA OtherSteps ==
  ASSUME IInv,
         \/ \E c \in Cases : CaseMoves(c)
         \/ \E w \in Workers : Collect(w) \/ RecordDuplicate(w) \/ Abort(w)
  PROVE  IInv'
<1>1. ASSUME NEW c \in Cases, CaseMoves(c) PROVE IInv'
  <2>1. UNCHANGED <<requests, history, bundles, stored, job>>
        /\ investigating' = [investigating EXCEPT ![c] = ~ @]
    BY <1>1 DEF CaseMoves
  <2>2. TypeOK' /\ JobsLoaded'
    BY <2>1 DEF IInv, TypeOK, JobsLoaded
  <2> QED
    BY <2>1, <2>2, QuietStep
<1>2. ASSUME NEW w \in Workers, Collect(w) PROVE IInv'
  <2> DEFINE r == job[w].req
             j == [job[w] EXCEPT !.pc = "recording", !.dir = stored[r] + 1]
  <2>1. /\ job[w].pc = "collecting"
        /\ stored' = [stored EXCEPT ![r] = @ + 1]
        /\ UNCHANGED <<investigating, requests, history, bundles>>
    BY <1>2 DEF Collect
  <2>2. r \in Requests /\ stored[r] + 1 \in Nat
    BY <2>1, JobFacts DEF IInv, TypeOK
  <2>3. job' = [job EXCEPT ![w] = j]
    BY <1>2 DEF Collect, IInv, TypeOK
  <2>4. j \in Job /\ j.pc = "recording" /\ j.user \in Analysts /\ j.req \in Requests
    BY <2>1, <2>2, JobFacts DEF Job
  <2> HIDE DEF j, r
  <2>5. TypeOK' /\ JobsLoaded'
    BY <2>1, <2>2, <2>3, <2>4 DEF IInv, TypeOK, JobsLoaded
  <2>6. \A v \in Workers, q \in Requests :
          job'[v].pc = "starting" /\ job'[v].req = q => job'[v] = job[v]
    BY <2>3, <2>4 DEF IInv, TypeOK
  <2> QED
    BY <2>1, <2>5, <2>6, QuietStep
<1>3. ASSUME NEW w \in Workers, RecordDuplicate(w) \/ Abort(w) PROVE IInv'
  <2>1. Finish(w) /\ UNCHANGED <<investigating, requests, history, bundles, stored>>
    BY <1>3 DEF RecordDuplicate, Abort
  <2>2. job' \in [Workers -> Job] /\ JobsLoaded'
        /\ \A v \in Workers : job'[v].pc = "starting" => job'[v] = job[v]
    BY <2>1, FinishStep DEF IInv
  <2>3. TypeOK'
    BY <2>1, <2>2 DEF IInv, TypeOK
  <2> QED
    BY <2>1, <2>2, <2>3, QuietStep
<1> QED
  BY <1>1, <1>2, <1>3

\* Every step of the system keeps the invariant.
LEMMA NextIInv == IInv /\ [Next]_vars => IInv'
<1> SUFFICES ASSUME IInv, [Next]_vars PROVE IInv'
  OBVIOUS
<1>1. ASSUME NEW c \in Cases, CaseMoves(c) PROVE IInv'
  BY <1>1, OtherSteps
<1>2. ASSUME NEW w \in Workers, Receive(w) PROVE IInv'
  <2>1. ASSUME NEW u \in Users, NEW c \in Cases, ReadCase(w, u, c) PROVE IInv'
    BY <2>1, CreateReads
  <2>2. ASSUME NEW u \in Users, NEW r \in Requests, ReadForSubmit(w, u, r) PROVE IInv'
    BY <2>2, LoadStep DEF ReadForSubmit
  <2>3. ASSUME NEW u \in Users, NEW r \in Requests, ReadForReview(w, u, r) PROVE IInv'
    BY <2>3, LoadStep DEF ReadForReview
  <2>4. ASSUME NEW u \in Users, NEW r \in Requests, ReadForExecute(w, u, r) PROVE IInv'
    BY <2>4, LoadStep DEF ReadForExecute
  <2> QED
    BY <1>2, <2>1, <2>2, <2>3, <2>4 DEF Receive
<1>3. ASSUME NEW w \in Workers, Proceed(w) PROVE IInv'
  <2>1. CASE ListRequests(w)
    BY <2>1, CreateReads
  <2>2. ASSUME NEW r \in Requests, InsertRequest(w, r) PROVE IInv'
    BY <2>2, InsertStep
  <2>3. CASE SubmitCommit(w)
    BY <2>3, SubmitStep
  <2>4. ASSUME NEW d \in {"APPROVED", "REJECTED"}, ReviewCommit(w, d) PROVE IInv'
    BY <2>4, ReviewStep
  <2>5. CASE StartCommit(w)
    BY <2>5, StartStep
  <2>6. CASE Collect(w) \/ RecordDuplicate(w)
    BY <2>6, OtherSteps
  <2>7. CASE CollectFails(w)
    <3>1. bundles' \in [Requests -> Bundle]
      BY <2>7 DEF CollectFails, IInv, TypeOK
    <3> QED
      BY <2>7, <3>1, FailStep DEF CollectFails
  <2>8. ASSUME NEW v \in {"PASS", "FAIL"}, RecordBundle(w, v) PROVE IInv'
    BY <2>8, RecordStep
  <2> QED
    BY <1>3, <2>1, <2>2, <2>3, <2>4, <2>5, <2>6, <2>7, <2>8 DEF Proceed
<1>4. ASSUME NEW w \in Workers, VerifyRaises(w) PROVE IInv'
  <2>1. job[w].pc = "recording" /\ FailCommit(w)
        /\ bundles' = [bundles EXCEPT ![job[w].req] =
                         [dir |-> job[w].dir, verdict |-> "UNVERIFIED"]]
    BY <1>4 DEF VerifyRaises
  <2>2. [dir |-> job[w].dir, verdict |-> "UNVERIFIED"] \in Bundle
    BY <2>1, JobFacts DEF Bundle
  <2>3. bundles' \in [Requests -> Bundle]
    BY <2>1, <2>2 DEF IInv, TypeOK
  <2> QED
    BY <2>1, <2>3, FailStep
<1>5. ASSUME NEW w \in Workers, Abort(w) PROVE IInv'
  BY <1>5, OtherSteps
<1>6. CASE UNCHANGED vars
  <2>1. UNCHANGED <<investigating, requests, history, bundles, stored, job>>
    BY <1>6 DEF vars
  <2>2. TypeOK' /\ JobsLoaded'
    BY <2>1 DEF IInv, TypeOK, JobsLoaded
  <2> QED
    BY <2>1, <2>2, QuietStep
<1> QED
  BY <1>1, <1>2, <1>3, <1>4, <1>5, <1>6 DEF Next

\* The inductive invariant holds throughout.
LEMMA Invariant == Spec => []IInv
  BY InitIInv, NextIInv, PTL DEF Spec

-----------------------------------------------------------------------------

\* The tables and the handlers' copies keep their types; in particular the
\* reviewer column of a request only ever names a reviewer.
THEOREM TypeCorrect == Spec => []TypeOK
  BY Invariant, PTL DEF IInv

\* No execution starts without a reviewer's approval before it in the history of
\* its request, for any number of threads racing on it and with every failure.
THEOREM GateHolds == Spec => []ReviewerGate
  BY Invariant, PTL DEF IInv

\* The status of a request is always the one its last history row announced.
THEOREM StatusIsTold == Spec => []HistoryTellsStatus
  BY Invariant, PTL DEF IInv

\* Evidence rows are permanent: the guard of RecordBundle and VerifyRaises, which
\* is the UNIQUE constraint, is all it takes.
THEOREM EvidenceIsPermanent == Spec => BundlePermanent
<1>1. ASSUME TypeOK, [Next]_vars
      PROVE  [\A r \in Requests : bundles[r] # NoBundle => bundles'[r] = bundles[r]]_vars
  <2> SUFFICES ASSUME Next, NEW r \in Requests, bundles[r] # NoBundle
               PROVE  bundles'[r] = bundles[r]
    BY <1>1
  <2>1. ASSUME NEW w \in Workers, NEW v \in {"PASS", "FAIL"}, RecordBundle(w, v)
        PROVE  bundles'[r] = bundles[r]
    BY <1>1, <2>1 DEF RecordBundle, TypeOK
  <2>2. ASSUME NEW w \in Workers, VerifyRaises(w)
        PROVE  bundles'[r] = bundles[r]
    BY <1>1, <2>2 DEF VerifyRaises, TypeOK
  <2>3. CASE UNCHANGED bundles
    BY <2>3
  <2>4. ASSUME NEW w \in Workers, Receive(w) PROVE UNCHANGED bundles
    BY <2>4 DEF Receive, ReadCase, ReadForSubmit, ReadForReview, ReadForExecute, Load
  <2>5. ASSUME NEW w \in Workers, Proceed(w),
               ~ \E v \in {"PASS", "FAIL"} : RecordBundle(w, v)
        PROVE  UNCHANGED bundles
    BY <2>5 DEF Proceed, ListRequests, InsertRequest, SubmitCommit, ReviewCommit,
                StartCommit, Collect, CollectFails, RecordDuplicate
  <2>6. ASSUME NEW w \in Workers, Abort(w) PROVE UNCHANGED bundles
    BY <2>6 DEF Abort
  <2>7. ASSUME NEW c \in Cases, CaseMoves(c) PROVE UNCHANGED bundles
    BY <2>7 DEF CaseMoves
  <2> QED
    BY <2>1, <2>2, <2>3, <2>4, <2>5, <2>6, <2>7 DEF Next
<1> QED
  BY <1>1, TypeCorrect, PTL DEF Spec, BundlePermanent

-----------------------------------------------------------------------------
(* What is counted: the starts, the ends and the threads between them.     *)

Starts == {"EXECUTION_STARTED"}
Ends == {"EXECUTION_COMPLETED", "EXECUTION_FAILED"}

\* Handler j is between a start and its end.
Runs(j) == j.pc \in {"collecting", "recording"}

\* Thread w reads, stores a directory, ends without an outcome or dies.
Quiet(w, j) ==
  /\ UNCHANGED <<requests, history, bundles>>
  /\ \A r \in Requests : stored[r] <= stored'[r]
  /\ j.pc = "recording" => j.dir \in 1..stored'[j.req]
  /\ Runs(j) => Runs(job[w]) /\ j.req = job[w].req
  /\ Runs(job[w]) => Runs(j) \/ Faults \/ bundles[job[w].req] # NoBundle

\* Thread w commits history entry e of request q.
Commits(w, j, q, e) ==
  /\ history' = [history EXCEPT ![q] = Append(@, e)]
  /\ requests'[q].status = e.to
  /\ \A r \in Requests \ {q} : requests'[r] = requests[r]
  /\ stored' = stored
  /\ j.pc # "recording"
  /\ \/ /\ e.action \notin Starts \cup Ends
        /\ e.to \notin {"EXECUTING", "SUCCEEDED"}
        /\ ~ Runs(j) /\ ~ Runs(job[w])
        /\ bundles' = bundles
     \/ /\ e.action \in Starts /\ e.to = "EXECUTING"
        /\ Runs(j) /\ j.req = q /\ ~ Runs(job[w])
        /\ bundles' = bundles
     \/ /\ e.action = "EXECUTION_FAILED" /\ e.to = "FAILED"
        /\ ~ Runs(j) /\ Runs(job[w]) /\ job[w].req = q
        /\ \/ bundles' = bundles
           \/ /\ job[w].pc = "recording" /\ bundles[q] = NoBundle
              /\ bundles' = [bundles EXCEPT ![q] = [dir |-> job[w].dir, verdict |-> "UNVERIFIED"]]
     \/ /\ e.action = "EXECUTION_COMPLETED" /\ e.to = "SUCCEEDED"
        /\ ~ Runs(j) /\ Runs(job[w]) /\ job[w].req = q
        /\ job[w].pc = "recording" /\ bundles[q] = NoBundle
        /\ \E verdict \in {"PASS", "FAIL"} :
             bundles' = [bundles EXCEPT ![q] = [dir |-> job[w].dir, verdict |-> verdict]]

\* Every step of a thread is one of the two.
LEMMA StepShape ==
  ASSUME IInv, NEW w \in Workers,
         Receive(w) \/ Proceed(w) \/ VerifyRaises(w) \/ Abort(w)
  PROVE  \E j \in Job : /\ job' = [job EXCEPT ![w] = j]
                        /\ \/ Quiet(w, j)
                           \/ \E q \in Requests, e \in Entry : Commits(w, j, q, e)
<1> DEFINE Shape == \E j \in Job : /\ job' = [job EXCEPT ![w] = j]
                                   /\ \/ Quiet(w, j)
                                      \/ \E q \in Requests, e \in Entry : Commits(w, j, q, e)
<1>1. /\ job' \in [Workers -> Job] /\ job \in [Workers -> Job]
      /\ requests \in [Requests -> Row] /\ stored \in [Requests -> Nat]
  BY NextIInv DEF Next, IInv, TypeOK
<1>2. Idle \in Job /\ ~ Runs(Idle) /\ Idle.pc # "recording"
  BY DEF Idle, Job, Runs
<1>3. ASSUME Receive(w) PROVE Shape
  <2>1. \E j : job' = [job EXCEPT ![w] = j] /\ ~ Runs(j)
    <3>1. ASSUME NEW u \in Users, NEW c \in Cases, ReadCase(w, u, c)
          PROVE  \E j : job' = [job EXCEPT ![w] = j] /\ ~ Runs(j)
      <4> DEFINE j == [Idle EXCEPT !.pc = "listing", !.user = u, !.case = c]
      <4>1. job' = [job EXCEPT ![w] = j] /\ ~ Runs(j)
        BY <3>1 DEF ReadCase, Runs, Idle
      <4> QED
        BY <4>1
    <3>2. ASSUME NEW u \in Users, NEW r \in Requests, NEW s,
                 NEW pc \in {"submitting", "reviewing", "starting"}, Load(w, u, r, s, pc)
          PROVE  \E j : job' = [job EXCEPT ![w] = j] /\ ~ Runs(j)
      <4> DEFINE j == [pc |-> pc, user |-> u, case |-> CaseOf[r], req |-> r,
                       version |-> requests[r].version, dir |-> 0]
      <4>1. job' = [job EXCEPT ![w] = j] /\ ~ Runs(j)
        BY <3>2 DEF Load, Runs
      <4> QED
        BY <4>1
    <3> QED
      BY <1>3, <3>1, <3>2 DEF Receive, ReadForSubmit, ReadForReview, ReadForExecute
  <2>2. UNCHANGED <<requests, history, bundles, stored>> /\ ~ Runs(job[w])
    BY <1>3 DEF Receive, ReadCase, ReadForSubmit, ReadForReview, ReadForExecute, Load, Runs
  <2>3. PICK j : job' = [job EXCEPT ![w] = j] /\ ~ Runs(j)
    BY <2>1
  <2>4. j \in Job
    BY <1>1, <2>3
  <2>5. \A r \in Requests : stored[r] <= stored'[r]
    BY <1>1, <2>2
  <2> QED
    BY <2>2, <2>3, <2>4, <2>5 DEF Quiet, Runs
<1>4. ASSUME ListRequests(w) \/ RecordDuplicate(w) \/ Abort(w) PROVE Shape
  <2>1. /\ UNCHANGED <<requests, history, bundles, stored>>
        /\ Runs(job[w]) => Faults \/ bundles[job[w].req] # NoBundle
        /\ \A r \in Requests : stored[r] <= stored'[r]
    BY <1>1, <1>4 DEF ListRequests, RecordDuplicate, Abort, Runs
  <2>2. CASE Finish(w)
    BY <1>2, <2>1, <2>2 DEF Finish, Quiet
  <2>3. CASE job' = [job EXCEPT ![w].pc = "creating"]
    <3> DEFINE j == [job[w] EXCEPT !.pc = "creating"]
    <3>1. j \in Job /\ ~ Runs(j) /\ job' = [job EXCEPT ![w] = j]
      BY <1>1, <2>3 DEF Job, Runs
    <3> QED
      BY <2>1, <3>1 DEF Quiet, Runs
  <2> QED
    BY <1>4, <2>2, <2>3 DEF ListRequests, RecordDuplicate, Abort
<1>5. ASSUME Collect(w) PROVE Shape
  <2> DEFINE j == [job[w] EXCEPT !.pc = "recording", !.dir = stored[job[w].req] + 1]
  <2>1. job' = [job EXCEPT ![w] = j] /\ UNCHANGED <<requests, history, bundles>>
        /\ job[w].pc = "collecting"
    BY <1>1, <1>5 DEF Collect
  <2>2. job[w].req \in Requests /\ stored[job[w].req] + 1 \in Nat
    BY <1>1, <2>1, JobFacts
  <2>3. j.req = job[w].req /\ j.dir = stored[job[w].req] + 1 /\ Runs(job[w]) /\ Runs(j) /\ j \in Job
    BY <1>1, <2>1, <2>2 DEF Job, Runs
  <2>4. /\ \A r \in Requests : stored[r] <= stored'[r]
        /\ stored'[job[w].req] = stored[job[w].req] + 1
    BY <1>1, <1>5, <2>2 DEF Collect
  <2> HIDE DEF j
  <2>5. j.dir \in 1..stored'[j.req]
    BY <1>1, <2>2, <2>3, <2>4
  <2> QED
    BY <2>1, <2>3, <2>4, <2>5 DEF Quiet
<1>6. ASSUME StartCommit(w) PROVE Shape
  <2> DEFINE q == job[w].req
             e == [action |-> "EXECUTION_STARTED", from |-> "APPROVED", to |-> "EXECUTING",
                   actor |-> job[w].user]
             j == [job[w] EXCEPT !.pc = "collecting", !.version = @ + 1]
  <2>1. /\ job[w].pc = "starting"
        /\ SetStatus(q, "EXECUTING", job[w].version + 1)
        /\ history' = [history EXCEPT ![q] = Append(@, e)]
        /\ UNCHANGED <<stored, bundles>>
    BY <1>6 DEF StartCommit, AddHistory
  <2>2. q \in Requests /\ e \in Entry
    BY <2>1, JobFacts DEF Entry
  <2>3. job' = [job EXCEPT ![w] = j]
    BY <1>1, <1>6 DEF StartCommit
  <2>4. j \in Job /\ j.pc = "collecting" /\ j.req = q
    BY <1>1, <2>1, JobFacts DEF Job
  <2>5. requests'[q].status = "EXECUTING" /\ \A r \in Requests \ {q} : requests'[r] = requests[r]
    BY <1>1, <2>1, <2>2 DEF SetStatus, Row
  <2>6. /\ e.action = "EXECUTION_STARTED" /\ e.to = "EXECUTING"
        /\ e.action \in Starts /\ Runs(j) /\ ~ Runs(job[w])
    BY <2>1, <2>4 DEF Runs, Starts
  <2> HIDE DEF j, e
  <2>7. Commits(w, j, q, e)
    BY <2>1, <2>4, <2>5, <2>6 DEF Commits
  <2> QED
    BY <2>2, <2>3, <2>4, <2>7
\* a handler that updates its row and ends
<1>7. ASSUME NEW q \in Requests, NEW e \in Entry,
             history' = [history EXCEPT ![q] = Append(@, e)], Finish(w), stored' = stored,
             requests'[q].status = e.to, \A r \in Requests \ {q} : requests'[r] = requests[r],
             \/ /\ e.action \notin Starts \cup Ends /\ e.to \notin {"EXECUTING", "SUCCEEDED"}
                /\ ~ Runs(job[w]) /\ bundles' = bundles
             \/ /\ e.action = "EXECUTION_FAILED" /\ e.to = "FAILED"
                /\ Runs(job[w]) /\ job[w].req = q
                /\ \/ bundles' = bundles
                   \/ /\ job[w].pc = "recording" /\ bundles[q] = NoBundle
                      /\ bundles' = [bundles EXCEPT ![q] = [dir |-> job[w].dir, verdict |-> "UNVERIFIED"]]
             \/ /\ e.action = "EXECUTION_COMPLETED" /\ e.to = "SUCCEEDED"
                /\ Runs(job[w]) /\ job[w].req = q
                /\ job[w].pc = "recording" /\ bundles[q] = NoBundle
                /\ \E verdict \in {"PASS", "FAIL"} :
                     bundles' = [bundles EXCEPT ![q] = [dir |-> job[w].dir, verdict |-> verdict]]
      PROVE  Shape
  <2>1. Commits(w, Idle, q, e)
    BY <1>2, <1>7 DEF Commits
  <2>2. job' = [job EXCEPT ![w] = Idle]
    BY <1>7 DEF Finish
  <2> QED
    BY <1>2, <2>1, <2>2
<1> HIDE DEF Shape
<1>8. ASSUME NEW r \in Requests, InsertRequest(w, r) PROVE Shape
  <2> DEFINE e == [action |-> "CREATED", from |-> "ABSENT", to |-> "DRAFT", actor |-> job[w].user]
  <2>1. /\ job[w].pc = "creating" /\ history' = [history EXCEPT ![r] = Append(@, e)]
        /\ Finish(w) /\ stored' = stored /\ bundles' = bundles
        /\ requests'[r].status = "DRAFT" /\ \A x \in Requests \ {r} : requests'[x] = requests[x]
    BY <1>1, <1>8 DEF InsertRequest, AddHistory
  <2>2. e \in Entry
    BY <2>1 DEF IInv, JobsLoaded, Entry
  <2>3. e.action \notin Starts \cup Ends /\ e.to = "DRAFT" /\ ~ Runs(job[w])
    BY <2>1 DEF Runs, Starts, Ends
  <2> HIDE DEF e
  <2> QED
    BY <1>7, <2>1, <2>2, <2>3
<1>9. ASSUME SubmitCommit(w) PROVE Shape
  <2> DEFINE q == job[w].req
             e == [action |-> "SUBMITTED", from |-> "DRAFT", to |-> "SUBMITTED", actor |-> job[w].user]
  <2>1. /\ job[w].pc = "submitting" /\ history' = [history EXCEPT ![q] = Append(@, e)]
        /\ SetStatus(q, "SUBMITTED", job[w].version + 1)
        /\ Finish(w) /\ stored' = stored /\ bundles' = bundles
    BY <1>9 DEF SubmitCommit, AddHistory
  <2>2. q \in Requests /\ e \in Entry
    BY <2>1, JobFacts DEF Entry
  <2>3. requests'[q].status = "SUBMITTED" /\ \A x \in Requests \ {q} : requests'[x] = requests[x]
    BY <1>1, <2>1, <2>2 DEF SetStatus, Row
  <2>4. e.action \notin Starts \cup Ends /\ e.to = "SUBMITTED" /\ ~ Runs(job[w])
    BY <2>1 DEF Runs, Starts, Ends
  <2> HIDE DEF e, q
  <2> QED
    BY <1>7, <2>1, <2>2, <2>3, <2>4
<1>10. ASSUME NEW d \in {"APPROVED", "REJECTED"}, ReviewCommit(w, d) PROVE Shape
  <2> DEFINE q == job[w].req
             e == [action |-> "REVIEWED", from |-> "SUBMITTED", to |-> d, actor |-> job[w].user]
  <2>1. /\ job[w].pc = "reviewing" /\ history' = [history EXCEPT ![q] = Append(@, e)]
        /\ Finish(w) /\ stored' = stored /\ bundles' = bundles
    BY <1>10 DEF ReviewCommit, AddHistory
  <2>2. q \in Requests /\ e \in Entry
    BY <2>1, JobFacts DEF Entry
  <2>3. requests'[q].status = d /\ \A x \in Requests \ {q} : requests'[x] = requests[x]
    BY <1>1, <1>10, <2>2 DEF ReviewCommit, Row
  <2>4. e.action \notin Starts \cup Ends /\ e.to = d /\ ~ Runs(job[w])
    BY <2>1 DEF Runs, Starts, Ends
  <2> HIDE DEF e, q
  <2> QED
    BY <1>7, <2>1, <2>2, <2>3, <2>4
<1>11. ASSUME job[w].pc \in {"collecting", "recording"}, FailCommit(w),
              \/ bundles' = bundles
              \/ /\ job[w].pc = "recording" /\ bundles[job[w].req] = NoBundle
                 /\ bundles' = [bundles EXCEPT ![job[w].req] =
                                  [dir |-> job[w].dir, verdict |-> "UNVERIFIED"]]
       PROVE  Shape
  <2> DEFINE q == job[w].req
             e == [action |-> "EXECUTION_FAILED", from |-> "EXECUTING", to |-> "FAILED",
                   actor |-> job[w].user]
  <2>1. /\ history' = [history EXCEPT ![q] = Append(@, e)]
        /\ SetStatus(q, "FAILED", job[w].version + 1)
        /\ Finish(w) /\ stored' = stored
    BY <1>11 DEF FailCommit, AddHistory
  <2>2. q \in Requests /\ e \in Entry
    BY <1>11, JobFacts DEF Entry
  <2>3. requests'[q].status = "FAILED" /\ \A x \in Requests \ {q} : requests'[x] = requests[x]
    BY <1>1, <2>1, <2>2 DEF SetStatus, Row
  <2>4. e.action = "EXECUTION_FAILED" /\ e.to = "FAILED" /\ Runs(job[w]) /\ job[w].req = q
    BY <1>11 DEF Runs
  <2>5. \/ bundles' = bundles
        \/ /\ job[w].pc = "recording" /\ bundles[q] = NoBundle
           /\ bundles' = [bundles EXCEPT ![q] = [dir |-> job[w].dir, verdict |-> "UNVERIFIED"]]
    BY <1>11
  <2> HIDE DEF e, q
  <2> QED
    BY <1>7, <2>1, <2>2, <2>3, <2>4, <2>5
<1>12. ASSUME NEW v \in {"PASS", "FAIL"}, RecordBundle(w, v) PROVE Shape
  <2> DEFINE q == job[w].req
             e == [action |-> "EXECUTION_COMPLETED", from |-> "EXECUTING", to |-> "SUCCEEDED",
                   actor |-> job[w].user]
  <2>1. /\ history' = [history EXCEPT ![q] = Append(@, e)]
        /\ SetStatus(q, "SUCCEEDED", job[w].version + 1)
        /\ Finish(w) /\ stored' = stored
        /\ job[w].pc = "recording" /\ bundles[q] = NoBundle
        /\ bundles' = [bundles EXCEPT ![q] = [dir |-> job[w].dir, verdict |-> v]]
    BY <1>12 DEF RecordBundle, AddHistory
  <2>2. q \in Requests /\ e \in Entry
    BY <2>1, JobFacts DEF Entry
  <2>3. requests'[q].status = "SUCCEEDED" /\ \A x \in Requests \ {q} : requests'[x] = requests[x]
    BY <1>1, <2>1, <2>2 DEF SetStatus, Row
  <2>4. /\ e.action = "EXECUTION_COMPLETED" /\ e.to = "SUCCEEDED"
        /\ Runs(job[w]) /\ job[w].req = q
    BY <2>1 DEF Runs
  <2> HIDE DEF e, q
  <2> QED
    BY <1>7, <2>1, <2>2, <2>3, <2>4
<1>13. ASSUME VerifyRaises(w) \/ CollectFails(w) PROVE Shape
  BY <1>11, <1>13 DEF VerifyRaises, CollectFails
<1>14. Shape
  BY <1>3, <1>4, <1>5, <1>6, <1>8, <1>9, <1>10, <1>12, <1>13 DEF Proceed
<1> QED
  BY <1>14 DEF Shape

\* The entries of a history with a counted action.
Places(h, A) == {k \in 1..Len(h) : h[k].action \in A}

\* An appended entry counts once where its action is counted.
LEMMA CountAppends ==
  ASSUME NEW h \in Seq(Entry), NEW e \in Entry, NEW A
  PROVE  /\ Cardinality(Places(h, A)) \in Nat
         /\ Cardinality(Places(Append(h, e), A)) =
              Cardinality(Places(h, A)) + IF e.action \in A THEN 1 ELSE 0
<1> DEFINE h1 == Append(h, e)
           n == Len(h) + 1
<1>1. Len(h) \in Nat
  BY LenProperties
<1>2. IsFiniteSet(Places(h, A)) /\ Cardinality(Places(h, A)) \in Nat
  <2>1. IsFiniteSet(1..Len(h))
    BY <1>1, FS_Interval
  <2>2. Places(h, A) \in SUBSET (1..Len(h))
    BY DEF Places
  <2>3. IsFiniteSet(Places(h, A))
    BY <2>1, <2>2, FS_Subset
  <2> QED
    BY <2>3, FS_CardinalityType
<1>3. Len(h1) = n /\ h1[n] = e /\ \A k \in 1..Len(h) : h1[k] = h[k]
  BY <1>1, AppendProperties
<1>4. \A k \in 1..n : k \in 1..Len(h) \/ k = n
  BY <1>1
<1>5. n \in 1..n /\ n \notin 1..Len(h) /\ 1..Len(h) \subseteq 1..n
  BY <1>1
<1> HIDE DEF h1, n
<1>6. n \notin Places(h, A)
  BY <1>5 DEF Places
<1>7. CASE e.action \in A
  <2>1. Places(h1, A) = Places(h, A) \cup {n}
    BY <1>3, <1>4, <1>5, <1>7 DEF Places
  <2>2. Cardinality(Places(h, A) \cup {n}) = Cardinality(Places(h, A)) + 1
    BY <1>2, <1>6, FS_AddElement
  <2> QED
    BY <1>2, <1>7, <2>1, <2>2 DEF h1
<1>8. CASE e.action \notin A
  <2>1. Places(h1, A) = Places(h, A)
    BY <1>3, <1>4, <1>5, <1>8 DEF Places
  <2> QED
    BY <1>2, <1>8, <2>1 DEF h1
<1> QED
  BY <1>7, <1>8

\* A commit of entry e to q, as the counts of r see it.
LEMMA CountMoves ==
  ASSUME TypeOK, NEW q \in Requests, NEW e \in Entry, NEW r \in Requests,
         history'[r] = IF r = q THEN Append(history[r], e) ELSE history[r], NEW A
  PROVE  /\ Cardinality(Places(history[r], A)) \in Nat
         /\ Cardinality(Places(history'[r], A)) =
              Cardinality(Places(history[r], A)) + IF r = q /\ e.action \in A THEN 1 ELSE 0
<1>1. history[r] \in Seq(Entry)
  BY DEF TypeOK
<1>2. /\ Cardinality(Places(history[r], A)) \in Nat
      /\ Cardinality(Places(Append(history[r], e), A)) =
           Cardinality(Places(history[r], A)) + IF e.action \in A THEN 1 ELSE 0
  BY <1>1, CountAppends
<1> QED
  BY <1>2

\* The threads running r when thread w turns from job[w] to j.
LEMMA RunningMoves ==
  ASSUME TypeOK, NEW w \in Workers, NEW j, job' = [job EXCEPT ![w] = j],
         NEW r, IsFiniteSet(Running(r))
  PROVE  LET before == Runs(job[w]) /\ job[w].req = r
             after == Runs(j) /\ j.req = r
         IN  /\ w \in Running(r) <=> before
             /\ Running(r)' = (Running(r) \ {w}) \cup (IF after THEN {w} ELSE {})
             /\ IsFiniteSet(Running(r)')
             /\ Cardinality(Running(r)) \in Nat
             /\ Cardinality(Running(r)') =
                  Cardinality(Running(r)) - (IF before THEN 1 ELSE 0) + (IF after THEN 1 ELSE 0)
<1> DEFINE before == Runs(job[w]) /\ job[w].req = r
           after == Runs(j) /\ j.req = r
           rest == Running(r) \ {w}
<1>1. w \in Running(r) <=> before
  BY DEF Running, Runs
<1>2. job'[w] = j /\ \A v \in Workers \ {w} : job'[v] = job[v]
  BY DEF TypeOK
<1>3. Running(r)' = rest \cup (IF after THEN {w} ELSE {})
  BY <1>2 DEF Running, Runs
<1>4. Cardinality(Running(r)) \in Nat
  BY FS_CardinalityType
<1>5. /\ IsFiniteSet(rest)
      /\ Cardinality(rest) = Cardinality(Running(r)) - (IF before THEN 1 ELSE 0)
  <2>1. /\ IsFiniteSet(rest)
        /\ Cardinality(rest) = IF w \in Running(r) THEN Cardinality(Running(r)) - 1
                               ELSE Cardinality(Running(r))
    BY FS_RemoveElement
  <2> HIDE DEF rest, before
  <2> QED
    BY <1>1, <1>4, <2>1
<1>6. /\ IsFiniteSet(rest \cup {w})
      /\ Cardinality(rest \cup {w}) = Cardinality(rest) + 1
  <2>1. w \notin rest
    OBVIOUS
  <2> HIDE DEF rest
  <2> QED
    BY <1>5, <2>1, FS_AddElement
<1> HIDE DEF rest, before, after
<1>7. Cardinality(rest) \in Nat
  BY <1>5, FS_CardinalityType
<1>8. /\ IsFiniteSet(Running(r)')
      /\ Cardinality(Running(r)') =
           Cardinality(Running(r)) - (IF before THEN 1 ELSE 0) + (IF after THEN 1 ELSE 0)
  <2>1. CASE after
    BY <1>3, <1>4, <1>5, <1>6, <1>7, <2>1
  <2>2. CASE ~ after
    <3>1. Running(r)' = rest
      BY <1>3, <2>2
    <3> QED
      BY <1>4, <1>5, <1>7, <2>2, <3>1
  <2> QED
    BY <2>1, <2>2
<1> QED
  BY <1>1, <1>3, <1>4, <1>8 DEF before, after, rest

\* OneEndPerStart with the finiteness it needs: of any number of threads only
\* finitely many run a request.
Counted ==
  \A r \in Requests :
    /\ IsFiniteSet(Running(r))
    /\ Count(r, Ends) + Cardinality(Running(r)) =< Count(r, Starts)

\* A bundle row names a directory in the store because a handler that records
\* one holds the directory it stored.
DirsStored ==
  \A w \in Workers : job[w].pc = "recording" => job[w].dir \in 1..stored[job[w].req]

EvidenceInv == Counted /\ DirsStored /\ EvidenceMatchesCompletion

\* At first nothing was started, stored or recorded.
LEMMA InitEvidence == Init => EvidenceInv
<1> SUFFICES ASSUME Init PROVE EvidenceInv
  OBVIOUS
<1>1. ASSUME NEW r \in Requests, NEW A PROVE Count(r, A) = 0 /\ Running(r) = {}
  <2>1. Len(history[r]) = 0
    BY DEF Init
  <2>2. {k \in 1..Len(history[r]) : history[r][k].action \in A} = {}
    BY <2>1
  <2> QED
    BY <2>2, FS_EmptySet DEF Count, Running, Init, Idle
<1>2. Counted
  BY <1>1, FS_EmptySet DEF Counted
<1>3. DirsStored
  BY DEF Init, DirsStored, Idle
<1>4. EvidenceMatchesCompletion
  BY <1>1 DEF EvidenceMatchesCompletion, Init, NoRow, NoBundle
<1> QED
  BY <1>2, <1>3, <1>4 DEF EvidenceInv

\* Nothing counts twice or is lost when a thread takes a step.
LEMMA CountedStep ==
  ASSUME IInv, Counted, NEW w \in Workers, NEW j \in Job, job' = [job EXCEPT ![w] = j],
         Quiet(w, j) \/ \E q \in Requests, e \in Entry : Commits(w, j, q, e)
  PROVE  Counted'
<1> SUFFICES ASSUME NEW r \in Requests
             PROVE  /\ IsFiniteSet(Running(r)')
                    /\ Count(r, Ends)' + Cardinality(Running(r)') =< Count(r, Starts)'
  BY DEF Counted, Starts, Ends
<1> DEFINE n == Cardinality(Running(r))
           before == Runs(job[w]) /\ job[w].req = r
           after == Runs(j) /\ j.req = r
<1>1. TypeOK /\ IsFiniteSet(Running(r)) /\ Count(r, Ends) + n =< Count(r, Starts)
  BY DEF IInv, Counted
<1>2. /\ IsFiniteSet(Running(r)') /\ n \in Nat
      /\ Cardinality(Running(r)') = n - (IF before THEN 1 ELSE 0) + (IF after THEN 1 ELSE 0)
  BY <1>1, RunningMoves
<1>3. CASE Quiet(w, j)
  <2>1. /\ Count(r, Ends)' = Count(r, Ends) /\ Count(r, Starts)' = Count(r, Starts)
        /\ after => before
    BY <1>3 DEF Quiet, Count, Ends, Starts
  <2>2. Count(r, Ends) \in Nat /\ Count(r, Starts) \in Nat
    <3>1. \A A : Cardinality(Places(history[r], A)) \in Nat
      <4>1. Len(history[r]) \in Nat
        BY <1>1, LenProperties DEF TypeOK
      <4>2. IsFiniteSet(1..Len(history[r]))
        BY <4>1, FS_Interval
      <4>3. \A A : Places(history[r], A) \in SUBSET (1..Len(history[r]))
        BY DEF Places
      <4> QED
        BY <4>2, <4>3, FS_Subset, FS_CardinalityType
    <3> QED
      BY <3>1 DEF Count, Places
  <2> HIDE DEF n, before, after
  <2> QED
    BY <1>1, <1>2, <2>1, <2>2
<1>4. ASSUME NEW q \in Requests, NEW e \in Entry, Commits(w, j, q, e)
      PROVE  Count(r, Ends)' + Cardinality(Running(r)') =< Count(r, Starts)'
  <2>1. history'[r] = IF r = q THEN Append(history[r], e) ELSE history[r]
    BY <1>1, <1>4 DEF Commits, TypeOK
  <2>2. /\ Count(r, Ends) \in Nat /\ Count(r, Starts) \in Nat
        /\ Count(r, Ends)' = Count(r, Ends) + IF r = q /\ e.action \in Ends THEN 1 ELSE 0
        /\ Count(r, Starts)' = Count(r, Starts) + IF r = q /\ e.action \in Starts THEN 1 ELSE 0
    <3>1. /\ Count(r, Ends) = Cardinality(Places(history[r], Ends))
          /\ Count(r, Starts) = Cardinality(Places(history[r], Starts))
          /\ Count(r, Ends)' = Cardinality(Places(history'[r], Ends))
          /\ Count(r, Starts)' = Cardinality(Places(history'[r], Starts))
      BY DEF Count, Places, Ends, Starts
    <3>2. \A A : /\ Cardinality(Places(history[r], A)) \in Nat
                 /\ Cardinality(Places(history'[r], A)) =
                      Cardinality(Places(history[r], A)) + IF r = q /\ e.action \in A THEN 1 ELSE 0
      BY <1>1, <2>1, CountMoves
    <3>3. /\ Cardinality(Places(history[r], Ends)) \in Nat
          /\ Cardinality(Places(history'[r], Ends)) =
               Cardinality(Places(history[r], Ends)) + IF r = q /\ e.action \in Ends THEN 1 ELSE 0
      BY <3>2
    <3>4. /\ Cardinality(Places(history[r], Starts)) \in Nat
          /\ Cardinality(Places(history'[r], Starts)) =
               Cardinality(Places(history[r], Starts)) + IF r = q /\ e.action \in Starts THEN 1 ELSE 0
      BY <3>2
    <3> QED
      BY <3>1, <3>3, <3>4
  <2>3. \/ e.action \notin Starts \cup Ends /\ ~ after /\ ~ before
        \/ /\ e.action \in Starts \ Ends /\ ~ before /\ (after <=> r = q)
        \/ /\ e.action \in Ends \ Starts /\ ~ after /\ (before <=> r = q)
    BY <1>4 DEF Commits, Starts, Ends
  <2> HIDE DEF n, before, after
  <2> QED
    BY <1>1, <1>2, <2>2, <2>3
<1> QED
  BY <1>2, <1>3, <1>4

\* Directories stay, and a handler that records one has just stored it.
LEMMA DirsStep ==
  ASSUME IInv, TypeOK', DirsStored, NEW w \in Workers, NEW j \in Job, job' = [job EXCEPT ![w] = j],
         Quiet(w, j) \/ \E q \in Requests, e \in Entry : Commits(w, j, q, e)
  PROVE  DirsStored'
<1> SUFFICES ASSUME NEW v \in Workers, job'[v].pc = "recording"
             PROVE  job'[v].dir \in 1..stored'[job'[v].req]
  BY DEF DirsStored
<1>1. job'[w] = j /\ \A x \in Workers \ {w} : job'[x] = job[x]
  BY DEF IInv, TypeOK
<1>2. CASE v = w
  BY <1>1, <1>2 DEF Quiet, Commits
<1>3. CASE v # w
  <2>1. job'[v] = job[v] /\ job[v].dir \in 1..stored[job[v].req]
    BY <1>1, <1>3 DEF DirsStored
  <2>2. job[v].req \in Requests
    BY <2>1, JobFacts
  <2>3. stored[job[v].req] \in Nat /\ stored'[job[v].req] \in Int
        /\ stored[job[v].req] <= stored'[job[v].req]
    <3>1. stored[job[v].req] \in Nat /\ stored'[job[v].req] \in Nat
      BY <2>2 DEF IInv, TypeOK
    <3>2. (\A r \in Requests : stored[r] <= stored'[r]) \/ stored' = stored
      BY DEF Quiet, Commits
    <3> QED
      BY <2>2, <3>1, <3>2
  <2> QED
    BY <2>1, <2>3
<1> QED
  BY <1>2, <1>3

\* Completions and verified bundle rows come together.
LEMMA CompletionStep ==
  ASSUME IInv, TypeOK', DirsStored, EvidenceMatchesCompletion,
         NEW w \in Workers, NEW j \in Job, job' = [job EXCEPT ![w] = j],
         Quiet(w, j) \/ \E q \in Requests, e \in Entry : Commits(w, j, q, e)
  PROVE  EvidenceMatchesCompletion'
<1> DEFINE Done == {"EXECUTION_COMPLETED"}
           verified(b) == b.verdict \in {"PASS", "FAIL"}
           n(h) == Cardinality(Places(h, Done))
<1> SUFFICES ASSUME NEW r \in Requests
             PROVE  /\ n(history'[r]) = IF verified(bundles'[r]) THEN 1 ELSE 0
                    /\ requests'[r].status = "SUCCEEDED" => verified(bundles'[r])
                    /\ bundles'[r] # NoBundle => bundles'[r].dir \in 1..stored'[r]
  BY DEF EvidenceMatchesCompletion, Count, Places
<1>1. /\ n(history[r]) = IF verified(bundles[r]) THEN 1 ELSE 0
      /\ requests[r].status = "SUCCEEDED" => verified(bundles[r])
      /\ bundles[r] # NoBundle => bundles[r].dir \in 1..stored[r]
  BY DEF EvidenceMatchesCompletion, Count, Places
<1>2. /\ bundles[r] \in Bundle /\ stored[r] \in Nat /\ stored'[r] \in Nat
      /\ ~ verified(NoBundle)
  BY DEF IInv, TypeOK, NoBundle
<1>3. CASE Quiet(w, j)
  <2>1. history' = history /\ bundles' = bundles /\ requests' = requests /\ stored[r] <= stored'[r]
    BY <1>3 DEF Quiet
  <2>2. bundles[r].dir \in 1..stored[r] => bundles[r].dir \in 1..stored'[r]
    BY <1>2, <2>1
  <2> HIDE DEF verified, n
  <2> QED
    BY <1>1, <2>1, <2>2
<1>4. ASSUME NEW q \in Requests, NEW e \in Entry, Commits(w, j, q, e)
      PROVE  /\ n(history'[r]) = IF verified(bundles'[r]) THEN 1 ELSE 0
             /\ requests'[r].status = "SUCCEEDED" => verified(bundles'[r])
             /\ bundles'[r] # NoBundle => bundles'[r].dir \in 1..stored'[r]
  <2>1. /\ history'[r] = IF r = q THEN Append(history[r], e) ELSE history[r]
        /\ r # q => requests'[r] = requests[r] /\ bundles'[r] = bundles[r]
        /\ r = q => requests'[r].status = e.to
        /\ stored'[r] = stored[r]
    <3>1. r # q => bundles'[r] = bundles[r]
      BY <1>4 DEF Commits, IInv, TypeOK
    <3> QED
      BY <1>4, <3>1 DEF Commits, IInv, TypeOK
  <2>2. n(history'[r]) = n(history[r]) + IF r = q /\ e.action \in Done THEN 1 ELSE 0
    <3> HIDE DEF Done
    <3> QED
      BY <2>1, CountMoves DEF IInv
  <2>3. CASE r # q
    <3>1. n(history'[r]) = n(history[r])
      BY <2>1, <2>3
    <3> HIDE DEF verified, n
    <3> QED
      BY <1>1, <2>1, <2>3, <3>1
  <2>4. CASE r = q /\ bundles' = bundles
    <3>1. e.action \notin Done /\ e.to # "SUCCEEDED"
      BY <1>2, <1>4, <2>4 DEF Commits, Starts, Ends, IInv, TypeOK
    <3>2. n(history'[r]) = n(history[r])
      <4>1. n(history[r]) \in Nat
        BY <1>1
      <4> HIDE DEF n, Done
      <4> QED
        BY <2>2, <3>1, <4>1
    <3> HIDE DEF verified, n
    <3> QED
      BY <1>1, <2>1, <2>4, <3>1, <3>2
  <2>5. CASE r = q /\ bundles' # bundles
    <3>1. PICK verdict \in {"PASS", "FAIL", "UNVERIFIED"} :
            /\ bundles' = [bundles EXCEPT ![q] = [dir |-> job[w].dir, verdict |-> verdict]]
            /\ bundles[q] = NoBundle /\ job[w].pc = "recording" /\ job[w].req = q
            /\ e.action \in Done <=> verdict \in {"PASS", "FAIL"}
            /\ e.to = "SUCCEEDED" => verdict \in {"PASS", "FAIL"}
      BY <1>4, <2>5 DEF Commits
    <3>2. bundles'[r] = [dir |-> job[w].dir, verdict |-> verdict]
      BY <2>5, <3>1 DEF IInv, TypeOK
    <3>3. bundles'[r].dir \in 1..stored'[r]
      BY <2>1, <2>5, <3>1, <3>2 DEF DirsStored
    <3>4. verified(bundles'[r]) <=> verdict \in {"PASS", "FAIL"}
      BY <3>2
    <3>5. n(history[r]) = 0
      BY <1>1, <1>2, <2>5, <3>1
    <3> HIDE DEF verified, n, Done
    <3> QED
      BY <2>1, <2>2, <2>5, <3>1, <3>3, <3>4, <3>5
  <2> QED
    BY <2>3, <2>4, <2>5
<1> QED
  BY <1>3, <1>4

\* The steps of the threads keep what is counted and its evidence.
LEMMA NextEvidence == IInv /\ EvidenceInv /\ [Next]_vars => EvidenceInv'
<1> SUFFICES ASSUME IInv, EvidenceInv, [Next]_vars PROVE EvidenceInv'
  OBVIOUS
<1>1. TypeOK'
  BY NextIInv DEF IInv
<1>2. ASSUME NEW w \in Workers, Receive(w) \/ Proceed(w) \/ VerifyRaises(w) \/ Abort(w)
      PROVE  EvidenceInv'
  <2>1. PICK j \in Job : /\ job' = [job EXCEPT ![w] = j]
                         /\ Quiet(w, j) \/ \E q \in Requests, e \in Entry : Commits(w, j, q, e)
    BY <1>2, StepShape
  <2> QED
    BY <1>1, <2>1, CountedStep, DirsStep, CompletionStep DEF EvidenceInv
<1>3. CASE UNCHANGED <<requests, history, bundles, stored, job>>
  <2>1. \A r, A : Count(r, A)' = Count(r, A)
    BY <1>3 DEF Count
  <2>2. \A r : Running(r)' = Running(r)
    BY <1>3 DEF Running
  <2> QED
    BY <1>3, <2>1, <2>2 DEF EvidenceInv, Counted, DirsStored, EvidenceMatchesCompletion, Starts, Ends
<1> QED
  BY <1>2, <1>3 DEF Next, CaseMoves, vars

LEMMA EvidenceInvariant == Spec => []EvidenceInv
  BY InitIInv, NextIInv, InitEvidence, NextEvidence, PTL DEF Spec

\* Every recorded start of an execution has at most one end, recorded or still
\* on a thread, for any number of executions of a request racing each other.
THEOREM OneEndForEveryStart == Spec => []OneEndPerStart
<1>1. EvidenceInv => OneEndPerStart
  BY DEF EvidenceInv, Counted, OneEndPerStart, Starts, Ends
<1> QED
  BY <1>1, EvidenceInvariant, PTL

\* Of all executions of a request at most one completes, exactly when it leaves
\* a verified bundle row, and a bundle row names a directory of the store.
THEOREM CompletionLeavesEvidence == Spec => []EvidenceMatchesCompletion
<1>1. EvidenceInv => EvidenceMatchesCompletion
  BY DEF EvidenceInv
<1> QED
  BY <1>1, EvidenceInvariant, PTL

\* Without dying threads and refused transactions, only an execution that was
\* overtaken by another one leaves its request in EXECUTING: the bundle is there.
THEOREM AbandonedOnlyWithEvidence == ASSUME Faults = FALSE PROVE Spec => []AbandonedHasEvidence
<1>1. Init => AbandonedHasEvidence
  BY DEF Init, AbandonedHasEvidence, NoRow
<1>2. ASSUME IInv, AbandonedHasEvidence, [Next]_vars PROVE AbandonedHasEvidence'
  <2> SUFFICES ASSUME NEW r \in Requests, requests'[r].status = "EXECUTING", Running(r)' = {}
               PROVE  bundles'[r] # NoBundle
    BY DEF AbandonedHasEvidence
  <2>1. ASSUME NEW w \in Workers, Receive(w) \/ Proceed(w) \/ VerifyRaises(w) \/ Abort(w)
        PROVE  bundles'[r] # NoBundle
    <3>1. PICK j \in Job : /\ job' = [job EXCEPT ![w] = j]
                           /\ Quiet(w, j) \/ \E q \in Requests, e \in Entry : Commits(w, j, q, e)
      BY <1>2, <2>1, StepShape
    <3>2. job'[w] = j /\ \A v \in Workers \ {w} : job'[v] = job[v]
      BY <1>2, <3>1 DEF IInv, TypeOK
    <3>3. \A v \in Workers \ {w} : ~ (Runs(job[v]) /\ job[v].req = r)
      BY <3>2 DEF Running, Runs
    <3>4. ~ (Runs(j) /\ j.req = r)
      BY <3>2 DEF Running, Runs
    <3>5. ~ (Runs(job[w]) /\ job[w].req = r) => Running(r) = {}
      BY <3>3 DEF Running, Runs
    <3>6. CASE Quiet(w, j)
      <4>1. requests[r].status = "EXECUTING" /\ bundles'[r] = bundles[r]
        BY <3>6 DEF Quiet
      <4>2. CASE Running(r) = {}
        BY <1>2, <4>1, <4>2 DEF AbandonedHasEvidence
      <4>3. CASE Runs(job[w]) /\ job[w].req = r
        BY <3>4, <3>6, <4>1, <4>3 DEF Quiet
      <4> QED
        BY <3>5, <4>2, <4>3
    <3>7. ASSUME NEW q \in Requests, NEW e \in Entry, Commits(w, j, q, e)
          PROVE  bundles'[r] # NoBundle
      <4>1. r # q
        BY <3>4, <3>7 DEF Commits
      <4>2. requests'[r] = requests[r] /\ ~ (Runs(job[w]) /\ job[w].req = r)
        <5>1. Runs(job[w]) => job[w].req = q
          BY <3>7 DEF Commits
        <5> QED
          BY <3>7, <4>1, <5>1 DEF Commits
      <4>3. bundles'[r] = bundles[r]
        BY <1>2, <3>7, <4>1 DEF Commits, IInv, TypeOK
      <4> QED
        BY <1>2, <3>5, <4>2, <4>3 DEF AbandonedHasEvidence
    <3> QED
      BY <3>1, <3>6, <3>7
  <2>2. CASE UNCHANGED <<requests, bundles, job>>
    BY <1>2, <2>2 DEF AbandonedHasEvidence, Running
  <2> QED
    BY <1>2, <2>1, <2>2 DEF Next, CaseMoves, vars
<1> QED
  BY <1>1, <1>2, Invariant, PTL DEF Spec

-----------------------------------------------------------------------------
(* How many requests of a case can be live at once.                        *)

\* A handler that has loaded a request, and will write it.
Loaded(j) == j.pc \in {"submitting", "reviewing", "starting", "collecting", "recording"}

\* The requests of c that a handler may yet bring back to a live status.
Carried(c) == {r \in Requests : CaseOf[r] = c /\
                 \E w \in Workers : Loaded(job[w]) /\ job[w].req = r}

\* The threads that found c without a live request and will create one.
Making(c) == {w \in Workers : job[w].pc = "creating" /\ job[w].case = c}

\* NoMoreLiveThanThreads alone is not inductive: a creation under way is a live
\* request to come.  Every request of a case that is live or may become so again
\* has a thread of its own, and none of these is about to create another one.
\* A creation passes its check only when nothing is live, so then the carried
\* requests have the threads that carry them; its INSERT spends its own thread.
Charged == \A c \in Cases : ExistsInjection(LiveOf(c) \cup Carried(c), Workers \ Making(c))

\* Fewer requests, more threads.
LEMMA InjectionShrinks ==
  ASSUME NEW S, NEW T, NEW S1, NEW T1, ExistsInjection(S, T), S1 \subseteq S, T \subseteq T1
  PROVE  ExistsInjection(S1, T1)
<1>1. PICK f \in [S -> T] : \A x, y \in S : f[x] = f[y] => x = y
  BY DEF ExistsInjection, Injection, IsInjective
<1> DEFINE g == [x \in S1 |-> f[x]]
<1>2. g \in [S1 -> T1] /\ \A x, y \in S1 : g[x] = g[y] => x = y
  BY <1>1
<1> HIDE DEF g
<1>3. g \in Injection(S1, T1)
  BY <1>2 DEF Injection, IsInjective
<1> QED
  BY <1>3 DEF ExistsInjection

\* One more request, for which there is one more thread.
LEMMA InjectionGrows ==
  ASSUME NEW S, NEW T, NEW r, NEW w, ExistsInjection(S, T), w \notin T
  PROVE  ExistsInjection(S \cup {r}, T \cup {w})
<1>1. PICK f \in [S -> T] : \A x, y \in S : f[x] = f[y] => x = y
  BY DEF ExistsInjection, Injection, IsInjective
<1> DEFINE g == [x \in S \cup {r} |-> IF x \in S THEN f[x] ELSE w]
<1>2. g \in [S \cup {r} -> T \cup {w}] /\ \A x, y \in S \cup {r} : g[x] = g[y] => x = y
  BY <1>1
<1> HIDE DEF g
<1>3. g \in Injection(S \cup {r}, T \cup {w})
  BY <1>2 DEF Injection, IsInjective
<1> QED
  BY <1>3 DEF ExistsInjection

\* A step of thread w that writes no request but the one it had loaded, and
\* loads none but a live one.
LEMMA ChargedStays ==
  ASSUME TypeOK, Charged, NEW w \in Workers, NEW j, job' = [job EXCEPT ![w] = j],
         j.pc # "creating",
         Loaded(j) => \/ Loaded(job[w]) /\ j.req = job[w].req
                      \/ requests[j.req].status \in Blocking,
         \A r \in Requests : \/ requests'[r] = requests[r]
                             \/ Loaded(job[w]) /\ job[w].req = r
  PROVE  Charged'
<1>1. job'[w] = j /\ \A v \in Workers \ {w} : job'[v] = job[v]
  BY DEF TypeOK
<1> SUFFICES ASSUME NEW c \in Cases
             PROVE  ExistsInjection(LiveOf(c) \cup Carried(c), Workers \ Making(c))'
  BY DEF Charged
<1>2. LiveOf(c)' \subseteq LiveOf(c) \cup Carried(c)
  BY DEF LiveOf, Carried
<1>3. Carried(c)' \subseteq LiveOf(c) \cup Carried(c)
  <2> SUFFICES ASSUME NEW r \in Requests, CaseOf[r] = c,
                      NEW v \in Workers, Loaded(job'[v]), job'[v].req = r
               PROVE  r \in LiveOf(c) \cup Carried(c)
    BY DEF Carried, Loaded
  <2>1. CASE v = w
    BY <1>1, <2>1 DEF LiveOf, Carried
  <2>2. CASE v # w
    BY <1>1, <2>2 DEF Carried
  <2> QED
    BY <2>1, <2>2
<1>4. Making(c)' \subseteq Making(c)
  BY <1>1 DEF Making
<1>5. ExistsInjection(LiveOf(c) \cup Carried(c), Workers \ Making(c))
  BY DEF Charged
<1>6. ExistsInjection(LiveOf(c)' \cup Carried(c)', Workers \ Making(c)')
  BY <1>2, <1>3, <1>4, <1>5, InjectionShrinks
<1> QED
  BY <1>6

\* A creation passes its check: the case has no live request, and each carried
\* one goes to a thread that carries it.
LEMMA ChargedCheck ==
  ASSUME IInv, Charged, NEW w \in Workers, ListRequests(w)
  PROVE  Charged'
<1>1. job[w].pc = "listing" /\ requests' = requests /\ ~ Loaded(job[w])
  BY DEF ListRequests, Loaded
<1>2. CASE Life!BlockedCase(job[w].case)
  <2>1. job' = [job EXCEPT ![w] = Idle] /\ Idle.pc = "idle" /\ ~ Loaded(Idle)
    BY <1>2 DEF ListRequests, Finish, Idle, Loaded
  <2> HIDE DEF Idle
  <2> QED
    BY <1>1, <2>1, ChargedStays DEF IInv
<1>3. CASE ~ Life!BlockedCase(job[w].case)
  <2> DEFINE j == [job[w] EXCEPT !.pc = "creating"]
  <2>1. job'[w] = j /\ \A v \in Workers \ {w} : job'[v] = job[v]
    BY <1>3 DEF ListRequests, IInv, TypeOK
  <2>2. j.pc = "creating" /\ j.case = job[w].case /\ ~ Loaded(j)
    BY DEF Loaded, IInv, TypeOK, Job
  <2> HIDE DEF j
  <2> SUFFICES ASSUME NEW c \in Cases
               PROVE  ExistsInjection(LiveOf(c) \cup Carried(c), Workers \ Making(c))'
    BY DEF Charged
  <2>3. LiveOf(c)' = LiveOf(c)
    BY <1>1 DEF LiveOf
  <2>4. Carried(c)' = Carried(c)
    BY <1>1, <2>1, <2>2 DEF Carried, Loaded
  <2>5. CASE c # job[w].case
    <3>1. Making(c)' = Making(c)
      BY <1>1, <2>1, <2>2, <2>5 DEF Making
    <3> QED
      BY <2>3, <2>4, <3>1 DEF Charged
  <2>6. CASE c = job[w].case
    <3>1. LiveOf(c)' = {}
      BY <1>3, <2>3, <2>6 DEF LiveOf, Life!BlockedCase, Blocking
    <3> DEFINE f == [r \in Carried(c)' |->
                       CHOOSE v \in Workers : Loaded(job'[v]) /\ job'[v].req = r]
    <3>2. ASSUME NEW r \in Carried(c)'
          PROVE  f[r] \in Workers /\ Loaded(job'[f[r]]) /\ job'[f[r]].req = r
      BY <3>2 DEF Carried, Loaded
    <3>3. f \in [Carried(c)' -> Workers \ Making(c)']
      <4> SUFFICES ASSUME NEW r \in Carried(c)' PROVE f[r] \in Workers \ Making(c)'
        OBVIOUS
      <4> HIDE DEF f
      <4> QED
        BY <3>2 DEF Making, Loaded
    <3>4. ASSUME NEW x \in Carried(c)', NEW y \in Carried(c)', f[x] = f[y] PROVE x = y
      <4> HIDE DEF f
      <4> QED
        BY <3>2, <3>4
    <3> HIDE DEF f
    <3>5. f \in Injection(Carried(c)', Workers \ Making(c)')
      BY <3>3, <3>4 DEF Injection, IsInjective
    <3>6. ExistsInjection(Carried(c)', Workers \ Making(c)')
      BY <3>5 DEF ExistsInjection
    <3>7. LiveOf(c)' \cup Carried(c)' = Carried(c)'
      BY <3>1
    <3> QED
      BY <3>6, <3>7
  <2> QED
    BY <2>5, <2>6
<1> QED
  BY <1>2, <1>3

\* The INSERT: the new request gets the thread that was about to create it.
LEMMA ChargedInsert ==
  ASSUME IInv, Charged, NEW w \in Workers, NEW r \in Requests, InsertRequest(w, r)
  PROVE  Charged'
<1>1. /\ job[w].pc = "creating" /\ CaseOf[r] = job[w].case
      /\ job'[w] = Idle /\ \A v \in Workers \ {w} : job'[v] = job[v]
      /\ \A q \in Requests \ {r} : requests'[q] = requests[q]
  BY DEF InsertRequest, Finish, IInv, TypeOK
<1>2. Idle.pc = "idle" /\ ~ Loaded(Idle)
  BY DEF Idle, Loaded
<1> HIDE DEF Idle
<1> SUFFICES ASSUME NEW c \in Cases
             PROVE  ExistsInjection(LiveOf(c) \cup Carried(c), Workers \ Making(c))'
  BY DEF Charged
<1>3. Carried(c)' \subseteq Carried(c)
  BY <1>1, <1>2 DEF Carried, Loaded
<1>4. ExistsInjection(LiveOf(c) \cup Carried(c), Workers \ Making(c))
  BY DEF Charged
<1>5. CASE c # CaseOf[r]
  <2>1. LiveOf(c)' = LiveOf(c) /\ Making(c)' = Making(c)
    BY <1>1, <1>2, <1>5 DEF LiveOf, Making
  <2>2. ExistsInjection(LiveOf(c)' \cup Carried(c)', Workers \ Making(c)')
    BY <1>3, <1>4, <2>1, InjectionShrinks
  <2> QED
    BY <2>2
<1>6. CASE c = CaseOf[r]
  <2>1. LiveOf(c)' \subseteq LiveOf(c) \cup {r}
    BY <1>1 DEF LiveOf
  <2>2. w \notin Workers \ Making(c) /\ (Workers \ Making(c)) \cup {w} \subseteq Workers \ Making(c)'
    BY <1>1, <1>2, <1>6 DEF Making
  <2>3. ExistsInjection(LiveOf(c) \cup Carried(c) \cup {r}, (Workers \ Making(c)) \cup {w})
    BY <1>4, <2>2, InjectionGrows
  <2>4. LiveOf(c)' \cup Carried(c)' \subseteq LiveOf(c) \cup Carried(c) \cup {r}
    BY <1>3, <2>1
  <2>5. ExistsInjection(LiveOf(c)' \cup Carried(c)', Workers \ Making(c)')
    BY <2>2, <2>3, <2>4, InjectionShrinks
  <2> QED
    BY <2>5
<1> QED
  BY <1>5, <1>6

\* A handler that ends, having written at most the request it had loaded.
LEMMA ChargedEnds ==
  ASSUME TypeOK, Charged, NEW w \in Workers, Finish(w),
         \A r \in Requests : \/ requests'[r] = requests[r]
                             \/ Loaded(job[w]) /\ job[w].req = r
  PROVE  Charged'
<1>1. job' = [job EXCEPT ![w] = Idle] /\ Idle.pc = "idle" /\ ~ Loaded(Idle)
  BY DEF Finish, Idle, Loaded
<1> HIDE DEF Idle
<1> QED
  BY <1>1, ChargedStays

\* The reads that begin a handler.
LEMMA ChargedReads ==
  ASSUME IInv, Charged, NEW w \in Workers, Receive(w)
  PROVE  Charged'
<1>1. ASSUME NEW u \in Users, NEW c \in Cases, ReadCase(w, u, c) PROVE Charged'
  <2> DEFINE j == [Idle EXCEPT !.pc = "listing", !.user = u, !.case = c]
  <2>1. job' = [job EXCEPT ![w] = j] /\ requests' = requests
    BY <1>1 DEF ReadCase
  <2>2. j.pc = "listing" /\ ~ Loaded(j)
    BY DEF Idle, Loaded
  <2> HIDE DEF j
  <2> QED
    BY <2>1, <2>2, ChargedStays DEF IInv
<1>2. ASSUME NEW u, NEW r \in Requests, NEW s \in Blocking,
             NEW pc \in {"submitting", "reviewing", "starting"}, Load(w, u, r, s, pc)
      PROVE  Charged'
  <2> DEFINE j == [pc |-> pc, user |-> u, case |-> CaseOf[r], req |-> r,
                   version |-> requests[r].version, dir |-> 0]
  <2>1. job' = [job EXCEPT ![w] = j] /\ requests' = requests /\ requests[r].status = s
    BY <1>2 DEF Load
  <2>2. j.pc # "creating" /\ j.req = r
    OBVIOUS
  <2> HIDE DEF j
  <2> QED
    BY <2>1, <2>2, ChargedStays DEF IInv
<1>3. {"DRAFT", "SUBMITTED", "APPROVED"} \subseteq Blocking
  BY DEF Blocking, Life!Blocking
<1> QED
  BY <1>1, <1>2, <1>3 DEF Receive, ReadForSubmit, ReadForReview, ReadForExecute

\* Every step keeps a thread for every live request.
LEMMA NextCharged == IInv /\ Charged /\ [Next]_vars => Charged'
<1> SUFFICES ASSUME IInv, Charged, [Next]_vars PROVE Charged'
  OBVIOUS
<1>1. CASE UNCHANGED <<requests, job>>
  BY <1>1 DEF Charged, LiveOf, Carried, Making
<1>2. ASSUME NEW w \in Workers, Receive(w) PROVE Charged'
  BY <1>2, ChargedReads
<1>3. ASSUME NEW w \in Workers, Proceed(w) \/ VerifyRaises(w) \/ Abort(w) PROVE Charged'
  <2>1. CASE ListRequests(w)
    BY <2>1, ChargedCheck
  <2>2. CASE \E r \in Requests : InsertRequest(w, r)
    BY <2>2, ChargedInsert
  <2>3. CASE \/ SubmitCommit(w)
             \/ \E d \in {"APPROVED", "REJECTED"} : ReviewCommit(w, d)
             \/ CollectFails(w) \/ VerifyRaises(w)
             \/ \E v \in {"PASS", "FAIL"} : RecordBundle(w, v)
    <3>1. Finish(w) /\ Loaded(job[w])
      BY <2>3 DEF SubmitCommit, ReviewCommit, CollectFails, VerifyRaises, FailCommit,
                  RecordBundle, Loaded
    <3>2. \A r \in Requests \ {job[w].req} : requests'[r] = requests[r]
      BY <2>3 DEF SubmitCommit, ReviewCommit, CollectFails, VerifyRaises, FailCommit,
                  RecordBundle, SetStatus, IInv, TypeOK
    <3> QED
      BY <3>1, <3>2, ChargedEnds DEF IInv
  <2>4. CASE RecordDuplicate(w) \/ Abort(w)
    BY <2>4, ChargedEnds DEF RecordDuplicate, Abort, IInv
  <2>5. CASE StartCommit(w)
    <3> DEFINE j == [job[w] EXCEPT !.pc = "collecting", !.version = @ + 1]
    <3>1. job' = [job EXCEPT ![w] = j] /\ Loaded(job[w])
      BY <2>5 DEF StartCommit, Loaded, IInv, TypeOK
    <3>2. j.pc = "collecting" /\ j.req = job[w].req
      BY DEF IInv, TypeOK, Job
    <3>3. \A r \in Requests \ {job[w].req} : requests'[r] = requests[r]
      BY <2>5 DEF StartCommit, SetStatus, IInv, TypeOK
    <3> HIDE DEF j
    <3> QED
      BY <3>1, <3>2, <3>3, ChargedStays DEF IInv
  <2>6. CASE Collect(w)
    <3> DEFINE j == [job[w] EXCEPT !.pc = "recording", !.dir = stored[job[w].req] + 1]
    <3>1. job' = [job EXCEPT ![w] = j] /\ Loaded(job[w]) /\ requests' = requests
      BY <2>6 DEF Collect, Loaded, IInv, TypeOK
    <3>2. j.pc = "recording" /\ j.req = job[w].req
      BY DEF IInv, TypeOK, Job
    <3> HIDE DEF j
    <3> QED
      BY <3>1, <3>2, ChargedStays DEF IInv
  <2> QED
    BY <1>3, <2>1, <2>2, <2>3, <2>4, <2>5, <2>6 DEF Proceed
<1>4. ASSUME NEW c \in Cases, CaseMoves(c) PROVE Charged'
  BY <1>1, <1>4 DEF CaseMoves
<1> QED
  BY <1>1, <1>2, <1>3, <1>4 DEF Next, vars

\* A case never has more live requests than there are threads, for any finite
\* number of them, however creations, reviews and executions overlap and fail
\* (main.py create_collection_request, whose check and INSERT are apart).
THEOREM LiveBoundedByThreads == ASSUME IsFiniteSet(Workers) PROVE Spec => []NoMoreLiveThanThreads
<1>1. Init => Charged
  <2> SUFFICES ASSUME Init, NEW c \in Cases
               PROVE  ExistsInjection(LiveOf(c) \cup Carried(c), Workers \ Making(c))
    BY DEF Charged
  <2>1. LiveOf(c) \cup Carried(c) = {}
    BY DEF Init, LiveOf, Carried, Loaded, NoRow, Idle, Blocking, Life!Blocking
  <2> DEFINE f == [r \in {} |-> r]
  <2>2. f \in Injection({}, Workers \ Making(c))
    BY DEF Injection, IsInjective
  <2> QED
    BY <2>1, <2>2 DEF ExistsInjection
<1>2. Charged => NoMoreLiveThanThreads
  <2> SUFFICES ASSUME Charged, NEW c \in Cases
               PROVE  Cardinality(LiveOf(c)) <= Cardinality(Workers)
    BY DEF NoMoreLiveThanThreads
  <2>1. ExistsInjection(LiveOf(c), Workers)
    BY InjectionShrinks DEF Charged
  <2>2. PICK f \in Injection(LiveOf(c), Workers) : TRUE
    BY <2>1 DEF ExistsInjection
  <2> QED
    BY <2>2, FS_Injection
<1> QED
  BY <1>1, <1>2, NextCharged, Invariant, PTL DEF Spec

-----------------------------------------------------------------------------
(* Handlers that take turns on a case.                                     *)

\* What a handler read is still so, and it is the only one on its case.
Current(j) ==
  /\ j.pc \in {"submitting", "reviewing", "starting", "collecting", "recording"} =>
       j.case = CaseOf[j.req] /\ j.version = requests[j.req].version
  /\ j.pc = "submitting" => requests[j.req].status = "DRAFT"
  /\ j.pc = "reviewing" => requests[j.req].status = "SUBMITTED"
  /\ j.pc = "starting" => requests[j.req].status = "APPROVED"
  /\ j.pc \in {"collecting", "recording"} => requests[j.req].status = "EXECUTING"
  /\ j.pc = "creating" => ~ Life!BlockedCase(j.case)

JobsCurrent == \A w \in Workers : Current(job[w])

OneHandlerPerCase ==
  \A w, v \in Workers : w # v /\ job[w].case # None => job[w].case # job[v].case

\* The version column counts the history rows, so the version a form carries
\* identifies one state of the request.
VersionCountsHistory == \A r \in Requests : requests[r].version = Len(history[r])

SerialInv == /\ JobsCurrent /\ OneHandlerPerCase
             /\ VersionCountsHistory /\ OutcomeMatchesEvidence

MappedStatus == [r \in Requests |-> requests[r].status]

\* Thread w takes request r from status s to status t and is then left with j;
\* b is what the request has for a bundle afterwards.
Takes(w, r, s, t, j, b) ==
  /\ job[w].case = CaseOf[r]
  /\ job' = [job EXCEPT ![w] = j]
  /\ \/ j.pc = "idle" /\ j.case = None
     \/ j.pc = "collecting" /\ j.case = CaseOf[r]
  /\ j.pc = "collecting" =>
       j.req = r /\ j.version = requests[r].version + 1 /\ t = "EXECUTING"
  /\ requests[r].status = s
  /\ requests' \in [Requests -> Row]
  /\ requests'[r].status = t /\ requests'[r].version = requests[r].version + 1
  /\ \A q \in Requests \ {r} : requests'[q] = requests[q]
  /\ \E e \in Entry : history' = [history EXCEPT ![r] = Append(@, e)]
  /\ bundles' = [bundles EXCEPT ![r] = b]

\* Such a step is a move of the lifecycle.
LEMMA TakesMoves ==
  ASSUME TypeOK, NEW w \in Workers, NEW r \in Requests, NEW s, NEW t \in Statuses,
         NEW j, NEW b, Takes(w, r, s, t, j, b),
         \/ <<s, t>> \in Life!Moves
         \/ s = "ABSENT" /\ t = "DRAFT" /\ ~ Life!BlockedCase(CaseOf[r])
  PROVE  Life!LifecycleNext
<1>1. MappedStatus' = [MappedStatus EXCEPT ![r] = t] /\ MappedStatus[r] = s
  BY DEF Takes, MappedStatus
<1>2. CASE <<s, t>> \in Life!Moves
  <2>1. Life!Move(r)
    BY <1>1, <1>2 DEF Life!Move, MappedStatus
  <2> QED
    BY <2>1 DEF Life!LifecycleNext
<1>3. CASE s = "ABSENT" /\ t = "DRAFT" /\ ~ Life!BlockedCase(CaseOf[r])
  <2>1. Life!Create(r)
    BY <1>1, <1>3 DEF Life!Create, MappedStatus
  <2> QED
    BY <2>1 DEF Life!LifecycleNext
<1> QED
  BY <1>2, <1>3

\* It keeps the invariant of turns if the bundle fits the status.
LEMMA TakesKeeps ==
  ASSUME IInv, JobsLoaded', SerialInv, NEW w \in Workers, NEW r \in Requests,
         NEW s, NEW t, NEW j \in Job, NEW b, Takes(w, r, s, t, j, b),
         (t = "SUCCEEDED") <=> (b.verdict \in {"PASS", "FAIL"}),
         b.verdict = "UNVERIFIED" => t = "FAILED"
  PROVE  SerialInv'
<1>1. /\ job[w].case = CaseOf[r] /\ CaseOf[r] # None /\ CaseOf[r] \in Cases
      /\ job'[w] = j /\ \A v \in Workers \ {w} : job'[v] = job[v] /\ job[v].case # CaseOf[r]
  <2>1. job[w].case = CaseOf[r] /\ CaseOf[r] # None /\ CaseOf[r] \in Cases
    BY CaseOfAssumption, NoneAssumption DEF Takes
  <2>2. job'[w] = j /\ \A v \in Workers \ {w} : job'[v] = job[v]
    BY DEF Takes, IInv, TypeOK
  <2>3. \A v \in Workers \ {w} : job[v].case # CaseOf[r]
    BY <2>1 DEF SerialInv, OneHandlerPerCase
  <2> QED
    BY <2>1, <2>2, <2>3
<1>2. \A q \in Requests \ {r} : requests'[q] = requests[q]
  BY DEF Takes
<1>3. Current(j)'
  <2>1. CASE j.pc = "idle"
    BY <2>1 DEF Current
  <2>2. CASE j.pc = "collecting"
    BY <2>2 DEF Current, Takes
  <2> QED
    BY <2>1, <2>2 DEF Takes
<1>4. ASSUME NEW v \in Workers \ {w} PROVE Current(job[v])'
  <2>1. Current(job[v]) /\ job'[v] = job[v] /\ job[v].case # CaseOf[r]
    BY <1>1 DEF SerialInv, JobsCurrent
  <2>2. job[v].pc \in {"submitting", "reviewing", "starting", "collecting", "recording"} =>
          job[v].req \in Requests /\ requests'[job[v].req] = requests[job[v].req]
    BY <2>1, <1>2 DEF Current, IInv, JobsLoaded
  <2>3. ASSUME job[v].pc = "creating" PROVE ~ Life!BlockedCase(job[v].case)'
    BY <2>1, <2>3, <1>2 DEF Current, Life!BlockedCase
  <2> QED
    BY <2>1, <2>2, <2>3 DEF Current, Life!BlockedCase
<1>5. JobsCurrent'
  <2>1. Current(job[w])'
    BY <1>1, <1>3 DEF Current, Life!BlockedCase
  <2> QED
    BY <2>1, <1>4 DEF JobsCurrent
<1>6. OneHandlerPerCase'
  <2> SUFFICES ASSUME NEW x \in Workers, NEW y \in Workers, x # y, job'[x].case # None
               PROVE  job'[x].case # job'[y].case
    BY DEF OneHandlerPerCase
  <2>1. CASE x = w
    BY <2>1, <1>1 DEF Takes
  <2>2. CASE y = w
    BY <2>2, <1>1 DEF Takes
  <2>3. CASE x # w /\ y # w
    BY <2>3, <1>1 DEF SerialInv, OneHandlerPerCase
  <2> QED
    BY <2>1, <2>2, <2>3
<1>7. VersionCountsHistory'
  <2>1. PICK e \in Entry : history' = [history EXCEPT ![r] = Append(@, e)]
    BY DEF Takes
  <2>2. history[r] \in Seq(Entry) /\ history'[r] = Append(history[r], e)
        /\ \A q \in Requests \ {r} : history'[q] = history[q]
    BY <2>1 DEF IInv, TypeOK
  <2>3. Len(history'[r]) = Len(history[r]) + 1
    BY <2>2, AppendProperties
  <2> QED
    BY <2>2, <2>3, <1>2 DEF Takes, SerialInv, VersionCountsHistory
<1>8. OutcomeMatchesEvidence'
  <2>1. bundles'[r] = b /\ \A q \in Requests \ {r} : bundles'[q] = bundles[q]
    BY DEF Takes, IInv, TypeOK
  <2> QED
    BY <2>1, <1>2 DEF Takes, SerialInv, OutcomeMatchesEvidence
<1> QED
  BY <1>5, <1>6, <1>7, <1>8 DEF SerialInv


\* What a handler past its reads holds, when handlers take turns.
LEMMA TurnFacts ==
  ASSUME IInv, SerialInv, NEW w \in Workers,
         job[w].pc \in {"submitting", "reviewing", "starting", "collecting", "recording"}
  PROVE  /\ job[w] \in Job /\ job[w].req \in Requests /\ requests[job[w].req] \in Row
         /\ job[w].case = CaseOf[job[w].req]
         /\ job[w].version = requests[job[w].req].version
         /\ job[w].version + 1 \in Nat
         /\ Current(job[w])
         /\ bundles[job[w].req] \in Bundle
<1>1. job[w] \in Job /\ job[w].req \in Requests /\ job[w].version + 1 \in Nat
  BY JobFacts
<1>2. Current(job[w])
  BY DEF SerialInv, JobsCurrent
<1> QED
  BY <1>1, <1>2 DEF Current, IInv, TypeOK

\* A handler that updates its row and ends.
LEMMA EndingTakes ==
  ASSUME IInv, SerialInv, NEW w \in Workers, NEW r, r = job[w].req,
         NEW s, NEW t, NEW b, NEW e \in Entry,
         job[w].pc \in {"submitting", "reviewing", "starting", "collecting", "recording"},
         requests[r].status = s, Finish(w),
         NEW row \in Row, row.status = t, row.version = job[w].version + 1,
         requests' = [requests EXCEPT ![r] = row],
         history' = [history EXCEPT ![r] = Append(@, e)],
         bundles' = [bundles EXCEPT ![r] = b]
  PROVE  Idle \in Job /\ Takes(w, r, s, t, Idle, b)
<1>1. Idle \in Job /\ Idle.pc = "idle" /\ Idle.case = None
  BY DEF Idle, Job
<1>2. r \in Requests /\ job[w].case = CaseOf[r] /\ job[w].version = requests[r].version
  BY TurnFacts
<1>3. requests' \in [Requests -> Row]
  BY <1>2 DEF IInv, TypeOK
<1>4. requests'[r].status = t /\ requests'[r].version = requests[r].version + 1
  BY <1>2 DEF IInv, TypeOK
<1>5. \A q \in Requests \ {r} : requests'[q] = requests[q]
  BY DEF IInv, TypeOK
<1>6. job' = [job EXCEPT ![w] = Idle]
  BY DEF Finish
<1>7. \E x \in Entry : history' = [history EXCEPT ![r] = Append(@, x)]
  OBVIOUS
<1> HIDE DEF Idle
<1> QED
  BY <1>1, <1>2, <1>3, <1>4, <1>5, <1>6, <1>7 DEF Takes

\* The row that SetStatus leaves.
LEMMA SetStatusTakes ==
  ASSUME TypeOK, NEW r \in Requests, NEW s \in Statuses, NEW n \in Nat, SetStatus(r, s, n)
  PROVE  \E row \in Row : /\ row.status = s /\ row.version = n
                         /\ requests' = [requests EXCEPT ![r] = row]
<1> DEFINE row == [requests[r] EXCEPT !.status = s, !.version = n]
<1>1. row \in Row /\ row.status = s /\ row.version = n
  BY DEF TypeOK, Row
<1>2. requests' = [requests EXCEPT ![r] = row]
  BY DEF SetStatus, TypeOK
<1> HIDE DEF row
<1> QED
  BY <1>1, <1>2

\* The commits of submit and review, and the two ways an execution ends.
LEMMA SubmitTakes ==
  ASSUME IInv, SerialInv, NEW w \in Workers, SubmitCommit(w)
  PROVE  Idle \in Job /\ Takes(w, job[w].req, "DRAFT", "SUBMITTED", Idle, bundles[job[w].req])
<1> DEFINE r == job[w].req
           e == [action |-> "SUBMITTED", from |-> "DRAFT", to |-> "SUBMITTED",
                 actor |-> job[w].user]
<1>1. /\ job[w].pc = "submitting" /\ SetStatus(r, "SUBMITTED", job[w].version + 1)
      /\ history' = [history EXCEPT ![r] = Append(@, e)]
      /\ Finish(w) /\ UNCHANGED bundles
  BY DEF SubmitCommit, AddHistory
<1>2. r \in Requests /\ job[w].version + 1 \in Nat /\ requests[r].status = "DRAFT"
  BY <1>1, TurnFacts DEF Current
<1>3. e \in Entry
  BY <1>1, JobFacts DEF Entry
<1>4. PICK row \in Row : /\ row.status = "SUBMITTED" /\ row.version = job[w].version + 1
                         /\ requests' = [requests EXCEPT ![r] = row]
  BY <1>1, <1>2, SetStatusTakes DEF IInv
<1>5. bundles' = [bundles EXCEPT ![r] = bundles[r]]
  BY <1>1, <1>2 DEF IInv, TypeOK
<1> HIDE DEF e
<1> QED
  BY <1>1, <1>2, <1>3, <1>4, <1>5, EndingTakes

LEMMA ReviewTakes ==
  ASSUME IInv, SerialInv, NEW w \in Workers, NEW d \in {"APPROVED", "REJECTED"},
         ReviewCommit(w, d)
  PROVE  Idle \in Job /\ Takes(w, job[w].req, "SUBMITTED", d, Idle, bundles[job[w].req])
<1> DEFINE r == job[w].req
           e == [action |-> "REVIEWED", from |-> "SUBMITTED", to |-> d,
                 actor |-> job[w].user]
           row == [requests[r] EXCEPT !.status = d, !.version = job[w].version + 1,
                                      !.reviewer = job[w].user]
<1>1. /\ job[w].pc = "reviewing"
      /\ history' = [history EXCEPT ![r] = Append(@, e)]
      /\ Finish(w) /\ UNCHANGED bundles
  BY DEF ReviewCommit, AddHistory
<1>2. r \in Requests /\ job[w].version + 1 \in Nat /\ requests[r].status = "SUBMITTED"
      /\ requests[r] \in Row
  BY <1>1, TurnFacts DEF Current
<1>3. e \in Entry
  BY <1>1, JobFacts DEF Entry
<1>4. row \in Row /\ row.status = d /\ row.version = job[w].version + 1
  BY <1>1, <1>2, JobFacts DEF Row
<1>5. requests' = [requests EXCEPT ![r] = row]
  BY <1>2 DEF ReviewCommit, IInv, TypeOK
<1>6. bundles' = [bundles EXCEPT ![r] = bundles[r]]
  BY <1>1, <1>2 DEF IInv, TypeOK
<1> HIDE DEF e, row
<1>7. PICK x \in Row : /\ x.status = d /\ x.version = job[w].version + 1
                      /\ requests' = [requests EXCEPT ![r] = x]
  BY <1>4, <1>5
<1>8. job[w].pc \in {"submitting", "reviewing", "starting", "collecting", "recording"}
  BY <1>1
<1>9. PICK y \in Entry : history' = [history EXCEPT ![r] = Append(@, y)]
  BY <1>1, <1>3
<1> QED
  <2>1. CASE d = "APPROVED"
    <3>1. x.status = "APPROVED"
      BY <2>1, <1>7
    <3>2. Idle \in Job /\ Takes(w, r, "SUBMITTED", "APPROVED", Idle, bundles[r])
      BY <1>1, <1>2, <1>6, <1>7, <1>8, <1>9, <3>1, EndingTakes
    <3> QED
      BY <2>1, <3>2
  <2>2. CASE d = "REJECTED"
    <3>1. x.status = "REJECTED"
      BY <2>2, <1>7
    <3>2. Idle \in Job /\ Takes(w, r, "SUBMITTED", "REJECTED", Idle, bundles[r])
      BY <1>1, <1>2, <1>6, <1>7, <1>8, <1>9, <3>1, EndingTakes
    <3> QED
      BY <2>2, <3>2
  <2> QED
    BY <2>1, <2>2

LEMMA RecordTakes ==
  ASSUME IInv, SerialInv, NEW w \in Workers, NEW v \in {"PASS", "FAIL"}, RecordBundle(w, v)
  PROVE  Idle \in Job /\ Takes(w, job[w].req, "EXECUTING", "SUCCEEDED", Idle,
                               [dir |-> job[w].dir, verdict |-> v])
<1> DEFINE r == job[w].req
           e == [action |-> "EXECUTION_COMPLETED", from |-> "EXECUTING", to |-> "SUCCEEDED",
                 actor |-> job[w].user]
           b == [dir |-> job[w].dir, verdict |-> v]
<1>1. /\ job[w].pc = "recording" /\ SetStatus(r, "SUCCEEDED", job[w].version + 1)
      /\ history' = [history EXCEPT ![r] = Append(@, e)]
      /\ Finish(w) /\ bundles' = [bundles EXCEPT ![r] = b]
  BY DEF RecordBundle, AddHistory
<1>2. r \in Requests /\ job[w].version + 1 \in Nat /\ requests[r].status = "EXECUTING"
  BY <1>1, TurnFacts DEF Current
<1>3. e \in Entry
  BY <1>1, JobFacts DEF Entry
<1>4. PICK row \in Row : /\ row.status = "SUCCEEDED" /\ row.version = job[w].version + 1
                         /\ requests' = [requests EXCEPT ![r] = row]
  BY <1>1, <1>2, SetStatusTakes DEF IInv
<1> HIDE DEF e, b
<1>5. Idle \in Job /\ Takes(w, r, "EXECUTING", "SUCCEEDED", Idle, b)
  BY <1>1, <1>2, <1>3, <1>4, EndingTakes
<1> QED
  BY <1>5 DEF b

LEMMA FailTakes ==
  ASSUME IInv, SerialInv, NEW w \in Workers, job[w].pc \in {"collecting", "recording"},
         FailCommit(w), NEW b, bundles' = [bundles EXCEPT ![job[w].req] = b]
  PROVE  Idle \in Job /\ Takes(w, job[w].req, "EXECUTING", "FAILED", Idle, b)
<1> DEFINE r == job[w].req
           e == [action |-> "EXECUTION_FAILED", from |-> "EXECUTING", to |-> "FAILED",
                 actor |-> job[w].user]
<1>1. /\ SetStatus(r, "FAILED", job[w].version + 1)
      /\ history' = [history EXCEPT ![r] = Append(@, e)] /\ Finish(w)
  BY DEF FailCommit, AddHistory
<1>2. r \in Requests /\ job[w].version + 1 \in Nat /\ requests[r].status = "EXECUTING"
  BY TurnFacts DEF Current
<1>3. e \in Entry
  BY JobFacts DEF Entry
<1>4. PICK row \in Row : /\ row.status = "FAILED" /\ row.version = job[w].version + 1
                         /\ requests' = [requests EXCEPT ![r] = row]
  BY <1>1, <1>2, SetStatusTakes DEF IInv
<1> HIDE DEF e
<1> QED
  BY <1>1, <1>2, <1>3, <1>4, EndingTakes

\* The start of an execution, after which the handler goes on.
LEMMA StartTakes ==
  ASSUME IInv, SerialInv, NEW w \in Workers, StartCommit(w)
  PROVE  LET r == job[w].req
             j == [job[w] EXCEPT !.pc = "collecting", !.version = @ + 1]
         IN  j \in Job /\ Takes(w, r, "APPROVED", "EXECUTING", j, bundles[r])
<1> DEFINE r == job[w].req
           j == [job[w] EXCEPT !.pc = "collecting", !.version = @ + 1]
           e == [action |-> "EXECUTION_STARTED", from |-> "APPROVED", to |-> "EXECUTING",
                 actor |-> job[w].user]
<1>1. /\ job[w].pc = "starting" /\ SetStatus(r, "EXECUTING", job[w].version + 1)
      /\ history' = [history EXCEPT ![r] = Append(@, e)]
      /\ UNCHANGED bundles
  BY DEF StartCommit, AddHistory
<1>2. /\ job[w] \in Job /\ r \in Requests /\ job[w].version + 1 \in Nat
      /\ requests[r].status = "APPROVED" /\ job[w].case = CaseOf[r]
      /\ job[w].version = requests[r].version
  BY <1>1, TurnFacts DEF Current
<1>3. e \in Entry
  BY <1>1, JobFacts DEF Entry
<1>4. PICK row \in Row : /\ row.status = "EXECUTING" /\ row.version = job[w].version + 1
                         /\ requests' = [requests EXCEPT ![r] = row]
  BY <1>1, <1>2, SetStatusTakes DEF IInv
<1>5. /\ requests' \in [Requests -> Row]
      /\ requests'[r].status = "EXECUTING" /\ requests'[r].version = requests[r].version + 1
      /\ \A q \in Requests \ {r} : requests'[q] = requests[q]
  BY <1>2, <1>4 DEF IInv, TypeOK
<1>6. /\ j \in Job /\ j.pc = "collecting" /\ j.case = CaseOf[r] /\ j.req = r
      /\ j.version = requests[r].version + 1
  BY <1>2 DEF Job
<1>7. job' = [job EXCEPT ![w] = j]
  BY <1>2 DEF StartCommit, IInv, TypeOK
<1>8. bundles' = [bundles EXCEPT ![r] = bundles[r]]
  BY <1>1, <1>2 DEF IInv, TypeOK
<1> HIDE DEF e, j
<1>9. \E x \in Entry : history' = [history EXCEPT ![r] = Append(@, x)]
  BY <1>1, <1>3
<1>10. Takes(w, r, "APPROVED", "EXECUTING", j, bundles[r])
  BY <1>2, <1>5, <1>6, <1>7, <1>8, <1>9 DEF Takes
<1> QED
  BY <1>6, <1>10 DEF j

\* The INSERT of a request, whose handler saw the case free and still does.
LEMMA InsertTakes ==
  ASSUME IInv, SerialInv, NEW w \in Workers, NEW r \in Requests, InsertRequest(w, r)
  PROVE  /\ Idle \in Job /\ Takes(w, r, "ABSENT", "DRAFT", Idle, bundles[r])
         /\ ~ Life!BlockedCase(CaseOf[r])
<1> DEFINE row == [status |-> "DRAFT", version |-> 1, requester |-> job[w].user,
                   reviewer |-> None]
           e == [action |-> "CREATED", from |-> "ABSENT", to |-> "DRAFT",
                 actor |-> job[w].user]
<1>1. /\ job[w].pc = "creating" /\ requests[r] = NoRow /\ CaseOf[r] = job[w].case
      /\ requests' = [requests EXCEPT ![r] = row]
      /\ history' = [history EXCEPT ![r] = Append(@, e)]
      /\ Finish(w) /\ UNCHANGED bundles
  BY DEF InsertRequest, AddHistory
<1>2. job[w].user \in Analysts
  BY <1>1 DEF IInv, JobsLoaded
<1>3. row \in Row /\ row.status = "DRAFT" /\ row.version = 1 /\ e \in Entry
  BY <1>2 DEF Row, Entry
<1>4. requests[r].status = "ABSENT" /\ requests[r].version = 0
  BY <1>1 DEF NoRow
<1> HIDE DEF row, e
<1>5. /\ requests' \in [Requests -> Row]
      /\ requests'[r].status = "DRAFT" /\ requests'[r].version = requests[r].version + 1
      /\ \A q \in Requests \ {r} : requests'[q] = requests[q]
  BY <1>1, <1>3, <1>4 DEF IInv, TypeOK
<1>6. ~ Life!BlockedCase(CaseOf[r])
  BY <1>1 DEF SerialInv, JobsCurrent, Current
<1>7. Idle \in Job /\ Idle.pc = "idle" /\ Idle.case = None
  BY DEF Idle, Job
<1>8. bundles' = [bundles EXCEPT ![r] = bundles[r]]
  BY <1>1 DEF IInv, TypeOK
<1>9. job' = [job EXCEPT ![w] = Idle]
  BY <1>1 DEF Finish
<1>10. \E x \in Entry : history' = [history EXCEPT ![r] = Append(@, x)]
  BY <1>1, <1>3
<1> HIDE DEF Idle
<1> QED
  BY <1>1, <1>4, <1>5, <1>6, <1>7, <1>8, <1>9, <1>10 DEF Takes

\* A step that writes no table: thread w goes from what it held to j, which is
\* current and on no case of another thread.
LEMMA SerialQuiet ==
  ASSUME IInv, SerialInv, UNCHANGED <<requests, history, bundles>>,
         NEW w \in Workers, NEW j, job' = [job EXCEPT ![w] = j], Current(j),
         j.case # None => \A v \in Workers \ {w} : job[v].case # j.case
  PROVE  SerialInv'
<1>1. job'[w] = j /\ \A v \in Workers \ {w} : job'[v] = job[v]
  BY DEF IInv, TypeOK
<1>2. ASSUME NEW v \in Workers PROVE Current(job[v])'
  <2>1. Current(job'[v])
    BY <1>1 DEF SerialInv, JobsCurrent
  <2> QED
    BY <2>1 DEF Current, Life!BlockedCase
<1>3. JobsCurrent'
  BY <1>2 DEF JobsCurrent
<1>4. OneHandlerPerCase'
  <2> SUFFICES ASSUME NEW x \in Workers, NEW y \in Workers, x # y, job'[x].case # None
               PROVE  job'[x].case # job'[y].case
    BY DEF OneHandlerPerCase
  <2>1. CASE x = w \/ y = w
    BY <2>1, <1>1
  <2>2. CASE x # w /\ y # w
    BY <2>2, <1>1 DEF SerialInv, OneHandlerPerCase
  <2> QED
    BY <2>1, <2>2
<1>5. VersionCountsHistory' /\ OutcomeMatchesEvidence'
  BY DEF SerialInv, VersionCountsHistory, OutcomeMatchesEvidence
<1> QED
  BY <1>3, <1>4, <1>5 DEF SerialInv

\* The reads, which begin a handler on a case that no other thread works on.
LEMMA SerialReads ==
  ASSUME Overlap = FALSE, IInv, SerialInv, NEW w \in Workers, Receive(w)
  PROVE  SerialInv' /\ UNCHANGED requests
<1>1. ASSUME NEW u \in Users, NEW c \in Cases, ReadCase(w, u, c)
      PROVE  SerialInv' /\ UNCHANGED requests
  <2> DEFINE j == [Idle EXCEPT !.pc = "listing", !.user = u, !.case = c]
  <2>1. /\ job' = [job EXCEPT ![w] = j] /\ UNCHANGED <<requests, history, bundles>>
        /\ \A v \in Workers \ {w} : job[v].case # c
    BY <1>1 DEF ReadCase, Free
  <2>2. j.pc = "listing" /\ j.case = c
    BY DEF Idle
  <2> HIDE DEF j
  <2>3. Current(j)
    BY <2>2 DEF Current
  <2> QED
    BY <2>1, <2>2, <2>3, SerialQuiet
<1>2. ASSUME NEW u, NEW r \in Requests, NEW s, NEW pc, Load(w, u, r, s, pc),
             <<s, pc>> \in {<<"DRAFT", "submitting">>, <<"SUBMITTED", "reviewing">>,
                            <<"APPROVED", "starting">>}
      PROVE  SerialInv' /\ UNCHANGED requests
  <2> DEFINE j == [pc |-> pc, user |-> u, case |-> CaseOf[r], req |-> r,
                   version |-> requests[r].version, dir |-> 0]
  <2>1. /\ job' = [job EXCEPT ![w] = j] /\ UNCHANGED <<requests, history, bundles>>
        /\ \A v \in Workers \ {w} : job[v].case # CaseOf[r]
        /\ requests[r].status = s
    BY <1>2 DEF Load, Free
  <2>2. j.pc = pc /\ j.case = CaseOf[r] /\ j.req = r /\ j.version = requests[r].version
    OBVIOUS
  <2> HIDE DEF j
  <2>3. Current(j)
    BY <1>2, <2>1, <2>2 DEF Current
  <2> QED
    BY <2>1, <2>2, <2>3, SerialQuiet
<1>3. ASSUME NEW u \in Users, NEW r \in Requests, ReadForSubmit(w, u, r)
      PROVE  SerialInv' /\ UNCHANGED requests
  <2>1. Load(w, u, r, "DRAFT", "submitting")
    BY <1>3 DEF ReadForSubmit
  <2> QED
    BY <1>2, <2>1
<1>4. ASSUME NEW u \in Users, NEW r \in Requests, ReadForReview(w, u, r)
      PROVE  SerialInv' /\ UNCHANGED requests
  <2>1. Load(w, u, r, "SUBMITTED", "reviewing")
    BY <1>4 DEF ReadForReview
  <2> QED
    BY <1>2, <2>1
<1>5. ASSUME NEW u \in Users, NEW r \in Requests, ReadForExecute(w, u, r)
      PROVE  SerialInv' /\ UNCHANGED requests
  <2>1. Load(w, u, r, "APPROVED", "starting")
    BY <1>5 DEF ReadForExecute
  <2> QED
    BY <1>2, <2>1
<1> QED
  BY <1>1, <1>3, <1>4, <1>5 DEF Receive

\* A handler that ends without a write: an early return, a duplicate, a crash.
LEMMA SerialEnds ==
  ASSUME IInv, SerialInv, NEW w \in Workers, Finish(w),
         UNCHANGED <<requests, history, bundles>>
  PROVE  SerialInv'
<1>1. Current(Idle) /\ Idle.case = None
  BY DEF Current, Idle
<1>2. job' = [job EXCEPT ![w] = Idle]
  BY DEF Finish
<1> HIDE DEF Idle
<1> QED
  BY <1>1, <1>2, SerialQuiet

\* The steps of a handler between its first read and its commit.
LEMMA SerialMiddle ==
  ASSUME IInv, SerialInv, NEW w \in Workers, ListRequests(w) \/ Collect(w)
  PROVE  SerialInv' /\ UNCHANGED requests
<1>0. job[w] \in Job
  BY DEF IInv, TypeOK
<1>1. \A v \in Workers \ {w} : job[w].case # None => job[v].case # job[w].case
  BY DEF SerialInv, OneHandlerPerCase
<1>2. CASE ListRequests(w) /\ Life!BlockedCase(job[w].case)
  BY <1>2, SerialEnds DEF ListRequests
<1>3. CASE ListRequests(w) /\ ~ Life!BlockedCase(job[w].case)
  <2> DEFINE j == [job[w] EXCEPT !.pc = "creating"]
  <2>1. job' = [job EXCEPT ![w] = j] /\ UNCHANGED <<requests, history, bundles>>
    BY <1>3 DEF ListRequests, IInv, TypeOK
  <2>2. j.pc = "creating" /\ j.case = job[w].case
    BY <1>0 DEF Job
  <2> HIDE DEF j
  <2>3. Current(j)
    BY <1>3, <2>2 DEF Current
  <2> QED
    BY <1>1, <2>1, <2>2, <2>3, SerialQuiet
<1>4. CASE Collect(w)
  <2> DEFINE j == [job[w] EXCEPT !.pc = "recording", !.dir = stored[job[w].req] + 1]
  <2>1. /\ job' = [job EXCEPT ![w] = j] /\ UNCHANGED <<requests, history, bundles>>
        /\ job[w].pc = "collecting"
    BY <1>4 DEF Collect, IInv, TypeOK
  <2>2. /\ j.pc = "recording" /\ j.case = job[w].case /\ j.req = job[w].req
        /\ j.version = job[w].version
    BY <1>0 DEF Job
  <2> HIDE DEF j
  <2>3. Current(job[w])
    BY DEF SerialInv, JobsCurrent
  <2>4. Current(j)
    BY <2>1, <2>2, <2>3 DEF Current
  <2> QED
    BY <1>1, <2>1, <2>2, <2>4, SerialQuiet
<1> QED
  BY <1>2, <1>3, <1>4

\* A commit keeps the invariant and is a move of the lifecycle.
LEMMA SerialCommits ==
  ASSUME IInv, IInv', SerialInv, NEW w \in Workers,
         \/ \E r \in Requests : InsertRequest(w, r)
         \/ SubmitCommit(w) \/ StartCommit(w) \/ CollectFails(w) \/ VerifyRaises(w)
         \/ \E d \in {"APPROVED", "REJECTED"} : ReviewCommit(w, d)
         \/ \E v \in {"PASS", "FAIL"} : RecordBundle(w, v)
  PROVE  SerialInv' /\ Life!LifecycleNext
<1> USE DEF IInv
<1>1. ASSUME NEW r \in Requests, bundles[r].verdict \in {"PASS", "FAIL", "UNVERIFIED"}
      PROVE  requests[r].status \in {"SUCCEEDED", "FAILED"}
  BY <1>1 DEF SerialInv, OutcomeMatchesEvidence
<1>2. ASSUME NEW r \in Requests, InsertRequest(w, r) PROVE SerialInv' /\ Life!LifecycleNext
  <2>1. /\ Idle \in Job /\ Takes(w, r, "ABSENT", "DRAFT", Idle, bundles[r])
        /\ ~ Life!BlockedCase(CaseOf[r])
    BY <1>2, InsertTakes
  <2>2. bundles[r].verdict \notin {"PASS", "FAIL", "UNVERIFIED"}
    BY <1>1, <2>1 DEF Takes
  <2> QED
    BY <2>1, <2>2, TakesKeeps, TakesMoves
<1>3. CASE SubmitCommit(w)
  <2>1. /\ Idle \in Job /\ job[w].req \in Requests
        /\ Takes(w, job[w].req, "DRAFT", "SUBMITTED", Idle, bundles[job[w].req])
    BY <1>3, SubmitTakes, JobFacts DEF SubmitCommit
  <2>2. bundles[job[w].req].verdict \notin {"PASS", "FAIL", "UNVERIFIED"}
    BY <1>1, <2>1 DEF Takes
  <2>3. <<"DRAFT", "SUBMITTED">> \in Life!Moves
    BY DEF Life!Moves
  <2> QED
    BY <2>1, <2>2, <2>3, TakesKeeps, TakesMoves
<1>4. ASSUME NEW d \in {"APPROVED", "REJECTED"}, ReviewCommit(w, d)
      PROVE  SerialInv' /\ Life!LifecycleNext
  <2>1. /\ Idle \in Job /\ job[w].req \in Requests
        /\ Takes(w, job[w].req, "SUBMITTED", d, Idle, bundles[job[w].req])
    BY <1>4, ReviewTakes, JobFacts DEF ReviewCommit
  <2>2. bundles[job[w].req].verdict \notin {"PASS", "FAIL", "UNVERIFIED"}
    BY <1>1, <2>1 DEF Takes
  <2>3. <<"SUBMITTED", d>> \in Life!Moves /\ d \in Statuses
    BY DEF Life!Moves
  <2> QED
    BY <2>1, <2>2, <2>3, TakesKeeps, TakesMoves
<1>5. CASE StartCommit(w)
  <2> DEFINE j == [job[w] EXCEPT !.pc = "collecting", !.version = @ + 1]
  <2>1. /\ j \in Job /\ job[w].req \in Requests
        /\ Takes(w, job[w].req, "APPROVED", "EXECUTING", j, bundles[job[w].req])
    BY <1>5, StartTakes, JobFacts DEF StartCommit
  <2> HIDE DEF j
  <2>2. bundles[job[w].req].verdict \notin {"PASS", "FAIL", "UNVERIFIED"}
    BY <1>1, <2>1 DEF Takes
  <2>3. <<"APPROVED", "EXECUTING">> \in Life!Moves
    BY DEF Life!Moves
  <2> QED
    BY <2>1, <2>2, <2>3, TakesKeeps, TakesMoves
<1>6. <<"EXECUTING", "FAILED">> \in Life!Moves /\ <<"EXECUTING", "SUCCEEDED">> \in Life!Moves
  BY DEF Life!Moves
<1>7. CASE CollectFails(w)
  <2>1. /\ job[w].pc = "collecting" /\ job[w].req \in Requests /\ FailCommit(w)
        /\ bundles' = [bundles EXCEPT ![job[w].req] = bundles[job[w].req]]
    BY <1>7, JobFacts DEF CollectFails, TypeOK
  <2>2. Idle \in Job /\ Takes(w, job[w].req, "EXECUTING", "FAILED", Idle, bundles[job[w].req])
    BY <2>1, FailTakes
  <2>3. bundles[job[w].req].verdict \notin {"PASS", "FAIL", "UNVERIFIED"}
    BY <1>1, <2>1, <2>2 DEF Takes
  <2> QED
    BY <1>6, <2>1, <2>2, <2>3, TakesKeeps, TakesMoves
<1>8. CASE VerifyRaises(w)
  <2> DEFINE b == [dir |-> job[w].dir, verdict |-> "UNVERIFIED"]
  <2>1. /\ job[w].pc = "recording" /\ job[w].req \in Requests /\ FailCommit(w)
        /\ bundles' = [bundles EXCEPT ![job[w].req] = b] /\ b.verdict = "UNVERIFIED"
    BY <1>8, JobFacts DEF VerifyRaises
  <2> HIDE DEF b
  <2>2. Idle \in Job /\ Takes(w, job[w].req, "EXECUTING", "FAILED", Idle, b)
    BY <2>1, FailTakes
  <2> QED
    BY <1>6, <2>1, <2>2, TakesKeeps, TakesMoves
<1>9. ASSUME NEW v \in {"PASS", "FAIL"}, RecordBundle(w, v)
      PROVE  SerialInv' /\ Life!LifecycleNext
  <2> DEFINE b == [dir |-> job[w].dir, verdict |-> v]
  <2>1. /\ Idle \in Job /\ job[w].req \in Requests
        /\ Takes(w, job[w].req, "EXECUTING", "SUCCEEDED", Idle, b)
        /\ b.verdict \in {"PASS", "FAIL"}
    BY <1>9, RecordTakes, JobFacts DEF RecordBundle
  <2> HIDE DEF b
  <2> QED
    BY <1>6, <2>1, TakesKeeps, TakesMoves
<1> QED
  BY <1>2, <1>3, <1>4, <1>5, <1>7, <1>8, <1>9

\* Every step keeps the invariant of turns, and is a lifecycle step or a stutter.
LEMMA NextSerial ==
  ASSUME Overlap = FALSE
  PROVE  IInv /\ IInv' /\ SerialInv /\ [Next]_vars =>
           SerialInv' /\ (Life!LifecycleNext \/ UNCHANGED requests)
<1> SUFFICES ASSUME IInv, IInv', SerialInv, [Next]_vars
             PROVE  SerialInv' /\ (Life!LifecycleNext \/ UNCHANGED requests)
  OBVIOUS
<1>1. ASSUME UNCHANGED <<requests, history, bundles, job>> PROVE SerialInv'
  BY <1>1 DEF SerialInv, JobsCurrent, Current, OneHandlerPerCase, VersionCountsHistory,
              OutcomeMatchesEvidence, Life!BlockedCase
<1>2. ASSUME NEW c \in Cases, CaseMoves(c) PROVE SerialInv' /\ UNCHANGED requests
  BY <1>1, <1>2 DEF CaseMoves
<1>3. CASE UNCHANGED vars
  BY <1>1, <1>3 DEF vars
<1>4. ASSUME NEW w \in Workers, Receive(w) PROVE SerialInv' /\ UNCHANGED requests
  BY <1>4, SerialReads
<1>5. ASSUME NEW w \in Workers, Proceed(w)
      PROVE  SerialInv' /\ (Life!LifecycleNext \/ UNCHANGED requests)
  <2>1. CASE ListRequests(w) \/ Collect(w)
    BY <2>1, SerialMiddle
  <2>2. CASE RecordDuplicate(w)
    BY <2>2, SerialEnds DEF RecordDuplicate
  <2> QED
    BY <1>5, <2>1, <2>2, SerialCommits DEF Proceed
<1>6. ASSUME NEW w \in Workers, VerifyRaises(w) PROVE SerialInv' /\ Life!LifecycleNext
  BY <1>6, SerialCommits
<1>7. ASSUME NEW w \in Workers, Abort(w) PROVE SerialInv' /\ UNCHANGED requests
  BY <1>7, SerialEnds DEF Abort
<1> QED
  BY <1>2, <1>3, <1>4, <1>5, <1>6, <1>7 DEF Next

\* The initial state, in which nothing is recorded and nobody works.
LEMMA InitSerial == Init => SerialInv /\ Life!LifecycleInit
<1> SUFFICES ASSUME Init PROVE SerialInv /\ Life!LifecycleInit
  OBVIOUS
<1>1. JobsCurrent
  BY DEF Init, JobsCurrent, Current, Idle
<1>2. OneHandlerPerCase
  BY DEF Init, OneHandlerPerCase, Idle
<1>3. \A r \in Requests : Len(history[r]) = 0 /\ requests[r] = NoRow /\ bundles[r] = NoBundle
  BY DEF Init
<1>4. VersionCountsHistory /\ OutcomeMatchesEvidence
  BY <1>3 DEF VersionCountsHistory, OutcomeMatchesEvidence, NoRow, NoBundle
<1>5. Life!LifecycleInit
  BY <1>3 DEF Life!LifecycleInit, NoRow
<1> QED
  BY <1>1, <1>2, <1>4, <1>5 DEF SerialInv

\* The invariant of turns is an invariant when handlers on a case take turns.
LEMMA SerialInvariant == ASSUME Overlap = FALSE PROVE Spec => []SerialInv
<1>1. Init => SerialInv
  BY InitSerial
<1>2. IInv /\ IInv' /\ SerialInv /\ [Next]_vars => SerialInv'
  BY NextSerial
<1> QED
  BY <1>1, <1>2, Invariant, PTL DEF Spec

\* When handlers on a case take turns, the requests follow the lifecycle that
\* RequestLifecycle states, whatever threads die and transactions fail: decided
\* once, run at most once, never two alive on a case (main.py, cases.py).
THEOREM SerialFollowsLifecycle == ASSUME Overlap = FALSE PROVE Spec => FollowsLifecycle
<1>1. Init => Life!LifecycleInit
  BY InitSerial
<1>2. IInv /\ IInv' /\ SerialInv /\ [Next]_vars =>
        [Life!LifecycleNext]_([r \in Requests |-> requests[r].status])
  BY NextSerial
<1> QED
  BY <1>1, <1>2, Invariant, SerialInvariant, PTL DEF Spec, FollowsLifecycle, Life!LifecycleSpec

\* When handlers on a case take turns, the version column counts the history
\* rows, also across executions that fail half way (cases.execute_request).
THEOREM SerialVersions == ASSUME Overlap = FALSE PROVE Spec => []VersionCountsHistory
<1>1. SerialInv => VersionCountsHistory
  BY DEF SerialInv
<1> QED
  BY <1>1, SerialInvariant, PTL

\* When handlers on a case take turns, a request has a verified bundle exactly
\* when it SUCCEEDED, and an unverified one only when it FAILED.
THEOREM SerialOutcomes == ASSUME Overlap = FALSE PROVE Spec => []OutcomeMatchesEvidence
<1>1. SerialInv => OutcomeMatchesEvidence
  BY DEF SerialInv
<1> QED
  BY <1>1, SerialInvariant, PTL

=============================================================================
