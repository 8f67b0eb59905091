# A verification project for the SecOps workbench

The workbench is a FastAPI application over SQLAlchemy and one SQLite database in
WAL mode. Telemetry is imported and normalised, rules raise alerts, analysts
triage them and open incident cases, and a case may request evidence from a lab
host: a reviewer decides, a collector runs, the evidence is stored and verified.

What is hard here is not any one handler. The endpoints are plain (`def`)
functions, so the server runs them on a thread pool, each with a database session
of its own; a handler reads its row, decides in Python and writes later. One
handler (`triage_alert`) repeats what it read in the WHERE of its UPDATE. All the
others update by primary key. The modules below say what each of these promises
when handlers overlap, fail or die between two steps.

## 1. Inventory

| Component | State | Operations | Interacts with | Hard parts | What makes it correct |
|---|---|---|---|---|---|
| Alert triage (`main.py`) | `alerts`, `alert_history` | `triage_alert` | alerts raised by `detections.evaluate`; read by cases | posts decided on old pages, races, lost transactions | workflow order, unbroken history, reasons present |
| Incident cases (`main.py`, `cases.py`) | `incident_cases`, `case_alerts`, `case_timeline_entries` | `create_case`, `transition_case` | reads alerts and verification verdicts | reads of different moments, UPDATE by id | a case rests on an escalation; a resolution is justified; stages in order |
| Collection requests (`main.py`, `cases.py`) | `collection_requests`, `collection_history`, `evidence_bundles`, `verification_runs` | create, submit, review, execute (two transactions and an except branch) | case status, collector, evidence store | overtaken reads, two executions, crash between the transactions, failed flush, raising verifier | reviewer's gate, one outcome per execution, evidence agrees with status |
| Detections (`detections.py`, `rules/`) | `rule_versions`, `alerts`, `alert_events` | `load_rules`, `evaluate` | events in, alerts out, failed verifications in | window edges, late events, racing evaluations, immutable rule versions | no alert twice, none lost, rule versions never change |
| Telemetry intake (`telemetry.py`) | `assets`, `source_batches`, `events`, per-source errors | `seed_assets`, `import_fixture`, `source_health` | feeds detections | replays, racing imports, per-record errors, out-of-order completion | an event once, counts add up, health tells the truth |
| Collectors, bounded process (`collection.py`) | process, reader threads, buffers | `_run_bounded_process`, `collect` | called by `execute_request` | deadline, output limit and exit race | the process is reaped, no byte over the limit is accepted |
| Evidence store, verification (`collection.py`) | bundle directories | `store_bundle`, `verify_bundle` | called by `execute_request` | crash before the rename, a file that changes while it is read | a visible directory is complete, PASS means equal bytes |
| Authentication (`auth.py`, `security.py`) | `user_sessions`; cookie and pages of a browser | `login`, `logout`, `current_session`, `validate_csrf`, `require_role` | every handler | idle and absolute expiry, `last_seen_at` written from an old read, tabs that share a cookie | an ended session stays ended, use keeps it alive, a form acts for its page |
| Database layer (`db.py`, `models.py`, `alembic/`) | engine, sessions, schema | `get_db`, migrations | all | lock timeout, autocommitted reads | see section 3 |
| Read-only pages, reset and bootstrap commands, logging, templates, fixtures, scripts, CI | none of the workflow's | | | | not modelled |

## 2. Plan

1. `AlertWorkflow`, `AlertTriage`: the one optimistic lock, shown to implement the
   abstract workflow. **Done**, with proofs.
2. `RequestLifecycle`, `CollectionRequests`: the system's core, the longest protocol
   with the most failure points. **Done**, with proofs.
3. `Cases`: composes the abstract alert workflow with the arrival of verdicts.
   **Done**, with proofs.
4. `Detections`: two evaluations race over one event table while events arrive late;
   the window loop compared with a reference definition. **Done**, with proofs.
5. `TelemetryIntake`, `TelemetryImport`: imports and replays race, records fail one by
   one; `source_health` read by read. **Done**, with proofs, the refinement included.
6. `BoundedProcess`: reader threads, limit, deadline and reaping. **Done**, with
   proofs.
7. `EvidenceStore`: partial directory, rename, crash, and the verifier reading a
   directory that changes; `EvidenceCollection` composes it with 6. **Done**, with
   proofs.
8. `Sessions`: expiry, stale `last_seen_at`, tabs, logout during a request. **Done**,
   with proofs.

Every safety invariant, action property and refinement that a passing run checks has
its theorem (section 6). What is left is what the code makes possible beyond them: what
a request abandoned by a crash still guarantees to its case, and when `last_observed_at`
catches up again. No module of the plan uses a RECURSIVE operator; recursion is written
as recursive functions, so that it can be proved about.

## 3. How the code becomes actions

The database is modelled as the handlers use it. SQLAlchemy opens no transaction for
a SELECT that outlives it in pysqlite's default mode, so **a read is a step**. The
first INSERT or UPDATE takes SQLite's single write lock, which is held until COMMIT,
so **everything from the first write to the commit is one step**. Sessions do not
expire objects on commit (`db.py`), so what a handler has read stays what it works
with, in `execute_request` even across its two transactions. An UPDATE sets the
changed columns `WHERE id = ?`; only `triage_alert` adds version and status. A lock
timeout, an exception in a commit or a dead thread rolls the transaction back
(`Abort`). A failed flush leaves the session unusable until a rollback, which no
handler does, so the except branch of `execute_request` raises instead of recording
FAILED (`RecordDuplicate`).

Early returns (401, 403, 404, 409, 422) change nothing and appear as the guards of
the read steps. In the case and request handlers, the version a form carries is the
row's version when the read passes its test, and it is not kept apart from it.

### AlertTriage

`alerts` and `history` are the tables; `post[w]` is a browser tab: the page it shows
(`View`), the post whose checks passed (`CheckPost`), then `TriageCommit` (the UPDATE
finds its row) or `TriageConflict` (rowcount 0). `Evaluate` is the transaction of
`detections.evaluate` that inserts new alerts. `reason` stands for the five required
text fields, of which `disposition_reason` is read again elsewhere.

### CollectionRequests

`requests`, `history` and `bundles` are tables (`bundles` joins a bundle row with its
verification), `stored` counts the directories `store_bundle` renamed into place,
`investigating` is all that this module needs of a case. A thread's `job` goes

    create:   ReadCase -> ListRequests -> InsertRequest
    submit:   ReadForSubmit -> SubmitCommit
    review:   ReadForReview -> ReviewCommit
    execute:  ReadForExecute -> StartCommit -> Collect -> RecordBundle
                                            |          -> VerifyRaises   (row and FAILED)
                                            |          -> RecordDuplicate (nothing)
                                            -> CollectFails

with `Abort` possible between any two. `PARTIAL` is declared in `models.py` and never
written; no action leads to it.

`Overlap` says whether two handlers on one case may be in flight together, `Faults`
whether threads die, transactions are refused or the verifier raises. What holds with
both is what the code guarantees; what needs `Overlap = FALSE` is what it guarantees
to users who take turns, whatever crashes.

### Cases

The alerts are `AlertWorkflow`'s own variables, so the module is checked against
every triage that workflow allows. `CheckEvidence` is the later SELECTs of
`transition_case` (alert, verdicts) between reading the case (`ReadCase`) and
writing it (`MoveCommit`). Texts are the set of columns that are filled in. The test
of `disposition_reason` is `AlertTriage`'s `DispositionExplained` and not repeated.

### TelemetryIntake and TelemetryImport

`observed`, `batches`, `events` and `errors` are the tables, `audit` the rows
`telemetry.import` of the audit table in their order, which is the order of the
commits. An import goes

    (ReadNoAssets -> SeedAssets)   FindNoBatch -> LoadAssets -> StampBatch -> ImportCommit

The INSERT of the batch row takes the write lock, so reading the existing identities
and writing everything is `ImportCommit`. Three things are read before the lock and
may be old by then: that there is no such batch (the UNIQUE columns refuse the
second), the two `Asset` objects, whose `last_observed_at` the identity map keeps
(`job[w].seen`), and the clock, whose value becomes `imported_at` (`StampBatch`). A
line is a record of what the parsers can tell apart; `Checks` is the order in which
they look for flaws, `Identity` what `_stable_identity` hashes. `source_health` is
`AskHealth`, six times `ReadPart`, and `StateShown`. `raced` (the files whose import had
read the assets before another import committed, and committed over it) and
`page.overtaken` are history: they tell where the code promises less.

`TelemetryIntake` is what an import promises: a file is taken in whole or not at all,
at most once, and an event belongs to the first file that supplied it.

### Detections

`Load` is `load_rules` and the SELECT of the events; from the two follow the candidates
of `_candidates`, written as a recursive function over the feed (`ActorWindows`, `Loop`,
`WindowStep`) whose history is the set of places it still remembers: the feed is ordered
by time, so the last k of a history are its k greatest places (`LastOf`). With a
rule version missing, its INSERT takes the lock and the rest is one transaction
(`CheckVersions -> RegisterAndInsert`). Otherwise every SELECT is of its own moment:
`CheckVersions -> ReadVerifications -> LookUpChunk ... -> LookedUp -> InsertAlerts`.
`alerts` is keyed by identity, and `created` counts the CREATED rows of its history.
`Deliver`, `VerificationFails` and `EditRule` happen beside it. `reported` is history.

### BoundedProcess, EvidenceStore, EvidenceCollection

`BoundedProcess` counts bytes: what was written into each pipe, what its reader
collected. `pipe.read(n)` waits for n bytes or for the end of file, and that comes only
when nobody holds the pipe open, a descendant of the child included (`holders`). The
calling thread is `Poll`, `Check`, `Wait`, `Join`, `Judge`; `Join` may return with the
readers still at work, since `join` waits a second only.

`EvidenceStore` is a directory whose entries are in one of eight conditions, the ones
the verifier can tell apart. `store_bundle` is `MakePartial`, `WriteArtifact` for each,
`WriteManifest`, `Rename`; `MakeFails` is a failure before the try, `StoreFails` its except branch, whose `rmtree` may fail
too, `CrashStoring` the process's end. `verify_bundle` is one step per look or read:
`StatManifest`, `LookAtManifest` and `OpenManifest` (the two halves of
`_open_regular_file`), `StatDirectory`, `ResolveDirectory`, `ListDirectory`, `ScanEntry`
for each entry, `CompareListing`, then for each artifact `LookAtArtifact`, `LookAgain` and
`HashArtifact` (the last two are `_open_regular_file` again, with an lstat of its own that
the opened file is compared with), and `FinishVerify`. Between any two `ChangeEntry` or
`ChangeDirectory` may change the disk; a link put in the place of the directory of the
artifacts is refused by `StatDirectory` and followed by the two steps after it. They
never put back what was stored: nothing could tell that from no change. `asStored` is
history.

`EvidenceCollection` extends both and is one pass through `execute_request`: collect (by
fixtures or by the process), store, verify. What it ends with are the outcomes
`CollectionRequests` chooses from: `CollectFails`, `RecordBundle` with a verdict,
`VerifyRaises`.

### Sessions

`row` is the table; a session stands for its two random tokens. `req[t]` is the request
of tab t: `Send`, then `LookUp` (SELECT), `Decide` (the test, at a moment of its own),
`Touch` (commit of `last_seen_at`, then the comparison of `validate_csrf`), `Perform`
(`logout` or another handler), and `Receive`, when the answer arrives and sets or
deletes the cookie all tabs share. `Login` is the commit of `login`. `Fail` is any end
without effect. `uses` and `req[t].late` are history.

### Slips

Each module has a section of *slips*: an action as a plausible bug would write it
(`TriageCommitById` drops the version from the WHERE, `RecordBundleAgain` drops the
UNIQUE constraint, ...). No specification uses them. Put in place of the action they
imitate, each makes TLC violate the property named for it in `PROJECT.json`.

## 4. The runs

| Run | Question | Bounds | Distinct states |
|---|---|---|---|
| `triage` | does the optimistic lock implement the workflow? | 2 alerts, 2 tabs | 8,127 |
| `requests_racing` | what survives overlapping handlers and failures? how many live requests can a case get? | 1 case, 3 requests, 2 threads (`OneOrElevenRows`) | 377,860 |
| `requests_settle` | does an execution end, when threads live? | 1 request, 2 threads | 6,892 |
| `requests_serial` | do requests follow their lifecycle when handlers take turns, with crashes? | 2 cases, 3 requests, 2 threads | 13,968 |
| `requests_failed_rewritten` | can FAILED be rewritten? (yes) | 1 request, 2 threads | counterexample |
| `cases_racing` | does a case stay justified while everything moves? | 2 alerts, 1 case, 2 threads | 356,449 |
| `cases_serial` | is a case's timeline one chain when handlers take turns? | 1 alert, 2 cases, 2 threads | 147,837 |
| `cases_regress` | can a case move backwards? (yes) | as `cases_racing` | counterexample |
| `telemetry` | do imports that race and fail implement the intake? what do assets and the health page tell? | 2 importers, 3 stamped batches, files of 2 sources with flaws, duplicates and replays | 268,690 |
| `detections` | do the windows match the rules? do racing evaluations lose or repeat an alert? | 2 evaluations, 10 events in 2 deliveries, 3 contents of AUTH-001, chunks of 3 | 96,132 |
| `collection` | does a collection end, with whole output, a complete bundle and the right verdict? | 3 bytes per pipe, limits 2 and 1, 2 artifacts, a stray file, 2 changes on disk | 184,695 |
| `sessions` | do sessions end for good and live by use only? | 2 tabs, 2 users, 2 sessions, 4 moments | 1,695,201 |

Why these bounds are enough to be interesting: every hazard found is between two
handlers of one row, so two threads and one row exhibit it; a third party (an
evaluation, a case moving, evidence arriving) is an action of its own and always
possible. A request's history is finite because a status is never left more often
than handlers read it. Several requests of one case matter only to creation:
`requests_serial` has them taking turns and `requests_racing` overlapping. The latter is
the only run with a state constraint (`OneOrElevenRows`), because with overlap two requests
of a case already exceed seven million states. It explores everything two threads can do to
one request, and with more requests the states of up to eleven history rows: three live
requests, one more than there are threads, need three rows, and the others are room for
reviews and executions that race with the creations. Requests and threads are alike there
(symmetry; the run has no liveness property). Beyond these bounds the proofs speak for
every number. Counters are not capped: they are bounded by the workflows. `IdLeft` and
`CaseIds` bound the rows created.

In `telemetry`, two Linux files that share an event (written with different offsets), a
line refused, a line repeated, and a Suricata file fit into three stamps, one of which
may be lost to a rollback or to a second import of the same file. In `detections` the
feed has failures exactly at the edge of the window, two at one instant, a success
between failures and an incomplete record; five candidates is the bound and some states
exceed it. In `collection` a complete output fills stdout to its limit, so one byte more
overflows; `ChunkSize` is less than all the output, so a reader reads more than once.
Two changes on disk let one look be deceived and the next not. In `sessions` the idle
time is two ticks and the absolute one three, so a session can be kept alive once and
then expires.

Deadlock is checked in `triage`, the runs of requests and cases, and `sessions`. In
`telemetry`, `detections` and `collection` it is not: the files, events and bytes are
finite there and the system stops when they are used up.

**Fairness.** `FairSpec` of `CollectionRequests` asks that a handler that was started
is run on (`Proceed`): a thread-pool thread is not preempted for ever, and the
collectors have deadlines of their own. It is used with `Faults = FALSE`, because
after a crash nothing resumes an execution. `FairSpec` of `AlertTriage` asks that a
post past its checks is decided (`Decide`); it may still be lost by `Abort`, and the
property says so. Users are never asked to do anything.
`EvidenceCollection` asks that its thread runs on, that the clock ticks and that a killed
child dies. It asks nothing of the child, of a descendant, or of the reader threads, and
`CollectionEnds` holds all the same.

## 5. What the runs show

*Holds with every interleaving and failure:* triage implements its workflow and keeps
an unbroken chain; a decision loses only to another decision. No execution starts
without a reviewer's approval in the request's history. Every execution start has at
most one end, and at most one execution of a request completes, exactly when it
leaves verified evidence. Status and last history entry agree. Bundle rows are never
rewritten. A case rests on an escalated alert; a resolved case has its texts and PASS
evidence or a waiver. A case can get a second live request when two creations overlap or
a stale review approves a rejected one again, but never more of them than there are
threads, however long this goes on (`NoMoreLiveThanThreads`).

*Holds when handlers on a case take turns, with crashes anywhere:* the lifecycle
(decided once, run once, final), outcome and evidence
agree (a bundle row without verification only under FAILED), and the timeline of a
case is one chain from OPEN to the stage its row shows (`TimelineIsChain`).

*Telemetry:* imports implement `TelemetryIntake` (`ImplementsIntake`), seeded or not,
racing or not. A batch's counters agree with the tables for good (`CountsAddUp`).
`last_observed_at` is always the time of some event of the asset, and of the newest for
every asset none of whose events came with an import in `raced` (`ObservedIsNewest`):
what overlapping imports do to one asset does not spread to another. A health page no
commit came between sums up the counters of the batches, shows a state that the import it
names and the events explain, and names the import that committed last but for those in
`raced` (`PageTellsLastImport`). A page that commits did come between may mix two moments,
but it reads the batches first, so what its batches say was taken in, the counts and
times read after them cover (`PageCoversImports`).

*Detections:* the pruned and cleared histories of the loop find exactly the windows the
rules describe (`WindowsAsDescribed`). An alert can always be explained from the tables,
whatever the rule files say by now (`AlertsExplained`). An evaluation that returns has
all its alerts stored and one that fails stores none (`NothingMissed`); an alert is
never raised again (`AlertsStay`).

*Collection:* what the bounded call returns is all there was and will be, and the child
has ended (`OutputIsWhole`). A directory under its bundle's name is complete and came
from a faultless collection (`EvidenceIsEarned`). PASS means that manifest and artifacts
were as stored when the verification began, and without changes in between the verdict
and its reasons are exactly right (`VerdictIsRight`). Every collection ends
(`CollectionEnds`).

*Sessions:* `EndIsFinal`, `OnlyUseKeepsAlive`, `ActsForItsPage`, although a slow request
writes `last_seen_at` after a logout, after a newer request or after the idle time.

*Does not hold:*

- `FailedStaysFailed`. Two analysts post execute for one APPROVED request; both read
  APPROVED; the first collector fails and FAILED is committed; the second handler's
  start, an UPDATE by id, writes EXECUTING over it. Runbook 02 (line 51) and report 04
  (line 12) call FAILED requests preserved and immutable.
- `CaseForwardOnly`. A handler that read OPEN commits INVESTIGATING after another has
  taken the case further. Runbook 02 (lines 22-23) says cases move through their
  stages in order using supported transitions.

*Seen and not stated as a finding, because nothing in the repository claims otherwise:*
a request abandoned in EXECUTING by a crash (or by a duplicate bundle, with its
evidence in place) blocks its case for good; overlapping creations may give a case
as many live requests as there are threads; a directory may be stored that no row names. `last_observed_at` and
`last_seen_at` may move back when writers overlap; a health page may mix two moments;
two different sudo commands of one user in one second are one event; late events make
further alerts with overlapping members; a reader thread outlives `PIPE_REAP_FAILED`
until the descendant ends; `verify_bundle` may raise when what it looked at vanishes;
the late answer of a logout may delete a newer login's cookie.

## 6. What is proved

TLAPS checks these for every value of the constants (any number of alerts, requests,
cases, threads and users).

`CollectionRequestsProofs`: `TypeCorrect`, `GateHolds` (ReviewerGate), `StatusIsTold`
(HistoryTellsStatus), `EvidenceIsPermanent` (BundlePermanent). ReviewerGate is not
inductive, since the row may say anything by the time an execution starts. `IInv` adds
what the handler carries (`JobsLoaded`) and that an approval once read stays in the
history (`ApprovalRemembered`). The steps fall in two kinds, each with its lemma:
those that leave requests and history alone (`QuietStep`), and commits, which append
one entry and set the status it announces (`CommitStep`).

The same module then assumes `Overlap = FALSE` and proves `SerialFollowsLifecycle`
(every step of `CollectionRequests` is a step of `RequestLifecycle` or a stutter),
`SerialVersions` (VersionCountsHistory: the version column counts the history rows) and `SerialOutcomes`
(OutcomeMatchesEvidence). `SerialInv` says what taking turns buys: what a handler read
is still so (`JobsCurrent`), because no other handler is on its case
(`OneHandlerPerCase`). A commit then `Takes` its request from the very status it read
to the next one; `TakesMoves` turns that into a lifecycle move and `TakesKeeps` into
the invariant. Faults stay allowed throughout: no crash, refused transaction or
raising verifier is assumed away.

`CasesProofs`: `TypeCorrect`, `RestsOnEscalation` (CaseRestsOnEscalation),
`ResolutionHolds` (ResolutionJustified), `StagesHold` (StagesInOrder). None is
inductive, because `create_case` and `transition_case` commit on reads of earlier
moments. `IInv` adds what a handler knows and no other step takes away
(`JobsJustified`): an escalation is in the alert's trail for good, a stage once
reached is in the timeline, PASS evidence stays. With `Overlap = FALSE`,
`ChainWhenSerial` (TimelineIsChain) follows from an invariant like the one above.

`AlertTriageProofs`: `TypeCorrect`, `ChainCorrect` (HistoryIsChain),
`DispositionCorrect` (DispositionExplained, on which `Cases` rests), `TriageImplementsWorkflow`. The invariant
adds that a decision was validated against the status it carries; the WHERE clause
then makes the commit a step from that status.

Three more theorems of `CollectionRequestsProofs` are about counts: `OneEndForEveryStart`
(OneEndPerStart), `CompletionLeavesEvidence` (EvidenceMatchesCompletion) and
`AbandonedOnlyWithEvidence` (AbandonedHasEvidence, with `Faults = FALSE` as in the run
that checks it). `StepShape` reduces all steps of a thread to two kinds: `Quiet` ones and
those that commit one entry (`Commits`), and says for each whether the thread runs an
execution before and after. `Counted` adds that finitely many threads run a request,
which needs no bound on the threads, since a step adds at most one; `DirsStored` adds
that a handler about to record a bundle holds a directory that was stored.

`LiveBoundedByThreads` (NoMoreLiveThanThreads, for finitely many threads) rests on
`Charged`: every request of a case that is live, or that a handler has loaded and may bring
back, has a thread of its own, and none of these threads is about to create another
request. A creation passes its check only when nothing is live, so the requests still
carried can be charged to the threads that carry them (`ChargedCheck`); its INSERT charges
the new request to its own thread (`ChargedInsert`); every other step writes only what it
carried (`ChargedStays`).

`SessionsProofs`: `TypeInvariant`, `EndIsFinalForAll`, `OnlyUseKeepsAliveForAll`,
`ActsForItsPageForAll`. `OnlyUseKeepsAlive` is not inductive, since `last_seen_at` is
written long after it was read. `IInv` adds what a request carries (`CarriesUse`: the
use its SELECT saw is one still, and its own time came less than the idle time after
it), that a request sent too late stays late until its test (`StaysLate`), and that a
form that performs is of the page its tab shows (`OnItsPage`).

`EvidenceStoreProofs` holds the lemmas on the store and the verifier,
`EvidenceCollectionProofs` those on the process and the theorems of the composition:
`TypeInvariant`, `OutputIsWholeForAll`, `VerdictIsRightForAll`, `EvidenceIsEarnedForAll`.
`OutputIsWhole` rests on what a stopped reader means: nobody holds its pipe and it has
all of it, or it has one byte too many (`ProcessInv`). `VerdictIsRight` rests on two
invariants, one for each half. `Betrayed`: a bundle that was not as stored when the
verification began has given a reason or still has the entry that betrays it ahead of
the verifier, because nothing puts back what was stored. `Found`: while the disk is at
rest, reasons and listings so far are those the entries call for.

`DetectionsProofs`: `WindowsFound`, `TypeInvariant`, `WindowsAsDescribedForAll`,
`AlertsExplainedForAll`, `NothingMissedForAll`, `AlertsStayForAll`. `WindowsFound` is
about the algorithm alone: for every feed ordered in time, every part of it that has
arrived and every threshold and window a rule may have, the loop finds exactly the
described windows. Its loop invariant (`LoopHolds`) says what the pruned and cleared
history still is: no more than the failures not used up (`Fresh`), and at least those
some later event may count. The runs can only try the instance's events; this one is for
all. The invariant of the evaluations (`TablesOk`, `JobsOk`) says that a job's candidates
are explained by the rules it loaded, that those are recorded once it has checked the
versions, and that what it found known is among the alerts.

`TelemetryImportProofs`: `TypeInvariant`, `CountsAddUpForAll`, `ObservedIsNewestForAll`,
`PageTellsLastImportForAll`, `PageCoversImportsForAll`, `ImplementsIntakeForAll`. Batches, error rows, audit rows and
events are one another's images (`Stored`), the sums over the imports are the counts of
rows (`Summed`), and a batch whose import nobody overtook is stamped later than all that
committed before it (`StampedInOrder`). An import nobody overtook sees the
assets as they are (`JobsOk`), and a page nobody overtook shows what the tables hold
(`PageOk`). `CommitCommits` says once what the transaction leaves in the tables
(`Committed`); the lemmas on each part of the invariant, and the refinement, start there.
`PageCoversImportsForAll` adds, for a page under way, that what it has read so far covers
the imports it has named (`PageAhead`): whatever commits, batches and events only become
more, and an event stays under a batch of its own source (`OwnSource`).

The loop and the sums are recursive functions. An induction theorem takes an operator
that no prover here can instantiate; instead `NatSetInduction` states induction for a
*set* of numbers and follows from the well-foundedness of `<` on them. With it, what
`Loop` and `SumOver` compute is proved by setting up the set of places up to which the
claim holds.

*Assumptions.* `CaseOf` is a function into the cases, the two roles are disjoint
(`users.role` holds one role), `None` is no id and no number, the flags are Boolean; idle
and absolute time are positive; limits, timeouts and bounds are natural numbers, a chunk
is not empty; the manifest names each artifact once; the lines of a file and the feed are
sequences whose times are integers, and the feed is ordered in time (the query's ORDER BY).
TLC evaluates them on each run.

*What the proofs changed in the model.* `Reasons` of `EvidenceStore` had overlapping CASE
arms, among which TLC takes the first and logic takes any; its arms now exclude one another.
Counts of history rows, the loop's histories and the sums are written with sets of places
in place of filtered sequences. `WindowsAsDescribed` compares sets of windows and no
longer says that the loop reports a window once: two windows that end at different
events differ anyway.

*Only model-checked:* liveness (`ExecutionSettles`, `DecisionOrProgress`,
`CollectionEnds`), which this prover does not reach. Each inductive invariant was also
checked by TLC, with the bounds of its component's run, before it was proved. Two facts that
concern a single commit are only proved: `VersionCountsHistory` and `DispositionExplained`.

## 7. Not modelled

- Formatting, templates, audit rows other than `telemetry.import`, most timeline texts,
  password hashing, the attributes of cookies, log lines: no property is about them.
- Pages that only read (events, alerts, cases, liveness): one SELECT after another, no
  state. `source_health` is modelled because its reads must agree.
- The schema checks of rule files and manifests, key by key: a file is accepted, refused,
  or different from the one recorded.
- `reset_disposable`, `bootstrap.py`, migrations, fixtures and scripts: one-shot commands
  of one process.
- Power failures: the evidence files are not flushed before the rename, and the disk is
  assumed to keep what the process wrote.
- The remote side of a collection (`collectors/`) is the child's behaviour in
  `BoundedProcess`; its own scripts run on another host.
