---------------------------- MODULE Detections ----------------------------
(***************************************************************************)
(* Detection: evaluate of detections.py, run as a command-line process     *)
(* beside other evaluations, imports that deliver events late, evidence    *)
(* verifications that fail and edits of the rule files.                    *)
(*                                                                         *)
(* An evaluation reads the rule files and the events, and then the row of  *)
(* every rule version.  If one is missing it inserts it: that takes the    *)
(* write lock, and the rest up to COMMIT is one transaction.  If none is   *)
(* missing it goes on with autocommitted reads - the failed verifications, *)
(* the identities of existing alerts chunk by chunk - and takes the lock   *)
(* only to insert the alerts it takes for new.  Whatever UNIQUE column     *)
(* refuses a row, an exception undoes the evaluation as a whole.           *)
(***************************************************************************)
EXTENDS Integers, Sequences, FiniteSets

CONSTANTS
  Feed,           \* the events, in the order (timestamp_utc, stable_identity)
  Deliveries,     \* the sets of events, by their place in Feed, that imports deliver
  Verifications,  \* the verification runs that may fail
  Contents,       \* Contents[r]: what the file of rule r may say
  Evaluators,     \* command-line processes
  ChunkSize,      \* ALERT_IDENTITY_LOOKUP_CHUNK_SIZE
  MaxCandidates,  \* ALERT_IDENTITY_LOOKUP_MAX_CANDIDATES
  None

ASSUME FeedAssumption ==
  /\ Feed \in Seq({Feed[n] : n \in DOMAIN Feed})
  /\ \A n \in DOMAIN Feed : Feed[n].time \in Int
  /\ \A n, m \in DOMAIN Feed : n < m => Feed[n].time <= Feed[m].time
ASSUME DeliveriesAssumption == Deliveries \subseteq SUBSET DOMAIN Feed
ASSUME BoundsAssumption == ChunkSize \in Nat \ {0} /\ MaxCandidates \in Nat

VARIABLES
  arrived,       \* table events, by place in Feed
  failed,        \* the verification_runs rows with status FAIL
  files,         \* files[r]: the content of the file of rule r
  ruleVersions,  \* table rule_versions: the content by rule and version
  alerts,        \* table alerts, by stable identity
  reported,      \* the candidates of the evaluations that returned a result
  job            \* job[w]: what the evaluation run by w holds

vars == <<arrived, failed, files, ruleVersions, alerts, reported, job>>

-----------------------------------------------------------------------------
(* Candidates.  An event tells whether it is of the target asset with all  *)
(* the fields the rules require; a rule's content its version, threshold   *)
(* and window.                                                             *)

RuleIds == {"AUTH-001", "AUTH-002", "PRIV-001", "NET-001", "EVID-001"}

\* load_rules: what it accepts.  Threshold and window belong to the window
\* rules only.
ValidContent(r, c) ==
  r \in {"AUTH-001", "AUTH-002"} => c.threshold \in 2..10 /\ c.window \in 30..900

Relevant(what, n) == Feed[n].what = what /\ Feed[n].complete

\* sudo_activity and high_suricata: an event is a candidate of its own
Singles(r, events) ==
  {{n} : n \in {m \in events :
     IF r = "PRIV-001" THEN Relevant("SUDO_COMMAND", m) /\ Feed[m].outcome = "SUCCESS"
     ELSE Relevant("NETWORK_ALERT", m) /\ Feed[m].outcome = "HIGH"}}

\* The lists of the loop are in the order of the events: sets of places say as
\* much.  The last k of a set:
LastOf(k, S) == {m \in S : Cardinality({j \in S : j > m}) < k}

-----------------------------------------------------------------------------
(* Slips: what a plausible bug would turn a definition below into.         *)

\* the failure at the very edge of the window is not counted
RecentStrictly(history, n, window) ==
  {m \in history : Feed[m].time > Feed[n].time - window}

-----------------------------------------------------------------------------

\* The failures of an actor that event n still counts.
Recent(history, n, window) == {m \in history : Feed[m].time >= Feed[n].time - window}

\* One event of one actor in the loop of _candidates: "history" are the
\* recent failures, "found" the candidates so far.
WindowStep(r, c, acc, n) ==
  LET recent == Recent(acc.history, n, c.window)
      grown == recent \cup {n}
  IN  CASE Feed[n].outcome = "FAILURE" ->
             [history |-> grown,
              found |-> acc.found \cup IF r = "AUTH-001" /\ Cardinality(grown) >= c.threshold
                                       THEN {LastOf(c.threshold, grown)} ELSE {}]
        [] Feed[n].outcome = "SUCCESS" /\ r = "AUTH-002" ->
             [history |-> {},
              found |-> acc.found \cup IF Cardinality(recent) >= c.threshold
                                       THEN {LastOf(c.threshold, recent) \cup {n}} ELSE {}]
        [] OTHER -> [history |-> recent, found |-> acc.found]

IsLogin(actor, n) == Relevant("SSH_PASSWORD", n) /\ Feed[n].actor = actor

\* the loop, for the events of one actor: what it holds after each event
Loop(r, c, events, actor) ==
  LET after[n \in 0..Len(Feed)] ==
        IF n = 0 THEN [history |-> {}, found |-> {}]
        ELSE IF n \in events /\ IsLogin(actor, n) THEN WindowStep(r, c, after[n - 1], n)
        ELSE after[n - 1]
  IN  after

ActorWindows(r, c, events, actor) == Loop(r, c, events, actor)[Len(Feed)].found

Actors == {Feed[n].actor : n \in DOMAIN Feed}

\* _candidates, as the sets of linked events
Members(r, c, events) ==
  IF r \in {"AUTH-001", "AUTH-002"}
  THEN UNION {ActorWindows(r, c, events, a) : a \in Actors}
  ELSE Singles(r, events)

\* _identity: rule, version and linked events, not what the rule says
Identities(rules, events, failures) ==
  UNION {{[rule |-> r, version |-> rules[r].version, members |-> m] :
           m \in IF r = "EVID-001" THEN {{v} : v \in failures}
                 ELSE Members(r, rules[r], events)} : r \in RuleIds}

-----------------------------------------------------------------------------
(* State.                                                                  *)

Key(r, c) == <<r, c.version>>

\* The rules whose version has no row, and those whose row says otherwise.
Missing(rules) == {r \in RuleIds : Key(r, rules[r]) \notin DOMAIN ruleVersions}
Conflicting(rules) ==
  {r \in RuleIds \ Missing(rules) : ruleVersions[Key(r, rules[r])] # rules[r]}

\* "missing" is the first rule version found missing; of the candidates,
\* "known" are those found among the alerts, "left" those not looked up yet.
Idle == [pc |-> "idle", rules |-> None, missing |-> None,
         candidates |-> {}, known |-> {}, left |-> {}]

TypeOK ==
  /\ arrived \subseteq DOMAIN Feed
  /\ failed \subseteq Verifications
  /\ \A r \in RuleIds : files[r] \in Contents[r]
  /\ \A k \in DOMAIN ruleVersions : ruleVersions[k].version = k[2]
  /\ \A i \in DOMAIN alerts : alerts[i].created \in Nat
  /\ \A w \in Evaluators :
       /\ job[w].pc \in {"idle", "loaded", "registering", "verifying", "looking", "inserting"}
       /\ job[w].known \cup job[w].left \subseteq job[w].candidates

Init ==
  /\ arrived = {}
  /\ failed = {}
  /\ files \in {f \in [RuleIds -> UNION {Contents[r] : r \in RuleIds}] :
                  \A r \in RuleIds : f[r] \in Contents[r]}
  /\ ruleVersions = <<>>
  /\ alerts = <<>>
  /\ reported = {}
  /\ job = [w \in Evaluators |-> Idle]

Finish(w) == job' = [job EXCEPT ![w] = Idle]

\* The alerts of the given identities inserted, each with its history row.
WithAlerts(new, rules) ==
  [i \in DOMAIN alerts \cup new |->
     IF i \in new THEN [content |-> rules[i.rule], created |-> 1] ELSE alerts[i]]

\* The next identities to be looked up: the first ones in the order of their
\* hashes, which is fixed and arbitrary.
Chunk(left) ==
  IF Cardinality(left) <= ChunkSize THEN left
  ELSE CHOOSE chunk \in SUBSET left : Cardinality(chunk) = ChunkSize

outside == <<arrived, failed, files>>

-----------------------------------------------------------------------------
(* Slips: what a plausible bug would turn an action below into.            *)

\* a version whose content was edited is taken for the one recorded
CheckVersionsByNumber(w) ==
  /\ job[w].pc = "loaded"
  /\ IF Missing(job[w].rules) = {}
     THEN job' = [job EXCEPT ![w].pc = "verifying"]
     ELSE \E r \in Missing(job[w].rules) :
            job' = [job EXCEPT ![w].pc = "registering", ![w].missing = r]
  /\ UNCHANGED <<outside, ruleVersions, alerts, reported>>

\* a chunk with an existing alert in it counts as existing
LookUpChunkAsOne(w) ==
  /\ job[w].pc = "looking"
  /\ job[w].left # {}
  /\ LET chunk == Chunk(job[w].left) IN
       job' = [job EXCEPT ![w].left = @ \ chunk,
                          ![w].known = @ \cup IF chunk \cap DOMAIN alerts = {} THEN {} ELSE chunk]
  /\ UNCHANGED <<outside, ruleVersions, alerts, reported>>

\* the failed verifications are looked up but not kept as candidates
ReadVerificationsLost(w) ==
  LET candidates == job[w].candidates \cup Identities(job[w].rules, {}, failed)
  IN  /\ job[w].pc = "verifying"
      /\ Cardinality(candidates) <= MaxCandidates
      /\ job' = [job EXCEPT ![w].pc = "looking", ![w].left = candidates]
      /\ UNCHANGED <<outside, ruleVersions, alerts, reported>>

\* INSERT OR IGNORE, and a history row for every alert meant to be inserted
InsertAlertsIgnoring(w) ==
  LET new == job[w].candidates \ job[w].known
      inserted == WithAlerts(new \ DOMAIN alerts, job[w].rules)
  IN  /\ job[w].pc = "inserting"
      /\ alerts' = [i \in DOMAIN inserted |->
                      [inserted[i] EXCEPT !.created = @ + IF i \in new \cap DOMAIN alerts THEN 1 ELSE 0]]
      /\ reported' = reported \cup job[w].candidates
      /\ Finish(w)
      /\ UNCHANGED <<outside, ruleVersions>>

-----------------------------------------------------------------------------
(* What happens beside the evaluations.                                    *)

Deliver(d) ==
  /\ ~ d \subseteq arrived
  /\ arrived' = arrived \cup d
  /\ UNCHANGED <<failed, files, ruleVersions, alerts, reported, job>>

VerificationFails(v) ==
  /\ v \notin failed
  /\ failed' = failed \cup {v}
  /\ UNCHANGED <<arrived, files, ruleVersions, alerts, reported, job>>

\* A rule file is replaced; load_rules reads the files one by one, so an
\* evaluation may meet any mixture.
EditRule(r, c) ==
  /\ files[r] # c
  /\ files' = [files EXCEPT ![r] = c]
  /\ UNCHANGED <<arrived, failed, ruleVersions, alerts, reported, job>>

-----------------------------------------------------------------------------
(* evaluate.                                                               *)

\* load_rules and the SELECT of the events; what _candidates makes of the two
\* depends on nothing else.
Load(w) ==
  /\ job[w].pc = "idle"
  /\ \A r \in RuleIds : ValidContent(r, files[r])
  /\ job' = [job EXCEPT ![w].pc = "loaded", ![w].rules = files,
                        ![w].candidates = Identities(files, arrived, {})]
  /\ UNCHANGED <<outside, ruleVersions, alerts, reported>>

\* Lines 375-396.  The rows are read one by one, but rows are only added and
\* never change, so what is found is what the last read could find.
CheckVersions(w) ==
  /\ job[w].pc = "loaded"
  /\ Conflicting(job[w].rules) = {}
  /\ IF Missing(job[w].rules) = {}
     THEN job' = [job EXCEPT ![w].pc = "verifying"]
     ELSE \E r \in Missing(job[w].rules) :
            job' = [job EXCEPT ![w].pc = "registering", ![w].missing = r]
  /\ UNCHANGED <<outside, ruleVersions, alerts, reported>>

\* From the first INSERT of a rule version to the COMMIT; everything but the
\* rules and the events is read inside the transaction.
RegisterAndInsert(w) ==
  LET rules == job[w].rules
      candidates == job[w].candidates \cup Identities(rules, {}, failed)
  IN  /\ job[w].pc = "registering"
      /\ job[w].missing \in Missing(rules)
      /\ Conflicting(rules) = {}
      /\ Cardinality(candidates) <= MaxCandidates
      /\ ruleVersions' =
           [k \in DOMAIN ruleVersions \cup {Key(r, rules[r]) : r \in Missing(rules)} |->
              IF k \in DOMAIN ruleVersions THEN ruleVersions[k] ELSE rules[k[1]]]
      /\ alerts' = WithAlerts(candidates \ DOMAIN alerts, rules)
      /\ reported' = reported \cup candidates
      /\ Finish(w)
      /\ UNCHANGED outside

ReadVerifications(w) ==
  LET candidates == job[w].candidates \cup Identities(job[w].rules, {}, failed)
  IN  /\ job[w].pc = "verifying"
      /\ Cardinality(candidates) <= MaxCandidates
      /\ job' = [job EXCEPT ![w].pc = "looking", ![w].candidates = candidates,
                            ![w].left = candidates]
      /\ UNCHANGED <<outside, ruleVersions, alerts, reported>>

\* _existing_alert_identities: one SELECT per chunk
LookUpChunk(w) ==
  /\ job[w].pc = "looking"
  /\ job[w].left # {}
  /\ job' = [job EXCEPT ![w].left = @ \ Chunk(@),
                        ![w].known = @ \cup (Chunk(job[w].left) \cap DOMAIN alerts)]
  /\ UNCHANGED <<outside, ruleVersions, alerts, reported>>

LookedUp(w) ==
  /\ job[w].pc = "looking"
  /\ job[w].left = {}
  /\ job' = [job EXCEPT ![w].pc = "inserting"]
  /\ UNCHANGED <<outside, ruleVersions, alerts, reported>>

\* From the first INSERT of an alert to the COMMIT; UNIQUE(stable_identity)
\* refuses an alert that another evaluation has inserted since.
InsertAlerts(w) ==
  LET new == job[w].candidates \ job[w].known
  IN  /\ job[w].pc = "inserting"
      /\ new \cap DOMAIN alerts = {}
      /\ alerts' = WithAlerts(new, job[w].rules)
      /\ reported' = reported \cup job[w].candidates
      /\ Finish(w)
      /\ UNCHANGED <<outside, ruleVersions>>

\* The process dies or raises - a version conflict, too many candidates, a
\* row refused - and the session is closed without a COMMIT.
Abort(w) ==
  /\ job[w].pc # "idle"
  /\ Finish(w)
  /\ UNCHANGED <<outside, ruleVersions, alerts, reported>>

Next ==
  \/ \E d \in Deliveries : Deliver(d)
  \/ \E v \in Verifications : VerificationFails(v)
  \/ \E r \in RuleIds : \E c \in Contents[r] : EditRule(r, c)
  \/ \E w \in Evaluators :
       \/ Load(w) \/ CheckVersions(w) \/ RegisterAndInsert(w)
       \/ ReadVerifications(w) \/ LookUpChunk(w) \/ LookedUp(w) \/ InsertAlerts(w)
       \/ Abort(w)

Spec == Init /\ [][Next]_vars

-----------------------------------------------------------------------------
(* Properties.                                                             *)

\* What the window rules are for, said without the loop: the failures that
\* count for login n are those of its actor up to n and within the window of
\* n, for AUTH-002 only those since the last success before n.
LoginsLike(n, outcome, events) ==
  {k \in events : IsLogin(Feed[n].actor, k) /\ Feed[k].outcome = outcome}

Counting(r, c, n, events) ==
  LET successes == {j \in LoginsLike(n, "SUCCESS", events) : j < n}
  IN  {k \in LoginsLike(n, "FAILURE", events) :
         /\ k <= n
         /\ Feed[n].time - Feed[k].time <= c.window
         /\ r = "AUTH-002" => \A j \in successes : j < k}

\* A failure (AUTH-001) or a success (AUTH-002) for which "threshold" failures
\* count makes a candidate of itself and the last of them.
ExpectedWindows(r, c, events) ==
  {{n} \cup {k \in Counting(r, c, n, events) :
              Cardinality({j \in Counting(r, c, n, events) : j > k}) < c.threshold} :
     n \in {m \in events :
              /\ Relevant("SSH_PASSWORD", m)
              /\ Feed[m].outcome = IF r = "AUTH-001" THEN "FAILURE" ELSE "SUCCESS"
              /\ Cardinality(Counting(r, c, m, events)) >= c.threshold}}

\* The loop of _candidates, with its pruned and cleared histories, finds in
\* whatever part of the events has arrived each window its rule describes and
\* nothing else (detections.py lines 309-343).  What it finds depends
\* on events and rule files alone: the states before the first evaluation show
\* all of them.
WindowsAsDescribed ==
  reported = {} /\ (\A w \in Evaluators : job[w] = Idle) =>
    \A r \in {"AUTH-001", "AUTH-002"}, events \in SUBSET arrived :
      ValidContent(r, files[r]) =>
        Members(r, files[r], events) = ExpectedWindows(r, files[r], events)

\* An alert can be explained from the tables: its rule version is recorded with
\* the content the alert was raised by, its events are stored, and they meet
\* the threshold and window recorded there, whatever the files say now.
AlertsExplained ==
  \A i \in DOMAIN alerts :
    LET recorded == ruleVersions[<<i.rule, i.version>>] IN
        /\ <<i.rule, i.version>> \in DOMAIN ruleVersions
        /\ alerts[i].content = recorded
        /\ i.rule = "EVID-001" => i.members \subseteq failed
        /\ i.rule # "EVID-001" => i.members \subseteq arrived
        /\ i.rule \in {"AUTH-001", "AUTH-002"} =>
             /\ Cardinality({n \in i.members : Feed[n].outcome = "FAILURE"}) = recorded.threshold
             /\ \A n, m \in i.members : Feed[n].time - Feed[m].time <= recorded.window

\* No evaluation that returned a result left one of its candidates without an
\* alert, and no other evaluation left anything: chunked lookups, races and
\* rollbacks included (evaluate, lines 422-521).
NothingMissed == DOMAIN alerts = reported

\* Evaluating again, at the same time or later, never touches an alert that is
\* there: it is not raised a second time and its history not begun again
\* (UNIQUE(stable_identity) and the rollback of an evaluation it refuses).
AlertsStay == [][\A i \in DOMAIN alerts : i \in DOMAIN alerts' /\ alerts'[i] = alerts[i]]_vars
=============================================================================
