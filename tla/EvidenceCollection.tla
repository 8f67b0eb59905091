------------------------ MODULE EvidenceCollection ------------------------
(***************************************************************************)
(* One collection, as execute_request of cases.py runs it: a collector     *)
(* (FixtureCollector, or SshLabCollector over the bounded subprocess),     *)
(* then store_bundle, then verify_bundle.  CollectionRequests knows these  *)
(* as "collected or failed", "stored" and "verdict or exception".          *)
(***************************************************************************)
EXTENDS BoundedProcess, EvidenceStore

CONSTANT
  ProtocolSize  \* the bytes of a complete collection on stdout

ASSUME ProtocolAssumption == ProtocolSize \in 1..Limit["stdout"]

VARIABLES
  adapter,  \* settings.collector: "fixture" or "ssh-lab"
  speaks,   \* does what the child writes follow the protocol?
  outcome   \* of the collector: "pending", "collected", "refused"

vars == <<processVars, storeVars, adapter, speaks, outcome>>

TypeOK ==
  /\ ProcessTypeOK
  /\ StoreTypeOK
  /\ adapter \in {"fixture", "ssh-lab"}
  /\ speaks \in BOOLEAN
  /\ outcome \in {"pending", "collected", "refused"}

Init ==
  /\ ProcessInit
  /\ StoreInit
  /\ adapter \in {"fixture", "ssh-lab"}
  /\ speaks \in BOOLEAN
  /\ outcome = "pending"

\* lines 338-371: exit status, stderr, and the eight records, no more, no less
Acceptable ==
  /\ call.pc = "returned"
  /\ child = "ok"
  /\ got["stderr"] = 0
  /\ speaks /\ got["stdout"] = ProtocolSize

-----------------------------------------------------------------------------

RunProcess ==
  /\ adapter = "ssh-lab"
  /\ ProcessNext
  /\ UNCHANGED <<storeVars, adapter, speaks, outcome>>

\* FixtureCollector.collect: eight bounded reads, which may fail.
CollectFixtures(o) ==
  /\ adapter = "fixture"
  /\ outcome = "pending"
  /\ outcome' = o
  /\ UNCHANGED <<processVars, storeVars, adapter, speaks>>

\* The rest of SshLabCollector.collect.
JudgeOutput ==
  /\ adapter = "ssh-lab"
  /\ outcome = "pending"
  /\ Ended
  /\ outcome' = IF Acceptable THEN "collected" ELSE "refused"
  /\ UNCHANGED <<processVars, storeVars, adapter, speaks>>

StoreAndVerify ==
  /\ outcome = "collected"
  /\ StoreNext
  /\ UNCHANGED <<processVars, adapter, speaks, outcome>>

Collect == JudgeOutput \/ \E o \in {"collected", "refused"} : CollectFixtures(o)

Next == RunProcess \/ Collect \/ StoreAndVerify

\* The thread that runs the collection runs on.
Fairness ==
  /\ WF_vars(RunProcess /\ CallStep)
  /\ WF_vars(RunProcess /\ Tick)
  /\ WF_vars(RunProcess /\ Die)
  /\ WF_vars(Collect)
  /\ WF_vars(StoreAndVerify /\ (StoreStep \/ VerifyStep))

Spec == Init /\ [][Next]_vars /\ Fairness

-----------------------------------------------------------------------------
(* Properties.                                                             *)

\* A bundle that can be seen under its name is all there, and it came from a
\* collection nothing was wrong with: whatever the collector's process left
\* running or undone, whatever step of store_bundle failed or never happened.
EvidenceIsEarned ==
  place = "final" /\ changes = 0 =>
    /\ Complete
    /\ outcome = "collected"
    /\ adapter = "ssh-lab" =>
         /\ child = "ok"
         /\ \A s \in {"stdout", "stderr"} : holders[s] = {}
         /\ speaks /\ written["stdout"] = ProtocolSize /\ written["stderr"] = 0

\* A collection ends - refused, failed, verified or with an exception - however
\* long the child runs, whatever it writes and whoever holds its pipes.
CollectionEnds ==
  <>(outcome = "refused" \/ store.pc = "failed" \/ verify.pc \in {"done", "raised"})
=============================================================================
