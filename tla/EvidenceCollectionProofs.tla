---------------------- MODULE EvidenceCollectionProofs ---------------------
(***************************************************************************)
(* The safety properties of a collection, for any limits, deadline, chunk  *)
(* size and number of artifacts: of the bounded process, of what it hands  *)
(* over, and, with EvidenceStoreProofs, of the bundle and its verdict.     *)
(***************************************************************************)
EXTENDS EvidenceCollection, EvidenceStoreProofs

Over == call.pc \in {"joining", "judging", "returned", "raised"}

\* A reader stops when it has everything there will ever be, or one byte too many.
AtEnd(s) == holders[s] = {} /\ got[s] = written[s]

ProcessInv ==
  /\ ProcessTypeOK
  /\ got \in [Streams -> Int]
  /\ Over => Exited
  /\ \A s \in Streams : reader[s] = "reading" => ~ Overflow(s)
  /\ \A s \in Streams : reader[s] # "reading" => AtEnd(s) \/ Overflow(s)
  /\ call.pc = "returned" => \A s \in Streams : reader[s] = "closed" /\ ~ Overflow(s)

\* A collection is stored when it was accepted, and what was accepted stays so.
Accepted ==
  /\ outcome # "collected" => store.pc = "idle"
  /\ outcome = "collected" /\ adapter = "ssh-lab" => Acceptable

IInv ==
  /\ adapter \in {"fixture", "ssh-lab"} /\ speaks \in BOOLEAN
  /\ outcome \in {"pending", "collected", "refused"}
  /\ ProcessInv /\ StoreInv /\ Accepted
-----------------------------------------------------------------------------
(* The bounded process.                                                    *)

\* The lesser of two numbers.
LEMMA MinOfTwo ==
  ASSUME NEW a \in Int, NEW b \in Int
  PROVE  Min({a, b}) \in Int /\ Min({a, b}) <= a /\ Min({a, b}) <= b /\ Min({a, b}) \in {a, b}
<1>1. PICK m \in {a, b} : \A x \in {a, b} : m =< x
  <2>1. CASE a =< b
    BY <2>1
  <2>2. CASE ~ a =< b
    BY <2>2
  <2> QED
    BY <2>1, <2>2
<1>2. Min({a, b}) \in {a, b} /\ \A x \in {a, b} : Min({a, b}) =< x
  BY <1>1 DEF Min
<1> QED
  BY <1>2

\* The process begins in order.
LEMMA InitProcessInv == ProcessInit => ProcessInv
<1> SUFFICES ASSUME ProcessInit PROVE ProcessInv
  OBVIOUS
<1>1. \A s \in Streams : /\ holders[s] = {"child"} /\ got[s] = 0 /\ written[s] = 0 /\ reader[s] = "reading"
                         /\ Limit[s] \in Nat
  BY LimitAssumption DEF ProcessInit
<1>2. ProcessTypeOK
  BY <1>1, NumbersAssumption DEF ProcessInit, ProcessTypeOK, Exited
<1> QED
  BY <1>1, <1>2 DEF ProcessInit, ProcessInv, Over, Overflow

\* What a reader takes is there, it asks for a byte at least, and it stops only
\* when there is no more or when it has one byte beyond the limit.
LEMMA ReadKeeps == ASSUME ProcessInv, NEW s \in Streams, Read(s) PROVE ProcessInv'
<1> DEFINE wanted == Min({ChunkSize, Limit[s] - got[s] + 1})
           there == written[s] - got[s]
           taken == Min({wanted, there})
<1>1. /\ got[s] \in Int /\ written[s] \in Int /\ 0 <= got[s] /\ got[s] <= written[s]
      /\ written[s] <= MaxWritten /\ MaxWritten \in Nat /\ there \in Int /\ there >= 0
  <2>1. got[s] \in 0..written[s] /\ written[s] \in 0..MaxWritten /\ MaxWritten \in Nat
    BY NumbersAssumption DEF ProcessInv, ProcessTypeOK
  <2> QED
    BY <2>1
<1>r. reader[s] = "reading" /\ Limit[s] \in Nat /\ got[s] <= Limit[s]
  <2>1. reader[s] = "reading" /\ Limit[s] \in Nat
    BY LimitAssumption DEF Read
  <2> QED
    BY <1>1, <2>1 DEF ProcessInv, Overflow
<1>2. wanted \in Int /\ wanted >= 1
  <2>1. ChunkSize \in Int /\ ChunkSize >= 1 /\ Limit[s] - got[s] + 1 \in Int /\ Limit[s] - got[s] + 1 >= 1
    BY <1>1, <1>r, NumbersAssumption
  <2> QED
    BY <2>1, MinOfTwo
<1> HIDE DEF wanted
<1>3. taken \in Int /\ taken <= there /\ taken \in {wanted, there} /\ taken >= 0
  <2>1. taken \in Int /\ taken <= there /\ taken \in {wanted, there}
    BY <1>1, <1>2, MinOfTwo
  <2> QED
    BY <1>1, <1>2, <2>1
<1> HIDE DEF taken
<1>4. /\ got' = [got EXCEPT ![s] = got[s] + taken]
      /\ reader' = [reader EXCEPT ![s] = IF taken = 0 \/ got[s] + taken > Limit[s] THEN "closing" ELSE reader[s]]
      /\ there >= wanted \/ holders[s] = {}
      /\ UNCHANGED <<child, holders, written, call, clock>>
  BY DEF Read, taken, wanted, ProcessInv, ProcessTypeOK
<1>5. /\ got' \in [Streams -> Int] /\ got'[s] = got[s] + taken
      /\ \A u \in Streams : u # s => got'[u] = got[u] /\ reader'[u] = reader[u]
      /\ reader' \in [Streams -> {"reading", "closing", "closed"}]
      /\ reader'[s] = IF taken = 0 \/ got[s] + taken > Limit[s] THEN "closing" ELSE "reading"
  BY <1>1, <1>r, <1>3, <1>4 DEF ProcessInv, ProcessTypeOK
<1>6. got'[s] \in 0..written'[s]
  BY <1>1, <1>r, <1>3, <1>4, <1>5
<1>7. ProcessTypeOK'
  BY <1>4, <1>5, <1>6 DEF ProcessInv, ProcessTypeOK, Exited
<1>8. taken = 0 => AtEnd(s)
  BY <1>1, <1>r, <1>2, <1>3, <1>4 DEF AtEnd
<1>9. \A u \in Streams : reader'[u] = "reading" => ~ Overflow(u)'
  BY <1>1, <1>r, <1>3, <1>5 DEF ProcessInv, Overflow
<1>10. \A u \in Streams : reader'[u] # "reading" => AtEnd(u)' \/ Overflow(u)'
  BY <1>1, <1>r, <1>3, <1>4, <1>5, <1>8 DEF ProcessInv, Overflow, AtEnd
<1>11. call.pc # "returned"
  BY <1>r DEF ProcessInv
<1> QED
  BY <1>4, <1>5, <1>7, <1>9, <1>10, <1>11 DEF ProcessInv, Over, Exited

\* Every step of the process keeps its invariant.
LEMMA ProcessStepKeeps == ASSUME ProcessInv, ProcessNext PROVE ProcessInv'
<1>1. /\ child \in {"running", "dying", "ok", "failed"}
      /\ holders \in [Streams -> SUBSET {"child", "descendant"}]
      /\ written \in [Streams -> 0..MaxWritten] /\ MaxWritten \in Nat
      /\ reader \in [Streams -> {"reading", "closing", "closed"}]
      /\ call \in [pc: {"polling", "checking", "waiting", "joining", "judging", "returned", "raised"},
                   failure: Failures \cup {None}]
      /\ clock \in 0..Timeout /\ Timeout \in Nat
  BY NumbersAssumption DEF ProcessInv, ProcessTypeOK
<1>2. CASE Fork
  BY <1>1, <1>2 DEF Fork, ProcessInv, ProcessTypeOK, Over, Exited, Overflow, AtEnd
<1>3. ASSUME NEW s \in Streams, Write(s) PROVE ProcessInv'
  <2>1. /\ written' = [written EXCEPT ![s] = written[s] + 1] /\ written[s] + 1 \in 0..MaxWritten
        /\ holders[s] # {} /\ UNCHANGED <<child, holders, got, reader, call, clock>>
    BY <1>1, <1>3 DEF Write
  <2>2. /\ written' \in [Streams -> 0..MaxWritten] /\ written'[s] = written[s] + 1
        /\ \A u \in Streams : u # s => written'[u] = written[u]
    BY <1>1, <2>1
  <2>3. \A u \in Streams : got[u] \in 0..written'[u]
    BY <1>1, <2>1, <2>2 DEF ProcessInv, ProcessTypeOK
  <2>4. ProcessTypeOK'
    BY <2>1, <2>2, <2>3 DEF ProcessInv, ProcessTypeOK, Exited
  <2>5. \A u \in Streams : AtEnd(u) => AtEnd(u)'
    BY <2>1, <2>2 DEF AtEnd
  <2> QED
    BY <2>1, <2>4, <2>5 DEF ProcessInv, Over, Exited, Overflow
<1>4. ASSUME NEW s \in Streams, NEW h \in {"child", "descendant"}, Close(s, h) PROVE ProcessInv'
  BY <1>1, <1>4 DEF Close, ProcessInv, ProcessTypeOK, Over, Exited, Overflow, AtEnd
<1>5. ASSUME NEW code \in {"ok", "failed"}, Exit(code) PROVE ProcessInv'
  BY <1>1, <1>5 DEF Exit, ProcessInv, ProcessTypeOK, Over, Exited, Overflow, AtEnd
<1>6. CASE Die
  BY <1>1, <1>6 DEF Die, ProcessInv, ProcessTypeOK, Over, Exited, Overflow, AtEnd
<1>7. CASE Tick
  BY <1>1, <1>7 DEF Tick, ProcessInv, ProcessTypeOK, Over, Exited, Overflow, AtEnd
<1>8. ASSUME NEW s \in Streams, CloseReader(s) PROVE ProcessInv'
  BY <1>1, <1>8 DEF CloseReader, ProcessInv, ProcessTypeOK, Over, Exited, Overflow, AtEnd
<1>9. ASSUME UNCHANGED <<holders, written, got, reader, clock>>, ProcessTypeOK', Exited => Exited',
             Over' => Exited', call'.pc # "returned"
      PROVE  ProcessInv'
  BY <1>9 DEF ProcessInv, Overflow, AtEnd
<1>10. CASE Poll
  <2>1. /\ call' = [call EXCEPT !.pc = IF Exited THEN "joining" ELSE "checking"]
        /\ UNCHANGED <<child, holders, written, got, reader, clock>>
    BY <1>10 DEF Poll
  <2>2. ProcessTypeOK'
    BY <1>1, <2>1 DEF ProcessInv, ProcessTypeOK, Exited
  <2> QED
    BY <1>1, <1>9, <2>1, <2>2 DEF Over, Exited
<1>11. CASE Check
  <2> DEFINE failure == IF Overflow("stdout") THEN "STDOUT_LIMIT"
                        ELSE IF Overflow("stderr") THEN "STDERR_LIMIT"
                        ELSE IF clock >= Timeout THEN "TIMEOUT" ELSE None
  <2>1. failure \in Failures \cup {None}
    BY DEF Failures
  <2>2. /\ UNCHANGED <<holders, written, got, reader, clock>>
        /\ \/ call' = [call EXCEPT !.pc = "polling"] /\ child' = child
           \/ /\ call' = [pc |-> "waiting", failure |-> failure]
              /\ child' = IF Exited THEN child ELSE "dying"
    BY <1>11 DEF Check
  <2> HIDE DEF failure
  <2>3. /\ call' \in [pc: {"polling", "waiting"}, failure: Failures \cup {None}]
        /\ child' \in {"running", "dying", "ok", "failed"}
        /\ Exited => child' = child
        /\ Exited' => Exited
    BY <1>1, <2>1, <2>2 DEF Exited
  <2>4. ProcessTypeOK'
    BY <2>2, <2>3 DEF ProcessInv, ProcessTypeOK
  <2> QED
    BY <1>9, <2>2, <2>3, <2>4 DEF Over, Exited
<1>12. CASE Wait
  <2>1. /\ call' = [call EXCEPT !.pc = "joining"] /\ Exited
        /\ UNCHANGED <<child, holders, written, got, reader, clock>>
    BY <1>12 DEF Wait
  <2>2. ProcessTypeOK'
    BY <1>1, <2>1 DEF ProcessInv, ProcessTypeOK, Exited
  <2> QED
    BY <1>1, <1>9, <2>1, <2>2 DEF Over, Exited
<1>13. CASE Join
  <2>1. /\ call' = [call EXCEPT !.pc = "judging"] /\ Exited
        /\ UNCHANGED <<child, holders, written, got, reader, clock>>
    BY <1>13 DEF Join, ProcessInv, Over
  <2>2. ProcessTypeOK'
    BY <1>1, <2>1 DEF ProcessInv, ProcessTypeOK, Exited
  <2> QED
    BY <1>1, <1>9, <2>1, <2>2 DEF Over, Exited
<1>14. CASE Judge
  <2> DEFINE failure == IF \E s \in Streams : reader[s] # "closed" THEN "PIPE_REAP_FAILED"
                        ELSE IF call.failure # None THEN call.failure
                        ELSE IF Overflow("stdout") THEN "STDOUT_LIMIT"
                        ELSE IF Overflow("stderr") THEN "STDERR_LIMIT" ELSE None
  <2>1. failure \in Failures \cup {None}
    BY <1>1 DEF Failures
  <2>2. /\ call' = [pc |-> IF failure = None THEN "returned" ELSE "raised", failure |-> failure]
        /\ UNCHANGED <<child, holders, written, got, reader, clock>> /\ Exited
    BY <1>14 DEF Judge, ProcessInv, Over
  <2>3. failure = None => \A s \in Streams : reader[s] = "closed" /\ ~ Overflow(s)
    BY NoneAssumption DEF Streams
  <2> HIDE DEF failure
  <2>4. /\ call' \in [pc: {"returned", "raised"}, failure: Failures \cup {None}]
        /\ call'.pc = "returned" => failure = None
    BY <2>1, <2>2
  <2>5. ProcessTypeOK'
    BY <2>2, <2>4 DEF ProcessInv, ProcessTypeOK, Exited
  <2> QED
    BY <2>2, <2>3, <2>4, <2>5 DEF ProcessInv, Over, Exited, Overflow, AtEnd
<1> QED
  BY <1>2, <1>3, <1>4, <1>5, <1>6, <1>7, <1>8, <1>10, <1>11, <1>12, <1>13, <1>14, ReadKeeps
     DEF ProcessNext, ReaderStep, CallStep

\* What the bounded call has returned stays acceptable: nobody can write any more,
\* the readers have ended, and the child has its exit status.
LEMMA AcceptableStays ==
  ASSUME ProcessInv, Acceptable, ProcessNext, UNCHANGED speaks
  PROVE  Acceptable'
<1>1. /\ call.pc = "returned" /\ child = "ok"
      /\ \A s \in Streams : reader[s] = "closed" /\ holders[s] = {}
  BY DEF Acceptable, ProcessInv, AtEnd
<1>2. call' = call /\ child' = child /\ got' = got
  BY <1>1 DEF ProcessNext, ReaderStep, CallStep, Fork, Write, Close, Exit, Die, Tick, Read, CloseReader,
              Poll, Check, Wait, Join, Judge
<1> QED
  BY <1>2 DEF Acceptable
-----------------------------------------------------------------------------

\* The initial state satisfies the invariant.
LEMMA InitIInv == Init => IInv
BY InitProcessInv, InitStoreInv DEF Init, IInv, Accepted, StoreInit

\* The invariant is inductive.
LEMMA StepIInv == IInv /\ [Next]_vars => IInv'
<1> SUFFICES ASSUME IInv, [Next]_vars PROVE IInv'
  OBVIOUS
<1>1. CASE RunProcess
  <2>1. ProcessNext /\ UNCHANGED <<storeVars, adapter, speaks, outcome>>
    BY <1>1 DEF RunProcess
  <2>2. ProcessInv'
    BY <2>1, ProcessStepKeeps DEF IInv
  <2>3. StoreInv'
    BY <2>1, StoreStutterKeeps DEF IInv
  <2>4. Accepted'
    BY <2>1, AcceptableStays DEF IInv, Accepted, storeVars
  <2> QED
    BY <2>1, <2>2, <2>3, <2>4 DEF IInv
<1>2. CASE Collect \/ UNCHANGED vars
  <2>1. UNCHANGED <<processVars, storeVars, adapter, speaks>>
    BY <1>2 DEF Collect, JudgeOutput, CollectFixtures, vars
  <2>2. ProcessInv'
    BY <2>1 DEF IInv, ProcessInv, ProcessTypeOK, Over, Exited, Overflow, AtEnd, processVars
  <2>3. StoreInv'
    BY <2>1, StoreStutterKeeps DEF IInv
  <2>4. outcome' \in {"pending", "collected", "refused"} /\ Accepted'
    BY <1>2, <2>1 DEF IInv, Accepted, Acceptable, Collect, JudgeOutput, CollectFixtures, vars,
                      processVars, storeVars
  <2> QED
    BY <2>1, <2>2, <2>3, <2>4 DEF IInv
<1>3. CASE StoreAndVerify
  <2>1. StoreNext /\ outcome = "collected" /\ UNCHANGED <<processVars, adapter, speaks, outcome>>
    BY <1>3 DEF StoreAndVerify
  <2>2. StoreInv'
    BY <2>1, StoreStepKeeps DEF IInv
  <2>3. ProcessInv'
    BY <2>1 DEF IInv, ProcessInv, ProcessTypeOK, Over, Exited, Overflow, AtEnd, processVars
  <2>4. Accepted'
    BY <2>1 DEF IInv, Accepted, Acceptable, processVars
  <2> QED
    BY <2>1, <2>2, <2>3, <2>4 DEF IInv
<1> QED
  BY <1>1, <1>2, <1>3 DEF Next

\* The invariant holds of every run.
LEMMA IInvHolds == Spec => []IInv
<1>1. Init => IInv
  BY InitIInv
<1>2. IInv /\ [Next]_vars => IInv'
  BY StepIInv
<1> QED
  BY <1>1, <1>2, PTL DEF Spec
-----------------------------------------------------------------------------

\* Processes, pipes, bundles and verifications are in states the code knows.
THEOREM TypeInvariant == Spec => []TypeOK
<1>1. IInv => TypeOK
  BY DEF IInv, ProcessInv, StoreInv, Typed, TypeOK
<1> QED
  BY <1>1, IInvHolds, PTL

\* What _run_bounded_process returns is everything that was and will be written,
\* within the limits, and when it ends in any way, the child has ended.
THEOREM OutputIsWholeForAll == Spec => []OutputIsWhole
<1>1. IInv => OutputIsWhole
  <2> SUFFICES ASSUME IInv PROVE OutputIsWhole
    OBVIOUS
  <2>1. Ended => Exited
    BY DEF IInv, ProcessInv, Over, Ended
  <2>2. ASSUME call.pc = "returned", NEW s \in Streams
        PROVE  holders[s] = {} /\ got[s] = written[s] /\ got[s] <= Limit[s]
    BY <2>2, LimitAssumption DEF IInv, ProcessInv, Overflow, AtEnd
  <2> QED
    BY <2>1, <2>2 DEF OutputIsWhole
<1> QED
  BY <1>1, IInvHolds, PTL

\* A PASS of verify_bundle is about the bundle as it was stored, whenever the disk
\* changes; with the disk at rest, the reasons are exactly those that apply.
THEOREM VerdictIsRightForAll == Spec => []VerdictIsRight
<1>1. IInv => VerdictIsRight
  BY VerdictFollows DEF IInv
<1> QED
  BY <1>1, IInvHolds, PTL

\* A bundle under its final name is complete, and comes from a collection with
\* nothing wrong: a collector that ended well, whose output is all of it, and
\* that left nobody at the pipes.
THEOREM EvidenceIsEarnedForAll == Spec => []EvidenceIsEarned
<1>1. IInv => EvidenceIsEarned
  <2> SUFFICES ASSUME IInv, place = "final", changes = 0
               PROVE  /\ Complete /\ outcome = "collected"
                      /\ adapter = "ssh-lab" =>
                           /\ child = "ok"
                           /\ \A s \in {"stdout", "stderr"} : holders[s] = {}
                           /\ speaks /\ written["stdout"] = ProtocolSize /\ written["stderr"] = 0
    BY DEF EvidenceIsEarned
  <2>1. Complete /\ outcome = "collected"
    BY DEF IInv, StoreInv, StoreInOrder, Accepted
  <2>2. ASSUME adapter = "ssh-lab"
        PROVE  /\ child = "ok"
               /\ \A s \in Streams : holders[s] = {} /\ got[s] = written[s]
               /\ speaks /\ got["stdout"] = ProtocolSize /\ got["stderr"] = 0
    BY <2>1, <2>2 DEF IInv, Accepted, Acceptable, ProcessInv, AtEnd
  <2> QED
    BY <2>1, <2>2 DEF Streams
<1> QED
  BY <1>1, IInvHolds, PTL
=============================================================================
