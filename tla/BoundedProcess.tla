-------------------------- MODULE BoundedProcess --------------------------
(***************************************************************************)
(* The bounded subprocess call: _run_bounded_process of collection.py, its *)
(* main loop, its two reader threads (_bounded_pipe_reader), the child and *)
(* whatever the child leaves behind.                                       *)
(*                                                                         *)
(* Output is counted, not represented: a byte is what a pipe carries one   *)
(* of.  pipe.read(n) is a buffered read: it returns n bytes, or fewer once *)
(* nobody holds the write end any more.  The child and a descendant of it  *)
(* hold, write and close the pipes as they like; the child may end by      *)
(* itself at any time.                                                     *)
(***************************************************************************)
EXTENDS Integers, FiniteSetsExt

CONSTANTS
  Limit,       \* Limit[s]: stdout_limit and stderr_limit
  Timeout,     \* the deadline, in ticks of the monotonic clock
  ChunkSize,   \* what a reader asks for at most (65536 bytes)
  MaxWritten,  \* bound: how much is written into one pipe
  None

Streams == {"stdout", "stderr"}

ASSUME LimitAssumption == Limit \in [Streams -> Nat]
ASSUME NumbersAssumption == Timeout \in Nat /\ MaxWritten \in Nat /\ ChunkSize \in Nat \ {0}
ASSUME NoneAssumption == None \notin {"STDOUT_LIMIT", "STDERR_LIMIT", "TIMEOUT", "PIPE_REAP_FAILED"}

VARIABLES
  child,    \* "running", "dying" (SIGKILL sent), or its exit: "ok", "failed"
  holders,  \* holders[s]: who has the write end of pipe s open
  written,  \* written[s]: bytes written into pipe s
  got,      \* got[s]: bytes in the chunks of the reader of s
  reader,   \* reader[s]: "reading", "closing", "closed"
  call,     \* the calling thread: where it is and the failure it noted
  clock     \* time.monotonic(), up to the deadline

processVars == <<child, holders, written, got, reader, call, clock>>

Failures == {"STDOUT_LIMIT", "STDERR_LIMIT", "TIMEOUT", "PIPE_REAP_FAILED"}
Exited == child \in {"ok", "failed"}
Ended == call.pc \in {"returned", "raised"}

\* the Event a reader sets
Overflow(s) == got[s] > Limit[s]

ProcessTypeOK ==
  /\ child \in {"running", "dying", "ok", "failed"}
  /\ holders \in [Streams -> SUBSET {"child", "descendant"}]
  /\ Exited => \A s \in Streams : "child" \notin holders[s]
  /\ written \in [Streams -> 0..MaxWritten]
  /\ \A s \in Streams : got[s] \in 0..written[s]
  /\ reader \in [Streams -> {"reading", "closing", "closed"}]
  /\ call \in [pc: {"polling", "checking", "waiting", "joining", "judging", "returned", "raised"},
               failure: Failures \cup {None}]
  /\ clock \in 0..Timeout

ProcessInit ==
  /\ child = "running"
  /\ holders = [s \in Streams |-> {"child"}]
  /\ written = [s \in Streams |-> 0]
  /\ got = [s \in Streams |-> 0]
  /\ reader = [s \in Streams |-> "reading"]
  /\ call = [pc |-> "polling", failure |-> None]
  /\ clock = 0

-----------------------------------------------------------------------------
(* Slips: what a plausible bug would turn an action below into.            *)

\* the threads are joined but not asked whether they are alive
JudgeUnjoined ==
  /\ call.pc = "judging"
  /\ call' = LET failure == IF call.failure # None THEN call.failure
                            ELSE IF Overflow("stdout") THEN "STDOUT_LIMIT"
                            ELSE IF Overflow("stderr") THEN "STDERR_LIMIT" ELSE None
             IN  [pc |-> IF failure = None THEN "returned" ELSE "raised", failure |-> failure]
  /\ UNCHANGED <<child, holders, written, got, reader, clock>>

\* no deadline
CheckLimitsOnly ==
  /\ call.pc = "checking"
  /\ LET failure == IF Overflow("stdout") THEN "STDOUT_LIMIT"
                    ELSE IF Overflow("stderr") THEN "STDERR_LIMIT" ELSE None
     IN  IF failure = None
         THEN call' = [call EXCEPT !.pc = "polling"] /\ UNCHANGED child
         ELSE /\ call' = [pc |-> "waiting", failure |-> failure]
              /\ child' = IF Exited THEN child ELSE "dying"
  /\ UNCHANGED <<holders, written, got, reader, clock>>

\* a reader that takes what it did not get for the end of its budget
ReadPastEnd(s) ==
  /\ reader[s] = "reading"
  /\ got' = [got EXCEPT ![s] = Min({@ + ChunkSize, Limit[s] + 1})]
  /\ reader' = [reader EXCEPT ![s] = IF got'[s] > Limit[s] THEN "closing" ELSE @]
  /\ UNCHANGED <<child, holders, written, call, clock>>

-----------------------------------------------------------------------------
(* The child, its descendant and the clock.                                *)

\* A descendant inherits the pipes.
Fork ==
  /\ child = "running"
  /\ holders' = [s \in Streams |-> holders[s] \cup (IF "child" \in holders[s] THEN {"descendant"} ELSE {})]
  /\ UNCHANGED <<child, written, got, reader, call, clock>>

\* A pipe its reader has closed takes no more bytes.
Write(s) ==
  /\ holders[s] # {}
  /\ reader[s] # "closed"
  /\ written[s] < MaxWritten
  /\ written' = [written EXCEPT ![s] = @ + 1]
  /\ UNCHANGED <<child, holders, got, reader, call, clock>>

Close(s, h) ==
  /\ h \in holders[s]
  /\ h = "child" => child = "running"
  /\ holders' = [holders EXCEPT ![s] = @ \ {h}]
  /\ UNCHANGED <<child, written, got, reader, call, clock>>

Exit(code) ==
  /\ child = "running"
  /\ child' = code
  /\ holders' = [s \in Streams |-> holders[s] \ {"child"}]
  /\ UNCHANGED <<written, got, reader, call, clock>>

\* SIGKILL takes effect.
Die ==
  /\ child = "dying"
  /\ child' = "failed"
  /\ holders' = [s \in Streams |-> holders[s] \ {"child"}]
  /\ UNCHANGED <<written, got, reader, call, clock>>

Tick ==
  /\ clock < Timeout
  /\ clock' = clock + 1
  /\ UNCHANGED <<child, holders, written, got, reader, call>>

-----------------------------------------------------------------------------
(* _bounded_pipe_reader.                                                   *)

\* A full chunk, or what is left once nobody can write: an empty one ends the
\* loop, one byte beyond the limit too.
Read(s) ==
  LET wanted == Min({ChunkSize, Limit[s] - got[s] + 1})
      there == written[s] - got[s]
      taken == Min({wanted, there})
  IN  /\ reader[s] = "reading"
      /\ there >= wanted \/ holders[s] = {}
      /\ got' = [got EXCEPT ![s] = @ + taken]
      /\ reader' = [reader EXCEPT ![s] =
                      IF taken = 0 \/ got[s] + taken > Limit[s] THEN "closing" ELSE @]
      /\ UNCHANGED <<child, holders, written, call, clock>>

CloseReader(s) ==
  /\ reader[s] = "closing"
  /\ reader' = [reader EXCEPT ![s] = "closed"]
  /\ UNCHANGED <<child, holders, written, got, call, clock>>

-----------------------------------------------------------------------------
(* _run_bounded_process.                                                   *)

Poll ==
  /\ call.pc = "polling"
  /\ call' = [call EXCEPT !.pc = IF Exited THEN "joining" ELSE "checking"]
  /\ UNCHANGED <<child, holders, written, got, reader, clock>>

\* The rest of the loop's body, and the kill when it breaks.
Check ==
  /\ call.pc = "checking"
  /\ LET failure == IF Overflow("stdout") THEN "STDOUT_LIMIT"
                    ELSE IF Overflow("stderr") THEN "STDERR_LIMIT"
                    ELSE IF clock >= Timeout THEN "TIMEOUT" ELSE None
     IN  IF failure = None
         THEN call' = [call EXCEPT !.pc = "polling"] /\ UNCHANGED child
         ELSE /\ call' = [pc |-> "waiting", failure |-> failure]
              /\ child' = IF Exited THEN child ELSE "dying"
  /\ UNCHANGED <<holders, written, got, reader, clock>>

Wait ==
  /\ call.pc = "waiting"
  /\ Exited
  /\ call' = [call EXCEPT !.pc = "joining"]
  /\ UNCHANGED <<child, holders, written, got, reader, clock>>

\* The joins return when the readers have ended, or a second later.
Join ==
  /\ call.pc = "joining"
  /\ call' = [call EXCEPT !.pc = "judging"]
  /\ UNCHANGED <<child, holders, written, got, reader, clock>>

\* Lines 213-223.  A reader that is alive is left to itself.
Judge ==
  /\ call.pc = "judging"
  /\ call' = LET failure == IF \E s \in Streams : reader[s] # "closed" THEN "PIPE_REAP_FAILED"
                            ELSE IF call.failure # None THEN call.failure
                            ELSE IF Overflow("stdout") THEN "STDOUT_LIMIT"
                            ELSE IF Overflow("stderr") THEN "STDERR_LIMIT" ELSE None
             IN  [pc |-> IF failure = None THEN "returned" ELSE "raised", failure |-> failure]
  /\ UNCHANGED <<child, holders, written, got, reader, clock>>

ReaderStep == \E s \in Streams : Read(s) \/ CloseReader(s)

CallStep == Poll \/ Check \/ Wait \/ Join \/ Judge

ProcessNext ==
  \/ Fork
  \/ \E s \in Streams : Write(s)
  \/ \E s \in Streams, h \in {"child", "descendant"} : Close(s, h)
  \/ \E code \in {"ok", "failed"} : Exit(code)
  \/ Die \/ Tick \/ ReaderStep \/ CallStep

\* Threads of the process run and a killed child dies; nothing is expected of
\* the child otherwise.
ProcessFairness == WF_processVars(CallStep) /\ WF_processVars(Tick) /\ WF_processVars(Die)

-----------------------------------------------------------------------------
(* Properties.                                                             *)

\* What _run_bounded_process returns is all that anyone wrote or will write
\* into the pipes, and within the limits; whichever way it ends, the child has
\* ended, although readers, deadline, descendants and the child's own exit race.
OutputIsWhole ==
  /\ Ended => Exited
  /\ call.pc = "returned" =>
       \A s \in Streams : /\ holders[s] = {}
                          /\ got[s] = written[s]
                          /\ got[s] <= Limit[s]
=============================================================================
