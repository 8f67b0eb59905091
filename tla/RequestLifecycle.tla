------------------------- MODULE RequestLifecycle -------------------------
(***************************************************************************)
(* What a collection request promises the people who work with it: it is  *)
(* drafted, submitted, decided once, run at most once, and then left as   *)
(* it is.  A REJECTED, SUCCEEDED or FAILED request never moves again, and *)
(* a case never has two requests that are alive or have succeeded.        *)
(*                                                                         *)
(* Source: the statuses of models.py (CollectionStatus) and the "from"    *)
(* and "to" of the handlers of main.py and of cases.execute_request.      *)
(***************************************************************************)

CONSTANTS Requests,   \* request ids
          CaseOf      \* CaseOf[r]: the case a request with id r is made for

VARIABLE status       \* status[r], "ABSENT" before the INSERT of r

\* models.py CollectionStatus.  PARTIAL is declared there, listed as blocking
\* and never written by any code path, so no action leads to it.
Statuses == {"DRAFT", "SUBMITTED", "APPROVED", "REJECTED", "EXECUTING",
             "SUCCEEDED", "FAILED"}

\* The statuses under which a case takes no further request.
Blocking == {"DRAFT", "SUBMITTED", "APPROVED", "EXECUTING", "SUCCEEDED"}

\* The moves of one request, as the handlers make them.
Moves == { <<"DRAFT", "SUBMITTED">>,
           <<"SUBMITTED", "APPROVED">>, <<"SUBMITTED", "REJECTED">>,
           <<"APPROVED", "EXECUTING">>,
           <<"EXECUTING", "SUCCEEDED">>, <<"EXECUTING", "FAILED">> }

BlockedCase(c) == \E r \in Requests : CaseOf[r] = c /\ status[r] \in Blocking

LifecycleInit == status = [r \in Requests |-> "ABSENT"]

\* A new request for a case that has none alive or successful.
Create(r) ==
  /\ status[r] = "ABSENT"
  /\ ~ BlockedCase(CaseOf[r])
  /\ status' = [status EXCEPT ![r] = "DRAFT"]

Move(r) ==
  \E s \in Statuses : /\ <<status[r], s>> \in Moves
                      /\ status' = [status EXCEPT ![r] = s]

LifecycleNext == \E r \in Requests : Create(r) \/ Move(r)

LifecycleSpec == LifecycleInit /\ [][LifecycleNext]_status
=============================================================================
