-------------------------- MODULE AlertWorkflow ---------------------------
(***************************************************************************)
(* What triage promises of an alert: once raised it moves along the        *)
(* supported transitions, one at a time, each decision made on the status *)
(* the previous one left, and the trail of its statuses is kept.           *)
(*                                                                         *)
(* Source: ALLOWED_TRANSITIONS of main.py, AlertStatus of models.py, and   *)
(* evaluate of detections.py, which raises alerts.                         *)
(***************************************************************************)
EXTENDS Sequences

CONSTANT Alerts

VARIABLES status,   \* status[a], "ABSENT" before a is raised
          trail     \* trail[a]: the statuses a has had, oldest first

workflowVars == <<status, trail>>

AlertStatus == {"NEW", "IN_TRIAGE", "ESCALATED", "BENIGN", "CLOSED"}

\* NEW -> IN_TRIAGE -> ESCALATED or BENIGN -> CLOSED
AllowedTransitions == { <<"NEW", "IN_TRIAGE">>,
                        <<"IN_TRIAGE", "ESCALATED">>, <<"IN_TRIAGE", "BENIGN">>,
                        <<"ESCALATED", "CLOSED">>, <<"BENIGN", "CLOSED">> }

WorkflowInit ==
  /\ status = [a \in Alerts |-> "ABSENT"]
  /\ trail = [a \in Alerts |-> <<>>]

\* One evaluation of the rules raises all its alerts in one transaction.
Raise(S) ==
  /\ \A a \in S : status[a] = "ABSENT"
  /\ status' = [a \in Alerts |-> IF a \in S THEN "NEW" ELSE status[a]]
  /\ trail' = [a \in Alerts |-> IF a \in S THEN Append(trail[a], "NEW") ELSE trail[a]]

Transition(a, s) ==
  /\ <<status[a], s>> \in AllowedTransitions
  /\ status' = [status EXCEPT ![a] = s]
  /\ trail' = [trail EXCEPT ![a] = Append(@, s)]

WorkflowNext ==
  \/ \E S \in SUBSET Alerts : Raise(S)
  \/ \E a \in Alerts, s \in AlertStatus : Transition(a, s)

WorkflowSpec == WorkflowInit /\ [][WorkflowNext]_workflowVars
=============================================================================
