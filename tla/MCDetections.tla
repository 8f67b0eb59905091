--------------------------- MODULE MCDetections ---------------------------
(***************************************************************************)
(* An instance of Detections for TLC: logins of two actors with failures   *)
(* at the edge of the window and at one instant, one sudo command and one  *)
(* alert of Suricata, delivered by two imports that may come in either     *)
(* order; AUTH-001 in three contents, two of them under one version        *)
(* number and one that load_rules refuses.                                 *)
(***************************************************************************)
EXTENDS Detections, TLC

CONSTANTS v1, e1, e2

Login(time, actor, outcome) ==
  [time |-> time, what |-> "SSH_PASSWORD", actor |-> actor, outcome |-> outcome, complete |-> TRUE]

MCFeed == <<
  Login(0, "kim", "FAILURE"),
  [time |-> 10, what |-> "SUDO_COMMAND", actor |-> "kim", outcome |-> "SUCCESS", complete |-> TRUE],
  Login(300, "kim", "FAILURE"),
  Login(300, "kim", "FAILURE"),
  [time |-> 300, what |-> "NETWORK_ALERT", actor |-> "", outcome |-> "HIGH", complete |-> TRUE],
  Login(310, "lee", "FAILURE"),
  [Login(320, "kim", "FAILURE") EXCEPT !.complete = FALSE],
  Login(600, "kim", "SUCCESS"),
  Login(620, "kim", "FAILURE"),
  Login(700, "kim", "SUCCESS") >>

MCDeliveries == {{1, 3, 5, 6, 9, 10}, {2, 4, 7, 8}}

Window(version, threshold) == [version |-> version, threshold |-> threshold, window |-> 300]
Plain(version) == [version |-> version, threshold |-> 0, window |-> 0]

MCContents ==
  ("AUTH-001" :> {Window("1.0.0", 2), Window("1.0.0", 3), Window("1.0.1", 1)}) @@
  ("AUTH-002" :> {Window("1.0.0", 2)}) @@
  [r \in {"PRIV-001", "NET-001", "EVID-001"} |-> {Plain("1.0.0")}]

\* Nothing distinguishes one evaluation from another.
Interchangeable == Permutations({e1, e2})
=============================================================================
