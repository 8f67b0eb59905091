------------------------ MODULE MCTelemetryImport -------------------------
(***************************************************************************)
(* An instance of TelemetryImport for TLC: two Linux files that supply one *)
(* event both, written with different UTC offsets, one of them with a line *)
(* that is refused and the other with a line repeated; and a Suricata file *)
(* whose alert names the asset as its source.                              *)
(***************************************************************************)
EXTENDS TelemetryImport, TLC

CONSTANTS core, endpoint, linux1, linux2, eve, i1, i2

MCSourceOf == (linux1 :> "LINUX_AUTH") @@ (linux2 :> "LINUX_AUTH") @@ (eve :> "SURICATA_EVE")

Ssh(host, wall, offset, what) ==
  [dest |-> host, src |-> None, wall |-> wall, offset |-> offset, what |-> what,
   who |-> "kim", severity |-> 0, flaws |-> {}]

Alert(dest, src, time, severity) ==
  [dest |-> dest, src |-> src, wall |-> time, offset |-> 0, what |-> "NETWORK_ALERT",
   who |-> "flow", severity |-> severity, flaws |-> {}]

MCLines ==
  (linux1 :> << Ssh(core, 3, 0, "FAILURE"), Ssh(core, 5, 0, "SUCCESS"),
                [Ssh(core, 4, 0, "FAILURE") EXCEPT !.flaws = {"INVALID_TIMESTAMP", "MISSING_FIELDS"}] >>) @@
  (linux2 :> << Ssh(core, 4, 1, "FAILURE"), Ssh(core, 4, 0, "FAILURE"),
                Ssh(core, 5, 1, "FAILURE") >>) @@
  (eve :> << Alert(None, endpoint, 2, 2), Alert(None, endpoint, 3, 3), Alert(None, None, 6, 1) >>)

\* Nothing distinguishes one command-line process from another.
Interchangeable == Permutations({i1, i2})
=============================================================================
