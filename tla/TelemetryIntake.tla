------------------------- MODULE TelemetryIntake --------------------------
(***************************************************************************)
(* What the import of telemetry promises: a file is taken in as a whole or *)
(* not at all, at most once, and an event belongs to the first file that   *)
(* supplied it, however often it is supplied again.                        *)
(*                                                                         *)
(* Source: import_fixture of telemetry.py and the UNIQUE columns of        *)
(* SourceBatch and Event in models.py.                                     *)
(***************************************************************************)
EXTENDS Sequences, Functions

CONSTANTS Fixtures,    \* the files, by content
          Supplies     \* Supplies[f]: the stable identities of the events in f

VARIABLES taken,       \* the files taken in, oldest first
          origin       \* origin[i]: the file the stored event i came from

intakeVars == <<taken, origin>>

IntakeInit ==
  /\ taken = <<>>
  /\ origin = <<>>

TakeIn(f) ==
  /\ f \notin Range(taken)
  /\ taken' = Append(taken, f)
  /\ origin' = [i \in DOMAIN origin \cup Supplies[f] |->
                  IF i \in DOMAIN origin THEN origin[i] ELSE f]

IntakeNext == \E f \in Fixtures : TakeIn(f)

IntakeSpec == IntakeInit /\ [][IntakeNext]_intakeVars
=============================================================================
