----------------------- MODULE MCEvidenceCollection -----------------------
(***************************************************************************)
(* An instance of EvidenceCollection for TLC.                              *)
(***************************************************************************)
EXTENDS EvidenceCollection, TLC

\* A complete collection fills stdout to its limit; stderr takes one byte.
MCLimit == ("stdout" :> 2) @@ ("stderr" :> 1)

MCArtifactTypes == <<"system", "logins">>
=============================================================================
