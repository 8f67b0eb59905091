----------------------------- MODULE MCSessions -----------------------------
(***************************************************************************)
(* An instance of Sessions for TLC.                                        *)
(***************************************************************************)
EXTENDS Sessions, TLC

\* Tabs, users and sessions are interchangeable.
Symmetry == Permutations(Tabs) \cup Permutations(Users) \cup Permutations(Ids)
=============================================================================
