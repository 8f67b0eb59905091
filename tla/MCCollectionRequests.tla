----------------------- MODULE MCCollectionRequests -----------------------
(***************************************************************************)
(* Instances of CollectionRequests for TLC.                                *)
(***************************************************************************)
EXTENDS CollectionRequests, TLC

CONSTANTS c1, c2, r1, r2, r3

\* One case with one request: the handlers of one row race.
OneCaseOf == (r1 :> c1)

\* One case with two requests, and a second case beside it.
TwoCaseOf == (r1 :> c1) @@ (r2 :> c1) @@ (r3 :> c2)

\* One case with three requests: creations race.
ThreeCaseOf == (r1 :> c1) @@ (r2 :> c1) @@ (r3 :> c1)

\* The requests, and the threads, of that instance are alike.
Alike == Permutations(Requests) \cup Permutations(Workers)

\* The bound of that instance: a state is continued while there is only one
\* request, or while the three have at most eleven history rows.  Three requests
\* that all go live take at least three rows; the other eight are for reviews and
\* executions that race with the creations.
OneOrElevenRows ==
  \/ Cardinality({r \in Requests : history[r] # <<>>}) =< 1
  \/ Len(history[r1]) + Len(history[r2]) + Len(history[r3]) =< 11
=============================================================================
