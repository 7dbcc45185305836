---------------------------- MODULE MCWorkspaces ----------------------------
(* An analyst and an administrator, three charts of two queries, one board. *)
EXTENDS Workspaces, TLC

CONSTANTS ana, adm, q1, q2, c1, c2, c3, b1

\* The second query is the administrator's, nobody's, or yet to be saved.  The
\* board is yet to be saved, or from before accounts and nobody's.
Library(second, owner, want) ==
  [query |-> q1 :> ana @@ q2 :> second,
   chart |-> c1 :> q1 @@ c2 :> q1 @@ c3 :> IF second = None THEN None ELSE q2,
   board |-> b1 :> owner, want |-> b1 :> want]
MCStarts == {Library(second, None, <<>>) : second \in {adm, Nobody, None}}
              \cup {Library(Nobody, Nobody, <<c3>>)}
MCArrangements == {<<c1>>, <<c2, c1, c2>>, <<c3, c2>>}
Interchangeable == Permutations(Threads)
=============================================================================
