----------------------------- MODULE MCAccounts -----------------------------
(* Two accounts, each signed in once, and two requests at a time.          *)
EXTENDS Accounts, TLC

CONSTANTS boss, peer, s1, s2

MCSignedIn == s1 :> boss @@ s2 :> peer @@ [s \in Tokens |-> None]
Interchangeable == Permutations(Threads)
=============================================================================
