-------------------------- MODULE MCAccountsCache --------------------------
(***************************************************************************)
(* Two tasks that share a cache of two accounts, which transactions write, *)
(* one at a time or together, and delete.                                  *)
(***************************************************************************)
EXTENDS AccountsCache, TLC

CONSTANTS k1, k2, c1, c2

TwoRequests == {<<k1, k2>>, <<k2, k1, k2>>}

BothPresent == (k1 :> "a" @@ k2 :> "a")
OneMissing == (k1 :> "a" @@ k2 :> Missing)

SomeWrites == {k1 :> "b", k1 :> "b" @@ k2 :> "b", k2 :> Missing}

Tasks == Permutations({c1, c2})
=============================================================================
