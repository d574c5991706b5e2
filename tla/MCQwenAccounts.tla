--------------------------- MODULE MCQwenAccounts ---------------------------
(***************************************************************************)
(* Two requests that share an account, or a worker, or both.  Where they   *)
(* share the account, one of them may use the token service, or the token  *)
(* they start from may have no jar.                                        *)
(***************************************************************************)
EXTENDS QwenAccounts, TLC

Own == \A r \in Requests : ~delegated[r]
Jarred == \A a \in Accounts : l2[a] # NoDoc => l2[a].jar # NoJar

MCInit ==
  /\ Init
  /\ \A q, r \in Requests : home[q] = home[r] \/ key[q] = key[r]
  /\ \/ Own /\ Jarred
     \/ /\ Own \/ minted = <<>>
        /\ ~\A r \in Requests : delegated[r]
        /\ \A q, r \in Requests : key[q] = key[r]
MCSpec == MCInit /\ [][Next]_vars

Symmetry ==
  Permutations(Workers) \cup Permutations(Accounts) \cup Permutations(Requests)
=============================================================================
