------------------------------ MODULE MCStorage ------------------------------
(* Storage for TLC: two transactions on two keys, on either backend.        *)
EXTENDS Storage, TLC

Symmetry == Permutations(Txn) \cup Permutations(Key) \cup Permutations(Value)

\* Transactions of cas_bytes only, as those of the lease: no blind writes.
SwapsOnly ==
  \E t \in Txn :
    \/ Begin(t) \/ Commit(t) \/ Abort(t)
    \/ \E k \in Key, expected, new \in Cell : CasRead(t, k, expected, new)
    \/ CasWrite(t)

SwapSpec == Init /\ [][SwapsOnly]_vars
=============================================================================
