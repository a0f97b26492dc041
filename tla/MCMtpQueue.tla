---------------------------- MODULE MCMtpQueue ----------------------------
(***************************************************************************)
(* Instances of MtpQueue for TLC.                                          *)
(***************************************************************************)
EXTENDS MtpQueue, TLC

\* Threads of one kind and jobs are interchangeable.  Used for safety only.
Symmetry ==
    Permutations(Workers) \cup Permutations(Producers) \cup Permutations(Jobs)

\* For progress the behaviours that differ only in names are left out by hand:
\* a pool with some threads has the first one,
PoolInit == Init /\ (CHOOSE w \in Workers : TRUE) \in Tharr

PoolSpec == PoolInit /\ [][Next]_vars /\ Fairness

\* and Add is called for the jobs, here numbers, in order.
JobsInOrder ==
    \A i, j \in Jobs : i < j /\ verdict'[j] # "none" => verdict'[i] # "none"
=============================================================================
