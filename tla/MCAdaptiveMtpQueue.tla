------------------------- MODULE MCAdaptiveMtpQueue -------------------------
(***************************************************************************)
(* Instances of AdaptiveMtpQueue for TLC, with numbers for threads and     *)
(* jobs.                                                                   *)
(***************************************************************************)
EXTENDS AdaptiveMtpQueue

\* Threads and jobs are interchangeable.  As symmetry reduction is not sound for
\* progress, behaviours that differ only in names are left out by hand: a new
\* thread gets the first free name, and Add is called for the jobs in order.
NamesInOrder ==
    /\ \A g, h \in Threads :
          g < h /\ tpc[h] = "gone" /\ tpc'[h] # "gone" => tpc[g] # "gone"
    /\ \A i, j \in Jobs : i < j /\ verdict'[j] # "none" => verdict'[i] # "none"
=============================================================================
