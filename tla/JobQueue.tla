------------------------------ MODULE JobQueue ------------------------------
(***************************************************************************)
(* What a queue processed by several threads promises its callers          *)
(* (interface IMtpQueue, src/util/thread/queue.h): a job that Add accepted *)
(* is processed exactly once, a job that Add refused is never processed,   *)
(* and Stop returns only when every accepted job has been processed.       *)
(* Nothing is said here of threads, locks, or of the order of the jobs.    *)
(***************************************************************************)

CONSTANT Jobs    \* the objects passed to Add

VARIABLES
    phase,       \* "open", then "closing" once Stop is called, then "closed"
    status       \* what has become of each job

avars == <<phase, status>>

Statuses == {"fresh", "pending", "running", "done", "refused"}

ATypeOK ==
    /\ phase \in {"open", "closing", "closed"}
    /\ status \in [Jobs -> Statuses]

AInit ==
    /\ phase = "open"
    /\ status = [j \in Jobs |-> "fresh"]

Become(j, s) ==
    /\ status' = [status EXCEPT ![j] = s]
    /\ UNCHANGED phase

\* A job may still be accepted while Stop waits, never after Stop returned.
Accept(j) ==
    /\ phase # "closed"
    /\ status[j] = "fresh"
    /\ Become(j, "pending")

Refuse(j) ==
    /\ status[j] = "fresh"
    /\ Become(j, "refused")

\* A queue without threads processes the job in the thread that adds it.
RunInline(j) ==
    /\ phase # "closed"
    /\ status[j] = "fresh"
    /\ Become(j, "running")

Begin(j) ==
    /\ status[j] = "pending"
    /\ Become(j, "running")

Finish(j) ==
    /\ status[j] = "running"
    /\ Become(j, "done")

CallStop ==
    /\ phase = "open"
    /\ phase' = "closing"
    /\ UNCHANGED status

ReturnFromStop ==
    /\ phase = "closing"
    /\ \A j \in Jobs : status[j] \notin {"pending", "running"}
    /\ phase' = "closed"
    /\ UNCHANGED status

ANext ==
    \/ \E j \in Jobs : \/ Accept(j) \/ Refuse(j) \/ RunInline(j)
                       \/ Begin(j) \/ Finish(j)
    \/ CallStop
    \/ ReturnFromStop

ASpec == AInit /\ [][ANext]_avars
=============================================================================
