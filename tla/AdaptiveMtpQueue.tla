-------------------------- MODULE AdaptiveMtpQueue --------------------------
(***************************************************************************)
(* TAdaptiveMtpQueue, the queue that makes a thread whenever a job finds   *)
(* none free (src/util/thread/queue.cpp, class TAdaptiveMtpQueue::TImpl).  *)
(*                                                                         *)
(* The queue holds one job, Obj_.  All its state but the count of threads  *)
(* is accessed under Mutex_, and no critical section does anything else    *)
(* before it releases the mutex or waits, so each is one step; what a      *)
(* thread does after the release, the signals above all, is a step of its  *)
(* own.  The count is atomic, and is decremented without the mutex.        *)
(*                                                                         *)
(* Callers are Producers and, when Nested holds, threads whose job calls   *)
(* Add.  The owner destroys the queue when no producer is inside Add, as   *)
(* every user of the class does; jobs may still call Add at that time.     *)
(* A member of Threads is the name of a thread: it is free again when the  *)
(* thread has gone.  An Add makes at most one thread, so as many names as  *)
(* jobs are enough.                                                        *)
(***************************************************************************)
EXTENDS Naturals, FiniteSets

CONSTANTS
    Threads,        \* names for the threads of the queue
    Producers,      \* the other threads that call Add
    Jobs,           \* the objects passed to Add, each at most once
    Nested,         \* may a job call Add
    MaxFailures,    \* bound on the threads that cannot be created
    None            \* no job

Callers == Producers \cup Threads

ASSUME AdaptiveAssumption ==
    /\ IsFiniteSet(Threads) /\ IsFiniteSet(Jobs)
    /\ Cardinality(Jobs) <= Cardinality(Threads)
    /\ Threads \cap Producers = {}
    /\ Nested \in BOOLEAN
    /\ MaxFailures \in Nat
    /\ None \notin Jobs

VARIABLES
    Obj_, Free_, ThrCount_, AllDone_,
    apc, arg,         \* where each caller is in Add, and its job
    tpc, job,         \* where each thread is in DoExecute, and what it took
    opc,              \* where the owner is in Stop
    verdict,          \* how Add ended for each job
    finished,         \* the jobs whose processing has ended
    failures          \* the threads that could not be created

queueVars == <<Obj_, Free_, ThrCount_, AllDone_>>
addVars == <<apc, arg>>
threadVars == <<tpc, job>>
history == <<verdict, finished, failures>>
vars == <<queueVars, addVars, threadVars, opc, history>>

\* The wait sets of the condition variables.
CondFree_ == {t \in Callers : apc[t] = "waiting"}
CondReady_ == {h \in Threads : tpc[h] = "waiting"}

SignalReady ==
    \/ CondReady_ = {} /\ UNCHANGED tpc
    \/ \E h \in CondReady_ : tpc' = [tpc EXCEPT ![h] = "woken"]

\* After Start.
Init ==
    /\ Obj_ = None /\ Free_ = 0 /\ ThrCount_ = 0 /\ AllDone_ = FALSE
    /\ apc = [t \in Callers |-> "idle"]
    /\ arg = [t \in Callers |-> None]
    /\ tpc = [h \in Threads |-> "gone"]
    /\ job = [h \in Threads |-> None]
    /\ opc = "using"
    /\ verdict = [j \in Jobs |-> "none"]
    /\ finished = {}
    /\ failures = 0

-----------------------------------------------------------------------------
(* Add, called by t.                                                       *)

MayCall(t) == (t \in Producers /\ opc \in {"using", "stopped"})
                \/ (Nested /\ t \in Threads /\ tpc[t] = "run")

Return(t, how) ==
    /\ apc' = [apc EXCEPT ![t] = "idle"]
    /\ arg' = [arg EXCEPT ![t] = None]
    /\ verdict' = [verdict EXCEPT ![arg[t]] = how]

\* Without a TImpl Add throws.
AddCall(t, j) ==
    /\ MayCall(t)
    /\ apc[t] = "idle"
    /\ verdict[j] = "none"
    /\ IF opc = "stopped"
       THEN /\ verdict' = [verdict EXCEPT ![j] = "failed"]
            /\ UNCHANGED addVars
       ELSE /\ verdict' = [verdict EXCEPT ![j] = "called"]
            /\ apc' = [apc EXCEPT ![t] = "lock"]
            /\ arg' = [arg EXCEPT ![t] = j]
    /\ UNCHANGED <<queueVars, threadVars, opc, finished, failures>>

\* The place is taken: wait on CondFree_, also once AllDone_ is set.
AddWait(t) ==
    /\ apc[t] = "lock"
    /\ Obj_ # None
    /\ apc' = [apc EXCEPT ![t] = "waiting"]
    /\ UNCHANGED <<queueVars, arg, threadVars, opc, history>>

\* Faulty variant: the thread is counted by nobody.
AddThreadUncounted(h) ==
    /\ tpc[h] = "gone"
    /\ tpc' = [tpc EXCEPT ![h] = "lock"]
    /\ UNCHANGED ThrCount_

\* AddThreadNoLock: the creator counts the thread, which waits for the mutex.
AddThreadNoLock(h) ==
    /\ tpc[h] = "gone"
    /\ tpc' = [tpc EXCEPT ![h] = "lock"]
    /\ ThrCount_' = ThrCount_ + 1

\* The place is free: a thread is made if none is free, the job is left in
\* Obj_, and Add goes on to signal; once AllDone_ is set it throws instead,
\* with the job in place.
AddPut(t) ==
    /\ apc[t] = "lock"
    /\ Obj_ = None
    /\ \/ Free_ > 0 /\ UNCHANGED <<tpc, ThrCount_>>
       \/ Free_ = 0 /\ \E h \in Threads : AddThreadNoLock(h)
    /\ Obj_' = arg[t]
    /\ IF AllDone_ THEN Return(t, "threw")
       ELSE apc' = [apc EXCEPT ![t] = "signal"] /\ UNCHANGED <<arg, verdict>>
    /\ UNCHANGED <<Free_, AllDone_, job, opc, finished, failures>>

\* The thread cannot be created: the count is restored and Add throws.
AddFail(t) ==
    /\ apc[t] = "lock"
    /\ Obj_ = None
    /\ Free_ = 0
    /\ failures < MaxFailures
    /\ failures' = failures + 1
    /\ Return(t, "failed")
    /\ UNCHANGED <<queueVars, threadVars, opc, finished>>

\* CondReady_.Signal, after the release.
AddSignal(t) ==
    /\ apc[t] = "signal"
    /\ SignalReady
    /\ Return(t, "accepted")
    /\ UNCHANGED <<queueVars, job, opc, finished, failures>>

-----------------------------------------------------------------------------
(* DoExecute, run by thread h.                                             *)

Idle == Obj_ = None /\ ~AllDone_

\* WaitForJob takes what is there, possibly nothing, and releases the mutex.
Take(h) ==
    /\ job' = [job EXCEPT ![h] = Obj_]
    /\ Obj_' = None
    /\ tpc' = [tpc EXCEPT ![h] = "took"]

\* WaitForJob is entered: the thread is free until it has taken something.
EnterWait(h) ==
    /\ tpc[h] = "lock"
    /\ \/ /\ Idle
          /\ Free_' = Free_ + 1
          /\ tpc' = [tpc EXCEPT ![h] = "waiting"]
          /\ UNCHANGED <<Obj_, job>>
       \/ /\ ~Idle
          /\ Take(h)
          /\ UNCHANGED Free_
    /\ UNCHANGED <<ThrCount_, AllDone_, addVars, opc, history>>

\* The thread was woken and holds the mutex again.
Woken(h) ==
    /\ tpc[h] = "woken"
    /\ \/ /\ Idle
          /\ tpc' = [tpc EXCEPT ![h] = "waiting"]
          /\ UNCHANGED <<Obj_, Free_, job>>
       \/ /\ ~Idle
          /\ Take(h)
          /\ Free_' = Free_ - 1
    /\ UNCHANGED <<ThrCount_, AllDone_, addVars, opc, history>>

\* Faulty variant: a thread whose time is over takes nothing.
TimedOutLeave(h) ==
    /\ tpc[h] = "timedout"
    /\ tpc' = [tpc EXCEPT ![h] = "took"]
    /\ Free_' = Free_ - 1
    /\ UNCHANGED <<Obj_, ThrCount_, AllDone_, addVars, job, opc, history>>

\* The idle time was over; the loop is left whatever has come meanwhile.
TimedOut(h) ==
    /\ tpc[h] = "timedout"
    /\ Take(h)
    /\ Free_' = Free_ - 1
    /\ UNCHANGED <<ThrCount_, AllDone_, addVars, opc, history>>

\* Faulty variant: the callers that wait for the place are not told.
TookSilent(h) ==
    /\ tpc[h] = "took"
    /\ tpc' = [tpc EXCEPT ![h] = IF job[h] = None THEN "exit" ELSE "run"]
    /\ UNCHANGED <<queueVars, addVars, job, opc, history>>

\* CondFree_.Signal, after the release; then the job, or the end.
Took(h) ==
    /\ tpc[h] = "took"
    /\ \/ CondFree_ = {} /\ UNCHANGED apc
       \/ \E t \in CondFree_ : apc' = [apc EXCEPT ![t] = "lock"]
    /\ tpc' = [tpc EXCEPT ![h] = IF job[h] = None THEN "exit" ELSE "run"]
    /\ UNCHANGED <<queueVars, arg, job, opc, history>>

\* Process returns or throws.
Done(h) ==
    /\ tpc[h] = "run"
    /\ apc[h] = "idle"
    /\ finished' = finished \cup {job[h]}
    /\ job' = [job EXCEPT ![h] = None]
    /\ tpc' = [tpc EXCEPT ![h] = "lock"]
    /\ UNCHANGED <<queueVars, addVars, opc, verdict, failures>>

\* The destructor of TThread; nothing of the queue is used afterwards.
DecThreadCount(h) ==
    /\ tpc[h] = "exit"
    /\ ThrCount_' = ThrCount_ - 1
    /\ tpc' = [tpc EXCEPT ![h] = "gone"]
    /\ UNCHANGED <<Obj_, Free_, AllDone_, addVars, job, opc, history>>

\* TimedWait ends because the idle time is over,
IdleTimeOver(h) ==
    /\ h \in CondReady_
    /\ tpc' = [tpc EXCEPT ![h] = "timedout"]
    /\ UNCHANGED <<queueVars, addVars, job, opc, history>>

\* or, like Wait, without any reason.
SpuriousThread(h) ==
    /\ h \in CondReady_
    /\ tpc' = [tpc EXCEPT ![h] = "woken"]
    /\ UNCHANGED <<queueVars, addVars, job, opc, history>>

WaitEnds(h) == IdleTimeOver(h) \/ SpuriousThread(h)

SpuriousCaller(t) ==
    /\ t \in CondFree_
    /\ apc' = [apc EXCEPT ![t] = "lock"]
    /\ UNCHANGED <<queueVars, arg, threadVars, opc, history>>

-----------------------------------------------------------------------------
(* Stop, called by the owner from the destructor of TImpl.                 *)

StopCall ==
    /\ opc = "using"
    /\ \A p \in Producers : apc[p] = "idle"
    /\ AllDone_' = TRUE
    /\ opc' = "loop"
    /\ UNCHANGED <<Obj_, Free_, ThrCount_, addVars, threadVars, history>>

\* While threads are counted, release, signal and acquire again.
StopLoop ==
    /\ opc = "loop"
    /\ opc' = IF ThrCount_ = 0 THEN "stopped" ELSE "signal"
    /\ UNCHANGED <<queueVars, addVars, threadVars, history>>

StopSignal ==
    /\ opc = "signal"
    /\ SignalReady
    /\ opc' = "loop"
    /\ UNCHANGED <<queueVars, addVars, job, history>>

-----------------------------------------------------------------------------
\* The critical sections: steps for which Mutex_ is acquired.
AddLocked(t) == AddWait(t) \/ AddPut(t) \/ AddFail(t)

WaitForJob(h) == EnterWait(h) \/ Woken(h) \/ TimedOut(h)

AddStep(t) == AddLocked(t) \/ AddSignal(t)

ThreadStep(h) ==
    WaitForJob(h) \/ Took(h) \/ Done(h) \/ DecThreadCount(h)

StopStep == StopLoop \/ StopSignal

Next ==
    \/ \E t \in Callers : \/ AddStep(t) \/ SpuriousCaller(t)
                           \/ \E j \in Jobs : AddCall(t, j)
    \/ \E h \in Threads : ThreadStep(h) \/ WaitEnds(h)
    \/ StopCall
    \/ StopStep

Spec == Init /\ [][Next]_vars

\* What the scheduler gives: a thread outside Mutex_ takes its next step, jobs
\* end, and when threads want Mutex_ one of them gets it, anyone.  Nobody need
\* call Add or Stop, and no wait need end by itself.
Fairness ==
    /\ \A t \in Callers : WF_vars(AddSignal(t))
    /\ \A h \in Threads : WF_vars(Took(h) \/ Done(h) \/ DecThreadCount(h))
    /\ WF_vars(StopSignal)
    /\ WF_vars(\/ \E t \in Callers : AddLocked(t)
               \/ \E h \in Threads : WaitForJob(h)
               \/ StopLoop)

FairSpec == Spec /\ Fairness

-----------------------------------------------------------------------------
(* Properties.                                                             *)

\* The counts that Add and Stop decide by are exact: Free_ is the number of
\* threads in WaitForJob's loop and ThrCount_ that of the threads that have not
\* gone, although it is changed without the mutex.  So when Stop has returned
\* and the object is freed no thread is left that could touch it, not even one
\* that a job's Add made while Stop was spinning, and no job.
NobodyLeft ==
    /\ Free_ = Cardinality({h \in Threads : tpc[h] \in {"waiting", "woken", "timedout"}})
    /\ ThrCount_ = Cardinality({h \in Threads : tpc[h] # "gone"})
    /\ opc = "stopped" =>
          /\ \A h \in Threads : tpc[h] = "gone"
          /\ Obj_ = None

\* What has become of job j, in the terms of JobQueue.  A job whose Add threw is
\* refused, unless it is processed all the same.
Status(j) ==
    CASE j \in finished -> "done"
      [] j \notin finished /\ \E h \in Threads : job[h] = j /\ tpc[h] = "run" ->
            "running"
      [] OTHER ->
            IF verdict[j] \in {"failed", "threw"} THEN "refused"
            ELSE IF j = Obj_ \/ \E h \in Threads : job[h] = j THEN "pending"
            ELSE "fresh"

Phase == IF opc = "using" THEN "open"
         ELSE IF opc = "stopped" THEN "closed" ELSE "closing"

Abstract ==
    INSTANCE JobQueue WITH phase <- Phase, status <- [j \in Jobs |-> Status(j)]

\* "@return false if queue is full or shutting down" (queue.h:90): seen from
\* outside, the queue that makes and loses threads is the abstract job queue, in
\* which a job that was not added is not processed.  It is not: an Add that finds
\* AllDone_ throws with the job in Obj_, and a thread processes the job.
ImplementsJobQueue == Abstract!ASpec

\* What the caller of Add was told has become of job j: what has become of it,
\* or, if its Add found the queue stopping, that it was refused.
Told(j) == IF verdict[j] = "threw" THEN "refused" ELSE Status(j)

AsTold ==
    INSTANCE JobQueue WITH phase <- Phase, status <- [j \in Jobs |-> Told(j)]

\* Late jobs are all that is wrong: for every other job, and at every time, the
\* queue is the abstract job queue.  A job is processed once and before Stop
\* returns, also if the only free thread leaves because its idle time is over.
ImplementsButForLateJobs == AsTold!ASpec

-----------------------------------------------------------------------------
\* A caller that waits for the place gets it, unless a thread could not be
\* created: the caller whose Add fails has used up the signal that another one
\* waits for, and sends none itself.  Every job that is put into the queue is
\* processed, whatever threads leave because their idle time is over.
Served ==
    /\ \A t \in Callers : (apc[t] # "idle") ~> (apc[t] = "idle" \/ failures > 0)
    /\ \A j \in Jobs : (Obj_ = j) ~> (j \in finished)

\* The same as long as Stop has not been called.
ServedInUse ==
    /\ \A t \in Callers : (apc[t] # "idle") ~>
                              (apc[t] = "idle" \/ failures > 0 \/ opc # "using")
    /\ \A j \in Jobs : (Obj_ = j) ~> (j \in finished \/ opc # "using")

StopReturns == (opc # "using") ~> (opc = "stopped")

SpuriousWakeup ==
    \/ \E t \in Callers : SpuriousCaller(t)
    \/ \E h \in Threads : SpuriousThread(h)

\* Whoever wants Mutex_ gets it, however often others take it meanwhile.
MutexIsFair ==
    /\ \A t \in Callers : WF_vars(AddLocked(t))
    /\ \A h \in Threads : WF_vars(WaitForJob(h))
    /\ WF_vars(StopLoop)

\* Nobody waits for ever.  Until Stop is called this takes no more than that the
\* spurious wakeups come to an end: all else that acquires Mutex_ does so finitely
\* often.  Stop's loop acquires it again and again, so that from then on it takes
\* a mutex that starves nobody, which no code here provides.
Progress ==
    /\ <>[][~SpuriousWakeup]_vars => ServedInUse
    /\ MutexIsFair => Served /\ StopReturns
=============================================================================
