------------------------------ MODULE MtpQueue ------------------------------
(***************************************************************************)
(* TMtpQueue, the job queue served by a fixed pool of threads              *)
(* (src/util/thread/queue.cpp, class TMtpQueue::TImpl).                    *)
(*                                                                         *)
(* One behaviour is the life of one TImpl: it begins when Start has        *)
(* created the threads and ends when Stop has destroyed the object.  The   *)
(* actors are the worker threads (DoExecute), the callers of Add and the   *)
(* owner, who calls Stop.  Callers are Producers, threads that are not     *)
(* workers, and, when Nested holds, workers whose job calls Add.           *)
(*                                                                         *)
(* A lock is its holder.  A condition variable is the set of threads whose *)
(* pc says that they wait on it; Signal moves an arbitrary waiter, if      *)
(* there is one, to the acquisition of the mutex, and a waiter may also    *)
(* wake up by itself.  ShouldTerminate is read and written without a lock, *)
(* so a read of it and the use of what was read are two steps.  Everything *)
(* else between the acquisition of a mutex and its release is one step.    *)
(***************************************************************************)
EXTENDS Naturals, Sequences, FiniteSets

CONSTANTS
    Workers,        \* the threads that Start may create
    Producers,      \* the other threads that call Add
    Owner,          \* the thread that calls Stop
    Jobs,           \* the objects passed to Add, each at most once
    MaxQueueSize,   \* 0: no limit
    Kinds,          \* the queues considered: the values of Blocking
    Nested,         \* may a job call Add
    MaxSpurious,    \* bound on the number of spurious wakeups
    None            \* no thread, no job

Callers == Producers \cup Workers

ASSUME WorkersAssumption == IsFiniteSet(Workers)
ASSUME LimitAssumption == MaxQueueSize \in Nat /\ MaxSpurious \in Nat
ASSUME FlagAssumption == Kinds \subseteq BOOLEAN /\ Nested \in BOOLEAN
ASSUME DistinctAssumption ==
    /\ Workers \cap Producers = {}
    /\ Owner \notin Callers
    /\ None \notin Callers \cup {Owner} \cup Jobs

VARIABLES
    Tharr,            \* the threads that Start has created
    Blocking,         \* does Add wait while the queue is full
    ShouldTerminate,
    Queue,            \* sequence of jobs
    ThreadCountReal,
    QueueMutex,       \* the thread that holds it, or None
    StopMutex,
    apc,              \* where each caller is in Add
    arg,              \* the job each caller is adding
    wpc,              \* where each worker is in DoExecute
    job,              \* the job each worker has taken
    opc,              \* where the owner is in Stop
    verdict,          \* what Add returned for each job
    started,          \* how often the processing of each job has begun
    finished,         \* the jobs whose processing has ended
    spurious          \* the spurious wakeups so far

setup == <<Tharr, Blocking>>
queueVars == <<setup, ShouldTerminate, Queue, ThreadCountReal>>
syncVars == <<QueueMutex, StopMutex>>
addVars == <<apc, arg>>
workerVars == <<wpc, job>>
history == <<verdict, started, finished>>
vars == <<queueVars, syncVars, addVars, workerVars, opc, history, spurious>>

\* The wait sets of the condition variables; the owner waits on the third.
QueuePushCond == {w \in Workers : wpc[w] = "waiting"}
QueuePopCond == {t \in Callers : apc[t] = "waiting"}
StopCond == {o \in {Owner} : opc = "waiting"}

\* The queue after Start: any number of threads, none of them included, and
\* either kind of Add.  A thread that was not created is as one that has exited.
Init ==
    /\ Tharr \in SUBSET Workers
    /\ Blocking \in Kinds
    /\ ShouldTerminate = FALSE
    /\ Queue = <<>>
    /\ ThreadCountReal = Cardinality(Tharr)
    /\ QueueMutex = None
    /\ StopMutex = None
    /\ apc = [t \in Callers |-> "idle"]
    /\ arg = [t \in Callers |-> None]
    /\ wpc = [w \in Workers |-> IF w \in Tharr THEN "lock" ELSE "exited"]
    /\ job = [w \in Workers |-> None]
    /\ opc = "using"
    /\ verdict = [j \in Jobs |-> "none"]
    /\ started = [j \in Jobs |-> 0]
    /\ finished = {}
    /\ spurious = 0

-----------------------------------------------------------------------------
(***************************************************************************)
(* Add, called by t.                                                       *)
(***************************************************************************)

\* t may call Add: a producer at any time, a worker from inside a job.
MayCall(t) == t \in Producers \/ (Nested /\ t \in Workers /\ wpc[t] = "run")

Goto(t, label) == apc' = [apc EXCEPT ![t] = label]

\* Add returns result for the job that t is adding.
Return(t, result) ==
    /\ Goto(t, "idle")
    /\ arg' = [arg EXCEPT ![t] = None]
    /\ verdict' = [verdict EXCEPT ![arg[t]] = result]

\* Add is called for j while the queue exists.
AddCall(t, j) ==
    /\ MayCall(t)
    /\ apc[t] = "idle"
    /\ opc # "stopped"
    /\ verdict[j] = "none"
    /\ verdict' = [verdict EXCEPT ![j] = "called"]
    /\ arg' = [arg EXCEPT ![t] = j]
    /\ Goto(t, "entry")
    /\ UNCHANGED <<queueVars, syncVars, workerVars, opc, started, finished,
                   spurious>>

\* TMtpQueue::Add throws when there is no TImpl.
AddThrow(t, j) ==
    /\ MayCall(t)
    /\ apc[t] = "idle"
    /\ opc = "stopped"
    /\ verdict[j] = "none"
    /\ verdict' = [verdict EXCEPT ![j] = "refused"]
    /\ UNCHANGED <<queueVars, syncVars, addVars, workerVars, opc, started,
                   finished, spurious>>

\* The first, unlocked test of ShouldTerminate.
AddRefuseEarly(t) ==
    /\ apc[t] = "entry"
    /\ ShouldTerminate
    /\ Return(t, "refused")
    /\ UNCHANGED <<queueVars, syncVars, workerVars, opc, started, finished,
                   spurious>>

\* Is there a thread in Tharr?  It is filled before the first Add.
AddEntry(t) ==
    /\ apc[t] = "entry"
    /\ ~ShouldTerminate
    /\ \/ Tharr = {} /\ Goto(t, "inline")
       \/ Tharr # {} /\ Goto(t, "lock")
    /\ UNCHANGED <<queueVars, syncVars, arg, workerVars, opc, history,
                   spurious>>

\* Without threads Add processes the job itself.
AddInlineBegin(t) ==
    /\ apc[t] = "inline"
    /\ started' = [started EXCEPT ![arg[t]] = @ + 1]
    /\ Goto(t, "inlineRun")
    /\ UNCHANGED <<queueVars, syncVars, arg, workerVars, opc, verdict,
                   finished, spurious>>

AddInlineEnd(t) ==
    /\ apc[t] = "inlineRun"
    /\ finished' = finished \cup {arg[t]}
    /\ Return(t, "accepted")
    /\ UNCHANGED <<queueVars, syncVars, workerVars, opc, started, spurious>>

AddLock(t) ==
    /\ apc[t] = "lock"
    /\ QueueMutex = None
    /\ QueueMutex' = t
    /\ Goto(t, "check")
    /\ UNCHANGED <<queueVars, StopMutex, arg, workerVars, opc, history,
                   spurious>>

\* Faulty variant: the comparison with the limit is off by one.
FullOffByOne == MaxQueueSize > 0 /\ Len(Queue) > MaxQueueSize

\* The queue has reached its limit.
Full == MaxQueueSize > 0 /\ Len(Queue) >= MaxQueueSize

\* The loop condition and the second test of ShouldTerminate: Add returns false,
AddRefuse(t) ==
    /\ apc[t] = "check"
    /\ ShouldTerminate \/ (Full /\ ~Blocking)
    /\ QueueMutex' = None
    /\ Return(t, "refused")
    /\ UNCHANGED <<queueVars, StopMutex, workerVars, opc, started, finished,
                   spurious>>

\* Faulty variant: ShouldTerminate is not tested again under the mutex.
AddCheckOnce(t) ==
    /\ apc[t] = "check"
    /\ \/ Full /\ Blocking /\ Goto(t, "wait")
       \/ ~Full /\ Goto(t, "push")
    /\ UNCHANGED <<queueVars, syncVars, arg, workerVars, opc, history, spurious>>

\* or goes on to wait for room or to push the job.
AddCheck(t) ==
    /\ apc[t] = "check"
    /\ ~ShouldTerminate
    /\ \/ Full /\ Blocking /\ Goto(t, "wait")
       \/ ~Full /\ Goto(t, "push")
    /\ UNCHANGED <<queueVars, syncVars, arg, workerVars, opc, history,
                   spurious>>

\* QueuePopCond.Wait releases the mutex and enters the wait set in one step.
AddWait(t) ==
    /\ apc[t] = "wait"
    /\ QueueMutex' = None
    /\ Goto(t, "waiting")
    /\ UNCHANGED <<queueVars, StopMutex, arg, workerVars, opc, history,
                   spurious>>

AddPush(t) ==
    /\ apc[t] = "push"
    /\ Queue' = Append(Queue, arg[t])
    /\ QueueMutex' = None
    /\ Goto(t, "signal")
    /\ UNCHANGED <<setup, ShouldTerminate, ThreadCountReal, StopMutex, arg,
                   workerVars, opc, history, spurious>>

\* QueuePushCond.Signal: one waiting worker, if there is one, goes on to
\* acquire the mutex.
SignalPush ==
    \/ QueuePushCond = {} /\ UNCHANGED wpc
    \/ \E w \in QueuePushCond : wpc' = [wpc EXCEPT ![w] = "lock"]

\* Faulty variant: nobody is told of the new job.
AddSignalSilent(t) ==
    /\ apc[t] = "signal"
    /\ Return(t, "accepted")
    /\ UNCHANGED <<queueVars, syncVars, workerVars, opc, started, finished,
                   spurious>>

\* The signal is sent after the mutex has been released.
AddSignal(t) ==
    /\ apc[t] = "signal"
    /\ SignalPush
    /\ Return(t, "accepted")
    /\ UNCHANGED <<queueVars, syncVars, job, opc, started, finished, spurious>>

-----------------------------------------------------------------------------
(***************************************************************************)
(* DoExecute, run by worker w.                                             *)
(***************************************************************************)

WorkerLock(w) ==
    /\ wpc[w] = "lock"
    /\ QueueMutex = None
    /\ QueueMutex' = w
    /\ wpc' = [wpc EXCEPT ![w] = "check"]
    /\ UNCHANGED <<queueVars, StopMutex, addVars, job, opc, history, spurious>>

\* The loop condition holds: go to sleep.
WorkerCheck(w) ==
    /\ wpc[w] = "check"
    /\ Queue = <<>>
    /\ ~ShouldTerminate
    /\ wpc' = [wpc EXCEPT ![w] = "wait"]
    /\ UNCHANGED <<queueVars, syncVars, addVars, job, opc, history, spurious>>

\* Faulty variant: a worker leaves as soon as Stop is called.
WorkerLeaveEarly(w) ==
    /\ wpc[w] = "check"
    /\ ShouldTerminate
    /\ wpc' = [wpc EXCEPT ![w] = "finish"]
    /\ QueueMutex' = None
    /\ UNCHANGED <<queueVars, StopMutex, addVars, job, opc, history, spurious>>

\* Leave the loop.
WorkerLeave(w) ==
    /\ wpc[w] = "check"
    /\ Queue = <<>>
    /\ ShouldTerminate
    /\ wpc' = [wpc EXCEPT ![w] = "finish"]
    /\ QueueMutex' = None
    /\ UNCHANGED <<queueVars, StopMutex, addVars, job, opc, history, spurious>>

\* Faulty variant: the job is read and stays in the queue.
WorkerTakeFront(w) ==
    /\ wpc[w] = "check"
    /\ Queue # <<>>
    /\ job' = [job EXCEPT ![w] = Head(Queue)]
    /\ QueueMutex' = None
    /\ wpc' = [wpc EXCEPT ![w] = "signal"]
    /\ UNCHANGED <<queueVars, StopMutex, addVars, opc, history, spurious>>

\* Take the first job, also when ShouldTerminate is set.
WorkerTake(w) ==
    /\ wpc[w] = "check"
    /\ Queue # <<>>
    /\ job' = [job EXCEPT ![w] = Head(Queue)]
    /\ Queue' = Tail(Queue)
    /\ QueueMutex' = None
    /\ wpc' = [wpc EXCEPT ![w] = "signal"]
    /\ UNCHANGED <<setup, ShouldTerminate, ThreadCountReal, StopMutex, addVars,
                   opc, history, spurious>>

WorkerWait(w) ==
    /\ wpc[w] = "wait"
    /\ QueueMutex' = None
    /\ wpc' = [wpc EXCEPT ![w] = "waiting"]
    /\ UNCHANGED <<queueVars, StopMutex, addVars, job, opc, history, spurious>>

\* Faulty variant: nobody is told of the free place.
WorkerSignalSilent(w) ==
    /\ wpc[w] = "signal"
    /\ started' = [started EXCEPT ![job[w]] = @ + 1]
    /\ wpc' = [wpc EXCEPT ![w] = "run"]
    /\ UNCHANGED <<queueVars, syncVars, addVars, job, opc, verdict, finished,
                   spurious>>

\* QueuePopCond.Signal, after the mutex has been released; then job->Process.
WorkerSignal(w) ==
    /\ wpc[w] = "signal"
    /\ \/ QueuePopCond = {} /\ UNCHANGED apc
       \/ \E t \in QueuePopCond : Goto(t, "lock")
    /\ started' = [started EXCEPT ![job[w]] = @ + 1]
    /\ wpc' = [wpc EXCEPT ![w] = "run"]
    /\ UNCHANGED <<queueVars, syncVars, arg, job, opc, verdict, finished,
                   spurious>>

\* Process returns or throws: the worker goes on in the same way.
WorkerDone(w) ==
    /\ wpc[w] = "run"
    /\ apc[w] = "idle"
    /\ finished' = finished \cup {job[w]}
    /\ job' = [job EXCEPT ![w] = None]
    /\ wpc' = [wpc EXCEPT ![w] = "lock"]
    /\ UNCHANGED <<queueVars, syncVars, addVars, opc, verdict, started,
                   spurious>>

\* Faulty variant: the worker is subtracted twice.
WorkerFinishTwice(w) ==
    /\ wpc[w] = "finish"
    /\ StopMutex = None
    /\ ThreadCountReal' = ThreadCountReal - 2
    /\ wpc' = [wpc EXCEPT ![w] = "exited"]
    /\ \/ StopCond = {} /\ UNCHANGED opc
       \/ StopCond # {} /\ opc' = "relock"
    /\ UNCHANGED <<setup, ShouldTerminate, Queue, syncVars, addVars, job,
                   history, spurious>>

\* FinishOneThread.
WorkerFinish(w) ==
    /\ wpc[w] = "finish"
    /\ StopMutex = None
    /\ ThreadCountReal' = ThreadCountReal - 1
    /\ wpc' = [wpc EXCEPT ![w] = "exited"]
    /\ \/ StopCond = {} /\ UNCHANGED opc
       \/ StopCond # {} /\ opc' = "relock"
    /\ UNCHANGED <<setup, ShouldTerminate, Queue, syncVars, addVars, job,
                   history, spurious>>

-----------------------------------------------------------------------------
(***************************************************************************)
(* Stop, called by the owner.                                              *)
(***************************************************************************)

StopCall ==
    /\ opc = "using"
    /\ ShouldTerminate' = TRUE
    /\ opc' = "broadcast"
    /\ UNCHANGED <<setup, Queue, ThreadCountReal, syncVars, addVars,
                   workerVars, history, spurious>>

\* QueuePopCond.BroadCast under the mutex.
StopBroadcast ==
    /\ opc = "broadcast"
    /\ QueueMutex = None
    /\ apc' = [t \in Callers |-> IF t \in QueuePopCond THEN "lock" ELSE apc[t]]
    /\ opc' = "relock"
    /\ UNCHANGED <<queueVars, syncVars, arg, workerVars, history, spurious>>

\* WaitForComplete: the guard on StopMutex, also after StopCond.Wait.
StopLock ==
    /\ opc = "relock"
    /\ StopMutex = None
    /\ StopMutex' = Owner
    /\ opc' = "loop"
    /\ UNCHANGED <<queueVars, QueueMutex, addVars, workerVars, history,
                   spurious>>

\* The loop condition of WaitForComplete.
StopLoop ==
    /\ opc = "loop"
    /\ IF ThreadCountReal = 0
       THEN StopMutex' = None /\ opc' = "clear"
       ELSE UNCHANGED StopMutex /\ opc' = "signal"
    /\ UNCHANGED <<queueVars, QueueMutex, addVars, workerVars, history,
                   spurious>>

\* Faulty variant: WaitForComplete wakes no worker.
StopSignalSilent ==
    /\ opc = "signal"
    /\ QueueMutex = None
    /\ opc' = "wait"
    /\ UNCHANGED <<queueVars, syncVars, addVars, workerVars, history, spurious>>

\* QueuePushCond.Signal under QueueMutex, with StopMutex held.
StopSignal ==
    /\ opc = "signal"
    /\ QueueMutex = None
    /\ SignalPush
    /\ opc' = "wait"
    /\ UNCHANGED <<queueVars, syncVars, addVars, job, history, spurious>>


StopWait ==
    /\ opc = "wait"
    /\ StopMutex' = None
    /\ opc' = "waiting"
    /\ UNCHANGED <<queueVars, QueueMutex, addVars, workerVars, history,
                   spurious>>

\* Tharr.clear() and the destruction of TImpl.  Stop does not wait for
\* callers that are still inside Add: a call that outlives the object is
\* undefined, and behaviours with such a call are not behaviours of the model.
StopClear ==
    /\ opc = "clear"
    /\ \A t \in Callers : apc[t] = "idle"
    /\ opc' = "stopped"
    /\ UNCHANGED <<queueVars, syncVars, addVars, workerVars, history, spurious>>

-----------------------------------------------------------------------------
\* A waiter of a condition variable wakes up without a signal.
CountSpurious == spurious < MaxSpurious /\ spurious' = spurious + 1

SpuriousWorker(w) ==
    /\ CountSpurious
    /\ w \in QueuePushCond
    /\ wpc' = [wpc EXCEPT ![w] = "lock"]
    /\ UNCHANGED <<queueVars, syncVars, addVars, job, opc, history>>

SpuriousCaller(t) ==
    /\ CountSpurious
    /\ t \in QueuePopCond
    /\ Goto(t, "lock")
    /\ UNCHANGED <<queueVars, syncVars, arg, workerVars, opc, history>>

SpuriousOwner ==
    /\ CountSpurious
    /\ StopCond # {}
    /\ opc' = "relock"
    /\ UNCHANGED <<queueVars, syncVars, addVars, workerVars, history>>

SpuriousWakeup ==
    \/ \E w \in Workers : SpuriousWorker(w)
    \/ \E t \in Callers : SpuriousCaller(t)
    \/ SpuriousOwner

AddStep(t) ==
    \/ AddRefuseEarly(t) \/ AddEntry(t) \/ AddInlineBegin(t) \/ AddInlineEnd(t)
    \/ AddLock(t) \/ AddRefuse(t) \/ AddCheck(t) \/ AddWait(t) \/ AddPush(t)
    \/ AddSignal(t)

WorkerStep(w) ==
    \/ WorkerLock(w) \/ WorkerCheck(w) \/ WorkerLeave(w) \/ WorkerTake(w)
    \/ WorkerWait(w) \/ WorkerSignal(w) \/ WorkerDone(w) \/ WorkerFinish(w)

StopStep ==
    \/ StopBroadcast \/ StopLock \/ StopLoop \/ StopSignal \/ StopWait
    \/ StopClear

Next ==
    \/ \E t \in Callers : \/ AddStep(t)
                           \/ \E j \in Jobs : AddCall(t, j) \/ AddThrow(t, j)
    \/ \E w \in Workers : WorkerStep(w)
    \/ StopCall
    \/ StopStep
    \/ SpuriousWakeup

Spec == Init /\ [][Next]_vars

\* Every thread that can take a step eventually takes one.  Nobody is obliged
\* to call Add or Stop, and spurious wakeups need not happen.
Fairness ==
    /\ \A t \in Callers : WF_vars(AddStep(t))
    /\ \A w \in Workers : WF_vars(WorkerStep(w))
    /\ WF_vars(StopStep)

FairSpec == Spec /\ Fairness

-----------------------------------------------------------------------------
(***************************************************************************)
(* Properties.                                                             *)
(***************************************************************************)

\* Type correctness.
TypeOK ==
    /\ Tharr \subseteq Workers
    /\ Blocking \in BOOLEAN
    /\ ShouldTerminate \in BOOLEAN
    /\ Queue \in Seq(Jobs)
    /\ ThreadCountReal \in Nat
    /\ QueueMutex \in Callers \cup {None}
    /\ StopMutex \in {Owner, None}
    /\ apc \in [Callers -> {"idle", "entry", "inline", "inlineRun", "lock",
                            "check", "wait", "waiting", "push", "signal"}]
    /\ arg \in [Callers -> Jobs \cup {None}]
    /\ wpc \in [Workers -> {"lock", "check", "wait", "waiting", "signal",
                            "run", "finish", "exited"}]
    /\ job \in [Workers -> Jobs \cup {None}]
    /\ opc \in {"using", "broadcast", "relock", "loop", "signal", "wait",
                "waiting", "clear", "stopped"}
    /\ verdict \in [Jobs -> {"none", "called", "accepted", "refused"}]
    /\ started \in [Jobs -> Nat]
    /\ finished \subseteq Jobs
    /\ spurious \in Nat

\* Stop waits "for completion of all scheduled object" (queue.h): when
\* WaitForComplete has returned no worker is left, the queue is empty and every
\* job for which Add returned true has been processed.  A job pushed by an Add
\* that tested ShouldTerminate just before Stop set it is one of them.
StopDrains ==
    opc \in {"clear", "stopped"} =>
        /\ Queue = <<>>
        /\ \A w \in Workers : wpc[w] = "exited"
        /\ \A j \in Jobs : verdict[j] = "accepted" => j \in finished

\* The result of Add tells who processes the job: a job is processed at most
\* once, and never if Add returned false.  TMtpTask::Process relies on it when
\* it processes a refused job itself.
RunOnceOrRefused ==
    \A j \in Jobs :
        /\ started[j] <= 1
        /\ verdict[j] = "refused" => started[j] = 0

\* The limit given to Start is never exceeded, although several callers may
\* wait for the same free place.
WithinLimit == MaxQueueSize > 0 => Len(Queue) <= MaxQueueSize

\* No wakeup is lost: while a job waits in the queue, some worker is on its way
\* to test the queue or the caller that pushed a job is about to signal.
QueuedJobIsSeen ==
    Queue # <<>> =>
        \/ \E w \in Workers : wpc[w] \notin {"waiting", "finish", "exited"}
        \/ \E t \in Callers : apc[t] = "signal"

\* Stop returns, also when every worker is blocked in Add: the chain in which
\* each worker that finishes makes WaitForComplete wake the next one does not
\* break.
StopReturns == (opc = "broadcast") ~> (opc = "stopped")

\* Every thread of the pool sits in the Add of the job it runs, waiting for room
\* that only these threads could make: the pool stands still until Stop is called.
PoolIsStuck ==
    Tharr # {} /\ \A w \in Tharr : wpc[w] = "run" /\ apc[w] = "waiting"

\* A job that was accepted is processed, whether or not Stop is called, unless
\* jobs that add jobs to a full queue have taken all threads of the pool.
AcceptedIsProcessed ==
    \A j \in Jobs :
        (verdict[j] = "accepted") ~> (j \in finished \/ PoolIsStuck)

\* Every call of Add returns, with the same exception: a caller that waits for
\* room is woken by a worker that took a job, or by Stop.
AddReturns ==
    \A t \in Callers : (apc[t] # "idle") ~> (apc[t] = "idle" \/ PoolIsStuck)

-----------------------------------------------------------------------------
(***************************************************************************)
(* TMtpQueue implements the abstract queue.                                *)
(***************************************************************************)

\* What has become of job j, in the terms of JobQueue.
Status(j) ==
    CASE verdict[j] = "refused" -> "refused"
      [] verdict[j] # "refused" /\ j \in finished -> "done"
      [] verdict[j] # "refused" /\ j \notin finished /\ started[j] > 0 ->
            "running"
      [] OTHER ->
            IF \/ \E i \in 1..Len(Queue) : Queue[i] = j
               \/ \E w \in Workers : job[w] = j
            THEN "pending"
            ELSE "fresh"

Abstract ==
    INSTANCE JobQueue WITH
        phase <- IF opc = "using" THEN "open"
                 ELSE IF opc = "stopped" THEN "closed" ELSE "closing",
        status <- [j \in Jobs |-> Status(j)]

\* Seen from outside, the queue with its locks, condition variables and threads
\* is the abstract job queue.
ImplementsJobQueue == Abstract!ASpec
=============================================================================
