------------------------------ MODULE MtpTask ------------------------------
(***************************************************************************)
(* TMtpTask (src/util/thread/tasks.cpp): Process runs a task on an array   *)
(* of contexts, each with a TProcessor of its own that is put into a       *)
(* queue, and waits for all of them.  The processors are kept and used     *)
(* again by the next Process.  The queue is the abstract one of JobQueue,  *)
(* which TMtpQueue and TAdaptiveMtpQueue implement; a job is a pair of the *)
(* number of the call and the number of the processor.                     *)
(*                                                                         *)
(* Process is called by one thread, the owner, which also destroys the     *)
(* object.  With a queue of its own (Own) the destructor stops the queue   *)
(* before the processors are freed; a queue that was passed in outlives    *)
(* the object, and whatever it still holds.  A client that got an          *)
(* exception from Process only destroys the object.                        *)
(***************************************************************************)
EXTENDS Naturals, Sequences

CONSTANTS
    MaxCount,       \* bound on the number of contexts of a call
    Calls           \* bound on the number of calls of Process

ASSUME TaskAssumption == MaxCount \in Nat \ {0} /\ Calls \in Nat \ {0}

Processors == 1..MaxCount
Jobs == (1..Calls) \X Processors
None == <<0, 0>>

VARIABLES
    phase, status,    \* the queue
    Own,              \* MyQueue_ is set
    Task_,            \* Task_ and Ctx_ of each processor: its job, or None
    ppc,              \* where each processor is in its Process
    opc, at, cnt,     \* where the owner is, its index and its argument cnt
    call,             \* the number of the present or last call
    returning,        \* jobs whose Process has returned to the queue's thread
    counts,           \* history: the argument cnt of the calls that returned
    processed         \* history: how often each job's context was processed

queueVars == <<phase, status>>
procVars == <<Task_, ppc>>
ownerVars == <<opc, at, cnt, call, counts>>
vars == <<queueVars, Own, procVars, ownerVars, returning, processed>>

Queue == INSTANCE JobQueue

Current == <<call, at>>
Run(j) == processed' = [processed EXCEPT ![j] = @ + 1]

Init ==
    /\ Queue!AInit
    /\ Own \in BOOLEAN
    /\ Task_ = [p \in Processors |-> None]
    /\ ppc = [p \in Processors |-> "idle"]
    /\ opc = "out" /\ at = 0 /\ cnt = 0 /\ call = 0
    /\ returning = {}
    /\ counts = <<>>
    /\ processed = [j \in Jobs |-> 0]

Goto(pc) == opc' = pc /\ UNCHANGED <<at, cnt, call, counts>>

\* The present call returns, here or after the wait for the last processor.
Return(c) ==
    /\ opc' = "out"
    /\ counts' = Append(counts, c)

-----------------------------------------------------------------------------
(* Process, called by the owner.                                           *)

\* One context is processed by the caller itself, for none there is nothing
\* to do.
Process(c) ==
    /\ opc = "out"
    /\ call < Calls
    /\ call' = call + 1
    /\ cnt' = c
    /\ at' = 1
    /\ \/ c = 0 /\ Return(c)
       \/ c = 1 /\ opc' = "direct" /\ UNCHANGED counts
       \/ c > 1 /\ opc' = "set" /\ UNCHANGED counts
    /\ UNCHANGED <<queueVars, Own, procVars, returning, processed>>

Direct ==
    /\ opc = "direct"
    /\ Run(Current)
    /\ Return(cnt)
    /\ UNCHANGED <<queueVars, Own, procVars, at, cnt, call, returning>>

\* The last processor runs in the calling thread.
SetData ==
    /\ opc = "set"
    /\ Task_' = [Task_ EXCEPT ![at] = Current]
    /\ IF at = cnt
       THEN ppc' = [ppc EXCEPT ![at] = "run"] /\ Goto("inline")
       ELSE Goto("add") /\ UNCHANGED ppc
    /\ UNCHANGED <<queueVars, Own, returning, processed>>

AddAccepted ==
    /\ opc = "add"
    /\ Queue!Accept(Current)
    /\ ppc' = [ppc EXCEPT ![at] = "queued"]
    /\ at' = at + 1
    /\ opc' = "set"
    /\ UNCHANGED <<Own, Task_, cnt, call, counts, returning, processed>>

\* The queue is full: the calling thread does it itself.  A queue of its own
\* is never full.
AddRefused ==
    /\ opc = "add"
    /\ ~Own
    /\ Queue!Refuse(Current)
    /\ ppc' = [ppc EXCEPT ![at] = "run"]
    /\ Goto("inline")
    /\ UNCHANGED <<Own, Task_, returning, processed>>

\* The queue has no threads: Add processes the job before it returns.
AddInline ==
    /\ opc = "add"
    /\ ~Own
    /\ Queue!RunInline(Current)
    /\ ppc' = [ppc EXCEPT ![at] = "run"]
    /\ Goto("inline")
    /\ UNCHANGED <<Own, Task_, returning, processed>>

\* Add throws, as the queue cannot create a thread or was not started: so does
\* Process, which waits for nobody.
AddThrows ==
    /\ opc = "add"
    /\ Queue!Refuse(Current)
    /\ Goto("threw")
    /\ UNCHANGED <<Own, procVars, returning, processed>>

\* The same when Process runs in a job of the queue that was passed in and that
\* queue, an adaptive one, is stopping: it keeps the processor.
AddThrowsLate ==
    /\ opc = "add"
    /\ ~Own
    /\ Queue!Accept(Current)
    /\ ppc' = [ppc EXCEPT ![at] = "queued"]
    /\ Goto("threw")
    /\ UNCHANGED <<Own, Task_, returning, processed>>

\* The processor that ran in the calling thread is done.
InlineEnds ==
    /\ opc = "inline"
    /\ ppc[at] = "idle"
    /\ status[Current] # "running"
    /\ at' = IF at = cnt THEN 1 ELSE at + 1
    /\ opc' = IF at = cnt THEN "wait" ELSE "set"
    /\ UNCHANGED <<queueVars, Own, procVars, cnt, call, counts, returning, processed>>

\* Faulty variant: the wait does not take the mutex.
MutexIgnored(p) == TRUE

\* The processor's Mutex_ is free: it is held only inside Done.
MutexFree(p) == ppc[p] # "locked"

\* A wait that has ended goes on to the next processor, or Process returns.
Waited ==
    /\ IF at = cnt THEN Return(cnt) /\ UNCHANGED at
                   ELSE at' = at + 1 /\ opc' = "wait" /\ UNCHANGED counts
    /\ UNCHANGED <<cnt, call>>

\* Faulty variant: the condition is tested once, before the wait.
WaitOnce ==
    /\ opc \in {"wait", "woken"}
    /\ MutexFree(at)
    /\ IF opc = "wait" /\ Task_[at] # None THEN Goto("waiting") ELSE Waited
    /\ UNCHANGED <<queueVars, Own, procVars, returning, processed>>

\* TProcessor::Wait, from its call or from the end of CondVar_.Wait.
Wait ==
    /\ opc \in {"wait", "woken"}
    /\ MutexFree(at)
    /\ IF Task_[at] # None THEN Goto("waiting") ELSE Waited
    /\ UNCHANGED <<queueVars, Own, procVars, returning, processed>>

SpuriousWakeup ==
    /\ opc = "waiting"
    /\ Goto("woken")
    /\ UNCHANGED <<queueVars, Own, procVars, returning, processed>>

\* The destructor.
Destroy ==
    /\ opc \in {"out", "threw"}
    /\ IF Own THEN Queue!CallStop /\ Goto("stopping")
              ELSE Goto("freed") /\ UNCHANGED queueVars
    /\ UNCHANGED <<Own, procVars, returning, processed>>

DestroyEnds ==
    /\ opc = "stopping"
    /\ Queue!ReturnFromStop
    /\ Goto("freed")
    /\ UNCHANGED <<Own, procVars, returning, processed>>

-----------------------------------------------------------------------------
(* TProcessor::Process for processor p, in a thread of the queue or in the *)
(* calling one.                                                            *)

Begin(p) ==
    /\ ppc[p] = "queued"
    /\ \E j \in Jobs : j[2] = p /\ Queue!Begin(j)
    /\ ppc' = [ppc EXCEPT ![p] = "run"]
    /\ UNCHANGED <<Own, Task_, ownerVars, returning, processed>>

\* The task ends, with an exception or without.
TaskEnds(p) ==
    /\ ppc[p] = "run"
    /\ Run(Task_[p])
    /\ ppc' = [ppc EXCEPT ![p] = "done"]
    /\ UNCHANGED <<queueVars, Own, Task_, ownerVars, returning>>

Signal(p) ==
    IF opc = "waiting" /\ at = p THEN Goto("woken") ELSE UNCHANGED ownerVars

\* Faulty variant: nobody is told.
DoneSilent(p) ==
    /\ ppc[p] = "done"
    /\ Task_' = [Task_ EXCEPT ![p] = None]
    /\ ppc' = [ppc EXCEPT ![p] = "locked"]
    /\ UNCHANGED <<queueVars, Own, ownerVars, returning, processed>>

\* Done, with Mutex_ held to the end.
Done(p) ==
    /\ ppc[p] = "done"
    /\ Task_' = [Task_ EXCEPT ![p] = None]
    /\ Signal(p)
    /\ ppc' = [ppc EXCEPT ![p] = "locked"]
    /\ UNCHANGED <<queueVars, Own, returning, processed>>

\* Mutex_ is released: the last use of the processor.
DoneUnlock(p) ==
    /\ ppc[p] = "locked"
    /\ ppc' = [ppc EXCEPT ![p] = "idle"]
    /\ returning' = returning \cup {j \in Jobs : j[2] = p /\ status[j] = "running"}
    /\ UNCHANGED <<queueVars, Own, Task_, ownerVars, processed>>

\* The queue's thread is back from Process.
Finish(j) ==
    /\ j \in returning
    /\ returning' = returning \ {j}
    /\ Queue!Finish(j)
    /\ UNCHANGED <<Own, procVars, ownerVars, processed>>

-----------------------------------------------------------------------------
OwnerStep ==
    \/ Direct \/ SetData \/ AddAccepted \/ AddRefused \/ AddInline
    \/ AddThrows \/ AddThrowsLate \/ InlineEnds \/ Wait \/ DestroyEnds

ProcessorStep(p) == Begin(p) \/ TaskEnds(p) \/ Done(p) \/ DoneUnlock(p)

Next ==
    \/ \E c \in 0..MaxCount : Process(c)
    \/ OwnerStep
    \/ SpuriousWakeup
    \/ Destroy
    \/ \E p \in Processors : ProcessorStep(p)
    \/ \E j \in Jobs : Finish(j)

Spec == Init /\ [][Next]_vars

\* The owner and the threads of the queue go on, and tasks end; nobody need
\* call Process or destroy the object.
Fairness ==
    /\ WF_vars(OwnerStep)
    /\ \A p \in Processors : WF_vars(ProcessorStep(p))
    /\ \A j \in Jobs : WF_vars(Finish(j))

FairSpec == Spec /\ Fairness

-----------------------------------------------------------------------------
(* Properties.                                                             *)

\* When Process has returned, every context of that call was processed exactly
\* once, whichever of them ran in the calling thread; none is ever processed
\* twice or with the data of another call (tasks.cpp, Process and Wait).
ReturnedIsProcessed ==
    /\ \A r \in DOMAIN counts : \A p \in 1..counts[r] : processed[<<r, p>>] = 1
    /\ \A j \in Jobs : processed[j] <= 1
    /\ \A p \in Processors : ppc[p] = "run" => Task_[p] \in Jobs

\* SetData finds a processor that nobody uses, as it asserts (tasks.cpp:25),
\* and no thread is inside a processor that has been freed, not even on its
\* way out of Done, nor will one come to it from the queue.  Not so when Process
\* threw on a queue that was passed in: ~TImpl stops only MyQueue_ (tasks.cpp:84),
\* so the processors of that call are freed with the queue still holding them.
ProcessorIsFree ==
    /\ opc = "set" => (Task_[at] = None /\ ppc[at] = "idle")
    /\ opc = "freed" /\ (Own \/ Len(counts) = call) =>
          \A p \in Processors : ppc[p] = "idle"

\* Process returns, or throws, and so does the destructor.
ProcessReturns ==
    (opc \notin {"out", "threw", "freed"}) ~> (opc \in {"out", "threw", "freed"})
=============================================================================
