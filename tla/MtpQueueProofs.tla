--------------------------- MODULE MtpQueueProofs ---------------------------
(***************************************************************************)
(* Proofs about TMtpQueue, for any number of workers, producers and jobs,  *)
(* any queue limit, both kinds of Add and any number of spurious wakeups.  *)
(***************************************************************************)
EXTENDS MtpQueue, FiniteSetTheorems, TLAPS

Left == {w \in Tharr : wpc[w] \in {"finish", "exited"}}
Alive == {w \in Workers : wpc[w] # "exited"}
InQueue(j) == \E i \in 1..Len(Queue) : Queue[i] = j

\* Whoever is between the acquisition and the release of QueueMutex holds it.
QueueMutexInv ==
    /\ \A t \in Callers : apc[t] \in {"check", "wait", "push"} => QueueMutex = t
    /\ \A w \in Workers : wpc[w] \in {"check", "wait"} => QueueMutex = w

\* A worker is inside Add only while it processes a job.
NestedInv == \A w \in Workers : apc[w] # "idle" => wpc[w] = "run"

\* The thread counter counts the workers that have not executed
\* FinishOneThread, and Stop goes on only when it is zero.
CountInv ==
    /\ ThreadCountReal = Cardinality(Alive)
    /\ opc \in {"clear", "stopped"} => ThreadCountReal = 0

\* Stop has been called unless the owner still uses the queue.
StopInv == opc = "using" <=> ~ShouldTerminate

\* A thread that Start did not create does nothing.
PoolInv == \A w \in Workers : w \notin Tharr => wpc[w] = "exited"

\* Once a worker has left its loop nothing is queued, and nothing will be.
LeftInv ==
    Left # {} =>
        /\ ShouldTerminate
        /\ Queue = <<>>
        /\ \A t \in Callers : apc[t] # "push"

\* A queue without threads never uses Queue.
InlineInv ==
    Tharr = {} =>
        /\ Queue = <<>>
        /\ \A t \in Callers : apc[t] \in {"idle", "entry", "inline", "inlineRun"}

\* A caller inside Add has a job, and so has a worker that took one.
HasJobInv ==
    /\ \A t \in Callers : apc[t] # "idle" => arg[t] \in Jobs
    /\ \A w \in Workers : job[w] # None <=> wpc[w] \in {"signal", "run"}

\* An accepted job is queued, or taken by a worker, or processed.
Kept(j) == InQueue(j) \/ (\E w \in Workers : job[w] = j) \/ j \in finished

KeptInv ==
    /\ \A j \in Jobs : verdict[j] = "accepted" => Kept(j)
    /\ \A t \in Callers : apc[t] = "signal" => Kept(arg[t])

\* Add pushes only when it has found room.
RoomInv == \A t \in Callers : apc[t] = "push" => ~Full

\* The inductive invariant.
SyncInv == QueueMutexInv /\ NestedInv
LeaveInv == StopInv /\ PoolInv /\ LeftInv /\ InlineInv
LimitInv == RoomInv /\ WithinLimit

IInv ==
    /\ TypeOK
    /\ SyncInv
    /\ CountInv
    /\ LeaveInv
    /\ HasJobInv
    /\ KeptInv
    /\ LimitInv

USE LimitAssumption, FlagAssumption, DistinctAssumption DEF Callers

-----------------------------------------------------------------------------
(***************************************************************************)
(* Facts about the sequence Queue and the set of living workers.           *)
(***************************************************************************)

\* Push and Pop lose no other job.
LEMMA AppendKeeps ==
    ASSUME NEW s \in Seq(Jobs), NEW x \in Jobs, NEW k \in Jobs,
           (\E i \in 1..Len(s) : s[i] = k) \/ k = x
    PROVE  \E i \in 1..Len(Append(s, x)) : Append(s, x)[i] = k
<1>1. CASE k = x
  <2>1. Append(s, x)[Len(s) + 1] = k /\ Len(s) + 1 \in 1..Len(Append(s, x))
    BY <1>1
  <2> QED
    BY <2>1
<1>2. CASE \E i \in 1..Len(s) : s[i] = k
  <2>1. PICK i \in 1..Len(s) : s[i] = k
    BY <1>2
  <2>2. Append(s, x)[i] = k /\ i \in 1..Len(Append(s, x))
    BY <2>1
  <2> QED
    BY <2>2
<1> QED
  BY <1>1, <1>2

LEMMA TailKeeps ==
    ASSUME NEW s \in Seq(Jobs), s # <<>>, NEW k \in Jobs,
           \E i \in 1..Len(s) : s[i] = k
    PROVE  k = Head(s) \/ \E i \in 1..Len(Tail(s)) : Tail(s)[i] = k
<1>1. PICK i \in 1..Len(s) : s[i] = k
  OBVIOUS
<1>2. CASE i = 1
  BY <1>1, <1>2
<1>3. CASE i # 1
  <2>1. Tail(s)[i - 1] = k /\ i - 1 \in 1..Len(Tail(s))
    BY <1>1, <1>3
  <2> QED
    BY <2>1
<1> QED
  BY <1>2, <1>3

\* ThreadCountReal is zero exactly when every worker has exited.
LEMMA NobodyAlive ==
    ASSUME CountInv
    PROVE  /\ ThreadCountReal \in Nat
           /\ ThreadCountReal = 0 <=> \A w \in Workers : wpc[w] = "exited"
<1>1. IsFiniteSet(Alive)
  BY WorkersAssumption, FS_Subset DEF Alive
<1>2. Cardinality(Alive) \in Nat /\ (Cardinality(Alive) = 0 <=> Alive = {})
  BY <1>1, FS_CardinalityType, FS_EmptySet
<1> QED
  BY <1>2 DEF CountInv, Alive

-----------------------------------------------------------------------------
(***************************************************************************)
(* Each action preserves the invariant.                                    *)
(***************************************************************************)

LEMMA AddCallStep ==
    ASSUME IInv, NEW t \in Callers, NEW j \in Jobs, AddCall(t, j)
    PROVE  IInv'
<1> USE DEF IInv, AddCall, MayCall, Goto, queueVars, setup, syncVars, addVars,
            workerVars, history
<1>1. TypeOK' /\ HasJobInv'
  BY DEF TypeOK, HasJobInv, SyncInv, NestedInv
<1>2. SyncInv' /\ LeaveInv' /\ LimitInv'
  BY DEF TypeOK, SyncInv, QueueMutexInv, NestedInv, LeaveInv, StopInv, PoolInv,
      LeftInv, InlineInv, Left, LimitInv, RoomInv, WithinLimit, Full
<1>3. Alive' = Alive
  BY DEF TypeOK, Alive
<1>4. CountInv'
  BY <1>3 DEF CountInv
<1>5. \A k \in Jobs : Kept(k) => Kept(k)'
  BY DEF Kept, InQueue
<1>6. KeptInv'
  BY <1>5 DEF KeptInv, HasJobInv, TypeOK
<1> QED
  BY <1>1, <1>2, <1>4, <1>6

LEMMA AddThrowStep ==
    ASSUME IInv, NEW t \in Callers, NEW j \in Jobs, AddThrow(t, j)
    PROVE  IInv'
<1> USE DEF IInv, AddThrow, queueVars, setup, syncVars, addVars, workerVars, history
<1>1. TypeOK' /\ HasJobInv'
  BY DEF TypeOK, HasJobInv, SyncInv, NestedInv
<1>2. SyncInv' /\ LeaveInv' /\ LimitInv'
  BY DEF TypeOK, SyncInv, QueueMutexInv, NestedInv, LeaveInv, StopInv, PoolInv,
      LeftInv, InlineInv, Left, LimitInv, RoomInv, WithinLimit, Full
<1>3. Alive' = Alive
  BY DEF TypeOK, Alive
<1>4. CountInv'
  BY <1>3 DEF CountInv
<1>5. \A k \in Jobs : Kept(k) => Kept(k)'
  BY DEF Kept, InQueue
<1>6. KeptInv'
  BY <1>5 DEF KeptInv, HasJobInv, TypeOK
<1> QED
  BY <1>1, <1>2, <1>4, <1>6

LEMMA AddRefuseEarlyStep ==
    ASSUME IInv, NEW t \in Callers, AddRefuseEarly(t)
    PROVE  IInv'
<1> USE DEF IInv, AddRefuseEarly, Goto, Return, queueVars, setup, syncVars, addVars,
            workerVars, history
<1>1. TypeOK' /\ HasJobInv'
  BY DEF TypeOK, HasJobInv, SyncInv, NestedInv
<1>2. SyncInv' /\ LeaveInv' /\ LimitInv'
  BY DEF TypeOK, SyncInv, QueueMutexInv, NestedInv, LeaveInv, StopInv, PoolInv,
      LeftInv, InlineInv, Left, LimitInv, RoomInv, WithinLimit, Full
<1>3. Alive' = Alive
  BY DEF TypeOK, Alive
<1>4. CountInv'
  BY <1>3 DEF CountInv
<1>5. \A k \in Jobs : Kept(k) => Kept(k)'
  BY DEF Kept, InQueue
<1>6. KeptInv'
  BY <1>5 DEF KeptInv, HasJobInv, TypeOK
<1> QED
  BY <1>1, <1>2, <1>4, <1>6

LEMMA AddEntryStep ==
    ASSUME IInv, NEW t \in Callers, AddEntry(t)
    PROVE  IInv'
<1> USE DEF IInv, AddEntry, Goto, queueVars, setup, syncVars, addVars, workerVars,
            history
<1>1. TypeOK' /\ HasJobInv'
  BY ZenonT(40) DEF TypeOK, HasJobInv, SyncInv, NestedInv
<1>2. SyncInv' /\ LeaveInv' /\ LimitInv'
  <2>1. SyncInv'
    BY DEF TypeOK, SyncInv, QueueMutexInv, NestedInv
  <2>2. StopInv' /\ PoolInv' /\ LeftInv'
    BY DEF TypeOK, LeaveInv, StopInv, PoolInv, LeftInv, Left
  <2>3. InlineInv' /\ LimitInv'
    BY DEF TypeOK, LeaveInv, InlineInv, LimitInv, RoomInv, WithinLimit, Full
  <2> QED
    BY <2>1, <2>2, <2>3 DEF LeaveInv
<1>3. Alive' = Alive
  BY DEF TypeOK, Alive
<1>4. CountInv'
  BY <1>3 DEF CountInv
<1>5. \A k \in Jobs : Kept(k) => Kept(k)'
  BY DEF Kept, InQueue
<1>6. KeptInv'
  BY <1>5 DEF KeptInv, HasJobInv, TypeOK
<1> QED
  BY <1>1, <1>2, <1>4, <1>6

LEMMA AddInlineBeginStep ==
    ASSUME IInv, NEW t \in Callers, AddInlineBegin(t)
    PROVE  IInv'
<1> USE DEF IInv, AddInlineBegin, Goto, queueVars, setup, syncVars, addVars,
            workerVars, history
<1>1. TypeOK' /\ HasJobInv'
  BY DEF TypeOK, HasJobInv, SyncInv, NestedInv
<1>2. SyncInv' /\ LeaveInv' /\ LimitInv'
  BY DEF TypeOK, SyncInv, QueueMutexInv, NestedInv, LeaveInv, StopInv, PoolInv,
      LeftInv, InlineInv, Left, LimitInv, RoomInv, WithinLimit, Full
<1>3. Alive' = Alive
  BY DEF TypeOK, Alive
<1>4. CountInv'
  BY <1>3 DEF CountInv
<1>5. \A k \in Jobs : Kept(k) => Kept(k)'
  BY DEF Kept, InQueue
<1>6. KeptInv'
  BY <1>5 DEF KeptInv, HasJobInv, TypeOK
<1> QED
  BY <1>1, <1>2, <1>4, <1>6

LEMMA AddInlineEndStep ==
    ASSUME IInv, NEW t \in Callers, AddInlineEnd(t)
    PROVE  IInv'
<1> USE DEF IInv, AddInlineEnd, Goto, Return, queueVars, setup, syncVars, addVars,
            workerVars, history
<1>1. TypeOK' /\ HasJobInv'
  BY DEF TypeOK, HasJobInv, SyncInv, NestedInv
<1>2. SyncInv' /\ LeaveInv' /\ LimitInv'
  BY DEF TypeOK, SyncInv, QueueMutexInv, NestedInv, LeaveInv, StopInv, PoolInv,
      LeftInv, InlineInv, Left, LimitInv, RoomInv, WithinLimit, Full
<1>3. Alive' = Alive
  BY DEF TypeOK, Alive
<1>4. CountInv'
  BY <1>3 DEF CountInv
<1>5. \A k \in Jobs : Kept(k) \/ k = arg[t] => Kept(k)'
  BY DEF Kept, InQueue
<1>6. KeptInv'
  BY <1>5 DEF KeptInv, HasJobInv, TypeOK
<1> QED
  BY <1>1, <1>2, <1>4, <1>6

LEMMA AddLockStep ==
    ASSUME IInv, NEW t \in Callers, AddLock(t)
    PROVE  IInv'
<1> USE DEF IInv, AddLock, Goto, queueVars, setup, syncVars, addVars, workerVars,
            history
<1>1. TypeOK' /\ HasJobInv'
  BY DEF TypeOK, HasJobInv, SyncInv, NestedInv
<1>2. SyncInv' /\ LeaveInv' /\ LimitInv'
  BY DEF TypeOK, SyncInv, QueueMutexInv, NestedInv, LeaveInv, StopInv, PoolInv,
      LeftInv, InlineInv, Left, LimitInv, RoomInv, WithinLimit, Full
<1>3. Alive' = Alive
  BY DEF TypeOK, Alive
<1>4. CountInv'
  BY <1>3 DEF CountInv
<1>5. \A k \in Jobs : Kept(k) => Kept(k)'
  BY DEF Kept, InQueue
<1>6. KeptInv'
  BY <1>5 DEF KeptInv, HasJobInv, TypeOK
<1> QED
  BY <1>1, <1>2, <1>4, <1>6

LEMMA AddRefuseStep ==
    ASSUME IInv, NEW t \in Callers, AddRefuse(t)
    PROVE  IInv'
<1> USE DEF IInv, AddRefuse, Goto, Return, queueVars, setup, syncVars, addVars,
            workerVars, history
<1>1. TypeOK' /\ HasJobInv'
  BY DEF TypeOK, HasJobInv, SyncInv, NestedInv
<1>2. SyncInv' /\ LeaveInv' /\ LimitInv'
  BY DEF TypeOK, SyncInv, QueueMutexInv, NestedInv, LeaveInv, StopInv, PoolInv,
      LeftInv, InlineInv, Left, LimitInv, RoomInv, WithinLimit, Full
<1>3. Alive' = Alive
  BY DEF TypeOK, Alive
<1>4. CountInv'
  BY <1>3 DEF CountInv
<1>5. \A k \in Jobs : Kept(k) => Kept(k)'
  BY DEF Kept, InQueue
<1>6. KeptInv'
  BY <1>5 DEF KeptInv, HasJobInv, TypeOK
<1> QED
  BY <1>1, <1>2, <1>4, <1>6

LEMMA AddCheckStep ==
    ASSUME IInv, NEW t \in Callers, AddCheck(t)
    PROVE  IInv'
<1> USE DEF IInv, AddCheck, Goto, queueVars, setup, syncVars, addVars, workerVars,
            history
<1>1. TypeOK' /\ HasJobInv'
  BY ZenonT(40) DEF TypeOK, HasJobInv, SyncInv, NestedInv
<1>2. SyncInv' /\ LeaveInv' /\ LimitInv'
  BY DEF TypeOK, SyncInv, QueueMutexInv, NestedInv, LeaveInv, StopInv, PoolInv,
      LeftInv, InlineInv, Left, LimitInv, RoomInv, WithinLimit, Full
<1>3. Alive' = Alive
  BY DEF TypeOK, Alive
<1>4. CountInv'
  BY <1>3 DEF CountInv
<1>5. \A k \in Jobs : Kept(k) => Kept(k)'
  BY DEF Kept, InQueue
<1>6. KeptInv'
  BY <1>5 DEF KeptInv, HasJobInv, TypeOK
<1> QED
  BY <1>1, <1>2, <1>4, <1>6

LEMMA AddWaitStep ==
    ASSUME IInv, NEW t \in Callers, AddWait(t)
    PROVE  IInv'
<1> USE DEF IInv, AddWait, Goto, queueVars, setup, syncVars, addVars, workerVars,
            history
<1>1. TypeOK' /\ HasJobInv'
  BY DEF TypeOK, HasJobInv, SyncInv, NestedInv
<1>2. SyncInv' /\ LeaveInv' /\ LimitInv'
  BY DEF TypeOK, SyncInv, QueueMutexInv, NestedInv, LeaveInv, StopInv, PoolInv,
      LeftInv, InlineInv, Left, LimitInv, RoomInv, WithinLimit, Full
<1>3. Alive' = Alive
  BY DEF TypeOK, Alive
<1>4. CountInv'
  BY <1>3 DEF CountInv
<1>5. \A k \in Jobs : Kept(k) => Kept(k)'
  BY DEF Kept, InQueue
<1>6. KeptInv'
  BY <1>5 DEF KeptInv, HasJobInv, TypeOK
<1> QED
  BY <1>1, <1>2, <1>4, <1>6

LEMMA AddPushStep ==
    ASSUME IInv, NEW t \in Callers, AddPush(t)
    PROVE  IInv'
<1> USE DEF IInv, AddPush, Goto, queueVars, setup, syncVars, addVars, workerVars,
            history
<1>1. TypeOK' /\ HasJobInv'
  BY DEF TypeOK, HasJobInv, SyncInv, NestedInv
<1>2. SyncInv' /\ LeaveInv' /\ LimitInv'
  <2>1. SyncInv'
    BY DEF TypeOK, SyncInv, QueueMutexInv, NestedInv
  <2>2. LeaveInv'
    BY DEF TypeOK, SyncInv, QueueMutexInv, LeaveInv, StopInv, PoolInv, LeftInv,
        InlineInv, Left
  <2>3. Len(Queue') = Len(Queue) + 1
    BY <1>1 DEF TypeOK, HasJobInv
  <2>4. LimitInv'
    BY <2>3 DEF TypeOK, SyncInv, QueueMutexInv, LimitInv, RoomInv,
        WithinLimit, Full
  <2> QED
    BY <2>1, <2>2, <2>4
<1>3. Alive' = Alive
  BY DEF TypeOK, Alive
<1>4. CountInv'
  BY <1>3 DEF CountInv
<1>5. \A k \in Jobs : InQueue(k) \/ k = arg[t] => InQueue(k)'
  BY AppendKeeps DEF InQueue, TypeOK, HasJobInv
<1>6. \A k \in Jobs : Kept(k) \/ k = arg[t] => Kept(k)'
  BY <1>5 DEF Kept
<1>7. KeptInv'
  BY <1>6 DEF KeptInv, HasJobInv, TypeOK
<1> QED
  BY <1>1, <1>2, <1>4, <1>7

LEMMA AddSignalStep ==
    ASSUME IInv, NEW t \in Callers, AddSignal(t)
    PROVE  IInv'
<1> USE DEF IInv, AddSignal, SignalPush, QueuePushCond, Goto, Return,
            queueVars, setup, syncVars, addVars, workerVars, history
<1>1. TypeOK' /\ HasJobInv'
  <2>1. wpc' \in [Workers -> {"lock", "check", "wait", "waiting", "signal",
                              "run", "finish", "exited"}]
        /\ \A w \in Workers :
              wpc'[w] \in {"signal", "run"} <=> wpc[w] \in {"signal", "run"}
    BY ZenonT(40) DEF TypeOK
  <2>2. arg[t] \in Jobs
    BY DEF HasJobInv
  <2>3. TypeOK'
    BY <2>1, <2>2 DEF TypeOK
  <2>4. HasJobInv'
    BY <2>1 DEF TypeOK, HasJobInv
  <2> QED
    BY <2>3, <2>4
<1>2. SyncInv' /\ LeaveInv' /\ LimitInv'
  BY DEF TypeOK, SyncInv, QueueMutexInv, NestedInv, LeaveInv, StopInv, PoolInv,
      LeftInv, InlineInv, Left, LimitInv, RoomInv, WithinLimit, Full
<1>3. Alive' = Alive
  BY DEF TypeOK, Alive
<1>4. CountInv'
  BY <1>3 DEF CountInv
<1>5. \A k \in Jobs : Kept(k) => Kept(k)'
  BY DEF Kept, InQueue
<1>6. KeptInv'
  BY <1>5 DEF KeptInv, HasJobInv, TypeOK
<1> QED
  BY <1>1, <1>2, <1>4, <1>6

LEMMA WorkerLockStep ==
    ASSUME IInv, NEW w \in Workers, WorkerLock(w)
    PROVE  IInv'
<1> USE DEF IInv, WorkerLock, queueVars, setup, syncVars, addVars, workerVars,
            history
<1>1. TypeOK' /\ HasJobInv'
  BY DEF TypeOK, HasJobInv, SyncInv, NestedInv
<1>2. SyncInv' /\ LeaveInv' /\ LimitInv'
  BY DEF TypeOK, SyncInv, QueueMutexInv, NestedInv, LeaveInv, StopInv, PoolInv,
      LeftInv, InlineInv, Left, LimitInv, RoomInv, WithinLimit, Full
<1>3. Alive' = Alive
  BY DEF TypeOK, Alive
<1>4. CountInv'
  BY <1>3 DEF CountInv
<1>5. \A k \in Jobs : Kept(k) => Kept(k)'
  BY DEF Kept, InQueue
<1>6. KeptInv'
  BY <1>5 DEF KeptInv, HasJobInv, TypeOK
<1> QED
  BY <1>1, <1>2, <1>4, <1>6

LEMMA WorkerCheckStep ==
    ASSUME IInv, NEW w \in Workers, WorkerCheck(w)
    PROVE  IInv'
<1> USE DEF IInv, WorkerCheck, queueVars, setup, syncVars, addVars, workerVars,
            history
<1>1. TypeOK' /\ HasJobInv'
  BY DEF TypeOK, HasJobInv, SyncInv, NestedInv
<1>2. SyncInv' /\ LeaveInv' /\ LimitInv'
  BY DEF TypeOK, SyncInv, QueueMutexInv, NestedInv, LeaveInv, StopInv, PoolInv,
      LeftInv, InlineInv, Left, LimitInv, RoomInv, WithinLimit, Full
<1>3. Alive' = Alive
  BY DEF TypeOK, Alive
<1>4. CountInv'
  BY <1>3 DEF CountInv
<1>5. \A k \in Jobs : Kept(k) => Kept(k)'
  BY DEF Kept, InQueue
<1>6. KeptInv'
  BY <1>5 DEF KeptInv, HasJobInv, TypeOK
<1> QED
  BY <1>1, <1>2, <1>4, <1>6

LEMMA WorkerLeaveStep ==
    ASSUME IInv, NEW w \in Workers, WorkerLeave(w)
    PROVE  IInv'
<1> USE DEF IInv, WorkerLeave, queueVars, setup, syncVars, addVars, workerVars,
            history
<1>1. TypeOK' /\ HasJobInv'
  BY DEF TypeOK, HasJobInv, SyncInv, NestedInv
<1>2. SyncInv' /\ LeaveInv' /\ LimitInv'
  BY DEF TypeOK, SyncInv, QueueMutexInv, NestedInv, LeaveInv, StopInv, PoolInv,
      LeftInv, InlineInv, Left, LimitInv, RoomInv, WithinLimit, Full
<1>3. Alive' = Alive
  BY DEF TypeOK, Alive
<1>4. CountInv'
  BY <1>3 DEF CountInv
<1>5. \A k \in Jobs : Kept(k) => Kept(k)'
  BY DEF Kept, InQueue
<1>6. KeptInv'
  BY <1>5 DEF KeptInv, HasJobInv, TypeOK
<1> QED
  BY <1>1, <1>2, <1>4, <1>6

LEMMA WorkerTakeStep ==
    ASSUME IInv, NEW w \in Workers, WorkerTake(w)
    PROVE  IInv'
<1> USE DEF IInv, WorkerTake, queueVars, setup, syncVars, addVars, workerVars,
            history
<1>1. TypeOK' /\ HasJobInv'
  BY DEF TypeOK, HasJobInv, SyncInv, NestedInv
<1>2. SyncInv' /\ LeaveInv' /\ LimitInv'
  BY DEF TypeOK, SyncInv, QueueMutexInv, NestedInv, LeaveInv, StopInv, PoolInv,
      LeftInv, InlineInv, Left, LimitInv, RoomInv, WithinLimit, Full
<1>3. Alive' = Alive
  BY DEF TypeOK, Alive
<1>4. CountInv'
  BY <1>3 DEF CountInv
<1>5. /\ job[w] = None
      /\ job'[w] = Head(Queue)
      /\ \A v \in Workers \ {w} : job'[v] = job[v]
  BY DEF HasJobInv, TypeOK
<1>6. \A k \in Jobs : InQueue(k) => InQueue(k)' \/ k = Head(Queue)
  <2>1. Queue \in Seq(Jobs) /\ Queue # <<>> /\ Queue' = Tail(Queue)
    BY DEF TypeOK
  <2> QED
    BY <2>1, TailKeeps DEF InQueue
<1>7. \A k \in Jobs : Kept(k) => Kept(k)'
  BY <1>5, <1>6 DEF Kept
<1>8. KeptInv'
  BY <1>7 DEF KeptInv, HasJobInv, TypeOK
<1> QED
  BY <1>1, <1>2, <1>4, <1>8

LEMMA WorkerWaitStep ==
    ASSUME IInv, NEW w \in Workers, WorkerWait(w)
    PROVE  IInv'
<1> USE DEF IInv, WorkerWait, queueVars, setup, syncVars, addVars, workerVars,
            history
<1>1. TypeOK' /\ HasJobInv'
  BY DEF TypeOK, HasJobInv, SyncInv, NestedInv
<1>2. SyncInv' /\ LeaveInv' /\ LimitInv'
  BY DEF TypeOK, SyncInv, QueueMutexInv, NestedInv, LeaveInv, StopInv, PoolInv,
      LeftInv, InlineInv, Left, LimitInv, RoomInv, WithinLimit, Full
<1>3. Alive' = Alive
  BY DEF TypeOK, Alive
<1>4. CountInv'
  BY <1>3 DEF CountInv
<1>5. \A k \in Jobs : Kept(k) => Kept(k)'
  BY DEF Kept, InQueue
<1>6. KeptInv'
  BY <1>5 DEF KeptInv, HasJobInv, TypeOK
<1> QED
  BY <1>1, <1>2, <1>4, <1>6

LEMMA WorkerSignalStep ==
    ASSUME IInv, NEW w \in Workers, WorkerSignal(w)
    PROVE  IInv'
<1> USE DEF IInv, WorkerSignal, QueuePopCond, Goto, queueVars, setup, syncVars,
            addVars, workerVars, history
<1>1. job[w] \in Jobs
  BY DEF TypeOK, HasJobInv
<1>2. started' \in [Jobs -> Nat]
  BY <1>1 DEF TypeOK
<1>3. apc' \in [Callers -> {"idle", "entry", "inline", "inlineRun", "lock",
                          "check", "wait", "waiting", "push", "signal"}]
  BY DEF TypeOK
<1>4. TypeOK'
  BY <1>2, <1>3 DEF TypeOK
<1>5. HasJobInv'
  BY DEF TypeOK, HasJobInv, SyncInv, NestedInv
<1>6. SyncInv' /\ LeaveInv' /\ LimitInv'
  BY DEF TypeOK, SyncInv, QueueMutexInv, NestedInv, LeaveInv, StopInv, PoolInv,
      LeftInv, InlineInv, Left, LimitInv, RoomInv, WithinLimit, Full
<1>7. Alive' = Alive
  BY DEF TypeOK, Alive
<1>8. CountInv'
  BY <1>7 DEF CountInv
<1>9. \A k \in Jobs : Kept(k) => Kept(k)'
  BY DEF Kept, InQueue
<1>10. KeptInv'
  BY <1>9 DEF KeptInv, HasJobInv, TypeOK
<1> QED
  BY <1>4, <1>5, <1>6, <1>8, <1>10

LEMMA WorkerDoneStep ==
    ASSUME IInv, NEW w \in Workers, WorkerDone(w)
    PROVE  IInv'
<1> USE DEF IInv, WorkerDone, queueVars, setup, syncVars, addVars, workerVars,
            history
<1>1. TypeOK' /\ HasJobInv'
  BY DEF TypeOK, HasJobInv, SyncInv, NestedInv
<1>2. SyncInv' /\ LeaveInv' /\ LimitInv'
  BY DEF TypeOK, SyncInv, QueueMutexInv, NestedInv, LeaveInv, StopInv, PoolInv,
      LeftInv, InlineInv, Left, LimitInv, RoomInv, WithinLimit, Full
<1>3. Alive' = Alive
  BY DEF TypeOK, Alive
<1>4. CountInv'
  BY <1>3 DEF CountInv
<1>5. \A k \in Jobs : Kept(k) => Kept(k)'
  BY DEF Kept, InQueue, TypeOK
<1>6. KeptInv'
  BY <1>5 DEF KeptInv, HasJobInv, TypeOK
<1> QED
  BY <1>1, <1>2, <1>4, <1>6

LEMMA WorkerFinishStep ==
    ASSUME IInv, NEW w \in Workers, WorkerFinish(w)
    PROVE  IInv'
<1> USE DEF IInv, WorkerFinish, queueVars, setup, syncVars, addVars, workerVars,
            history
<1>1. ThreadCountReal \in Nat \ {0}
  BY NobodyAlive DEF TypeOK
<1>2. TypeOK' /\ HasJobInv'
  BY <1>1 DEF TypeOK, HasJobInv, SyncInv, NestedInv
<1>3. SyncInv' /\ LeaveInv' /\ LimitInv'
  BY DEF TypeOK, SyncInv, QueueMutexInv, NestedInv, LeaveInv, StopInv, PoolInv,
      LeftInv, InlineInv, Left, LimitInv, RoomInv, WithinLimit, Full
<1>4. w \in Alive /\ Alive' = Alive \ {w} /\ IsFiniteSet(Alive)
  BY WorkersAssumption, FS_Subset DEF TypeOK, Alive
<1>5. Cardinality(Alive') = Cardinality(Alive) - 1
  BY <1>4, FS_RemoveElement
<1>6. CountInv'
  BY <1>5, <1>1 DEF CountInv, StopCond
<1>7. \A k \in Jobs : Kept(k) => Kept(k)'
  BY DEF Kept, InQueue
<1>8. KeptInv'
  BY <1>7 DEF KeptInv, HasJobInv, TypeOK
<1> QED
  BY <1>2, <1>3, <1>6, <1>8

LEMMA StopCallStep ==
    ASSUME IInv, StopCall
    PROVE  IInv'
<1> USE DEF IInv, StopCall, queueVars, setup, syncVars, addVars, workerVars, history
<1>1. TypeOK' /\ HasJobInv'
  BY DEF TypeOK, HasJobInv, SyncInv, NestedInv
<1>2. SyncInv' /\ LeaveInv' /\ LimitInv'
  BY DEF TypeOK, SyncInv, QueueMutexInv, NestedInv, LeaveInv, StopInv, PoolInv,
      LeftInv, InlineInv, Left, LimitInv, RoomInv, WithinLimit, Full
<1>3. Alive' = Alive
  BY DEF TypeOK, Alive
<1>4. CountInv'
  BY <1>3 DEF CountInv
<1>5. \A k \in Jobs : Kept(k) => Kept(k)'
  BY DEF Kept, InQueue
<1>6. KeptInv'
  BY <1>5 DEF KeptInv, HasJobInv, TypeOK
<1> QED
  BY <1>1, <1>2, <1>4, <1>6

LEMMA StopBroadcastStep ==
    ASSUME IInv, StopBroadcast
    PROVE  IInv'
<1> USE DEF IInv, StopBroadcast, QueuePopCond, queueVars, setup, syncVars, addVars,
            workerVars, history
<1>1. TypeOK' /\ HasJobInv'
  BY DEF TypeOK, HasJobInv, SyncInv, NestedInv
<1>2. SyncInv' /\ LeaveInv' /\ LimitInv'
  BY DEF TypeOK, SyncInv, QueueMutexInv, NestedInv, LeaveInv, StopInv, PoolInv,
      LeftInv, InlineInv, Left, LimitInv, RoomInv, WithinLimit, Full
<1>3. Alive' = Alive
  BY DEF TypeOK, Alive
<1>4. CountInv'
  BY <1>3 DEF CountInv
<1>5. \A k \in Jobs : Kept(k) => Kept(k)'
  BY DEF Kept, InQueue
<1>6. KeptInv'
  BY <1>5 DEF KeptInv, HasJobInv, TypeOK
<1> QED
  BY <1>1, <1>2, <1>4, <1>6

LEMMA StopLockStep ==
    ASSUME IInv, StopLock
    PROVE  IInv'
<1> USE DEF IInv, StopLock, queueVars, setup, syncVars, addVars, workerVars, history
<1>1. TypeOK' /\ HasJobInv'
  BY DEF TypeOK, HasJobInv, SyncInv, NestedInv
<1>2. SyncInv' /\ LeaveInv' /\ LimitInv'
  BY DEF TypeOK, SyncInv, QueueMutexInv, NestedInv, LeaveInv, StopInv, PoolInv,
      LeftInv, InlineInv, Left, LimitInv, RoomInv, WithinLimit, Full
<1>3. Alive' = Alive
  BY DEF TypeOK, Alive
<1>4. CountInv'
  BY <1>3 DEF CountInv
<1>5. \A k \in Jobs : Kept(k) => Kept(k)'
  BY DEF Kept, InQueue
<1>6. KeptInv'
  BY <1>5 DEF KeptInv, HasJobInv, TypeOK
<1> QED
  BY <1>1, <1>2, <1>4, <1>6

LEMMA StopLoopStep ==
    ASSUME IInv, StopLoop
    PROVE  IInv'
<1> USE DEF IInv, StopLoop, queueVars, setup, syncVars, addVars, workerVars, history
<1>1. TypeOK' /\ HasJobInv'
  BY DEF TypeOK, HasJobInv, SyncInv, NestedInv
<1>2. SyncInv' /\ LeaveInv' /\ LimitInv'
  BY DEF TypeOK, SyncInv, QueueMutexInv, NestedInv, LeaveInv, StopInv, PoolInv,
      LeftInv, InlineInv, Left, LimitInv, RoomInv, WithinLimit, Full
<1>3. Alive' = Alive
  BY DEF TypeOK, Alive
<1>4. CountInv'
  BY <1>3 DEF CountInv
<1>5. \A k \in Jobs : Kept(k) => Kept(k)'
  BY DEF Kept, InQueue
<1>6. KeptInv'
  BY <1>5 DEF KeptInv, HasJobInv, TypeOK
<1> QED
  BY <1>1, <1>2, <1>4, <1>6

LEMMA StopSignalStep ==
    ASSUME IInv, StopSignal
    PROVE  IInv'
<1> USE DEF IInv, StopSignal, SignalPush, QueuePushCond, queueVars, setup, syncVars,
            addVars, workerVars, history
<1>1. TypeOK' /\ HasJobInv'
  BY DEF TypeOK, HasJobInv, SyncInv, NestedInv
<1>2. SyncInv' /\ LeaveInv' /\ LimitInv'
  BY DEF TypeOK, SyncInv, QueueMutexInv, NestedInv, LeaveInv, StopInv, PoolInv,
      LeftInv, InlineInv, Left, LimitInv, RoomInv, WithinLimit, Full
<1>3. Alive' = Alive
  BY DEF TypeOK, Alive
<1>4. CountInv'
  BY <1>3 DEF CountInv
<1>5. \A k \in Jobs : Kept(k) => Kept(k)'
  BY DEF Kept, InQueue
<1>6. KeptInv'
  BY <1>5 DEF KeptInv, HasJobInv, TypeOK
<1> QED
  BY <1>1, <1>2, <1>4, <1>6

LEMMA StopWaitStep ==
    ASSUME IInv, StopWait
    PROVE  IInv'
<1> USE DEF IInv, StopWait, queueVars, setup, syncVars, addVars, workerVars, history
<1>1. TypeOK' /\ HasJobInv'
  BY DEF TypeOK, HasJobInv, SyncInv, NestedInv
<1>2. SyncInv' /\ LeaveInv' /\ LimitInv'
  BY DEF TypeOK, SyncInv, QueueMutexInv, NestedInv, LeaveInv, StopInv, PoolInv,
      LeftInv, InlineInv, Left, LimitInv, RoomInv, WithinLimit, Full
<1>3. Alive' = Alive
  BY DEF TypeOK, Alive
<1>4. CountInv'
  BY <1>3 DEF CountInv
<1>5. \A k \in Jobs : Kept(k) => Kept(k)'
  BY DEF Kept, InQueue
<1>6. KeptInv'
  BY <1>5 DEF KeptInv, HasJobInv, TypeOK
<1> QED
  BY <1>1, <1>2, <1>4, <1>6

LEMMA StopClearStep ==
    ASSUME IInv, StopClear
    PROVE  IInv'
<1> USE DEF IInv, StopClear, queueVars, setup, syncVars, addVars, workerVars, history
<1>1. TypeOK' /\ HasJobInv'
  BY DEF TypeOK, HasJobInv, SyncInv, NestedInv
<1>2. SyncInv' /\ LeaveInv' /\ LimitInv'
  BY DEF TypeOK, SyncInv, QueueMutexInv, NestedInv, LeaveInv, StopInv, PoolInv,
      LeftInv, InlineInv, Left, LimitInv, RoomInv, WithinLimit, Full
<1>3. Alive' = Alive
  BY DEF TypeOK, Alive
<1>4. CountInv'
  BY <1>3 DEF CountInv
<1>5. \A k \in Jobs : Kept(k) => Kept(k)'
  BY DEF Kept, InQueue
<1>6. KeptInv'
  BY <1>5 DEF KeptInv, HasJobInv, TypeOK
<1> QED
  BY <1>1, <1>2, <1>4, <1>6

LEMMA SpuriousWorkerStep ==
    ASSUME IInv, NEW w \in Workers, SpuriousWorker(w)
    PROVE  IInv'
<1> USE DEF IInv, SpuriousWorker, CountSpurious, QueuePushCond, queueVars, setup,
            syncVars, addVars, workerVars, history
<1>1. TypeOK' /\ HasJobInv'
  BY DEF TypeOK, HasJobInv, SyncInv, NestedInv
<1>2. SyncInv' /\ LeaveInv' /\ LimitInv'
  BY DEF TypeOK, SyncInv, QueueMutexInv, NestedInv, LeaveInv, StopInv, PoolInv,
      LeftInv, InlineInv, Left, LimitInv, RoomInv, WithinLimit, Full
<1>3. Alive' = Alive
  BY DEF TypeOK, Alive
<1>4. CountInv'
  BY <1>3 DEF CountInv
<1>5. \A k \in Jobs : Kept(k) => Kept(k)'
  BY DEF Kept, InQueue
<1>6. KeptInv'
  BY <1>5 DEF KeptInv, HasJobInv, TypeOK
<1> QED
  BY <1>1, <1>2, <1>4, <1>6

LEMMA SpuriousCallerStep ==
    ASSUME IInv, NEW t \in Callers, SpuriousCaller(t)
    PROVE  IInv'
<1> USE DEF IInv, SpuriousCaller, CountSpurious, QueuePopCond, Goto,
            queueVars, setup, syncVars, addVars, workerVars, history
<1>1. TypeOK' /\ HasJobInv'
  BY DEF TypeOK, HasJobInv, SyncInv, NestedInv
<1>2. SyncInv' /\ LeaveInv' /\ LimitInv'
  BY DEF TypeOK, SyncInv, QueueMutexInv, NestedInv, LeaveInv, StopInv, PoolInv,
      LeftInv, InlineInv, Left, LimitInv, RoomInv, WithinLimit, Full
<1>3. Alive' = Alive
  BY DEF TypeOK, Alive
<1>4. CountInv'
  BY <1>3 DEF CountInv
<1>5. \A k \in Jobs : Kept(k) => Kept(k)'
  BY DEF Kept, InQueue
<1>6. KeptInv'
  BY <1>5 DEF KeptInv, HasJobInv, TypeOK
<1> QED
  BY <1>1, <1>2, <1>4, <1>6

LEMMA SpuriousOwnerStep ==
    ASSUME IInv, SpuriousOwner
    PROVE  IInv'
<1> USE DEF IInv, SpuriousOwner, CountSpurious, StopCond, queueVars, setup, syncVars,
            addVars, workerVars, history
<1>1. TypeOK' /\ HasJobInv'
  BY DEF TypeOK, HasJobInv, SyncInv, NestedInv
<1>2. SyncInv' /\ LeaveInv' /\ LimitInv'
  BY DEF TypeOK, SyncInv, QueueMutexInv, NestedInv, LeaveInv, StopInv, PoolInv,
      LeftInv, InlineInv, Left, LimitInv, RoomInv, WithinLimit, Full
<1>3. Alive' = Alive
  BY DEF TypeOK, Alive
<1>4. CountInv'
  BY <1>3 DEF CountInv
<1>5. \A k \in Jobs : Kept(k) => Kept(k)'
  BY DEF Kept, InQueue
<1>6. KeptInv'
  BY <1>5 DEF KeptInv, HasJobInv, TypeOK
<1> QED
  BY <1>1, <1>2, <1>4, <1>6

-----------------------------------------------------------------------------
LEMMA InitIInv == Init => IInv
<1> SUFFICES ASSUME Init PROVE IInv
  OBVIOUS
<1>1. TypeOK /\ CountInv
  <2>1. Alive = Tharr /\ Tharr \subseteq Workers /\ Cardinality(Tharr) \in Nat
    BY WorkersAssumption, FS_Subset, FS_CardinalityType DEF Alive, Init
  <2>2. /\ arg \in [Callers -> Jobs \cup {None}]
        /\ job \in [Workers -> Jobs \cup {None}]
        /\ started \in [Jobs -> Nat]
        /\ Queue \in Seq(Jobs)
    BY DEF Init
  <2>3. TypeOK
    BY <2>1, <2>2 DEF TypeOK, Init
  <2>4. CountInv
    BY <2>1 DEF CountInv, Init
  <2> QED
    BY <2>3, <2>4
<1>2. SyncInv /\ LeaveInv /\ HasJobInv /\ KeptInv /\ LimitInv
  BY DEF Init, SyncInv, QueueMutexInv, NestedInv, LeaveInv, StopInv, PoolInv,
      LeftInv, Left, InlineInv, HasJobInv, KeptInv, LimitInv, RoomInv,
      WithinLimit
<1> QED
  BY <1>1, <1>2 DEF IInv

LEMMA NextIInv == IInv /\ [Next]_vars => IInv'
<1> SUFFICES ASSUME IInv, [Next]_vars PROVE IInv'
  OBVIOUS
<1>1. CASE \E t \in Callers : \/ AddStep(t)
                             \/ \E j \in Jobs : AddCall(t, j) \/ AddThrow(t, j)
  BY <1>1, AddCallStep, AddThrowStep, AddRefuseEarlyStep, AddEntryStep,
      AddInlineBeginStep, AddInlineEndStep, AddLockStep, AddRefuseStep,
      AddCheckStep, AddWaitStep, AddPushStep, AddSignalStep
      DEF AddStep
<1>2. CASE \E w \in Workers : WorkerStep(w)
  BY <1>2, WorkerLockStep, WorkerCheckStep, WorkerLeaveStep,
      WorkerTakeStep, WorkerWaitStep, WorkerSignalStep,
      WorkerDoneStep, WorkerFinishStep DEF WorkerStep
<1>3. CASE StopCall \/ StopStep
  BY <1>3, StopCallStep, StopBroadcastStep, StopLockStep, StopLoopStep,
      StopSignalStep, StopWaitStep, StopClearStep DEF StopStep
<1>4. CASE SpuriousWakeup
  BY <1>4, SpuriousWorkerStep, SpuriousCallerStep, SpuriousOwnerStep
      DEF SpuriousWakeup
<1>5. CASE UNCHANGED vars
  BY <1>5 DEF vars, queueVars, setup, syncVars, addVars, workerVars, history, IInv,
      TypeOK, SyncInv, QueueMutexInv, NestedInv, CountInv, Alive,
      LeaveInv, StopInv, PoolInv, LeftInv, Left, InlineInv, HasJobInv, KeptInv, Kept,
      InQueue, LimitInv, RoomInv, WithinLimit, Full
<1> QED
  BY <1>1, <1>2, <1>3, <1>4, <1>5 DEF Next

\* The inductive invariant holds in every reachable state.
THEOREM Invariance == Spec => []IInv
BY InitIInv, NextIInv, PTL DEF Spec

\* Type correctness of the queue.
THEOREM TypeCorrect == Spec => []TypeOK
<1>1. IInv => TypeOK
  BY DEF IInv
<1> QED
  BY <1>1, Invariance, PTL

\* The limit passed to Start bounds the queue, whatever the number of callers
\* that wait for room in Add.
THEOREM LimitKept == Spec => []WithinLimit
<1>1. IInv => WithinLimit
  BY DEF IInv, LimitInv
<1> QED
  BY <1>1, Invariance, PTL

\* When WaitForComplete has returned, no job that Add accepted is left behind
\* and no worker is left running, for any number of threads and any timing of
\* Add, Stop and the workers.
THEOREM StopDrainsAlways == Spec => []StopDrains
<1>1. IInv => StopDrains
  <2> SUFFICES ASSUME IInv, opc \in {"clear", "stopped"}
               PROVE  /\ Queue = <<>>
                      /\ \A w \in Workers : wpc[w] = "exited"
                      /\ \A j \in Jobs : verdict[j] = "accepted" => j \in finished
    BY DEF StopDrains
  <2>1. \A w \in Workers : wpc[w] = "exited"
    BY NobodyAlive DEF IInv, CountInv
  <2>2. Queue = <<>>
    BY <2>1 DEF IInv, TypeOK, LeaveInv, LeftInv, InlineInv, Left
  <2>3. \A w \in Workers : job[w] = None
    BY <2>1 DEF IInv, HasJobInv
  <2>4. \A j \in Jobs : Kept(j) => j \in finished
    BY <2>2, <2>3 DEF Kept, InQueue
  <2> QED
    BY <2>1, <2>2, <2>4 DEF IInv, KeptInv
<1> QED
  BY <1>1, Invariance, PTL

-----------------------------------------------------------------------------
(***************************************************************************)
(* The jobs: the queue processes a job at most once and never one it       *)
(* refused, loses no wakeup, and implements JobQueue.  The argument        *)
(* follows a job from hand to hand.  JobInv says that a job is in one      *)
(* place: with the caller that adds it, in the queue, with the worker that *)
(* took it, or among the finished ones; and that its place tells whether   *)
(* its processing has begun.                                               *)
(***************************************************************************)

\* Where a caller is while it alone knows the job that it adds.
Offering == {"entry", "inline", "lock", "check", "wait", "waiting", "push"}

\* The jobs in the queue, those that a worker has taken, and all that the
\* queue knows.
Queued == {j \in Jobs : InQueue(j)}
Taken == {j \in Jobs : \E w \in Workers : job[w] = j}
Known == Queued \cup Taken \cup finished

\* A caller inside Add is the only one that adds its job.  The queue learns of
\* the job when it is pushed; a queue without threads never does.
CallerInv ==
    /\ \A t, u \in Callers :
           apc[t] # "idle" /\ apc[u] # "idle" /\ t # u => arg[t] # arg[u]
    /\ \A t \in Callers :
           /\ apc[t] # "idle" => verdict[arg[t]] = "called"
           /\ apc[t] \in Offering => arg[t] \notin Known /\ started[arg[t]] = 0
           /\ apc[t] = "inlineRun" => arg[t] \notin Known /\ started[arg[t]] = 1

\* A job that was never added, or that Add refused, is nowhere.
OutsideInv ==
    \A j \in Jobs :
        verdict[j] \in {"none", "refused"} => j \notin Known /\ started[j] = 0

\* A queued job is in the queue once, and nowhere else.
Distinct(s) == \A i, k \in 1..Len(s) : s[i] = s[k] => i = k

QueuedInv ==
    /\ Distinct(Queue)
    /\ \A j \in Queued : j \notin Taken /\ j \notin finished /\ started[j] = 0

\* A job that a worker took belongs to that worker alone.
TakenInv ==
    /\ \A v, w \in Workers : v # w /\ job[v] # None => job[v] # job[w]
    /\ \A w \in Workers :
           /\ job[w] # None => job[w] \notin finished
           /\ wpc[w] = "signal" => started[job[w]] = 0
           /\ wpc[w] = "run" => started[job[w]] = 1

\* Somebody is responsible for every job whose processing has begun.
BegunInv ==
    \A j \in Jobs :
        /\ started[j] \in {0, 1}
        /\ started[j] = 1 =>
               \/ j \in finished
               \/ j \in Taken
               \/ \E t \in Callers : apc[t] = "inlineRun" /\ arg[t] = j

\* Nobody is inside Add once the queue has been destroyed.
ClosedInv == opc = "stopped" => \A t \in Callers : apc[t] = "idle"

JobInv ==
    /\ CallerInv
    /\ OutsideInv
    /\ QueuedInv
    /\ TakenInv
    /\ BegunInv
    /\ ClosedInv

\* A worker goes to sleep only if it has seen, under the mutex, an empty queue.
AsleepInv == \A w \in Workers : wpc[w] = "wait" => Queue = <<>>

USE LimitAssumption, FlagAssumption, DistinctAssumption DEF Callers

-----------------------------------------------------------------------------
(***************************************************************************)
(* Facts about the sequence Queue.                                         *)
(***************************************************************************)

\* Push adds one job to those in the queue.
LEMMA PushedJobs ==
    ASSUME NEW s \in Seq(Jobs), NEW x \in Jobs, NEW k
    PROVE  (\E i \in 1..Len(Append(s, x)) : Append(s, x)[i] = k)
               <=> (k = x \/ \E i \in 1..Len(s) : s[i] = k)
<1>1. ASSUME \E i \in 1..Len(Append(s, x)) : Append(s, x)[i] = k
      PROVE  k = x \/ \E i \in 1..Len(s) : s[i] = k
  <2>1. PICK i \in 1..Len(Append(s, x)) : Append(s, x)[i] = k
    BY <1>1
  <2>2. CASE i = Len(s) + 1
    BY <2>1, <2>2
  <2>3. CASE i # Len(s) + 1
    <3>1. i \in 1..Len(s) /\ s[i] = k
      BY <2>1, <2>3
    <3> QED
      BY <3>1
  <2> QED
    BY <2>2, <2>3
<1>2. ASSUME k = x \/ \E i \in 1..Len(s) : s[i] = k
      PROVE  \E i \in 1..Len(Append(s, x)) : Append(s, x)[i] = k
  <2>1. k \in Jobs
    BY <1>2
  <2> QED
    BY <1>2, <2>1, AppendKeeps
<1> QED
  BY <1>1, <1>2

LEMMA PushedDistinct ==
    ASSUME NEW s \in Seq(Jobs), NEW x \in Jobs, Distinct(s),
           ~ \E i \in 1..Len(s) : s[i] = x
    PROVE  Distinct(Append(s, x))
<1> SUFFICES ASSUME NEW i \in 1..Len(Append(s, x)), NEW k \in 1..Len(Append(s, x)),
                    Append(s, x)[i] = Append(s, x)[k]
             PROVE  i = k
  BY DEF Distinct
<1>1. CASE i \in 1..Len(s) /\ k \in 1..Len(s)
  BY <1>1 DEF Distinct
<1>2. CASE i \in 1..Len(s) /\ k = Len(s) + 1
  BY <1>2
<1>3. CASE i = Len(s) + 1 /\ k \in 1..Len(s)
  BY <1>3
<1> QED
  BY <1>1, <1>2, <1>3

\* Pop removes the first job, and that one only.
LEMMA PoppedJobs ==
    ASSUME NEW s \in Seq(Jobs), s # <<>>, Distinct(s), NEW k
    PROVE  (\E i \in 1..Len(Tail(s)) : Tail(s)[i] = k)
               <=> (k # Head(s) /\ \E i \in 1..Len(s) : s[i] = k)
<1>1. ASSUME NEW i \in 1..Len(Tail(s)), Tail(s)[i] = k
      PROVE  k # Head(s) /\ \E m \in 1..Len(s) : s[m] = k
  <2>1. i + 1 \in 1..Len(s) /\ s[i + 1] = k /\ i + 1 # 1 /\ 1 \in 1..Len(s)
    BY <1>1
  <2>2. Head(s) = s[1]
    OBVIOUS
  <2> QED
    BY <2>1, <2>2 DEF Distinct
<1>2. ASSUME k # Head(s), \E i \in 1..Len(s) : s[i] = k
      PROVE  \E i \in 1..Len(Tail(s)) : Tail(s)[i] = k
  <2>1. k \in Jobs
    BY <1>2
  <2> QED
    BY <1>2, <2>1, TailKeeps
<1> QED
  BY <1>1, <1>2

LEMMA PoppedDistinct ==
    ASSUME NEW s \in Seq(Jobs), s # <<>>, Distinct(s)
    PROVE  Distinct(Tail(s))
<1> SUFFICES ASSUME NEW i \in 1..Len(Tail(s)), NEW k \in 1..Len(Tail(s)),
                    Tail(s)[i] = Tail(s)[k]
             PROVE  i = k
  BY DEF Distinct
<1>1. /\ i + 1 \in 1..Len(s) /\ k + 1 \in 1..Len(s)
      /\ s[i + 1] = s[k + 1]
  OBVIOUS
<1>2. i + 1 = k + 1
  BY <1>1 DEF Distinct
<1> QED
  BY <1>2

-----------------------------------------------------------------------------
(***************************************************************************)
(* Most steps move no job.                                                 *)
(***************************************************************************)

\* Threads move, under the mutex or to and from it, and no job does.
Quiet ==
    /\ UNCHANGED <<Queue, job, arg, verdict, started, finished>>
    /\ \A t \in Callers :
           apc'[t] = apc[t] \/ (apc[t] \in Offering /\ apc'[t] \in Offering)
    /\ \A w \in Workers :
           wpc'[w] = wpc[w] \/ (wpc[w] \notin {"signal", "run"}
                                   /\ wpc'[w] \notin {"signal", "run"})
    /\ opc' = "stopped" => opc = "stopped" \/ \A t \in Callers : apc[t] = "idle"

LEMMA QuietCaller ==
    ASSUME IInv, NEW t \in Callers,
           \/ AddEntry(t) \/ AddLock(t) \/ AddCheck(t) \/ AddWait(t)
           \/ SpuriousCaller(t)
    PROVE  Quiet /\ UNCHANGED opc
<1> USE DEF Quiet, Offering, IInv, TypeOK, Goto, queueVars, setup, syncVars,
            addVars, workerVars, history
<1>1. CASE AddEntry(t)
  BY <1>1 DEF AddEntry
<1>2. CASE AddLock(t)
  BY <1>2 DEF AddLock
<1>3. CASE AddCheck(t)
  BY <1>3 DEF AddCheck
<1>4. CASE AddWait(t)
  BY <1>4 DEF AddWait
<1>5. CASE SpuriousCaller(t)
  BY <1>5 DEF SpuriousCaller, QueuePopCond
<1> QED
  BY <1>1, <1>2, <1>3, <1>4, <1>5

LEMMA QuietWorker ==
    ASSUME IInv, NEW w \in Workers,
           \/ WorkerLock(w) \/ WorkerCheck(w) \/ WorkerLeave(w) \/ WorkerWait(w)
           \/ WorkerFinish(w) \/ SpuriousWorker(w)
    PROVE  Quiet /\ (opc' = opc \/ (opc = "waiting" /\ opc' = "relock"))
<1> USE DEF Quiet, Offering, IInv, TypeOK, queueVars, setup, syncVars,
            addVars, workerVars, history
<1>1. CASE WorkerLock(w)
  BY <1>1 DEF WorkerLock
<1>2. CASE WorkerCheck(w)
  BY <1>2 DEF WorkerCheck
<1>3. CASE WorkerLeave(w)
  BY <1>3 DEF WorkerLeave
<1>4. CASE WorkerWait(w)
  BY <1>4 DEF WorkerWait
<1>5. CASE WorkerFinish(w)
  BY <1>5 DEF WorkerFinish, StopCond
<1>6. CASE SpuriousWorker(w)
  BY <1>6 DEF SpuriousWorker, QueuePushCond
<1> QED
  BY <1>1, <1>2, <1>3, <1>4, <1>5, <1>6

LEMMA QuietOwner ==
    ASSUME IInv, StopCall \/ StopStep \/ SpuriousOwner
    PROVE  Quiet
<1> USE DEF Quiet, Offering, IInv, TypeOK, queueVars, setup, syncVars,
            addVars, workerVars, history
<1>1. CASE StopCall
  BY <1>1 DEF StopCall
<1>2. CASE StopBroadcast
  BY <1>2 DEF StopBroadcast, QueuePopCond
<1>3. CASE StopLock
  BY <1>3 DEF StopLock
<1>4. CASE StopLoop
  BY <1>4 DEF StopLoop
<1>5. CASE StopSignal
  BY <1>5 DEF StopSignal, SignalPush, QueuePushCond
<1>6. CASE StopWait
  BY <1>6 DEF StopWait
<1>7. CASE StopClear
  BY <1>7 DEF StopClear
<1>8. CASE SpuriousOwner
  BY <1>8 DEF SpuriousOwner
<1> QED
  BY <1>1, <1>2, <1>3, <1>4, <1>5, <1>6, <1>7, <1>8 DEF StopStep

\* A step that moves no job keeps every job in its place.
LEMMA QuietStep ==
    ASSUME IInv, JobInv, Quiet
    PROVE  JobInv'
<1> USE DEF IInv, JobInv, Quiet
<1>1. Queued' = Queued /\ Taken' = Taken /\ Known' = Known
  BY DEF Queued, InQueue, Taken, Known
<1>2. CallerInv'
  BY <1>1 DEF CallerInv, Offering
<1>3. OutsideInv'
  BY <1>1 DEF OutsideInv
<1>4. QueuedInv'
  BY <1>1 DEF QueuedInv
<1>5. TakenInv'
  BY DEF TakenInv
<1>6. BegunInv'
  BY <1>1 DEF BegunInv, Offering
<1>7. ClosedInv'
  BY DEF ClosedInv, Offering
<1> QED
  BY <1>2, <1>3, <1>4, <1>5, <1>6, <1>7

-----------------------------------------------------------------------------
(***************************************************************************)
(* The steps that move a job.  Each says first where every job is afterwards.  *)
(***************************************************************************)

\* The caller of Add is the first to add the job.
LEMMA AddCallPlace ==
    ASSUME IInv, JobInv, NEW t \in Callers, NEW j \in Jobs, AddCall(t, j)
    PROVE  /\ JobInv'
           /\ Queued' = Queued /\ Taken' = Taken /\ Known' = Known
<1> USE DEF IInv, JobInv, AddCall, Goto, queueVars, setup, syncVars,
            addVars, workerVars, history
<1>1. \A u \in Callers : apc[u] # "idle" => arg[u] \in Jobs /\ arg[u] # j
  BY DEF HasJobInv, CallerInv, TypeOK
<1>2. Queued' = Queued /\ Taken' = Taken /\ Known' = Known
  BY DEF Queued, InQueue, Taken, Known
<1>3. CallerInv'
  BY <1>1, <1>2 DEF CallerInv, OutsideInv, Offering, TypeOK, HasJobInv
<1>4. OutsideInv'
  BY <1>1, <1>2 DEF OutsideInv, CallerInv, TypeOK, HasJobInv
<1>5. QueuedInv'
  BY <1>1, <1>2 DEF QueuedInv, CallerInv, TypeOK, HasJobInv
<1>6. TakenInv'
  BY <1>1, <1>2 DEF TakenInv, CallerInv, TypeOK, HasJobInv
<1>7. BegunInv'
  BY <1>1, <1>2 DEF BegunInv, CallerInv, TypeOK, HasJobInv
<1>8. ClosedInv'
  BY <1>1 DEF ClosedInv, TypeOK
<1> QED
  BY <1>2, <1>3, <1>4, <1>5, <1>6, <1>7, <1>8

\* A destroyed queue takes no job.
LEMMA AddThrowPlace ==
    ASSUME IInv, JobInv, NEW t \in Callers, NEW j \in Jobs, AddThrow(t, j)
    PROVE  /\ JobInv'
           /\ Queued' = Queued /\ Taken' = Taken /\ Known' = Known
<1> USE DEF IInv, JobInv, AddThrow, queueVars, setup, syncVars,
            addVars, workerVars, history
<1>1. \A u \in Callers : apc[u] # "idle" => arg[u] \in Jobs /\ arg[u] # j
  BY DEF HasJobInv, CallerInv, TypeOK
<1>2. Queued' = Queued /\ Taken' = Taken /\ Known' = Known
  BY DEF Queued, InQueue, Taken, Known
<1>3. CallerInv'
  BY <1>1, <1>2 DEF CallerInv, Offering, TypeOK, HasJobInv
<1>4. OutsideInv'
  BY <1>1, <1>2 DEF OutsideInv, CallerInv, TypeOK, HasJobInv
<1>5. QueuedInv'
  BY <1>1, <1>2 DEF QueuedInv, CallerInv, TypeOK, HasJobInv
<1>6. TakenInv'
  BY <1>1, <1>2 DEF TakenInv, CallerInv, TypeOK, HasJobInv
<1>7. BegunInv'
  BY <1>1, <1>2 DEF BegunInv, CallerInv, TypeOK, HasJobInv
<1>8. ClosedInv'
  BY <1>1 DEF ClosedInv, TypeOK
<1> QED
  BY <1>2, <1>3, <1>4, <1>5, <1>6, <1>7, <1>8

\* A job for which Add returns false has not left its caller.
LEMMA AddRefusePlace ==
    ASSUME IInv, JobInv, NEW t \in Callers, AddRefuseEarly(t) \/ AddRefuse(t)
    PROVE  /\ JobInv'
           /\ Queued' = Queued /\ Taken' = Taken /\ Known' = Known
<1> USE DEF IInv, JobInv, Goto, Return, queueVars, setup, syncVars,
            addVars, workerVars, history
<1>1. /\ arg[t] \in Jobs
      /\ apc[t] \in Offering
      /\ Return(t, "refused")
      /\ UNCHANGED <<Queue, job, wpc, started, finished, opc>>
  BY DEF AddRefuseEarly, AddRefuse, Offering, HasJobInv, TypeOK
<1>2. Queued' = Queued /\ Taken' = Taken /\ Known' = Known
  BY <1>1 DEF Queued, InQueue, Taken, Known
<1>3. CallerInv'
  BY <1>1, <1>2 DEF CallerInv, Offering, TypeOK, HasJobInv
<1>4. OutsideInv'
  BY <1>1, <1>2 DEF OutsideInv, CallerInv, Offering, TypeOK, HasJobInv
<1>5. QueuedInv'
  BY <1>1, <1>2 DEF QueuedInv, CallerInv, TypeOK, HasJobInv
<1>6. TakenInv'
  BY <1>1, <1>2 DEF TakenInv, CallerInv, TypeOK, HasJobInv
<1>7. BegunInv'
  BY <1>1, <1>2 DEF BegunInv, Offering, TypeOK
<1>8. ClosedInv'
  BY <1>1 DEF ClosedInv, TypeOK
<1> QED
  BY <1>2, <1>3, <1>4, <1>5, <1>6, <1>7, <1>8

\* Without threads the caller processes the job, which nobody else knows.
LEMMA AddInlineBeginPlace ==
    ASSUME IInv, JobInv, NEW t \in Callers, AddInlineBegin(t)
    PROVE  /\ JobInv'
           /\ Queued' = Queued /\ Taken' = Taken /\ Known' = Known
<1> USE DEF IInv, JobInv, AddInlineBegin, Goto, queueVars, setup, syncVars,
            addVars, workerVars, history
<1>1. arg[t] \in Jobs /\ arg[t] \notin Known
  BY DEF HasJobInv, CallerInv, Offering, TypeOK
<1>2. Queued' = Queued /\ Taken' = Taken /\ Known' = Known
  BY DEF Queued, InQueue, Taken, Known
<1>3. CallerInv'
  BY <1>1, <1>2 DEF CallerInv, Offering, TypeOK, HasJobInv
<1>4. OutsideInv'
  BY <1>1, <1>2 DEF OutsideInv, CallerInv, TypeOK, HasJobInv
<1>5. QueuedInv'
  BY <1>1, <1>2 DEF QueuedInv, Known, Queued, TypeOK
<1>6. TakenInv'
  BY <1>1, <1>2 DEF TakenInv, Known, Taken, TypeOK, HasJobInv
<1>7. BegunInv'
  BY <1>1, <1>2 DEF BegunInv, CallerInv, Offering, TypeOK
<1>8. ClosedInv'
  BY <1>1 DEF ClosedInv, TypeOK
<1> QED
  BY <1>2, <1>3, <1>4, <1>5, <1>6, <1>7, <1>8

\* The job that was processed in Add is finished.
LEMMA AddInlineEndPlace ==
    ASSUME IInv, JobInv, NEW t \in Callers, AddInlineEnd(t)
    PROVE  /\ JobInv'
           /\ Queued' = Queued /\ Taken' = Taken
           /\ Known' = Known \cup {arg[t]}
<1> USE DEF IInv, JobInv, AddInlineEnd, Goto, Return, queueVars, setup, syncVars,
            addVars, workerVars, history
<1>1. arg[t] \in Jobs /\ arg[t] \notin Known
  BY DEF HasJobInv, CallerInv, TypeOK
<1>2. /\ Queued' = Queued /\ Taken' = Taken
      /\ Known' = Known \cup {arg[t]}
  BY DEF Queued, InQueue, Taken, Known
<1>3. CallerInv'
  BY <1>1, <1>2 DEF CallerInv, Offering, TypeOK, HasJobInv
<1>4. OutsideInv'
  BY <1>1, <1>2 DEF OutsideInv, CallerInv, TypeOK, HasJobInv
<1>5. QueuedInv'
  BY <1>1, <1>2 DEF QueuedInv, Known
<1>6. TakenInv'
  BY <1>1, <1>2 DEF TakenInv, Known, Taken, TypeOK
<1>7. BegunInv'
  BY <1>1, <1>2 DEF BegunInv, TypeOK
<1>8. ClosedInv'
  BY <1>1 DEF ClosedInv, TypeOK
<1> QED
  BY <1>2, <1>3, <1>4, <1>5, <1>6, <1>7, <1>8

\* The job goes from its caller into the queue.
LEMMA AddPushPlace ==
    ASSUME IInv, JobInv, NEW t \in Callers, AddPush(t)
    PROVE  /\ JobInv'
           /\ Queued' = Queued \cup {arg[t]} /\ Taken' = Taken
           /\ Known' = Known \cup {arg[t]}
<1> USE DEF IInv, JobInv, AddPush, Goto, queueVars, setup, syncVars,
            addVars, workerVars, history
<1>1. arg[t] \in Jobs /\ arg[t] \notin Known /\ started[arg[t]] = 0
  BY DEF HasJobInv, CallerInv, Offering, TypeOK
<1>2. /\ Queued' = Queued \cup {arg[t]} /\ Taken' = Taken
      /\ Known' = Known \cup {arg[t]}
  <2>1. Queued' = Queued \cup {arg[t]}
    <3>1. \A k : InQueue(k)' <=> k = arg[t] \/ InQueue(k)
      BY <1>1, PushedJobs DEF InQueue, TypeOK
    <3> QED
      BY <1>1, <3>1 DEF Queued
  <2> QED
    BY <2>1 DEF Taken, Known
<1>3. CallerInv'
  BY <1>1, <1>2 DEF CallerInv, Offering, TypeOK, HasJobInv
<1>4. OutsideInv'
  BY <1>1, <1>2 DEF OutsideInv, CallerInv, TypeOK, HasJobInv
<1>5. QueuedInv'
  <2>1. Distinct(Queue')
    BY <1>1, PushedDistinct DEF QueuedInv, Known, Queued, InQueue, TypeOK
  <2> QED
    BY <1>1, <1>2, <2>1 DEF QueuedInv, Known
<1>6. TakenInv'
  BY <1>1, <1>2 DEF TakenInv, CallerInv, TypeOK, HasJobInv
<1>7. BegunInv'
  BY <1>1, <1>2 DEF BegunInv, TypeOK
<1>8. ClosedInv'
  BY <1>1 DEF ClosedInv, TypeOK
<1> QED
  BY <1>2, <1>3, <1>4, <1>5, <1>6, <1>7, <1>8

\* When Add returns true the job has left its caller.
LEMMA AddSignalPlace ==
    ASSUME IInv, JobInv, NEW t \in Callers, AddSignal(t)
    PROVE  /\ JobInv'
           /\ Queued' = Queued /\ Taken' = Taken /\ Known' = Known
<1> USE DEF IInv, JobInv, AddSignal, Goto, Return, queueVars, setup, syncVars,
            addVars, workerVars, history
<1>1. arg[t] \in Jobs
  BY DEF HasJobInv, TypeOK
<1>2. Queued' = Queued /\ Taken' = Taken /\ Known' = Known
  BY DEF Queued, InQueue, Taken, Known
<1>3. CallerInv'
  BY <1>1, <1>2 DEF CallerInv, Offering, TypeOK, HasJobInv
<1>4. OutsideInv'
  BY <1>1, <1>2 DEF OutsideInv, CallerInv, TypeOK, HasJobInv
<1>5. QueuedInv'
  BY <1>1, <1>2 DEF QueuedInv, CallerInv, TypeOK, HasJobInv
<1>6. TakenInv'
  <2>1. \A w \in Workers : wpc'[w] \in {"signal", "run"} => wpc'[w] = wpc[w]
    BY DEF SignalPush, QueuePushCond, TypeOK
  <2> QED
    BY <1>1, <1>2, <2>1 DEF TakenInv, TypeOK
<1>7. BegunInv'
  BY <1>1, <1>2 DEF BegunInv, CallerInv, TypeOK, HasJobInv
<1>8. ClosedInv'
  BY <1>1 DEF ClosedInv, TypeOK
<1> QED
  BY <1>2, <1>3, <1>4, <1>5, <1>6, <1>7, <1>8

\* The first job goes from the queue to the worker.
LEMMA WorkerTakePlace ==
    ASSUME IInv, JobInv, NEW w \in Workers, WorkerTake(w)
    PROVE  /\ JobInv'
           /\ Queued' = Queued \ {Head(Queue)} /\ Taken' = Taken \cup {Head(Queue)}
           /\ Known' = Known
<1> USE DEF IInv, JobInv, WorkerTake, queueVars, setup, syncVars,
            addVars, workerVars, history
<1>1. Head(Queue) \in Queued /\ job[w] = None
  <2>1. Queue \in Seq(Jobs) /\ Queue # <<>>
    BY DEF TypeOK
  <2>2. 1 \in 1..Len(Queue) /\ Queue[1] = Head(Queue) /\ Queue[1] \in Jobs
    BY <2>1
  <2> QED
    BY <2>2 DEF Queued, InQueue, HasJobInv
<1>2. /\ Queued' = Queued \ {Head(Queue)} /\ Taken' = Taken \cup {Head(Queue)}
      /\ Known' = Known
  <2>1. Queued' = Queued \ {Head(Queue)}
    <3>1. /\ Queue \in Seq(Jobs) /\ Queue # <<>> /\ Distinct(Queue)
          /\ Queue' = Tail(Queue)
      BY DEF QueuedInv, TypeOK
    <3>2. \A k : InQueue(k)' <=> (k # Head(Queue) /\ InQueue(k))
      BY ONLY <3>1, PoppedJobs DEF InQueue
    <3> QED
      BY <3>2 DEF Queued
  <2>2. Taken' = Taken \cup {Head(Queue)}
    <3>1. job' = [v \in Workers |-> IF v = w THEN Head(Queue) ELSE job[v]]
      BY DEF TypeOK
    <3>2. Head(Queue) \in Jobs
      BY <1>1 DEF Queued, InQueue
    <3> QED
      BY <1>1, <3>1, <3>2 DEF Taken
  <2> QED
    BY <1>1, <2>1, <2>2 DEF Known
<1>3. CallerInv'
  BY <1>1, <1>2 DEF CallerInv, Offering
<1>4. OutsideInv'
  BY <1>1, <1>2 DEF OutsideInv
<1>5. QueuedInv'
  <2>1. Distinct(Queue')
    BY PoppedDistinct DEF QueuedInv, TypeOK
  <2> QED
    BY <1>1, <1>2, <2>1 DEF QueuedInv
<1>6. TakenInv'
  BY <1>1, <1>2 DEF TakenInv, QueuedInv, Taken, TypeOK
<1>7. BegunInv'
  BY <1>1, <1>2 DEF BegunInv, TypeOK
<1>8. ClosedInv'
  BY <1>1 DEF ClosedInv, TypeOK
<1> QED
  BY <1>2, <1>3, <1>4, <1>5, <1>6, <1>7, <1>8

\* The worker that took the job begins to process it.
LEMMA WorkerSignalPlace ==
    ASSUME IInv, JobInv, NEW w \in Workers, WorkerSignal(w)
    PROVE  /\ JobInv'
           /\ Queued' = Queued /\ Taken' = Taken /\ Known' = Known
<1> USE DEF IInv, JobInv, Goto, queueVars, setup, syncVars,
            addVars, workerVars, history
<1>1. /\ job[w] \in Jobs /\ job[w] \in Taken /\ started[job[w]] = 0
      /\ \A u \in Callers : \/ apc'[u] = apc[u]
                            \/ apc[u] \in Offering /\ apc'[u] \in Offering
      /\ started' = [started EXCEPT ![job[w]] = 1]
      /\ wpc' = [wpc EXCEPT ![w] = "run"]
      /\ UNCHANGED <<Queue, arg, job, opc, verdict, finished>>
  <2>1. job[w] \in Jobs /\ job[w] \in Taken /\ started[job[w]] = 0
    BY DEF WorkerSignal, HasJobInv, Taken, TakenInv, TypeOK
  <2>2. \A u \in Callers : \/ apc'[u] = apc[u]
                           \/ apc[u] \in Offering /\ apc'[u] \in Offering
    BY DEF WorkerSignal, QueuePopCond, Offering, TypeOK
  <2> QED
    BY <2>1, <2>2 DEF WorkerSignal
<1>2. Queued' = Queued /\ Taken' = Taken /\ Known' = Known
  BY <1>1 DEF Queued, InQueue, Taken, Known
<1>3. CallerInv'
  <2>1. \A u \in Callers : apc[u] \in Offering \cup {"inlineRun"} => arg[u] # job[w]
    BY <1>1 DEF CallerInv, Known
  <2>2. \A u \in Callers :
            apc'[u] \in Offering \cup {"inlineRun"} => started'[arg[u]] = started[arg[u]]
    BY <1>1, <2>1 DEF TypeOK, HasJobInv, Offering
  <2> QED
    BY <1>1, <1>2, <2>2 DEF CallerInv, Offering
<1>4. OutsideInv'
  BY <1>1, <1>2 DEF OutsideInv, Known, TypeOK
<1>5. QueuedInv'
  BY <1>1, <1>2 DEF QueuedInv, Queued, TypeOK
<1>6. TakenInv'
  BY <1>1, <1>2 DEF TakenInv, HasJobInv, TypeOK
<1>7. BegunInv'
  <2>1. \A u \in Callers : apc[u] = "inlineRun" => apc'[u] = "inlineRun"
    BY <1>1 DEF Offering
  <2>2. \A j \in Jobs : started'[j] = IF j = job[w] THEN 1 ELSE started[j]
    BY <1>1 DEF TypeOK
  <2> QED
    BY <1>1, <1>2, <2>1, <2>2 DEF BegunInv
<1>8. ClosedInv'
  BY <1>1 DEF ClosedInv, Offering, TypeOK
<1> QED
  BY <1>2, <1>3, <1>4, <1>5, <1>6, <1>7, <1>8

\* The worker has processed the job.
LEMMA WorkerDonePlace ==
    ASSUME IInv, JobInv, NEW w \in Workers, WorkerDone(w)
    PROVE  /\ JobInv'
           /\ Queued' = Queued /\ Taken' = Taken \ {job[w]}
           /\ Known' = Known
<1> USE DEF IInv, JobInv, WorkerDone, queueVars, setup, syncVars,
            addVars, workerVars, history
<1>1. /\ job[w] \in Jobs /\ job[w] \in Taken /\ started[job[w]] = 1
      /\ \A v \in Workers : v # w => job[v] # job[w]
  BY DEF HasJobInv, TakenInv, Taken, TypeOK
<1>2. /\ Queued' = Queued /\ Taken' = Taken \ {job[w]}
      /\ Known' = Known
  <2>1. job' = [v \in Workers |-> IF v = w THEN None ELSE job[v]]
    BY DEF TypeOK
  <2>2. Taken' = Taken \ {job[w]}
    BY <1>1, <2>1 DEF Taken
  <2>3. Queued' = Queued
    BY DEF Queued, InQueue
  <2> QED
    BY <1>1, <2>2, <2>3 DEF Known
<1>3. CallerInv'
  BY <1>1, <1>2 DEF CallerInv, Offering, TypeOK, HasJobInv
<1>4. OutsideInv'
  BY <1>1, <1>2 DEF OutsideInv
<1>5. QueuedInv'
  BY <1>1, <1>2 DEF QueuedInv
<1>6. TakenInv'
  BY <1>1, <1>2 DEF TakenInv, HasJobInv, TypeOK
<1>7. BegunInv'
  BY <1>1, <1>2 DEF BegunInv
<1>8. ClosedInv'
  BY <1>1 DEF ClosedInv, TypeOK
<1> QED
  BY <1>2, <1>3, <1>4, <1>5, <1>6, <1>7, <1>8

-----------------------------------------------------------------------------
(***************************************************************************)
(* A job is in one place in every reachable state.                      *)
(***************************************************************************)

LEMMA InitJobInv == Init => JobInv
<1> SUFFICES ASSUME Init PROVE JobInv
  OBVIOUS
<1>1. Queued = {} /\ Taken = {} /\ Known = {}
  BY DEF Init, Queued, InQueue, Taken, Known
<1>2. QueuedInv
  BY <1>1 DEF Init, QueuedInv, Distinct
<1>3. CallerInv /\ OutsideInv /\ TakenInv /\ BegunInv /\ ClosedInv
  BY <1>1 DEF Init, CallerInv, Offering, OutsideInv, TakenInv, BegunInv, ClosedInv
<1> QED
  BY <1>2, <1>3 DEF JobInv

LEMMA NextJobInv == IInv /\ JobInv /\ [Next]_vars => JobInv'
<1> SUFFICES ASSUME IInv, JobInv, [Next]_vars PROVE JobInv'
  OBVIOUS
<1>1. CASE \E t \in Callers : \/ AddStep(t)
                             \/ \E j \in Jobs : AddCall(t, j) \/ AddThrow(t, j)
  BY <1>1, AddCallPlace, AddThrowPlace, AddRefusePlace, AddInlineBeginPlace,
      AddInlineEndPlace, AddPushPlace, AddSignalPlace, QuietCaller, QuietStep
      DEF AddStep
<1>2. CASE \E w \in Workers : WorkerStep(w)
  BY <1>2, WorkerTakePlace, WorkerSignalPlace, WorkerDonePlace, QuietWorker,
      QuietStep DEF WorkerStep
<1>3. CASE StopCall \/ StopStep
  BY <1>3, QuietOwner, QuietStep
<1>4. CASE SpuriousWakeup
  BY <1>4, QuietCaller, QuietWorker, QuietOwner, QuietStep DEF SpuriousWakeup
<1>5. CASE UNCHANGED vars
  <2>1. Quiet
    BY <1>5 DEF Quiet, vars, queueVars, setup, addVars, workerVars, history
  <2> QED
    BY <2>1, QuietStep
<1> QED
  BY <1>1, <1>2, <1>3, <1>4, <1>5 DEF Next

LEMMA PlacesKnown == Spec => []JobInv
BY InitJobInv, NextJobInv, Invariance, PTL DEF Spec

\* A job is processed at most once, whoever processes it, and a job for which
\* Add returned false or threw is never processed: a caller may process it
\* itself, as TMtpTask::Process does.
THEOREM RunOnceOrRefusedAlways == Spec => []RunOnceOrRefused
<1>1. JobInv => RunOnceOrRefused
  BY DEF JobInv, BegunInv, OutsideInv, RunOnceOrRefused
<1> QED
  BY <1>1, PlacesKnown, PTL

-----------------------------------------------------------------------------
(***************************************************************************)
(* No wakeup is lost.                                                      *)
(***************************************************************************)

\* A worker that sleeps, or has left its loop, does not see the queue.
Unseeing == {"waiting", "finish", "exited"}

\* The other steps change neither the queue nor who is going to look at it.
Steady ==
    /\ Queue' = Queue
    /\ \A w \in Workers :
           /\ wpc'[w] = "wait" => wpc[w] = "wait"
           /\ wpc[w] \notin Unseeing => wpc'[w] \notin Unseeing
    /\ \A t \in Callers : apc[t] = "signal" => apc'[t] = "signal"

LEMMA SteadyCaller ==
    ASSUME IInv, NEW t \in Callers,
           \/ \E j \in Jobs : AddCall(t, j) \/ AddThrow(t, j)
           \/ AddRefuseEarly(t) \/ AddEntry(t) \/ AddInlineBegin(t)
           \/ AddInlineEnd(t) \/ AddLock(t) \/ AddRefuse(t) \/ AddCheck(t)
           \/ AddWait(t) \/ SpuriousCaller(t)
    PROVE  Steady
<1> USE DEF Steady, IInv, TypeOK, Goto, Return, queueVars, setup, addVars,
            workerVars
<1>1. CASE \E j \in Jobs : AddCall(t, j) \/ AddThrow(t, j)
  BY <1>1 DEF AddCall, AddThrow
<1>2. CASE AddRefuseEarly(t) \/ AddEntry(t)
  BY <1>2 DEF AddRefuseEarly, AddEntry
<1>3. CASE AddInlineBegin(t) \/ AddInlineEnd(t)
  BY <1>3 DEF AddInlineBegin, AddInlineEnd
<1>4. CASE AddLock(t) \/ AddRefuse(t)
  BY <1>4 DEF AddLock, AddRefuse
<1>5. CASE AddCheck(t) \/ AddWait(t)
  BY <1>5 DEF AddCheck, AddWait
<1>6. CASE SpuriousCaller(t)
  BY <1>6 DEF SpuriousCaller, QueuePopCond
<1> QED
  BY <1>1, <1>2, <1>3, <1>4, <1>5, <1>6

LEMMA SteadyWorker ==
    ASSUME IInv, NEW w \in Workers,
           \/ WorkerLock(w) \/ WorkerSignal(w) \/ WorkerDone(w)
           \/ WorkerFinish(w) \/ SpuriousWorker(w)
    PROVE  Steady
<1> USE DEF Steady, Unseeing, IInv, TypeOK, Goto, queueVars, setup, addVars
<1>1. CASE WorkerLock(w)
  BY <1>1 DEF WorkerLock
<1>2. CASE WorkerSignal(w)
  BY <1>2 DEF WorkerSignal, QueuePopCond
<1>3. CASE WorkerDone(w)
  BY <1>3 DEF WorkerDone
<1>4. CASE WorkerFinish(w)
  BY <1>4 DEF WorkerFinish
<1>5. CASE SpuriousWorker(w)
  BY <1>5 DEF SpuriousWorker, QueuePushCond
<1> QED
  BY <1>1, <1>2, <1>3, <1>4, <1>5

LEMMA SteadyOwner ==
    ASSUME IInv, StopCall \/ StopStep \/ SpuriousOwner
    PROVE  Steady
<1> USE DEF Steady, Unseeing, IInv, TypeOK, queueVars, setup, addVars, workerVars
<1>1. CASE StopCall \/ StopLock \/ StopLoop \/ StopWait \/ StopClear
  BY <1>1 DEF StopCall, StopLock, StopLoop, StopWait, StopClear
<1>2. CASE StopBroadcast
  BY <1>2 DEF StopBroadcast, QueuePopCond
<1>3. CASE StopSignal
  BY <1>3 DEF StopSignal, SignalPush, QueuePushCond
<1>4. CASE SpuriousOwner
  BY <1>4 DEF SpuriousOwner
<1> QED
  BY <1>1, <1>2, <1>3, <1>4 DEF StopStep

\* Only a caller that holds the mutex pushes a job, so none is pushed between a
\* worker's test of the queue and its entry into the wait set; and the signal
\* of a caller finds a sleeping worker unless all of them are awake.
SeenInv == AsleepInv /\ QueuedJobIsSeen

LEMMA SteadySeen == ASSUME SeenInv, Steady PROVE SeenInv'
BY DEF SeenInv, AsleepInv, QueuedJobIsSeen, Steady, Unseeing

LEMMA PushSeen ==
    ASSUME IInv, SeenInv, NEW t \in Callers, AddPush(t)
    PROVE  SeenInv'
<1> USE DEF IInv, SeenInv, AddPush, Goto, queueVars, setup, addVars, workerVars
<1>1. apc'[t] = "signal"
  BY DEF TypeOK
<1>2. \A w \in Workers : wpc[w] # "wait"
  BY DEF SyncInv, QueueMutexInv, NestedInv
<1> QED
  BY <1>1, <1>2 DEF AsleepInv, QueuedJobIsSeen

\* The signal of a caller: if nobody sleeps, the threads of the pool are awake,
\* because none of them has left while a job is queued.
LEMMA SignalSeen ==
    ASSUME IInv, SeenInv, NEW t \in Callers, AddSignal(t)
    PROVE  SeenInv'
<1> USE DEF IInv, SeenInv, AddSignal, queueVars, setup, addVars, workerVars
<1>1. AsleepInv'
  BY DEF AsleepInv, SignalPush, QueuePushCond, TypeOK
<1>2. CASE Queue = <<>>
  BY <1>1, <1>2 DEF QueuedJobIsSeen
<1>3. CASE Queue # <<>>
  <2>1. PICK w \in Tharr : wpc[w] \notin {"finish", "exited"}
    BY <1>3 DEF LeaveInv, LeftInv, InlineInv, Left
  <2>2. w \in Workers
    BY DEF TypeOK
  <2>3. CASE QueuePushCond = {} /\ UNCHANGED wpc
    <3>1. wpc'[w] \notin Unseeing
      BY <2>1, <2>2, <2>3 DEF QueuePushCond, Unseeing
    <3> QED
      BY <1>1, <2>2, <3>1 DEF QueuedJobIsSeen, Unseeing
  <2>4. CASE \E v \in QueuePushCond : wpc' = [wpc EXCEPT ![v] = "lock"]
    <3>1. PICK v \in Workers : wpc'[v] = "lock"
      BY <2>4 DEF QueuePushCond, TypeOK
    <3> QED
      BY <1>1, <3>1 DEF QueuedJobIsSeen
  <2> QED
    BY <2>3, <2>4 DEF SignalPush
<1> QED
  BY <1>2, <1>3

LEMMA WorkerSeen ==
    ASSUME IInv, SeenInv, NEW w \in Workers,
           WorkerCheck(w) \/ WorkerTake(w) \/ WorkerWait(w) \/ WorkerLeave(w)
    PROVE  SeenInv'
<1> USE DEF IInv, SeenInv, queueVars, setup, addVars
<1>1. CASE WorkerCheck(w)
  BY <1>1 DEF WorkerCheck, AsleepInv, QueuedJobIsSeen, TypeOK
<1>2. CASE WorkerTake(w)
  <2>1. \A v \in Workers : wpc'[v] # "wait"
    BY <1>2 DEF WorkerTake, SyncInv, QueueMutexInv, TypeOK
  <2>2. wpc'[w] = "signal"
    BY <1>2 DEF WorkerTake, TypeOK
  <2> QED
    BY <2>1, <2>2 DEF AsleepInv, QueuedJobIsSeen
<1>3. CASE WorkerWait(w)
  BY <1>3 DEF WorkerWait, AsleepInv, QueuedJobIsSeen, TypeOK
<1>4. CASE WorkerLeave(w)
  BY <1>4 DEF WorkerLeave, AsleepInv, QueuedJobIsSeen, TypeOK
<1> QED
  BY <1>1, <1>2, <1>3, <1>4

LEMMA NextSeenInv == IInv /\ SeenInv /\ [Next]_vars => SeenInv'
<1> SUFFICES ASSUME IInv, SeenInv, [Next]_vars PROVE SeenInv'
  OBVIOUS
<1>1. CASE \E t \in Callers : \E j \in Jobs : AddCall(t, j) \/ AddThrow(t, j)
  BY <1>1, SteadyCaller, SteadySeen
<1>2. CASE \E t \in Callers : AddStep(t)
  BY <1>2, SteadyCaller, SteadySeen, PushSeen, SignalSeen DEF AddStep
<1>3. CASE \E w \in Workers : WorkerStep(w)
  BY <1>3, SteadyWorker, SteadySeen, WorkerSeen DEF WorkerStep
<1>4. CASE StopCall \/ StopStep
  BY <1>4, SteadyOwner, SteadySeen
<1>5. CASE SpuriousWakeup
  BY <1>5, SteadyCaller, SteadyWorker, SteadyOwner, SteadySeen
      DEF SpuriousWakeup
<1>6. CASE UNCHANGED vars
  BY <1>6 DEF vars, queueVars, setup, addVars, workerVars, SeenInv, AsleepInv,
      QueuedJobIsSeen
<1> QED
  BY <1>1, <1>2, <1>3, <1>4, <1>5, <1>6 DEF Next

\* No wakeup is lost, for any number of workers and callers: while a job is
\* queued somebody is on the way to look at the queue, or to wake a worker.
THEOREM QueuedJobIsSeenAlways == Spec => []QueuedJobIsSeen
<1>1. Init => SeenInv
  BY DEF Init, SeenInv, AsleepInv, QueuedJobIsSeen
<1>2. SeenInv => QueuedJobIsSeen
  BY DEF SeenInv
<1> QED
  BY <1>1, <1>2, NextSeenInv, Invariance, PTL DEF Spec

-----------------------------------------------------------------------------
(***************************************************************************)
(* The refinement: each step of the queue is one step of JobQueue, or none.  *)
(***************************************************************************)

Phase == IF opc = "using" THEN "open"
         ELSE IF opc = "stopped" THEN "closed" ELSE "closing"

\* The status of a job, by its place.
LEMMA StatusByPlace ==
    ASSUME NEW j \in Jobs
    PROVE  Status(j) = IF verdict[j] = "refused" THEN "refused"
                       ELSE IF j \in finished THEN "done"
                       ELSE IF started[j] > 0 THEN "running"
                       ELSE IF j \in Queued \cup Taken THEN "pending" ELSE "fresh"
<1>1. j \in Queued <=> \E i \in 1..Len(Queue) : Queue[i] = j
  BY DEF Queued, InQueue
<1>2. j \in Taken <=> \E w \in Workers : job[w] = j
  BY DEF Taken
<1> QED
  BY <1>1, <1>2 DEF Status

LEMMA StatusByPlaceNext ==
    ASSUME NEW j \in Jobs
    PROVE  Status(j)' = IF verdict'[j] = "refused" THEN "refused"
                        ELSE IF j \in finished' THEN "done"
                        ELSE IF started'[j] > 0 THEN "running"
                        ELSE IF j \in Queued' \cup Taken' THEN "pending" ELSE "fresh"
<1>1. j \in Queued' <=> \E i \in 1..Len(Queue') : Queue'[i] = j
  BY DEF Queued, InQueue
<1>2. j \in Taken' <=> \E w \in Workers : job'[w] = j
  BY DEF Taken
<1> QED
  BY <1>1, <1>2 DEF Status

\* Job j, and no other, gets a new status.
Becomes(j, s) ==
    /\ \A k \in Jobs : Status(k)' = IF k = j THEN s ELSE Status(k)
    /\ opc' = opc

LEMMA AbstractBecome ==
    ASSUME NEW j \in Jobs, NEW s, Becomes(j, s)
    PROVE  Abstract!Become(j, s)
BY DEF Becomes, Abstract!Become

\* The status of no job changes.
SameStatus == \A k \in Jobs : Status(k)' = Status(k)

LEMMA QuietStatus ==
    ASSUME Quiet
    PROVE  SameStatus
<1>1. Queued' = Queued /\ Taken' = Taken
  BY DEF Quiet, Queued, InQueue, Taken
<1> QED
  BY <1>1, StatusByPlace, StatusByPlaceNext DEF Quiet, SameStatus

LEMMA CallerStatus ==
    ASSUME IInv, JobInv, NEW t \in Callers
    PROVE  /\ AddRefuseEarly(t) \/ AddRefuse(t) =>
                  Abstract!Refuse(arg[t])
           /\ AddInlineBegin(t) => Abstract!RunInline(arg[t])
           /\ AddInlineEnd(t) => Abstract!Finish(arg[t])
           /\ AddPush(t) => Abstract!Accept(arg[t])
           /\ AddSignal(t) => SameStatus /\ opc' = opc
           /\ apc[t] # "idle" => arg[t] \in Jobs
<1> USE StatusByPlace, StatusByPlaceNext
    DEF IInv, JobInv, queueVars, setup, syncVars, workerVars, history
<1>1. apc[t] # "idle" => arg[t] \in Jobs
  BY DEF HasJobInv
<1>2. ASSUME AddRefuseEarly(t) \/ AddRefuse(t)
      PROVE  Abstract!Refuse(arg[t])
  <2>1. apc[t] \in Offering /\ Return(t, "refused")
            /\ UNCHANGED <<started, finished, opc>>
    BY <1>2 DEF AddRefuseEarly, AddRefuse, Offering
  <2>2. arg[t] \in Jobs /\ arg[t] \notin Known /\ started[arg[t]] = 0
            /\ verdict[arg[t]] = "called"
    BY <1>1, <2>1 DEF CallerInv, Offering
  <2>3. Queued' = Queued /\ Taken' = Taken
    BY <1>2, AddRefusePlace
  <2>4. Becomes(arg[t], "refused")
    BY <2>1, <2>2, <2>3 DEF Becomes, Return, TypeOK
  <2>5. Status(arg[t]) = "fresh"
    BY <2>2 DEF Known
  <2> QED
    BY <2>2, <2>4, <2>5, AbstractBecome DEF Abstract!Refuse
<1>3. ASSUME AddInlineBegin(t)
      PROVE  Abstract!RunInline(arg[t])
  <2>1. apc[t] \in Offering /\ started' = [started EXCEPT ![arg[t]] = @ + 1]
            /\ UNCHANGED <<verdict, finished, opc>>
    BY <1>3 DEF AddInlineBegin, Offering
  <2>2. arg[t] \in Jobs /\ arg[t] \notin Known /\ started[arg[t]] = 0
            /\ verdict[arg[t]] = "called" /\ opc # "stopped"
    BY <1>1, <2>1 DEF CallerInv, ClosedInv, Offering
  <2>3. Queued' = Queued /\ Taken' = Taken
    BY <1>3, AddInlineBeginPlace
  <2>4. \A k \in Jobs : started'[k] = IF k = arg[t] THEN 1 ELSE started[k]
    BY <2>1, <2>2 DEF TypeOK
  <2>5. Becomes(arg[t], "running")
    BY <2>1, <2>2, <2>3, <2>4 DEF Becomes, Known
  <2>6. Status(arg[t]) = "fresh"
    BY <2>2 DEF Known
  <2> QED
    BY <2>2, <2>5, <2>6, AbstractBecome DEF Abstract!RunInline
<1>4. ASSUME AddInlineEnd(t)
      PROVE  Abstract!Finish(arg[t])
  <2>1. apc[t] = "inlineRun" /\ finished' = finished \cup {arg[t]}
            /\ Return(t, "accepted") /\ UNCHANGED <<started, opc>>
    BY <1>4 DEF AddInlineEnd
  <2>2. arg[t] \in Jobs /\ arg[t] \notin Known /\ started[arg[t]] = 1
            /\ verdict[arg[t]] = "called"
    BY <1>1, <2>1 DEF CallerInv
  <2>3. Queued' = Queued /\ Taken' = Taken
    BY <1>4, AddInlineEndPlace
  <2>4. \A k \in Jobs : verdict'[k] = IF k = arg[t] THEN "accepted" ELSE verdict[k]
    BY <2>1, <2>2 DEF Return, TypeOK
  <2>5. Becomes(arg[t], "done")
    BY <2>1, <2>2, <2>3, <2>4 DEF Becomes
  <2>6. Status(arg[t]) = "running"
    BY <2>2 DEF Known
  <2> QED
    BY <2>2, <2>5, <2>6, AbstractBecome DEF Abstract!Finish
<1>5. ASSUME AddPush(t)
      PROVE  Abstract!Accept(arg[t])
  <2>1. apc[t] \in Offering /\ UNCHANGED <<verdict, started, finished, opc>>
    BY <1>5 DEF AddPush, Offering
  <2>2. arg[t] \in Jobs /\ arg[t] \notin Known /\ started[arg[t]] = 0
            /\ verdict[arg[t]] = "called" /\ opc # "stopped"
    BY <1>1, <2>1 DEF CallerInv, ClosedInv, Offering
  <2>3. Queued' = Queued \cup {arg[t]} /\ Taken' = Taken
    BY <1>5, AddPushPlace
  <2>4. Becomes(arg[t], "pending")
    BY <2>1, <2>2, <2>3 DEF Becomes, Known
  <2>5. Status(arg[t]) = "fresh"
    BY <2>2 DEF Known
  <2> QED
    BY <2>2, <2>4, <2>5, AbstractBecome DEF Abstract!Accept
<1>6. ASSUME AddSignal(t)
      PROVE  SameStatus /\ opc' = opc
  <2>1. apc[t] # "idle" /\ Return(t, "accepted")
            /\ UNCHANGED <<started, finished, opc>>
    BY <1>6 DEF AddSignal
  <2>2. arg[t] \in Jobs /\ verdict[arg[t]] = "called"
    BY <1>1, <2>1 DEF CallerInv
  <2>3. Queued' = Queued /\ Taken' = Taken
    BY <1>6, AddSignalPlace
  <2> QED
    BY <2>1, <2>2, <2>3 DEF SameStatus, Return, TypeOK
<1> QED
  BY <1>1, <1>2, <1>3, <1>4, <1>5, <1>6

LEMMA CallStatus ==
    ASSUME IInv, JobInv, NEW t \in Callers, NEW j \in Jobs
    PROVE  /\ AddCall(t, j) => SameStatus /\ opc' = opc
           /\ AddThrow(t, j) => Abstract!Refuse(j)
<1> USE StatusByPlace, StatusByPlaceNext DEF IInv, JobInv
<1>1. ASSUME AddCall(t, j)
      PROVE  SameStatus /\ opc' = opc
  <2>1. verdict[j] = "none" /\ verdict' = [verdict EXCEPT ![j] = "called"]
            /\ UNCHANGED <<started, finished, opc>>
    BY <1>1 DEF AddCall
  <2>2. Queued' = Queued /\ Taken' = Taken
    BY <1>1, AddCallPlace
  <2> QED
    BY <2>1, <2>2 DEF SameStatus, TypeOK
<1>2. ASSUME AddThrow(t, j)
      PROVE  Abstract!Refuse(j)
  <2>1. verdict[j] = "none" /\ verdict' = [verdict EXCEPT ![j] = "refused"]
            /\ UNCHANGED <<started, finished, opc>>
    BY <1>2 DEF AddThrow
  <2>2. Queued' = Queued /\ Taken' = Taken
    BY <1>2, AddThrowPlace
  <2>3. j \notin Known /\ started[j] = 0
    BY <2>1 DEF OutsideInv
  <2>4. Becomes(j, "refused")
    BY <2>1, <2>2 DEF Becomes, TypeOK
  <2>5. Status(j) = "fresh"
    BY <2>1, <2>3 DEF Known
  <2> QED
    BY <2>4, <2>5, AbstractBecome DEF Abstract!Refuse
<1> QED
  BY <1>1, <1>2

LEMMA WorkerStatus ==
    ASSUME IInv, JobInv, NEW w \in Workers
    PROVE  /\ WorkerTake(w) => SameStatus /\ opc' = opc
           /\ WorkerSignal(w) => job[w] \in Jobs /\ Abstract!Begin(job[w])
           /\ WorkerDone(w) => job[w] \in Jobs /\ Abstract!Finish(job[w])
<1> USE StatusByPlace, StatusByPlaceNext
    DEF IInv, JobInv, queueVars, setup, addVars, history
<1>1. ASSUME WorkerTake(w)
      PROVE  SameStatus /\ opc' = opc
  <2>1. UNCHANGED <<verdict, started, finished, opc>>
    BY <1>1 DEF WorkerTake
  <2>2. Queue \in Seq(Jobs) /\ Queue # <<>>
    BY <1>1 DEF WorkerTake, TypeOK
  <2>3. Head(Queue) = Queue[1] /\ Queue[1] \in Jobs /\ 1 \in 1..Len(Queue)
    BY <2>2
  <2>4. Head(Queue) \in Queued
    BY <2>3 DEF Queued, InQueue
  <2>5. Queued' = Queued \ {Head(Queue)} /\ Taken' = Taken \cup {Head(Queue)}
    BY <1>1, WorkerTakePlace
  <2> QED
    BY <2>1, <2>4, <2>5 DEF SameStatus
<1>2. ASSUME WorkerSignal(w)
      PROVE  job[w] \in Jobs /\ Abstract!Begin(job[w])
  <2>1. wpc[w] = "signal" /\ started' = [started EXCEPT ![job[w]] = @ + 1]
            /\ UNCHANGED <<verdict, finished, opc>>
    BY <1>2 DEF WorkerSignal
  <2>2. job[w] \in Jobs /\ job[w] \in Taken /\ job[w] \notin finished
            /\ started[job[w]] = 0
    BY <2>1 DEF HasJobInv, TakenInv, Taken, TypeOK
  <2>3. verdict[job[w]] # "refused"
    BY <2>2 DEF OutsideInv, Known
  <2>4. Queued' = Queued /\ Taken' = Taken
    BY <1>2, WorkerSignalPlace
  <2>5. \A k \in Jobs : started'[k] = IF k = job[w] THEN 1 ELSE started[k]
    BY <2>1, <2>2 DEF TypeOK
  <2>6. Becomes(job[w], "running")
    BY <2>1, <2>2, <2>3, <2>4, <2>5 DEF Becomes
  <2>7. Status(job[w]) = "pending"
    BY <2>2, <2>3
  <2> QED
    BY <2>2, <2>6, <2>7, AbstractBecome DEF Abstract!Begin
<1>3. ASSUME WorkerDone(w)
      PROVE  job[w] \in Jobs /\ Abstract!Finish(job[w])
  <2>1. wpc[w] = "run" /\ finished' = finished \cup {job[w]}
            /\ UNCHANGED <<verdict, started, opc>>
    BY <1>3 DEF WorkerDone
  <2>2. job[w] \in Jobs /\ job[w] \in Taken /\ job[w] \notin finished
            /\ started[job[w]] = 1
    BY <2>1 DEF HasJobInv, TakenInv, Taken, TypeOK
  <2>3. verdict[job[w]] # "refused"
    BY <2>2 DEF OutsideInv, Known
  <2>4. Queued' = Queued /\ Taken' = Taken \ {job[w]}
    BY <1>3, WorkerDonePlace
  <2>5. Becomes(job[w], "done")
    BY <2>1, <2>2, <2>3, <2>4 DEF Becomes
  <2>6. Status(job[w]) = "running"
    BY <2>2, <2>3
  <2> QED
    BY <2>2, <2>5, <2>6, AbstractBecome DEF Abstract!Finish
<1> QED
  BY <1>1, <1>2, <1>3

\* When the object is destroyed the abstract queue may close: nothing that was
\* accepted is unfinished, and nobody processes a job inside Add.
LEMMA StopStatus ==
    ASSUME IInv, JobInv, StopClear
    PROVE  Abstract!ReturnFromStop
<1> USE DEF IInv, JobInv
<1>1. opc = "clear" /\ opc' = "stopped" /\ \A t \in Callers : apc[t] = "idle"
  BY DEF StopClear
<1>2. SameStatus
  BY QuietOwner, QuietStatus DEF StopStep
<1>3. \A w \in Workers : wpc[w] = "exited"
  BY <1>1, NobodyAlive DEF CountInv
<1>4. Queue = <<>>
  BY <1>3 DEF TypeOK, LeaveInv, LeftInv, InlineInv, Left
<1>5. Taken = {}
  BY <1>3 DEF HasJobInv, Taken
<1>6. Queued = {}
  BY <1>4 DEF Queued, InQueue
<1>7. \A j \in Jobs : started[j] > 0 => j \in finished
  BY <1>1, <1>5 DEF BegunInv
<1>8. \A j \in Jobs : Status(j) \notin {"pending", "running"}
  BY <1>5, <1>6, <1>7, StatusByPlace
<1> QED
  BY <1>1, <1>2, <1>8 DEF Abstract!ReturnFromStop, SameStatus

LEMMA AbstractStep ==
    IInv /\ JobInv /\ [Next]_vars => [Abstract!ANext]_(Abstract!avars)
<1> SUFFICES ASSUME IInv, JobInv, [Next]_vars
             PROVE  Abstract!ANext \/ UNCHANGED Abstract!avars
  OBVIOUS
<1>1. ASSUME SameStatus, Phase' = Phase PROVE UNCHANGED Abstract!avars
  BY <1>1 DEF SameStatus, Phase, Abstract!avars
<1>2. ASSUME NEW t \in Callers, NEW j \in Jobs, AddCall(t, j) \/ AddThrow(t, j)
      PROVE  Abstract!ANext \/ UNCHANGED Abstract!avars
  BY <1>1, <1>2, CallStatus DEF Abstract!ANext, Phase
<1>3. ASSUME NEW t \in Callers, AddStep(t)
      PROVE  Abstract!ANext \/ UNCHANGED Abstract!avars
  <2>1. CASE AddEntry(t) \/ AddLock(t) \/ AddCheck(t) \/ AddWait(t)
    BY <1>1, <2>1, QuietCaller, QuietStatus DEF Phase
  <2>2. CASE AddSignal(t)
    BY <1>1, <2>2, CallerStatus DEF Phase
  <2>3. CASE \/ AddRefuseEarly(t) \/ AddRefuse(t) \/ AddInlineBegin(t)
             \/ AddInlineEnd(t) \/ AddPush(t)
    <3>1. arg[t] \in Jobs
      BY <2>3, CallerStatus DEF AddRefuseEarly, AddRefuse, AddInlineBegin,
          AddInlineEnd, AddPush
    <3> QED
      BY <2>3, <3>1, CallerStatus DEF Abstract!ANext
  <2> QED
    BY <1>3, <2>1, <2>2, <2>3 DEF AddStep
<1>4. ASSUME NEW w \in Workers, WorkerStep(w)
      PROVE  Abstract!ANext \/ UNCHANGED Abstract!avars
  <2>1. CASE \/ WorkerLock(w) \/ WorkerCheck(w) \/ WorkerLeave(w)
             \/ WorkerWait(w) \/ WorkerFinish(w)
    BY <1>1, <2>1, QuietWorker, QuietStatus DEF Phase
  <2>2. CASE WorkerTake(w)
    BY <1>1, <2>2, WorkerStatus DEF Phase
  <2>3. CASE WorkerSignal(w) \/ WorkerDone(w)
    BY <2>3, WorkerStatus DEF Abstract!ANext
  <2> QED
    BY <1>4, <2>1, <2>2, <2>3 DEF WorkerStep
<1>5. CASE StopCall
  <2>1. SameStatus
    BY <1>5, QuietOwner, QuietStatus
  <2> QED
    BY <1>5, <2>1 DEF StopCall, SameStatus, Abstract!ANext, Abstract!CallStop
<1>6. CASE StopStep
  <2>1. SameStatus
    BY <1>6, QuietOwner, QuietStatus
  <2>2. CASE StopBroadcast \/ StopLock \/ StopLoop \/ StopSignal \/ StopWait
    BY <1>1, <2>1, <2>2 DEF Phase, StopBroadcast, StopLock, StopLoop,
        StopSignal, StopWait
  <2>3. CASE StopClear
    BY <2>3, StopStatus DEF Abstract!ANext
  <2> QED
    BY <1>6, <2>2, <2>3 DEF StopStep
<1>7. CASE SpuriousWakeup
  <2>1. CASE \E w \in Workers : SpuriousWorker(w)
    BY <1>1, <2>1, QuietWorker, QuietStatus DEF Phase
  <2>2. CASE \E t \in Callers : SpuriousCaller(t)
    BY <1>1, <2>2, QuietCaller, QuietStatus DEF Phase
  <2>3. CASE SpuriousOwner
    BY <1>1, <2>3, QuietOwner, QuietStatus DEF Phase, SpuriousOwner, StopCond
  <2> QED
    BY <1>7, <2>1, <2>2, <2>3 DEF SpuriousWakeup
<1>8. CASE UNCHANGED vars
  <2>1. Quiet /\ opc' = opc
    BY <1>8 DEF Quiet, vars, queueVars, setup, addVars, workerVars, history
  <2> QED
    BY <1>1, <2>1, QuietStatus DEF Phase
<1> QED
  BY <1>2, <1>3, <1>4, <1>5, <1>6, <1>7, <1>8 DEF Next

\* TMtpQueue implements the abstract job queue: for any number of threads and
\* callers, each accepted job is processed exactly once, no refused job is, and
\* Stop returns when nothing is left.
THEOREM Refinement == Spec => ImplementsJobQueue
<1>1. Init => Abstract!AInit
  <2> SUFFICES ASSUME Init PROVE Abstract!AInit
    OBVIOUS
  <2>1. Queued = {} /\ Taken = {}
    BY DEF Init, Queued, InQueue, Taken
  <2>2. \A j \in Jobs : Status(j) = "fresh"
    BY <2>1, StatusByPlace DEF Init
  <2> QED
    BY <2>2 DEF Init, Abstract!AInit
<1> QED
  BY <1>1, AbstractStep, Invariance, PlacesKnown, PTL
      DEF Spec, ImplementsJobQueue, Abstract!ASpec
=============================================================================
