----------------------- MODULE AdaptiveMtpQueueProofs -----------------------
(***************************************************************************)
(* Proofs about TAdaptiveMtpQueue, for any number of threads, producers    *)
(* and jobs, any number of failures to create a thread, and any timing of  *)
(* the idle time-outs: its counts are exact, Stop leaves nobody and        *)
(* nothing behind, and it implements JobQueue.                             *)
(***************************************************************************)
EXTENDS AdaptiveMtpQueue, FiniteSetTheorems, TLAPS

TypeInv ==
    /\ Obj_ \in Jobs \cup {None}
    /\ Free_ \in Nat /\ ThrCount_ \in Nat /\ failures \in Nat
    /\ AllDone_ \in BOOLEAN
    /\ apc \in [Callers -> {"idle", "lock", "waiting", "signal"}]
    /\ arg \in [Callers -> Jobs \cup {None}]
    /\ tpc \in [Threads -> {"gone", "lock", "waiting", "woken", "timedout",
                            "took", "run", "exit"}]
    /\ job \in [Threads -> Jobs \cup {None}]
    /\ opc \in {"using", "loop", "signal", "stopped"}
    /\ verdict \in [Jobs -> {"none", "called", "accepted", "threw", "failed"}]
    /\ finished \subseteq Jobs

\* The threads in WaitForJob's loop, and all that have not gone.
FreeThreads == {h \in Threads : tpc[h] \in {"waiting", "woken", "timedout"}}
Living == {h \in Threads : tpc[h] # "gone"}

CountInv ==
    /\ Free_ = Cardinality(FreeThreads)
    /\ ThrCount_ = Cardinality(Living)

\* Who is inside Add has a job: a producer while the queue is in use, a thread
\* while it processes another job.
CallInv ==
    /\ \A t \in Callers : apc[t] # "idle" => arg[t] \in Jobs
    /\ \A h \in Threads : apc[h] # "idle" => tpc[h] = "run"
    /\ opc # "using" => \A p \in Producers : apc[p] = "idle"

\* A job in Obj_ is met by a thread that has not yet left WaitForJob.
ObjInv ==
    Obj_ # None => \E h \in Threads : tpc[h] \in {"lock", "waiting", "woken", "timedout"}

\* Stop returns when all threads have gone.
StoppedInv == opc = "stopped" => Living = {}

\* A thread keeps its job from WaitForJob to the end of Process.
HoldInv ==
    \A h \in Threads :
        /\ job[h] # None => tpc[h] \in {"took", "run"}
        /\ tpc[h] = "run" => job[h] # None

IInv == TypeInv /\ CountInv /\ CallInv /\ ObjInv /\ StoppedInv /\ HoldInv

\* The jobs that threads have taken, and all that the queue knows.
Taken == {j \in Jobs : \E h \in Threads : job[h] = j}
Known == {j \in Jobs : j = Obj_} \cup Taken \cup finished

\* A caller that has not left its job in Obj_ is the only one to know it.
CallerInv ==
    /\ \A t, u \in Callers :
           apc[t] # "idle" /\ apc[u] # "idle" /\ t # u => arg[t] # arg[u]
    /\ \A t \in Callers :
           /\ apc[t] # "idle" => verdict[arg[t]] = "called"
           /\ apc[t] \in {"lock", "waiting"} => arg[t] \notin Known

\* A job that was never added, or whose Add failed, is nowhere.
OutsideInv == \A j \in Jobs : verdict[j] \in {"none", "failed"} => j \notin Known

\* A job is in one place: in Obj_, with one thread, or finished.
PlaceInv ==
    /\ Obj_ \notin Taken \cup finished
    /\ \A g, h \in Threads : g # h /\ job[g] # None => job[g] # job[h]
    /\ Taken \cap finished = {}

JobInv == CallerInv /\ OutsideInv /\ PlaceInv

USE AdaptiveAssumption DEF Callers

-----------------------------------------------------------------------------
(***************************************************************************)
(* Facts about the counts.                                                 *)
(***************************************************************************)

\* A thread that joins or leaves a set of threads changes its size by one.
LEMMA OneThread ==
    ASSUME NEW S \in SUBSET Threads, NEW h \in Threads
    PROVE  /\ Cardinality(S) \in Nat
           /\ h \notin S => Cardinality(S \cup {h}) = Cardinality(S) + 1
           /\ h \in S => /\ Cardinality(S \ {h}) = Cardinality(S) - 1
                         /\ Cardinality(S) # 0
<1>1. IsFiniteSet(S)
  BY FS_Subset
<1>2. Cardinality(S) \in Nat /\ (Cardinality(S) = 0 <=> S = {})
  BY <1>1, FS_CardinalityType, FS_EmptySet
<1>3. h \notin S => Cardinality(S \cup {h}) = Cardinality(S) + 1
  BY <1>1, FS_AddElement
<1>4. h \in S => Cardinality(S \ {h}) = Cardinality(S) - 1
  BY <1>1, FS_RemoveElement
<1> QED
  BY <1>2, <1>3, <1>4

LEMMA NobodyCounted ==
    ASSUME CountInv
    PROVE  /\ Free_ = 0 <=> FreeThreads = {}
           /\ ThrCount_ = 0 <=> Living = {}
<1>1. IsFiniteSet(FreeThreads) /\ IsFiniteSet(Living)
  BY FS_Subset DEF FreeThreads, Living
<1> QED
  BY <1>1, FS_EmptySet DEF CountInv

-----------------------------------------------------------------------------
(***************************************************************************)
(* Each step keeps the counts exact and a thread near a job in Obj_.       *)
(***************************************************************************)

\* A caller of Add that leaves no job in Obj_.
LEMMA AddOutsideStep ==
    ASSUME IInv, NEW t \in Callers,
           \/ \E j \in Jobs : AddCall(t, j)
           \/ AddWait(t) \/ AddFail(t) \/ SpuriousCaller(t)
    PROVE  IInv'
<1> USE DEF IInv, queueVars, addVars, threadVars, history
<1>1. UNCHANGED <<Obj_, Free_, ThrCount_, AllDone_, tpc, job, opc>>
  BY DEF AddCall, AddWait, AddFail, SpuriousCaller
<1>2. TypeInv'
  <2>1. CASE \E j \in Jobs : AddCall(t, j)
    BY <2>1 DEF TypeInv, AddCall
  <2>2. CASE AddWait(t) \/ SpuriousCaller(t)
    BY <2>2 DEF TypeInv, AddWait, SpuriousCaller
  <2>3. CASE AddFail(t)
    <3>1. Return(t, "failed") /\ failures' = failures + 1 /\ UNCHANGED finished
      BY <2>3 DEF AddFail
    <3>2. /\ apc' \in [Callers -> {"idle", "lock", "waiting", "signal"}]
          /\ arg' \in [Callers -> Jobs \cup {None}]
          /\ verdict' \in [Jobs -> {"none", "called", "accepted", "threw", "failed"}]
      BY <3>1 DEF Return, TypeInv
    <3> QED
      BY <1>1, <3>1, <3>2 DEF TypeInv
  <2> QED
    BY <2>1, <2>2, <2>3
<1>3. CallInv'
  <2>1. CASE \E j \in Jobs : AddCall(t, j)
    BY <2>1 DEF CallInv, TypeInv, AddCall, MayCall
  <2>2. CASE AddWait(t) \/ SpuriousCaller(t)
    BY <2>2 DEF CallInv, TypeInv, AddWait, SpuriousCaller, CondFree_
  <2>3. CASE AddFail(t)
    BY <2>3 DEF CallInv, TypeInv, AddFail, Return
  <2> QED
    BY <2>1, <2>2, <2>3
<1>4. CountInv' /\ StoppedInv'
  BY <1>1 DEF CountInv, StoppedInv, FreeThreads, Living
<1>5. ObjInv' /\ HoldInv'
  BY <1>1 DEF ObjInv, HoldInv
<1> QED
  BY <1>2, <1>3, <1>4, <1>5

\* A job is left in Obj_ only if a thread is free or has just been made.
LEMMA AddPutStep ==
    ASSUME IInv, NEW t \in Callers, AddPut(t)
    PROVE  IInv'
<1> USE DEF IInv, AddPut, AddThreadNoLock, Return
<1>1. opc # "stopped" /\ arg[t] \in Jobs
  BY DEF CallInv, StoppedInv, Living, TypeInv
<1>2. CASE Free_ > 0 /\ UNCHANGED <<tpc, ThrCount_>>
  <2>1. TypeInv' /\ CallInv'
    BY <1>1, <1>2 DEF TypeInv, CallInv
  <2>2. CountInv' /\ StoppedInv' /\ HoldInv'
    BY <1>2 DEF CountInv, StoppedInv, HoldInv, FreeThreads, Living
  <2>3. PICK h \in Threads : tpc[h] \in {"waiting", "woken", "timedout"}
    BY <1>2, NobodyCounted DEF FreeThreads, TypeInv
  <2>4. ObjInv'
    BY <1>2, <2>3 DEF ObjInv
  <2> QED
    BY <2>1, <2>2, <2>4
<1>3. ASSUME NEW h \in Threads, AddThreadNoLock(h)
      PROVE  IInv'
  <2>1. TypeInv' /\ CallInv'
    BY <1>1, <1>3 DEF TypeInv, CallInv
  <2>2. h \notin Living /\ Living' = Living \cup {h} /\ FreeThreads' = FreeThreads
    BY <1>3 DEF Living, FreeThreads, TypeInv
  <2>3. CountInv'
    BY <1>3, <2>2, OneThread DEF CountInv, Living
  <2>4. ObjInv'
    BY <1>3 DEF ObjInv, TypeInv
  <2>5. StoppedInv' /\ HoldInv'
    BY <1>1, <1>3 DEF StoppedInv, HoldInv, TypeInv
  <2> QED
    BY <2>1, <2>3, <2>4, <2>5
<1> QED
  BY <1>2, <1>3

\* A signal on CondReady_ moves a waiting thread, which stays free.
LEMMA SignalStep ==
    ASSUME IInv, SignalReady \/ \E h \in Threads : WaitEnds(h)
    PROVE  /\ FreeThreads' = FreeThreads
           /\ Living' = Living
           /\ \A h \in Threads :
                  tpc'[h] = tpc[h] \/ {tpc[h], tpc'[h]} \subseteq {"waiting", "woken", "timedout"}
           /\ tpc' \in [Threads -> {"gone", "lock", "waiting", "woken", "timedout",
                                    "took", "run", "exit"}]
<1> USE DEF IInv, TypeInv
<1>1. CASE UNCHANGED tpc
  BY <1>1 DEF FreeThreads, Living
<1>2. ASSUME NEW h \in Threads, tpc[h] = "waiting",
             tpc' \in {[tpc EXCEPT ![h] = "timedout"], [tpc EXCEPT ![h] = "woken"]}
      PROVE  /\ \A g \in Threads :
                    tpc'[g] = tpc[g] \/ {tpc[g], tpc'[g]} \subseteq {"waiting", "woken", "timedout"}
             /\ tpc' \in [Threads -> {"gone", "lock", "waiting", "woken", "timedout",
                                      "took", "run", "exit"}]
  BY <1>2
<1>3. CASE \E h \in Threads : /\ tpc[h] = "waiting"
                              /\ tpc' \in {[tpc EXCEPT ![h] = "timedout"],
                                           [tpc EXCEPT ![h] = "woken"]}
  BY <1>2, <1>3 DEF FreeThreads, Living
<1> QED
  BY <1>1, <1>3 DEF SignalReady, CondReady_, WaitEnds, IdleTimeOver, SpuriousThread

LEMMA AddSignalStep ==
    ASSUME IInv, NEW t \in Callers, AddSignal(t)
    PROVE  IInv'
<1> USE DEF IInv, AddSignal, Return, queueVars
<1>1. TypeInv'
  BY SignalStep DEF TypeInv
<1>2. CallInv'
  BY SignalStep DEF CallInv, TypeInv
<1>3. CountInv' /\ StoppedInv'
  BY SignalStep DEF CountInv, StoppedInv
<1>4. ObjInv' /\ HoldInv'
  BY SignalStep DEF ObjInv, HoldInv
<1> QED
  BY <1>1, <1>2, <1>3, <1>4

LEMMA WaitEndsStep ==
    ASSUME IInv, NEW h \in Threads, WaitEnds(h)
    PROVE  IInv'
<1> USE DEF IInv, queueVars, addVars, history
<1>1. UNCHANGED <<Obj_, Free_, ThrCount_, AllDone_, apc, arg, job, opc, verdict,
                  finished, failures>>
  BY DEF WaitEnds, IdleTimeOver, SpuriousThread
<1>2. TypeInv'
  BY <1>1, SignalStep DEF TypeInv
<1>3. CallInv'
  BY <1>1, SignalStep DEF CallInv, TypeInv
<1>4. CountInv' /\ StoppedInv'
  BY <1>1, SignalStep DEF CountInv, StoppedInv
<1>5. ObjInv' /\ HoldInv'
  BY <1>1, SignalStep DEF ObjInv, HoldInv
<1> QED
  BY <1>2, <1>3, <1>4, <1>5

LEMMA StopStepKeeps ==
    ASSUME IInv, StopCall \/ StopStep
    PROVE  IInv'
<1> USE DEF IInv, queueVars, addVars, threadVars, history
<1>1. CASE StopCall
  BY <1>1 DEF StopCall, TypeInv, CountInv, CallInv, ObjInv, StoppedInv, HoldInv,
      FreeThreads, Living
<1>2. CASE StopLoop
  <2>1. TypeInv' /\ CallInv' /\ ObjInv' /\ HoldInv'
    BY <1>2 DEF StopLoop, TypeInv, CallInv, ObjInv, HoldInv
  <2>2. CountInv' /\ Living' = Living
    BY <1>2 DEF StopLoop, CountInv, FreeThreads, Living
  <2>3. StoppedInv'
    BY <1>2, <2>2, NobodyCounted DEF StopLoop, StoppedInv
  <2> QED
    BY <2>1, <2>2, <2>3
<1>3. CASE StopSignal
  <2>1. UNCHANGED <<Obj_, Free_, ThrCount_, AllDone_, apc, arg, job, verdict,
                    finished, failures>> /\ opc = "signal" /\ opc' = "loop"
            /\ SignalReady
    BY <1>3 DEF StopSignal
  <2>2. TypeInv' /\ CallInv'
    BY <2>1, SignalStep DEF TypeInv, CallInv
  <2>3. CountInv' /\ StoppedInv'
    BY <2>1, SignalStep DEF CountInv, StoppedInv
  <2>4. ObjInv' /\ HoldInv'
    BY <2>1, SignalStep DEF ObjInv, HoldInv
  <2> QED
    BY <2>2, <2>3, <2>4
<1> QED
  BY <1>1, <1>2, <1>3 DEF StopStep

\* WaitForJob: a thread enters the loop, or leaves it with what is in Obj_.
LEMMA WaitForJobStep ==
    ASSUME IInv, NEW h \in Threads, EnterWait(h) \/ Woken(h) \/ TimedOut(h)
    PROVE  IInv'
<1> USE DEF IInv, addVars, history
<1>1. ASSUME tpc[h] = "lock", Idle, Free_' = Free_ + 1,
             tpc' = [tpc EXCEPT ![h] = "waiting"], UNCHANGED <<Obj_, job>>,
             UNCHANGED <<ThrCount_, AllDone_, addVars, opc, history>>
      PROVE  IInv'
  <2>1. TypeInv' /\ CallInv' /\ HoldInv'
    BY <1>1 DEF TypeInv, CallInv, HoldInv
  <2>2. h \notin FreeThreads /\ FreeThreads' = FreeThreads \cup {h}
            /\ Living' = Living
    BY <1>1 DEF FreeThreads, Living, TypeInv
  <2>3. CountInv' /\ StoppedInv'
    BY <1>1, <2>2, OneThread DEF CountInv, StoppedInv, FreeThreads
  <2>4. ObjInv'
    BY <1>1 DEF Idle, ObjInv
  <2> QED
    BY <2>1, <2>3, <2>4
<1>2. ASSUME tpc[h] = "lock", Take(h), UNCHANGED Free_,
             UNCHANGED <<ThrCount_, AllDone_, addVars, opc, history>>
      PROVE  IInv'
  <2>1. TypeInv' /\ CallInv' /\ HoldInv' /\ ObjInv'
    BY <1>2 DEF Take, TypeInv, CallInv, HoldInv, ObjInv
  <2>2. FreeThreads' = FreeThreads /\ Living' = Living
    BY <1>2 DEF Take, FreeThreads, Living, TypeInv
  <2>3. CountInv' /\ StoppedInv'
    BY <1>2, <2>2 DEF CountInv, StoppedInv
  <2> QED
    BY <2>1, <2>3
<1>3. ASSUME tpc[h] \in {"woken", "timedout"}, Take(h), Free_' = Free_ - 1,
             UNCHANGED <<ThrCount_, AllDone_, addVars, opc, history>>
      PROVE  IInv'
  <2>1. h \in FreeThreads /\ FreeThreads' = FreeThreads \ {h} /\ Living' = Living
    BY <1>3 DEF Take, FreeThreads, Living, TypeInv
  <2>2. Free_ # 0 /\ CountInv' /\ StoppedInv'
    BY <1>3, <2>1, OneThread DEF CountInv, StoppedInv, FreeThreads
  <2>3. TypeInv' /\ CallInv' /\ HoldInv' /\ ObjInv'
    BY <1>3, <2>2 DEF Take, TypeInv, CallInv, HoldInv, ObjInv
  <2> QED
    BY <2>2, <2>3
<1>4. ASSUME tpc[h] = "woken", Idle, tpc' = [tpc EXCEPT ![h] = "waiting"],
             UNCHANGED <<Obj_, Free_, job>>,
             UNCHANGED <<ThrCount_, AllDone_, addVars, opc, history>>
      PROVE  IInv'
  <2>1. TypeInv' /\ CallInv' /\ HoldInv'
    BY <1>4 DEF TypeInv, CallInv, HoldInv
  <2>2. FreeThreads' = FreeThreads /\ Living' = Living
    BY <1>4 DEF FreeThreads, Living, TypeInv
  <2>3. CountInv' /\ StoppedInv' /\ ObjInv'
    BY <1>4, <2>2 DEF CountInv, StoppedInv, ObjInv, Idle
  <2> QED
    BY <2>1, <2>3
<1>5. CASE EnterWait(h)
  BY <1>1, <1>2, <1>5 DEF EnterWait
<1>6. CASE Woken(h)
  BY <1>3, <1>4, <1>6 DEF Woken
<1>7. CASE TimedOut(h)
  BY <1>3, <1>7 DEF TimedOut
<1> QED
  BY <1>5, <1>6, <1>7

LEMMA TookStep ==
    ASSUME IInv, NEW h \in Threads, Took(h)
    PROVE  IInv'
<1> USE DEF IInv, Took, queueVars, history
<1>1. FreeThreads' = FreeThreads /\ Living' = Living
  BY DEF FreeThreads, Living, TypeInv
<1>2. CountInv' /\ StoppedInv'
  BY <1>1 DEF CountInv, StoppedInv
<1>3. \A t \in Callers : apc'[t] # "idle" <=> apc[t] # "idle"
  BY DEF CondFree_, TypeInv
<1>4. TypeInv'
  BY DEF TypeInv
<1>5. CallInv'
  BY <1>3 DEF CallInv, TypeInv
<1>6. ObjInv' /\ HoldInv'
  BY DEF ObjInv, HoldInv, TypeInv
<1> QED
  BY <1>2, <1>4, <1>5, <1>6

LEMMA DoneStep ==
    ASSUME IInv, NEW h \in Threads, Done(h)
    PROVE  IInv'
<1> USE DEF IInv, Done, queueVars, addVars
<1>1. FreeThreads' = FreeThreads /\ Living' = Living
  BY DEF FreeThreads, Living, TypeInv
<1>2. CountInv' /\ StoppedInv'
  BY <1>1 DEF CountInv, StoppedInv
<1>3. TypeInv' /\ CallInv'
  BY DEF TypeInv, CallInv, HoldInv
<1>4. ObjInv' /\ HoldInv'
  BY DEF ObjInv, HoldInv, TypeInv
<1> QED
  BY <1>2, <1>3, <1>4

LEMMA DecThreadCountStep ==
    ASSUME IInv, NEW h \in Threads, DecThreadCount(h)
    PROVE  IInv'
<1> USE DEF IInv, DecThreadCount, addVars, history
<1>1. h \in Living /\ Living' = Living \ {h} /\ FreeThreads' = FreeThreads
  BY DEF FreeThreads, Living, TypeInv
<1>2. ThrCount_ # 0 /\ CountInv' /\ StoppedInv'
  BY <1>1, OneThread DEF CountInv, StoppedInv, Living
<1>3. TypeInv' /\ CallInv'
  BY <1>2 DEF TypeInv, CallInv
<1>4. ObjInv' /\ HoldInv'
  BY DEF ObjInv, HoldInv, TypeInv
<1> QED
  BY <1>2, <1>3, <1>4

LEMMA InitIInv == Init => IInv
<1> SUFFICES ASSUME Init PROVE IInv
  OBVIOUS
<1>1. FreeThreads = {} /\ Living = {}
  BY DEF Init, FreeThreads, Living
<1>2. CountInv /\ StoppedInv
  BY <1>1, FS_EmptySet DEF Init, CountInv, StoppedInv
<1>3. TypeInv /\ CallInv /\ ObjInv /\ HoldInv
  BY DEF Init, TypeInv, CallInv, ObjInv, HoldInv
<1> QED
  BY <1>2, <1>3 DEF IInv

LEMMA NextIInv == IInv /\ [Next]_vars => IInv'
<1> SUFFICES ASSUME IInv, [Next]_vars PROVE IInv'
  OBVIOUS
<1>1. CASE \E t \in Callers : \/ AddStep(t) \/ SpuriousCaller(t)
                             \/ \E j \in Jobs : AddCall(t, j)
  BY <1>1, AddOutsideStep, AddPutStep, AddSignalStep DEF AddStep, AddLocked
<1>2. CASE \E h \in Threads : ThreadStep(h) \/ WaitEnds(h)
  BY <1>2, WaitForJobStep, TookStep, DoneStep, DecThreadCountStep, WaitEndsStep
      DEF ThreadStep, WaitForJob
<1>3. CASE StopCall \/ StopStep
  BY <1>3, StopStepKeeps
<1>4. CASE UNCHANGED vars
  BY <1>4 DEF vars, queueVars, addVars, threadVars, history, IInv, TypeInv,
      CountInv, FreeThreads, Living, CallInv, ObjInv, StoppedInv, HoldInv
<1> QED
  BY <1>1, <1>2, <1>3, <1>4 DEF Next

LEMMA Invariance == Spec => []IInv
BY InitIInv, NextIInv, PTL DEF Spec

\* The counts are exact and Stop leaves neither a thread nor a job behind, for
\* any number of threads, although threads come and go without the owner.
THEOREM NobodyLeftAlways == Spec => []NobodyLeft
<1>1. IInv => NobodyLeft
  <2> SUFFICES ASSUME IInv PROVE NobodyLeft
    OBVIOUS
  <2>1. /\ Free_ = Cardinality({h \in Threads : tpc[h] \in {"waiting", "woken", "timedout"}})
        /\ ThrCount_ = Cardinality({h \in Threads : tpc[h] # "gone"})
    BY DEF IInv, CountInv, FreeThreads, Living
  <2>2. opc = "stopped" => \A h \in Threads : tpc[h] = "gone"
    BY DEF IInv, StoppedInv, Living
  <2>3. opc = "stopped" => Obj_ = None
    BY <2>2 DEF IInv, ObjInv
  <2> QED
    BY <2>1, <2>2, <2>3 DEF NobodyLeft
<1> QED
  BY <1>1, Invariance, PTL

-----------------------------------------------------------------------------
(***************************************************************************)
(* A job is in one place.                                                  *)
(***************************************************************************)

\* Steps that move no job.
Quiet ==
    /\ UNCHANGED <<Obj_, arg, job, verdict, finished>>
    /\ \A t \in Callers :
           \/ apc'[t] = apc[t]
           \/ apc[t] \in {"lock", "waiting"} /\ apc'[t] \in {"lock", "waiting"}

LEMMA QuietPlace ==
    ASSUME JobInv, Quiet
    PROVE  /\ JobInv'
           /\ Taken' = Taken /\ Known' = Known
<1>1. Taken' = Taken /\ Known' = Known
  BY DEF Quiet, Taken, Known
<1>2. CallerInv'
  BY <1>1 DEF Quiet, JobInv, CallerInv
<1>3. OutsideInv' /\ PlaceInv'
  BY <1>1 DEF Quiet, JobInv, OutsideInv, PlaceInv
<1> QED
  BY <1>1, <1>2, <1>3 DEF JobInv

LEMMA QuietCaller ==
    ASSUME IInv, NEW t \in Callers, AddWait(t) \/ SpuriousCaller(t)
    PROVE  Quiet /\ UNCHANGED <<tpc, opc>>
BY DEF IInv, TypeInv, Quiet, queueVars, threadVars, history, AddWait,
    SpuriousCaller, CondFree_

LEMMA QuietThread ==
    ASSUME IInv, NEW h \in Threads, Took(h) \/ DecThreadCount(h) \/ WaitEnds(h)
    PROVE  Quiet /\ opc' = opc
<1> USE DEF IInv, TypeInv, Quiet, queueVars, addVars, history
<1>1. CASE Took(h)
  BY <1>1 DEF Took, CondFree_
<1>2. CASE DecThreadCount(h) \/ WaitEnds(h)
  BY <1>2 DEF DecThreadCount, WaitEnds, IdleTimeOver, SpuriousThread
<1> QED
  BY <1>1, <1>2

LEMMA QuietOwner ==
    ASSUME IInv, StopCall \/ StopStep
    PROVE  Quiet
BY DEF IInv, Quiet, queueVars, addVars, threadVars, history, StopCall, StopStep,
    StopLoop, StopSignal

LEMMA AddCallPlace ==
    ASSUME IInv, JobInv, NEW t \in Callers, NEW j \in Jobs, AddCall(t, j)
    PROVE  JobInv' /\ Taken' = Taken /\ Known' = Known
<1> USE DEF IInv, JobInv, AddCall, queueVars, threadVars, addVars
<1>1. Taken' = Taken /\ Known' = Known
  BY DEF Taken, Known
<1>2. \A u \in Callers : apc[u] # "idle" => arg[u] \in Jobs /\ arg[u] # j
  BY DEF CallInv, CallerInv
<1>3. CallerInv'
  <2>1. CASE opc = "stopped"
    BY <1>1, <1>2, <2>1 DEF CallerInv, TypeInv
  <2>2. CASE opc # "stopped"
    BY <1>1, <1>2, <2>2 DEF CallerInv, OutsideInv, TypeInv
  <2> QED
    BY <2>1, <2>2
<1>4. OutsideInv' /\ PlaceInv'
  BY <1>1 DEF OutsideInv, PlaceInv, TypeInv
<1> QED
  BY <1>1, <1>3, <1>4

\* Whoever returns from Add forgets its job.
LEMMA ReturnForgets ==
    ASSUME IInv, CallerInv, NEW t \in Callers, NEW how, Return(t, how), apc[t] # "idle"
    PROVE  /\ \A u \in Callers : apc'[u] # "idle" =>
                  apc'[u] = apc[u] /\ arg'[u] = arg[u] /\ arg[u] # arg[t]
                     /\ arg[u] \in Jobs
           /\ arg[t] \in Jobs
           /\ \A k \in Jobs : verdict'[k] = IF k = arg[t] THEN how ELSE verdict[k]
BY DEF IInv, TypeInv, CallInv, CallerInv, Return

LEMMA AddFailPlace ==
    ASSUME IInv, JobInv, NEW t \in Callers, AddFail(t)
    PROVE  JobInv' /\ Taken' = Taken /\ Known' = Known
<1> USE DEF JobInv, AddFail, queueVars, threadVars
<1>1. Taken' = Taken /\ Known' = Known
  BY DEF Taken, Known
<1>2. CallerInv'
  BY <1>1, ReturnForgets DEF CallerInv
<1>3. OutsideInv'
  BY <1>1, ReturnForgets DEF OutsideInv, CallerInv
<1>4. PlaceInv'
  BY <1>1 DEF PlaceInv
<1> QED
  BY <1>1, <1>2, <1>3, <1>4

LEMMA AddSignalPlace ==
    ASSUME IInv, JobInv, NEW t \in Callers, AddSignal(t)
    PROVE  JobInv' /\ Taken' = Taken /\ Known' = Known
<1> USE DEF JobInv, AddSignal, queueVars
<1>1. Taken' = Taken /\ Known' = Known
  BY DEF Taken, Known
<1>2. CallerInv'
  BY <1>1, ReturnForgets DEF CallerInv
<1>3. OutsideInv'
  BY <1>1, ReturnForgets DEF OutsideInv
<1>4. PlaceInv'
  BY <1>1 DEF PlaceInv
<1> QED
  BY <1>1, <1>2, <1>3, <1>4

LEMMA AddPutPlace ==
    ASSUME IInv, JobInv, NEW t \in Callers, AddPut(t)
    PROVE  JobInv' /\ Taken' = Taken /\ Known' = Known \cup {arg[t]}
<1> USE DEF JobInv, AddPut
<1>1. arg[t] \in Jobs /\ arg[t] \notin Known
  BY DEF IInv, CallInv, CallerInv
<1>2. Taken' = Taken /\ Known' = Known \cup {arg[t]}
  BY <1>1 DEF Taken, Known
<1>3. CallerInv' /\ OutsideInv'
  <2>1. CASE AllDone_
    <3>1. Return(t, "threw")
      BY <2>1
    <3>2. CallerInv'
      BY <1>2, <3>1, ReturnForgets DEF CallerInv
    <3>3. OutsideInv'
      BY <1>2, <3>1, ReturnForgets DEF OutsideInv
    <3> QED
      BY <3>2, <3>3
  <2>2. CASE ~AllDone_
    <3>1. apc' = [apc EXCEPT ![t] = "signal"] /\ UNCHANGED <<arg, verdict>>
      BY <2>2
    <3>2. CallerInv'
      BY <1>2, <3>1 DEF CallerInv, IInv, TypeInv
    <3>3. OutsideInv'
      BY <1>2, <3>1 DEF OutsideInv, CallerInv
    <3> QED
      BY <3>2, <3>3
  <2> QED
    BY <2>1, <2>2
<1>4. PlaceInv'
  BY <1>1, <1>2 DEF PlaceInv, Known
<1> QED
  BY <1>2, <1>3, <1>4

LEMMA TakePlace ==
    ASSUME IInv, JobInv, NEW h \in Threads, Take(h),
           tpc[h] \in {"lock", "woken", "timedout"},
           UNCHANGED <<apc, arg, verdict, finished>>
    PROVE  /\ JobInv'
           /\ Taken' = Taken \cup {j \in Jobs : j = Obj_}
           /\ Known' = Known
<1> USE DEF JobInv, Take
<1>1. job[h] = None /\ Obj_ \in Jobs \cup {None}
  BY DEF IInv, HoldInv, TypeInv
<1>2. job' = [g \in Threads |-> IF g = h THEN Obj_ ELSE job[g]]
  BY DEF IInv, TypeInv
<1>3. Taken' = Taken \cup {j \in Jobs : j = Obj_}
  BY <1>1, <1>2 DEF Taken
<1>4. Known' = Known
  BY <1>1, <1>3 DEF Known
<1>5. CallerInv' /\ OutsideInv'
  BY <1>4 DEF CallerInv, OutsideInv
<1>6. PlaceInv'
  <2>1. None \notin Taken' \cup finished'
    BY DEF IInv, TypeInv, Taken
  <2>2. \A g \in Threads : job[g] # None => job[g] \in Taken
    BY DEF Taken, IInv, TypeInv
  <2>3. \A g, k \in Threads : g # k /\ job'[g] # None => job'[g] # job'[k]
    BY <1>1, <1>2, <2>2 DEF PlaceInv
  <2>4. Taken' \cap finished' = {}
    BY <1>3 DEF PlaceInv
  <2> QED
    BY <2>1, <2>3, <2>4 DEF PlaceInv
<1> QED
  BY <1>3, <1>4, <1>5, <1>6

\* WaitForJob takes the job, or goes to sleep.
LEMMA WaitForJobPlace ==
    ASSUME IInv, JobInv, NEW h \in Threads, EnterWait(h) \/ Woken(h) \/ TimedOut(h)
    PROVE  /\ JobInv'
           /\ UNCHANGED <<verdict, finished, opc>>
           /\ \/ /\ Take(h) /\ tpc[h] # "run" /\ job[h] = None
                 /\ Taken' = Taken \cup {j \in Jobs : j = Obj_}
              \/ /\ UNCHANGED <<Obj_, job>> /\ Taken' = Taken
                 /\ \A g \in Threads : tpc'[g] = "run" <=> tpc[g] = "run"
<1> USE DEF addVars, history
<1>1. CASE Take(h)
  <2>1. tpc[h] \in {"lock", "woken", "timedout"}
            /\ UNCHANGED <<apc, arg, verdict, finished, opc>>
    BY DEF EnterWait, Woken, TimedOut
  <2>2. job[h] = None
    BY <2>1 DEF IInv, HoldInv
  <2> QED
    BY <1>1, <2>1, <2>2, TakePlace
<1>2. CASE ~Take(h)
  <2>1. UNCHANGED <<Obj_, job, apc, arg, verdict, finished, opc>>
            /\ tpc[h] \in {"lock", "woken"} /\ tpc' = [tpc EXCEPT ![h] = "waiting"]
    BY <1>2 DEF EnterWait, Woken, TimedOut
  <2>2. Quiet
    BY <2>1 DEF Quiet
  <2> QED
    BY <2>1, <2>2, QuietPlace DEF IInv, TypeInv
<1> QED
  BY <1>1, <1>2

LEMMA DonePlace ==
    ASSUME IInv, JobInv, NEW h \in Threads, Done(h)
    PROVE  /\ JobInv'
           /\ job[h] \in Taken /\ Taken' = Taken \ {job[h]}
           /\ Known' = Known
<1> USE DEF JobInv, Done, queueVars, addVars
<1>1. job[h] \in Jobs /\ job[h] \in Taken
          /\ \A g \in Threads : g # h => job[g] # job[h]
  BY DEF IInv, HoldInv, TypeInv, PlaceInv, Taken
<1>2. job' = [g \in Threads |-> IF g = h THEN None ELSE job[g]]
  BY DEF IInv, TypeInv
<1>3. Taken' = Taken \ {job[h]}
  BY <1>1, <1>2 DEF Taken
<1>4. Known' = Known
  BY <1>1, <1>3 DEF Known
<1>5. CallerInv' /\ OutsideInv'
  BY <1>4 DEF CallerInv, OutsideInv
<1>6. PlaceInv'
  <2>1. Obj_' \notin Taken' \cup finished'
    BY <1>1, <1>3 DEF PlaceInv
  <2>2. \A g, k \in Threads : g # k /\ job'[g] # None => job'[g] # job'[k]
    BY <1>1, <1>2 DEF PlaceInv
  <2>3. Taken' \cap finished' = {}
    BY <1>1, <1>3 DEF PlaceInv
  <2> QED
    BY <2>1, <2>2, <2>3 DEF PlaceInv
<1> QED
  BY <1>1, <1>3, <1>4, <1>5, <1>6

LEMMA NextJobInv == IInv /\ JobInv /\ [Next]_vars => JobInv'
<1> SUFFICES ASSUME IInv, JobInv, [Next]_vars PROVE JobInv'
  OBVIOUS
<1>1. CASE \E t \in Callers : \/ AddStep(t) \/ SpuriousCaller(t)
                             \/ \E j \in Jobs : AddCall(t, j)
  BY <1>1, AddCallPlace, AddFailPlace, AddSignalPlace, AddPutPlace, QuietCaller,
      QuietPlace DEF AddStep, AddLocked
<1>2. CASE \E h \in Threads : ThreadStep(h) \/ WaitEnds(h)
  BY <1>2, WaitForJobPlace, DonePlace, QuietThread, QuietPlace
      DEF ThreadStep, WaitForJob
<1>3. CASE StopCall \/ StopStep
  BY <1>3, QuietOwner, QuietPlace
<1>4. CASE UNCHANGED vars
  <2>1. Quiet
    BY <1>4 DEF vars, queueVars, addVars, threadVars, history, Quiet
  <2> QED
    BY <2>1, QuietPlace
<1> QED
  BY <1>1, <1>2, <1>3, <1>4 DEF Next

LEMMA InitJobInv == Init => JobInv
<1> SUFFICES ASSUME Init PROVE JobInv
  OBVIOUS
<1>1. Taken = {} /\ Known = {}
  BY DEF Init, Taken, Known
<1> QED
  BY <1>1 DEF Init, JobInv, CallerInv, OutsideInv, PlaceInv

LEMMA PlacesKnown == Spec => []JobInv
BY InitJobInv, NextJobInv, Invariance, PTL DEF Spec

-----------------------------------------------------------------------------
(***************************************************************************)
(* The refinement.                                                         *)
(***************************************************************************)

\* The jobs that are being processed.
Running == {j \in Jobs : \E h \in Threads : job[h] = j /\ tpc[h] = "run"}

\* What was told of a job, by its place.
LEMMA ToldByPlace ==
    ASSUME NEW j \in Jobs
    PROVE  Told(j) = IF verdict[j] = "threw" THEN "refused"
                     ELSE IF j \in finished THEN "done"
                     ELSE IF j \in Running THEN "running"
                     ELSE IF verdict[j] = "failed" THEN "refused"
                     ELSE IF j \in Taken \/ j = Obj_ THEN "pending" ELSE "fresh"
<1>1. j \in Taken <=> \E h \in Threads : job[h] = j
  BY DEF Taken
<1>2. j \in Running <=> \E h \in Threads : job[h] = j /\ tpc[h] = "run"
  BY DEF Running
<1> QED
  BY <1>1, <1>2 DEF Told, Status

LEMMA ToldByPlaceNext ==
    ASSUME NEW j \in Jobs
    PROVE  Told(j)' = IF verdict'[j] = "threw" THEN "refused"
                     ELSE IF j \in finished' THEN "done"
                     ELSE IF j \in Running' THEN "running"
                     ELSE IF verdict'[j] = "failed" THEN "refused"
                     ELSE IF j \in Taken' \/ j = Obj_' THEN "pending" ELSE "fresh"
<1>1. j \in Taken' <=> \E h \in Threads : job'[h] = j
  BY DEF Taken
<1>2. j \in Running' <=> \E h \in Threads : job'[h] = j /\ tpc'[h] = "run"
  BY DEF Running
<1> QED
  BY <1>1, <1>2 DEF Told, Status

\* Job j, and no other, gets a new status.
Becomes(j, s) ==
    /\ \A k \in Jobs : Told(k)' = IF k = j THEN s ELSE Told(k)
    /\ opc' = opc

LEMMA AbstractBecome ==
    ASSUME NEW j \in Jobs, NEW s, Becomes(j, s)
    PROVE  AsTold!Become(j, s)
BY DEF Becomes, Phase, AsTold!Become

\* A step leaves the verdicts of a thrown Add as they are.
SameThrown ==
    \A k \in Jobs : /\ verdict'[k] = "failed" <=> verdict[k] = "failed"
                    /\ verdict'[k] = "threw" <=> verdict[k] = "threw"

\* Nothing can be seen from outside.
Unseen == Phase' = Phase /\ \A k \in Jobs : Told(k)' = Told(k)

LEMMA AbstractUnseen == ASSUME Unseen PROVE UNCHANGED AsTold!avars
BY DEF Unseen, Phase, AsTold!avars

\* The queue knows a taken job, and a job that is processed is taken.
LEMMA PlacesOfJobs ==
    ASSUME NEW j \in Jobs
    PROVE  /\ j \notin Known => j \notin finished /\ j \notin Taken /\ j # Obj_
           /\ j \in Running => j \in Taken
BY DEF Known, Taken, Running

LEMMA CallUnseen ==
    ASSUME IInv, JobInv, NEW t \in Callers, NEW j \in Jobs, AddCall(t, j)
    PROVE  Unseen \/ AsTold!Refuse(j)
<1> USE ToldByPlace, ToldByPlaceNext
<1>1. /\ UNCHANGED <<Obj_, finished, opc>> /\ Running' = Running
      /\ Taken' = Taken /\ verdict[j] = "none"
  BY AddCallPlace DEF AddCall, queueVars, threadVars, Running
<1>2. CASE opc # "stopped"
  <2>1. SameThrown
    BY <1>1, <1>2 DEF SameThrown, AddCall, IInv, TypeInv
  <2> QED
    BY <1>1, <2>1 DEF SameThrown, Unseen, Phase
<1>3. CASE opc = "stopped"
  <2>1. verdict' = [verdict EXCEPT ![j] = "failed"]
    BY <1>3 DEF AddCall
  <2>2. \A k \in Jobs : verdict'[k] = IF k = j THEN "failed" ELSE verdict[k]
    BY <2>1 DEF IInv, TypeInv
  <2>3. j \notin Known
    BY <1>1 DEF JobInv, OutsideInv
  <2>4. Becomes(j, "refused") /\ Told(j) = "fresh"
    BY <1>1, <2>2, <2>3, PlacesOfJobs DEF Becomes
  <2> QED
    BY <2>4, AbstractBecome DEF AsTold!Refuse
<1> QED
  BY <1>2, <1>3

LEMMA FailRefuses ==
    ASSUME IInv, JobInv, NEW t \in Callers, AddFail(t)
    PROVE  arg[t] \in Jobs /\ AsTold!Refuse(arg[t])
<1> USE ToldByPlace, ToldByPlaceNext
<1>1. /\ UNCHANGED <<Obj_, finished, opc>> /\ Running' = Running
      /\ Taken' = Taken
  BY AddFailPlace DEF AddFail, queueVars, threadVars, Running
<1>2. arg[t] \in Jobs
          /\ \A k \in Jobs : verdict'[k] = IF k = arg[t] THEN "failed" ELSE verdict[k]
  BY ReturnForgets DEF AddFail, JobInv
<1>3. arg[t] \notin Known /\ verdict[arg[t]] = "called"
  BY DEF AddFail, JobInv, CallerInv
<1>4. Becomes(arg[t], "refused") /\ Told(arg[t]) = "fresh"
  BY <1>1, <1>2, <1>3, PlacesOfJobs DEF Becomes
<1> QED
  BY <1>2, <1>4, AbstractBecome DEF AsTold!Refuse

\* A job that is left in Obj_ has been accepted, unless Add throws.
LEMMA PutAccepts ==
    ASSUME IInv, JobInv, NEW t \in Callers, AddPut(t)
    PROVE  arg[t] \in Jobs /\ (AsTold!Accept(arg[t]) \/ AsTold!Refuse(arg[t]))
<1> USE ToldByPlace, ToldByPlaceNext
<1>1. arg[t] \in Jobs /\ arg[t] \notin Known /\ verdict[arg[t]] = "called"
          /\ opc # "stopped"
  BY DEF AddPut, IInv, CallInv, StoppedInv, Living, JobInv, CallerInv, TypeInv
<1>2. Obj_ = None /\ Obj_' = arg[t] /\ finished' = finished /\ opc' = opc
          /\ Taken' = Taken
  BY AddPutPlace DEF AddPut
<1>3. Running' = Running
  <2>1. job' = job /\ \A h \in Threads : tpc'[h] = "run" <=> tpc[h] = "run"
    BY DEF AddPut, AddThreadNoLock, IInv, TypeInv
  <2> QED
    BY <2>1 DEF Running
<1>4. \A k \in Jobs : k # arg[t] => verdict'[k] = verdict[k]
  BY <1>1 DEF AddPut, Return, IInv, TypeInv
<1>5. Told(arg[t]) = "fresh"
  BY <1>1, PlacesOfJobs
<1>6. CASE AllDone_
  <2>1. verdict'[arg[t]] = "threw"
    BY <1>1, <1>6 DEF AddPut, Return, IInv, TypeInv
  <2>2. Becomes(arg[t], "refused")
    BY <1>1, <1>2, <1>3, <1>4, <2>1 DEF Becomes
  <2> QED
    BY <1>1, <1>5, <2>2, AbstractBecome DEF AsTold!Refuse
<1>7. CASE ~AllDone_
  <2>1. verdict'[arg[t]] = "called"
    BY <1>1, <1>7 DEF AddPut
  <2>2. Becomes(arg[t], "pending")
    BY <1>1, <1>2, <1>3, <1>4, <2>1, PlacesOfJobs DEF Becomes
  <2> QED
    BY <1>1, <1>5, <2>2, AbstractBecome DEF AsTold!Accept, Phase
<1> QED
  BY <1>6, <1>7

LEMMA SignalUnseen ==
    ASSUME IInv, JobInv, NEW t \in Callers, AddSignal(t)
    PROVE  Unseen
<1> USE ToldByPlace, ToldByPlaceNext
<1>1. /\ UNCHANGED <<Obj_, finished, job, opc>> /\ Taken' = Taken
  BY AddSignalPlace DEF AddSignal, queueVars
<1>2. Running' = Running
  BY <1>1, SignalStep DEF Running, AddSignal
<1>3. SameThrown
  BY ReturnForgets DEF SameThrown, AddSignal, JobInv, CallerInv
<1> QED
  BY <1>1, <1>2, <1>3 DEF SameThrown, Unseen, Phase

LEMMA WaitForJobUnseen ==
    ASSUME IInv, JobInv, NEW h \in Threads, EnterWait(h) \/ Woken(h) \/ TimedOut(h)
    PROVE  Unseen
<1> USE ToldByPlace, ToldByPlaceNext
<1>1. UNCHANGED <<verdict, finished, opc>>
  BY WaitForJobPlace
<1>2. CASE /\ Take(h) /\ tpc[h] # "run" /\ job[h] = None
           /\ Taken' = Taken \cup {j \in Jobs : j = Obj_}
  <2>1. Running' = Running
    BY <1>2 DEF Take, Running, IInv, TypeInv
  <2>2. Obj_' = None
    BY <1>2 DEF Take
  <2> QED
    BY <1>1, <1>2, <2>1, <2>2 DEF Unseen, Phase
<1>3. CASE /\ UNCHANGED <<Obj_, job>> /\ Taken' = Taken
           /\ \A g \in Threads : tpc'[g] = "run" <=> tpc[g] = "run"
  <2>1. Running' = Running
    BY <1>3 DEF Running
  <2> QED
    BY <1>1, <1>3, <2>1 DEF Unseen, Phase
<1> QED
  BY <1>2, <1>3, WaitForJobPlace

LEMMA TookBegins ==
    ASSUME IInv, JobInv, NEW h \in Threads, Took(h)
    PROVE  Unseen \/ (job[h] \in Jobs /\ AsTold!Begin(job[h]))
<1> USE ToldByPlace, ToldByPlaceNext
<1>1. Quiet /\ opc' = opc /\ Taken' = Taken
  BY QuietThread, QuietPlace
<1>2. CASE job[h] = None
  <2>1. Running' = Running
    BY <1>1, <1>2 DEF Took, Quiet, Running, IInv, TypeInv
  <2> QED
    BY <1>1, <2>1 DEF Unseen, Phase, Quiet
<1>3. CASE job[h] # None
  <2>1. job[h] \in Jobs /\ tpc[h] = "took" /\ tpc' = [tpc EXCEPT ![h] = "run"]
    BY <1>3 DEF Took, IInv, TypeInv
  <2>2. job[h] \in Taken /\ job[h] \notin finished
            /\ \A g \in Threads : g # h => job[g] # job[h]
    BY <1>3, <2>1 DEF JobInv, PlaceInv, Taken
  <2>3. Running' = Running \cup {job[h]} /\ job[h] \notin Running
    BY <1>1, <2>1, <2>2 DEF Quiet, Running, IInv, TypeInv
  <2>4. CASE verdict[job[h]] = "threw"
    BY <1>1, <2>1, <2>2, <2>3, <2>4 DEF Unseen, Phase, Quiet
  <2>5. CASE verdict[job[h]] # "threw"
    <3>1. verdict[job[h]] # "failed"
      BY <2>1, <2>2 DEF JobInv, OutsideInv, Known
    <3>2. Becomes(job[h], "running") /\ Told(job[h]) = "pending"
      BY <1>1, <2>1, <2>2, <2>3, <2>5, <3>1 DEF Becomes, Quiet
    <3> QED
      BY <2>1, <3>2, AbstractBecome DEF AsTold!Begin
  <2> QED
    BY <2>4, <2>5
<1> QED
  BY <1>2, <1>3

LEMMA DoneFinishes ==
    ASSUME IInv, JobInv, NEW h \in Threads, Done(h)
    PROVE  Unseen \/ (job[h] \in Jobs /\ AsTold!Finish(job[h]))
<1> USE ToldByPlace, ToldByPlaceNext
<1>1. job[h] \in Taken /\ Taken' = Taken \ {job[h]}
  BY DonePlace
<1>2. job[h] \in Jobs /\ tpc[h] = "run" /\ finished' = finished \cup {job[h]}
          /\ UNCHANGED <<Obj_, verdict, opc>>
  BY <1>1 DEF Done, Taken, queueVars
<1>3. job[h] \in Running /\ job[h] \notin finished
  BY <1>1, <1>2 DEF Running, JobInv, PlaceInv
<1>4. Running' = Running \ {job[h]}
  <2>1. \A g \in Threads : /\ job'[g] = IF g = h THEN None ELSE job[g]
                           /\ tpc'[g] = IF g = h THEN "lock" ELSE tpc[g]
                           /\ g # h => job[g] # job[h]
    BY <1>2 DEF Done, IInv, TypeInv, JobInv, PlaceInv
  <2> QED
    BY <1>2, <2>1 DEF Running
<1>5. CASE verdict[job[h]] = "threw"
  BY <1>1, <1>2, <1>3, <1>4, <1>5 DEF Unseen, Phase
<1>6. CASE verdict[job[h]] # "threw"
  <2>1. Becomes(job[h], "done") /\ Told(job[h]) = "running"
    BY <1>1, <1>2, <1>3, <1>4, <1>6 DEF Becomes
  <2> QED
    BY <1>2, <2>1, AbstractBecome DEF AsTold!Finish
<1> QED
  BY <1>5, <1>6

\* Steps of the threads that no job takes part in.
LEMMA RestUnseen ==
    ASSUME IInv, JobInv, Quiet,
           \A h \in Threads : tpc'[h] = "run" <=> tpc[h] = "run"
    PROVE  \A k \in Jobs : Told(k)' = Told(k)
<1>1. Taken' = Taken
  BY QuietPlace
<1>2. Running' = Running
  BY DEF Quiet, Running
<1> QED
  BY <1>1, <1>2, ToldByPlace, ToldByPlaceNext DEF Quiet

\* Stop returns when the abstract queue may close.
LEMMA StopAbstract ==
    ASSUME IInv, JobInv, StopCall \/ StopStep
    PROVE  AsTold!CallStop \/ AsTold!ReturnFromStop \/ Unseen
<1>1. \A h \in Threads : tpc'[h] = "run" <=> tpc[h] = "run"
  BY SignalStep DEF StopCall, StopStep, StopLoop, StopSignal, threadVars
<1>2. \A k \in Jobs : Told(k)' = Told(k)
  BY <1>1, QuietOwner, RestUnseen
<1>3. CASE StopCall
  BY <1>2, <1>3 DEF StopCall, Phase, AsTold!CallStop
<1>4. CASE StopLoop /\ ThrCount_ = 0
  <2>1. \A h \in Threads : tpc[h] = "gone"
    BY <1>4, NobodyCounted DEF IInv, Living
  <2>2. Obj_ = None /\ Taken = {} /\ Running = {}
    BY <2>1 DEF IInv, ObjInv, HoldInv, Taken, Running
  <2>3. \A k \in Jobs : Told(k) \notin {"pending", "running"}
    BY <2>2, ToldByPlace
  <2> QED
    BY <1>2, <1>4, <2>3 DEF StopLoop, Phase, AsTold!ReturnFromStop
<1>5. CASE (StopLoop /\ ThrCount_ # 0) \/ StopSignal
  <2>1. opc \in {"loop", "signal"} /\ opc' \in {"loop", "signal"}
    BY <1>5 DEF StopLoop, StopSignal
  <2> QED
    BY <1>2, <2>1 DEF Unseen, Phase
<1> QED
  BY <1>3, <1>4, <1>5 DEF StopStep

LEMMA AbstractStep ==
    IInv /\ JobInv /\ [Next]_vars => [AsTold!ANext]_(AsTold!avars)
<1> SUFFICES ASSUME IInv, JobInv, [Next]_vars
             PROVE  AsTold!ANext \/ UNCHANGED AsTold!avars
  OBVIOUS
<1>1. ASSUME NEW t \in Callers, NEW j \in Jobs, AddCall(t, j)
      PROVE  AsTold!ANext \/ UNCHANGED AsTold!avars
  BY <1>1, CallUnseen, AbstractUnseen DEF AsTold!ANext
<1>2. ASSUME NEW t \in Callers, AddStep(t) \/ SpuriousCaller(t)
      PROVE  AsTold!ANext \/ UNCHANGED AsTold!avars
  <2>1. CASE AddWait(t) \/ SpuriousCaller(t)
    <3>1. Quiet /\ UNCHANGED <<tpc, opc>>
      BY <2>1, QuietCaller
    <3>2. Unseen
      BY <3>1, RestUnseen DEF Unseen, Phase
    <3> QED
      BY <3>2, AbstractUnseen
  <2>2. CASE AddPut(t)
    BY <2>2, PutAccepts DEF AsTold!ANext
  <2>3. CASE AddFail(t)
    BY <2>3, FailRefuses DEF AsTold!ANext
  <2>4. CASE AddSignal(t)
    BY <2>4, SignalUnseen, AbstractUnseen
  <2> QED
    BY <1>2, <2>1, <2>2, <2>3, <2>4 DEF AddStep, AddLocked
<1>3. ASSUME NEW h \in Threads, ThreadStep(h) \/ WaitEnds(h)
      PROVE  AsTold!ANext \/ UNCHANGED AsTold!avars
  <2>1. CASE EnterWait(h) \/ Woken(h) \/ TimedOut(h)
    BY <2>1, WaitForJobUnseen, AbstractUnseen
  <2>2. CASE Took(h)
    BY <2>2, TookBegins, AbstractUnseen DEF AsTold!ANext
  <2>3. CASE Done(h)
    BY <2>3, DoneFinishes, AbstractUnseen DEF AsTold!ANext
  <2>4. CASE DecThreadCount(h) \/ WaitEnds(h)
    <3>1. Quiet /\ opc' = opc
      BY <2>4, QuietThread
    <3>2. \A g \in Threads : tpc'[g] = "run" <=> tpc[g] = "run"
      BY <2>4 DEF DecThreadCount, WaitEnds, IdleTimeOver, SpuriousThread,
          CondReady_, IInv, TypeInv
    <3>3. Unseen
      BY <3>1, <3>2, RestUnseen DEF Unseen, Phase
    <3> QED
      BY <3>3, AbstractUnseen
  <2> QED
    BY <1>3, <2>1, <2>2, <2>3, <2>4 DEF ThreadStep, WaitForJob
<1>4. CASE StopCall \/ StopStep
  BY <1>4, StopAbstract, AbstractUnseen DEF AsTold!ANext
<1>5. CASE UNCHANGED vars
  <2>1. Quiet /\ UNCHANGED <<tpc, opc>>
    BY <1>5 DEF vars, queueVars, addVars, threadVars, history, Quiet
  <2>2. Unseen
    BY <2>1, RestUnseen DEF Unseen, Phase
  <2> QED
    BY <2>2, AbstractUnseen
<1> QED
  BY <1>1, <1>2, <1>3, <1>4, <1>5 DEF Next

\* TAdaptiveMtpQueue implements the abstract job queue but for late jobs, those
\* whose Add threw because the queue was stopping: whatever threads are made, fail
\* to be made or leave, each other job put into Obj_ is processed exactly once, a
\* job whose Add failed never, and Stop returns when none is left.
THEOREM Refinement == Spec => ImplementsButForLateJobs
<1>1. Init => AsTold!AInit
  <2> SUFFICES ASSUME Init PROVE AsTold!AInit
    OBVIOUS
  <2>1. Taken = {} /\ Running = {}
    BY DEF Init, Taken, Running
  <2>2. \A j \in Jobs : Told(j) = "fresh"
    BY <2>1, ToldByPlace DEF Init
  <2> QED
    BY <2>2 DEF Init, Phase, AsTold!AInit
<1> QED
  BY <1>1, AbstractStep, Invariance, PlacesKnown, PTL
      DEF Spec, ImplementsButForLateJobs, AsTold!ASpec
=============================================================================
