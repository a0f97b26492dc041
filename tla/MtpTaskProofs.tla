--------------------------- MODULE MtpTaskProofs ---------------------------
(***************************************************************************)
(* Proofs about TMtpTask, for any number of contexts and of calls of       *)
(* Process, on any queue that behaves as JobQueue: every context of a call *)
(* that returned was processed once, and a processor is free when it is    *)
(* used again and, unless a call threw on a queue that is not the object's *)
(* own, when it is destroyed.                                              *)
(*                                                                         *)
(* The invariant gives, for the present call, the state of each processor: *)
(* the owner has not come to it, or it is at work on the context of this   *)
(* call, or it is idle again and the context was processed.                *)
(***************************************************************************)
EXTENDS MtpTask, TLAPS

Adding == {"set", "add", "inline"}
Waiting == {"wait", "waiting", "woken"}
Over == {"threw", "stopping", "freed"}

TypeInv ==
    /\ Queue!ATypeOK
    /\ Own \in BOOLEAN
    /\ Task_ \in [Processors -> Jobs \cup {None}]
    /\ ppc \in [Processors -> {"idle", "queued", "run", "done", "locked"}]
    /\ opc \in {"out", "direct"} \cup Adding \cup Waiting \cup Over
    /\ at \in Nat
    /\ cnt \in 0..MaxCount
    /\ call \in 0..Calls
    /\ returning \subseteq Jobs
    /\ counts \in Seq(0..MaxCount)
    /\ processed \in [Jobs -> {0, 1}]

\* The job of processor p in the present call.
Mine(p) == <<call, p>>

\* A processor at work has the data of the present call, and the queue knows
\* its job unless the calling thread runs it.
WorkInv ==
    \A p \in Processors :
        /\ ppc[p] # "idle" => call > 0
        /\ ppc[p] \in {"queued", "run", "done"} => Task_[p] = Mine(p)
        /\ ppc[p] = "locked" => Task_[p] = None
        /\ ppc[p] = "idle" => \/ Task_[p] = None
                              \/ opc \in {"add"} \cup Over /\ at = p
        /\ ppc[p] = "queued" => status[Mine(p)] = "pending"
        /\ ppc[p] \in {"run", "done", "locked"} =>
               status[Mine(p)] = "running" \/ (opc = "inline" /\ at = p)
        /\ ppc[p] \in {"queued", "run"} => processed[Mine(p)] = 0
        /\ ppc[p] \in {"done", "locked"} => processed[Mine(p)] = 1

\* The owner has handed out the context of processor p.
Handed(p) == ppc[p] # "idle" \/ processed[Mine(p)] = 1
Untouched(p) == ppc[p] = "idle" /\ processed[Mine(p)] = 0

\* Where the owner is tells which processors have been handed a context.
OwnerInv ==
    /\ opc \in Adding \cup Waiting \cup {"direct"} =>
           call > 0 /\ at \in 1..cnt /\ Len(counts) = call - 1
    /\ Len(counts) <= call
    /\ opc = "out" => Len(counts) = call
    /\ opc \in {"set", "add"} =>
           \A p \in Processors : IF p < at THEN Handed(p) ELSE Untouched(p)
    /\ opc = "add" => at < cnt /\ Task_[at] = Mine(at)
    /\ opc = "inline" =>
           \A p \in Processors : IF p <= at THEN Handed(p) ELSE Untouched(p)
    /\ opc \in Waiting =>
           \A p \in Processors : /\ p <= cnt => Handed(p)
                                 /\ p < at \/ p > cnt => ppc[p] = "idle"
    /\ opc = "direct" => cnt = 1 /\ processed[Mine(1)] = 0
    /\ opc = "threw" => Len(counts) = call - 1
    /\ opc = "stopping" => Own
    /\ \/ opc \in {"out", "direct"}
       \/ opc = "freed" /\ (Own \/ Len(counts) = call)
       => \A p \in Processors : ppc[p] = "idle"

\* The queue knows no job of a later call, holds only jobs of processors that
\* wait for it, and is left by a job when its processor is idle again.
QueueInv ==
    /\ \A j \in Jobs :
           /\ j[1] > call => status[j] = "fresh" /\ processed[j] = 0
           /\ status[j] = "pending" => j[1] = call /\ ppc[j[2]] = "queued"
    /\ \A j \in returning :
           /\ j[1] <= call
           /\ j[1] = call => ppc[j[2]] = "idle" /\ processed[j] = 1

\* A call that has returned is over.
ReturnedInv ==
    \A r \in 1..Len(counts) : \A p \in 1..counts[r] : processed[<<r, p>>] = 1

IInv == TypeInv /\ WorkInv /\ OwnerInv /\ QueueInv /\ ReturnedInv

USE TaskAssumption

-----------------------------------------------------------------------------
(***************************************************************************)
(* Jobs are pairs.                                                         *)
(***************************************************************************)

LEMMA PairIsJob ==
    ASSUME NEW r \in 1..Calls, NEW p \in Processors
    PROVE  <<r, p>> \in Jobs
BY DEF Jobs

LEMMA JobIsPair ==
    ASSUME NEW j \in Jobs
    PROVE  j[1] \in 1..Calls /\ j[2] \in Processors /\ j = <<j[1], j[2]>>
BY DEF Jobs

LEMMA NoneIsNoJob == None \notin Jobs
BY DEF Jobs, None, Processors

LEMMA MineIsJob ==
    ASSUME TypeInv, call > 0, NEW p \in Processors
    PROVE  /\ Mine(p) \in Jobs /\ Mine(p)[1] = call /\ Mine(p)[2] = p
           /\ Mine(p) # None
           /\ \A q \in Processors : Mine(p) = Mine(q) => p = q
           /\ \A j \in Jobs : j[1] = call /\ j[2] = p => j = Mine(p)
<1>1. call \in 1..Calls
  BY DEF TypeInv
<1>2. Mine(p) \in Jobs
  BY <1>1, PairIsJob DEF Mine
<1>3. \A j \in Jobs : j[1] = call /\ j[2] = p => j = Mine(p)
  BY JobIsPair DEF Mine
<1> QED
  BY <1>2, <1>3, NoneIsNoJob DEF Mine

-----------------------------------------------------------------------------
(***************************************************************************)
(* Calls that have returned.                                               *)
(***************************************************************************)

LEMMA ReturnedPair ==
    ASSUME IInv, NEW r \in 1..Len(counts), NEW p \in 1..counts[r]
    PROVE  <<r, p>> \in Jobs
<1>1. counts \in Seq(0..MaxCount) /\ Len(counts) <= call /\ call \in 0..Calls
  BY DEF IInv, TypeInv, OwnerInv
<1>2. counts[r] \in 0..MaxCount /\ Len(counts) \in Nat
  BY <1>1
<1>3. r \in 1..Calls /\ p \in Processors
  BY <1>1, <1>2 DEF Processors
<1> QED
  BY <1>3, PairIsJob

\* What was processed stays processed.
LEMMA ReturnedKept ==
    ASSUME IInv, UNCHANGED counts,
           \A j \in Jobs : processed[j] = 1 => processed'[j] = 1
    PROVE  ReturnedInv'
BY ReturnedPair DEF IInv, ReturnedInv

\* The call returns c: its contexts have all been processed.
LEMMA ReturnedAll ==
    ASSUME IInv, NEW c \in 0..MaxCount, counts' = Append(counts, c),
           \A j \in Jobs : processed[j] = 1 => processed'[j] = 1,
           \A p \in 1..c : processed'[<<Len(counts) + 1, p>>] = 1
    PROVE  /\ ReturnedInv'
           /\ counts' \in Seq(0..MaxCount) /\ Len(counts') = Len(counts) + 1
<1>1. counts \in Seq(0..MaxCount)
  BY DEF IInv, TypeInv
<1>2. counts' \in Seq(0..MaxCount) /\ Len(counts') = Len(counts) + 1
  BY <1>1
<1>3. ASSUME NEW r \in 1..Len(counts'), NEW p \in 1..counts'[r]
      PROVE  processed'[<<r, p>>] = 1
  <2>1. CASE r = Len(counts) + 1
    <3>1. counts'[r] = c
      BY <1>1, <2>1
    <3> QED
      BY <1>3, <2>1, <3>1
  <2>2. CASE r \in 1..Len(counts)
    <3>1. counts'[r] = counts[r]
      BY <1>1, <2>2
    <3> QED
      BY <1>3, <2>2, <3>1, ReturnedPair DEF IInv, ReturnedInv
  <2> QED
    BY <1>1, <1>2, <2>1, <2>2
<1> QED
  BY <1>2, <1>3 DEF ReturnedInv

-----------------------------------------------------------------------------
(***************************************************************************)
(* The steps of a processor.                                               *)
(***************************************************************************)

LEMMA BeginStep ==
    ASSUME IInv, NEW p \in Processors, Begin(p)
    PROVE  IInv'
<1> USE DEF IInv, ownerVars
<1>1. /\ ppc[p] = "queued" /\ ppc' = [ppc EXCEPT ![p] = "run"]
      /\ UNCHANGED <<Own, Task_, opc, at, cnt, call, counts, returning, processed>>
  BY DEF Begin
<1>2. PICK j \in Jobs : j[2] = p /\ Queue!Begin(j)
  BY DEF Begin
<1>3. call > 0 /\ status[j] = "pending"
  BY <1>1, <1>2 DEF WorkInv, Queue!Begin
<1>4. j = Mine(p)
  BY <1>2, <1>3, MineIsJob DEF QueueInv
<1>5. status' = [status EXCEPT ![Mine(p)] = "running"] /\ phase' = phase
  BY <1>2, <1>4 DEF Queue!Begin, Queue!Become
<1>6. TypeInv'
  BY <1>1, <1>5 DEF TypeInv, Queue!ATypeOK, Queue!Statuses
<1>7. WorkInv'
  BY <1>1, <1>3, <1>5, MineIsJob DEF WorkInv, TypeInv, Queue!ATypeOK, Mine
<1>8. OwnerInv'
  BY <1>1 DEF OwnerInv, TypeInv, Handed, Untouched, Mine
<1>9. QueueInv'
  BY <1>1, <1>3, <1>5, MineIsJob, JobIsPair DEF QueueInv, TypeInv, Queue!ATypeOK
<1>10. ReturnedInv'
  BY <1>1, ReturnedKept
<1> QED
  BY <1>6, <1>7, <1>8, <1>9, <1>10

LEMMA TaskEndsStep ==
    ASSUME IInv, NEW p \in Processors, TaskEnds(p)
    PROVE  IInv'
<1> USE DEF IInv
<1>1. /\ ppc[p] = "run" /\ ppc' = [ppc EXCEPT ![p] = "done"]
      /\ UNCHANGED <<phase, status, Own, Task_, opc, at, cnt, call, counts, returning>>
  BY DEF TaskEnds, queueVars, ownerVars
<1>2. call > 0 /\ Task_[p] = Mine(p) /\ processed[Mine(p)] = 0
  BY <1>1 DEF WorkInv
<1>3. processed' = [processed EXCEPT ![Mine(p)] = 1]
  BY <1>2, MineIsJob DEF TaskEnds, Run, TypeInv
<1>4. TypeInv'
  BY <1>1, <1>3 DEF TypeInv, Queue!ATypeOK
<1>5. WorkInv'
  BY <1>1, <1>2, <1>3, MineIsJob DEF WorkInv, TypeInv, Mine
<1>6. OwnerInv'
  BY <1>1, <1>2, <1>3, MineIsJob DEF OwnerInv, TypeInv, Handed, Untouched, Mine
<1>7. QueueInv'
  BY <1>1, <1>2, <1>3, MineIsJob, JobIsPair DEF QueueInv, TypeInv
<1>8. ReturnedInv'
  BY <1>1, <1>2, <1>3, MineIsJob, ReturnedKept DEF TypeInv
<1> QED
  BY <1>4, <1>5, <1>6, <1>7, <1>8

LEMMA DoneStep ==
    ASSUME IInv, NEW p \in Processors, Done(p)
    PROVE  IInv'
<1> USE DEF IInv
<1>1. /\ ppc[p] = "done" /\ ppc' = [ppc EXCEPT ![p] = "locked"]
      /\ Task_' = [Task_ EXCEPT ![p] = None]
      /\ UNCHANGED <<phase, status, Own, at, cnt, call, counts, returning, processed>>
      /\ opc' = opc \/ (opc = "waiting" /\ opc' = "woken")
  BY DEF Done, Signal, Goto, queueVars, ownerVars
<1>2. TypeInv'
  BY <1>1 DEF TypeInv, Queue!ATypeOK, Waiting
<1>3. WorkInv'
  BY <1>1 DEF WorkInv, TypeInv, Mine, Over
<1>4. OwnerInv'
  <2>1. \A q \in Processors : (ppc'[q] = "idle" <=> ppc[q] = "idle") /\ Mine(q)' = Mine(q)
    BY <1>1 DEF TypeInv, Mine
  <2>2. opc' # opc => opc \in Waiting /\ opc' \in Waiting
    BY <1>1 DEF Waiting
  <2>3. opc = "add" => at # p
    BY <1>1 DEF OwnerInv, Untouched, TypeInv, Processors
  <2>4. opc = "add" => Task_'[at'] = Mine(at)'
    BY <1>1, <2>3 DEF OwnerInv, TypeInv, Mine
  <2>5. \A q \in Processors : Handed(q)' = Handed(q) /\ Untouched(q)' = Untouched(q)
    BY <1>1, <2>1 DEF Handed, Untouched
  <2>6. CASE opc' = opc
    BY <1>1, <2>1, <2>4, <2>5, <2>6 DEF OwnerInv, Mine
  <2>7. CASE opc' # opc
    BY <1>1, <2>1, <2>2, <2>5, <2>7 DEF OwnerInv, Adding, Waiting
  <2> QED
    BY <2>6, <2>7
<1>5. QueueInv'
  BY <1>1 DEF QueueInv, TypeInv
<1>6. ReturnedInv'
  BY <1>1, ReturnedKept
<1> QED
  BY <1>2, <1>3, <1>4, <1>5, <1>6

LEMMA DoneUnlockStep ==
    ASSUME IInv, NEW p \in Processors, DoneUnlock(p)
    PROVE  IInv'
<1> USE DEF IInv
<1>1. /\ ppc[p] = "locked" /\ ppc' = [ppc EXCEPT ![p] = "idle"]
      /\ returning' = returning \cup {j \in Jobs : j[2] = p /\ status[j] = "running"}
      /\ UNCHANGED <<phase, status, Own, Task_, opc, at, cnt, call, counts, processed>>
  BY DEF DoneUnlock, queueVars, ownerVars
<1>2. call > 0 /\ Task_[p] = None /\ processed[Mine(p)] = 1
  BY <1>1 DEF WorkInv
<1>3. TypeInv'
  BY <1>1 DEF TypeInv, Queue!ATypeOK
<1>4. WorkInv'
  BY <1>1, <1>2 DEF WorkInv, TypeInv, Mine
<1>5. OwnerInv'
  BY <1>1, <1>2 DEF OwnerInv, TypeInv, Handed, Untouched, Mine
<1>6. QueueInv'
  <2>1. \A j \in Jobs : status[j] = "running" => j[1] <= call
    BY JobIsPair DEF QueueInv, TypeInv
  <2> QED
    BY <1>1, <1>2, <2>1, MineIsJob DEF QueueInv, TypeInv
<1>7. ReturnedInv'
  BY <1>1, ReturnedKept
<1> QED
  BY <1>3, <1>4, <1>5, <1>6, <1>7

LEMMA FinishStep ==
    ASSUME IInv, NEW j \in Jobs, Finish(j)
    PROVE  IInv'
<1> USE DEF IInv
<1>1. /\ j \in returning /\ returning' = returning \ {j}
      /\ status[j] = "running" /\ status' = [status EXCEPT ![j] = "done"]
      /\ UNCHANGED <<phase, Own, Task_, ppc, opc, at, cnt, call, counts, processed>>
  BY DEF Finish, Queue!Finish, Queue!Become, procVars, ownerVars
<1>2. \A p \in Processors : call > 0 /\ ppc[p] # "idle" => Mine(p) # j
  BY <1>1, MineIsJob DEF QueueInv
<1>3. TypeInv'
  BY <1>1 DEF TypeInv, Queue!ATypeOK, Queue!Statuses
<1>4. WorkInv'
  BY <1>1, <1>2, MineIsJob DEF WorkInv, TypeInv, Queue!ATypeOK, Mine
<1>5. OwnerInv'
  BY <1>1 DEF OwnerInv, Handed, Untouched, Mine
<1>6. QueueInv'
  BY <1>1 DEF QueueInv, TypeInv, Queue!ATypeOK
<1>7. ReturnedInv'
  BY <1>1, ReturnedKept
<1> QED
  BY <1>3, <1>4, <1>5, <1>6, <1>7

-----------------------------------------------------------------------------
(***************************************************************************)
(* The steps of the owner.                                                 *)
(***************************************************************************)

\* A queue step of the owner changes the status of the current job only.
LEMMA CurrentIsMine ==
    ASSUME IInv, opc = "add"
    PROVE  /\ at \in Processors /\ Current = Mine(at)
           /\ call > 0 /\ at \in 1..cnt /\ Untouched(at)
           /\ status[Mine(at)] # "pending" /\ Mine(at) \notin returning
<1> USE DEF IInv
<1>1. at \in Processors /\ call > 0 /\ at \in 1..cnt
  BY DEF OwnerInv, TypeInv, Adding, Processors
<1>2. Untouched(at)
  BY <1>1 DEF OwnerInv, Processors
<1>3. Mine(at) \in Jobs /\ Mine(at)[1] = call /\ Mine(at)[2] = at
  BY <1>1, MineIsJob
<1> QED
  BY <1>1, <1>2, <1>3 DEF Current, Mine, Untouched, QueueInv

LEMMA AddAcceptedStep ==
    ASSUME IInv, AddAccepted
    PROVE  IInv'
<1> USE DEF IInv
<1>1. /\ opc = "add" /\ opc' = "set" /\ at' = at + 1
      /\ UNCHANGED <<phase, Own, Task_, cnt, call, counts, returning, processed>>
      /\ ppc' = [ppc EXCEPT ![at] = "queued"]
      /\ status' = [status EXCEPT ![Mine(at)] = "pending"]
  BY CurrentIsMine DEF AddAccepted, Queue!Accept, Queue!Become
<1>2. /\ at \in Processors /\ call > 0 /\ at \in 1..cnt /\ Untouched(at)
      /\ Mine(at) \notin returning
  BY <1>1, CurrentIsMine
<1>3. Task_[at] = Mine(at) /\ at < cnt
  BY <1>1 DEF OwnerInv
<1>4. TypeInv'
  <2>1. at' \in Nat
    BY <1>1, <1>2
  <2>2. /\ status' \in [Jobs -> Queue!Statuses]
        /\ ppc' \in [Processors -> {"idle", "queued", "run", "done", "locked"}]
    BY <1>1 DEF TypeInv, Queue!ATypeOK, Queue!Statuses
  <2> QED
    BY <1>1, <2>1, <2>2 DEF TypeInv, Queue!ATypeOK, Adding
<1>5. WorkInv'
  <2>1. ppc'[at] = "queued" /\ status'[Mine(at)] = "pending"
    BY <1>1, <1>2, MineIsJob DEF TypeInv, Queue!ATypeOK
  <2>2. \A p \in Processors :
            p # at => ppc'[p] = ppc[p] /\ status'[Mine(p)] = status[Mine(p)]
    BY <1>1, <1>2, MineIsJob DEF TypeInv, Queue!ATypeOK
  <2>3. \A p \in Processors : Mine(p)' = Mine(p)
    BY <1>1 DEF Mine
  <2> QED
    BY <1>1, <1>2, <1>3, <2>1, <2>2, <2>3 DEF WorkInv, Untouched, Over
<1>6. OwnerInv'
  BY <1>1, <1>2, <1>3
      DEF OwnerInv, TypeInv, Mine, Handed, Untouched, Adding, Waiting, Over, Processors
<1>7. QueueInv'
  BY <1>1, <1>2, MineIsJob, JobIsPair DEF QueueInv, TypeInv, Queue!ATypeOK
<1>8. ReturnedInv'
  BY <1>1, ReturnedKept
<1> QED
  BY <1>4, <1>5, <1>6, <1>7, <1>8

\* The calling thread runs the processor, on its own or from inside Add.
LEMMA AddRunsStep ==
    ASSUME IInv, AddRefused \/ AddInline
    PROVE  IInv'
<1> USE DEF IInv
<1>1. /\ opc = "add" /\ opc' = "inline"
      /\ UNCHANGED <<phase, Own, Task_, at, cnt, call, counts, returning, processed>>
      /\ ppc' = [ppc EXCEPT ![at] = "run"]
  BY DEF AddRefused, AddInline, Queue!Refuse, Queue!RunInline, Queue!Become, Goto
<1>2. status' \in {[status EXCEPT ![Mine(at)] = "refused"],
                   [status EXCEPT ![Mine(at)] = "running"]}
  BY <1>1, CurrentIsMine
      DEF AddRefused, AddInline, Queue!Refuse, Queue!RunInline, Queue!Become
<1>3. /\ at \in Processors /\ call > 0 /\ at \in 1..cnt /\ Untouched(at)
      /\ Mine(at) \notin returning
  BY <1>1, CurrentIsMine
<1>4. Task_[at] = Mine(at)
  BY <1>1 DEF OwnerInv
<1>5. TypeInv'
  BY <1>1, <1>2 DEF TypeInv, Queue!ATypeOK, Queue!Statuses, Adding
<1>6. WorkInv'
  <2>1. ppc'[at] = "run"
    BY <1>1, <1>3 DEF TypeInv
  <2>2. \A p \in Processors :
            p # at => ppc'[p] = ppc[p] /\ status'[Mine(p)] = status[Mine(p)]
    BY <1>1, <1>2, <1>3, MineIsJob DEF TypeInv, Queue!ATypeOK
  <2>3. \A p \in Processors : Mine(p)' = Mine(p)
    BY <1>1 DEF Mine
  <2> QED
    BY <1>1, <1>3, <1>4, <2>1, <2>2, <2>3 DEF WorkInv, Untouched, Over
<1>7. OwnerInv'
  BY <1>1, <1>3
      DEF OwnerInv, TypeInv, Mine, Handed, Untouched, Adding, Waiting, Over, Processors
<1>8. QueueInv'
  BY <1>1, <1>2, <1>3, MineIsJob, JobIsPair DEF QueueInv, TypeInv, Queue!ATypeOK
<1>9. ReturnedInv'
  BY <1>1, ReturnedKept
<1> QED
  BY <1>5, <1>6, <1>7, <1>8, <1>9

\* Process throws and leaves the other processors to the queue.
LEMMA AddThrowsStep ==
    ASSUME IInv, AddThrows
    PROVE  IInv'
<1> USE DEF IInv
<1>1. /\ opc = "add" /\ opc' = "threw"
      /\ UNCHANGED <<phase, Own, Task_, ppc, at, cnt, call, counts, returning, processed>>
      /\ status' = [status EXCEPT ![Mine(at)] = "refused"]
  BY CurrentIsMine DEF AddThrows, Queue!Refuse, Queue!Become, Goto, procVars
<1>2. /\ at \in Processors /\ call > 0 /\ Untouched(at)
      /\ Mine(at) \notin returning
  BY <1>1, CurrentIsMine
<1>3. TypeInv'
  BY <1>1 DEF TypeInv, Queue!ATypeOK, Queue!Statuses, Over
<1>4. WorkInv'
  BY <1>1, <1>2, MineIsJob
      DEF WorkInv, TypeInv, Queue!ATypeOK, Mine, Untouched, Over
<1>5. OwnerInv'
  BY <1>1 DEF OwnerInv, Adding, Waiting, Over
<1>6. QueueInv'
  BY <1>1, <1>2, MineIsJob, JobIsPair DEF QueueInv, TypeInv, Queue!ATypeOK
<1>7. ReturnedInv'
  BY <1>1, ReturnedKept
<1> QED
  BY <1>3, <1>4, <1>5, <1>6, <1>7

\* Process throws and leaves this one to the queue, too.
LEMMA AddThrowsLateStep ==
    ASSUME IInv, AddThrowsLate
    PROVE  IInv'
<1> USE DEF IInv
<1>1. /\ opc = "add" /\ opc' = "threw"
      /\ UNCHANGED <<phase, Own, Task_, at, cnt, call, counts, returning, processed>>
      /\ ppc' = [ppc EXCEPT ![at] = "queued"]
      /\ status' = [status EXCEPT ![Mine(at)] = "pending"]
  BY CurrentIsMine DEF AddThrowsLate, Queue!Accept, Queue!Become, Goto
<1>2. /\ at \in Processors /\ call > 0 /\ Untouched(at)
      /\ Mine(at) \notin returning
  BY <1>1, CurrentIsMine
<1>3. Task_[at] = Mine(at)
  BY <1>1 DEF OwnerInv
<1>4. TypeInv'
  BY <1>1 DEF TypeInv, Queue!ATypeOK, Queue!Statuses, Over
<1>5. WorkInv'
  <2>1. ppc'[at] = "queued" /\ status'[Mine(at)] = "pending"
    BY <1>1, <1>2, MineIsJob DEF TypeInv, Queue!ATypeOK
  <2>2. \A p \in Processors :
            p # at => ppc'[p] = ppc[p] /\ status'[Mine(p)] = status[Mine(p)]
    BY <1>1, <1>2, MineIsJob DEF TypeInv, Queue!ATypeOK
  <2>3. \A p \in Processors : Mine(p)' = Mine(p)
    BY <1>1 DEF Mine
  <2> QED
    BY <1>1, <1>2, <1>3, <2>1, <2>2, <2>3 DEF WorkInv, Untouched, Over
<1>6. OwnerInv'
  BY <1>1 DEF OwnerInv, Adding, Waiting, Over
<1>7. QueueInv'
  BY <1>1, <1>2, MineIsJob, JobIsPair DEF QueueInv, TypeInv, Queue!ATypeOK
<1>8. ReturnedInv'
  BY <1>1, ReturnedKept
<1> QED
  BY <1>4, <1>5, <1>6, <1>7, <1>8

LEMMA SetDataStep ==
    ASSUME IInv, SetData
    PROVE  IInv'
<1> USE DEF IInv
<1>1. /\ opc = "set" /\ Task_' = [Task_ EXCEPT ![at] = Mine(at)]
      /\ UNCHANGED <<phase, status, Own, at, cnt, call, counts, returning, processed>>
      /\ \/ at = cnt /\ ppc' = [ppc EXCEPT ![at] = "run"] /\ opc' = "inline"
         \/ at # cnt /\ ppc' = ppc /\ opc' = "add"
  BY DEF SetData, Goto, Current, Mine, queueVars
<1>2. /\ at \in Processors /\ call > 0 /\ at \in 1..cnt
  BY <1>1 DEF OwnerInv, TypeInv, Adding, Processors
<1>3. Untouched(at)
  BY <1>1, <1>2 DEF OwnerInv, Processors
<1>4. Mine(at) \in Jobs /\ Mine(at) \notin returning
  BY <1>2, <1>3, MineIsJob DEF QueueInv, Untouched
<1>5. TypeInv'
  BY <1>1, <1>4 DEF TypeInv, Queue!ATypeOK, Adding
<1>6. WorkInv'
  BY <1>1, <1>2, <1>3 DEF WorkInv, TypeInv, Mine, Untouched, Over
<1>7. OwnerInv'
  BY <1>1, <1>2, <1>3
      DEF OwnerInv, TypeInv, Mine, Handed, Untouched, Adding, Waiting, Over, Processors
<1>8. QueueInv'
  BY <1>1, <1>2, <1>3, <1>4, MineIsJob, JobIsPair DEF QueueInv, TypeInv, Untouched
<1>9. ReturnedInv'
  BY <1>1, ReturnedKept
<1> QED
  BY <1>5, <1>6, <1>7, <1>8, <1>9

LEMMA InlineEndsStep ==
    ASSUME IInv, InlineEnds
    PROVE  IInv'
<1> USE DEF IInv
<1>1. /\ opc = "inline" /\ ppc[at] = "idle"
      /\ UNCHANGED <<phase, status, Own, Task_, ppc, cnt, call, counts, returning,
                     processed>>
      /\ \/ at = cnt /\ at' = 1 /\ opc' = "wait"
         \/ at # cnt /\ at' = at + 1 /\ opc' = "set"
  BY DEF InlineEnds, queueVars, procVars
<1>2. /\ call > 0 /\ at \in 1..cnt
  BY <1>1 DEF OwnerInv, Adding
<1>3. TypeInv'
  BY <1>1 DEF TypeInv, Queue!ATypeOK, Adding, Waiting
<1>4. WorkInv'
  BY <1>1 DEF WorkInv, TypeInv, Mine, Over
<1>5. OwnerInv'
  BY <1>1, <1>2
      DEF OwnerInv, TypeInv, Mine, Handed, Untouched, Adding, Waiting, Over, Processors
<1>6. QueueInv'
  BY <1>1 DEF QueueInv
<1>7. ReturnedInv'
  BY <1>1, ReturnedKept
<1> QED
  BY <1>3, <1>4, <1>5, <1>6, <1>7

\* The owner moves and nothing else changes.
LEMMA WaitMoves ==
    ASSUME IInv, opc \in Waiting, opc' \in Waiting,
           UNCHANGED <<phase, status, Own, Task_, ppc, cnt, call, counts, returning,
                       processed>>,
           at' = at \/ (at' = at + 1 /\ at # cnt /\ ppc[at] = "idle")
    PROVE  IInv'
<1> USE DEF IInv
<1>1. TypeInv'
  BY DEF TypeInv, Queue!ATypeOK
<1>2. WorkInv'
  BY DEF WorkInv, Mine, Over, Waiting
<1>3. OwnerInv'
  BY DEF OwnerInv, TypeInv, Mine, Handed, Untouched, Adding, Waiting, Over, Processors
<1>4. QueueInv'
  BY DEF QueueInv
<1>5. ReturnedInv'
  BY ReturnedKept
<1> QED
  BY <1>1, <1>2, <1>3, <1>4, <1>5

\* Wait finds the processor done and, under its mutex, out of Done; after the
\* last one the call returns.
LEMMA WaitStep ==
    ASSUME IInv, Wait
    PROVE  IInv'
<1> USE DEF IInv
<1>1. /\ opc \in Waiting /\ ppc[at] # "locked"
      /\ UNCHANGED <<phase, status, Own, Task_, ppc, cnt, call, returning, processed>>
  BY DEF Wait, MutexFree, Waited, Goto, queueVars, procVars, Waiting
<1>2. call > 0 /\ at \in 1..cnt /\ at \in Processors
  BY <1>1 DEF OwnerInv, TypeInv, Processors
<1>3. CASE Task_[at] # None
  BY <1>1, <1>3, WaitMoves DEF Wait, Goto, Waiting
<1>4. CASE Task_[at] = None
  <2>1. ppc[at] = "idle"
    BY <1>1, <1>2, <1>4, MineIsJob DEF WorkInv, TypeInv
  <2>2. CASE at # cnt
    BY <1>1, <1>4, <2>1, <2>2, WaitMoves DEF Wait, Waited, Waiting
  <2>3. CASE at = cnt
    <3>1. opc' = "out" /\ counts' = Append(counts, cnt) /\ at' = at
      BY <1>4, <2>3 DEF Wait, Waited, Return
    <3>2. Len(counts) + 1 = call /\ \A p \in Processors : ppc[p] = "idle"
      BY <1>1, <1>2, <2>1, <2>3 DEF OwnerInv, TypeInv, Processors
    <3>3. \A p \in 1..cnt : p \in Processors /\ processed[Mine(p)] = 1
      BY <1>1, <3>2 DEF OwnerInv, Handed, TypeInv, Processors
    <3>4. /\ ReturnedInv'
          /\ counts' \in Seq(0..MaxCount) /\ Len(counts') = Len(counts) + 1
      BY <1>1, <3>1, <3>2, <3>3, ReturnedAll DEF Mine, TypeInv
    <3>5. TypeInv'
      BY <1>1, <3>1, <3>4 DEF TypeInv, Queue!ATypeOK
    <3>6. WorkInv'
      BY <1>1, <3>1, <3>2 DEF WorkInv, Over, Waiting
    <3>7. OwnerInv'
      BY <1>1, <3>1, <3>2, <3>4 DEF OwnerInv, Adding, Waiting, Over, TypeInv
    <3>8. QueueInv'
      BY <1>1 DEF QueueInv
    <3> QED
      BY <3>4, <3>5, <3>6, <3>7, <3>8
  <2> QED
    BY <2>2, <2>3
<1> QED
  BY <1>3, <1>4

LEMMA SpuriousStep ==
    ASSUME IInv, SpuriousWakeup
    PROVE  IInv'
BY WaitMoves DEF SpuriousWakeup, Goto, queueVars, procVars, Waiting

LEMMA DirectStep ==
    ASSUME IInv, Direct
    PROVE  IInv'
<1> USE DEF IInv
<1>1. /\ opc = "direct" /\ opc' = "out" /\ counts' = Append(counts, cnt)
      /\ UNCHANGED <<phase, status, Own, Task_, ppc, at, cnt, call, returning>>
  BY DEF Direct, Return, queueVars, procVars
<1>2. /\ call > 0 /\ at = 1 /\ cnt = 1 /\ 1 \in Processors
      /\ Len(counts) + 1 = call /\ processed[Mine(1)] = 0
      /\ \A p \in Processors : ppc[p] = "idle"
  BY <1>1 DEF OwnerInv, TypeInv, Processors
<1>3. processed' = [processed EXCEPT ![Mine(1)] = 1]
  BY <1>2, MineIsJob DEF Direct, Run, Current, Mine, TypeInv
<1>4. processed' \in [Jobs -> {0, 1}] /\ processed'[Mine(1)] = 1
          /\ \A j \in Jobs : processed[j] = 1 => processed'[j] = 1
  BY <1>2, <1>3, MineIsJob DEF TypeInv
<1>5. \A p \in 1..cnt : processed'[<<Len(counts) + 1, p>>] = 1
  BY <1>2, <1>4 DEF Mine
<1>6. /\ ReturnedInv'
      /\ counts' \in Seq(0..MaxCount) /\ Len(counts') = Len(counts) + 1
  BY <1>1, <1>4, <1>5, ReturnedAll DEF TypeInv
<1>7. TypeInv'
  BY <1>1, <1>4, <1>6 DEF TypeInv, Queue!ATypeOK
<1>8. WorkInv'
  BY <1>1, <1>2 DEF WorkInv, Over
<1>9. OwnerInv'
  BY <1>1, <1>2, <1>6 DEF OwnerInv, Adding, Waiting, Over, TypeInv
<1>10. QueueInv'
  BY <1>1, <1>2, <1>3, <1>4, MineIsJob DEF QueueInv, TypeInv
<1> QED
  BY <1>6, <1>7, <1>8, <1>9, <1>10

\* A new call: its contexts have not been processed.
LEMMA ProcessStep ==
    ASSUME IInv, NEW c \in 0..MaxCount, Process(c)
    PROVE  IInv'
<1> USE DEF IInv
<1>1. /\ opc = "out" /\ call < Calls /\ call' = call + 1 /\ cnt' = c /\ at' = 1
      /\ UNCHANGED <<phase, status, Own, Task_, ppc, returning, processed>>
      /\ \/ c = 0 /\ opc' = "out" /\ counts' = Append(counts, c)
         \/ c = 1 /\ opc' = "direct" /\ counts' = counts
         \/ c > 1 /\ opc' = "set" /\ counts' = counts
  BY DEF Process, Return, queueVars, procVars
<1>2. Len(counts) = call /\ \A p \in Processors : ppc[p] = "idle" /\ Task_[p] = None
  BY <1>1 DEF OwnerInv, WorkInv, Over
<1>3. \A p \in Processors : processed[<<call + 1, p>>] = 0
  BY <1>1, PairIsJob DEF QueueInv, TypeInv
<1>4. /\ ReturnedInv'
      /\ counts' \in Seq(0..MaxCount)
      /\ Len(counts') = IF c = 0 THEN call + 1 ELSE call
  <2>1. CASE c = 0
    BY <1>1, <1>2, <2>1, ReturnedAll
  <2>2. CASE c # 0
    BY <1>1, <1>2, <2>2, ReturnedKept DEF TypeInv
  <2> QED
    BY <2>1, <2>2
<1>5. TypeInv'
  BY <1>1, <1>4 DEF TypeInv, Queue!ATypeOK, Adding
<1>6. WorkInv'
  BY <1>1, <1>2 DEF WorkInv
<1>7. OwnerInv'
  <2>1. \A p \in Processors : ppc'[p] = "idle" /\ processed'[Mine(p)'] = 0
    BY <1>1, <1>2, <1>3 DEF Mine
  <2>2. \A p \in Processors : Untouched(p)' /\ ~(p < 1)
    BY <1>1, <1>2, <1>3 DEF Mine, Untouched, Processors
  <2> QED
    BY <1>1, <1>4, <2>1, <2>2
        DEF OwnerInv, Adding, Waiting, Over, TypeInv, Processors, Mine
<1>8. QueueInv'
  <2>1. \A j \in Jobs : j[1] \in Nat /\ j[2] \in Processors
    BY JobIsPair
  <2>2. \A j \in Jobs :
            /\ j[1] > call' => status'[j] = "fresh" /\ processed'[j] = 0
            /\ status[j] # "pending"
    BY <1>1, <1>2, <2>1 DEF QueueInv, TypeInv
  <2>3. \A j \in returning : j[1] \in Nat /\ j[1] < call'
    BY <1>1, <2>1 DEF QueueInv, TypeInv
  <2> QED
    BY <1>1, <2>2, <2>3 DEF QueueInv, TypeInv
<1> QED
  BY <1>4, <1>5, <1>6, <1>7, <1>8

\* The destructor: the processors are freed at once, when the queue is not the
\* object's own, or after Stop.
LEMMA DestroyStep ==
    ASSUME IInv, Destroy \/ DestroyEnds
    PROVE  IInv'
<1> USE DEF IInv
<1>1. /\ opc \in {"out", "threw", "stopping"} /\ opc' \in {"stopping", "freed"}
      /\ phase' \in {"open", "closing", "closed"}
      /\ UNCHANGED <<status, Own, Task_, ppc, at, cnt, call, counts, returning, processed>>
  BY DEF Destroy, DestroyEnds, Queue!CallStop, Queue!ReturnFromStop, Goto, queueVars,
      procVars, TypeInv, Queue!ATypeOK
<1>2. opc' = "freed" /\ (Own \/ Len(counts) = call) =>
          \A p \in Processors : ppc[p] = "idle"
  <2>1. CASE DestroyEnds
    <3>1. \A j \in Jobs : status[j] \notin {"pending", "running"}
      BY <2>1 DEF DestroyEnds, Queue!ReturnFromStop
    <3>2. opc = "stopping"
      BY <2>1 DEF DestroyEnds
    <3> QED
      BY <3>1, <3>2, MineIsJob DEF WorkInv, TypeInv
  <2>2. CASE Destroy
    BY <1>1, <2>2 DEF Destroy, Goto, OwnerInv, TypeInv
  <2> QED
    BY <2>1, <2>2
<1>3. opc' = "stopping" => Own
  BY DEF Destroy, DestroyEnds, Goto
<1>4. TypeInv'
  BY <1>1 DEF TypeInv, Queue!ATypeOK, Over
<1>5. WorkInv'
  BY <1>1 DEF WorkInv, Mine, Over
<1>6. OwnerInv'
  BY <1>1, <1>2, <1>3 DEF OwnerInv, Adding, Waiting, Over
<1>7. QueueInv'
  BY <1>1 DEF QueueInv
<1>8. ReturnedInv'
  BY <1>1, ReturnedKept
<1> QED
  BY <1>4, <1>5, <1>6, <1>7, <1>8

-----------------------------------------------------------------------------
LEMMA InitIInv == Init => IInv
<1> SUFFICES ASSUME Init PROVE IInv
  OBVIOUS
<1>1. TypeInv
  BY DEF Init, TypeInv, Queue!AInit, Queue!ATypeOK, Queue!Statuses
<1>2. WorkInv /\ OwnerInv /\ ReturnedInv
  BY DEF Init, WorkInv, OwnerInv, ReturnedInv, Adding, Waiting, Over
<1>3. QueueInv
  BY DEF Init, QueueInv, Queue!AInit
<1> QED
  BY <1>1, <1>2, <1>3 DEF IInv

LEMMA NextIInv == IInv /\ [Next]_vars => IInv'
<1> SUFFICES ASSUME IInv, [Next]_vars PROVE IInv'
  OBVIOUS
<1>1. CASE \E c \in 0..MaxCount : Process(c)
  BY <1>1, ProcessStep
<1>2. CASE OwnerStep \/ SpuriousWakeup \/ Destroy
  BY <1>2, DirectStep, SetDataStep, AddAcceptedStep, AddRunsStep, AddThrowsStep,
      AddThrowsLateStep, InlineEndsStep, WaitStep, DestroyStep, SpuriousStep DEF OwnerStep
<1>3. CASE \E p \in Processors : ProcessorStep(p)
  BY <1>3, BeginStep, TaskEndsStep, DoneStep, DoneUnlockStep DEF ProcessorStep
<1>4. CASE \E j \in Jobs : Finish(j)
  BY <1>4, FinishStep
<1>5. CASE UNCHANGED vars
  BY <1>5 DEF vars, queueVars, procVars, ownerVars, IInv, TypeInv, Queue!ATypeOK,
      WorkInv, OwnerInv, QueueInv, ReturnedInv, Mine, Handed, Untouched
<1> QED
  BY <1>1, <1>2, <1>3, <1>4, <1>5 DEF Next

LEMMA Invariance == Spec => []IInv
BY InitIInv, NextIInv, PTL DEF Spec

\* Every context of a call of Process that returned was processed once, for any
\* number of contexts and calls, whichever jobs the queue took, refused or
\* processed inside Add.
THEOREM ReturnedIsProcessedAlways == Spec => []ReturnedIsProcessed
<1>1. IInv => ReturnedIsProcessed
  <2> SUFFICES ASSUME IInv PROVE ReturnedIsProcessed
    OBVIOUS
  <2>1. DOMAIN counts = 1..Len(counts)
    BY DEF IInv, TypeInv
  <2>2. \A r \in DOMAIN counts : \A p \in 1..counts[r] : processed[<<r, p>>] = 1
    BY <2>1 DEF IInv, ReturnedInv
  <2>3. \A j \in Jobs : processed[j] <= 1
    BY DEF IInv, TypeInv
  <2>4. \A p \in Processors : ppc[p] = "run" => Task_[p] \in Jobs
    BY MineIsJob DEF IInv, WorkInv
  <2> QED
    BY <2>2, <2>3, <2>4 DEF ReturnedIsProcessed
<1> QED
  BY <1>1, Invariance, PTL

\* SetData's assertion holds and no thread is inside a processor that is freed,
\* nor comes to it, unless a call threw on a queue that was passed in, for any
\* number of contexts and calls.
THEOREM ProcessorIsFreeAlways == Spec => []ProcessorIsFree
<1>1. IInv => ProcessorIsFree
  <2> SUFFICES ASSUME IInv PROVE ProcessorIsFree
    OBVIOUS
  <2>1. ASSUME opc = "set" PROVE Task_[at] = None /\ ppc[at] = "idle"
    <3>1. at \in Processors
      BY <2>1 DEF IInv, OwnerInv, TypeInv, Adding, Processors
    <3> QED
      BY <2>1, <3>1 DEF IInv, OwnerInv, Untouched, WorkInv, Over, Processors
  <2>2. opc = "freed" /\ (Own \/ Len(counts) = call) =>
            \A p \in Processors : ppc[p] = "idle"
    BY DEF IInv, OwnerInv
  <2> QED
    BY <2>1, <2>2 DEF ProcessorIsFree
<1> QED
  BY <1>1, Invariance, PTL
=============================================================================
