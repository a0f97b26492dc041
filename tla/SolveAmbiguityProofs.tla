------------------------- MODULE SolveAmbiguityProofs -------------------------
(***************************************************************************)
(* For every sentence length, every vector of occurrences and every        *)
(* weighting of groups: the occurrences SolveAmbiguity keeps are disjoint, *)
(* no disjoint selection covers more than they do, and every occurrence is *)
(* kept or reported as dropped.                                            *)
(***************************************************************************)
EXTENDS BestSelection, FiniteSetTheorems, TLAPS

(* The indices of a selection go up, stay within 1 .. n, and the occurrences
   they name are disjoint.  That they go up also bounds each one by its place
   in the selection. *)
Disjoint(picked, n) ==
  /\ \A a \in DOMAIN picked :
       picked[a] \in 1 .. n /\ a <= picked[a] /\ picked[a] + Len(picked) <= n + a
  /\ \A a, b \in DOMAIN picked : a < b =>
       /\ picked[a] < picked[b]
       /\ Occurrences[picked[a]].second <= Occurrences[picked[b]].first

\* The vector is in the order of its right borders.
RightOrdered ==
  \A a, b \in DOMAIN Occurrences : a < b => Occurrences[a].second <= Occurrences[b].second

\* Every selection is disjoint, covers something, and weighs nothing without items.
SolutionsInv ==
  /\ Len(solutions) <= Len(Occurrences)
  /\ solutions # <<>> => RightOrdered
  /\ \A k \in DOMAIN solutions :
       /\ Disjoint(solutions[k].picked, k)
       /\ solutions[k].coverage > 0
       /\ Plain => solutions[k].weight = 0

\* A longer prefix has no worse a selection.
MonotoneInv ==
  \A a, b \in DOMAIN solutions : a <= b => ~Worse(solutions[b], solutions[a])

\* What the inner loop has learnt of the occurrences it went past.
LoopInv ==
  pc \in {"look", "put"} =>
    /\ Len(solutions) < Len(Occurrences)
    /\ RightOrdered
    /\ \A k \in j + 1 .. Len(solutions) :
         ~Clear(k) /\ best # 0 /\ ~Worse(solutions[best], solutions[k])
    /\ best # 0 => best \in j + 1 .. Len(solutions)
    /\ pc = "put" /\ j # 0 => Clear(j)

\* What the answer and the scan are made from.
AnswerInv ==
  /\ pc \in {"sort", "look", "put"} => res = <<>>
  /\ pc = "sort" => solutions = <<>>
  /\ pc = "select" =>
       /\ Disjoint(res, Len(Occurrences))
       /\ solutions # <<>> =>
            Len(solutions) = Len(Occurrences) /\ res = solutions[Len(solutions)].picked
       /\ solutions = <<>> => Len(res) = Len(Occurrences)
       /\ j = 0
  /\ pc = "scan" =>
       /\ Len(solutions) = Len(Occurrences)
       /\ next < Len(res)
       /\ res[Len(res)] = Len(Occurrences) + 1
  /\ pc \in {"sort", "look", "put", "select"} => next = 0
  /\ pc \in {"scan", "kept", "split"} =>
       \A a, b \in DOMAIN kept : a < b => kept[a].second <= kept[b].first

IInv == TypeOK /\ SolutionsInv /\ MonotoneInv /\ LoopInv /\ AnswerInv

\* The rival does no better than the selection at its last occurrence.
RivalInv ==
  /\ last \in 0 .. Len(solutions)
  /\ covered \in Nat
  /\ groups \in Nat
  /\ last = 0 => covered = 0 /\ groups = 0
  /\ last # 0 =>
       /\ covered <= solutions[last].coverage
       /\ Plain /\ covered = solutions[last].coverage =>
            Len(solutions[last].picked) <= groups

----------------------------------------------------------------------------

(* An occurrence counts for at least one word (AddOccurrence: an item without
   coverage counts for the length of its occurrence). *)
LEMMA CoveragePositive ==
  ASSUME NEW o \in Occurrence
  PROVE  CoverageOf(o) \in Nat /\ CoverageOf(o) > 0
<1>1. CASE o.item # NoItem /\ GetCoverage(o.item) # 0
  <2>1. o.item \in Items
    BY <1>1 DEF Occurrence
  <2>2. GetCoverage(o.item) \in Nat
    BY <2>1, GroupsAssumption
  <2> QED  BY <1>1, <2>2 DEF CoverageOf
<1>2. CASE ~(o.item # NoItem /\ GetCoverage(o.item) # 0)
  <2>1. o.first \in Nat /\ o.second \in Nat /\ o.first < o.second
    BY InputsAssumption DEF Occurrence
  <2>2. CoverageOf(o) = o.second - o.first
    BY <1>2 DEF CoverageOf
  <2> QED  BY <2>1, <2>2
<1> QED  BY <1>1, <1>2

(* AddOccurrence makes a selection of a selection: one index more, and as much
   more coverage as the occurrence counts for. *)
LEMMA AddOccurrenceType ==
  ASSUME NEW s \in Solution, NEW o \in Occurrence, NEW index \in Nat
  PROVE  /\ AddOccurrence(s, o, index) \in Solution
         /\ AddOccurrence(s, o, index).picked = Append(s.picked, index)
         /\ AddOccurrence(s, o, index).coverage = s.coverage + CoverageOf(o)
         /\ o.item = NoItem => AddOccurrence(s, o, index).weight = s.weight
<1> DEFINE group == IF o.item = NoItem THEN s.group ELSE AddWeightOfChild(s.group, o)
<1>1. s.group \in Groups /\ s.weight \in Nat /\ s.coverage \in Nat /\ s.picked \in Seq(Nat)
  BY DEF Solution
<1>2. group \in Groups
  BY <1>1, GroupsAssumption
<1>3. GetWeight(group) \in Nat
  BY <1>2, GroupsAssumption
<1>4. s.coverage + CoverageOf(o) \in Nat
  BY <1>1, CoveragePositive
<1>5. Append(s.picked, index) \in Seq(Nat)
  BY <1>1
<1> HIDE DEF group
<1>6. AddOccurrence(s, o, index) =
        [picked |-> Append(s.picked, index), group |-> group,
         coverage |-> s.coverage + CoverageOf(o),
         weight |-> IF o.item = NoItem THEN s.weight ELSE GetWeight(group)]
  BY DEF AddOccurrence, group
<1> QED  BY <1>1, <1>2, <1>3, <1>4, <1>5, <1>6 DEF Solution

LEMMA NewSolutionType ==
  ASSUME NEW o \in Occurrence
  PROVE  NewSolution(o) \in Solution
<1>1. NewGroup(o) \in Groups
  BY GroupsAssumption
<1>2. << >> \in Seq(Nat)
  OBVIOUS
<1> QED  BY <1>1, <1>2 DEF NewSolution, Solution

LEMMA SolutionFields ==
  ASSUME NEW s \in Solution
  PROVE  /\ s.coverage \in Nat
         /\ s.weight \in Nat
         /\ s.picked \in Seq(Nat)
         /\ Len(s.picked) \in Nat
BY DEF Solution

(* CPeriodSolutionWeight::operator < orders the selections: "not worse" is
   transitive. *)
LEMMA NotWorseTransitive ==
  ASSUME NEW s \in Solution, NEW t \in Solution, NEW u \in Solution,
         ~Worse(s, t), ~Worse(t, u)
  PROVE  ~Worse(s, u)
BY SolutionFields DEF Worse

(* Of two selections one is not worse. *)
LEMMA WorseOneWay ==
  ASSUME NEW s \in Solution, NEW t \in Solution
  PROVE  ~Worse(s, s) /\ (Worse(s, t) => ~Worse(t, s))
BY SolutionFields DEF Worse

(* A selection from a prefix is one from every longer prefix. *)
LEMMA DisjointLonger ==
  ASSUME NEW picked \in Seq(Nat), NEW k \in Nat, NEW n \in Nat, k <= n, Disjoint(picked, k)
  PROVE  Disjoint(picked, n)
<1> SUFFICES ASSUME NEW a \in DOMAIN picked
             PROVE  picked[a] \in 1 .. n /\ a <= picked[a] /\ picked[a] + Len(picked) <= n + a
  BY DEF Disjoint
<1>1. picked[a] \in 1 .. k /\ a <= picked[a] /\ picked[a] + Len(picked) <= k + a
  BY DEF Disjoint
<1>2. a \in Nat /\ Len(picked) \in Nat
  OBVIOUS
<1> QED  BY <1>1, <1>2

(* A disjoint selection stays disjoint when an occurrence joins it that all of
   its members end before. *)
LEMMA AppendDisjoint ==
  ASSUME NEW picked \in Seq(Nat), NEW k \in Nat, NEW n \in Nat, k < n,
         Disjoint(picked, k),
         \A a \in DOMAIN picked : Occurrences[picked[a]].second <= Occurrences[n].first
  PROVE  Disjoint(Append(picked, n), n)
<1> DEFINE q == Append(picked, n)
<1>1. /\ DOMAIN q = 1 .. Len(picked) + 1
      /\ DOMAIN picked = 1 .. Len(picked)
      /\ Len(picked) \in Nat
      /\ \A a \in DOMAIN picked : q[a] = picked[a]
      /\ q[Len(picked) + 1] = n
  OBVIOUS
<1> HIDE DEF q
<1>2. \A a \in DOMAIN picked :
        picked[a] \in 1 .. k /\ a <= picked[a] /\ picked[a] + Len(picked) <= k + a
  BY DEF Disjoint
<1>3. ASSUME NEW a \in DOMAIN q
      PROVE  q[a] \in 1 .. n /\ a <= q[a] /\ q[a] + Len(q) <= n + a
  <2>1. Len(q) = Len(picked) + 1
    BY DEF q
  <2>2. CASE a \in DOMAIN picked
    <3>1. q[a] \in 1 .. k /\ a <= q[a] /\ q[a] + Len(picked) <= k + a
      BY <1>1, <1>2, <2>2
    <3>2. a \in Nat /\ Len(picked) \in Nat
      BY <1>1, <2>2
    <3> QED  BY <2>1, <3>1, <3>2
  <2>3. CASE a = Len(picked) + 1
    <3>1. Len(picked) < n
      <4>1. CASE Len(picked) = 0
        BY <4>1
      <4>2. CASE Len(picked) # 0
        <5>1. Len(picked) \in DOMAIN picked
          BY <1>1, <4>2
        <5>2. picked[Len(picked)] \in 1 .. k /\ Len(picked) <= picked[Len(picked)]
          BY <1>2, <5>1
        <5> QED  BY <1>1, <5>2
      <4> QED  BY <4>1, <4>2
    <3> QED  BY <1>1, <2>1, <2>3, <3>1
  <2> QED  BY <1>1, <2>2, <2>3
<1>4. ASSUME NEW a \in DOMAIN q, NEW b \in DOMAIN q, a < b
      PROVE  q[a] < q[b] /\ Occurrences[q[a]].second <= Occurrences[q[b]].first
  <2>1. a \in DOMAIN picked
    BY <1>1, <1>4
  <2>2. CASE b \in DOMAIN picked
    BY <1>1, <1>4, <2>1, <2>2 DEF Disjoint
  <2>3. CASE b = Len(picked) + 1
    BY <1>1, <1>2, <2>1, <2>3
  <2> QED  BY <1>1, <2>2, <2>3
<1> QED  BY <1>3, <1>4 DEF Disjoint, q

----------------------------------------------------------------------------

LEMMA InitIInv == Init => IInv
<1> SUFFICES ASSUME Init PROVE IInv
  OBVIOUS
<1> USE DEF Init
<1>1. Occurrences \in Seq(Occurrence)
  BY InputsAssumption
<1>2. TypeOK
  BY <1>1 DEF TypeOK
<1>3. SolutionsInv /\ MonotoneInv
  BY <1>1 DEF SolutionsInv, MonotoneInv
<1>4. LoopInv /\ AnswerInv
  BY DEF LoopInv, AnswerInv
<1> QED  BY <1>2, <1>3, <1>4 DEF IInv

(* What SolutionsInv and MonotoneInv say does not depend on the loops. *)
LEMMA SolutionsKept ==
  ASSUME SolutionsInv, MonotoneInv, UNCHANGED <<Occurrences, solutions>>
  PROVE  SolutionsInv' /\ MonotoneInv'
BY DEF SolutionsInv, MonotoneInv, Disjoint, RightOrdered, Plain, Worse

LEMMA TrivialStep ==
  ASSUME IInv, Trivial
  PROVE  IInv'
<1> USE DEF IInv, Trivial
<1>1. Len(Occurrences) \in Nat
  BY DEF TypeOK
<1>2. res' \in Seq(1 .. Len(Occurrences) + 1) /\ Len(res') = Len(Occurrences)
  BY <1>1
<1>3. TypeOK'
  BY <1>1, <1>2 DEF TypeOK, AnswerInv
<1>4. Disjoint(res', Len(Occurrences))
  BY <1>1 DEF Disjoint
<1>5. AnswerInv'
  BY <1>2, <1>4 DEF AnswerInv, Disjoint, TypeOK
<1>6. LoopInv'
  BY DEF LoopInv
<1> QED  BY <1>3, <1>5, <1>6, SolutionsKept

LEMMA SortStep ==
  ASSUME IInv, Sort
  PROVE  IInv'
<1> USE DEF IInv
<1> DEFINE n == Len(Occurrences)
<1>1. n \in Nat /\ DOMAIN Occurrences = 1 .. n /\ n >= 2
  BY DEF TypeOK, Sort
<1>2. PICK p \in Bijection(DOMAIN Occurrences, DOMAIN Occurrences) :
        /\ Occurrences' = [k \in 1 .. n |-> Occurrences[p[k]]]
        /\ Sorted(Occurrences')
  BY DEF Sort
<1>3. p \in [1 .. n -> 1 .. n]
  BY <1>1, <1>2 DEF Bijection, Injection, Surjection
<1>4. Occurrences' \in Seq(Occurrence) /\ Len(Occurrences') = n /\ DOMAIN Occurrences' = 1 .. n
  <2> DEFINE sorted == [k \in 1 .. n |-> Occurrences[p[k]]]
  <2>1. \A k \in 1 .. n : Occurrences[p[k]] \in Occurrence
    <3>1. \A k \in 1 .. n : Occurrences[k] \in Occurrence
      BY <1>1 DEF TypeOK
    <3>2. \A k \in 1 .. n : p[k] \in 1 .. n
      BY <1>3
    <3> QED  BY <3>1, <3>2
  <2>2. sorted \in [1 .. n -> Occurrence]
    BY <2>1
  <2>3. sorted \in Seq(Occurrence) /\ Len(sorted) = n /\ DOMAIN sorted = 1 .. n
    <3> HIDE DEF sorted
    <3> QED  BY <1>1, <2>2
  <2> QED  BY <1>2, <2>3
<1>5. RightOrdered'
  <2> SUFFICES ASSUME NEW a \in 1 .. n, NEW b \in 1 .. n, a < b
               PROVE  Occurrences'[a].second <= Occurrences'[b].second
    BY <1>4 DEF RightOrdered
  <2>1. Occurrences'[a] \in Occurrence /\ Occurrences'[b] \in Occurrence
    BY <1>4
  <2>2. ~RightBorderFirst(Occurrences'[b], Occurrences'[a])
    BY <1>2, <1>4 DEF Sorted
  <2>3. \A o \in Occurrence : o.second \in Nat
    BY InputsAssumption DEF Occurrence
  <2> QED  BY <2>1, <2>2, <2>3 DEF RightBorderFirst
<1>6. solutions = <<>> /\ solutions' = <<>> /\ pc' = "look" /\ j' = j /\ best' = best /\ j = 0 /\ best = 0
  BY DEF Sort, AnswerInv, TypeOK
<1>7. UNCHANGED <<res, next, kept, dropped>> /\ res = <<>> /\ next = 0
  BY DEF Sort, AnswerInv
<1>8. TypeOK'
  BY <1>4, <1>6, <1>7 DEF TypeOK
<1>9. SolutionsInv' /\ MonotoneInv'
  BY <1>1, <1>4, <1>6 DEF SolutionsInv, MonotoneInv
<1>10. LoopInv'
  BY <1>1, <1>4, <1>5, <1>6 DEF LoopInv
<1>11. AnswerInv'
  BY <1>6, <1>7 DEF AnswerInv
<1> QED  BY <1>8, <1>9, <1>10, <1>11

LEMMA OverlappingStep ==
  ASSUME IInv, Overlapping
  PROVE  IInv'
<1> USE DEF IInv, Overlapping
<1>1. /\ Len(solutions) \in Nat
      /\ DOMAIN solutions = 1 .. Len(solutions)
      /\ \A k \in 1 .. Len(solutions) : solutions[k] \in Solution
      /\ j \in 1 .. Len(solutions)
      /\ best \in 0 .. Len(solutions)
  BY DEF TypeOK
<1>2. j' \in 0 .. Len(solutions) /\ best' \in 0 .. Len(solutions)
  BY <1>1
<1>3. TypeOK'
  BY <1>2 DEF TypeOK
<1>4. LoopInv'
  <2>1. pc' = "look" /\ j' = j - 1
    OBVIOUS
  <2>2. best' # 0 /\ best' \in j .. Len(solutions)
    BY <1>1 DEF LoopInv
  <2>3. ASSUME NEW k \in j .. Len(solutions)
        PROVE  ~Clear(k) /\ ~Worse(solutions[best'], solutions[k])
    <3>1. CASE k = j
      BY <1>1, <3>1, WorseOneWay
    <3>2. CASE k \in j + 1 .. Len(solutions)
      <4>1. ~Clear(k) /\ best # 0 /\ ~Worse(solutions[best], solutions[k])
        BY <3>2 DEF LoopInv
      <4>2. CASE best' = best
        BY <4>1, <4>2
      <4>3. CASE best' = j /\ Worse(solutions[best], solutions[j])
        <5>1. ~Worse(solutions[j], solutions[best])
          BY <1>1, <4>1, <4>3, WorseOneWay
        <5> QED  BY <1>1, <3>2, <4>1, <4>3, <5>1, NotWorseTransitive
      <4> QED  BY <4>1, <4>2, <4>3
    <3> QED  BY <1>1, <3>1, <3>2
  <2>4. /\ Len(solutions) < Len(Occurrences)
        /\ RightOrdered
    BY DEF LoopInv
  <2>5. (j - 1) + 1 = j
    BY <1>1
  <2> QED  BY <2>1, <2>2, <2>3, <2>4, <2>5 DEF LoopInv, RightOrdered, Clear, i, Worse
<1>5. AnswerInv'
  BY DEF AnswerInv
<1> QED  BY <1>3, <1>4, <1>5, SolutionsKept

LEMMA StopLookingStep ==
  ASSUME IInv, StopLooking
  PROVE  IInv'
<1> USE DEF IInv, StopLooking
<1>1. TypeOK'
  BY DEF TypeOK
<1>2. LoopInv'
  BY DEF LoopInv, RightOrdered, Clear, i, Worse
<1>3. AnswerInv'
  BY DEF AnswerInv
<1> QED  BY <1>1, <1>2, <1>3, SolutionsKept

(* The facts about a turn of the outer loop that both the invariant and the
   rival's defeat rest on: the new selection is disjoint, no worse than the one
   that takes the current occurrence, and no worse than any before it. *)
LEMMA PutFacts ==
  ASSUME IInv, Put
  PROVE  /\ i \in 1 .. Len(Occurrences)
         /\ WithCurrent \in Solution
         /\ solutions' \in Seq(Solution)
         /\ Len(solutions') = i
         /\ \A k \in 1 .. Len(solutions) : solutions'[k] = solutions[k]
         /\ Disjoint(solutions'[i].picked, i)
         /\ ~Worse(solutions'[i], WithCurrent)
         /\ \A k \in 1 .. Len(solutions) : ~Worse(solutions'[i], solutions[k])
         /\ solutions'[i] = WithCurrent \/ \E k \in 1 .. Len(solutions) : solutions'[i] = solutions[k]
         /\ WithCurrent.coverage = CoverageOf(Occurrences[i])
                                     + IF j = 0 THEN 0 ELSE solutions[j].coverage
         /\ Len(WithCurrent.picked) = 1 + IF j = 0 THEN 0 ELSE Len(solutions[j].picked)
         /\ Plain => WithCurrent.weight = 0
<1> USE DEF IInv
<1> DEFINE n == Len(solutions)
           base == IF j = 0 THEN NewSolution(Occurrences[i]) ELSE solutions[j]
           new == IF best # 0 /\ Worse(WithCurrent, solutions[best])
                  THEN solutions[best] ELSE WithCurrent
<1>1. /\ n \in Nat
      /\ i = n + 1
      /\ DOMAIN solutions = 1 .. n
      /\ \A k \in 1 .. n : solutions[k] \in Solution
      /\ Len(Occurrences) \in Nat
      /\ DOMAIN Occurrences = 1 .. Len(Occurrences)
      /\ \A k \in 1 .. Len(Occurrences) : Occurrences[k] \in Occurrence
      /\ j \in 0 .. n
      /\ best \in 0 .. n
  BY DEF TypeOK, i
<1>2. /\ n < Len(Occurrences)
      /\ RightOrdered
      /\ \A k \in j + 1 .. n :
           ~Clear(k) /\ best # 0 /\ ~Worse(solutions[best], solutions[k])
      /\ best # 0 => best \in j + 1 .. n
      /\ j # 0 => Clear(j)
  BY DEF LoopInv, Put
<1>3. i \in 1 .. Len(Occurrences) /\ i \in Nat /\ Occurrences[i] \in Occurrence
  BY <1>1, <1>2
<1>4. base \in Solution
  BY <1>1, <1>3, NewSolutionType
<1>5. WithCurrent = AddOccurrence(base, Occurrences[i], i)
  BY DEF WithCurrent
<1> HIDE DEF base
<1>6. /\ WithCurrent \in Solution
      /\ WithCurrent.picked = Append(base.picked, i)
      /\ WithCurrent.coverage = base.coverage + CoverageOf(Occurrences[i])
      /\ Occurrences[i].item = NoItem => WithCurrent.weight = base.weight
  BY <1>3, <1>4, <1>5, AddOccurrenceType
<1>7. base.picked \in Seq(Nat) /\ base.coverage \in Nat /\ Len(base.picked) \in Nat
  BY <1>4 DEF Solution
<1>8. CoverageOf(Occurrences[i]) \in Nat /\ CoverageOf(Occurrences[i]) > 0
  BY <1>3, CoveragePositive
<1>9. /\ WithCurrent.coverage = CoverageOf(Occurrences[i])
                                  + IF j = 0 THEN 0 ELSE solutions[j].coverage
      /\ Len(WithCurrent.picked) = 1 + IF j = 0 THEN 0 ELSE Len(solutions[j].picked)
  BY <1>6, <1>7, <1>8 DEF base, NewSolution
<1>10. Plain => WithCurrent.weight = 0
  <2>1. CASE j = 0
    BY <1>1, <1>3, <1>6, <2>1 DEF Plain, base, NewSolution
  <2>2. CASE j # 0
    BY <1>1, <1>3, <1>6, <2>2 DEF Plain, base, SolutionsInv
  <2> QED  BY <2>1, <2>2
<1>11. Disjoint(WithCurrent.picked, i)
  <2>1. Disjoint(base.picked, n)
    <3>1. CASE j = 0
      BY <3>1 DEF base, NewSolution, Disjoint
    <3>2. CASE j # 0
      <4>1. j \in 1 .. n /\ base = solutions[j]
        BY <1>1, <3>2 DEF base
      <4>2. Disjoint(base.picked, j) /\ j \in Nat /\ j <= n
        BY <1>1, <4>1 DEF SolutionsInv
      <4> QED  BY <1>1, <1>7, <4>2, DisjointLonger
    <3> QED  BY <3>1, <3>2
  <2>2. ASSUME NEW a \in DOMAIN base.picked
        PROVE  Occurrences[base.picked[a]].second <= Occurrences[i].first
    <3>1. CASE j = 0
      BY <2>2, <3>1 DEF base, NewSolution
    <3>2. CASE j # 0
      <4> DEFINE m == base.picked[a]
      <4>1. m \in 1 .. j
        BY <1>1, <2>2, <3>2 DEF base, SolutionsInv, Disjoint
      <4>2. m \in 1 .. Len(Occurrences) /\ j \in 1 .. Len(Occurrences)
        BY <1>1, <1>2, <3>2, <4>1
      <4>3. \A k \in 1 .. Len(Occurrences) :
               Occurrences[k].first \in Nat /\ Occurrences[k].second \in Nat
        BY <1>1, InputsAssumption DEF Occurrence
      <4>4. Occurrences[m].second <= Occurrences[j].second
        <5>1. CASE m = j
          BY <4>2, <4>3, <5>1
        <5>2. CASE m # j
          <6>1. m < j
            BY <4>1, <4>2, <5>2
          <6> QED  BY <1>1, <1>2, <4>2, <6>1 DEF RightOrdered
        <5> QED  BY <5>1, <5>2
      <4>5. Occurrences[j].second <= Occurrences[i].first
        BY <1>2, <3>2 DEF Clear
      <4> HIDE DEF m
      <4>6. Occurrences[m].second <= Occurrences[i].first
        BY <1>3, <4>2, <4>3, <4>4, <4>5
      <4> QED  BY <4>6 DEF m
    <3> QED  BY <3>1, <3>2
  <2>3. n < i
    BY <1>1
  <2>4. Disjoint(Append(base.picked, i), i)
    BY <1>1, <1>3, <1>7, <2>1, <2>2, <2>3, AppendDisjoint
  <2> QED  BY <1>6, <2>4
<1>12. solutions' = Append(solutions, new)
  BY DEF Put
<1>13. new \in Solution
  BY <1>1, <1>6
<1>14. /\ solutions' \in Seq(Solution)
       /\ Len(solutions') = i
       /\ \A k \in 1 .. n : solutions'[k] = solutions[k]
       /\ solutions'[i] = new
  <2> HIDE DEF new
  <2>1. solutions \in Seq(Solution)
    BY DEF TypeOK
  <2> QED  BY <1>1, <1>12, <1>13, <2>1
<1>15. new = WithCurrent \/ \E k \in 1 .. n : new = solutions[k]
  BY <1>1
<1>16. Disjoint(new.picked, i)
  <2>1. CASE new = WithCurrent
    BY <1>11, <2>1
  <2>2. ASSUME NEW k \in 1 .. n, new = solutions[k]
        PROVE  Disjoint(new.picked, i)
    <3>1. Disjoint(solutions[k].picked, k) /\ k \in Nat /\ k <= i
      BY <1>1, <2>2 DEF SolutionsInv
    <3>2. solutions[k].picked \in Seq(Nat)
      BY <1>1, <2>2, SolutionFields
    <3> QED  BY <1>3, <2>2, <3>1, <3>2, DisjointLonger
  <2> QED  BY <1>15, <2>1, <2>2
<1>17. ~Worse(new, WithCurrent)
  BY <1>1, <1>6, WorseOneWay
<1>18. ASSUME NEW k \in 1 .. n
       PROVE  ~Worse(new, solutions[k])
  <2>1. ~Worse(new, solutions[n])
    <3>1. CASE j = n
      <4>1. solutions[n].coverage < WithCurrent.coverage
        <5>1. n \in 1 .. n /\ j # 0
          BY <1>1, <1>18, <3>1
        <5>2. solutions[n].coverage \in Nat
          BY <1>1, <5>1, SolutionFields
        <5> QED  BY <1>8, <1>9, <3>1, <5>1, <5>2
      <4>2. best = 0
        BY <1>1, <1>2, <3>1
      <4>3. solutions[n].coverage \in Nat /\ WithCurrent.coverage \in Nat
        BY <1>1, <1>6, <1>18, SolutionFields
      <4> QED  BY <4>1, <4>2, <4>3 DEF Worse
    <3>2. CASE j # n
      <4>1. best \in 1 .. n /\ ~Worse(solutions[best], solutions[n])
        <5>1. n \in j + 1 .. n
          <6>1. n \in Nat /\ j \in 0 .. n
            BY <1>1
          <6>2. j + 1 <= n
            BY <3>2, <6>1
          <6> QED  BY <6>1, <6>2
        <5> QED  BY <1>1, <1>2, <5>1
      <4>2. ~Worse(new, solutions[best])
        BY <1>1, <1>6, <4>1, WorseOneWay
      <4> HIDE DEF new
      <4> QED  BY <1>1, <1>13, <1>18, <4>1, <4>2, NotWorseTransitive
    <3> QED  BY <3>1, <3>2
  <2>2. ~Worse(solutions[n], solutions[k])
    BY <1>1, <1>18 DEF MonotoneInv
  <2> HIDE DEF new
  <2> QED  BY <1>1, <1>13, <1>18, <2>1, <2>2, NotWorseTransitive
<1> HIDE DEF new
<1> QED  BY <1>3, <1>6, <1>9, <1>10, <1>14, <1>15, <1>16, <1>17, <1>18

LEMMA PutStep ==
  ASSUME IInv, Put
  PROVE  IInv'
<1> USE DEF IInv
<1> DEFINE n == Len(solutions)
<1>1. /\ n \in Nat
      /\ i = n + 1
      /\ DOMAIN solutions = 1 .. n
      /\ \A k \in 1 .. n : solutions[k] \in Solution
      /\ Len(Occurrences) \in Nat
      /\ DOMAIN Occurrences = 1 .. Len(Occurrences)
  BY DEF TypeOK, i
<1>2. /\ i \in 1 .. Len(Occurrences)
      /\ WithCurrent \in Solution
      /\ solutions' \in Seq(Solution)
      /\ Len(solutions') = i
      /\ \A k \in 1 .. n : solutions'[k] = solutions[k]
      /\ Disjoint(solutions'[i].picked, i)
      /\ \A k \in 1 .. n : ~Worse(solutions'[i], solutions[k])
      /\ solutions'[i] = WithCurrent \/ \E k \in 1 .. n : solutions'[i] = solutions[k]
      /\ Plain => WithCurrent.weight = 0
  BY PutFacts
<1>3. /\ UNCHANGED <<Occurrences, next, kept, dropped>>
      /\ best' = 0
      /\ pc = "put"
      /\ \/ i < Len(Occurrences) /\ pc' = "look" /\ j' = i /\ res' = res
         \/ ~(i < Len(Occurrences)) /\ pc' = "select" /\ j' = 0 /\ res' = solutions'[i].picked
  BY DEF Put
<1>4. DOMAIN solutions' = 1 .. i /\ solutions' # <<>> /\ i \in Nat
  BY <1>1, <1>2
<1>5. solutions'[i] \in Solution
  BY <1>2, <1>4
<1>6. RightOrdered
  BY <1>3 DEF LoopInv
<1>7. SolutionsInv'
  <2>1. ASSUME NEW k \in 1 .. i
        PROVE  /\ Disjoint(solutions'[k].picked, k)
               /\ solutions'[k].coverage > 0
               /\ Plain => solutions'[k].weight = 0
    <3>1. \A m \in 1 .. n : /\ Disjoint(solutions[m].picked, m)
                            /\ solutions[m].coverage > 0
                            /\ Plain => solutions[m].weight = 0
      BY <1>1 DEF SolutionsInv
    <3>2. CASE k \in 1 .. n
      BY <1>2, <3>1, <3>2
    <3>3. CASE k = i
      <4>1. CASE solutions'[i] = WithCurrent
        <5>1. WithCurrent.coverage > 0
          <6>1. CASE j = 0
            BY <1>2, <6>1, PutFacts, CoveragePositive DEF TypeOK
          <6>2. CASE j # 0
            <7>1. j \in 1 .. n
              BY <1>1, <6>2 DEF TypeOK
            <7>2. solutions[j].coverage \in Nat
              BY <1>1, <7>1, SolutionFields
            <7>3. Occurrences[i] \in Occurrence
              BY <1>2 DEF TypeOK
            <7>4. CoverageOf(Occurrences[i]) \in Nat /\ CoverageOf(Occurrences[i]) > 0
              BY <7>3, CoveragePositive
            <7>5. WithCurrent.coverage = CoverageOf(Occurrences[i]) + solutions[j].coverage
              BY <6>2, PutFacts
            <7> QED  BY <7>2, <7>4, <7>5
          <6> QED  BY <6>1, <6>2
        <5> QED  BY <1>2, <3>3, <4>1, <5>1
      <4>2. ASSUME NEW m \in 1 .. n, solutions'[i] = solutions[m]
            PROVE  /\ solutions'[i].coverage > 0
                   /\ Plain => solutions'[i].weight = 0
        BY <3>1, <4>2
      <4> QED  BY <1>2, <3>3, <4>1, <4>2
    <3> QED  BY <1>1, <3>2, <3>3
  <2>2. Plain' = Plain /\ RightOrdered' /\ Len(solutions') <= Len(Occurrences')
    BY <1>1, <1>2, <1>3, <1>6 DEF Plain, RightOrdered
  <2>3. \A k \in 1 .. i : Disjoint(solutions[k].picked, k)'
    BY <1>3, <2>1 DEF Disjoint
  <2> QED  BY <1>4, <2>1, <2>2, <2>3 DEF SolutionsInv
<1>8. MonotoneInv'
  <2> SUFFICES ASSUME NEW a \in 1 .. i, NEW b \in 1 .. i, a <= b
               PROVE  ~Worse(solutions'[b], solutions'[a])
    BY <1>4 DEF MonotoneInv, Worse
  <2>1. CASE b \in 1 .. n
    <3>1. a \in 1 .. n
      BY <1>1, <2>1
    <3>2. ~Worse(solutions[b], solutions[a])
      BY <1>1, <2>1, <3>1 DEF MonotoneInv
    <3> QED  BY <1>2, <2>1, <3>1, <3>2
  <2>2. CASE b = i /\ a \in 1 .. n
    BY <1>2, <2>2
  <2>3. CASE b = i /\ a = i
    BY <1>5, <2>3, WorseOneWay
  <2> QED  BY <1>1, <2>1, <2>2, <2>3
<1>9. CASE i < Len(Occurrences)
  <2>1. pc' = "look" /\ j' = i /\ res' = res
    BY <1>3, <1>9
  <2>2. TypeOK'
    BY <1>1, <1>2, <1>3, <2>1 DEF TypeOK
  <2>3. RightOrdered'
    BY <1>3, <1>6 DEF RightOrdered
  <2>4. LoopInv'
    <3>1. i + 1 .. i = {}
      BY <1>4
    <3> QED  BY <1>2, <1>3, <1>9, <2>1, <2>3, <3>1 DEF LoopInv
  <2>5. AnswerInv'
    BY <1>3, <2>1 DEF AnswerInv
  <2> QED  BY <1>7, <1>8, <2>2, <2>4, <2>5
<1>10. CASE ~(i < Len(Occurrences))
  <2>1. pc' = "select" /\ j' = 0 /\ res' = solutions'[i].picked /\ i = Len(Occurrences)
    <3>1. i = Len(Occurrences)
      <4>1. i \in 1 .. Len(Occurrences) /\ Len(Occurrences) \in Nat
        BY <1>1, <1>2
      <4> QED  BY <1>10, <4>1
    <3> QED  BY <1>3, <1>10, <3>1
  <2>2. res' \in Seq(Nat) /\ Disjoint(res', i)
    BY <1>2, <1>5, <2>1, SolutionFields
  <2>3. res' \in Seq(1 .. Len(Occurrences) + 1)
    <3>1. \A a \in DOMAIN res' : res'[a] \in 1 .. Len(Occurrences) + 1
      BY <1>1, <2>1, <2>2 DEF Disjoint
    <3> QED  BY <2>2, <3>1
  <2>4. next' = 0 /\ Len(res') \in Nat
    BY <1>3, <2>2 DEF AnswerInv
  <2>5. TypeOK'
    <3>1. j' \in 0 .. Len(solutions') /\ best' \in 0 .. Len(solutions') /\ next' \in 0 .. Len(res')
      BY <1>2, <1>3, <1>4, <2>1, <2>4
    <3> QED  BY <1>2, <1>3, <2>1, <2>3, <3>1 DEF TypeOK
  <2>6. LoopInv'
    BY <2>1 DEF LoopInv
  <2>7. Disjoint(res, Len(Occurrences))'
    BY <1>3, <2>1, <2>2 DEF Disjoint
  <2>8. AnswerInv'
    BY <1>2, <1>3, <1>4, <2>1, <2>4, <2>7 DEF AnswerInv
  <2> QED  BY <1>7, <1>8, <2>5, <2>6, <2>8
<1> QED  BY <1>9, <1>10

(* Picking every occurrence picks them in place. *)
LEMMA AllPicked ==
  ASSUME NEW n \in Nat, NEW picked \in Seq(Nat), Disjoint(picked, n), Len(picked) = n
  PROVE  \A a \in 1 .. n : picked[a] = a
<1> SUFFICES ASSUME NEW a \in 1 .. n PROVE picked[a] = a
  OBVIOUS
<1>1. picked[a] \in 1 .. n /\ a <= picked[a] /\ picked[a] + n <= n + a
  BY DEF Disjoint
<1> QED  BY <1>1

(* What either overload keeps is disjoint, for the indices in any order that
   ascends. *)
LEMMA KeptDisjoint ==
  ASSUME IInv, pc = "select", NEW chosen,
         NEW p \in Bijection(DOMAIN res, DOMAIN res),
         chosen = [k \in 1 .. Len(res) |-> res[p[k]]],
         \A a, b \in DOMAIN chosen : a < b => ~(chosen[b] < chosen[a])
  PROVE  /\ chosen \in Seq(1 .. Len(Occurrences)) /\ Len(chosen) = Len(res)
         /\ Kept(chosen) \in Seq(Occurrence)
         /\ \A a, b \in DOMAIN Kept(chosen) :
              a < b => Kept(chosen)[a].second <= Kept(chosen)[b].first
<1> USE DEF IInv
<1> DEFINE n == Len(Occurrences)
           m == Len(res)
<1>1. /\ n \in Nat /\ DOMAIN Occurrences = 1 .. n
      /\ \A k \in 1 .. n : Occurrences[k] \in Occurrence
      /\ m \in Nat /\ DOMAIN res = 1 .. m
  BY DEF TypeOK
<1>2. Disjoint(res, n)
  BY DEF AnswerInv
<1>3. /\ p \in [1 .. m -> 1 .. m]
      /\ \A a, b \in 1 .. m : p[a] = p[b] => a = b
  BY <1>1 DEF Bijection, Injection, Surjection, IsInjective
<1>4. /\ DOMAIN chosen = 1 .. m
      /\ \A a \in 1 .. m : chosen[a] = res[p[a]]
  OBVIOUS
<1>5. \A a \in 1 .. m : res[a] \in 1 .. n
  BY <1>1, <1>2 DEF Disjoint
<1>6. \A a \in 1 .. m : chosen[a] \in 1 .. n
  BY <1>3, <1>4, <1>5
<1>7. chosen \in [1 .. m -> 1 .. n]
  BY <1>6
<1>8. chosen \in Seq(1 .. n) /\ Len(chosen) = m
  BY <1>1, <1>7
<1>9. CASE m = n
  <2>1. Kept(chosen) = Occurrences
    BY <1>8, <1>9 DEF Kept
  <2>2. res \in Seq(Nat)
    <3>1. res \in Seq(1 .. n + 1) /\ 1 .. n + 1 \subseteq Nat
      BY <1>1 DEF TypeOK
    <3> QED  BY <3>1
  <2>3. \A a \in 1 .. n : res[a] = a
    BY <1>1, <1>2, <1>9, <2>2, AllPicked
  <2>4. ASSUME NEW a \in 1 .. n, NEW b \in 1 .. n, a < b
        PROVE  Occurrences[a].second <= Occurrences[b].first
    <3>1. Occurrences[res[a]].second <= Occurrences[res[b]].first
      BY <1>1, <1>2, <1>9, <2>4 DEF Disjoint
    <3> QED  BY <2>3, <3>1
  <2>5. Occurrences \in Seq(Occurrence)
    BY DEF TypeOK
  <2> QED  BY <1>1, <1>8, <2>1, <2>4, <2>5
<1>10. CASE m # n
  <2>1. Kept(chosen) = [k \in 1 .. m |-> Occurrences[chosen[k]]]
    BY <1>8, <1>10 DEF Kept
  <2>2. Kept(chosen) \in [1 .. m -> Occurrence]
    BY <1>1, <1>6, <2>1
  <2>3. Kept(chosen) \in Seq(Occurrence)
    BY <1>1, <2>2
  <2>4. ASSUME NEW a \in 1 .. m, NEW b \in 1 .. m, a < b
        PROVE  Occurrences[chosen[a]].second <= Occurrences[chosen[b]].first
    <3>1. p[a] \in 1 .. m /\ p[b] \in 1 .. m /\ p[a] # p[b]
      BY <1>3, <2>4
    <3>2. ~(p[b] < p[a])
      <4> SUFFICES ASSUME p[b] < p[a] PROVE FALSE
        OBVIOUS
      <4>1. res[p[b]] < res[p[a]]
        BY <1>1, <1>2, <3>1 DEF Disjoint
      <4> QED  BY <1>4, <2>4, <4>1
    <3>3. p[a] < p[b]
      BY <1>1, <3>1, <3>2
    <3>4. Occurrences[res[p[a]]].second <= Occurrences[res[p[b]]].first
      BY <1>1, <1>2, <3>1, <3>3 DEF Disjoint
    <3> QED  BY <1>4, <3>4
  <2>5. DOMAIN Kept(chosen) = 1 .. m /\ \A a \in 1 .. m : Kept(chosen)[a] = Occurrences[chosen[a]]
    BY <2>1
  <2> QED  BY <1>8, <2>3, <2>4, <2>5
<1> QED  BY <1>9, <1>10

LEMMA KeepStep ==
  ASSUME IInv, Keep
  PROVE  IInv'
<1> USE DEF IInv
<1> DEFINE p == [k \in DOMAIN res |-> k]
<1>1. /\ pc = "select" /\ pc' = "kept" /\ kept' = Kept(res)
      /\ UNCHANGED <<Occurrences, solutions, j, best, res, next, dropped>>
  BY DEF Keep
<1>2. p \in Bijection(DOMAIN res, DOMAIN res)
  BY DEF Bijection, Injection, Surjection, IsInjective
<1>3. res = [k \in 1 .. Len(res) |-> res[p[k]]]
  BY DEF TypeOK
<1> HIDE DEF p
<1>4. \A a, b \in DOMAIN res : a < b => ~(res[b] < res[a])
  <2>1. Disjoint(res, Len(Occurrences)) /\ Len(Occurrences) \in Nat
    BY <1>1 DEF AnswerInv, TypeOK
  <2>2. \A a, b \in DOMAIN res : a < b => res[a] < res[b] /\ res[a] \in Nat /\ res[b] \in Nat
    BY <2>1 DEF Disjoint
  <2> QED  BY <2>2
<1>5. /\ Kept(res) \in Seq(Occurrence)
      /\ \A a, b \in DOMAIN Kept(res) :
           a < b => Kept(res)[a].second <= Kept(res)[b].first
  BY <1>1, <1>2, <1>3, <1>4, KeptDisjoint
<1>6. TypeOK'
  BY <1>1, <1>5 DEF TypeOK
<1>7. AnswerInv'
  BY <1>1, <1>5 DEF AnswerInv
<1>8. LoopInv'
  BY <1>1 DEF LoopInv
<1> QED  BY <1>1, <1>6, <1>7, <1>8, SolutionsKept

LEMMA KeepAndDropStep ==
  ASSUME IInv, KeepAndDrop
  PROVE  IInv'
<1> USE DEF IInv
<1>1. /\ pc = "select"
      /\ UNCHANGED <<Occurrences, solutions, j, best, next, dropped>>
  BY DEF KeepAndDrop
<1>2. PICK p \in Bijection(DOMAIN res, DOMAIN res) :
        LET chosen == [k \in 1 .. Len(res) |-> res[p[k]]]
        IN  /\ \A a, b \in DOMAIN chosen : a < b => ~(chosen[b] < chosen[a])
            /\ kept' = Kept(chosen)
            /\ IF Len(res) = Len(Occurrences)
               THEN pc' = "split" /\ UNCHANGED res
               ELSE pc' = "scan" /\ res' = Append(chosen, Len(Occurrences) + 1)
  BY DEF KeepAndDrop
<1> DEFINE chosen == [k \in 1 .. Len(res) |-> res[p[k]]]
<1>3. /\ chosen \in Seq(1 .. Len(Occurrences)) /\ Len(chosen) = Len(res)
      /\ Kept(chosen) \in Seq(Occurrence)
      /\ \A a, b \in DOMAIN Kept(chosen) :
           a < b => Kept(chosen)[a].second <= Kept(chosen)[b].first
  BY <1>1, <1>2, KeptDisjoint
<1>4. kept' = Kept(chosen)
  BY <1>2
<1>5. \/ Len(res) = Len(Occurrences) /\ pc' = "split" /\ res' = res
      \/ Len(res) # Len(Occurrences) /\ pc' = "scan" /\ res' = Append(chosen, Len(Occurrences) + 1)
  BY <1>2
<1> HIDE DEF chosen
<1>6. /\ Len(Occurrences) \in Nat /\ Len(res) \in Nat /\ res \in Seq(1 .. Len(Occurrences) + 1)
      /\ next = 0
  BY <1>1 DEF TypeOK, AnswerInv
<1>7. pc' = "scan" =>
        /\ Len(res') = Len(res) + 1
        /\ res'[Len(res')] = Len(Occurrences) + 1
        /\ Len(solutions) = Len(Occurrences)
  BY <1>1, <1>3, <1>5, <1>6 DEF AnswerInv
<1>8. res' \in Seq(1 .. Len(Occurrences) + 1) /\ next' \in 0 .. Len(res') /\ Len(res') \in Nat
  <2>1. CASE res' = res
    BY <1>1, <1>6, <2>1
  <2>2. CASE res' = Append(chosen, Len(Occurrences) + 1)
    <3>1. chosen \in Seq(1 .. Len(Occurrences) + 1)
      BY <1>3, <1>6
    <3> QED  BY <1>1, <1>6, <2>2, <3>1
  <2> QED  BY <1>5, <2>1, <2>2
<1>9. TypeOK'
  BY <1>1, <1>3, <1>4, <1>5, <1>8 DEF TypeOK
<1>10. AnswerInv'
  BY <1>1, <1>3, <1>4, <1>5, <1>6, <1>7 DEF AnswerInv
<1>11. LoopInv'
  BY <1>5 DEF LoopInv
<1> QED  BY <1>1, <1>9, <1>10, <1>11, SolutionsKept

LEMMA ScanStep ==
  ASSUME IInv, Scan
  PROVE  IInv'
<1> USE DEF IInv
<1>1. /\ pc = "scan" /\ pc' = "scan"
      /\ UNCHANGED <<Occurrences, solutions, best, res, kept>>
      /\ j < Len(Occurrences) /\ j' = j + 1
      /\ \/ IsNext(j + 1) /\ next' = next + 1 /\ dropped' = dropped
         \/ ~IsNext(j + 1) /\ next' = next /\ dropped' = Append(dropped, Occurrences[j + 1])
  BY DEF Scan
<1>2. /\ Len(solutions) = Len(Occurrences)
      /\ next < Len(res)
      /\ res[Len(res)] = Len(Occurrences) + 1
  BY <1>1 DEF AnswerInv
<1>3. /\ Len(Occurrences) \in Nat /\ Len(res) \in Nat /\ next \in Nat
      /\ j \in Nat /\ j + 1 \in 1 .. Len(Occurrences)
  BY SMTT(30), <1>1, <1>2 DEF TypeOK
<1>4. next' < Len(res) /\ next' \in Nat
  <2>1. CASE IsNext(j + 1) /\ next' = next + 1
    <3>1. next + 1 # Len(res)
      BY <1>2, <1>3, <2>1 DEF IsNext
    <3> QED  BY <1>2, <1>3, <2>1, <3>1
  <2>2. CASE next' = next
    BY <1>2, <1>3, <2>2
  <2> QED  BY <1>1, <2>1, <2>2
<1>5. dropped' \in Seq(Occurrence)
  <2>1. Occurrences[j + 1] \in Occurrence /\ dropped \in Seq(Occurrence)
    BY <1>3 DEF TypeOK
  <2> QED  BY <1>1, <2>1
<1>6. j' \in 0 .. Len(solutions) /\ next' \in 0 .. Len(res)
  BY <1>1, <1>2, <1>3, <1>4
<1>7. TypeOK'
  BY <1>1, <1>5, <1>6 DEF TypeOK
<1>8. AnswerInv'
  BY <1>1, <1>2, <1>4 DEF AnswerInv
<1>9. LoopInv'
  BY <1>1 DEF LoopInv
<1> QED  BY <1>1, <1>7, <1>8, <1>9, SolutionsKept

LEMMA EndScanStep ==
  ASSUME IInv, EndScan
  PROVE  IInv'
<1> USE DEF IInv, EndScan
<1>1. TypeOK'
  BY DEF TypeOK
<1>2. AnswerInv'
  BY DEF AnswerInv
<1>3. LoopInv'
  BY DEF LoopInv
<1> QED  BY <1>1, <1>2, <1>3, SolutionsKept

LEMMA NextIInv == IInv /\ [Next]_vars => IInv'
<1> SUFFICES ASSUME IInv, [Next]_vars PROVE IInv'
  OBVIOUS
<1>1. CASE UNCHANGED vars
  <2>1. UNCHANGED <<pc, Occurrences, solutions, j, best, res, next, kept, dropped>>
    BY <1>1 DEF vars
  <2>2. TypeOK'
    BY <2>1 DEF IInv, TypeOK
  <2>3. LoopInv'
    BY <2>1 DEF IInv, LoopInv, RightOrdered, Clear, i, Worse
  <2>4. AnswerInv'
    BY <2>1 DEF IInv, AnswerInv, Disjoint
  <2> QED  BY <2>1, <2>2, <2>3, <2>4, SolutionsKept DEF IInv
<1> QED  BY <1>1, TrivialStep, SortStep, OverlappingStep, StopLookingStep, PutStep,
            KeepStep, KeepAndDropStep, ScanStep, EndScanStep DEF Next

----------------------------------------------------------------------------

(* SolveAmbiguity works on values of their types throughout: no loop of it
   leaves the vectors it indexes, the scan for the dropped ones included. *)
THEOREM SolveTypeCorrect == Spec => []TypeOK
<1>1. IInv => TypeOK
  BY DEF IInv
<1> QED  BY <1>1, InitIInv, NextIInv, PTL DEF Spec

(* The occurrences SolveAmbiguity keeps are disjoint and in the order of the
   text, for every vector of occurrences and every weighting of groups. *)
THEOREM SolveKeepsDisjoint == Spec => []KeptAreDisjoint
<1>1. IInv => KeptAreDisjoint
  BY DEF IInv, AnswerInv, KeptAreDisjoint
<1> QED  BY <1>1, InitIInv, NextIInv, PTL DEF Spec

----------------------------------------------------------------------------

(* With the rival beside it SolveAmbiguity takes its own steps only. *)
LEMMA RivalObserves == [RNext]_<<vars, rivalVars>> => [Next]_vars
BY DEF RNext, Take, Pass, Other, Next

(* The rival's lead when it takes the current occurrence: the selection it
   takes it on top of is no better than the one the loop stopped at. *)
LEMMA TakeStep ==
  ASSUME IInv, RivalInv, Take
  PROVE  RivalInv'
<1> DEFINE n == Len(solutions)
           c == CoverageOf(Occurrences[i])
           new == solutions'[i]
<1>1. /\ n \in Nat /\ i = n + 1 /\ DOMAIN solutions = 1 .. n
      /\ \A k \in 1 .. n : solutions[k] \in Solution
      /\ j \in 0 .. n
      /\ \A k \in 1 .. Len(Occurrences) : Occurrences[k] \in Occurrence
  BY DEF IInv, TypeOK, i
<1>2. /\ Put
      /\ last # 0 => Clear(last)
      /\ last' = i /\ covered' = covered + c /\ groups' = groups + 1
  BY DEF Take
<1>3. /\ i \in 1 .. Len(Occurrences)
      /\ WithCurrent \in Solution
      /\ solutions' \in Seq(Solution)
      /\ Len(solutions') = i
      /\ ~Worse(new, WithCurrent)
      /\ new = WithCurrent \/ \E k \in 1 .. n : new = solutions[k]
      /\ WithCurrent.coverage = c + IF j = 0 THEN 0 ELSE solutions[j].coverage
      /\ Len(WithCurrent.picked) = 1 + IF j = 0 THEN 0 ELSE Len(solutions[j].picked)
      /\ Plain => WithCurrent.weight = 0
  BY <1>2, PutFacts
<1>4. c \in Nat
  BY <1>1, <1>3, CoveragePositive
<1>5. new \in Solution
  BY <1>1, <1>3
<1>6. covered \in Nat /\ groups \in Nat
  BY DEF RivalInv
<1>7. /\ covered <= IF j = 0 THEN 0 ELSE solutions[j].coverage
      /\ Plain /\ covered = (IF j = 0 THEN 0 ELSE solutions[j].coverage) =>
           (IF j = 0 THEN 0 ELSE Len(solutions[j].picked)) <= groups
  <2>1. CASE last = 0
    <3>1. covered = 0 /\ groups = 0
      BY <2>1 DEF RivalInv
    <3>2. CASE j = 0
      BY <3>1, <3>2
    <3>3. CASE j # 0
      <4>1. solutions[j].coverage \in Nat /\ solutions[j].coverage > 0
        BY <1>1, <3>3, SolutionFields DEF IInv, SolutionsInv
      <4> QED  BY <3>1, <3>3, <4>1
    <3> QED  BY <3>2, <3>3
  <2>2. CASE last # 0
    <3>1. last \in 1 .. n /\ Clear(last)
      BY <1>1, <1>2, <2>2 DEF RivalInv
    <3>2. \A k \in j + 1 .. n : ~Clear(k)
      BY <1>2 DEF IInv, LoopInv, Put
    <3>3. last <= j /\ j \in 1 .. n
      BY <1>1, <3>1, <3>2
    <3>4. ~Worse(solutions[j], solutions[last])
      BY <1>1, <3>1, <3>3 DEF IInv, MonotoneInv
    <3>5. /\ solutions[j] \in Solution /\ solutions[last] \in Solution
          /\ Plain => solutions[j].weight = 0 /\ solutions[last].weight = 0
      BY <1>1, <3>1, <3>3 DEF IInv, SolutionsInv
    <3>6. /\ solutions[j].coverage \in Nat /\ solutions[last].coverage \in Nat
          /\ Len(solutions[j].picked) \in Nat /\ Len(solutions[last].picked) \in Nat
      BY <3>5, SolutionFields
    <3>7. /\ covered <= solutions[last].coverage
          /\ Plain /\ covered = solutions[last].coverage =>
               Len(solutions[last].picked) <= groups
      BY <2>2 DEF RivalInv
    <3>8. /\ solutions[last].coverage <= solutions[j].coverage
          /\ Plain /\ solutions[last].coverage = solutions[j].coverage =>
               Len(solutions[j].picked) <= Len(solutions[last].picked)
      BY <3>4, <3>5, <3>6 DEF Worse
    <3>9. j # 0
      BY <3>3
    <3> QED  BY <1>6, <3>6, <3>7, <3>8, <3>9
  <2> QED  BY <2>1, <2>2
<1>8. /\ covered' <= WithCurrent.coverage
      /\ Plain /\ covered' = WithCurrent.coverage => Len(WithCurrent.picked) <= groups'
  <2> DEFINE x == IF j = 0 THEN 0 ELSE solutions[j].coverage
             y == IF j = 0 THEN 0 ELSE Len(solutions[j].picked)
  <2>1. x \in Nat /\ y \in Nat
    BY <1>1, SolutionFields
  <2>2. WithCurrent.coverage = c + x /\ Len(WithCurrent.picked) = 1 + y
    BY <1>3
  <2>3. covered <= x /\ (Plain /\ covered = x => y <= groups)
    BY <1>7
  <2> HIDE DEF x, y, c
  <2> QED  BY <1>2, <1>4, <1>6, <2>1, <2>2, <2>3
<1>9. Plain => new.weight = 0
  BY <1>1, <1>3 DEF IInv, SolutionsInv
<1>10. /\ covered' <= new.coverage
       /\ Plain /\ covered' = new.coverage => Len(new.picked) <= groups'
  <2> HIDE DEF new, c
  <2>1. /\ new.coverage \in Nat /\ WithCurrent.coverage \in Nat
        /\ Len(new.picked) \in Nat /\ Len(WithCurrent.picked) \in Nat
    BY <1>3, <1>5, SolutionFields
  <2>2. /\ WithCurrent.coverage <= new.coverage
        /\ Plain /\ WithCurrent.coverage = new.coverage =>
             Len(new.picked) <= Len(WithCurrent.picked)
    BY <1>3, <1>9, <2>1 DEF Worse
  <2>3. covered' \in Nat /\ groups' \in Nat
    BY <1>2, <1>4, <1>6
  <2> QED  BY <1>8, <2>1, <2>2, <2>3
<1>11. Plain' = Plain
  BY <1>2 DEF Plain, Put
<1>12. last' \in 0 .. Len(solutions') /\ last' # 0 /\ covered' \in Nat /\ groups' \in Nat
  BY <1>1, <1>2, <1>3, <1>4, <1>6
<1> QED  BY <1>2, <1>10, <1>11, <1>12 DEF RivalInv

LEMMA PassStep ==
  ASSUME IInv, RivalInv, Pass
  PROVE  RivalInv'
<1>1. Put /\ UNCHANGED <<last, covered, groups, Occurrences>>
  BY DEF Pass, rivalVars, Put
<1>2. /\ i = Len(solutions) + 1 /\ Len(solutions) \in Nat
      /\ Len(solutions') = i
      /\ \A k \in 1 .. Len(solutions) : solutions'[k] = solutions[k]
  BY <1>1, PutFacts DEF IInv, TypeOK, i
<1>3. last # 0 => last \in 1 .. Len(solutions)
  BY <1>2 DEF RivalInv
<1>4. last' \in 0 .. Len(solutions')
  BY <1>1, <1>2 DEF RivalInv
<1> QED  BY <1>1, <1>2, <1>3, <1>4 DEF RivalInv, Plain

LEMMA OtherStep ==
  ASSUME IInv, RivalInv, Other \/ UNCHANGED <<vars, rivalVars>>
  PROVE  RivalInv'
<1>1. UNCHANGED <<last, covered, groups, solutions>>
  BY DEF Other, vars, rivalVars, Trivial, Sort, Overlapping, StopLooking,
         Keep, KeepAndDrop, Scan, EndScan
<1>2. CASE Sort
  <2>1. last = 0
    BY <1>2 DEF Sort, IInv, AnswerInv, RivalInv
  <2> QED  BY <1>1, <2>1 DEF RivalInv
<1>3. CASE UNCHANGED Occurrences
  BY <1>1, <1>3 DEF RivalInv, Plain
<1> QED  BY <1>2, <1>3 DEF Other, vars, Trivial, Overlapping, StopLooking,
                          Keep, KeepAndDrop, Scan, EndScan

(* When the loop is over the rival has lost: its last occurrence is in the
   prefix that the answer was chosen from. *)
LEMMA RivalLoses == IInv /\ RivalInv => BestIsKept
<1> SUFFICES ASSUME IInv, RivalInv, pc = "select", solutions # <<>>
             PROVE  /\ res = solutions[Len(solutions)].picked
                    /\ covered <= solutions[Len(solutions)].coverage
                    /\ Plain /\ covered = solutions[Len(solutions)].coverage =>
                         Len(res) <= groups
  BY DEF BestIsKept
<1> DEFINE n == Len(solutions)
           answer == solutions[n]
<1>1. /\ n \in Nat /\ n # 0 /\ DOMAIN solutions = 1 .. n
      /\ \A k \in 1 .. n : solutions[k] \in Solution
  BY DEF IInv, TypeOK
<1>2. n \in 1 .. n
  BY <1>1
<1>3. /\ res = answer.picked
      /\ answer.coverage \in Nat /\ answer.coverage > 0 /\ Len(answer.picked) \in Nat
      /\ Plain => answer.weight = 0
  BY <1>1, <1>2, SolutionFields DEF IInv, AnswerInv, SolutionsInv
<1>4. CASE last = 0
  BY <1>3, <1>4 DEF RivalInv
<1>5. CASE last # 0
  <2>1. last \in 1 .. n /\ covered \in Nat /\ groups \in Nat
    BY <1>1, <1>5 DEF RivalInv
  <2>2. ~Worse(answer, solutions[last])
    BY <1>1, <1>2, <2>1 DEF IInv, MonotoneInv
  <2>3. /\ solutions[last].coverage \in Nat /\ Len(solutions[last].picked) \in Nat
        /\ Plain => solutions[last].weight = 0
    BY <1>1, <2>1, SolutionFields DEF IInv, SolutionsInv
  <2>4. /\ covered <= solutions[last].coverage
        /\ Plain /\ covered = solutions[last].coverage =>
             Len(solutions[last].picked) <= groups
    BY <1>5 DEF RivalInv
  <2>5. /\ solutions[last].coverage <= answer.coverage
        /\ Plain /\ solutions[last].coverage = answer.coverage =>
             Len(answer.picked) <= Len(solutions[last].picked)
    BY <1>3, <2>2, <2>3 DEF Worse
  <2> HIDE DEF answer
  <2>6. /\ covered <= answer.coverage
        /\ Plain /\ covered = answer.coverage => Len(answer.picked) <= groups
    BY <1>3, <2>1, <2>3, <2>4, <2>5
  <2> QED  BY <1>3, <2>6 DEF answer
<1> QED  BY <1>4, <1>5

(* The longest match: whatever disjoint selection the rival makes, it covers no
   more than the answer of SolveAmbiguity, and without items it covers as much
   only with at least as many groups. *)
THEOREM LongestMatch == RSpec => []BestIsKept
<1>1. RInit => IInv /\ RivalInv
  BY InitIInv DEF RInit, RivalInv, Init
<1>2. IInv /\ RivalInv /\ [RNext]_<<vars, rivalVars>> => IInv' /\ RivalInv'
  <2> SUFFICES ASSUME IInv, RivalInv, [RNext]_<<vars, rivalVars>>
               PROVE  IInv' /\ RivalInv'
    OBVIOUS
  <2>1. IInv'
    BY RivalObserves, NextIInv
  <2>2. RivalInv'
    BY TakeStep, PassStep, OtherStep DEF RNext
  <2> QED  BY <2>1, <2>2
<1> QED  BY <1>1, <1>2, RivalLoses, PTL DEF RSpec

----------------------------------------------------------------------------

\* How many of the occurrences with an index in S are equal to o.
Among(S, o) == Cardinality({k \in S : Occurrences[k] = o})

\* What the scan has passed and not met among the chosen ones.
Missed == {k \in 1 .. j : k \notin Range(res)}

\* The chosen indices go up, those before the next one have been passed, and what
\* was missed has been reported as often as it was found.
DropInv ==
  /\ pc \notin {"scan", "split"} => dropped = <<>>
  /\ pc = "scan" =>
       /\ \A a, b \in DOMAIN res : a < b => res[a] < res[b]
       /\ \A a \in DOMAIN res : a <= next <=> res[a] <= j
       /\ kept = [k \in 1 .. Len(res) - 1 |-> Occurrences[res[k]]]
       /\ \A o \in Range(Occurrences) : Count(dropped, o) = Among(Missed, o)
  /\ KeptOrDropped

(* A vector grows by one occurrence. *)
LEMMA CountAppend ==
  ASSUME NEW s \in Seq(Occurrence), NEW p \in Occurrence, NEW o
  PROVE  Count(Append(s, p), o) = IF p = o THEN Count(s, o) + 1 ELSE Count(s, o)
<1> DEFINE t == Append(s, p)
           A == {k \in DOMAIN s : s[k] = o}
           B == {k \in DOMAIN t : t[k] = o}
<1>1. /\ DOMAIN s = 1 .. Len(s) /\ Len(s) \in Nat /\ DOMAIN t = 1 .. (Len(s) + 1)
      /\ t[Len(s) + 1] = p
      /\ \A k \in 1 .. Len(s) : t[k] = s[k]
  OBVIOUS
<1>2. IsFiniteSet(A) /\ Len(s) + 1 \notin A
  <2>1. A \in SUBSET (1 .. Len(s)) /\ IsFiniteSet(1 .. Len(s))
    BY <1>1, FS_Interval
  <2>2. IsFiniteSet(A)
    BY <2>1, FS_Subset
  <2> QED  BY <1>1, <2>2
<1>3. CASE p = o
  <2>1. B = A \cup {Len(s) + 1}
    BY <1>1, <1>3
  <2>2. Cardinality(A \cup {Len(s) + 1}) = Cardinality(A) + 1
    <3> HIDE DEF A
    <3> QED  BY <1>2, FS_AddElement
  <2> QED  BY <1>3, <2>1, <2>2 DEF Count
<1>4. CASE p # o
  <2>1. B = A
    BY <1>1, <1>4
  <2> QED  BY <1>4, <2>1 DEF Count
<1> QED  BY <1>3, <1>4

(* A new index is counted if its occurrence is the one. *)
LEMMA AmongAdd ==
  ASSUME NEW S, IsFiniteSet(S), NEW x, x \notin S, NEW o
  PROVE  Among(S \cup {x}, o) = IF Occurrences[x] = o THEN Among(S, o) + 1 ELSE Among(S, o)
<1> DEFINE A == {k \in S : Occurrences[k] = o}
           B == {k \in S \cup {x} : Occurrences[k] = o}
<1>1. A \in SUBSET S /\ x \notin A
  OBVIOUS
<1>2. IsFiniteSet(A)
  <2> HIDE DEF A
  <2> QED  BY <1>1, FS_Subset
<1>3. CASE Occurrences[x] = o
  <2>1. B = A \cup {x}
    BY <1>3
  <2>2. Cardinality(A \cup {x}) = Cardinality(A) + 1
    <3> HIDE DEF A
    <3> QED  BY <1>1, <1>2, FS_AddElement
  <2> QED  BY <1>3, <2>1, <2>2 DEF Among
<1>4. CASE Occurrences[x] # o
  <2>1. B = A
    BY <1>4
  <2> QED  BY <1>4, <2>1 DEF Among
<1> QED  BY <1>3, <1>4

(* The scan begins with nothing passed, or is not needed. *)
LEMMA KeepAndDropDrops ==
  ASSUME IInv, DropInv, KeepAndDrop
  PROVE  DropInv'
<1> DEFINE n == Len(Occurrences)
           m == Len(res)
<1>1. /\ pc = "select" /\ UNCHANGED <<Occurrences, solutions, j, best, next, dropped>>
      /\ j = 0 /\ next = 0 /\ dropped = <<>> /\ Disjoint(res, n)
  BY DEF KeepAndDrop, IInv, AnswerInv, DropInv
<1>2. PICK p \in Bijection(DOMAIN res, DOMAIN res) :
        LET chosen == [k \in 1 .. Len(res) |-> res[p[k]]]
        IN  /\ \A a, b \in DOMAIN chosen : a < b => ~(chosen[b] < chosen[a])
            /\ kept' = Kept(chosen)
            /\ IF Len(res) = Len(Occurrences)
               THEN pc' = "split" /\ UNCHANGED res
               ELSE pc' = "scan" /\ res' = Append(chosen, Len(Occurrences) + 1)
  BY DEF KeepAndDrop
<1> DEFINE chosen == [k \in 1 .. m |-> res[p[k]]]
<1>3. /\ n \in Nat /\ DOMAIN Occurrences = 1 .. n
      /\ m \in Nat /\ DOMAIN res = 1 .. m
  BY DEF IInv, TypeOK
<1>4. /\ \A a, b \in 1 .. m : p[a] = p[b] => a = b
      /\ \A a \in 1 .. m : p[a] \in 1 .. m
  BY <1>3 DEF Bijection, Injection, Surjection, IsInjective
<1>5. /\ \A a \in 1 .. m : res[a] \in 1 .. n
      /\ \A a, b \in 1 .. m : a < b => res[a] < res[b]
  BY <1>1, <1>3 DEF Disjoint
<1>6. DOMAIN chosen = 1 .. m /\ \A a \in 1 .. m : chosen[a] = res[p[a]] /\ chosen[a] \in 1 .. n
  BY <1>4, <1>5
<1>7. chosen \in Seq(1 .. n) /\ Len(chosen) = m
  BY <1>3, <1>6
<1>8. \A a, b \in 1 .. m : a < b => chosen[a] < chosen[b]
  <2> SUFFICES ASSUME NEW a \in 1 .. m, NEW b \in 1 .. m, a < b
               PROVE  chosen[a] < chosen[b]
    OBVIOUS
  <2>1. ~(chosen[b] < chosen[a])
    BY <1>2, <1>6
  <2>2. p[a] \in 1 .. m /\ p[b] \in 1 .. m /\ p[a] # p[b]
    BY <1>3, <1>4
  <2>3. res[p[a]] # res[p[b]] /\ res[p[a]] \in Nat /\ res[p[b]] \in Nat
    BY <1>3, <1>5, <2>2
  <2> QED  BY <1>6, <2>1, <2>3
<1>9. /\ kept' = Kept(chosen)
      /\ \/ m = n /\ pc' = "split"
         \/ m # n /\ pc' = "scan" /\ res' = Append(chosen, n + 1)
  BY <1>2
<1> HIDE DEF chosen
<1>10. \A o : Count(<<>>, o) = 0
  <2>1. \A o : {k \in DOMAIN <<>> : <<>>[k] = o} = {}
    OBVIOUS
  <2> QED  BY <2>1, FS_EmptySet DEF Count
<1>11. CASE m = n
  <2>1. kept' = Occurrences /\ pc' = "split"
    BY <1>7, <1>9, <1>11 DEF Kept
  <2>2. \A o \in Range(Occurrences) : Count(Occurrences, o) \in Nat
    <3> SUFFICES ASSUME NEW o \in Range(Occurrences) PROVE Count(Occurrences, o) \in Nat
      OBVIOUS
    <3>1. {k \in DOMAIN Occurrences : Occurrences[k] = o} \in SUBSET (1 .. n)
          /\ IsFiniteSet(1 .. n)
      BY <1>3, FS_Interval
    <3>2. IsFiniteSet({k \in DOMAIN Occurrences : Occurrences[k] = o})
      BY <3>1, FS_Subset
    <3> QED  BY <3>2, FS_CardinalityType DEF Count
  <2>3. KeptOrDropped'
    BY <1>1, <1>10, <2>1, <2>2 DEF KeptOrDropped, Count
  <2> QED  BY <2>1, <2>3 DEF DropInv
<1>12. CASE m # n
  <2>1. pc' = "scan" /\ res' = Append(chosen, n + 1)
        /\ kept' = [k \in 1 .. m |-> Occurrences[chosen[k]]]
    BY <1>7, <1>9, <1>12 DEF Kept
  <2>2. /\ DOMAIN res' = 1 .. m + 1 /\ Len(res') = m + 1 /\ res'[m + 1] = n + 1
        /\ \A a \in 1 .. m : res'[a] = chosen[a]
    BY <1>3, <1>7, <2>1
  <2>3. \A a, b \in DOMAIN res' : a < b => res'[a] < res'[b]
    <3> SUFFICES ASSUME NEW a \in DOMAIN res', NEW b \in DOMAIN res', a < b
                 PROVE  res'[a] < res'[b]
      OBVIOUS
    <3>1. a \in 1 .. m /\ (b \in 1 .. m \/ b = m + 1)
      BY <1>3, <2>2
    <3> QED  BY <1>3, <1>6, <1>8, <2>2, <3>1
  <2>4. \A a \in DOMAIN res' : res'[a] >= 1 /\ res'[a] \in Nat /\ a >= 1 /\ a \in Nat
    BY <1>3, <1>6, <2>2
  <2>5. kept' = [k \in 1 .. Len(res') - 1 |-> Occurrences[res'[k]]]
    <3>1. Len(res') - 1 = m
      BY <1>3, <2>2
    <3> QED  BY <2>1, <2>2, <3>1
  <2>6. \A o : Among(Missed, o)' = 0
    <3>1. Missed' = {}
      BY <1>1 DEF Missed
    <3>2. \A o : {k \in Missed' : Occurrences'[k] = o} = {}
      BY <3>1
    <3> QED  BY <3>2, FS_EmptySet DEF Among
  <2>7. \A o : Count(dropped, o)' = 0
    BY <1>1, <1>10 DEF Count
  <2> QED  BY <1>1, <2>1, <2>3, <2>4, <2>5, <2>6, <2>7 DEF DropInv, KeptOrDropped
<1> QED  BY <1>11, <1>12

(* The scan passes an occurrence: it is the next chosen one, or was not chosen. *)
LEMMA ScanDrops ==
  ASSUME IInv, DropInv, Scan
  PROVE  DropInv'
<1>1. /\ pc = "scan" /\ pc' = "scan"
      /\ UNCHANGED <<Occurrences, solutions, best, res, kept>>
      /\ j < Len(Occurrences) /\ j' = j + 1
      /\ \/ IsNext(j + 1) /\ next' = next + 1 /\ dropped' = dropped
         \/ ~IsNext(j + 1) /\ next' = next /\ dropped' = Append(dropped, Occurrences[j + 1])
  BY DEF Scan
<1>2. /\ \A a, b \in DOMAIN res : a < b => res[a] < res[b]
      /\ \A a \in DOMAIN res : a <= next <=> res[a] <= j
      /\ kept = [k \in 1 .. Len(res) - 1 |-> Occurrences[res[k]]]
      /\ \A o \in Range(Occurrences) : Count(dropped, o) = Among(Missed, o)
      /\ next < Len(res)
  BY <1>1 DEF DropInv, IInv, AnswerInv
<1>3. /\ DOMAIN res = 1 .. Len(res) /\ Len(res) \in Nat /\ next \in Nat /\ j \in Nat
      /\ \A a \in DOMAIN res : res[a] \in Nat
      /\ Len(Occurrences) \in Nat /\ j + 1 \in 1 .. Len(Occurrences)
      /\ DOMAIN Occurrences = 1 .. Len(Occurrences)
      /\ Occurrences[j + 1] \in Occurrence /\ dropped \in Seq(Occurrence)
  BY SMTT(30), <1>1 DEF IInv, TypeOK
<1>4. next + 1 \in DOMAIN res
  BY <1>2, <1>3
<1>5. IsNext(j + 1) <=> j + 1 \in Range(res)
  <2>1. IsNext(j + 1) => j + 1 \in Range(res)
    BY <1>4 DEF IsNext, Range
  <2>2. ASSUME NEW a \in DOMAIN res, res[a] = j + 1 PROVE IsNext(j + 1)
    <3>1. ~(a <= next)
      BY <1>2, <1>3, <2>2
    <3>2. ~(a > next + 1)
      <4> SUFFICES ASSUME a > next + 1 PROVE FALSE
        OBVIOUS
      <4>1. res[next + 1] < res[a]
        BY <1>2, <1>3, <1>4
      <4>2. res[next + 1] <= j
        BY <1>3, <1>4, <2>2, <4>1
      <4>3. next + 1 <= next
        BY <1>2, <1>4, <4>2
      <4> QED  BY <1>3, <4>3
    <3>3. a = next + 1
      BY <1>3, <3>1, <3>2
    <3> QED  BY <2>2, <3>3 DEF IsNext
  <2> QED  BY <2>1, <2>2 DEF Range
<1>6. IsFiniteSet(Missed) /\ j + 1 \notin Missed
  <2>0. IsFiniteSet(1 .. j)
    BY <1>3, FS_Interval
  <2>1. Missed \in SUBSET (1 .. j) /\ IsFiniteSet(1 .. j)
    BY <2>0 DEF Missed
  <2>2. IsFiniteSet(Missed)
    BY <2>1, FS_Subset
  <2> QED  BY <1>3, <2>1, <2>2
<1>7. \A o : Among(Missed, o)' = Cardinality({k \in Missed' : Occurrences[k] = o})
  BY <1>1 DEF Among
<1>8. CASE IsNext(j + 1)
  <2>1. next' = next + 1 /\ dropped' = dropped /\ res[next + 1] = j + 1
    BY <1>1, <1>8 DEF IsNext
  <2>2. \A a \in DOMAIN res : a <= next + 1 <=> res[a] <= j + 1
    <3> SUFFICES ASSUME NEW a \in DOMAIN res PROVE a <= next + 1 <=> res[a] <= j + 1
      OBVIOUS
    <3>1. CASE a <= next
      BY <1>2, <1>3, <3>1
    <3>2. CASE a = next + 1
      BY <1>3, <2>1, <3>2
    <3>3. CASE a > next + 1
      <4>1. res[next + 1] < res[a]
        BY <1>2, <1>4, <3>3
      <4> QED  BY <1>3, <1>4, <2>1, <3>3, <4>1
    <3> QED  BY <1>3, <3>1, <3>2, <3>3
  <2>3. Missed' = Missed
    BY <1>1, <1>3, <1>5, <1>8 DEF Missed
  <2>4. \A o \in Range(Occurrences) : Count(dropped, o)' = Among(Missed, o)'
    BY <1>2, <1>7, <2>1, <2>3 DEF Count, Among
  <2> QED  BY <1>1, <1>2, <2>1, <2>2, <2>4 DEF DropInv, KeptOrDropped
<1>9. CASE ~IsNext(j + 1)
  <2>1. next' = next /\ dropped' = Append(dropped, Occurrences[j + 1])
    BY <1>1, <1>9
  <2>2. \A a \in DOMAIN res : a <= next <=> res[a] <= j + 1
    <3>1. \A a \in DOMAIN res : res[a] # j + 1
      BY <1>5, <1>9 DEF Range
    <3> QED  BY <1>2, <1>3, <3>1
  <2>3. Missed' = Missed \cup {j + 1}
    BY <1>1, <1>3, <1>5, <1>9 DEF Missed
  <2>4. ASSUME NEW o \in Range(Occurrences) PROVE Count(dropped, o)' = Among(Missed, o)'
    <3>1. Count(dropped, o)' = Count(Append(dropped, Occurrences[j + 1]), o)
      BY <2>1 DEF Count
    <3>2. Among(Missed, o)' = Among(Missed \cup {j + 1}, o)
      BY <1>7, <2>3 DEF Among
    <3> QED  BY <1>2, <1>3, <1>6, <3>1, <3>2, CountAppend, AmongAdd
  <2> QED  BY <1>1, <1>2, <2>1, <2>2, <2>4 DEF DropInv, KeptOrDropped
<1> QED  BY <1>8, <1>9

(* After the scan the kept and the dropped ones make up the vector. *)
LEMMA EndScanDrops ==
  ASSUME IInv, DropInv, EndScan
  PROVE  DropInv'
<1> DEFINE n == Len(Occurrences)
           m == Len(res) - 1
<1>1. /\ pc = "scan" /\ pc' = "split" /\ j = n
      /\ UNCHANGED <<Occurrences, solutions, j, best, res, next, kept, dropped>>
  BY DEF EndScan
<1>2. /\ \A a, b \in DOMAIN res : a < b => res[a] < res[b]
      /\ kept = [k \in 1 .. m |-> Occurrences[res[k]]]
      /\ \A o \in Range(Occurrences) : Count(dropped, o) = Among(Missed, o)
      /\ next < Len(res) /\ res[Len(res)] = n + 1
  BY <1>1 DEF DropInv, IInv, AnswerInv
<1>3. /\ DOMAIN res = 1 .. Len(res) /\ Len(res) \in Nat /\ next \in Nat /\ n \in Nat
      /\ \A a \in DOMAIN res : res[a] \in 1 .. n + 1
      /\ DOMAIN Occurrences = 1 .. n
  BY DEF IInv, TypeOK
<1>4. m \in Nat /\ m + 1 = Len(res)
  BY <1>2, <1>3
<1>5. \A a \in 1 .. m : a \in DOMAIN res /\ res[a] \in 1 .. n
  <2> SUFFICES ASSUME NEW a \in 1 .. m PROVE a \in DOMAIN res /\ res[a] \in 1 .. n
    OBVIOUS
  <2>1. a \in DOMAIN res /\ Len(res) \in DOMAIN res /\ a < Len(res)
    BY <1>3, <1>4
  <2>2. res[a] < n + 1
    BY <1>2, <2>1
  <2> QED  BY <1>3, <2>1, <2>2
<1>6. ASSUME NEW o \in Range(Occurrences)
      PROVE  Count(Occurrences, o) = Count(kept, o) + Count(dropped, o)
  <2> DEFINE K == {k \in 1 .. m : Occurrences[res[k]] = o}
             C == {k \in 1 .. n : k \in Range(res) /\ Occurrences[k] = o}
             D == {k \in Missed : Occurrences[k] = o}
             f == [k \in K |-> res[k]]
  <2>1. Count(kept, o) = Cardinality(K)
    <3>1. DOMAIN kept = 1 .. m /\ \A k \in 1 .. m : kept[k] = Occurrences[res[k]]
      BY <1>2
    <3>2. {k \in DOMAIN kept : kept[k] = o} = K
      BY <3>1
    <3> QED  BY <3>2 DEF Count
  <2>2. Count(dropped, o) = Cardinality(D)
    BY <1>2 DEF Among
  <2>3. {k \in DOMAIN Occurrences : Occurrences[k] = o} = C \cup D /\ C \cap D = {}
    BY <1>1, <1>3 DEF Missed
  <2>4. IsFiniteSet(K) /\ IsFiniteSet(D)
    <3>1. K \in SUBSET (1 .. m)
      OBVIOUS
    <3>2. D \in SUBSET (1 .. n)
      BY <1>1 DEF Missed
    <3>3. IsFiniteSet(1 .. m) /\ IsFiniteSet(1 .. n)
      BY <1>3, <1>4, FS_Interval
    <3> HIDE DEF K, D, m, n
    <3> QED  BY <3>1, <3>2, <3>3, FS_Subset
  <2>5. f \in Bijection(K, C)
    <3>1. f \in [K -> C] /\ DOMAIN f = K
      BY <1>5 DEF Range
    <3>2. \A a, b \in K : f[a] = f[b] => a = b
      <4> SUFFICES ASSUME NEW a \in K, NEW b \in K, res[a] = res[b] PROVE a = b
        OBVIOUS
      <4>1. a \in DOMAIN res /\ b \in DOMAIN res /\ a \in Nat /\ b \in Nat
        BY <1>3, <1>5
      <4>2. ~(a < b) /\ ~(b < a)
        BY <1>2, <1>3, <4>1
      <4> QED  BY <4>1, <4>2
    <3>3. ASSUME NEW c \in C PROVE \E k \in K : f[k] = c
      <4>1. PICK a \in DOMAIN res : res[a] = c
        BY DEF Range
      <4>2. a # Len(res)
        BY <1>2, <1>3, <4>1
      <4>3. a \in K /\ f[a] = c
        BY <1>3, <1>4, <4>1, <4>2
      <4> QED  BY <4>3
    <3> HIDE DEF f, K, C
    <3> QED  BY <3>1, <3>2, <3>3, Zenon DEF Bijection, Injection, Surjection, IsInjective
  <2> HIDE DEF f, K, C, D
  <2>6. ExistsBijection(K, C)
    BY <2>5 DEF ExistsBijection
  <2>7. IsFiniteSet(C) /\ Cardinality(C) = Cardinality(K)
    BY <2>4, <2>6, FS_Bijection
  <2>8. /\ Cardinality(C \cup D) = Cardinality(C) + Cardinality(D) - Cardinality(C \cap D)
        /\ Cardinality(C) \in Nat /\ Cardinality(D) \in Nat
    BY <2>4, <2>7, FS_Union, FS_CardinalityType
  <2>9. Cardinality(C \cap D) = 0
    BY <2>3, FS_EmptySet
  <2>10. Count(Occurrences, o) = Cardinality(C \cup D)
    BY <2>3 DEF Count
  <2> QED  BY <2>1, <2>2, <2>7, <2>8, <2>9, <2>10
<1> QED  BY <1>1, <1>6 DEF DropInv, KeptOrDropped, Count

LEMMA NextDropInv == IInv /\ DropInv /\ [Next]_vars => DropInv'
<1> SUFFICES ASSUME IInv, DropInv, [Next]_vars PROVE DropInv'
  OBVIOUS
<1>1. CASE UNCHANGED vars
  BY <1>1 DEF vars, DropInv, KeptOrDropped, Count, Among, Missed
<1>2. CASE Trivial \/ Sort \/ Overlapping \/ StopLooking \/ Put \/ Keep
  <2>1. dropped' = <<>> /\ pc' \notin {"scan", "split"}
    BY <1>2 DEF Trivial, Sort, Overlapping, StopLooking, Put, Keep, DropInv
  <2> QED  BY <2>1 DEF DropInv, KeptOrDropped
<1> QED  BY <1>1, <1>2, KeepAndDropDrops, ScanDrops, EndScanDrops DEF Next

(* Nothing is lost and nothing is reported twice: each occurrence is kept or
   dropped as often as it was found, for every vector of occurrences, equal ones
   included. *)
THEOREM SolveKeepsOrDrops == Spec => []KeptOrDropped
<1>1. Init => DropInv
  BY DEF Init, DropInv, KeptOrDropped
<1>2. DropInv => KeptOrDropped
  BY DEF DropInv
<1> QED  BY <1>1, <1>2, InitIInv, NextIInv, NextDropInv, PTL DEF Spec
=============================================================================
