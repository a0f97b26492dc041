---------------------------- MODULE SolveAmbiguity ----------------------------
(***************************************************************************)
(* The longest-match step that follows the parser: of the occurrences a    *)
(* grammar was found at, which may overlap, one disjoint selection is kept *)
(* (SolveAmbiguity of solveperiodambiguity.cpp, called by RunParser of     *)
(* tomitaitemsholder.cpp and, without items, for the multiwords).          *)
(*                                                                         *)
(* The occurrences are sorted by their right border.  For each one in turn *)
(* the best selection among it and the ones before it is built from the    *)
(* selections already built; the last one is the answer.  A selection is   *)
(* compared by its coverage, then by the weight of the group its items     *)
(* would form, then by its number of members.  What that weight is         *)
(* (agreements, keyword types and user weights, factgroup.cpp) is left     *)
(* open: a virtual group is any value with a weight, and its weight may    *)
(* fall when an item joins it.                                             *)
(***************************************************************************)
EXTENDS Naturals, Sequences, FiniteSets, Functions

CONSTANTS Words,                    \* the number of words of the sentence
          Inputs,                   \* the vectors of occurrences to be resolved
          Items, NoItem,            \* what m_pInputItem points to; NULL
          GetCoverage(_),           \* words an item covers, or 0
          Groups,                   \* the states of a virtual group
          NewGroup(_),              \* SetPair on a new virtual group
          AddWeightOfChild(_, _),   \* SetLastWord and AddWeightOfChild
          GetWeight(_)              \* weight of a virtual group

Occurrence ==
  {o \in [first : 0 .. Words, second : 0 .. Words, item : Items \cup {NoItem}] :
     o.first < o.second}

ASSUME InputsAssumption == Words \in Nat /\ Inputs \subseteq Seq(Occurrence)

ASSUME GroupsAssumption ==
  /\ \A item \in Items : GetCoverage(item) \in Nat
  /\ \A o \in Occurrence : NewGroup(o) \in Groups
  /\ \A g \in Groups, o \in Occurrence : AddWeightOfChild(g, o) \in Groups
  /\ \A g \in Groups : GetWeight(g) \in Nat

VARIABLES pc,            \* a stage of the work
          Occurrences,   \* the vector, sorted in place
          solutions,     \* the best selection among each prefix built so far
          j,             \* the occurrence an inner loop stands at; 0 outside
          best,          \* best_overlapping_solution; 0 for NULL
          res,           \* the indices of the selection kept
          next,          \* next_res_index of the scan for the dropped ones
          kept, dropped  \* the vectors handed back to the caller

vars == <<pc, Occurrences, solutions, j, best, res, next, kept, dropped>>

Solution == [picked : Seq(Nat), group : Groups, coverage : Nat, weight : Nat]

\* The occurrence the outer loop is at.
i == Len(solutions) + 1

TypeOK ==
  /\ pc \in {"sort", "look", "put", "select", "scan", "kept", "split"}
  /\ Occurrences \in Seq(Occurrence)
  /\ solutions \in Seq(Solution)
  /\ j \in 0 .. Len(solutions)
  /\ best \in 0 .. Len(solutions)
  /\ res \in Seq(1 .. Len(Occurrences) + 1)
  /\ next \in 0 .. Len(res)
  /\ kept \in Seq(Occurrence)
  /\ dropped \in Seq(Occurrence)

----------------------------------------------------------------------------

\* Two groups are taken to be better than one.
WorseFewer(s, t) ==
  \/ s.coverage < t.coverage
  \/ /\ s.coverage = t.coverage
     /\ \/ s.weight < t.weight
        \/ s.weight = t.weight /\ Len(s.picked) < Len(t.picked)

\* CPeriodSolutionWeight::operator <
Worse(s, t) ==
  \/ s.coverage < t.coverage
  \/ /\ s.coverage = t.coverage
     /\ \/ s.weight < t.weight
        \/ s.weight = t.weight /\ Len(s.picked) > Len(t.picked)

\* The empty selection, its virtual group pointed at the occurrence to come.
NewSolution(o) == [picked |-> <<>>, group |-> NewGroup(o), coverage |-> 0, weight |-> 0]

\* The words an occurrence counts for: its item's coverage, or its length.
CoverageOf(o) ==
  IF o.item # NoItem /\ GetCoverage(o.item) # 0
  THEN GetCoverage(o.item) ELSE o.second - o.first

\* CPeriodSolutionWeight::AddOccurrence: without an item the group stays as it is.
AddOccurrence(s, o, index) ==
  LET group == IF o.item = NoItem THEN s.group ELSE AddWeightOfChild(s.group, o)
  IN  [picked   |-> Append(s.picked, index),
       group    |-> group,
       coverage |-> s.coverage + CoverageOf(o),
       weight   |-> IF o.item = NoItem THEN s.weight ELSE GetWeight(group)]

----------------------------------------------------------------------------

\* The vector is ordered by left border instead.
LeftBorderFirst(o, p) ==
  IF o.first = p.first THEN o.second < p.second ELSE o.first < p.first

\* SortByRightBorderPredicate
RightBorderFirst(o, p) ==
  IF o.second = p.second THEN o.first < p.first ELSE o.second < p.second

\* std::sort leaves equal elements in any order.
Sorted(s) == \A a, b \in DOMAIN s : a < b => ~RightBorderFirst(s[b], s[a])

\* Occurrence k ends before the current one starts.
Clear(k) == Occurrences[k].second <= Occurrences[i].first

\* The selection that takes the current occurrence, on top of the one the inner
\* loop stopped at.
WithCurrent ==
  AddOccurrence(IF j = 0 THEN NewSolution(Occurrences[i]) ELSE solutions[j],
                Occurrences[i], i)

----------------------------------------------------------------------------

Init ==
  /\ pc = "sort"
  /\ Occurrences \in Inputs
  /\ solutions = <<>>
  /\ j = 0
  /\ best = 0
  /\ res = <<>>
  /\ next = 0
  /\ kept = <<>>
  /\ dropped = <<>>

\* No occurrence, or a single one, is its own answer.
Trivial ==
  /\ pc = "sort"
  /\ Len(Occurrences) < 2
  /\ pc' = "select"
  /\ res' = [k \in 1 .. Len(Occurrences) |-> k]
  /\ UNCHANGED <<Occurrences, solutions, j, best, next, kept, dropped>>

Sort ==
  /\ pc = "sort"
  /\ Len(Occurrences) >= 2
  /\ \E p \in Bijection(DOMAIN Occurrences, DOMAIN Occurrences) :
       /\ Occurrences' = [k \in 1 .. Len(Occurrences) |-> Occurrences[p[k]]]
       /\ Sorted(Occurrences')
  /\ pc' = "look"
  /\ UNCHANGED <<solutions, j, best, res, next, kept, dropped>>

\* A turn of the inner loop at an overlapping occurrence: an equal selection does
\* not replace the best one met so far.
Overlapping ==
  /\ pc = "look"
  /\ j > 0
  /\ ~Clear(j)
  /\ best' = IF best = 0 \/ Worse(solutions[best], solutions[j]) THEN j ELSE best
  /\ j' = j - 1
  /\ UNCHANGED <<pc, Occurrences, solutions, res, next, kept, dropped>>

\* The inner loop stops at an occurrence that does not intersect, or at the first.
StopLooking ==
  /\ pc = "look"
  /\ j # 0 => Clear(j)
  /\ pc' = "put"
  /\ UNCHANGED <<Occurrences, solutions, j, best, res, next, kept, dropped>>

\* The selection with the current occurrence, or the overlapping one if that is
\* still better; then the next occurrence, or the answer.
Put ==
  /\ pc = "put"
  /\ solutions' = Append(solutions,
       IF best # 0 /\ Worse(WithCurrent, solutions[best])
       THEN solutions[best] ELSE WithCurrent)
  /\ best' = 0
  /\ IF i < Len(Occurrences)
     THEN pc' = "look" /\ j' = i /\ UNCHANGED res
     ELSE pc' = "select" /\ j' = 0 /\ res' = solutions'[i].picked
  /\ UNCHANGED <<Occurrences, next, kept, dropped>>

\* With every occurrence chosen the vector stays as it is.
Kept(chosen) ==
  IF Len(chosen) = Len(Occurrences) THEN Occurrences
  ELSE [k \in 1 .. Len(chosen) |-> Occurrences[chosen[k]]]

\* SolveAmbiguity(Occurrences)
Keep ==
  /\ pc = "select"
  /\ pc' = "kept"
  /\ kept' = Kept(res)
  /\ UNCHANGED <<Occurrences, solutions, j, best, res, next, dropped>>

\* SolveAmbiguity(Occurrences, DroppedOccurrences): the indices are sorted and
\* closed with one past the end before the scan for what is not among them.
KeepAndDrop ==
  /\ pc = "select"
  /\ \E p \in Bijection(DOMAIN res, DOMAIN res) :
       LET chosen == [k \in 1 .. Len(res) |-> res[p[k]]]
       IN  /\ \A a, b \in DOMAIN chosen : a < b => ~(chosen[b] < chosen[a])
           /\ kept' = Kept(chosen)
           /\ IF Len(res) = Len(Occurrences)
              THEN pc' = "split" /\ UNCHANGED res
              ELSE pc' = "scan" /\ res' = Append(chosen, Len(Occurrences) + 1)
  /\ UNCHANGED <<Occurrences, solutions, j, best, next, dropped>>

\* The scan keeps waiting for the first chosen index.
IsFirst(n) == n = res[1]

\* Occurrence n is the next chosen one.
IsNext(n) == n = res[next + 1]

Scan ==
  /\ pc = "scan"
  /\ j < Len(Occurrences)
  /\ j' = j + 1
  /\ IF IsNext(j + 1)
     THEN next' = next + 1 /\ UNCHANGED dropped
     ELSE dropped' = Append(dropped, Occurrences[j + 1]) /\ UNCHANGED next
  /\ UNCHANGED <<pc, Occurrences, solutions, best, res, kept>>

EndScan ==
  /\ pc = "scan"
  /\ j = Len(Occurrences)
  /\ pc' = "split"
  /\ UNCHANGED <<Occurrences, solutions, j, best, res, next, kept, dropped>>

Next ==
  \/ Trivial \/ Sort \/ Overlapping \/ StopLooking \/ Put
  \/ Keep \/ KeepAndDrop \/ Scan \/ EndScan

Spec == Init /\ [][Next]_vars

----------------------------------------------------------------------------

(* What the fact interpretation and the multiword substitution build on: the
   kept occurrences come from left to right and no two of them share a word,
   whichever way SolveAmbiguity was called. *)
KeptAreDisjoint ==
  pc \in {"kept", "split"} =>
    \A a, b \in DOMAIN kept : a < b => kept[a].second <= kept[b].first

\* How often an occurrence is found in a vector.
Count(s, o) == Cardinality({k \in DOMAIN s : s[k] = o})

(* The overload that reports what it drops loses nothing and reports nothing
   that was kept: each occurrence is in one of the two vectors, as often as it
   was found. *)
KeptOrDropped ==
  pc = "split" =>
    \A o \in Range(Occurrences) : Count(Occurrences, o) = Count(kept, o) + Count(dropped, o)

=============================================================================
