----------------------------- MODULE BestSelection -----------------------------
(***************************************************************************)
(* What SolveAmbiguity promises of the selection it keeps.  A rival walks  *)
(* through the sorted occurrences beside the loop and puts together any    *)
(* disjoint selection it likes: every disjoint selection is one of its     *)
(* choices, so whatever holds against the rival holds against them all.    *)
(* The rival is an observer: it reads the occurrences and changes nothing  *)
(* of SolveAmbiguity.                                                      *)
(***************************************************************************)
EXTENDS SolveAmbiguity

VARIABLES last,     \* the last occurrence the rival took; 0 before the first
          covered,  \* the words its selection counts for
          groups    \* how many occurrences it took

rivalVars == <<last, covered, groups>>

RInit == Init /\ last = 0 /\ covered = 0 /\ groups = 0

\* The rival takes the occurrence the loop is at, if it is clear of its last one.
Take ==
  /\ Put
  /\ last # 0 => Clear(last)
  /\ last' = i
  /\ covered' = covered + CoverageOf(Occurrences[i])
  /\ groups' = groups + 1

Pass == Put /\ UNCHANGED rivalVars

Other ==
  /\ Trivial \/ Sort \/ Overlapping \/ StopLooking
     \/ Keep \/ KeepAndDrop \/ Scan \/ EndScan
  /\ UNCHANGED rivalVars

RNext == Take \/ Pass \/ Other

RSpec == RInit /\ [][RNext]_<<vars, rivalVars>>

----------------------------------------------------------------------------

\* No occurrence carries an item, as for the multiwords.
Plain == \A k \in DOMAIN Occurrences : Occurrences[k].item = NoItem

(* The longest match: when the loop is over, no disjoint selection covers more
   words than the answer, whatever the weights are; and among plain occurrences
   none covers as much with fewer groups ("two groups are worse than one",
   CPeriodSolutionWeight::operator <). *)
BestIsKept ==
  (pc = "select" /\ solutions # <<>>) =>
    LET answer == solutions[Len(solutions)]
    IN  /\ res = answer.picked
        /\ covered <= answer.coverage
        /\ Plain /\ covered = answer.coverage => Len(res) <= groups

=============================================================================
