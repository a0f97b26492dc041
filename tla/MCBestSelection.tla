---------------------------- MODULE MCBestSelection ----------------------------
(***************************************************************************)
(* Bounds for BestSelection: every vector of up to MaxOccurrences          *)
(* occurrences in a sentence of Words words.  Item "group" counts for its  *)
(* length, item "commas" for one word however long it is.  The weight of a *)
(* virtual group rises and falls as items join it.                         *)
(***************************************************************************)
EXTENDS BestSelection

CONSTANTS MaxOccurrences

MCItems == {"group", "commas"}
MCGetCoverage(item) == IF item = "commas" THEN 1 ELSE 0

MCGroups == 0 .. 4
MCNewGroup(o) == 2
MCAddWeightOfChild(g, o) == (2 * g + IF o.item = "commas" THEN 1 ELSE o.second) % 5
MCGetWeight(g) == g

\* std::sort may start from any order, so one order of each vector is enough.
MCInputs ==
  {s \in UNION {[1 .. n -> Occurrence] : n \in 0 .. MaxOccurrences} : Sorted(s)}
=============================================================================
