--------------------------- MODULE GLRParserProofs ---------------------------
(***************************************************************************)
(* Proofs about GLRParser, for every table, sentence, limit and agreement. *)
(*                                                                         *)
(* The parser reads a word in a closure set of its stack: the state nodes  *)
(* that the last shift made and those that reductions add.  What lies      *)
(* below is never touched, and every symbol node stands where the table    *)
(* has a transition.  From this the walk of a reduction down the stack     *)
(* always spells the right part of its rule and finds the words without a  *)
(* gap, and no reduction is carried out twice.                             *)
(***************************************************************************)
EXTENDS GLRParser, FiniteSetTheorems, WellFoundedInduction, NaturalsInduction, TLAPS

-----------------------------------------------------------------------------
(* The inductive invariant                                                 *)

\* A sequence, of whatever.
IsSeq(s) == s \in Seq({s[i] : i \in DOMAIN s})

Parse == [rule : DOMAIN table.rules, items : Seq(Nat)]

IsSymbolNode(node) ==
    /\ node = [symbol |-> node.symbol, item |-> node.item, start |-> node.start,
               end |-> node.end, down |-> node.down, parses |-> node.parses]
    /\ node.start \in Nat /\ node.end \in Nat
    /\ node.down \in (SUBSET StateNodeNos) \ {{}}
    /\ node.parses \in Seq(Parse)

InputInv ==
    /\ IsTable(table)
    /\ Endmark \in Readings(table)
    /\ words \in Seq(SUBSET Readings(table))
    /\ breakAfterMax \in BOOLEAN
    /\ pc \in {"word", "loop", "paths", "shift", "found", "done"}
    /\ wordNo \in 1..(Len(words) + 1)

ShapeInv ==
    /\ StateNodes \in Seq([state : States, children : SUBSET Nat])
    /\ Len(StateNodes) >= 1
    /\ StateNodes[1] = [state |-> 1, children |-> {}]
    /\ \A v \in StateNodeNos : StateNodes[v].children \subseteq SymbolNodeNos
    /\ IsSeq(SymbolNodes)
    /\ \A s \in SymbolNodeNos : IsSymbolNode(SymbolNodes[s])

\* The first node of the closure set that is being built.
CurrentFirst == IF Len(InputLevels) > 1 THEN InputLevels[Len(InputLevels) - 1] + 1 ELSE 1

LevelInv ==
    /\ InputLevels \in Seq(Nat)
    /\ Len(InputLevels) >= 1
    /\ InputLevels[1] >= 1
    /\ \A i, j \in DOMAIN InputLevels : i <= j => InputLevels[i] <= InputLevels[j]
    /\ Back(InputLevels) <= Len(StateNodes)
    /\ pc \in {"word", "loop", "paths"} => Len(InputLevels) = wordNo
    /\ pc = "shift" => /\ Len(InputLevels) = wordNo + 1
                       /\ InputLevels[Len(InputLevels) - 1] = Back(InputLevels)
    /\ pc = "word" => Back(InputLevels) = Len(StateNodes)
    /\ Len(InputLevels) = 1 => Len(StateNodes) = 1

\* Where a symbol node stands in the input.
StackInv ==
    /\ \A s \in SymbolNodeNos :
          /\ SymbolNodes[s].start < SymbolNodes[s].end
          /\ SymbolNodes[s].end <= Len(words)
          /\ \A d \in SymbolNodes[s].down : d # 1 => Border(d) = SymbolNodes[s].start
          /\ \E v \in StateNodeNos :
                s \in StateNodes[v].children /\ Border(v) = SymbolNodes[s].end
    /\ \A u, v \in StateNodeNos : \A s \in StateNodes[u].children :
          s \in StateNodes[v].children => u = v
    /\ \A v \in StateNodeNos : v # 1 => StateNodes[v].children # {}

\* A symbol node is a transition of the table.
LinkInv ==
    \A v \in StateNodeNos : \A s \in StateNodes[v].children : \A d \in SymbolNodes[s].down :
        /\ HasGoto(StateNodes[d].state, SymbolNodes[s].symbol)
        /\ Goto(StateNodes[d].state, SymbolNodes[s].symbol) = StateNodes[v].state

StateInv ==
    \A u, v \in StateNodeNos :
        (Border(u) = Border(v) /\ StateNodes[u].state = StateNodes[v].state) => u = v

\* The symbol node of a word is alone under its state node, and the state nodes
\* that the last shift made have no other.
LeafInv ==
    /\ \A v \in StateNodeNos : \A s, t \in StateNodes[v].children :
          SymbolNodes[s].parses = <<>> => s = t
    /\ \A v \in StateNodeNos :
          (v >= CurrentFirst /\ (pc = "shift" \/ v <= Back(InputLevels))) =>
              \A s \in StateNodes[v].children : SymbolNodes[s].parses = <<>>

\* A parse is an application of its rule to the nodes it is made of, and gives
\* the node.
Derives(node, parse) ==
    LET items == parse.items
        rule  == table.rules[parse.rule]
    IN  /\ items \in Seq(SymbolNodeNos)
        /\ rule.left = node.symbol
        /\ Len(items) = Len(rule.right)
        /\ \A k \in DOMAIN items : SymbolNodes[items[k]].symbol = rule.right[k]
        /\ SymbolNodes[items[1]].start = node.start
        /\ SymbolNodes[Back(items)].end = node.end
        /\ \A k \in 1..(Len(items) - 1) :
              SymbolNodes[items[k]].end = SymbolNodes[items[k + 1]].start
        /\ node.item = CreateNewItem(rule, [k \in DOMAIN items |-> SymbolNodes[items[k]].item])

\* A word read as its terminal.
IsLeaf(node) ==
    /\ node.end = node.start + 1
    /\ node.symbol \in words[node.end]
    /\ node.item = LeafItem(node.symbol)

ParseInv ==
    \A s \in SymbolNodeNos :
        /\ SymbolNodes[s].parses = <<>> => IsLeaf(SymbolNodes[s])
        /\ \A i \in DOMAIN SymbolNodes[s].parses :
              Derives(SymbolNodes[s], SymbolNodes[s].parses[i])
        /\ \A i \in DOMAIN SymbolNodes[s].parses :
              i = 1 => \A k \in DOMAIN SymbolNodes[s].parses[i].items :
                           SymbolNodes[s].parses[i].items[k] < s
        /\ SymbolNodes[s].parses # <<>> => \E d \in StateNodeNos : SymbolNodes[s].down = {d}

PackInv ==
    ~TooManyNodes(SymbolNodes) =>
        \A v \in StateNodeNos : \A s, t \in StateNodes[v].children :
            (/\ SymbolNodes[s].item = SymbolNodes[t].item
             /\ SymbolNodes[s].start = SymbolNodes[t].start
             /\ SymbolNodes[s].down \cap SymbolNodes[t].down # {}) => s = t

\* A reduction that can be carried out, in the closure set being built.
CanReduce(red) ==
    /\ red \in [rule : DOMAIN table.rules, symbol : SymbolNodeNos, last : StateNodeNos]
    /\ red.symbol \in StateNodes[red.last].children
    /\ Border(red.last) = Len(InputLevels) - 1
    /\ <<red.rule, RuleLength(red.rule)>> \in table.items[StateNodes[red.last].state]

PendingInv ==
    /\ ActiveNodes \subseteq StateNodeNos
    /\ \A v \in ActiveNodes : v = 1 \/ Border(v) = Len(InputLevels) - 1
    /\ pc \in {"word", "shift"} => ActiveNodes = {} /\ PendingReductions = {}
    /\ \A red \in PendingReductions : CanReduce(red)
    /\ pc # "paths" => todo = {}
    /\ pc = "paths" =>
          /\ CanReduce(reduction)
          /\ reduction \notin PendingReductions
          /\ reduction.last \notin ActiveNodes
          /\ todo \subseteq Paths(reduction)

\* A shift that can be carried out.
CanShift(shift) ==
    /\ shift.from \in StateNodeNos
    /\ HasGoto(StateNodes[shift.from].state, shift.symbol)
    /\ shift.to = Goto(StateNodes[shift.from].state, shift.symbol)
    /\ shift.symbol \in Symbols
    /\ shift.from # 1 => Border(shift.from) = wordNo - 1

ShiftInv ==
    /\ \A shift \in PendingShifts : CanShift(shift)
    /\ pc = "word" => PendingShifts = {}

\* The reduction that made a parse of symbol node s is over, as far as the path
\* of the parse goes.
IsOver(s, parse) ==
    /\ \A v \in ActiveNodes : Back(parse.items) \notin StateNodes[v].children
    /\ \A red \in PendingReductions :
          ~(red.rule = parse.rule /\ red.symbol = Back(parse.items))
    /\ pc = "paths" /\ reduction.rule = parse.rule =>
          \A path \in todo :
              ~(RightPart(path) = parse.items /\ path.bottom \in SymbolNodes[s].down)

OnceInv ==
    \A s \in SymbolNodeNos : \A i \in DOMAIN SymbolNodes[s].parses :
        /\ IsOver(s, SymbolNodes[s].parses[i])
        /\ \A j \in DOMAIN SymbolNodes[s].parses :
              SymbolNodes[s].parses[j] = SymbolNodes[s].parses[i] => i = j

LimitInv ==
    TooMany(SymbolNodes, createdGroups) =>
        /\ pc = "shift" => Len(StateNodes) > Back(InputLevels)
        /\ pc = "word" => LastClosure # {}
        /\ pc = "loop" => ActiveNodes # {}

IInv ==
    /\ InputInv /\ ShapeInv /\ LevelInv /\ StackInv /\ LinkInv /\ StateInv
    /\ LeafInv /\ ParseInv /\ PackInv /\ PendingInv /\ ShiftInv /\ OnceInv /\ LimitInv

-----------------------------------------------------------------------------
(* Numbers and sequences                                                   *)

\* A set of natural numbers has a least element.
LEMMA LeastNatural ==
    ASSUME NEW T \in SUBSET Nat, T # {}
    PROVE  \E m \in T : \A k \in T : m <= k
<1> DEFINE R == OpToRel(<, Nat)
<1>1. IsWellFoundedOn(R, Nat)
  BY NatLessThanWellFounded
<1>2. PICK m \in T : \A k \in T : ~ (<<k, m>> \in R)
  <2> HIDE DEF R
  <2> QED BY <1>1, WFMin
<1>3. \A k \in T : m <= k
  <2> TAKE k \in T
  <2>1. <<k, m>> \notin R  BY <1>2
  <2>2. ~(k < m)  BY <2>1 DEF OpToRel
  <2> QED BY <2>2
<1> QED BY <1>3

\* A set that holds 1, and with each number the next, holds the numbers up to n.
LEMMA UpInduction ==
    ASSUME NEW n \in Nat, NEW S, 1 \in S,
           \A i \in 1..n : (i + 1 \in 1..n /\ i \in S) => i + 1 \in S
    PROVE  \A i \in 1..n : i \in S
<1> DEFINE T == {i \in 1..n : i \notin S}
<1> SUFFICES ASSUME T # {} PROVE FALSE  OBVIOUS
<1>1. PICK m \in T : \A k \in T : m <= k
  <2>1. T \in SUBSET Nat  OBVIOUS
  <2> HIDE DEF T
  <2> QED BY <2>1, LeastNatural
<1>2. m \in 1..n /\ m # 1 /\ m \notin S  BY <1>1
<1>3. m - 1 \in 1..n /\ m - 1 \notin T  BY <1>1, <1>2
<1> QED BY <1>2, <1>3

LEMMA Appended ==
    ASSUME NEW s, IsSeq(s), NEW e
    PROVE  /\ IsSeq(Append(s, e))
           /\ Len(s) \in Nat /\ DOMAIN s = 1..Len(s)
           /\ Len(Append(s, e)) = Len(s) + 1
           /\ \A i \in 1..Len(s) : Append(s, e)[i] = s[i]
           /\ Append(s, e)[Len(s) + 1] = e
<1> DEFINE A == {s[i] : i \in DOMAIN s} \cup {e}
           t == Append(s, e)
<1>1. s \in Seq(A) /\ e \in A  BY DEF IsSeq
<1> HIDE DEF A
<1>2. /\ t \in Seq(A) /\ Len(t) = Len(s) + 1 /\ Len(s) \in Nat
      /\ DOMAIN s = 1..Len(s) /\ DOMAIN t = 1..Len(t)
      /\ \A i \in 1..Len(s) : t[i] = s[i]
      /\ t[Len(s) + 1] = e
  BY <1>1
<1>3. IsSeq(t)
  <2> HIDE DEF t
  <2>1. \A i \in 1..Len(t) : t[i] \in {t[j] : j \in DOMAIN t}  BY <1>2
  <2>2. t = [i \in 1..Len(t) |-> t[i]]  BY <1>2
  <2>3. Len(t) \in Nat  BY <1>2
  <2> QED BY <2>1, <2>2, <2>3 DEF IsSeq
<1> QED BY <1>2, <1>3

\* A function over 1..n is a sequence.
LEMMA SeqOfFunction ==
    ASSUME NEW n \in Nat, NEW f, f = [i \in 1..n |-> f[i]]
    PROVE  IsSeq(f) /\ Len(f) = n /\ DOMAIN f = 1..n
<1>1. \A i \in 1..n : f[i] \in {f[j] : j \in DOMAIN f}  OBVIOUS
<1>2. f \in [1..n -> {f[j] : j \in DOMAIN f}]  BY <1>1
<1>3. f \in Seq({f[j] : j \in DOMAIN f})  BY <1>2
<1> QED BY <1>2, <1>3 DEF IsSeq

LEMMA SeqFacts ==
    ASSUME NEW s, IsSeq(s)
    PROVE  Len(s) \in Nat /\ DOMAIN s = 1..Len(s) /\ s = [i \in 1..Len(s) |-> s[i]]
  BY DEF IsSeq

\* A sequence of numbers with another last one.
LEMMA Raised ==
    ASSUME NEW s \in Seq(Nat), NEW n, n = Len(s), n >= 1, NEW x \in Nat,
           NEW t, t = [s EXCEPT ![n] = x]
    PROVE  /\ t \in Seq(Nat) /\ Len(t) = n /\ DOMAIN t = 1..n /\ DOMAIN s = 1..n
           /\ n \in Nat \ {0}
           /\ t[n] = x /\ \A i \in 1..n : i # n => t[i] = s[i]
<1>1. s \in [1..n -> Nat] /\ n \in Nat  OBVIOUS
<1>2. t \in [1..n -> Nat]  BY <1>1
<1>3. t[n] = x /\ \A i \in 1..n : i # n => t[i] = s[i]  BY <1>1
<1>4. t \in Seq(Nat) /\ Len(t) = n  BY <1>1, <1>2
<1> QED BY <1>1, <1>2, <1>3, <1>4

-----------------------------------------------------------------------------
(* The table                                                               *)

LEMMA GotoFacts ==
    ASSUME InputInv, NEW i, NEW X, HasGoto(i, X)
    PROVE  /\ Goto(i, X) \in States /\ Goto(i, X) # 1
           /\ X # Endmark
           /\ \A j, Y : HasGoto(j, Y) /\ Goto(j, Y) = Goto(i, X) => X = Y
           /\ \A r \in DOMAIN table.rules : \A k \in 1..RuleLength(r) :
                 <<r, k>> \in table.items[Goto(i, X)] =>
                     table.rules[r].right[k] = X /\ <<r, k - 1>> \in table.items[i]
<1> DEFINE p == <<i, X>>
<1>1. p \in DOMAIN table.goto /\ p[1] = i /\ p[2] = X  BY DEF HasGoto
<1>2. /\ p[2] # Endmark
      /\ table.goto[p] \in table.states \ {1}
      /\ \A q \in DOMAIN table.goto : table.goto[p] = table.goto[q] => p[2] = q[2]
      /\ \A r \in DOMAIN table.rules : \A k \in 1..Len(table.rules[r].right) :
            <<r, k>> \in table.items[table.goto[p]] =>
                table.rules[r].right[k] = p[2] /\ <<r, k - 1>> \in table.items[p[1]]
  BY <1>1 DEF InputInv, IsTable
<1>3. ASSUME NEW j, NEW Y, HasGoto(j, Y), Goto(j, Y) = Goto(i, X)
      PROVE  X = Y
  <2>1. <<j, Y>> \in DOMAIN table.goto /\ <<j, Y>>[2] = Y  BY <1>3 DEF HasGoto
  <2> QED BY <1>1, <1>2, <1>3, <2>1 DEF Goto
<1> QED BY <1>1, <1>2, <1>3 DEF Goto, States, RuleLength

LEMMA RuleFacts ==
    ASSUME InputInv, NEW r \in DOMAIN table.rules
    PROVE  /\ RuleLength(r) \in Nat \ {0}
           /\ \A k \in 1..RuleLength(r) : <<r, k>> \notin table.items[1]
           /\ \A i \in States :
                 <<r, 0>> \in table.items[i] => HasGoto(i, table.rules[r].left)
           /\ table.rules[r].left \notin Readings(table)
  BY DEF InputInv, IsTable, RuleLength, States, HasGoto, Readings

LEMMA SymbolsFacts ==
    ASSUME InputInv
    PROVE  /\ Symbols \subseteq Readings(table)
           /\ \A X \in Symbols : X # Endmark =>
                 wordNo \in 1..Len(words) /\ X \in words[wordNo]
           /\ 1 \in States
           /\ Len(words) \in Nat /\ wordNo \in Nat \ {0}
           /\ \A w \in 1..Len(words) : words[w] \subseteq Readings(table)
<1>1. words \in Seq(SUBSET Readings(table))  BY DEF InputInv
<1>2. Len(words) \in Nat /\ \A w \in 1..Len(words) : words[w] \in SUBSET Readings(table)
  BY <1>1
<1>3. wordNo \in 1..(Len(words) + 1) /\ Endmark \in Readings(table)  BY DEF InputInv
<1>4. 1 \in States  BY DEF InputInv, IsTable, States
<1> QED BY <1>2, <1>3, <1>4 DEF Symbols

LEMMA ReductionsFacts ==
    ASSUME InputInv, NEW i \in States, NEW r \in Reductions(i)
    PROVE  r \in DOMAIN table.rules /\ <<r, RuleLength(r)>> \in table.items[i]
<1>1. PICK X \in Symbols : r \in table.reduce[<<i, X>>]  BY DEF Reductions
<1>2. X \in Readings(table)  BY <1>1, SymbolsFacts
<1> QED BY <1>1, <1>2 DEF InputInv, IsTable, RuleLength, States

-----------------------------------------------------------------------------
(* Borders                                                                 *)

\* The borders are numbered from 0; the last is that of the closure set which
\* is being built.
LEMMA BorderFacts ==
    ASSUME LevelInv, NEW v \in Nat \ {0}
    PROVE  /\ Border(v) \in Nat /\ Border(v) <= Len(InputLevels) - 1
           /\ Border(v) = Len(InputLevels) - 1 <=> v >= CurrentFirst
<1> DEFINE n == Len(InputLevels)
           S == {i \in DOMAIN InputLevels : i < n /\ InputLevels[i] < v}
<1>1. n \in Nat \ {0} /\ DOMAIN InputLevels = 1..n /\ \A i \in 1..n : InputLevels[i] \in Nat
  BY DEF LevelInv
<1>2. S \in SUBSET (1..(n - 1)) /\ n - 1 \in Nat  BY <1>1
<1>3. IsFiniteSet(1..(n - 1)) /\ Cardinality(1..(n - 1)) = n - 1
  <2> HIDE DEF n
  <2>1. n - 1 \in Int /\ 1 \in Int /\ n \in Nat \ {0}  BY <1>1
  <2>2. Cardinality(1..(n - 1)) = IF 1 > n - 1 THEN 0 ELSE n - 1 - 1 + 1
    BY <2>1, FS_Interval
  <2> QED BY <2>1, <2>2, FS_Interval
<1>4. /\ IsFiniteSet(S) /\ Cardinality(S) <= n - 1
      /\ Cardinality(S) = n - 1 <=> S = 1..(n - 1)
  <2> HIDE DEF n, S
  <2> QED BY <1>2, <1>3, FS_Subset
<1>5. Cardinality(S) \in Nat
  <2> HIDE DEF S
  <2> QED BY <1>4, FS_CardinalityType
<1>6. S = 1..(n - 1) <=> v >= CurrentFirst
  <2>1. CASE n = 1
    BY <1>1, <2>1 DEF CurrentFirst
  <2>2. CASE n > 1
    <3>1. n - 1 \in 1..n /\ CurrentFirst = InputLevels[n - 1] + 1
      BY <1>1, <2>2 DEF CurrentFirst
    <3>2. \A i \in 1..(n - 1) : InputLevels[i] <= InputLevels[n - 1]
      <4>1. \A i, j \in DOMAIN InputLevels : i <= j => InputLevels[i] <= InputLevels[j]
        BY DEF LevelInv
      <4> HIDE DEF n
      <4> QED BY <1>1, <3>1, <4>1
    <3>3. ASSUME v >= CurrentFirst PROVE S = 1..(n - 1)
      <4>1. \A i \in 1..(n - 1) : i \in DOMAIN InputLevels /\ i < n /\ InputLevels[i] < v
        BY <1>1, <3>1, <3>2, <3>3
      <4> QED BY <1>2, <4>1
    <3>4. ASSUME S = 1..(n - 1) PROVE v >= CurrentFirst
      <4>1. n - 1 \in S  BY <1>1, <2>2, <3>4
      <4> QED BY <1>1, <3>1, <4>1
    <3> QED BY <3>3, <3>4
  <2> QED BY <1>1, <2>1, <2>2
<1> QED BY <1>4, <1>5, <1>6 DEF Border

\* Nothing changes the border of a node that is there.
LEMMA BorderOfClose ==
    ASSUME LevelInv, Len(StateNodes) \in Nat, NEW v \in StateNodeNos,
           InputLevels' = Append([InputLevels EXCEPT ![Len(InputLevels)] = Len(StateNodes)],
                                 Len(StateNodes))
    PROVE  Border(v)' = Border(v)
<1>1. PICK n, top : n = Len(InputLevels) /\ top = Len(StateNodes) /\ top \in Nat
  OBVIOUS
<1>2. PICK old : old = [InputLevels EXCEPT ![n] = top]  OBVIOUS
<1>3. /\ old \in Seq(Nat) /\ Len(old) = n /\ DOMAIN InputLevels = 1..n
      /\ n \in Nat \ {0}
      /\ old[n] = top /\ \A i \in 1..n : i # n => old[i] = InputLevels[i]
  BY <1>1, <1>2, Raised DEF LevelInv
<1>4. InputLevels' = Append(old, top)  BY <1>1, <1>2
<1>5. /\ Len(InputLevels') = n + 1 /\ DOMAIN InputLevels' = 1..(n + 1)
      /\ \A i \in 1..n : InputLevels'[i] = old[i]
  BY <1>1, <1>3, <1>4
<1>6. v \in Nat /\ ~(top < v)  BY <1>1 DEF StateNodeNos
<1>7. {i \in DOMAIN InputLevels' : i < Len(InputLevels') /\ InputLevels'[i] < v}
        = {i \in DOMAIN InputLevels : i < Len(InputLevels) /\ InputLevels[i] < v}
  BY <1>1, <1>3, <1>5, <1>6
<1> QED BY <1>7 DEF Border

LEMMA BorderOfEnd ==
    ASSUME LevelInv, Len(StateNodes) \in Nat, NEW v \in Nat,
           InputLevels' = [InputLevels EXCEPT ![Len(InputLevels)] = Len(StateNodes)]
    PROVE  Border(v)' = Border(v)
<1>1. PICK n : n = Len(InputLevels)  OBVIOUS
<1>2. /\ Len(InputLevels') = n /\ DOMAIN InputLevels' = 1..n /\ DOMAIN InputLevels = 1..n
      /\ n \in Nat \ {0}
      /\ \A i \in 1..n : i # n => InputLevels'[i] = InputLevels[i]
  BY <1>1, Raised DEF LevelInv
<1>3. {i \in DOMAIN InputLevels' : i < Len(InputLevels') /\ InputLevels'[i] < v}
        = {i \in DOMAIN InputLevels : i < Len(InputLevels) /\ InputLevels[i] < v}
  BY <1>1, <1>2
<1> QED BY <1>3 DEF Border

LEMMA BorderUnchanged ==
    ASSUME UNCHANGED InputLevels
    PROVE  \A v : Border(v)' = Border(v)
  BY DEF Border

-----------------------------------------------------------------------------
(* The paths of a reduction                                                *)

LEMMA NodeFacts ==
    ASSUME ShapeInv
    PROVE  /\ Len(StateNodes) \in Nat \ {0} /\ DOMAIN StateNodes = StateNodeNos
           /\ \A v \in StateNodeNos : StateNodes[v] \in [state : States, children : SUBSET Nat]
           /\ Len(SymbolNodes) \in Nat /\ DOMAIN SymbolNodes = SymbolNodeNos
<1>1. PICK R : R = [state : States, children : SUBSET Nat]  OBVIOUS
<1>4. StateNodes \in Seq(R) /\ Len(StateNodes) >= 1  BY <1>1 DEF ShapeInv
<1>5. /\ Len(StateNodes) \in Nat \ {0} /\ DOMAIN StateNodes = 1..Len(StateNodes)
      /\ \A v \in 1..Len(StateNodes) : StateNodes[v] \in R
  BY <1>4
<1>2. IsSeq(SymbolNodes)  BY DEF ShapeInv
<1>3. Len(SymbolNodes) \in Nat /\ DOMAIN SymbolNodes = 1..Len(SymbolNodes)
  BY <1>2, SeqFacts
<1> QED BY <1>1, <1>3, <1>5 DEF StateNodeNos, SymbolNodeNos

\* m symbol nodes, each on top of the next, from the one of the reduction down.
IsChain(q, m, red) ==
    /\ q \in [1..m -> SymbolNodeNos]
    /\ q[1] = red.symbol
    /\ \A i \in 1..(m - 1) : Below(q[i], q[i + 1])

\* What is known under a state that has read k symbols of rule r.
LEMMA StepDown ==
    ASSUME InputInv, ShapeInv, LinkInv,
           NEW r \in DOMAIN table.rules, NEW k \in 1..RuleLength(r),
           NEW v \in StateNodeNos, <<r, k>> \in table.items[StateNodes[v].state],
           NEW s \in StateNodes[v].children
    PROVE  /\ s \in SymbolNodeNos
           /\ SymbolNodes[s].symbol = table.rules[r].right[k]
           /\ SymbolNodes[s].down # {}
           /\ \A d \in SymbolNodes[s].down :
                 /\ d \in StateNodeNos
                 /\ <<r, k - 1>> \in table.items[StateNodes[d].state]
                 /\ k > 1 => d # 1
<1>1. s \in SymbolNodeNos  BY DEF ShapeInv
<1>2. SymbolNodes[s].down \in (SUBSET StateNodeNos) \ {{}}
  BY <1>1 DEF ShapeInv, IsSymbolNode
<1>3. ASSUME NEW d \in SymbolNodes[s].down
      PROVE  /\ SymbolNodes[s].symbol = table.rules[r].right[k]
             /\ <<r, k - 1>> \in table.items[StateNodes[d].state]
  <2>1. /\ HasGoto(StateNodes[d].state, SymbolNodes[s].symbol)
        /\ Goto(StateNodes[d].state, SymbolNodes[s].symbol) = StateNodes[v].state
    BY <1>3 DEF LinkInv
  <2> QED BY <2>1, GotoFacts
<1>4. ASSUME NEW d \in SymbolNodes[s].down, k > 1 PROVE d # 1
  <2>1. RuleLength(r) \in Nat  BY RuleFacts
  <2>2. k - 1 \in 1..RuleLength(r)  BY <1>4, <2>1
  <2>3. <<r, k - 1>> \notin table.items[1]  BY <2>2, RuleFacts
  <2>4. StateNodes[1].state = 1  BY DEF ShapeInv
  <2> QED BY <1>3, <2>3, <2>4
<1> QED BY <1>1, <1>2, <1>3, <1>4

\* Each symbol node of a chain is under a state that has read the right part as
\* far as it goes.
LEMMA ChainFacts ==
    ASSUME InputInv, ShapeInv, LinkInv, NEW red, CanReduce(red),
           NEW n, n = RuleLength(red.rule), NEW m \in 1..n, NEW q, IsChain(q, m, red)
    PROVE  \A i \in 1..m : \E v \in StateNodeNos :
              /\ q[i] \in StateNodes[v].children
              /\ <<red.rule, n + 1 - i>> \in table.items[StateNodes[v].state]
<1> DEFINE P(i) == \E v \in StateNodeNos :
              /\ q[i] \in StateNodes[v].children
              /\ <<red.rule, n + 1 - i>> \in table.items[StateNodes[v].state]
           S == {i \in 1..m : P(i)}
<1>1. red.rule \in DOMAIN table.rules /\ red.last \in StateNodeNos  BY DEF CanReduce
<1>2. n \in Nat \ {0} /\ m \in Nat \ {0}
  <2>1. n \in Nat \ {0}  BY <1>1, RuleFacts
  <2> QED BY <2>1
<1>3. 1 \in S
  <2>1. q[1] = red.symbol  BY DEF IsChain
  <2>2. n + 1 - 1 = n  BY <1>2
  <2>3. P(1)  BY <1>1, <2>1, <2>2 DEF CanReduce
  <2> QED BY <1>2, <2>3
<1>4. ASSUME NEW i \in 1..m, i + 1 \in 1..m, i \in S
      PROVE  i + 1 \in S
  <2>1. PICK v \in StateNodeNos :
              /\ q[i] \in StateNodes[v].children
              /\ <<red.rule, n + 1 - i>> \in table.items[StateNodes[v].state]
    BY <1>4
  <2>2. i \in 1..(m - 1) /\ n + 1 - i \in 1..n /\ (n + 1 - i) - 1 = n + 1 - (i + 1)
    BY <1>2, <1>4
  <2>3. PICK d \in SymbolNodes[q[i]].down : q[i + 1] \in StateNodes[d].children
    BY <2>2 DEF IsChain, Below
  <2>4. PICK k : k = n + 1 - i  OBVIOUS
  <2>5. k \in 1..RuleLength(red.rule) /\ <<red.rule, k>> \in table.items[StateNodes[v].state]
    BY <2>1, <2>2, <2>4
  <2>6. d \in StateNodeNos /\ <<red.rule, k - 1>> \in table.items[StateNodes[d].state]
    BY <1>1, <2>1, <2>3, <2>5, StepDown
  <2>7. P(i + 1)  BY <2>2, <2>3, <2>4, <2>6
  <2> QED BY <1>4, <2>7
<1> HIDE DEF S
<1>5. \A i \in 1..m : i \in S  BY <1>2, <1>3, <1>4, UpInduction
<1> QED BY <1>5 DEF S

\* There is a chain of any length up to that of the right part.
LEMMA ChainExists ==
    ASSUME InputInv, ShapeInv, StackInv, LinkInv, NEW red, CanReduce(red),
           NEW n, n = RuleLength(red.rule)
    PROVE  \E q : IsChain(q, n, red)
<1> DEFINE S == {m \in 1..n : \E q : IsChain(q, m, red)}
<1>1. red.rule \in DOMAIN table.rules /\ red.symbol \in SymbolNodeNos  BY DEF CanReduce
<1>2. n \in Nat \ {0}  BY <1>1, RuleFacts
<1>3. 1 \in S
  <2>1. IsChain([i \in 1..1 |-> red.symbol], 1, red)  BY <1>1 DEF IsChain
  <2> QED BY <1>2, <2>1
<1>4. ASSUME NEW m \in 1..n, m + 1 \in 1..n, m \in S
      PROVE  m + 1 \in S
  <2>1. PICK q : IsChain(q, m, red)  BY <1>4
  <2>2. m \in 1..m /\ m \in Nat \ {0}  BY <1>2
  <2>3. PICK v \in StateNodeNos :
              /\ q[m] \in StateNodes[v].children
              /\ <<red.rule, n + 1 - m>> \in table.items[StateNodes[v].state]
    BY <2>1, <2>2, ChainFacts
  <2>4. PICK k : k = n + 1 - m  OBVIOUS
  <2>5. k \in 1..RuleLength(red.rule) /\ k > 1  BY <1>2, <1>4, <2>4
  <2>6. /\ SymbolNodes[q[m]].down # {}
        /\ \A d \in SymbolNodes[q[m]].down : d \in StateNodeNos /\ d # 1
    <3>1. <<red.rule, k>> \in table.items[StateNodes[v].state]  BY <2>3, <2>4
    <3>2. PICK s : s = q[m] /\ s \in StateNodes[v].children  BY <2>3
    <3>3. k \in 1..RuleLength(red.rule)  BY <2>5
    <3>4. /\ SymbolNodes[s].symbol = table.rules[red.rule].right[k]
          /\ SymbolNodes[s].down # {}
          /\ \A d \in SymbolNodes[s].down :
                /\ d \in StateNodeNos
                /\ <<red.rule, k - 1>> \in table.items[StateNodes[d].state]
                /\ k > 1 => d # 1
      BY <1>1, <3>1, <3>2, <3>3, StepDown
    <3> QED BY <2>5, <3>2, <3>4
  <2>7. PICK d \in SymbolNodes[q[m]].down : d \in StateNodeNos /\ d # 1  BY <2>6
  <2>8. PICK t : t \in StateNodes[d].children  BY <2>7 DEF StackInv
  <2>9. t \in SymbolNodeNos  BY <2>7, <2>8 DEF ShapeInv
  <2> DEFINE p == [i \in 1..(m + 1) |-> IF i = m + 1 THEN t ELSE q[i]]
  <2>10. /\ q \in [1..m -> SymbolNodeNos] /\ q[1] = red.symbol
         /\ \A i \in 1..(m - 1) : Below(q[i], q[i + 1])
    BY <2>1 DEF IsChain
  <2>11. p \in [1..(m + 1) -> SymbolNodeNos]  BY <2>2, <2>9, <2>10
  <2>12. p[1] = red.symbol  BY <2>2, <2>10
  <2>13. ASSUME NEW i \in 1..((m + 1) - 1) PROVE Below(p[i], p[i + 1])
    <3>1. CASE i = m
      <4>1. p[i] = q[m] /\ p[i + 1] = t  BY <2>2, <3>1
      <4>2. Below(q[m], t)  BY <2>7, <2>8 DEF Below
      <4> QED BY <4>1, <4>2
    <3>2. CASE i # m
      <4>1. i \in 1..(m - 1) /\ p[i] = q[i] /\ p[i + 1] = q[i + 1]  BY <2>2, <3>2
      <4> QED BY <2>10, <4>1
    <3> QED BY <3>1, <3>2
  <2>14. IsChain(p, m + 1, red)
    <3> HIDE DEF p
    <3> QED BY <2>11, <2>12, <2>13 DEF IsChain
  <2> QED BY <1>4, <2>14
<1> HIDE DEF S
<1>5. n \in S
  <2>1. \A i \in 1..n : i \in S  BY <1>2, <1>3, <1>4, UpInduction
  <2> QED BY <1>2, <2>1
<1> QED BY <1>5 DEF S

\* The elements of Paths.
LEMMA PathsElement ==
    ASSUME NEW red, NEW path
    PROVE  path \in Paths(red) <=>
              \E q, w : /\ path = [symbols |-> q, bottom |-> w]
                        /\ IsChain(q, RuleLength(red.rule), red)
                        /\ w \in SymbolNodes[q[RuleLength(red.rule)]].down
  BY DEF Paths, IsChain, SymbolNodeNos

\* A path spells the right part, without a gap, and ends at a state with a
\* transition for the left part.
LEMMA PathFacts ==
    ASSUME InputInv, ShapeInv, StackInv, LinkInv, NEW red, CanReduce(red),
           NEW path \in Paths(red), NEW n, n = RuleLength(red.rule),
           NEW q, q = path.symbols
    PROVE  /\ n \in Nat \ {0}
           /\ path = [symbols |-> path.symbols, bottom |-> path.bottom]
           /\ q \in [1..n -> SymbolNodeNos] /\ q[1] = red.symbol
           /\ \A i \in 1..n : SymbolNodes[q[i]].symbol = table.rules[red.rule].right[n + 1 - i]
           /\ \A i \in 1..(n - 1) : SymbolNodes[q[i]].start = SymbolNodes[q[i + 1]].end
           /\ path.bottom \in SymbolNodes[q[n]].down /\ path.bottom \in StateNodeNos
           /\ HasGoto(StateNodes[path.bottom].state, table.rules[red.rule].left)
<1>1. red.rule \in DOMAIN table.rules  BY DEF CanReduce
<1>2. n \in Nat \ {0} /\ n \in 1..n
  <2>1. n \in Nat \ {0}  BY <1>1, RuleFacts
  <2> QED BY <2>1
<1>3. /\ path = [symbols |-> path.symbols, bottom |-> path.bottom]
      /\ IsChain(q, n, red) /\ path.bottom \in SymbolNodes[q[n]].down
  <2>1. PICK p, w : /\ path = [symbols |-> p, bottom |-> w]
                    /\ IsChain(p, n, red) /\ w \in SymbolNodes[p[n]].down
    BY PathsElement
  <2>2. p = q /\ w = path.bottom  BY <2>1
  <2> QED BY <2>1, <2>2
<1>4. /\ q \in [1..n -> SymbolNodeNos] /\ q[1] = red.symbol
      /\ \A i \in 1..(n - 1) : Below(q[i], q[i + 1])
  BY <1>3 DEF IsChain
<1>5. ASSUME NEW i \in 1..n
      PROVE  \E v \in StateNodeNos :
              /\ q[i] \in StateNodes[v].children
              /\ <<red.rule, n + 1 - i>> \in table.items[StateNodes[v].state]
  BY <1>2, <1>3, ChainFacts
<1>6. ASSUME NEW i \in 1..n
      PROVE  /\ SymbolNodes[q[i]].symbol = table.rules[red.rule].right[n + 1 - i]
             /\ \A d \in SymbolNodes[q[i]].down :
                   /\ d \in StateNodeNos
                   /\ <<red.rule, n - i>> \in table.items[StateNodes[d].state]
                   /\ i < n => d # 1
  <2>1. PICK v \in StateNodeNos :
              /\ q[i] \in StateNodes[v].children
              /\ <<red.rule, n + 1 - i>> \in table.items[StateNodes[v].state]
    BY <1>5
  <2>2. PICK k : k = n + 1 - i  OBVIOUS
  <2>3. k \in 1..RuleLength(red.rule) /\ k - 1 = n - i /\ (i < n => k > 1)
    BY <1>2, <2>2
  <2>4. /\ SymbolNodes[q[i]].symbol = table.rules[red.rule].right[k]
        /\ \A d \in SymbolNodes[q[i]].down :
              /\ d \in StateNodeNos
              /\ <<red.rule, k - 1>> \in table.items[StateNodes[d].state]
              /\ k > 1 => d # 1
    BY <1>1, <2>1, <2>2, <2>3, StepDown
  <2> QED BY <2>2, <2>3, <2>4
<1>7. ASSUME NEW i \in 1..(n - 1)
      PROVE  SymbolNodes[q[i]].start = SymbolNodes[q[i + 1]].end
  <2>1. i \in 1..n /\ i + 1 \in 1..n /\ i < n  BY <1>2
  <2>2. PICK d \in SymbolNodes[q[i]].down : q[i + 1] \in StateNodes[d].children
    BY <1>4 DEF Below
  <2>3. d \in StateNodeNos /\ d # 1  BY <1>6, <2>1, <2>2
  <2>4. q[i] \in SymbolNodeNos /\ q[i + 1] \in SymbolNodeNos  BY <1>4, <2>1
  <2>5. Border(d) = SymbolNodes[q[i]].start  BY <2>2, <2>3, <2>4 DEF StackInv
  <2>6. PICK v \in StateNodeNos :
            q[i + 1] \in StateNodes[v].children /\ Border(v) = SymbolNodes[q[i + 1]].end
    BY <2>4 DEF StackInv
  <2>7. v = d  BY <2>2, <2>3, <2>6 DEF StackInv
  <2> QED BY <2>5, <2>6, <2>7
<1>8. path.bottom \in StateNodeNos /\ <<red.rule, 0>> \in table.items[StateNodes[path.bottom].state]
  <2>1. n - n = 0  BY <1>2
  <2>2. \A d \in SymbolNodes[q[n]].down :
            d \in StateNodeNos /\ <<red.rule, n - n>> \in table.items[StateNodes[d].state]
    BY <1>2, <1>6
  <2> QED BY <1>3, <2>1, <2>2
<1>9. StateNodes[path.bottom].state \in States  BY <1>8, NodeFacts
<1>10. HasGoto(StateNodes[path.bottom].state, table.rules[red.rule].left)
  BY <1>1, <1>8, <1>9, RuleFacts
<1> QED BY <1>2, <1>3, <1>4, <1>6, <1>7, <1>8, <1>10

-----------------------------------------------------------------------------
(* What the steps that extend the stack do to it                           *)

\* A symbol node e is put under the state node for a state, which is new if the
\* closure set has none.
Linked(state, node, e) ==
    /\ IsSeq(SymbolNodes')
    /\ Len(SymbolNodes') = Len(SymbolNodes) + 1
    /\ \A t \in SymbolNodeNos : SymbolNodes'[t] = SymbolNodes[t]
    /\ SymbolNodes'[Len(SymbolNodes) + 1] = e
    /\ StateNodes' \in Seq([state : States, children : SUBSET Nat])
    /\ \A v \in StateNodeNos : v # node => StateNodes'[v] = StateNodes[v]
    /\ node >= GetFirstNodeNoOfCurrentClosure /\ node # 1
    /\ StateNodes'[node].state = state
    /\ \/ /\ Labelled(state) = {}
          /\ \A v \in StateNodeNos : v >= GetFirstNodeNoOfCurrentClosure =>
                StateNodes[v].state # state
          /\ node = Len(StateNodes) + 1 /\ Len(StateNodes') = Len(StateNodes) + 1
          /\ StateNodes'[node].children = {Len(SymbolNodes) + 1}
       \/ /\ Labelled(state) # {}
          /\ node \in StateNodeNos /\ Len(StateNodes') = Len(StateNodes)
          /\ StateNodes[node].state = state
          /\ StateNodes'[node].children = StateNodes[node].children \cup {Len(SymbolNodes) + 1}

LEMMA FirstNodeNo ==
    ASSUME InputInv, LevelInv
    PROVE  /\ GetFirstNodeNoOfCurrentClosure \in Nat \ {0}
           /\ CurrentFirst \in Nat \ {0}
           /\ CurrentFirst <= GetFirstNodeNoOfCurrentClosure
           /\ Back(InputLevels) \in Nat
           /\ pc = "shift" => CurrentFirst = GetFirstNodeNoOfCurrentClosure
           /\ Len(InputLevels) > 1 => GetFirstNodeNoOfCurrentClosure = Back(InputLevels) + 1
<1>1. PICK n : n = Len(InputLevels)  OBVIOUS
<1>2. n \in Nat \ {0} /\ \A i \in 1..n : InputLevels[i] \in Nat  BY <1>1 DEF LevelInv
<1>3. DOMAIN InputLevels = 1..n  BY <1>1 DEF LevelInv
<1>4. n > 1 => n - 1 \in 1..n /\ n - 1 <= n  BY <1>2
<1>5. n > 1 => InputLevels[n - 1] <= InputLevels[n]  BY SMTT(30), <1>2, <1>3, <1>4 DEF LevelInv
<1>6. pc = "shift" => n > 1 /\ InputLevels[n - 1] = InputLevels[n]
  <2>1. pc = "shift" => n = wordNo + 1 /\ InputLevels[n - 1] = InputLevels[n]
    BY <1>1 DEF LevelInv, Back
  <2>2. wordNo \in Nat \ {0}  BY SymbolsFacts
  <2> QED BY <1>2, <2>1, <2>2
<1>7. Back(InputLevels) = InputLevels[n] /\ InputLevels[n] \in Nat  BY <1>1, <1>2 DEF Back
<1>8. CASE n = 1
  <2>1. GetFirstNodeNoOfCurrentClosure = 1 /\ CurrentFirst = 1
    BY <1>1, <1>8 DEF GetFirstNodeNoOfCurrentClosure, CurrentFirst
  <2> QED BY <1>1, <1>6, <1>7, <1>8, <2>1
<1>9. CASE n > 1
  <2>1. /\ GetFirstNodeNoOfCurrentClosure = InputLevels[n] + 1
        /\ CurrentFirst = InputLevels[n - 1] + 1
    BY <1>1, <1>7, <1>9 DEF GetFirstNodeNoOfCurrentClosure, CurrentFirst
  <2>2. InputLevels[n - 1] \in Nat  BY <1>2, <1>4, <1>9
  <2> QED BY <1>1, <1>5, <1>6, <1>7, <1>9, <2>1, <2>2
<1> QED BY <1>2, <1>8, <1>9

LEMMA NodeForFacts ==
    ASSUME InputInv, ShapeInv, LevelInv, NEW state, state # 1
    PROVE  /\ Labelled(state) = {} =>
                 \A v \in StateNodeNos : v >= GetFirstNodeNoOfCurrentClosure =>
                     StateNodes[v].state # state
           /\ Labelled(state) # {} =>
                 /\ NodeFor(state) \in Labelled(state)
                 /\ NodeFor(state) \in StateNodeNos
                 /\ NodeFor(state) >= GetFirstNodeNoOfCurrentClosure
                 /\ StateNodes[NodeFor(state)].state = state
                 /\ NodeFor(state) # 1
<1>1. Labelled(state) = {v \in GetFirstNodeNoOfCurrentClosure..Len(StateNodes) :
                              StateNodes[v].state = state}
  BY DEF Labelled, ShapeInv
<1>2. GetFirstNodeNoOfCurrentClosure \in Nat \ {0} /\ Len(StateNodes) \in Nat
  BY FirstNodeNo, NodeFacts
<1>3. ASSUME Labelled(state) # {} PROVE NodeFor(state) \in Labelled(state)
  <2>1. Labelled(state) \in SUBSET Nat  BY <1>1, <1>2
  <2>2. \E v \in Labelled(state) : \A u \in Labelled(state) : v <= u
    BY <1>3, <2>1, LeastNatural
  <2> QED BY <1>3, <2>2 DEF NodeFor
<1>4. StateNodes[1].state = 1  BY DEF ShapeInv
<1> QED BY <1>1, <1>2, <1>3, <1>4 DEF StateNodeNos

LEMMA SeqFromFunction ==
    ASSUME NEW R, NEW n \in Nat, NEW f \in [1..n -> R]
    PROVE  f \in Seq(R) /\ Len(f) = n
  OBVIOUS

LEMMA ChildAdded ==
    ASSUME NEW A, NEW y \in [state : A, children : SUBSET Nat], NEW m \in Nat,
           NEW x, x = [y EXCEPT !.children = @ \cup {m}]
    PROVE  /\ x \in [state : A, children : SUBSET Nat]
           /\ x.state = y.state /\ x.children = y.children \cup {m}
<1>1. x = [state |-> y.state, children |-> y.children \cup {m}]  OBVIOUS
<1> QED BY <1>1

\* Both steps that put a symbol node under a state node do it like this.
LEMMA LinkedHolds ==
    ASSUME InputInv, ShapeInv, LevelInv, NEW state \in States, state # 1,
           NEW node, node = NodeFor(state), NEW e,
           SymbolNodes' = Append(SymbolNodes, e),
           StateNodes' = [WithNodeFor(state) EXCEPT ![node].children =
                             @ \cup {Len(SymbolNodes) + 1}],
           UNCHANGED table
    PROVE  Linked(state, node, e)
<1>1. /\ IsSeq(SymbolNodes') /\ Len(SymbolNodes') = Len(SymbolNodes) + 1
      /\ \A t \in SymbolNodeNos : SymbolNodes'[t] = SymbolNodes[t]
      /\ SymbolNodes'[Len(SymbolNodes) + 1] = e
  BY Appended DEF ShapeInv, SymbolNodeNos
<1>2. PICK R : R = [state : States, children : SUBSET Nat]  OBVIOUS
<1>3. PICK m, N : /\ m = Len(SymbolNodes) + 1 /\ m \in Nat
                  /\ N = Len(StateNodes) /\ N \in Nat \ {0}
  BY NodeFacts
<1>4. StateNodes \in Seq(R) /\ StateNodeNos = 1..N
  BY <1>2, <1>3 DEF ShapeInv, StateNodeNos
<1>5. GetFirstNodeNoOfCurrentClosure \in Nat \ {0} /\ GetFirstNodeNoOfCurrentClosure <= N + 1
  <2>1. Back(InputLevels) <= N  BY <1>3 DEF LevelInv
  <2>2. Back(InputLevels) \in Nat  BY FirstNodeNo
  <2> QED BY <1>3, <2>1, <2>2 DEF GetFirstNodeNoOfCurrentClosure
<1>6. CASE Labelled(state) = {}
  <2>1. PICK fresh : fresh = [state |-> state, children |-> {}]  OBVIOUS
  <2>2. PICK W : W = Append(StateNodes, fresh)  OBVIOUS
  <2>3. /\ node = N + 1 /\ WithNodeFor(state) = W
    BY <1>3, <1>6, <2>1, <2>2 DEF NodeFor, WithNodeFor
  <2>4. fresh \in R  BY <1>2, <2>1
  <2>5. /\ W \in Seq(R) /\ Len(W) = N + 1 /\ DOMAIN W = 1..(N + 1)
        /\ \A v \in 1..N : W[v] = StateNodes[v]
        /\ W[N + 1] = fresh
    BY <1>3, <1>4, <2>2, <2>4
  <2>6. PICK x : x = [fresh EXCEPT !.children = @ \cup {m}]  OBVIOUS
  <2>7. x \in R /\ x.state = state /\ x.children = {m}
    <3>1. x.state = fresh.state /\ x.children = fresh.children \cup {m} /\ x \in R
      BY <1>2, <1>3, <2>4, <2>6, ChildAdded
    <3> QED BY <2>1, <3>1
  <2>8. StateNodes' = [W EXCEPT ![node] = x]
    BY <1>3, <2>3, <2>5, <2>6
  <2>9. /\ StateNodes' \in Seq(R) /\ Len(StateNodes') = N + 1
        /\ \A v \in 1..N : StateNodes'[v] = StateNodes[v]
        /\ StateNodes'[node] = x
    <3>1. W \in [1..(N + 1) -> R]  BY <1>3, <2>5
    <3>2. StateNodes' \in [1..(N + 1) -> R]  BY <2>3, <2>7, <2>8, <3>1
    <3>3. StateNodes'[node] = x /\ \A v \in 1..N : StateNodes'[v] = W[v]
      BY <1>3, <2>3, <2>8, <3>1
    <3>4. StateNodes' \in Seq(R) /\ Len(StateNodes') = N + 1
      <4>1. PICK f, k : f = StateNodes' /\ k = N + 1 /\ k \in Nat  BY <1>3
      <4>2. f \in [1..k -> R]  BY <3>2, <4>1
      <4>3. f \in Seq(R) /\ Len(f) = k  BY ONLY <4>1, <4>2, SeqFromFunction
      <4> QED BY <4>1, <4>3
    <3> QED BY <2>5, <3>3, <3>4
  <2>10. \A v \in StateNodeNos : v >= GetFirstNodeNoOfCurrentClosure =>
             StateNodes[v].state # state
    BY <1>6, NodeForFacts
  <2>11. StateNodes'[node].state = state /\ StateNodes'[node].children = {m}
    BY <2>7, <2>9
  <2>12. node >= GetFirstNodeNoOfCurrentClosure /\ node # 1  BY <1>3, <1>5, <2>3
  <2>13. \A v \in StateNodeNos : v # node => StateNodes'[v] = StateNodes[v]
    BY <1>4, <2>9
  <2>14. StateNodes' \in Seq([state : States, children : SUBSET Nat])
         /\ Len(StateNodes') = Len(StateNodes) + 1 /\ node = Len(StateNodes) + 1
         /\ StateNodes'[node].children = {Len(SymbolNodes) + 1}
    BY <1>2, <1>3, <2>3, <2>9, <2>11
  <2> QED BY <1>1, <1>6, <2>10, <2>11, <2>12, <2>13, <2>14 DEF Linked
<1>7. CASE Labelled(state) # {}
  <2>1. /\ node \in 1..N /\ node >= GetFirstNodeNoOfCurrentClosure
        /\ StateNodes[node].state = state /\ node # 1
    BY <1>4, <1>7, NodeForFacts
  <2>2. WithNodeFor(state) = StateNodes  BY <1>7 DEF WithNodeFor
  <2>3. PICK y : y = StateNodes[node] /\ y \in R  BY <1>3, <1>4, <2>1
  <2>4. PICK x : x = [y EXCEPT !.children = @ \cup {m}]  OBVIOUS
  <2>5. x \in R /\ x.state = y.state /\ x.children = y.children \cup {m}
    BY <1>2, <1>3, <2>3, <2>4, ChildAdded
  <2>6. StateNodes' = [StateNodes EXCEPT ![node] = x]
    BY <1>3, <2>2, <2>3, <2>4
  <2>7. /\ StateNodes' \in Seq(R) /\ Len(StateNodes') = N
        /\ \A v \in 1..N : v # node => StateNodes'[v] = StateNodes[v]
        /\ StateNodes'[node] = x
    <3>1. StateNodes \in [1..N -> R]  BY <1>3, <1>4
    <3>2. StateNodes' \in [1..N -> R]  BY <2>1, <2>5, <2>6, <3>1
    <3>3. StateNodes'[node] = x /\ \A v \in 1..N : v # node => StateNodes'[v] = StateNodes[v]
      BY <1>3, <2>1, <2>6, <3>1
    <3>4. StateNodes' \in Seq(R) /\ Len(StateNodes') = N
      <4>1. PICK f, k : f = StateNodes' /\ k = N /\ k \in Nat  BY <1>3
      <4>2. f \in [1..k -> R]  BY <3>2, <4>1
      <4>3. f \in Seq(R) /\ Len(f) = k  BY ONLY <4>1, <4>2, SeqFromFunction
      <4> QED BY <4>1, <4>3
    <3> QED BY <3>3, <3>4
  <2>8. StateNodes'[node].state = state
        /\ StateNodes'[node].children = StateNodes[node].children \cup {m}
    BY <2>1, <2>3, <2>5, <2>7
  <2>9. /\ StateNodes' \in Seq([state : States, children : SUBSET Nat])
        /\ Len(StateNodes') = Len(StateNodes) /\ node \in StateNodeNos
        /\ StateNodes'[node].children = StateNodes[node].children \cup {Len(SymbolNodes) + 1}
        /\ \A v \in StateNodeNos : v # node => StateNodes'[v] = StateNodes[v]
    BY <1>2, <1>3, <1>4, <2>1, <2>7, <2>8
  <2> QED BY <1>1, <1>7, <2>1, <2>8, <2>9 DEF Linked
<1> QED BY <1>6, <1>7

\* The nodes there are afterwards, and which is under which.
LEMMA LinkedNodes ==
    ASSUME ShapeInv, NEW state, NEW node, NEW e, Linked(state, node, e)
    PROVE  /\ StateNodeNos' = StateNodeNos \cup {node}
           /\ SymbolNodeNos' = SymbolNodeNos \cup {Len(SymbolNodes) + 1}
           /\ Len(SymbolNodes) + 1 \notin SymbolNodeNos
           /\ node \in Nat \ {0}
           /\ \A v \in StateNodeNos : StateNodes'[v].state = StateNodes[v].state
           /\ \A v \in StateNodeNos' : \A t :
                 t \in StateNodes'[v].children <=>
                     \/ v \in StateNodeNos /\ t \in StateNodes[v].children
                     \/ v = node /\ t = Len(SymbolNodes) + 1
<1>1. PICK N, m : /\ N = Len(StateNodes) /\ N \in Nat \ {0}
                  /\ m = Len(SymbolNodes) + 1 /\ m \in Nat \ {0}
  BY NodeFacts
<1>2. StateNodeNos = 1..N /\ SymbolNodeNos = 1..(m - 1)
  BY <1>1, NodeFacts DEF StateNodeNos, SymbolNodeNos
<1>3. SymbolNodeNos' = 1..m  BY <1>1 DEF SymbolNodeNos, Linked
<1>4. CASE /\ node = N + 1 /\ Len(StateNodes') = N + 1
           /\ StateNodes'[node].children = {m}
  <2>1. StateNodeNos' = 1..(N + 1)  BY <1>4 DEF StateNodeNos
  <2>2. \A v \in StateNodeNos : StateNodes'[v] = StateNodes[v] /\ v # node
    BY <1>1, <1>2, <1>4 DEF Linked
  <2>3. StateNodeNos' = StateNodeNos \cup {node} /\ node \notin StateNodeNos
    BY <1>1, <1>2, <1>4, <2>1
  <2> QED BY <1>1, <1>2, <1>3, <1>4, <2>2, <2>3
<1>5. CASE /\ node \in StateNodeNos /\ Len(StateNodes') = N
           /\ StateNodes[node].state = state
           /\ StateNodes'[node].children = StateNodes[node].children \cup {m}
  <2>1. StateNodeNos' = StateNodeNos /\ node \in Nat \ {0}  BY <1>1, <1>2, <1>5 DEF StateNodeNos
  <2>2. \A v \in StateNodeNos : v # node => StateNodes'[v] = StateNodes[v]
    BY DEF Linked
  <2>3. StateNodes'[node].state = StateNodes[node].state  BY <1>5 DEF Linked
  <2>4. \A v \in StateNodeNos : \A t :
                 t \in StateNodes'[v].children <=>
                     t \in StateNodes[v].children \/ (v = node /\ t = m)
    BY <1>5, <2>2
  <2> QED BY <1>1, <1>2, <1>3, <1>5, <2>1, <2>2, <2>3, <2>4
<1> QED BY <1>1, <1>4, <1>5 DEF Linked

\* A symbol node that may be put there: a transition of the table, over the
\* words up to the border that the parser has reached.
NewNode(state, d, e) ==
    /\ e = [symbol |-> e.symbol, item |-> e.item, start |-> e.start, end |-> e.end,
            down |-> {d}, parses |-> e.parses]
    /\ e.start \in Nat /\ e.start < e.end
    /\ e.end = Len(InputLevels) - 1 /\ e.end <= Len(words)
    /\ d \in StateNodeNos /\ (d # 1 => Border(d) = e.start)
    /\ e.parses \in Seq(Parse)
    /\ HasGoto(StateNodes[d].state, e.symbol)
    /\ Goto(StateNodes[d].state, e.symbol) = state

LinkStep(state, node, d, e) ==
    /\ Linked(state, node, e) /\ NewNode(state, d, e)
    /\ pc \in {"paths", "shift"}
    /\ UNCHANGED <<table, words, breakAfterMax, InputLevels, wordNo, pc>>

LEMMA LinkedShape ==
    ASSUME InputInv, ShapeInv, LevelInv, NEW state, NEW node, NEW d, NEW e,
           LinkStep(state, node, d, e)
    PROVE  ShapeInv' /\ LevelInv'
<1>1. PICK N, m : /\ N = Len(StateNodes) /\ N \in Nat \ {0}
                  /\ m = Len(SymbolNodes) + 1 /\ m \in Nat \ {0}
  BY NodeFacts
<1>2. Linked(state, node, e) /\ NewNode(state, d, e)  BY DEF LinkStep
<1>3. Len(StateNodes') \in {N, N + 1}  BY <1>1, <1>2 DEF Linked
<1>4. StateNodes'[1] = [state |-> 1, children |-> {}]
  <2>1. 1 \in StateNodeNos /\ 1 # node  BY <1>1, <1>2 DEF Linked, StateNodeNos
  <2>2. StateNodes'[1] = StateNodes[1]  BY <1>2, <2>1 DEF Linked
  <2> QED BY <2>2 DEF ShapeInv
<1>5. \A v \in StateNodeNos' : StateNodes'[v].children \subseteq SymbolNodeNos'
  BY <1>2, LinkedNodes DEF ShapeInv
<1>6. ASSUME NEW s \in SymbolNodeNos' PROVE IsSymbolNode(SymbolNodes[s])'
  <2>1. StateNodeNos \subseteq StateNodeNos'  BY <1>2, LinkedNodes
  <2>2. Parse' = Parse  BY DEF Parse, LinkStep
  <2>3. CASE s \in SymbolNodeNos
    <3>1. SymbolNodes'[s] = SymbolNodes[s]  BY <1>2, <2>3 DEF Linked
    <3>2. IsSymbolNode(SymbolNodes[s])  BY <2>3 DEF ShapeInv
    <3> QED BY <2>1, <2>2, <3>1, <3>2 DEF IsSymbolNode
  <2>4. CASE s = m
    <3>1. SymbolNodes'[s] = e  BY <1>1, <1>2, <2>4 DEF Linked
    <3>2. e.end \in Nat
      BY <1>2 DEF NewNode, LevelInv
    <3>3. e.down = {d} /\ d \in StateNodeNos'  BY <1>2, <2>1 DEF NewNode
    <3>4. /\ e = [symbol |-> e.symbol, item |-> e.item, start |-> e.start, end |-> e.end,
                  down |-> e.down, parses |-> e.parses]
          /\ e.start \in Nat /\ e.parses \in Seq(Parse)
      BY <1>2, <3>3 DEF NewNode
    <3> QED BY <2>2, <3>1, <3>2, <3>3, <3>4 DEF IsSymbolNode
  <2> QED BY <1>1, <1>2, <2>3, <2>4, LinkedNodes
<1>7. StateNodes' \in Seq([state : States', children : SUBSET Nat])
  BY <1>2 DEF Linked, LinkStep, States
<1>8. ShapeInv'
  <2>1. Len(StateNodes') >= 1  BY <1>1, <1>3
  <2>2. IsSeq(SymbolNodes)'  BY <1>2 DEF Linked, IsSeq
  <2> QED BY <1>4, <1>5, <1>6, <1>7, <2>1, <2>2 DEF ShapeInv
<1>9. LevelInv'
  <2>1. UNCHANGED <<InputLevels, wordNo, pc>>  BY DEF LinkStep
  <2>2. Len(InputLevels) # 1
    <3>1. Len(InputLevels) \in Nat  BY DEF LevelInv
    <3>2. e.start \in Nat /\ e.start < e.end /\ e.end = Len(InputLevels) - 1
      BY <1>2 DEF NewNode
    <3>3. PICK x, l : x \in Nat /\ l = Len(InputLevels) /\ x < l - 1  BY <3>2
    <3> QED BY ONLY <3>1, <3>3
  <2>3. Back(InputLevels) \in Nat /\ Back(InputLevels) <= N  BY <1>1, FirstNodeNo DEF LevelInv
  <2>4. Back(InputLevels) <= Len(StateNodes')  BY <1>1, <1>3, <2>3
  <2>5. pc # "word"  BY DEF LinkStep
  <2> QED BY <2>1, <2>2, <2>4, <2>5 DEF LevelInv, Back
<1> QED BY <1>8, <1>9

\* The borders of the nodes that were there, and of the one the symbol node is under.
LEMMA LinkedBorders ==
    ASSUME InputInv, ShapeInv, LevelInv, NEW state, NEW node, NEW d, NEW e,
           LinkStep(state, node, d, e)
    PROVE  /\ \A v : Border(v)' = Border(v)
           /\ Border(node) = Len(InputLevels) - 1
<1>1. \A v : Border(v)' = Border(v)  BY BorderUnchanged DEF LinkStep
<1>2. node \in Nat \ {0} /\ node >= GetFirstNodeNoOfCurrentClosure
  <2>1. Linked(state, node, e)  BY DEF LinkStep
  <2>2. node \in Nat \ {0}  BY <2>1, LinkedNodes
  <2> QED BY <2>1, <2>2 DEF Linked
<1>3. node >= CurrentFirst  BY <1>2, FirstNodeNo
<1> QED BY <1>1, <1>2, <1>3, BorderFacts

LEMMA LinkedStack ==
    ASSUME InputInv, ShapeInv, LevelInv, StackInv, NEW state, NEW node, NEW d, NEW e,
           LinkStep(state, node, d, e)
    PROVE  StackInv'
<1>1. Linked(state, node, e) /\ NewNode(state, d, e)  BY DEF LinkStep
<1>2. PICK m : m = Len(SymbolNodes) + 1 /\ m \notin SymbolNodeNos  BY <1>1, LinkedNodes
<1>3. /\ StateNodeNos' = StateNodeNos \cup {node}
      /\ SymbolNodeNos' = SymbolNodeNos \cup {m}
      /\ \A v \in StateNodeNos' : \A t :
            t \in StateNodes'[v].children <=>
                (v \in StateNodeNos /\ t \in StateNodes[v].children) \/ (v = node /\ t = m)
  BY <1>1, <1>2, LinkedNodes
<1>4. \A s \in SymbolNodeNos : SymbolNodes'[s] = SymbolNodes[s]  BY <1>1 DEF Linked
<1>5. SymbolNodes'[m] = e  BY <1>1, <1>2 DEF Linked
<1>6. /\ \A v : Border(v)' = Border(v)
      /\ Border(node) = Len(InputLevels) - 1
  BY LinkedBorders
<1>7. \A v \in StateNodeNos : m \notin StateNodes[v].children  BY <1>2 DEF ShapeInv
<1>8. ASSUME NEW s \in SymbolNodeNos'
      PROVE  /\ SymbolNodes'[s].start < SymbolNodes'[s].end
             /\ SymbolNodes'[s].end <= Len(words)'
             /\ \A c \in SymbolNodes'[s].down : c # 1 => Border(c)' = SymbolNodes'[s].start
             /\ \E v \in StateNodeNos' :
                   s \in StateNodes'[v].children /\ Border(v)' = SymbolNodes'[s].end
  <2>1. words' = words  BY DEF LinkStep
  <2>2. CASE s \in SymbolNodeNos
    <3>1. /\ SymbolNodes[s].start < SymbolNodes[s].end
          /\ SymbolNodes[s].end <= Len(words)
          /\ \A c \in SymbolNodes[s].down : c # 1 => Border(c) = SymbolNodes[s].start
          /\ \E v \in StateNodeNos :
                s \in StateNodes[v].children /\ Border(v) = SymbolNodes[s].end
      BY <2>2 DEF StackInv
    <3> QED BY <1>3, <1>4, <1>6, <2>1, <2>2, <3>1
  <2>3. CASE s = m
    <3>1. /\ e.start < e.end /\ e.end <= Len(words) /\ e.end = Len(InputLevels) - 1
          /\ d # 1 => Border(d) = e.start
      BY <1>1 DEF NewNode
    <3>2. e.down = {d}  BY <1>1 DEF NewNode
    <3> QED BY <1>3, <1>5, <1>6, <2>1, <2>3, <3>1, <3>2
  <2> QED BY <1>3, <2>2, <2>3
<1>9. ASSUME NEW u \in StateNodeNos', NEW v \in StateNodeNos',
             NEW s \in StateNodes'[u].children, s \in StateNodes'[v].children
      PROVE  u = v
  BY <1>3, <1>7, <1>9 DEF StackInv
<1>10. ASSUME NEW v \in StateNodeNos', v # 1 PROVE StateNodes'[v].children # {}
  BY <1>3, <1>10 DEF StackInv
<1> QED BY <1>8, <1>9, <1>10 DEF StackInv

LEMMA LinkedLink ==
    ASSUME InputInv, ShapeInv, LevelInv, LinkInv, NEW state, NEW node, NEW d, NEW e,
           LinkStep(state, node, d, e)
    PROVE  LinkInv'
<1>1. Linked(state, node, e) /\ NewNode(state, d, e) /\ table' = table  BY DEF LinkStep
<1>2. PICK m : m = Len(SymbolNodes) + 1 /\ m \notin SymbolNodeNos  BY <1>1, LinkedNodes
<1>3. /\ StateNodeNos' = StateNodeNos \cup {node}
      /\ \A v \in StateNodeNos' : \A t :
            t \in StateNodes'[v].children <=>
                (v \in StateNodeNos /\ t \in StateNodes[v].children) \/ (v = node /\ t = m)
      /\ \A v \in StateNodeNos : StateNodes'[v].state = StateNodes[v].state
  BY <1>1, <1>2, LinkedNodes
<1>4. \A s \in SymbolNodeNos : SymbolNodes'[s] = SymbolNodes[s]  BY <1>1 DEF Linked
<1>5. SymbolNodes'[m] = e /\ StateNodes'[node].state = state  BY <1>1, <1>2 DEF Linked
<1>6. SUFFICES ASSUME NEW v \in StateNodeNos', NEW s \in StateNodes'[v].children,
                      NEW c \in SymbolNodes'[s].down
               PROVE  /\ <<StateNodes'[c].state, SymbolNodes'[s].symbol>> \in DOMAIN table.goto
                      /\ table.goto[<<StateNodes'[c].state, SymbolNodes'[s].symbol>>]
                            = StateNodes'[v].state
  BY <1>1 DEF LinkInv, HasGoto, Goto
<1>7. CASE v \in StateNodeNos /\ s \in StateNodes[v].children
  <2>1. s \in SymbolNodeNos  BY <1>7 DEF ShapeInv
  <2>2. SymbolNodes'[s] = SymbolNodes[s]  BY <1>4, <2>1
  <2>3. c \in SymbolNodes[s].down /\ c \in StateNodeNos
    BY <1>6, <2>1, <2>2 DEF ShapeInv, IsSymbolNode
  <2>4. /\ HasGoto(StateNodes[c].state, SymbolNodes[s].symbol)
        /\ Goto(StateNodes[c].state, SymbolNodes[s].symbol) = StateNodes[v].state
    BY <1>7, <2>3 DEF LinkInv
  <2>5. StateNodes'[c].state = StateNodes[c].state /\ StateNodes'[v].state = StateNodes[v].state
    BY <1>3, <1>7, <2>3
  <2> QED BY <2>2, <2>4, <2>5 DEF HasGoto, Goto
<1>8. CASE v = node /\ s = m
  <2>1. e.down = {d} /\ d \in StateNodeNos
        /\ HasGoto(StateNodes[d].state, e.symbol) /\ Goto(StateNodes[d].state, e.symbol) = state
    BY <1>1 DEF NewNode
  <2>2. c = d  BY <1>5, <1>6, <1>8, <2>1
  <2> QED BY <1>3, <1>5, <1>8, <2>1, <2>2 DEF HasGoto, Goto
<1> QED BY <1>3, <1>7, <1>8

-----------------------------------------------------------------------------
(* Symbols                                                                 *)

\* Leaves carry terminals and the other symbol nodes carry left parts.
LEMMA LeafSymbol ==
    ASSUME InputInv, ShapeInv, StackInv, ParseInv, NEW s \in SymbolNodeNos
    PROVE  SymbolNodes[s].parses = <<>> <=> SymbolNodes[s].symbol \in Readings(table)
<1>1. CASE SymbolNodes[s].parses = <<>>
  <2>1. SymbolNodes[s].symbol \in words[SymbolNodes[s].end]  BY <1>1 DEF ParseInv, IsLeaf
  <2>2. SymbolNodes[s].end \in 1..Len(words)
    <3>1. SymbolNodes[s].start \in Nat /\ SymbolNodes[s].end \in Nat
      BY DEF ShapeInv, IsSymbolNode
    <3>2. SymbolNodes[s].start < SymbolNodes[s].end /\ SymbolNodes[s].end <= Len(words)
      BY DEF StackInv
    <3>3. Len(words) \in Nat  BY SymbolsFacts
    <3> QED BY <3>1, <3>2, <3>3
  <2> QED BY <1>1, <2>1, <2>2, SymbolsFacts
<1>2. CASE SymbolNodes[s].parses # <<>>
  <2>1. PICK parses : parses = SymbolNodes[s].parses  OBVIOUS
  <2>2. parses \in Seq(Parse) /\ parses # <<>>  BY <1>2, <2>1 DEF ShapeInv, IsSymbolNode
  <2>3. 1 \in DOMAIN parses /\ parses[1] \in Parse  BY <2>2
  <2>4. parses[1].rule \in DOMAIN table.rules  BY <2>3 DEF Parse
  <2>5. Derives(SymbolNodes[s], parses[1])  BY <2>1, <2>3 DEF ParseInv
  <2>6. table.rules[parses[1].rule].left = SymbolNodes[s].symbol  BY <2>5 DEF Derives
  <2> QED BY <1>2, <2>4, <2>6, RuleFacts
<1> QED BY <1>1, <1>2

\* The symbol nodes under a state node carry the symbol of the transitions to
\* its state.
LEMMA AccessingSymbol ==
    ASSUME InputInv, ShapeInv, LinkInv, NEW v \in StateNodeNos,
           NEW s \in StateNodes[v].children,
           NEW i, NEW X, HasGoto(i, X), Goto(i, X) = StateNodes[v].state
    PROVE  SymbolNodes[s].symbol = X
<1>1. s \in SymbolNodeNos  BY DEF ShapeInv
<1>2. PICK d : d \in SymbolNodes[s].down  BY <1>1 DEF ShapeInv, IsSymbolNode
<1>3. /\ HasGoto(StateNodes[d].state, SymbolNodes[s].symbol)
      /\ Goto(StateNodes[d].state, SymbolNodes[s].symbol) = StateNodes[v].state
  BY <1>2 DEF LinkInv
<1> QED BY <1>3, GotoFacts

-----------------------------------------------------------------------------
(* A new symbol node and the other invariants                              *)

\* What is put under a state node is the leaf of a word, in a shift, under a
\* node that was not there; or the result of a reduction.
IsShifted(node, e) ==
    pc = "shift" /\ e.parses = <<>> /\ IsLeaf(e) /\ node \notin StateNodeNos

IsReduced(e) ==
    /\ pc = "paths" /\ e.symbol \notin Readings(table)
    /\ \E parse \in Parse : e.parses = <<parse>> /\ Derives(e, parse)

LEMMA LinkedState ==
    ASSUME InputInv, ShapeInv, LevelInv, StackInv, LinkInv, StateInv, LeafInv, ParseInv,
           NEW state, NEW node, NEW d, NEW e, LinkStep(state, node, d, e),
           pc = "shift" \/ e.symbol \notin Readings(table)
    PROVE  StateInv'
<1>1. Linked(state, node, e) /\ NewNode(state, d, e)  BY DEF LinkStep
<1>2. /\ StateNodeNos' = StateNodeNos \cup {node}
      /\ \A v \in StateNodeNos : StateNodes'[v].state = StateNodes[v].state
  BY <1>1, LinkedNodes
<1>3. /\ \A v : Border(v)' = Border(v)
      /\ Border(node) = Len(InputLevels) - 1
  BY LinkedBorders
<1>4. StateNodes'[node].state = state  BY <1>1 DEF Linked
<1>5. ASSUME NEW u \in StateNodeNos, node \notin StateNodeNos,
             Border(u) = Len(InputLevels) - 1, StateNodes[u].state = state
      PROVE  FALSE
  <2>1. u \in Nat \ {0}  BY NodeFacts DEF StateNodeNos
  <2>2. u >= CurrentFirst  BY <1>5, <2>1, BorderFacts
  <2>3. Labelled(state) = {}  BY <1>1, <1>5 DEF Linked
  <2>4. ~(u >= GetFirstNodeNoOfCurrentClosure)  BY <1>1, <1>5, <2>3 DEF Linked
  <2>5. pc # "shift"  BY <2>2, <2>4, FirstNodeNo
  <2>6. e.symbol \notin Readings(table)  BY <2>5
  <2>7. HasGoto(StateNodes[d].state, e.symbol) /\ Goto(StateNodes[d].state, e.symbol) = state
    BY <1>1 DEF NewNode
  <2>8. u # 1
    <3>1. state # 1  BY <2>7, GotoFacts
    <3> QED BY <1>5, <3>1 DEF ShapeInv
  <2>9. u <= Back(InputLevels)
    <3>1. Len(InputLevels) \in Nat /\ Len(InputLevels) >= 1  BY DEF LevelInv
    <3>2. Len(InputLevels) > 1
      <4>1. Len(InputLevels) = 1 => Len(StateNodes) = 1  BY DEF LevelInv
      <4>2. Len(StateNodes) # 1  BY <2>1, <2>8, NodeFacts DEF StateNodeNos
      <4>3. PICK n : n = Len(InputLevels) /\ n \in Nat /\ n >= 1 /\ n # 1
        BY <3>1, <4>1, <4>2
      <4>4. n > 1  BY ONLY <4>3
      <4> QED BY <4>3, <4>4
    <3> QED BY <2>1, <2>4, <3>2, FirstNodeNo
  <2>10. PICK t : t \in StateNodes[u].children  BY <2>8 DEF StackInv
  <2>11. t \in SymbolNodeNos  BY <2>10 DEF ShapeInv
  <2>12. SymbolNodes[t].parses = <<>>  BY <2>2, <2>9, <2>10 DEF LeafInv
  <2>13. SymbolNodes[t].symbol = e.symbol  BY <1>5, <2>7, <2>10, AccessingSymbol
  <2> QED BY <2>6, <2>11, <2>12, <2>13, LeafSymbol
<1>6. SUFFICES ASSUME NEW u \in StateNodeNos', NEW v \in StateNodeNos',
                      Border(u) = Border(v), StateNodes'[u].state = StateNodes'[v].state
               PROVE  u = v
  BY <1>3 DEF StateInv
<1>7. CASE u \in StateNodeNos /\ v \in StateNodeNos
  BY <1>2, <1>6, <1>7 DEF StateInv
<1>8. CASE u \in StateNodeNos /\ v \notin StateNodeNos
  BY <1>2, <1>3, <1>4, <1>5, <1>6, <1>8
<1>9. CASE u \notin StateNodeNos /\ v \in StateNodeNos
  BY <1>2, <1>3, <1>4, <1>5, <1>6, <1>9
<1> QED BY <1>2, <1>7, <1>8, <1>9

LEMMA LinkedLeaf ==
    ASSUME InputInv, ShapeInv, LevelInv, StackInv, LinkInv, LeafInv, ParseInv,
           NEW state, NEW node, NEW d, NEW e, LinkStep(state, node, d, e),
           IsShifted(node, e) \/ IsReduced(e)
    PROVE  LeafInv'
<1>1. Linked(state, node, e) /\ NewNode(state, d, e)  BY DEF LinkStep
<1>2. PICK m : m = Len(SymbolNodes) + 1 /\ m \notin SymbolNodeNos  BY <1>1, LinkedNodes
<1>3. /\ StateNodeNos' = StateNodeNos \cup {node}
      /\ \A v \in StateNodeNos' : \A t :
            t \in StateNodes'[v].children <=>
                (v \in StateNodeNos /\ t \in StateNodes[v].children) \/ (v = node /\ t = m)
  BY <1>1, <1>2, LinkedNodes
<1>4. \A s \in SymbolNodeNos : SymbolNodes'[s] = SymbolNodes[s]  BY <1>1 DEF Linked
<1>5. SymbolNodes'[m] = e  BY <1>1, <1>2 DEF Linked
<1>6. \A v \in StateNodeNos : \A t \in StateNodes[v].children : t \in SymbolNodeNos
  BY DEF ShapeInv
<1>7. ASSUME node \in StateNodeNos, NEW t \in StateNodes[node].children
      PROVE  SymbolNodes[t].parses # <<>> /\ e.parses # <<>>
  <2>1. IsReduced(e)  BY <1>7 DEF IsShifted
  <2>2. e.symbol \notin Readings(table) /\ e.parses # <<>>  BY <2>1 DEF IsReduced
  <2>3. /\ HasGoto(StateNodes[d].state, e.symbol)
        /\ Goto(StateNodes[d].state, e.symbol) = state
    BY <1>1 DEF NewNode
  <2>4. StateNodes[node].state = state
    <3>1. StateNodes'[node].state = state  BY <1>1 DEF Linked
    <3>2. StateNodes'[node].state = StateNodes[node].state  BY <1>1, <1>7, LinkedNodes
    <3> QED BY <3>1, <3>2
  <2>5. SymbolNodes[t].symbol = e.symbol  BY <1>7, <2>3, <2>4, AccessingSymbol
  <2> QED BY <1>6, <1>7, <2>2, <2>5, LeafSymbol
<1>8. ASSUME NEW v \in StateNodeNos', NEW s \in StateNodes'[v].children,
             NEW t \in StateNodes'[v].children, SymbolNodes'[s].parses = <<>>
      PROVE  s = t
  <2>1. CASE s = m /\ t # m
    BY <1>2, <1>3, <1>5, <1>6, <1>7, <1>8, <2>1
  <2>2. CASE s # m /\ t = m
    BY <1>2, <1>3, <1>4, <1>6, <1>7, <1>8, <2>2
  <2>3. CASE s # m /\ t # m
    <3>1. v \in StateNodeNos /\ s \in StateNodes[v].children /\ t \in StateNodes[v].children
      BY <1>3, <1>8, <2>3
    <3>2. SymbolNodes[s].parses = <<>>  BY <1>4, <1>6, <1>8, <3>1
    <3> QED BY <3>1, <3>2 DEF LeafInv
  <2> QED BY <2>1, <2>2, <2>3
<1>9. ASSUME NEW v \in StateNodeNos', v >= CurrentFirst,
             pc = "shift" \/ v <= Back(InputLevels), NEW s \in StateNodes'[v].children
      PROVE  SymbolNodes'[s].parses = <<>>
  <2>1. CASE v \in StateNodeNos /\ s \in StateNodes[v].children
    <3>1. SymbolNodes[s].parses = <<>>  BY <1>9, <2>1 DEF LeafInv
    <3> QED BY <1>4, <1>6, <2>1, <3>1
  <2>2. CASE v = node /\ s = m
    <3>1. CASE IsShifted(node, e)
      BY <1>5, <2>2, <3>1 DEF IsShifted
    <3>2. CASE IsReduced(e)
      <4>1. pc = "paths"  BY <3>2 DEF IsReduced
      <4>2. node <= Back(InputLevels)  BY <1>9, <2>2, <4>1
      <4>3. node >= GetFirstNodeNoOfCurrentClosure /\ node # 1  BY <1>1 DEF Linked
      <4>4. Len(InputLevels) > 1
        <5>1. PICK n : n = Len(InputLevels)  OBVIOUS
        <5>2. n \in Nat /\ n >= 1  BY <5>1 DEF LevelInv
        <5>3. node \in Nat \ {0}  BY <1>1, LinkedNodes
        <5>4. n # 1
          <6>1. n = 1 => Len(StateNodes) = 1  BY <5>1 DEF LevelInv
          <6>2. Back(InputLevels) <= Len(StateNodes)  BY DEF LevelInv
          <6>3. PICK b : b = Back(InputLevels) /\ b \in Nat  BY FirstNodeNo
          <6>4. n = 1 => b <= 1 /\ node <= b  BY <4>2, <6>1, <6>2, <6>3
          <6> QED BY ONLY <4>3, <5>3, <6>3, <6>4
        <5>5. n > 1  BY ONLY <5>2, <5>4
        <5> QED BY <5>1, <5>5
      <4>5. GetFirstNodeNoOfCurrentClosure = Back(InputLevels) + 1 /\ Back(InputLevels) \in Nat
        BY <4>4, FirstNodeNo
      <4>6. node \in Nat  BY <1>1, LinkedNodes
      <4> QED BY <4>2, <4>3, <4>5, <4>6
    <3> QED BY <3>1, <3>2
  <2> QED BY <1>3, <1>9, <2>1, <2>2
<1>10. UNCHANGED <<pc, InputLevels>>  BY DEF LinkStep
<1>11. CurrentFirst' = CurrentFirst /\ Back(InputLevels)' = Back(InputLevels)
  BY <1>10 DEF CurrentFirst, Back
<1> QED BY <1>8, <1>9, <1>10, <1>11 DEF LeafInv

\* Two symbol nodes under one state node differ, if the new one does.
LEMMA LinkedPack ==
    ASSUME InputInv, ShapeInv, LevelInv, PackInv,
           NEW state, NEW node, NEW d, NEW e, LinkStep(state, node, d, e),
           (node \in StateNodeNos /\ ~TooManyNodes(SymbolNodes)) =>
               \A t \in StateNodes[node].children :
                   ~(/\ SymbolNodes[t].item = e.item
                     /\ SymbolNodes[t].start = e.start
                     /\ d \in SymbolNodes[t].down)
    PROVE  PackInv'
<1>1. Linked(state, node, e) /\ NewNode(state, d, e)  BY DEF LinkStep
<1>2. PICK m : m = Len(SymbolNodes) + 1 /\ m \notin SymbolNodeNos  BY <1>1, LinkedNodes
<1>3. /\ StateNodeNos' = StateNodeNos \cup {node}
      /\ \A v \in StateNodeNos' : \A t :
            t \in StateNodes'[v].children <=>
                (v \in StateNodeNos /\ t \in StateNodes[v].children) \/ (v = node /\ t = m)
  BY <1>1, <1>2, LinkedNodes
<1>4. \A s \in SymbolNodeNos : SymbolNodes'[s] = SymbolNodes[s]  BY <1>1 DEF Linked
<1>5. SymbolNodes'[m] = e /\ e.down = {d}  BY <1>1, <1>2 DEF Linked, NewNode
<1>6. \A v \in StateNodeNos : \A t \in StateNodes[v].children : t \in SymbolNodeNos
  BY DEF ShapeInv
<1>7. SUFFICES ASSUME ~TooManyNodes(SymbolNodes)', NEW v \in StateNodeNos',
                      NEW s \in StateNodes'[v].children, NEW t \in StateNodes'[v].children,
                      SymbolNodes'[s].item = SymbolNodes'[t].item,
                      SymbolNodes'[s].start = SymbolNodes'[t].start,
                      SymbolNodes'[s].down \cap SymbolNodes'[t].down # {}
               PROVE  s = t
  BY DEF PackInv
<1>8. ~TooManyNodes(SymbolNodes)
  <2>1. PICK k, l : k = Len(SymbolNodes) /\ k \in Nat /\ l = MaxSymbolNodesCount /\ l \in Nat
    BY NodeFacts, LimitsAssumption
  <2>2. Len(SymbolNodes') = k + 1 /\ breakAfterMax' = breakAfterMax
    BY <1>1, <2>1 DEF Linked, LinkStep
  <2>3. k >= l => k + 1 >= l  BY ONLY <2>1
  <2> QED BY <1>7, <2>1, <2>2, <2>3 DEF TooManyNodes
<1>9. CASE s = m /\ t # m
  <2>1. v = node /\ node \in StateNodeNos /\ t \in StateNodes[node].children /\ t \in SymbolNodeNos
    BY <1>2, <1>3, <1>6, <1>7, <1>9
  <2>2. d \in SymbolNodes[t].down  BY <1>4, <1>5, <1>7, <1>9, <2>1
  <2> QED BY <1>4, <1>5, <1>7, <1>8, <1>9, <2>1, <2>2
<1>10. CASE s # m /\ t = m
  <2>1. v = node /\ node \in StateNodeNos /\ s \in StateNodes[node].children /\ s \in SymbolNodeNos
    BY <1>2, <1>3, <1>6, <1>7, <1>10
  <2>2. d \in SymbolNodes[s].down  BY <1>4, <1>5, <1>7, <1>10, <2>1
  <2> QED BY <1>4, <1>5, <1>7, <1>8, <1>10, <2>1, <2>2
<1>11. CASE s # m /\ t # m
  <2>1. /\ v \in StateNodeNos /\ s \in StateNodes[v].children /\ t \in StateNodes[v].children
        /\ s \in SymbolNodeNos /\ t \in SymbolNodeNos
    BY <1>3, <1>6, <1>7, <1>11
  <2>2. SymbolNodes'[s] = SymbolNodes[s] /\ SymbolNodes'[t] = SymbolNodes[t]  BY <1>4, <2>1
  <2> QED BY <1>7, <1>8, <2>1, <2>2 DEF PackInv
<1> QED BY <1>9, <1>10, <1>11

-----------------------------------------------------------------------------
(* The stack only grows                                                    *)

Grown ==
    /\ UNCHANGED <<table, words>>
    /\ StateNodeNos \subseteq StateNodeNos' /\ SymbolNodeNos \subseteq SymbolNodeNos'
    /\ \A v \in StateNodeNos :
          /\ StateNodes'[v].state = StateNodes[v].state
          /\ StateNodes[v].children \subseteq StateNodes'[v].children
    /\ \A s \in SymbolNodeNos :
          /\ SymbolNodes'[s].symbol = SymbolNodes[s].symbol
          /\ SymbolNodes'[s].item = SymbolNodes[s].item
          /\ SymbolNodes'[s].start = SymbolNodes[s].start
          /\ SymbolNodes'[s].end = SymbolNodes[s].end
          /\ SymbolNodes[s].down \subseteq SymbolNodes'[s].down

LEMMA DerivesGrown ==
    ASSUME InputInv, Grown, NEW a, NEW b, NEW p \in Parse,
           b.symbol = a.symbol, b.item = a.item, b.start = a.start, b.end = a.end,
           Derives(a, p)
    PROVE  Derives(b, p)'
<1>1. PICK items, rule : items = p.items /\ rule = table.rules[p.rule]  OBVIOUS
<1>2. /\ items \in Seq(SymbolNodeNos)
      /\ rule.left = a.symbol
      /\ Len(items) = Len(rule.right)
      /\ \A k \in DOMAIN items : SymbolNodes[items[k]].symbol = rule.right[k]
      /\ SymbolNodes[items[1]].start = a.start
      /\ SymbolNodes[Back(items)].end = a.end
      /\ \A k \in 1..(Len(items) - 1) :
            SymbolNodes[items[k]].end = SymbolNodes[items[k + 1]].start
      /\ a.item = CreateNewItem(rule, [k \in DOMAIN items |-> SymbolNodes[items[k]].item])
  BY <1>1 DEF Derives
<1>3. p.rule \in DOMAIN table.rules  BY DEF Parse
<1>4. Len(items) \in Nat \ {0}  BY <1>1, <1>2, <1>3, RuleFacts DEF RuleLength
<1>5. DOMAIN items = 1..Len(items) /\ \A k \in 1..Len(items) : items[k] \in SymbolNodeNos
  BY <1>2
<1>6. /\ 1 \in 1..Len(items) /\ Len(items) \in 1..Len(items)
      /\ \A k \in 1..(Len(items) - 1) : k \in 1..Len(items) /\ k + 1 \in 1..Len(items)
  BY <1>4
<1>7. \A k \in 1..Len(items) :
          /\ SymbolNodes'[items[k]].symbol = SymbolNodes[items[k]].symbol
          /\ SymbolNodes'[items[k]].item = SymbolNodes[items[k]].item
          /\ SymbolNodes'[items[k]].start = SymbolNodes[items[k]].start
          /\ SymbolNodes'[items[k]].end = SymbolNodes[items[k]].end
  BY <1>5 DEF Grown
<1>8. items \in Seq(SymbolNodeNos')
  <2>1. items \in [1..Len(items) -> SymbolNodeNos']  BY <1>2, <1>5 DEF Grown
  <2> QED BY <1>4, <2>1
<1>9. [k \in DOMAIN items |-> SymbolNodes'[items[k]].item]
        = [k \in DOMAIN items |-> SymbolNodes[items[k]].item]
  BY <1>5, <1>7
<1>10. Back(items) = items[Len(items)]  BY DEF Back
<1>11. SymbolNodes'[items[1]].start = b.start /\ SymbolNodes'[Back(items)].end = b.end
  BY <1>2, <1>6, <1>7, <1>10
<1>12. \A k \in DOMAIN items : SymbolNodes'[items[k]].symbol = rule.right[k]
  BY <1>2, <1>5, <1>7
<1>13. \A k \in 1..(Len(items) - 1) :
            SymbolNodes'[items[k]].end = SymbolNodes'[items[k + 1]].start
  BY <1>2, <1>6, <1>7
<1>14. table' = table  BY DEF Grown
<1> QED BY <1>1, <1>2, <1>8, <1>9, <1>11, <1>12, <1>13, <1>14 DEF Derives, Back

LEMMA LeafGrown ==
    ASSUME Grown, NEW a, NEW b,
           b.symbol = a.symbol, b.item = a.item, b.start = a.start, b.end = a.end,
           IsLeaf(a)
    PROVE  IsLeaf(b)'
  BY DEF IsLeaf, Grown

LEMMA LinkedGrown ==
    ASSUME InputInv, ShapeInv, LevelInv, NEW state, NEW node, NEW d, NEW e,
           LinkStep(state, node, d, e)
    PROVE  Grown
<1>1. Linked(state, node, e) /\ UNCHANGED <<table, words>>  BY DEF LinkStep
<1>2. /\ StateNodeNos \subseteq StateNodeNos' /\ SymbolNodeNos \subseteq SymbolNodeNos'
      /\ \A v \in StateNodeNos :
            /\ StateNodes'[v].state = StateNodes[v].state
            /\ StateNodes[v].children \subseteq StateNodes'[v].children
  BY <1>1, LinkedNodes
<1>3. \A s \in SymbolNodeNos : SymbolNodes'[s] = SymbolNodes[s]  BY <1>1 DEF Linked
<1> QED BY <1>1, <1>2, <1>3 DEF Grown

LEMMA LinkedParse ==
    ASSUME InputInv, ShapeInv, LevelInv, ParseInv,
           NEW state, NEW node, NEW d, NEW e, LinkStep(state, node, d, e),
           IsShifted(node, e) \/ IsReduced(e)
    PROVE  ParseInv'
<1>1. Linked(state, node, e) /\ NewNode(state, d, e)  BY DEF LinkStep
<1>2. PICK m : m = Len(SymbolNodes) + 1 /\ m \notin SymbolNodeNos  BY <1>1, LinkedNodes
<1>3. /\ StateNodeNos' = StateNodeNos \cup {node}
      /\ SymbolNodeNos' = SymbolNodeNos \cup {m}
  BY <1>1, <1>2, LinkedNodes
<1>4. \A s \in SymbolNodeNos : SymbolNodes'[s] = SymbolNodes[s]  BY <1>1 DEF Linked
<1>5. SymbolNodes'[m] = e  BY <1>1, <1>2 DEF Linked
<1>6. Grown  BY LinkedGrown
<1>7. ASSUME NEW s \in SymbolNodeNos
      PROVE  /\ SymbolNodes'[s].parses = <<>> => IsLeaf(SymbolNodes[s])'
             /\ \A i \in DOMAIN SymbolNodes'[s].parses :
                   Derives(SymbolNodes[s], SymbolNodes[s].parses[i])'
             /\ \A i \in DOMAIN SymbolNodes'[s].parses :
                   i = 1 => \A k \in DOMAIN SymbolNodes'[s].parses[i].items :
                                SymbolNodes'[s].parses[i].items[k] < s
             /\ SymbolNodes'[s].parses # <<>> =>
                   \E c \in StateNodeNos' : SymbolNodes'[s].down = {c}
  <2>1. PICK a : a = SymbolNodes[s]  OBVIOUS
  <2>2. SymbolNodes'[s] = a  BY <1>4, <2>1
  <2>3. /\ a.parses = <<>> => IsLeaf(a)
        /\ \A i \in DOMAIN a.parses : Derives(a, a.parses[i])
        /\ \A i \in DOMAIN a.parses :
              i = 1 => \A k \in DOMAIN a.parses[i].items : a.parses[i].items[k] < s
        /\ a.parses # <<>> => \E c \in StateNodeNos : a.down = {c}
    BY <2>1 DEF ParseInv
  <2>4. a.parses \in Seq(Parse)  BY <2>1 DEF ShapeInv, IsSymbolNode
  <2>5. a.parses = <<>> => IsLeaf(a)'  BY <1>6, <2>3, LeafGrown
  <2>6. ASSUME NEW i \in DOMAIN a.parses PROVE Derives(a, a.parses[i])'
    <3>1. PICK p : p = a.parses[i] /\ p \in Parse  BY <2>4, <2>6
    <3>2. Derives(a, p)  BY <2>3, <2>6, <3>1
    <3>3. Derives(a, p)'  BY <1>6, <3>1, <3>2, DerivesGrown
    <3> QED BY <3>1, <3>3
  <2>7. a.parses # <<>> => \E c \in StateNodeNos' : a.down = {c}  BY <1>3, <2>3
  <2> QED BY <2>2, <2>3, <2>5, <2>6, <2>7
<1>8. /\ e.parses = <<>> => IsLeaf(e)'
      /\ \A i \in DOMAIN e.parses : Derives(e, e.parses[i])'
      /\ \A i \in DOMAIN e.parses :
            i = 1 => \A k \in DOMAIN e.parses[i].items : e.parses[i].items[k] < m
      /\ e.parses # <<>> => \E c \in StateNodeNos' : e.down = {c}
  <2>1. e.down = {d} /\ d \in StateNodeNos'  BY <1>1, <1>3 DEF NewNode
  <2>2. CASE IsShifted(node, e)
    <3>1. IsLeaf(e) /\ e.parses = <<>>  BY <2>2 DEF IsShifted
    <3>2. IsLeaf(e)'  BY <1>6, <3>1, LeafGrown
    <3> QED BY <3>1, <3>2
  <2>3. CASE IsReduced(e)
    <3>1. PICK p \in Parse : e.parses = <<p>> /\ Derives(e, p)  BY <2>3 DEF IsReduced
    <3>2. Derives(e, p)'  BY <1>6, <3>1, DerivesGrown
    <3>3. DOMAIN e.parses = {1} /\ e.parses[1] = p /\ e.parses # <<>>  BY <3>1
    <3>4. p.items \in Seq(SymbolNodeNos)  BY <3>1 DEF Derives
    <3>5. \A k \in DOMAIN p.items : p.items[k] \in SymbolNodeNos  BY <3>4
    <3>6. \A t \in SymbolNodeNos : t < m  BY <1>2, NodeFacts DEF SymbolNodeNos
    <3> QED BY <2>1, <3>2, <3>3, <3>5, <3>6
  <2> QED BY <2>2, <2>3
<1> QED BY <1>3, <1>5, <1>7, <1>8 DEF ParseInv

-----------------------------------------------------------------------------
(* A symbol node that gets one more parse, or leads down to one more node  *)

Touched(s, D, P) ==
    /\ s \in SymbolNodeNos
    /\ IsSeq(SymbolNodes') /\ Len(SymbolNodes') = Len(SymbolNodes)
    /\ \A t \in SymbolNodeNos : t # s => SymbolNodes'[t] = SymbolNodes[t]
    /\ SymbolNodes'[s] = [symbol |-> SymbolNodes[s].symbol, item |-> SymbolNodes[s].item,
                          start |-> SymbolNodes[s].start, end |-> SymbolNodes[s].end,
                          down |-> D, parses |-> P]
    /\ SymbolNodes[s].down \subseteq D /\ D \subseteq StateNodeNos
    /\ P \in Seq(Parse) /\ (P = <<>> <=> SymbolNodes[s].parses = <<>>)
    /\ \A i \in DOMAIN P : Derives(SymbolNodes[s], P[i])
    /\ P # <<>> => P[1] = SymbolNodes[s].parses[1] /\ D = SymbolNodes[s].down
    /\ \A c \in D : c # 1 => Border(c) = SymbolNodes[s].start
    /\ \A v \in StateNodeNos : s \in StateNodes[v].children =>
          \A c \in D : /\ HasGoto(StateNodes[c].state, SymbolNodes[s].symbol)
                       /\ Goto(StateNodes[c].state, SymbolNodes[s].symbol) = StateNodes[v].state

TouchStep(s, D, P) ==
    /\ Touched(s, D, P)
    /\ UNCHANGED <<table, words, breakAfterMax, StateNodes, InputLevels, wordNo, pc>>

LEMMA TouchedNodes ==
    ASSUME NEW s, NEW D, NEW P, TouchStep(s, D, P)
    PROVE  /\ Grown
           /\ SymbolNodeNos' = SymbolNodeNos /\ StateNodeNos' = StateNodeNos
           /\ SymbolNodes'[s].down = D /\ SymbolNodes'[s].parses = P
           /\ \A t \in SymbolNodeNos :
                 /\ SymbolNodes'[t].symbol = SymbolNodes[t].symbol
                 /\ SymbolNodes'[t].item = SymbolNodes[t].item
                 /\ SymbolNodes'[t].start = SymbolNodes[t].start
                 /\ SymbolNodes'[t].end = SymbolNodes[t].end
                 /\ SymbolNodes[t].down \subseteq SymbolNodes'[t].down
                 /\ SymbolNodes'[t].parses = <<>> <=> SymbolNodes[t].parses = <<>>
                 /\ t # s => SymbolNodes'[t] = SymbolNodes[t]
<1>1. SymbolNodeNos' = SymbolNodeNos /\ StateNodeNos' = StateNodeNos
  BY DEF TouchStep, Touched, SymbolNodeNos, StateNodeNos
<1>2. /\ SymbolNodes'[s].symbol = SymbolNodes[s].symbol
      /\ SymbolNodes'[s].item = SymbolNodes[s].item
      /\ SymbolNodes'[s].start = SymbolNodes[s].start
      /\ SymbolNodes'[s].end = SymbolNodes[s].end
      /\ SymbolNodes'[s].down = D /\ SymbolNodes'[s].parses = P
  BY DEF TouchStep, Touched
<1>3. /\ SymbolNodes[s].down \subseteq D /\ (P = <<>> <=> SymbolNodes[s].parses = <<>>)
      /\ \A t \in SymbolNodeNos : t # s => SymbolNodes'[t] = SymbolNodes[t]
  BY DEF TouchStep, Touched
<1>4. \A t \in SymbolNodeNos :
                 /\ SymbolNodes'[t].symbol = SymbolNodes[t].symbol
                 /\ SymbolNodes'[t].item = SymbolNodes[t].item
                 /\ SymbolNodes'[t].start = SymbolNodes[t].start
                 /\ SymbolNodes'[t].end = SymbolNodes[t].end
                 /\ SymbolNodes[t].down \subseteq SymbolNodes'[t].down
                 /\ SymbolNodes'[t].parses = <<>> <=> SymbolNodes[t].parses = <<>>
                 /\ t # s => SymbolNodes'[t] = SymbolNodes[t]
  BY <1>2, <1>3
<1>5. UNCHANGED <<table, words, StateNodes>>  BY DEF TouchStep
<1>6. Grown  BY <1>1, <1>4, <1>5 DEF Grown
<1> QED BY <1>1, <1>2, <1>4, <1>6

LEMMA TouchedShape ==
    ASSUME InputInv, ShapeInv, LevelInv, NEW s, NEW D, NEW P, TouchStep(s, D, P)
    PROVE  ShapeInv' /\ LevelInv'
<1>1. UNCHANGED <<table, StateNodes, InputLevels, wordNo, pc>>  BY DEF TouchStep
<1>2. SymbolNodeNos' = SymbolNodeNos /\ StateNodeNos' = StateNodeNos  BY TouchedNodes
<1>3. LevelInv'  BY <1>1 DEF LevelInv, Back
<1>4. Parse' = Parse /\ States' = States  BY <1>1 DEF Parse, States
<1>5. ASSUME NEW t \in SymbolNodeNos PROVE IsSymbolNode(SymbolNodes[t])'
  <2>1. IsSymbolNode(SymbolNodes[t])  BY DEF ShapeInv
  <2>2. CASE t # s
    <3>1. SymbolNodes'[t] = SymbolNodes[t]  BY <2>2, TouchedNodes
    <3> QED BY <1>2, <1>4, <2>1, <3>1 DEF IsSymbolNode
  <2>3. CASE t = s
    <3>1. PICK a : a = SymbolNodes[s]  OBVIOUS
    <3>2. SymbolNodes'[t] = [symbol |-> a.symbol, item |-> a.item, start |-> a.start,
                             end |-> a.end, down |-> D, parses |-> P]
      BY <2>3, <3>1 DEF TouchStep, Touched
    <3>3. a.down \subseteq D /\ D \subseteq StateNodeNos /\ P \in Seq(Parse)
      BY <3>1 DEF TouchStep, Touched
    <3>4. a.start \in Nat /\ a.end \in Nat /\ a.down # {}
      BY <2>1, <2>3, <3>1 DEF IsSymbolNode
    <3> QED BY <1>2, <1>4, <3>2, <3>3, <3>4 DEF IsSymbolNode
  <2> QED BY <2>2, <2>3
<1>6. IsSeq(SymbolNodes)'  BY DEF TouchStep, Touched, IsSeq
<1> QED BY <1>1, <1>2, <1>3, <1>4, <1>5, <1>6 DEF ShapeInv

LEMMA TouchedStack ==
    ASSUME InputInv, ShapeInv, LevelInv, StackInv, LinkInv, StateInv, LeafInv,
           NEW s, NEW D, NEW P, TouchStep(s, D, P)
    PROVE  StackInv' /\ LinkInv' /\ StateInv' /\ LeafInv'
<1>1. UNCHANGED <<table, words, StateNodes, InputLevels, pc>>  BY DEF TouchStep
<1>2. SymbolNodeNos' = SymbolNodeNos /\ StateNodeNos' = StateNodeNos  BY TouchedNodes
<1>3. \A v : Border(v)' = Border(v)  BY <1>1, BorderUnchanged
<1>4. \A t \in SymbolNodeNos :
                 /\ SymbolNodes'[t].symbol = SymbolNodes[t].symbol
                 /\ SymbolNodes'[t].start = SymbolNodes[t].start
                 /\ SymbolNodes'[t].end = SymbolNodes[t].end
                 /\ SymbolNodes'[t].parses = <<>> <=> SymbolNodes[t].parses = <<>>
                 /\ t # s => SymbolNodes'[t].down = SymbolNodes[t].down
  BY TouchedNodes
<1>5. SymbolNodes'[s].down = D  BY TouchedNodes
<1>6. StackInv'
  <2>1. ASSUME NEW t \in SymbolNodeNos, NEW c \in SymbolNodes'[t].down, c # 1
        PROVE  Border(c) = SymbolNodes[t].start
    <3>1. CASE t = s
      BY <1>5, <2>1, <3>1 DEF TouchStep, Touched
    <3>2. CASE t # s
      <4>1. c \in SymbolNodes[t].down  BY <1>4, <2>1, <3>2
      <4> QED BY <2>1, <4>1 DEF StackInv
    <3> QED BY <3>1, <3>2
  <2>2. ASSUME NEW t \in SymbolNodeNos
        PROVE  /\ SymbolNodes'[t].start < SymbolNodes'[t].end
               /\ SymbolNodes'[t].end <= Len(words)
               /\ \A c \in SymbolNodes'[t].down : c # 1 => Border(c) = SymbolNodes'[t].start
               /\ \E v \in StateNodeNos :
                     t \in StateNodes[v].children /\ Border(v) = SymbolNodes'[t].end
    <3>1. /\ SymbolNodes[t].start < SymbolNodes[t].end
          /\ SymbolNodes[t].end <= Len(words)
          /\ \E v \in StateNodeNos :
                t \in StateNodes[v].children /\ Border(v) = SymbolNodes[t].end
      BY DEF StackInv
    <3> QED BY <1>4, <2>1, <3>1
  <2>3. /\ \A u, v \in StateNodeNos : \A t \in StateNodes[u].children :
              t \in StateNodes[v].children => u = v
        /\ \A v \in StateNodeNos : v # 1 => StateNodes[v].children # {}
    BY DEF StackInv
  <2> QED BY <1>1, <1>2, <1>3, <2>2, <2>3 DEF StackInv
<1>7. LinkInv'
  <2>1. SUFFICES ASSUME NEW v \in StateNodeNos, NEW t \in StateNodes[v].children,
                        NEW c \in SymbolNodes'[t].down
                 PROVE  /\ HasGoto(StateNodes[c].state, SymbolNodes[t].symbol)
                        /\ Goto(StateNodes[c].state, SymbolNodes[t].symbol) = StateNodes[v].state
    <3>1. \A v \in StateNodeNos : \A t \in StateNodes[v].children :
              SymbolNodes'[t].symbol = SymbolNodes[t].symbol
      BY <1>4 DEF ShapeInv
    <3> QED BY <1>1, <1>2, <3>1 DEF LinkInv, HasGoto, Goto
  <2>2. t \in SymbolNodeNos  BY DEF ShapeInv
  <2>3. CASE t = s
    BY <1>5, <2>1, <2>3 DEF TouchStep, Touched
  <2>4. CASE t # s
    <3>1. c \in SymbolNodes[t].down  BY <1>4, <2>1, <2>2, <2>4
    <3> QED BY <3>1 DEF LinkInv
  <2> QED BY <2>3, <2>4
<1>8. StateInv'  BY <1>1, <1>2, <1>3 DEF StateInv
<1>9. LeafInv'
  <2>1. \A v \in StateNodeNos : \A t \in StateNodes[v].children : t \in SymbolNodeNos
    BY DEF ShapeInv
  <2>2. CurrentFirst' = CurrentFirst /\ Back(InputLevels)' = Back(InputLevels)
    BY <1>1 DEF CurrentFirst, Back
  <2>3. \A v \in StateNodeNos : \A t, x \in StateNodes[v].children :
            SymbolNodes'[t].parses = <<>> => t = x
    BY <1>4, <2>1 DEF LeafInv
  <2>4. \A v \in StateNodeNos :
            (v >= CurrentFirst /\ (pc = "shift" \/ v <= Back(InputLevels))) =>
                \A t \in StateNodes[v].children : SymbolNodes'[t].parses = <<>>
    BY <1>4, <2>1 DEF LeafInv
  <2> QED BY <1>1, <1>2, <2>2, <2>3, <2>4 DEF LeafInv
<1> QED BY <1>6, <1>7, <1>8, <1>9

LEMMA TouchedParse ==
    ASSUME InputInv, ShapeInv, LevelInv, LeafInv, ParseInv, PackInv,
           NEW s, NEW D, NEW P, TouchStep(s, D, P)
    PROVE  ParseInv' /\ PackInv'
<1>1. UNCHANGED <<table, words, breakAfterMax, StateNodes, InputLevels, pc>>  BY DEF TouchStep
<1>2. SymbolNodeNos' = SymbolNodeNos /\ StateNodeNos' = StateNodeNos /\ Grown
  BY TouchedNodes
<1>3. \A t \in SymbolNodeNos :
                 /\ SymbolNodes'[t].symbol = SymbolNodes[t].symbol
                 /\ SymbolNodes'[t].item = SymbolNodes[t].item
                 /\ SymbolNodes'[t].start = SymbolNodes[t].start
                 /\ SymbolNodes'[t].end = SymbolNodes[t].end
                 /\ SymbolNodes'[t].parses = <<>> <=> SymbolNodes[t].parses = <<>>
                 /\ t # s => SymbolNodes'[t] = SymbolNodes[t]
  BY TouchedNodes
<1>4. /\ SymbolNodes'[s].down = D /\ SymbolNodes'[s].parses = P
      /\ s \in SymbolNodeNos
      /\ P \in Seq(Parse) /\ (P = <<>> <=> SymbolNodes[s].parses = <<>>)
      /\ \A i \in DOMAIN P : Derives(SymbolNodes[s], P[i])
      /\ P # <<>> => P[1] = SymbolNodes[s].parses[1] /\ D = SymbolNodes[s].down
  BY TouchedNodes DEF TouchStep, Touched
<1>5. ParseInv'
  <2>1. ASSUME NEW t \in SymbolNodeNos
        PROVE  /\ SymbolNodes'[t].parses = <<>> => IsLeaf(SymbolNodes[t])'
               /\ \A i \in DOMAIN SymbolNodes'[t].parses :
                     Derives(SymbolNodes[t], SymbolNodes[t].parses[i])'
               /\ \A i \in DOMAIN SymbolNodes'[t].parses :
                     i = 1 => \A k \in DOMAIN SymbolNodes'[t].parses[i].items :
                                  SymbolNodes'[t].parses[i].items[k] < t
               /\ SymbolNodes'[t].parses # <<>> =>
                     \E c \in StateNodeNos' : SymbolNodes'[t].down = {c}
    <3>1. PICK a, b, Q : a = SymbolNodes[t] /\ b = SymbolNodes'[t] /\ Q = b.parses  OBVIOUS
    <3>2. /\ b.symbol = a.symbol /\ b.item = a.item /\ b.start = a.start /\ b.end = a.end
          /\ Q = <<>> <=> a.parses = <<>>
      BY <1>3, <3>1
    <3>3. /\ a.parses = <<>> => IsLeaf(a)
          /\ \A i \in DOMAIN a.parses : Derives(a, a.parses[i])
          /\ \A i \in DOMAIN a.parses :
                i = 1 => \A k \in DOMAIN a.parses[i].items : a.parses[i].items[k] < t
          /\ a.parses # <<>> => \E c \in StateNodeNos : a.down = {c}
          /\ a.parses \in Seq(Parse)
      BY <3>1 DEF ParseInv, ShapeInv, IsSymbolNode
    <3>4. Q = <<>> => IsLeaf(b)'  BY <1>2, <3>2, <3>3, LeafGrown
    <3>5. /\ Q \in Seq(Parse)
          /\ \A i \in DOMAIN Q : Derives(a, Q[i])
          /\ Q # <<>> => Q[1] = a.parses[1] /\ b.down = a.down
      <4>1. CASE t = s
        BY <1>4, <3>1, <4>1
      <4>2. CASE t # s
        <5>1. b = a  BY <1>3, <3>1, <4>2
        <5> QED BY <3>1, <3>3, <5>1
      <4> QED BY <4>1, <4>2
    <3>6. ASSUME NEW i \in DOMAIN Q PROVE Derives(b, Q[i])'
      <4>1. PICK p : p = Q[i] /\ p \in Parse  BY <3>5, <3>6
      <4>2. Derives(a, p)  BY <3>5, <3>6, <4>1
      <4>3. Derives(b, p)'  BY <1>2, <3>2, <4>1, <4>2, DerivesGrown
      <4> QED BY <4>1, <4>3
    <3>7. ASSUME NEW i \in DOMAIN Q, i = 1
          PROVE  \A k \in DOMAIN Q[i].items : Q[i].items[k] < t
      <4>1. Q # <<>>  BY <3>5, <3>7
      <4>2. a.parses # <<>> /\ Q[1] = a.parses[1]  BY <3>2, <3>5, <4>1
      <4>3. 1 \in DOMAIN a.parses  BY <3>3, <4>2
      <4> QED BY <3>3, <3>7, <4>2, <4>3
    <3>8. Q # <<>> => \E c \in StateNodeNos' : b.down = {c}  BY <1>2, <3>2, <3>3, <3>5
    <3> QED BY <3>1, <3>4, <3>6, <3>7, <3>8
  <2> QED BY <1>2, <2>1 DEF ParseInv
<1>6. PackInv'
  <2>1. TooManyNodes(SymbolNodes)' <=> TooManyNodes(SymbolNodes)
    BY <1>1 DEF TooManyNodes, TouchStep, Touched
  <2>2. \A v \in StateNodeNos : \A t \in StateNodes[v].children : t \in SymbolNodeNos
    BY DEF ShapeInv
  <2>3. SUFFICES ASSUME ~TooManyNodes(SymbolNodes), NEW v \in StateNodeNos,
                        NEW t \in StateNodes[v].children, NEW x \in StateNodes[v].children,
                        SymbolNodes'[t].item = SymbolNodes'[x].item,
                        SymbolNodes'[t].start = SymbolNodes'[x].start,
                        SymbolNodes'[t].down \cap SymbolNodes'[x].down # {}
                 PROVE  t = x
    BY <1>1, <1>2, <2>1 DEF PackInv
  <2>4. SymbolNodes[t].item = SymbolNodes[x].item /\ SymbolNodes[t].start = SymbolNodes[x].start
    BY <1>3, <2>2, <2>3
  <2>5. CASE (t = s \/ x = s) /\ P = <<>>
    BY <1>4, <2>5 DEF LeafInv
  <2>6. CASE ~((t = s \/ x = s) /\ P = <<>>)
    <3>1. SymbolNodes'[t].down = SymbolNodes[t].down /\ SymbolNodes'[x].down = SymbolNodes[x].down
      BY <1>3, <1>4, <2>2, <2>6
    <3> QED BY <2>3, <2>4, <3>1 DEF PackInv
  <2> QED BY <2>5, <2>6
<1> QED BY <1>5, <1>6

-----------------------------------------------------------------------------
(* What a path gives                                                       *)

LEMMA RightPartFacts ==
    ASSUME InputInv, ShapeInv, StackInv, LinkInv, NEW red, CanReduce(red),
           NEW path \in Paths(red), NEW n, n = RuleLength(red.rule),
           NEW items, items = RightPart(path)
    PROVE  /\ n \in Nat \ {0} /\ Len(path.symbols) = n /\ DOMAIN path.symbols = 1..n
           /\ items = [i \in 1..n |-> path.symbols[n + 1 - i]]
           /\ items \in Seq(SymbolNodeNos) /\ Len(items) = n /\ DOMAIN items = 1..n
           /\ Back(items) = red.symbol
<1>1. PICK q : q = path.symbols  OBVIOUS
<1>2. n \in Nat \ {0} /\ q \in [1..n -> SymbolNodeNos] /\ q[1] = red.symbol
  BY <1>1, PathFacts
<1>3. Len(q) = n /\ DOMAIN q = 1..n  BY <1>2, SeqFromFunction
<1>4. items = [i \in 1..n |-> q[n + 1 - i]]  BY <1>1, <1>3 DEF RightPart
<1>5. \A i \in 1..n : n + 1 - i \in 1..n  BY <1>2
<1>6. items \in [1..n -> SymbolNodeNos]  BY <1>2, <1>4, <1>5
<1>7. items \in Seq(SymbolNodeNos) /\ Len(items) = n /\ DOMAIN items = 1..n
  <2>1. n \in Nat  BY <1>2
  <2>2. items \in Seq(SymbolNodeNos) /\ Len(items) = n  BY <1>6, <2>1, SeqFromFunction
  <2> QED BY <1>6, <2>2
<1>8. Back(items) = red.symbol
  <2>1. n \in 1..n /\ n + 1 - n = 1  BY <1>2
  <2>2. items[n] = q[n + 1 - n]  BY <1>4, <2>1
  <2> QED BY <1>2, <1>7, <2>1, <2>2 DEF Back
<1> QED BY <1>1, <1>2, <1>3, <1>4, <1>7, <1>8

\* A path is known by its right part and its bottom.
LEMMA RightPartInjective ==
    ASSUME InputInv, ShapeInv, StackInv, LinkInv, NEW red, CanReduce(red),
           NEW path \in Paths(red), NEW other \in Paths(red),
           RightPart(path) = RightPart(other), path.bottom = other.bottom
    PROVE  path = other
<1>1. PICK n, q, r : n = RuleLength(red.rule) /\ q = path.symbols /\ r = other.symbols
  OBVIOUS
<1>2. /\ n \in Nat \ {0}
      /\ path = [symbols |-> path.symbols, bottom |-> path.bottom]
      /\ q \in [1..n -> SymbolNodeNos]
  BY <1>1, PathFacts
<1>3. /\ other = [symbols |-> other.symbols, bottom |-> other.bottom]
      /\ r \in [1..n -> SymbolNodeNos]
  BY <1>1, PathFacts
<1>4. RightPart(path) = [i \in 1..n |-> q[n + 1 - i]]  BY <1>1, RightPartFacts
<1>5. RightPart(other) = [i \in 1..n |-> r[n + 1 - i]]  BY <1>1, RightPartFacts
<1>6. ASSUME NEW i \in 1..n PROVE q[i] = r[i]
  <2>1. PICK k : k = n + 1 - i  OBVIOUS
  <2>2. k \in 1..n /\ n + 1 - k = i  BY <1>2, <2>1
  <2>3. q[n + 1 - k] = r[n + 1 - k]  BY <1>4, <1>5, <2>2
  <2> QED BY <2>2, <2>3
<1>7. q = r  BY <1>2, <1>3, <1>6
<1> QED BY <1>1, <1>2, <1>3, <1>7

\* The symbol node that a path reduces to, and its parse.
LEMMA PathNode ==
    ASSUME InputInv, ShapeInv, LevelInv, StackInv, LinkInv, CanReduce(reduction),
           NEW path \in Paths(reduction), NEW e,
           e.symbol = PathLeft, e.item = PathItem(path), e.start = PathStart(path),
           e.end = PathEnd(path),
           NEW p, p = [rule |-> reduction.rule, items |-> RightPart(path)]
    PROVE  /\ p \in Parse /\ Derives(e, p) /\ Back(p.items) = reduction.symbol
           /\ e.start \in Nat /\ e.start < e.end
           /\ e.end = Len(InputLevels) - 1 /\ e.end <= Len(words)
           /\ path.bottom \in StateNodeNos
           /\ path.bottom # 1 => Border(path.bottom) = e.start
           /\ HasGoto(StateNodes[path.bottom].state, e.symbol)
           /\ e.symbol \notin Readings(table)
<1>1. PICK n, q, items : /\ n = RuleLength(reduction.rule) /\ q = path.symbols
                         /\ items = RightPart(path)
  OBVIOUS
<1>2. /\ n \in Nat \ {0}
      /\ q \in [1..n -> SymbolNodeNos] /\ q[1] = reduction.symbol
      /\ \A i \in 1..n :
            SymbolNodes[q[i]].symbol = table.rules[reduction.rule].right[n + 1 - i]
      /\ \A i \in 1..(n - 1) : SymbolNodes[q[i]].start = SymbolNodes[q[i + 1]].end
      /\ path.bottom \in SymbolNodes[q[n]].down /\ path.bottom \in StateNodeNos
      /\ HasGoto(StateNodes[path.bottom].state, table.rules[reduction.rule].left)
  BY <1>1, PathFacts
<1>3. /\ Len(q) = n /\ DOMAIN q = 1..n
      /\ items = [i \in 1..n |-> q[n + 1 - i]]
      /\ items \in Seq(SymbolNodeNos) /\ Len(items) = n /\ DOMAIN items = 1..n
      /\ Back(items) = reduction.symbol
  BY <1>1, RightPartFacts
<1>4. reduction.rule \in DOMAIN table.rules /\ reduction.symbol \in SymbolNodeNos
      /\ reduction.last \in StateNodeNos
      /\ reduction.symbol \in StateNodes[reduction.last].children
      /\ Border(reduction.last) = Len(InputLevels) - 1
  BY DEF CanReduce
<1>5. 1 \in 1..n /\ n \in 1..n /\ \A i \in 1..n : n + 1 - i \in 1..n
  BY <1>2
<1>6. items[1] = q[n] /\ items[n] = q[1]
  <2>1. n + 1 - 1 = n /\ n + 1 - n = 1  BY <1>2
  <2> QED BY <1>3, <1>5, <2>1
<1>7. e.start = SymbolNodes[q[n]].start /\ e.end = SymbolNodes[q[1]].end
  BY <1>1, <1>6 DEF PathStart, PathEnd
<1>8. p.rule = reduction.rule /\ p.items = items  BY <1>1
<1>9. p \in Parse
  <2>1. items \in Seq(Nat)
    <3>1. items \in [1..n -> Nat]
      <4>1. SymbolNodeNos \subseteq Nat  BY NodeFacts DEF SymbolNodeNos
      <4>2. items \in [1..n -> SymbolNodeNos]  BY <1>3
      <4> QED BY <4>1, <4>2
    <3> QED BY <1>2, <3>1
  <2> QED BY <1>1, <1>4, <2>1 DEF Parse
<1>10. Derives(e, p)
  <2>1. PICK rule : rule = table.rules[reduction.rule]  OBVIOUS
  <2>2. Len(items) = Len(rule.right)  BY <1>1, <1>3, <2>1 DEF RuleLength
  <2>3. ASSUME NEW k \in 1..n PROVE SymbolNodes[items[k]].symbol = rule.right[k]
    <3>1. PICK i : i = n + 1 - k  OBVIOUS
    <3>2. i \in 1..n /\ n + 1 - i = k  BY <1>2, <3>1
    <3>3. items[k] = q[i]  BY <1>3, <3>1
    <3> QED BY <1>2, <2>1, <3>2, <3>3
  <2>4. ASSUME NEW k \in 1..(n - 1)
        PROVE  SymbolNodes[items[k]].end = SymbolNodes[items[k + 1]].start
    <3>1. PICK i : i = n - k  OBVIOUS
    <3>2. /\ i \in 1..(n - 1) /\ n + 1 - k = i + 1 /\ n + 1 - (k + 1) = i
          /\ k \in 1..n /\ k + 1 \in 1..n
      BY <1>2, <3>1
    <3>3. items[k] = q[i + 1] /\ items[k + 1] = q[i]  BY <1>3, <3>2
    <3> QED BY <1>2, <3>2, <3>3
  <2>5. e.item = CreateNewItem(rule, [k \in DOMAIN items |-> SymbolNodes[items[k]].item])
    <3>1. [i \in DOMAIN path.symbols |-> SymbolNodes[RightPart(path)[i]].item]
            = [k \in DOMAIN items |-> SymbolNodes[items[k]].item]
      BY <1>1, <1>3
    <3> QED BY <2>1, <3>1 DEF PathItem
  <2>6. rule.left = e.symbol  BY <2>1 DEF PathLeft
  <2>7. Back(items) = q[1]  BY <1>2, <1>3
  <2>8. /\ items \in Seq(SymbolNodeNos)
        /\ rule.left = e.symbol
        /\ Len(items) = Len(rule.right)
        /\ \A k \in DOMAIN items : SymbolNodes[items[k]].symbol = rule.right[k]
        /\ SymbolNodes[items[1]].start = e.start
        /\ SymbolNodes[Back(items)].end = e.end
        /\ \A k \in 1..(Len(items) - 1) :
              SymbolNodes[items[k]].end = SymbolNodes[items[k + 1]].start
        /\ e.item = CreateNewItem(rule, [k \in DOMAIN items |-> SymbolNodes[items[k]].item])
    BY <1>3, <1>6, <1>7, <2>2, <2>3, <2>4, <2>5, <2>6, <2>7
  <2>9. rule = table.rules[p.rule]  BY <1>8, <2>1
  <2> QED BY ONLY <1>8, <2>8, <2>9 DEF Derives
<1>11. \A i \in 1..n : /\ q[i] \in SymbolNodeNos
                       /\ SymbolNodes[q[i]].start \in Nat /\ SymbolNodes[q[i]].end \in Nat
                       /\ SymbolNodes[q[i]].start < SymbolNodes[q[i]].end
                       /\ SymbolNodes[q[i]].end <= Len(words)
  BY <1>2 DEF ShapeInv, IsSymbolNode, StackInv
<1>12. e.start \in Nat /\ e.end \in Nat /\ e.end <= Len(words)  BY <1>5, <1>7, <1>11
<1>13. e.start < e.end
  <2> DEFINE S == {i \in 1..n : SymbolNodes[q[i]].start < e.end}
  <2>1. 1 \in S  BY <1>5, <1>7, <1>11
  <2>2. ASSUME NEW i \in 1..n, i + 1 \in 1..n, i \in S PROVE i + 1 \in S
    <3>1. i \in 1..(n - 1)  BY <1>2, <2>2
    <3>2. SymbolNodes[q[i]].start = SymbolNodes[q[i + 1]].end  BY <1>2, <3>1
    <3>3. PICK a, b, c : /\ a = SymbolNodes[q[i]].start /\ b = SymbolNodes[q[i + 1]].start
                         /\ c = e.end
      OBVIOUS
    <3>4. a \in Nat /\ b \in Nat /\ c \in Nat /\ a < c /\ b < a
      BY <1>11, <1>12, <2>2, <3>2, <3>3
    <3>5. b < c  BY ONLY <3>4
    <3> QED BY <2>2, <3>3, <3>5
  <2>3. n \in Nat  BY <1>2
  <2> HIDE DEF S
  <2>4. \A i \in 1..n : i \in S  BY <2>1, <2>2, <2>3, UpInduction
  <2> QED BY <1>5, <1>7, <2>4 DEF S
<1>14. e.end = Len(InputLevels) - 1
  <2>1. PICK v \in StateNodeNos : /\ reduction.symbol \in StateNodes[v].children
                                  /\ Border(v) = SymbolNodes[reduction.symbol].end
    BY <1>4 DEF StackInv
  <2>2. v = reduction.last  BY <1>4, <2>1 DEF StackInv
  <2> QED BY <1>2, <1>4, <1>7, <2>1, <2>2
<1>15. path.bottom # 1 => Border(path.bottom) = e.start
  <2>1. q[n] \in SymbolNodeNos  BY <1>5, <1>11
  <2> QED BY <1>2, <1>7, <2>1 DEF StackInv
<1>16. e.symbol = table.rules[reduction.rule].left  BY DEF PathLeft
<1>17. e.symbol \notin Readings(table)  BY <1>4, <1>16, RuleFacts
<1> QED BY <1>2, <1>3, <1>8, <1>9, <1>10, <1>12, <1>13, <1>14, <1>15, <1>16, <1>17

\* What a reduction can do and the paths it has stay as the stack grows.
LEMMA CanReduceGrown ==
    ASSUME Grown, UNCHANGED InputLevels, NEW red, CanReduce(red)
    PROVE  CanReduce(red)'
<1>1. /\ red \in [rule : DOMAIN table.rules, symbol : SymbolNodeNos, last : StateNodeNos]
      /\ red.symbol \in StateNodes[red.last].children
      /\ Border(red.last) = Len(InputLevels) - 1
      /\ <<red.rule, RuleLength(red.rule)>> \in table.items[StateNodes[red.last].state]
  BY DEF CanReduce
<1>2. red.last \in StateNodeNos  BY <1>1
<1>3. table' = table /\ RuleLength(red.rule)' = RuleLength(red.rule)  BY DEF Grown, RuleLength
<1>4. red \in [rule : DOMAIN table.rules, symbol : SymbolNodeNos', last : StateNodeNos']
  BY <1>1 DEF Grown
<1>5. red.symbol \in StateNodes'[red.last].children
      /\ StateNodes'[red.last].state = StateNodes[red.last].state
  BY <1>1, <1>2 DEF Grown
<1>6. Border(red.last)' = Border(red.last)  BY BorderUnchanged
<1> QED BY <1>1, <1>3, <1>4, <1>5, <1>6 DEF CanReduce

LEMMA PathsGrown ==
    ASSUME InputInv, ShapeInv, Grown, NEW red, CanReduce(red)
    PROVE  Paths(red) \subseteq Paths(red)'
<1>1. PICK n : n = RuleLength(red.rule)  OBVIOUS
<1>2. n \in Nat \ {0} /\ n \in 1..n
  <2>1. red.rule \in DOMAIN table.rules  BY DEF CanReduce
  <2>2. n \in Nat \ {0}  BY <1>1, <2>1, RuleFacts
  <2> QED BY <2>2
<1>3. RuleLength(red.rule)' = n  BY <1>1 DEF RuleLength, Grown
<1>4. SUFFICES ASSUME NEW path \in Paths(red) PROVE path \in Paths(red)'  OBVIOUS
<1>5. PICK q, w : /\ path = [symbols |-> q, bottom |-> w]
                  /\ IsChain(q, n, red) /\ w \in SymbolNodes[q[n]].down
  BY <1>1, PathsElement
<1>6. /\ q \in [1..n -> SymbolNodeNos] /\ q[1] = red.symbol
      /\ \A i \in 1..(n - 1) : Below(q[i], q[i + 1])
  BY <1>5 DEF IsChain
<1>7. q \in [1..n -> SymbolNodeNos']  BY <1>6 DEF Grown
<1>8. ASSUME NEW i \in 1..(n - 1) PROVE Below(q[i], q[i + 1])'
  <2>1. i \in 1..n  BY <1>2
  <2>2. q[i] \in SymbolNodeNos  BY <1>6, <2>1
  <2>3. PICK v \in SymbolNodes[q[i]].down : q[i + 1] \in StateNodes[v].children
    BY <1>6 DEF Below
  <2>4. v \in StateNodeNos  BY <2>2, <2>3 DEF ShapeInv, IsSymbolNode
  <2>5. v \in SymbolNodes'[q[i]].down /\ q[i + 1] \in StateNodes'[v].children
    BY <2>2, <2>3, <2>4 DEF Grown
  <2> QED BY <2>5 DEF Below
<1>9. w \in SymbolNodes'[q[n]].down
  <2>1. q[n] \in SymbolNodeNos  BY <1>2, <1>6
  <2> QED BY <1>5, <2>1 DEF Grown
<1>10. IsChain(q, n, red)'  BY <1>6, <1>7, <1>8 DEF IsChain
<1>11. path \in Paths(red)' <=>
          \E r, b : /\ path = [symbols |-> r, bottom |-> b]
                    /\ IsChain(r, RuleLength(red.rule), red)'
                    /\ b \in SymbolNodes'[r[RuleLength(red.rule)']].down
  BY DEF Paths, IsChain, SymbolNodeNos
<1>12. IsChain(q, RuleLength(red.rule), red)'  BY <1>3, <1>10 DEF IsChain
<1> QED BY <1>3, <1>5, <1>9, <1>11, <1>12

-----------------------------------------------------------------------------
(* The steps that leave the stack alone                                    *)

LEMMA StackUnchanged ==
    ASSUME IInv, UNCHANGED <<table, words, breakAfterMax, wordNo>>, UNCHANGED stack,
           pc' \in {"loop", "paths", "found", "done"},
           pc' \in {"loop", "paths"} => pc \in {"word", "loop", "paths"}
    PROVE  /\ InputInv' /\ ShapeInv' /\ LevelInv' /\ StackInv' /\ LinkInv' /\ StateInv'
           /\ LeafInv' /\ ParseInv' /\ PackInv'
           /\ Grown
<1>1. /\ InputInv /\ ShapeInv /\ LevelInv /\ StackInv /\ LinkInv /\ StateInv
      /\ LeafInv /\ ParseInv /\ PackInv
  BY DEF IInv
<1>2. UNCHANGED <<StateNodes, SymbolNodes, InputLevels>>  BY DEF stack
<1>3. StateNodeNos' = StateNodeNos /\ SymbolNodeNos' = SymbolNodeNos
  BY <1>2 DEF StateNodeNos, SymbolNodeNos
<1>4. \A v : Border(v)' = Border(v)  BY <1>2, BorderUnchanged
<1>5. InputInv'  BY <1>1 DEF InputInv
<1>6. Parse' = Parse /\ States' = States  BY DEF Parse, States
<1>7. ShapeInv'
  <2>1. \A s \in SymbolNodeNos : IsSymbolNode(SymbolNodes[s])'
    BY <1>1, <1>2, <1>3, <1>6 DEF ShapeInv, IsSymbolNode
  <2>2. IsSeq(SymbolNodes)'  BY <1>1, <1>2 DEF ShapeInv, IsSeq
  <2> QED BY <1>1, <1>2, <1>3, <1>6, <2>1, <2>2 DEF ShapeInv
<1>8. LevelInv'  BY <1>1, <1>2 DEF LevelInv, Back
<1>9. StackInv'  BY <1>1, <1>2, <1>3, <1>4 DEF StackInv
<1>10. LinkInv'  BY <1>1, <1>2, <1>3 DEF LinkInv, HasGoto, Goto
<1>11. StateInv'  BY <1>1, <1>2, <1>3, <1>4 DEF StateInv
<1>12. LeafInv'
  <2>1. CurrentFirst' = CurrentFirst /\ Back(InputLevels)' = Back(InputLevels)
    BY <1>2 DEF CurrentFirst, Back
  <2>2. pc' # "shift"  OBVIOUS
  <2> QED BY <1>1, <1>2, <1>3, <2>1, <2>2 DEF LeafInv
<1>13. Grown  BY <1>2, <1>3 DEF Grown
<1>14. ParseInv'
  <2>1. ASSUME NEW s \in SymbolNodeNos
        PROVE  /\ SymbolNodes[s].parses = <<>> => IsLeaf(SymbolNodes[s])'
               /\ \A i \in DOMAIN SymbolNodes[s].parses :
                     Derives(SymbolNodes[s], SymbolNodes[s].parses[i])'
    <3>1. /\ SymbolNodes[s].parses = <<>> => IsLeaf(SymbolNodes[s])
          /\ \A i \in DOMAIN SymbolNodes[s].parses :
                Derives(SymbolNodes[s], SymbolNodes[s].parses[i])
      BY <1>1 DEF ParseInv
    <3>2. SymbolNodes[s].parses = <<>> => IsLeaf(SymbolNodes[s])'
      BY <1>2, <3>1 DEF IsLeaf
    <3>3. \A i \in DOMAIN SymbolNodes[s].parses :
                Derives(SymbolNodes[s], SymbolNodes[s].parses[i])'
      BY <1>2, <1>3, <3>1 DEF Derives, Back
    <3> QED BY <3>2, <3>3
  <2> QED BY <1>1, <1>2, <1>3, <2>1 DEF ParseInv
<1>15. PackInv'  BY <1>1, <1>2, <1>3 DEF PackInv, TooManyNodes
<1> QED BY <1>5, <1>7, <1>8, <1>9, <1>10, <1>11, <1>12, <1>13, <1>14, <1>15

\* What is pending stays possible as the stack grows.
LEMMA PendingKept ==
    ASSUME PendingInv, Grown, UNCHANGED InputLevels
    PROVE  /\ ActiveNodes \subseteq StateNodeNos'
           /\ \A v \in ActiveNodes : v = 1 \/ Border(v)' = Len(InputLevels') - 1
           /\ \A red \in PendingReductions : CanReduce(red)'
<1>1. \A red \in PendingReductions : CanReduce(red)'
  BY CanReduceGrown DEF PendingInv
<1>2. \A v : Border(v)' = Border(v)  BY BorderUnchanged
<1>3. ActiveNodes \subseteq StateNodeNos'  BY DEF PendingInv, Grown
<1>4. \A v \in ActiveNodes : v = 1 \/ Border(v)' = Len(InputLevels') - 1
  BY <1>2 DEF PendingInv
<1> QED BY <1>1, <1>3, <1>4

LEMMA ShiftKept ==
    ASSUME ShiftInv, Grown, UNCHANGED <<InputLevels, wordNo>>
    PROVE  \A shift \in PendingShifts : CanShift(shift)'
<1> TAKE shift \in PendingShifts
<1>1. CanShift(shift)  BY DEF ShiftInv
<1>2. table' = table /\ words' = words /\ StateNodeNos \subseteq StateNodeNos'  BY DEF Grown
<1>3. StateNodes'[shift.from].state = StateNodes[shift.from].state
  BY <1>1 DEF Grown, CanShift
<1>4. \A v : Border(v)' = Border(v)  BY BorderUnchanged
<1>5. Symbols' = Symbols  BY <1>2 DEF Symbols
<1> QED BY <1>1, <1>2, <1>3, <1>4, <1>5 DEF CanShift, HasGoto, Goto

\* The first node of the closure set and the nodes of it.
LEMMA ClosureFacts ==
    ASSUME InputInv, ShapeInv, LevelInv
    PROVE  /\ LastClosure = CurrentFirst..Back(InputLevels)
           /\ LastClosure \subseteq StateNodeNos
           /\ \A v \in LastClosure : Border(v) = Len(InputLevels) - 1
<1>1. LastClosure = CurrentFirst..Back(InputLevels)  BY DEF LastClosure, CurrentFirst
<1>2. CurrentFirst \in Nat \ {0} /\ Back(InputLevels) \in Nat  BY FirstNodeNo
<1>3. Back(InputLevels) <= Len(StateNodes) /\ Len(StateNodes) \in Nat
  BY NodeFacts DEF LevelInv
<1>4. LastClosure \subseteq StateNodeNos  BY <1>1, <1>2, <1>3 DEF StateNodeNos
<1>5. \A v \in LastClosure : v \in Nat \ {0} /\ v >= CurrentFirst  BY <1>1, <1>2
<1> QED BY <1>1, <1>4, <1>5, BorderFacts

LEMMA BeginWordStep ==
    ASSUME IInv, BeginWord
    PROVE  IInv'
<1>1. /\ pc = "word" /\ pc' = "loop"
      /\ ActiveNodes' = LastClosure \cup (IF wordNo \in startPoints THEN {1} ELSE {})
      /\ UNCHANGED <<table, words, breakAfterMax, wordNo>> /\ UNCHANGED stack
      /\ UNCHANGED <<StateNodes, SymbolNodes, InputLevels>>
      /\ UNCHANGED <<PendingReductions, PendingShifts, reduction, todo, createdGroups>>
  BY DEF BeginWord, input, stack
<1>2. /\ InputInv' /\ ShapeInv' /\ LevelInv' /\ StackInv' /\ LinkInv' /\ StateInv'
      /\ LeafInv' /\ ParseInv' /\ PackInv' /\ Grown
  BY <1>1, StackUnchanged
<1>3. /\ InputInv /\ ShapeInv /\ LevelInv /\ StackInv /\ LeafInv
      /\ PendingInv /\ ShiftInv /\ LimitInv
  BY DEF IInv
<1>4. PendingReductions = {} /\ todo = {} /\ PendingShifts = {}
  BY <1>1, <1>3 DEF PendingInv, ShiftInv
<1>5. 1 \in StateNodeNos /\ StateNodes[1].children = {}
  BY <1>3, NodeFacts DEF StateNodeNos, ShapeInv
<1>6. PendingInv'
  <2>1. \A v : Border(v)' = Border(v)  BY <1>1, BorderUnchanged
  <2>2. StateNodeNos' = StateNodeNos  BY <1>1 DEF StateNodeNos
  <2>3. LastClosure \subseteq StateNodeNos /\ \A v \in LastClosure : Border(v) = Len(InputLevels) - 1
    BY <1>3, ClosureFacts
  <2> QED BY <1>1, <1>4, <1>5, <2>1, <2>2, <2>3 DEF PendingInv
<1>7. ShiftInv'  BY <1>1, <1>4 DEF ShiftInv
<1>8. OnceInv'
  <2>1. ASSUME NEW s \in SymbolNodeNos, SymbolNodes[s].parses # <<>>
        PROVE  SymbolNodes[s].end # Len(InputLevels) - 1
    <3>1. SUFFICES ASSUME SymbolNodes[s].end = Len(InputLevels) - 1 PROVE FALSE  OBVIOUS
    <3>2. PICK v \in StateNodeNos :
              s \in StateNodes[v].children /\ Border(v) = SymbolNodes[s].end
      BY <1>3 DEF StackInv
    <3>3. v \in Nat \ {0}  BY <1>3, NodeFacts DEF StateNodeNos
    <3>4. v >= CurrentFirst  BY <1>3, <3>1, <3>2, <3>3, BorderFacts
    <3>5. v <= Back(InputLevels)  BY <1>1, <1>3, <3>3, NodeFacts DEF LevelInv, StateNodeNos
    <3>6. SymbolNodes[s].parses = <<>>  BY <1>3, <3>2, <3>4, <3>5 DEF LeafInv
    <3> QED BY <2>1, <3>6
  <2>2. ASSUME NEW s \in SymbolNodeNos, NEW i \in DOMAIN SymbolNodes[s].parses,
               NEW v \in LastClosure,
               Back(SymbolNodes[s].parses[i].items) \in StateNodes[v].children
        PROVE  FALSE
    <3>1. PICK a, p, t : a = SymbolNodes[s] /\ p = a.parses[i] /\ t = Back(p.items)  OBVIOUS
    <3>2. a.parses \in Seq(Parse)  BY <1>3, <3>1 DEF ShapeInv, IsSymbolNode
    <3>3. a.parses # <<>>  BY <2>2, <3>1, <3>2
    <3>4. Derives(a, p)  BY <2>2, <3>1 DEF IInv, ParseInv
    <3>5. SymbolNodes[t].end = a.end  BY <3>1, <3>4 DEF Derives
    <3>6. v \in StateNodeNos /\ Border(v) = Len(InputLevels) - 1
      BY <1>3, <2>2, ClosureFacts
    <3>7. t \in StateNodes[v].children  BY <2>2, <3>1
    <3>8. t \in SymbolNodeNos  BY <1>3, <3>6, <3>7 DEF ShapeInv
    <3>9. SymbolNodes[t].end = Border(v)
      <4>1. PICK u \in StateNodeNos :
                t \in StateNodes[u].children /\ Border(u) = SymbolNodes[t].end
        BY <1>3, <3>8 DEF StackInv
      <4>2. u = v  BY <1>3, <3>6, <3>7, <4>1 DEF StackInv
      <4> QED BY <4>1, <4>2
    <3> QED BY <2>1, <3>1, <3>3, <3>5, <3>6, <3>9
  <2>3. \A s \in SymbolNodeNos : \A i \in DOMAIN SymbolNodes[s].parses :
            IsOver(s, SymbolNodes[s].parses[i])'
    <3> TAKE s \in SymbolNodeNos
    <3> TAKE i \in DOMAIN SymbolNodes[s].parses
    <3>1. \A v \in ActiveNodes' :
              Back(SymbolNodes[s].parses[i].items) \notin StateNodes[v].children
      BY <1>1, <1>5, <2>2
    <3> QED BY <1>1, <1>4, <3>1 DEF IsOver, Back
  <2>4. SymbolNodeNos' = SymbolNodeNos  BY <1>1 DEF SymbolNodeNos
  <2>5. OnceInv  BY DEF IInv
  <2> QED BY <1>1, <2>3, <2>4, <2>5 DEF OnceInv
<1>9. LimitInv'
  BY <1>1, <1>3 DEF LimitInv, TooMany, TooManyNodes
<1> QED BY <1>2, <1>6, <1>7, <1>8, <1>9 DEF IInv

LEMMA ActorStep ==
    ASSUME IInv, Actor
    PROVE  IInv'
<1>1. /\ pc = "loop" /\ pc' = AfterStep(SymbolNodes, createdGroups)
      /\ UNCHANGED <<table, words, breakAfterMax, wordNo>> /\ UNCHANGED stack
      /\ UNCHANGED <<StateNodes, SymbolNodes, InputLevels>>
      /\ UNCHANGED <<reduction, todo, createdGroups>>
  BY DEF Actor, input, stack
<1>2. PICK v \in ActiveNodes :
          /\ ActiveNodes' = ActiveNodes \ {v}
          /\ PendingShifts' = PendingShifts \cup
                 {[from |-> v, to |-> Goto(StateNodes[v].state, X), symbol |-> X] :
                     X \in {Y \in Symbols : HasGoto(StateNodes[v].state, Y)}}
          /\ PendingReductions' = PendingReductions \cup
                 {[rule |-> r, symbol |-> s, last |-> v] :
                     r \in Reductions(StateNodes[v].state), s \in StateNodes[v].children}
  BY DEF Actor
<1>3. pc' \in {"loop", "found"}  BY <1>1 DEF AfterStep
<1>4. /\ InputInv' /\ ShapeInv' /\ LevelInv' /\ StackInv' /\ LinkInv' /\ StateInv'
      /\ LeafInv' /\ ParseInv' /\ PackInv' /\ Grown
  BY <1>1, <1>3, StackUnchanged
<1>5. /\ InputInv /\ ShapeInv /\ LevelInv /\ PendingInv /\ ShiftInv /\ OnceInv
  BY DEF IInv
<1>6. todo = {} /\ v \in StateNodeNos /\ (v = 1 \/ Border(v) = Len(InputLevels) - 1)
  BY <1>1, <1>5 DEF PendingInv
<1>7. StateNodes[v].state \in States  BY <1>5, <1>6, NodeFacts
<1>8. StateNodes[1].children = {}  BY <1>5 DEF ShapeInv
<1>9. ASSUME NEW r \in Reductions(StateNodes[v].state), NEW s \in StateNodes[v].children,
             NEW red, red = [rule |-> r, symbol |-> s, last |-> v]
      PROVE  CanReduce(red)
  <2>1. r \in DOMAIN table.rules /\ <<r, RuleLength(r)>> \in table.items[StateNodes[v].state]
    BY <1>5, <1>7, ReductionsFacts
  <2>2. s \in SymbolNodeNos  BY <1>5, <1>6 DEF ShapeInv
  <2>3. Border(v) = Len(InputLevels) - 1  BY <1>6, <1>8
  <2>4. red.rule = r /\ red.symbol = s /\ red.last = v  BY <1>9
  <2>5. red \in [rule : DOMAIN table.rules, symbol : SymbolNodeNos, last : StateNodeNos]
    BY <1>6, <1>9, <2>1, <2>2
  <2> QED BY <2>1, <2>3, <2>4, <2>5 DEF CanReduce
<1>10. PendingInv'
  <2>1. ASSUME NEW red \in PendingReductions' PROVE CanReduce(red)'
    <3>1. CASE red \in PendingReductions
      BY <1>1, <1>4, <1>5, <3>1, PendingKept
    <3>2. CASE red \notin PendingReductions
      <4>1. PICK r \in Reductions(StateNodes[v].state), s \in StateNodes[v].children :
                red = [rule |-> r, symbol |-> s, last |-> v]
        BY <1>2, <3>2
      <4>2. CanReduce(red)  BY <1>9, <4>1
      <4> QED BY <1>1, <1>4, <4>2, CanReduceGrown
    <3> QED BY <3>1, <3>2
  <2>2. /\ ActiveNodes \subseteq StateNodeNos'
        /\ \A u \in ActiveNodes : u = 1 \/ Border(u)' = Len(InputLevels') - 1
    BY <1>1, <1>4, <1>5, PendingKept
  <2> QED BY <1>1, <1>2, <1>3, <1>6, <2>1, <2>2 DEF PendingInv
<1>11. ShiftInv'
  <2>1. \A shift \in PendingShifts : CanShift(shift)'  BY <1>1, <1>4, <1>5, ShiftKept
  <2>2. ASSUME NEW X \in Symbols, HasGoto(StateNodes[v].state, X), NEW shift,
               shift = [from |-> v, to |-> Goto(StateNodes[v].state, X), symbol |-> X]
        PROVE  CanShift(shift)'
    <3>1. shift.from = v /\ shift.to = Goto(StateNodes[v].state, X) /\ shift.symbol = X
      BY <2>2
    <3>2. Len(InputLevels) = wordNo  BY <1>1, <1>5 DEF LevelInv
    <3>3. Border(v)' = Border(v)  BY <1>1, BorderUnchanged
    <3>4. v # 1 => Border(v)' = wordNo - 1  BY <1>6, <3>2, <3>3
    <3>5. Symbols' = Symbols /\ StateNodeNos' = StateNodeNos  BY <1>1 DEF Symbols, StateNodeNos
    <3> QED BY <1>1, <1>6, <2>2, <3>1, <3>4, <3>5 DEF CanShift, HasGoto, Goto
  <2>3. \A shift \in PendingShifts' : CanShift(shift)'  BY <1>2, <2>1, <2>2
  <2> QED BY <1>3, <2>3 DEF ShiftInv
<1>12. OnceInv'
  <2>1. ASSUME NEW s \in SymbolNodeNos, NEW i \in DOMAIN SymbolNodes[s].parses
        PROVE  IsOver(s, SymbolNodes[s].parses[i])'
    <3>1. PICK p : p = SymbolNodes[s].parses[i]  OBVIOUS
    <3>2. IsOver(s, p)  BY <1>5, <2>1, <3>1 DEF OnceInv
    <3>3. \A u \in ActiveNodes' : Back(p.items) \notin StateNodes[u].children
      BY <1>2, <3>2 DEF IsOver
    <3>4. \A red \in PendingReductions' : ~(red.rule = p.rule /\ red.symbol = Back(p.items))
      <4>1. \A red \in PendingReductions : ~(red.rule = p.rule /\ red.symbol = Back(p.items))
        BY <3>2 DEF IsOver
      <4>2. Back(p.items) \notin StateNodes[v].children  BY <3>2 DEF IsOver
      <4> QED BY <1>2, <4>1, <4>2
    <3>5. pc' # "paths"  BY <1>3
    <3> QED BY <1>1, <3>1, <3>3, <3>4, <3>5 DEF IsOver, Back
  <2>2. SymbolNodeNos' = SymbolNodeNos  BY <1>1 DEF SymbolNodeNos
  <2> QED BY <1>1, <1>5, <2>1, <2>2 DEF OnceInv
<1>13. LimitInv'
  <2>1. TooMany(SymbolNodes, createdGroups)' <=> TooMany(SymbolNodes, createdGroups)
    BY <1>1 DEF TooMany, TooManyNodes
  <2> QED BY <1>1, <2>1 DEF LimitInv, AfterStep
<1> QED BY <1>4, <1>10, <1>11, <1>12, <1>13 DEF IInv

LEMMA ReducerStep ==
    ASSUME IInv, Reducer
    PROVE  IInv'
<1>1. /\ pc = "loop" /\ pc' = "paths" /\ ActiveNodes = {}
      /\ UNCHANGED <<table, words, breakAfterMax, wordNo>> /\ UNCHANGED stack
      /\ UNCHANGED <<StateNodes, SymbolNodes, InputLevels>>
      /\ UNCHANGED <<ActiveNodes, PendingShifts, createdGroups>>
  BY DEF Reducer, input, stack
<1>2. PICK red \in PendingReductions :
          /\ PendingReductions' = PendingReductions \ {red}
          /\ reduction' = red /\ todo' = Paths(red)
  BY DEF Reducer
<1>3. /\ InputInv' /\ ShapeInv' /\ LevelInv' /\ StackInv' /\ LinkInv' /\ StateInv'
      /\ LeafInv' /\ ParseInv' /\ PackInv' /\ Grown
  BY <1>1, StackUnchanged
<1>4. /\ InputInv /\ ShapeInv /\ StackInv /\ LinkInv /\ PendingInv /\ ShiftInv /\ OnceInv
  BY DEF IInv
<1>5. CanReduce(red)  BY <1>4 DEF PendingInv
<1>6. PendingInv'
  <2>1. \A r \in PendingReductions : CanReduce(r)'  BY <1>1, <1>3, <1>4, PendingKept
  <2>2. CanReduce(reduction)'
    <3>1. CanReduce(red)'  BY <2>1
    <3> QED BY <1>2, <3>1 DEF CanReduce, RuleLength
  <2>3. Paths(reduction)' = Paths(red)'  BY <1>2 DEF Paths, RuleLength
  <2>4. todo' \subseteq Paths(reduction)'  BY <1>2, <1>3, <1>4, <1>5, <2>3, PathsGrown
  <2> QED BY <1>1, <1>2, <2>1, <2>2, <2>4 DEF PendingInv
<1>7. ShiftInv'
  <2>1. \A shift \in PendingShifts : CanShift(shift)'  BY <1>1, <1>3, <1>4, ShiftKept
  <2> QED BY <1>1, <2>1 DEF ShiftInv
<1>8. OnceInv'
  <2>1. ASSUME NEW s \in SymbolNodeNos, NEW i \in DOMAIN SymbolNodes[s].parses
        PROVE  IsOver(s, SymbolNodes[s].parses[i])'
    <3>1. PICK p : p = SymbolNodes[s].parses[i]  OBVIOUS
    <3>2. IsOver(s, p)  BY <1>4, <2>1, <3>1 DEF OnceInv
    <3>3. ASSUME NEW path \in todo', red.rule = p.rule, RightPart(path) = p.items
          PROVE  FALSE
      <4>1. Back(RightPart(path)) = red.symbol  BY <1>2, <1>4, <1>5, <3>3, RightPartFacts
      <4> QED BY <3>2, <3>3, <4>1 DEF IsOver
    <3>4. ~(red.rule = p.rule /\ red.symbol = Back(p.items))  BY <3>2 DEF IsOver
    <3>5. \A path \in todo' : RightPart(path)' = RightPart(path)  BY DEF RightPart
    <3>6. \A path \in todo' : red.rule = p.rule => RightPart(path)' # p.items
      BY <3>3, <3>5
    <3>7. \A r \in PendingReductions' : ~(r.rule = p.rule /\ r.symbol = Back(p.items))
      BY <1>2, <3>2 DEF IsOver
    <3> QED BY <1>1, <1>2, <3>1, <3>6, <3>7 DEF IsOver, Back
  <2>2. SymbolNodeNos' = SymbolNodeNos  BY <1>1 DEF SymbolNodeNos
  <2> QED BY <1>1, <1>4, <2>1, <2>2 DEF OnceInv
<1>9. LimitInv'  BY <1>1 DEF LimitInv
<1> QED BY <1>3, <1>6, <1>7, <1>8, <1>9 DEF IInv

\* A parse stays over when fewer paths are to do and nothing new is pending.
LEMMA OnceKept ==
    ASSUME OnceInv, UNCHANGED <<StateNodes, SymbolNodes, ActiveNodes, PendingReductions>>,
           todo' \subseteq todo, pc' = "paths" => pc = "paths" /\ reduction' = reduction
    PROVE  OnceInv'
<1>1. ASSUME NEW s \in SymbolNodeNos, NEW i \in DOMAIN SymbolNodes[s].parses
      PROVE  IsOver(s, SymbolNodes[s].parses[i])'
  <2>1. IsOver(s, SymbolNodes[s].parses[i])  BY <1>1 DEF OnceInv
  <2> QED BY <2>1 DEF IsOver, Back, RightPart
<1>2. SymbolNodeNos' = SymbolNodeNos  BY DEF SymbolNodeNos
<1> QED BY <1>1, <1>2 DEF OnceInv

LEMMA RejectPathStep ==
    ASSUME IInv, RejectPath
    PROVE  IInv'
<1>1. /\ pc = "paths" /\ pc' = pc /\ todo' \subseteq todo
      /\ UNCHANGED <<table, words, breakAfterMax, wordNo>> /\ UNCHANGED stack
      /\ UNCHANGED <<StateNodes, SymbolNodes, InputLevels>>
      /\ UNCHANGED <<ActiveNodes, PendingReductions, PendingShifts, reduction>>
  BY DEF RejectPath, input, stack
<1>2. /\ InputInv' /\ ShapeInv' /\ LevelInv' /\ StackInv' /\ LinkInv' /\ StateInv'
      /\ LeafInv' /\ ParseInv' /\ PackInv' /\ Grown
  BY <1>1, StackUnchanged
<1>3. InputInv /\ ShapeInv /\ PendingInv /\ ShiftInv /\ OnceInv  BY DEF IInv
<1>4. PendingInv'
  <2>1. CanReduce(reduction)  BY <1>1, <1>3 DEF PendingInv
  <2>2. PICK red : red = reduction  OBVIOUS
  <2>3. CanReduce(red)' /\ Paths(red) \subseteq Paths(red)'
    BY <1>1, <1>2, <1>3, <2>1, <2>2, CanReduceGrown, PathsGrown
  <2>4. CanReduce(reduction)' /\ Paths(reduction)' = Paths(red)'
    <3>1. reduction' = red  BY <1>1, <2>2
    <3>2. CanReduce(reduction)'  BY ONLY <2>3, <3>1 DEF CanReduce, RuleLength
    <3>3. Paths(reduction)' = Paths(red)'  BY ONLY <3>1 DEF Paths, RuleLength
    <3> QED BY <3>2, <3>3
  <2>5. todo' \subseteq Paths(reduction)'  BY <1>1, <1>3, <2>2, <2>3, <2>4 DEF PendingInv
  <2>6. \A r \in PendingReductions : CanReduce(r)'  BY <1>1, <1>2, <1>3, PendingKept
  <2>7. /\ ActiveNodes \subseteq StateNodeNos'
        /\ \A u \in ActiveNodes : u = 1 \/ Border(u)' = Len(InputLevels') - 1
    BY <1>1, <1>2, <1>3, PendingKept
  <2> QED BY <1>1, <1>3, <2>4, <2>5, <2>6, <2>7 DEF PendingInv
<1>5. ShiftInv'
  <2>1. \A shift \in PendingShifts : CanShift(shift)'  BY <1>1, <1>2, <1>3, ShiftKept
  <2> QED BY <1>1, <2>1 DEF ShiftInv
<1>6. OnceInv'  BY <1>1, <1>3, OnceKept
<1>7. LimitInv'  BY <1>1 DEF LimitInv
<1> QED BY <1>2, <1>4, <1>5, <1>6, <1>7 DEF IInv

\* EndReducer and Collect.
LEMMA LeavingStep ==
    ASSUME IInv, EndReducer \/ Collect
    PROVE  IInv'
<1>1. /\ pc' \in {"loop", "found", "done"}
      /\ pc' = "loop" => pc = "paths" /\ ~TooMany(SymbolNodes, createdGroups)
      /\ pc = "paths" => todo = {}
      /\ UNCHANGED <<table, words, breakAfterMax, wordNo>> /\ UNCHANGED stack
      /\ UNCHANGED <<StateNodes, SymbolNodes, InputLevels, createdGroups>>
      /\ UNCHANGED <<ActiveNodes, PendingReductions, PendingShifts, todo>>
  BY DEF EndReducer, Collect, AfterStep, input, stack
<1>2. /\ InputInv' /\ ShapeInv' /\ LevelInv' /\ StackInv' /\ LinkInv' /\ StateInv'
      /\ LeafInv' /\ ParseInv' /\ PackInv' /\ Grown
  BY <1>1, StackUnchanged
<1>3. InputInv /\ ShapeInv /\ PendingInv /\ ShiftInv /\ OnceInv  BY DEF IInv
<1>4. PendingInv'
  <2>1. \A r \in PendingReductions : CanReduce(r)'  BY <1>1, <1>2, <1>3, PendingKept
  <2>2. /\ ActiveNodes \subseteq StateNodeNos'
        /\ \A u \in ActiveNodes : u = 1 \/ Border(u)' = Len(InputLevels') - 1
    BY <1>1, <1>2, <1>3, PendingKept
  <2>3. todo' = {}  BY <1>1, <1>3 DEF PendingInv
  <2> QED BY <1>1, <2>1, <2>2, <2>3 DEF PendingInv
<1>5. ShiftInv'
  <2>1. \A shift \in PendingShifts : CanShift(shift)'  BY <1>1, <1>2, <1>3, ShiftKept
  <2> QED BY <1>1, <2>1 DEF ShiftInv
<1>6. OnceInv'  BY <1>1, <1>3, OnceKept
<1>7. LimitInv'
  <2>1. TooMany(SymbolNodes, createdGroups)' <=> TooMany(SymbolNodes, createdGroups)
    BY <1>1 DEF TooMany, TooManyNodes
  <2> QED BY <1>1, <2>1 DEF LimitInv
<1> QED BY <1>2, <1>4, <1>5, <1>6, <1>7 DEF IInv

-----------------------------------------------------------------------------
(* ReduceOnePath                                                           *)

\* The reduction that is carried out is neither pending nor called for again.
LEMMA FreshParse ==
    ASSUME IInv, pc = "paths", NEW path \in todo,
           NEW p, p = [rule |-> reduction.rule, items |-> RightPart(path)]
    PROVE  /\ \A v \in ActiveNodes : Back(p.items) \notin StateNodes[v].children
           /\ \A red \in PendingReductions : ~(red.rule = p.rule /\ red.symbol = Back(p.items))
           /\ \A other \in todo :
                 RightPart(other) = p.items /\ other.bottom = path.bottom => other = path
<1>1. InputInv /\ ShapeInv /\ StackInv /\ LinkInv /\ PendingInv  BY DEF IInv
<1>2. /\ CanReduce(reduction) /\ reduction \notin PendingReductions
      /\ reduction.last \notin ActiveNodes /\ todo \subseteq Paths(reduction)
      /\ ActiveNodes \subseteq StateNodeNos
  BY <1>1 DEF PendingInv
<1>3. p.rule = reduction.rule /\ p.items = RightPart(path)  OBVIOUS
<1>4. Back(p.items) = reduction.symbol  BY <1>1, <1>2, <1>3, RightPartFacts
<1>5. /\ reduction \in [rule : DOMAIN table.rules, symbol : SymbolNodeNos, last : StateNodeNos]
      /\ reduction.symbol \in StateNodes[reduction.last].children
  BY <1>2 DEF CanReduce
<1>6. \A v \in StateNodeNos : reduction.symbol \in StateNodes[v].children => v = reduction.last
  BY <1>1, <1>5 DEF StackInv
<1>7. \A v \in ActiveNodes : Back(p.items) \notin StateNodes[v].children
  BY <1>2, <1>4, <1>6
<1>8. ASSUME NEW red \in PendingReductions, red.rule = p.rule, red.symbol = Back(p.items)
      PROVE  FALSE
  <2>1. CanReduce(red)  BY <1>1 DEF PendingInv
  <2>2. /\ red \in [rule : DOMAIN table.rules, symbol : SymbolNodeNos, last : StateNodeNos]
        /\ red.symbol \in StateNodes[red.last].children
    BY <2>1 DEF CanReduce
  <2>3. red.last = reduction.last  BY <1>4, <1>6, <1>8, <2>2
  <2>4. red = reduction  BY <1>3, <1>4, <1>5, <1>8, <2>2, <2>3
  <2> QED BY <1>2, <2>4
<1>9. \A other \in todo : RightPart(other) = p.items /\ other.bottom = path.bottom => other = path
  BY <1>1, <1>2, <1>3, RightPartInjective
<1> QED BY <1>7, <1>8, <1>9

\* A sequence with one more element.
LEMMA OneMore ==
    ASSUME NEW R, NEW Q \in Seq(R), NEW p \in R, NEW P, P = Append(Q, p)
    PROVE  /\ P \in Seq(R) /\ P # <<>>
           /\ Q # <<>> => P[1] = Q[1]
           /\ \A i \in DOMAIN P : (i \in DOMAIN Q /\ P[i] = Q[i]) \/ (i = Len(Q) + 1 /\ P[i] = p)
<1>1. PICK n : n = Len(Q) /\ n \in Nat /\ DOMAIN Q = 1..n  OBVIOUS
<1>2. /\ P \in Seq(R) /\ Len(P) = n + 1 /\ DOMAIN P = 1..(n + 1)
      /\ \A i \in 1..n : P[i] = Q[i]
      /\ P[n + 1] = p
  BY <1>1
<1>3. Q # <<>> => n # 0  BY <1>1
<1>4. P # <<>>  BY <1>1, <1>2
<1>5. Q # <<>> => P[1] = Q[1]  BY <1>1, <1>2, <1>3
<1>6. \A i \in 1..(n + 1) : i \in 1..n \/ i = n + 1  BY <1>1
<1> QED BY <1>1, <1>2, <1>4, <1>5, <1>6

LEMMA ParsesAdded ==
    ASSUME NEW N \in Nat, NEW g, g = [t \in 1..N |-> g[t]], NEW s \in 1..N,
           NEW a, a = g[s],
           a = [symbol |-> a.symbol, item |-> a.item, start |-> a.start,
                end |-> a.end, down |-> a.down, parses |-> a.parses],
           NEW p, NEW P, P = Append(a.parses, p),
           NEW f, f = [g EXCEPT ![s].parses = Append(@, p)]
    PROVE  /\ f = [t \in 1..N |-> f[t]]
           /\ \A t \in 1..N : t # s => f[t] = g[t]
           /\ f[s] = [symbol |-> a.symbol, item |-> a.item, start |-> a.start,
                      end |-> a.end, down |-> a.down, parses |-> P]
<1>1. DOMAIN g = 1..N  OBVIOUS
<1>2. PICK b : b = [a EXCEPT !.parses = P]  OBVIOUS
<1>3. f = [g EXCEPT ![s] = b]  BY <1>1, <1>2
<1>4. DOMAIN f = 1..N /\ f = [t \in 1..N |-> f[t]]  BY <1>1, <1>3
<1>5. \A t \in 1..N : t # s => f[t] = g[t]  BY <1>1, <1>3
<1>6. f[s] = b  BY <1>1, <1>3
<1>7. PICK x, i, st, en, d, Q : a = [symbol |-> x, item |-> i, start |-> st,
                                     end |-> en, down |-> d, parses |-> Q]
  OBVIOUS
<1>8. b = [symbol |-> x, item |-> i, start |-> st, end |-> en, down |-> d, parses |-> P]
  BY ONLY <1>2, <1>7
<1>9. b = [symbol |-> a.symbol, item |-> a.item, start |-> a.start,
           end |-> a.end, down |-> a.down, parses |-> P]
  BY <1>7, <1>8
<1> QED BY <1>4, <1>5, <1>6, <1>9

\* The symbol node in which a path is packed is the result of an earlier
\* reduction to the same symbol over the same words.
LEMMA PackHolds ==
    ASSUME IInv, pc = "paths", NEW path \in todo, NEW s \in HasPathOfLengthTwo(path),
           NEW p, p = [rule |-> reduction.rule, items |-> RightPart(path)],
           NEW D, D = SymbolNodes[s].down,
           NEW P, P = Append(SymbolNodes[s].parses, p),
           SymbolNodes' = [SymbolNodes EXCEPT ![s].parses = Append(@, p)],
           UNCHANGED <<table, words, breakAfterMax, StateNodes, InputLevels, wordNo, pc>>
    PROVE  TouchStep(s, D, P) /\ D = {path.bottom}
<1>1. /\ InputInv /\ ShapeInv /\ LevelInv /\ StackInv /\ LinkInv /\ ParseInv /\ PendingInv
  BY DEF IInv
<1>2. CanReduce(reduction) /\ path \in Paths(reduction)  BY <1>1 DEF PendingInv
<1>3. PICK state, node : state = PathGoto(path) /\ node = NodeFor(state)  OBVIOUS
<1>4. PICK e0 : e0 = [symbol |-> PathLeft, item |-> PathItem(path), start |-> PathStart(path),
                      end |-> PathEnd(path)]
  OBVIOUS
<1>5. /\ PathEnd(path) = Len(InputLevels) - 1
      /\ HasGoto(StateNodes[path.bottom].state, PathLeft)
      /\ PathLeft \notin Readings(table)
  <2>1. /\ e0.symbol = PathLeft /\ e0.item = PathItem(path) /\ e0.start = PathStart(path)
        /\ e0.end = PathEnd(path)
    BY <1>4
  <2>2. /\ e0.end = Len(InputLevels) - 1
        /\ HasGoto(StateNodes[path.bottom].state, e0.symbol)
        /\ e0.symbol \notin Readings(table)
    BY <1>1, <1>2, <2>1, PathNode
  <2> QED BY <2>1, <2>2
<1>6. state # 1 /\ Goto(StateNodes[path.bottom].state, PathLeft) = state
  BY <1>1, <1>3, <1>5, GotoFacts DEF PathGoto
<1>7. /\ Labelled(state) # {}
      /\ HasPathOfLengthTwo(path) = {t \in StateNodes[node].children :
             /\ path.bottom \in SymbolNodes[t].down
             /\ SymbolNodes[t].item = PathItem(path)
             /\ SymbolNodes[t].start = PathStart(path)}
  BY <1>3 DEF HasPathOfLengthTwo
<1>8. node \in StateNodeNos /\ node >= GetFirstNodeNoOfCurrentClosure
      /\ StateNodes[node].state = state
  BY <1>1, <1>3, <1>6, <1>7, NodeForFacts
<1>9. s \in HasPathOfLengthTwo(path)  OBVIOUS
<1>10. PICK a : a = SymbolNodes[s]  OBVIOUS
<1>11. /\ s \in StateNodes[node].children /\ s \in SymbolNodeNos
       /\ path.bottom \in a.down /\ a.item = PathItem(path) /\ a.start = PathStart(path)
  BY <1>1, <1>7, <1>8, <1>9, <1>10 DEF ShapeInv
<1>12. a.symbol = PathLeft
  BY <1>1, <1>5, <1>6, <1>8, <1>10, <1>11, AccessingSymbol
<1>13. a.parses # <<>>  BY <1>1, <1>5, <1>10, <1>11, <1>12, LeafSymbol
<1>14. a.end = PathEnd(path)
  <2>1. PICK v \in StateNodeNos : s \in StateNodes[v].children /\ Border(v) = a.end
    BY <1>1, <1>10, <1>11 DEF StackInv
  <2>2. v = node  BY <1>1, <1>8, <1>11, <2>1 DEF StackInv
  <2>3. node \in Nat \ {0}  BY <1>1, <1>8, NodeFacts DEF StateNodeNos
  <2>4. node >= CurrentFirst  BY <1>1, <1>8, <2>3, FirstNodeNo
  <2>5. Border(node) = Len(InputLevels) - 1  BY <1>1, <2>3, <2>4, BorderFacts
  <2> QED BY <1>5, <2>1, <2>2, <2>5
<1>15. p \in Parse /\ Derives(a, p)
  BY <1>1, <1>2, <1>11, <1>12, <1>14, PathNode
<1>16. D = {path.bottom} /\ D \subseteq StateNodeNos
  <2>1. \E c \in StateNodeNos : D = {c}  BY <1>1, <1>10, <1>11, <1>13 DEF ParseInv
  <2> QED BY <1>10, <1>11, <2>1
<1>17. /\ a = [symbol |-> a.symbol, item |-> a.item, start |-> a.start,
               end |-> a.end, down |-> a.down, parses |-> a.parses]
       /\ a.parses \in Seq(Parse)
  BY <1>1, <1>10, <1>11 DEF ShapeInv, IsSymbolNode
<1>18. /\ P \in Seq(Parse) /\ P # <<>> /\ P[1] = a.parses[1]
       /\ \A i \in DOMAIN P : P[i] = p \/ (i \in DOMAIN a.parses /\ P[i] = a.parses[i])
  <2>1. PICK Q : Q = a.parses  OBVIOUS
  <2>2. Q \in Seq(Parse) /\ Q # <<>> /\ P = Append(Q, p) /\ p \in Parse
    BY <1>10, <1>13, <1>15, <1>17, <2>1
  <2>3. /\ P \in Seq(Parse) /\ P # <<>> /\ P[1] = Q[1]
        /\ \A i \in DOMAIN P : (i \in DOMAIN Q /\ P[i] = Q[i]) \/ (i = Len(Q) + 1 /\ P[i] = p)
    <3>1. PICK R : R = Parse  OBVIOUS
    <3>2. Q \in Seq(R) /\ p \in R  BY <2>2, <3>1
    <3>3. /\ P \in Seq(R) /\ P # <<>>
          /\ Q # <<>> => P[1] = Q[1]
          /\ \A i \in DOMAIN P : (i \in DOMAIN Q /\ P[i] = Q[i]) \/ (i = Len(Q) + 1 /\ P[i] = p)
      BY ONLY <2>2, <3>2, OneMore
    <3> QED BY <2>2, <3>1, <3>3
  <2> QED BY <2>1, <2>3
<1>19. \A i \in DOMAIN P : Derives(a, P[i])
  <2>1. \A i \in DOMAIN a.parses : Derives(a, a.parses[i])  BY <1>1, <1>10, <1>11 DEF ParseInv
  <2> QED BY <1>15, <1>18, <2>1
<1>20. /\ IsSeq(SymbolNodes') /\ Len(SymbolNodes') = Len(SymbolNodes)
       /\ \A t \in SymbolNodeNos : t # s => SymbolNodes'[t] = SymbolNodes[t]
       /\ SymbolNodes'[s] = [symbol |-> a.symbol, item |-> a.item, start |-> a.start,
                             end |-> a.end, down |-> D, parses |-> P]
  <2>1. PICK N, f : N = Len(SymbolNodes) /\ N \in Nat /\ f = SymbolNodes'  BY <1>1, NodeFacts
  <2>2. IsSeq(SymbolNodes)  BY <1>1 DEF ShapeInv
  <2>3. DOMAIN SymbolNodes = 1..N /\ SymbolNodeNos = 1..N
    BY <2>1, <2>2, SeqFacts DEF SymbolNodeNos
  <2>4. PICK g : g = SymbolNodes  OBVIOUS
  <2>5. g = [t \in 1..N |-> g[t]]  BY <2>1, <2>2, <2>4, SeqFacts
  <2>6. f = [g EXCEPT ![s].parses = Append(@, p)] /\ s \in 1..N /\ a = g[s]
    BY <1>10, <1>11, <2>1, <2>3, <2>4
  <2>7. P = Append(a.parses, p) /\ D = a.down  BY <1>10
  <2>8. /\ f = [t \in 1..N |-> f[t]]
        /\ \A t \in 1..N : t # s => f[t] = g[t]
        /\ f[s] = [symbol |-> a.symbol, item |-> a.item, start |-> a.start,
                   end |-> a.end, down |-> a.down, parses |-> P]
    BY ONLY <1>17, <2>1, <2>5, <2>6, <2>7, ParsesAdded
  <2>9. IsSeq(f) /\ Len(f) = N  BY ZenonT(40), <2>1, <2>8, SeqOfFunction
  <2> QED BY <2>1, <2>3, <2>4, <2>7, <2>8, <2>9
<1>21. \A c \in D : c # 1 => Border(c) = a.start
  BY <1>1, <1>10, <1>11 DEF StackInv
<1>22. \A v \in StateNodeNos : s \in StateNodes[v].children =>
          \A c \in D : /\ HasGoto(StateNodes[c].state, a.symbol)
                       /\ Goto(StateNodes[c].state, a.symbol) = StateNodes[v].state
  BY <1>1, <1>10 DEF LinkInv
<1>23. Touched(s, D, P)
  BY <1>10, <1>11, <1>13, <1>16, <1>18, <1>19, <1>20, <1>21, <1>22 DEF Touched
<1> QED BY <1>16, <1>23 DEF TouchStep

\* What is pending in Reducer stays, when it has one path less to go.
LEMMA ReducingKept ==
    ASSUME IInv, pc = "paths", pc' = "paths", Grown,
           UNCHANGED <<reduction, InputLevels, wordNo, PendingShifts>>, todo' \subseteq todo
    PROVE  /\ CanReduce(reduction)' /\ todo' \subseteq Paths(reduction)' /\ ShiftInv'
<1>1. InputInv /\ ShapeInv /\ PendingInv /\ ShiftInv  BY DEF IInv
<1>2. CanReduce(reduction) /\ todo \subseteq Paths(reduction)  BY <1>1 DEF PendingInv
<1>3. PICK red : red = reduction  OBVIOUS
<1>4. CanReduce(red)' /\ Paths(red) \subseteq Paths(red)'
  BY <1>1, <1>2, <1>3, CanReduceGrown, PathsGrown
<1>5. CanReduce(reduction)' /\ Paths(reduction)' = Paths(red)'
  <2>1. reduction' = red  BY <1>3
  <2>2. CanReduce(reduction)'  BY ONLY <1>4, <2>1 DEF CanReduce, RuleLength
  <2>3. Paths(reduction)' = Paths(red)'  BY ONLY <2>1 DEF Paths, RuleLength
  <2> QED BY <2>2, <2>3
<1>6. todo' \subseteq Paths(reduction)'  BY <1>2, <1>3, <1>4, <1>5
<1>7. ShiftInv'
  <2>1. \A shift \in PendingShifts : CanShift(shift)'  BY <1>1, ShiftKept
  <2> QED BY <2>1 DEF ShiftInv
<1> QED BY <1>5, <1>6, <1>7

\* A path packed into symbol node s.
Packs(path, s, p, D, P) ==
    /\ p = [rule |-> reduction.rule, items |-> RightPart(path)]
    /\ D = SymbolNodes[s].down /\ P = Append(SymbolNodes[s].parses, p)
    /\ TouchStep(s, D, P) /\ D = {path.bottom}
    /\ todo' = todo \ {path}

LEMMA PackPathPacks ==
    ASSUME IInv, PackPath
    PROVE  \E path \in todo : \E s, p, D, P : Packs(path, s, p, D, P)
<1>1. /\ pc = "paths" /\ pc' = "paths"
      /\ UNCHANGED <<table, words, breakAfterMax, StateNodes, InputLevels, wordNo, pc>>
  BY DEF PackPath, input
<1>2. PICK path \in todo :
          /\ HasPathOfLengthTwo(path) # {}
          /\ LET s == CHOOSE x \in HasPathOfLengthTwo(path) :
                         \A y \in HasPathOfLengthTwo(path) : x <= y
             IN  SymbolNodes' = [SymbolNodes EXCEPT ![s].parses =
                                    Append(@, [rule |-> reduction.rule, items |-> RightPart(path)])]
          /\ todo' = todo \ {path}
  BY DEF PackPath
<1>3. PICK s, p : /\ s = (CHOOSE x \in HasPathOfLengthTwo(path) :
                             \A y \in HasPathOfLengthTwo(path) : x <= y)
                  /\ p = [rule |-> reduction.rule, items |-> RightPart(path)]
  OBVIOUS
<1>4. PICK D, P : D = SymbolNodes[s].down /\ P = Append(SymbolNodes[s].parses, p)  OBVIOUS
<1>5. SymbolNodes' = [SymbolNodes EXCEPT ![s].parses = Append(@, p)]  BY <1>2, <1>3
<1>6. TouchStep(s, D, P) /\ D = {path.bottom}
  <2>1. PICK H : H = HasPathOfLengthTwo(path)  OBVIOUS
  <2>2. H \in SUBSET Nat
    <3>1. \A t \in H : /\ Labelled(PathGoto(path)) # {}
                       /\ t \in StateNodes[NodeFor(PathGoto(path))].children
      BY <2>1 DEF HasPathOfLengthTwo
    <3>2. CASE H = {}
      BY <3>2
    <3>3. CASE H # {}
      <4>1. InputInv /\ ShapeInv /\ LevelInv /\ StackInv /\ LinkInv /\ PendingInv  BY DEF IInv
      <4>2. CanReduce(reduction) /\ path \in Paths(reduction)  BY <1>1, <4>1 DEF PendingInv
      <4>3. HasGoto(StateNodes[path.bottom].state, PathLeft)
        BY <4>1, <4>2, PathFacts DEF PathLeft
      <4>4. PathGoto(path) # 1  BY <4>1, <4>3, GotoFacts DEF PathGoto
      <4>5. NodeFor(PathGoto(path)) \in StateNodeNos  BY <3>1, <3>3, <4>1, <4>4, NodeForFacts
      <4> QED BY <3>1, <4>1, <4>5, NodeFacts
    <3> QED BY <3>2, <3>3
  <2>3. \E x \in H : \A y \in H : x <= y  BY <1>2, <2>1, <2>2, LeastNatural
  <2>4. s \in HasPathOfLengthTwo(path)  BY <1>3, <2>1, <2>3
  <2>5. IInv /\ pc = "paths" /\ path \in todo  BY <1>1
  <2>6. p = [rule |-> reduction.rule, items |-> RightPart(path)]  BY <1>3
  <2>7. UNCHANGED <<table, words, breakAfterMax, StateNodes, InputLevels, wordNo, pc>>  BY <1>1
  <2> QED BY ONLY <1>4, <1>5, <2>4, <2>5, <2>6, <2>7, PackHolds
<1>7. todo' = todo \ {path}  BY <1>2
<1>8. p = [rule |-> reduction.rule, items |-> RightPart(path)]  BY <1>3
<1>9. Packs(path, s, p, D, P)  BY <1>4, <1>6, <1>7, <1>8 DEF Packs
<1> QED BY <1>9

LEMMA PackPathStep ==
    ASSUME IInv, PackPath
    PROVE  IInv'
<1>1. /\ pc = "paths" /\ pc' = "paths"
      /\ UNCHANGED <<table, words, breakAfterMax, StateNodes, InputLevels, wordNo, pc>>
      /\ UNCHANGED <<ActiveNodes, PendingReductions, PendingShifts, reduction>>
  BY DEF PackPath, input
<1>0. PICK path \in todo : \E s, p, D, P : Packs(path, s, p, D, P)  BY PackPathPacks
<1>5. PICK s, p, D, P : Packs(path, s, p, D, P)  BY <1>0
<1>2. todo' = todo \ {path}  BY <1>5 DEF Packs
<1>3. p = [rule |-> reduction.rule, items |-> RightPart(path)]  BY <1>5 DEF Packs
<1>4. D = SymbolNodes[s].down /\ P = Append(SymbolNodes[s].parses, p)  BY <1>5 DEF Packs
<1>6. TouchStep(s, D, P) /\ D = {path.bottom}  BY <1>5 DEF Packs
<1>7. /\ InputInv /\ ShapeInv /\ LevelInv /\ StackInv /\ LinkInv /\ StateInv
      /\ LeafInv /\ ParseInv /\ PackInv /\ PendingInv /\ OnceInv
  BY DEF IInv
<1>8. InputInv'  BY <1>1, <1>7 DEF InputInv
<1>9. /\ ShapeInv' /\ LevelInv' /\ StackInv' /\ LinkInv' /\ StateInv' /\ LeafInv'
      /\ ParseInv' /\ PackInv'
  BY <1>6, <1>7, TouchedShape, TouchedStack, TouchedParse
<1>10. Grown /\ SymbolNodeNos' = SymbolNodeNos
       /\ SymbolNodes'[s].down = D /\ SymbolNodes'[s].parses = P
       /\ \A t \in SymbolNodeNos : t # s => SymbolNodes'[t] = SymbolNodes[t]
  BY <1>6, TouchedNodes
<1>11. todo' \subseteq todo  BY <1>2
<1>12. CanReduce(reduction)' /\ todo' \subseteq Paths(reduction)' /\ ShiftInv'
  BY <1>1, <1>10, <1>11, ReducingKept
<1>13. PendingInv'
  <2>1. /\ ActiveNodes \subseteq StateNodeNos'
        /\ \A v \in ActiveNodes : v = 1 \/ Border(v)' = Len(InputLevels') - 1
        /\ \A red \in PendingReductions : CanReduce(red)'
    BY <1>1, <1>7, <1>10, PendingKept
  <2> QED BY <1>1, <1>7, <1>12, <2>1 DEF PendingInv
<1>14. OnceInv'
  <2>1. \A path2 : RightPart(path2)' = RightPart(path2)  BY DEF RightPart
  <2>2. ASSUME NEW t \in SymbolNodeNos, NEW i \in DOMAIN SymbolNodes[t].parses, NEW q,
               q = SymbolNodes[t].parses[i]
        PROVE  IsOver(t, q)'
    <3>1. IsOver(t, q)  BY <1>7, <2>2 DEF OnceInv
    <3>2. SymbolNodes'[t].down = SymbolNodes[t].down  BY <1>4, <1>10
    <3> QED BY <1>1, <1>11, <2>1, <3>1, <3>2 DEF IsOver, Back
  <2>3. IsOver(s, p)'
    <3>1. /\ \A v \in ActiveNodes : Back(p.items) \notin StateNodes[v].children
          /\ \A red \in PendingReductions : ~(red.rule = p.rule /\ red.symbol = Back(p.items))
          /\ \A other \in todo :
                RightPart(other) = p.items /\ other.bottom = path.bottom => other = path
      BY <1>1, <1>3, FreshParse
    <3>2. \A other \in todo' : ~(RightPart(other)' = p.items /\ other.bottom \in D)
      BY <1>2, <1>6, <2>1, <3>1
    <3> QED BY <1>1, <1>10, <3>1, <3>2 DEF IsOver, Back
  <2>4. ASSUME NEW i \in DOMAIN SymbolNodes[s].parses
        PROVE  SymbolNodes[s].parses[i] # p
    <3>1. PICK q : q = SymbolNodes[s].parses[i]  OBVIOUS
    <3>2. s \in SymbolNodeNos  BY <1>6 DEF TouchStep, Touched
    <3>3. IsOver(s, q)  BY <1>7, <2>4, <3>1, <3>2 DEF OnceInv
    <3>4. SUFFICES ASSUME q = p PROVE FALSE  BY <3>1
    <3>5. q.rule = reduction.rule /\ q.items = RightPart(path)  BY <1>3, <3>4
    <3>6. path.bottom \in SymbolNodes[s].down  BY <1>4, <1>6
    <3> QED BY <1>1, <3>3, <3>5, <3>6 DEF IsOver
  <2>5. PICK Q : Q = SymbolNodes[s].parses /\ s \in SymbolNodeNos  BY <1>6 DEF TouchStep, Touched
  <2>6. Q \in Seq(Parse)  BY <1>7, <2>5 DEF ShapeInv, IsSymbolNode
  <2>7. p \in Parse
    <3>1. P \in Seq(Parse)  BY <1>6 DEF TouchStep, Touched
    <3>2. IsSeq(Q)  BY <2>6 DEF IsSeq
    <3>3. Len(Q) \in Nat /\ Len(P) = Len(Q) + 1 /\ P[Len(Q) + 1] = p
      BY <1>4, <2>5, <3>2, Appended
    <3> QED BY <3>1, <3>3
  <2>8. /\ \A i \in DOMAIN P : (i \in DOMAIN Q /\ P[i] = Q[i]) \/ (i = Len(Q) + 1 /\ P[i] = p)
    BY <1>4, <2>5, <2>6, <2>7
  <2>9. ASSUME NEW i \in DOMAIN P, NEW j \in DOMAIN P, P[i] = P[j] PROVE i = j
    <3>1. \A k, l \in DOMAIN Q : Q[k] = Q[l] => k = l  BY <1>7, <2>5 DEF OnceInv
    <3>2. \A k \in DOMAIN Q : Q[k] # p  BY <2>4, <2>5
    <3> QED BY ONLY <2>8, <2>9, <3>1, <3>2
  <2>10. ASSUME NEW t \in SymbolNodeNos, NEW i \in DOMAIN SymbolNodes'[t].parses
         PROVE  /\ IsOver(t, SymbolNodes[t].parses[i])'
                /\ \A j \in DOMAIN SymbolNodes'[t].parses :
                      SymbolNodes'[t].parses[j] = SymbolNodes'[t].parses[i] => i = j
    <3>1. CASE t # s
      <4>1. SymbolNodes'[t] = SymbolNodes[t]  BY <1>10, <3>1
      <4> QED BY <1>7, <2>2, <2>10, <4>1 DEF OnceInv
    <3>2. CASE t = s
      <4>1. IsOver(s, P[i])'
        BY <1>10, <2>2, <2>3, <2>5, <2>8, <2>10, <3>2
      <4> QED BY <1>10, <2>9, <2>10, <3>2, <4>1
    <3> QED BY <3>1, <3>2
  <2> QED BY <1>10, <2>10 DEF OnceInv
<1>15. LimitInv'  BY <1>1 DEF LimitInv
<1> QED BY <1>8, <1>9, <1>12, <1>13, <1>14, <1>15 DEF IInv

\* The last node of a parse is one of the stack.
LEMMA LastItem ==
    ASSUME InputInv, NEW a, NEW p \in Parse, Derives(a, p)
    PROVE  Back(p.items) \in SymbolNodeNos
<1>1. PICK items : items = p.items  OBVIOUS
<1>2. items \in Seq(SymbolNodeNos) /\ Len(items) = RuleLength(p.rule)
  BY <1>1 DEF Derives, RuleLength
<1>3. p.rule \in DOMAIN table.rules  BY DEF Parse
<1>4. Len(items) \in Nat \ {0}  BY <1>2, <1>3, RuleFacts
<1>5. items[Len(items)] \in SymbolNodeNos  BY <1>2, <1>4
<1> QED BY <1>1, <1>5 DEF Back

LEMMA LinkPathHolds ==
    ASSUME IInv, pc = "paths", NEW path \in todo, HasPathOfLengthTwo(path) = {},
           NEW state, state = PathGoto(path), NEW node, node = NodeFor(state),
           NEW p, p = [rule |-> reduction.rule, items |-> RightPart(path)],
           NEW e, e = [symbol |-> PathLeft, item |-> PathItem(path), start |-> PathStart(path),
                       end |-> PathEnd(path), down |-> {path.bottom}, parses |-> <<p>>],
           SymbolNodes' = Append(SymbolNodes, e),
           StateNodes' = [WithNodeFor(state) EXCEPT ![node].children =
                             @ \cup {Len(SymbolNodes) + 1}],
           UNCHANGED <<table, words, breakAfterMax, InputLevels, wordNo, pc>>
    PROVE  /\ LinkStep(state, node, path.bottom, e) /\ IsReduced(e)
           /\ state \in States /\ p \in Parse /\ Derives(e, p)
           /\ (node \in StateNodeNos /\ ~TooManyNodes(SymbolNodes)) =>
                 \A t \in StateNodes[node].children :
                     ~(/\ SymbolNodes[t].item = e.item
                       /\ SymbolNodes[t].start = e.start
                       /\ path.bottom \in SymbolNodes[t].down)
<1>1. /\ InputInv /\ ShapeInv /\ LevelInv /\ StackInv /\ LinkInv /\ PendingInv
  BY DEF IInv
<1>2. CanReduce(reduction) /\ path \in Paths(reduction)  BY <1>1 DEF PendingInv
<1>3. /\ e.symbol = PathLeft /\ e.item = PathItem(path) /\ e.start = PathStart(path)
      /\ e.end = PathEnd(path) /\ e.down = {path.bottom} /\ e.parses = <<p>>
  OBVIOUS
<1>4. /\ p \in Parse /\ Derives(e, p)
      /\ e.start \in Nat /\ e.start < e.end
      /\ e.end = Len(InputLevels) - 1 /\ e.end <= Len(words)
      /\ path.bottom \in StateNodeNos
      /\ path.bottom # 1 => Border(path.bottom) = e.start
      /\ HasGoto(StateNodes[path.bottom].state, e.symbol)
      /\ e.symbol \notin Readings(table)
  BY <1>1, <1>2, <1>3, PathNode
<1>5. Goto(StateNodes[path.bottom].state, e.symbol) = state  BY <1>3 DEF PathGoto
<1>6. state \in States /\ state # 1  BY <1>1, <1>4, <1>5, GotoFacts
<1>7. Linked(state, node, e)  BY <1>1, <1>6, LinkedHolds
<1>8. e.parses \in Seq(Parse)  BY <1>3, <1>4
<1>9. e = [symbol |-> e.symbol, item |-> e.item, start |-> e.start, end |-> e.end,
           down |-> {path.bottom}, parses |-> e.parses]
  BY <1>3
<1>10. NewNode(state, path.bottom, e)  BY <1>4, <1>5, <1>8, <1>9 DEF NewNode
<1>11. LinkStep(state, node, path.bottom, e)  BY <1>7, <1>10 DEF LinkStep
<1>12. IsReduced(e)  BY <1>3, <1>4 DEF IsReduced
<1>13. ASSUME node \in StateNodeNos, ~TooManyNodes(SymbolNodes), NEW t \in StateNodes[node].children,
              SymbolNodes[t].item = e.item, SymbolNodes[t].start = e.start,
              path.bottom \in SymbolNodes[t].down
       PROVE  FALSE
  <2>1. Labelled(state) # {}
    <3>1. Labelled(state) = {} => node = Len(StateNodes) + 1  BY DEF NodeFor
    <3>2. Len(StateNodes) \in Nat  BY <1>1, NodeFacts
    <3> QED BY <1>13, <3>1, <3>2 DEF StateNodeNos
  <2>2. t \in HasPathOfLengthTwo(path)
    BY <1>3, <1>13, <2>1 DEF HasPathOfLengthTwo
  <2> QED BY <2>2
<1> QED BY <1>4, <1>6, <1>11, <1>12, <1>13

LEMMA LinkPathStep ==
    ASSUME IInv, LinkPath
    PROVE  IInv'
<1>1. /\ pc = "paths" /\ pc' = "paths"
      /\ UNCHANGED <<table, words, breakAfterMax, InputLevels, wordNo, pc>>
      /\ UNCHANGED <<PendingShifts, reduction>>
  BY DEF LinkPath, input
<1>2. PICK path \in todo :
          /\ HasPathOfLengthTwo(path) = {}
          /\ LET state == PathGoto(path)
                 node  == NodeFor(state)
                 s     == Len(SymbolNodes) + 1
             IN  /\ StateNodes' = [WithNodeFor(state) EXCEPT ![node].children = @ \cup {s}]
                 /\ SymbolNodes' = Append(SymbolNodes,
                        [symbol |-> PathLeft,
                         item   |-> PathItem(path),
                         start  |-> PathStart(path),
                         end    |-> PathEnd(path),
                         down   |-> {path.bottom},
                         parses |-> <<[rule |-> reduction.rule, items |-> RightPart(path)]>>])
                 /\ ActiveNodes' = ActiveNodes \cup (IF Labelled(state) = {} THEN {node} ELSE {})
                 /\ PendingReductions' =
                        PendingReductions \cup TakenUpAgain(node, ActiveNodes', s, state)
          /\ todo' = todo \ {path}
  BY DEF LinkPath
<1>3. PICK state, m, p : /\ state = PathGoto(path) /\ m = Len(SymbolNodes) + 1
                         /\ p = [rule |-> reduction.rule, items |-> RightPart(path)]
  OBVIOUS
<1>4. PICK node, e : /\ node = NodeFor(state)
                     /\ e = [symbol |-> PathLeft, item |-> PathItem(path),
                             start |-> PathStart(path), end |-> PathEnd(path),
                             down |-> {path.bottom}, parses |-> <<p>>]
  OBVIOUS
<1>5. /\ StateNodes' = [WithNodeFor(state) EXCEPT ![node].children = @ \cup {Len(SymbolNodes) + 1}]
      /\ SymbolNodes' = Append(SymbolNodes, e)
      /\ ActiveNodes' = ActiveNodes \cup (IF Labelled(state) = {} THEN {node} ELSE {})
      /\ PendingReductions' = PendingReductions \cup TakenUpAgain(node, ActiveNodes', m, state)
      /\ todo' = todo \ {path}
  BY <1>2, <1>3, <1>4
<1>6. /\ LinkStep(state, node, path.bottom, e) /\ IsReduced(e)
      /\ state \in States /\ p \in Parse /\ Derives(e, p)
      /\ (node \in StateNodeNos /\ ~TooManyNodes(SymbolNodes)) =>
            \A t \in StateNodes[node].children :
                ~(/\ SymbolNodes[t].item = e.item
                  /\ SymbolNodes[t].start = e.start
                  /\ path.bottom \in SymbolNodes[t].down)
  <2>1. IInv /\ pc = "paths" /\ path \in todo /\ HasPathOfLengthTwo(path) = {}  BY <1>1, <1>2
  <2> QED BY ONLY <1>1, <1>3, <1>4, <1>5, <2>1, LinkPathHolds
<1>7. /\ InputInv /\ ShapeInv /\ LevelInv /\ StackInv /\ LinkInv /\ StateInv
      /\ LeafInv /\ ParseInv /\ PackInv /\ PendingInv /\ OnceInv
  BY DEF IInv
<1>8. InputInv'  BY <1>1, <1>7 DEF InputInv
<1>9. /\ ShapeInv' /\ LevelInv' /\ StackInv' /\ LinkInv' /\ LeafInv' /\ ParseInv' /\ PackInv'
  BY <1>6, <1>7, LinkedShape, LinkedStack, LinkedLink, LinkedLeaf, LinkedParse, LinkedPack
<1>10. StateInv'
  <2>1. e.symbol \notin Readings(table)  BY <1>6 DEF IsReduced
  <2> QED BY <1>6, <1>7, <2>1, LinkedState
<1>11. Linked(state, node, e)  BY <1>6 DEF LinkStep
<1>12. /\ StateNodeNos' = StateNodeNos \cup {node}
       /\ SymbolNodeNos' = SymbolNodeNos \cup {m} /\ m \notin SymbolNodeNos
       /\ \A v \in StateNodeNos' : \A t :
             t \in StateNodes'[v].children <=>
                 (v \in StateNodeNos /\ t \in StateNodes[v].children) \/ (v = node /\ t = m)
  BY <1>3, <1>7, <1>11, LinkedNodes
<1>13. /\ \A t \in SymbolNodeNos : SymbolNodes'[t] = SymbolNodes[t]
       /\ SymbolNodes'[m] = e /\ StateNodes'[node].state = state
       /\ Labelled(state) = {} => node \notin StateNodeNos
  <2>1. Len(StateNodes) \in Nat  BY <1>7, NodeFacts
  <2>2. Labelled(state) = {} => node = Len(StateNodes) + 1  BY <1>11 DEF Linked
  <2>3. Labelled(state) = {} => node \notin StateNodeNos  BY <2>1, <2>2 DEF StateNodeNos
  <2> QED BY <1>3, <1>11, <2>3 DEF Linked
<1>14. Grown  BY <1>6, <1>7, LinkedGrown
<1>15. Border(node)' = Len(InputLevels) - 1  BY <1>6, <1>7, LinkedBorders
<1>16. todo' \subseteq todo  BY <1>5
<1>17. CanReduce(reduction)' /\ todo' \subseteq Paths(reduction)' /\ ShiftInv'
  BY <1>1, <1>14, <1>16, ReducingKept
<1>18. \A red \in PendingReductions' :
           \/ red \in PendingReductions
           \/ \E r \in Reductions(state) : red = [rule |-> r, symbol |-> m, last |-> node]
  BY <1>5 DEF TakenUpAgain
<1>19. reduction.symbol \in SymbolNodeNos /\ reduction.last \in StateNodeNos
  BY <1>1, <1>7 DEF PendingInv, CanReduce
<1>20. PendingInv'
  <2>1. /\ ActiveNodes \subseteq StateNodeNos'
        /\ \A v \in ActiveNodes : v = 1 \/ Border(v)' = Len(InputLevels') - 1
        /\ \A red \in PendingReductions : CanReduce(red)'
    BY <1>1, <1>7, <1>14, PendingKept
  <2>2. /\ ActiveNodes' \subseteq StateNodeNos'
        /\ \A v \in ActiveNodes' : v = 1 \/ Border(v)' = Len(InputLevels') - 1
    BY <1>1, <1>5, <1>12, <1>15, <2>1
  <2>3. ASSUME NEW r \in Reductions(state), NEW red,
               red = [rule |-> r, symbol |-> m, last |-> node]
        PROVE  CanReduce(red)'
    <3>1. r \in DOMAIN table.rules /\ <<r, RuleLength(r)>> \in table.items[state]
      BY <1>6, <1>7, ReductionsFacts
    <3>2. red.rule = r /\ red.symbol = m /\ red.last = node  BY <2>3
    <3>3. m \in SymbolNodeNos' /\ node \in StateNodeNos' /\ m \in StateNodes'[node].children
      BY <1>12
    <3>4. red \in [rule : DOMAIN table.rules, symbol : SymbolNodeNos', last : StateNodeNos']
      BY <2>3, <3>1, <3>3
    <3>5. RuleLength(r)' = RuleLength(r)  BY <1>1 DEF RuleLength
    <3> QED BY <1>1, <1>13, <1>15, <3>1, <3>2, <3>3, <3>4, <3>5 DEF CanReduce
  <2>4. \A red \in PendingReductions' : CanReduce(red)'  BY <1>18, <2>1, <2>3
  <2>5. reduction \notin PendingReductions'
    <3>1. reduction \notin PendingReductions  BY <1>1, <1>7 DEF PendingInv
    <3> QED BY <1>12, <1>18, <1>19, <3>1
  <2>6. reduction.last \notin ActiveNodes'
    <3>1. reduction.last \notin ActiveNodes  BY <1>1, <1>7 DEF PendingInv
    <3> QED BY <1>5, <1>13, <1>19, <3>1
  <2> QED BY <1>1, <1>17, <2>2, <2>4, <2>5, <2>6 DEF PendingInv
<1>21. OnceInv'
  <2>1. \A path2 : RightPart(path2)' = RightPart(path2)  BY DEF RightPart
  <2>2. ASSUME NEW t, NEW q, Back(q.items) \in SymbolNodeNos,
               \A v \in ActiveNodes : Back(q.items) \notin StateNodes[v].children,
               \A red \in PendingReductions : ~(red.rule = q.rule /\ red.symbol = Back(q.items)),
               reduction.rule = q.rule =>
                   \A other \in todo' :
                       ~(RightPart(other) = q.items /\ other.bottom \in SymbolNodes'[t].down)
        PROVE  IsOver(t, q)'
    <3>1. PICK last : last = Back(q.items)  OBVIOUS
    <3>2. last # m  BY <1>12, <2>2, <3>1
    <3>3. \A v \in ActiveNodes' : last \notin StateNodes'[v].children
      <4>1. ActiveNodes \subseteq StateNodeNos  BY <1>7 DEF PendingInv
      <4> QED BY <1>5, <1>12, <1>13, <2>2, <3>1, <3>2, <4>1
    <3>4. \A red \in PendingReductions' : ~(red.rule = q.rule /\ red.symbol = last)
      BY <1>18, <2>2, <3>1, <3>2
    <3> QED BY <1>1, <2>1, <2>2, <3>1, <3>3, <3>4 DEF IsOver, Back
  <2>3. ASSUME NEW t \in SymbolNodeNos, NEW i \in DOMAIN SymbolNodes[t].parses, NEW q,
               q = SymbolNodes[t].parses[i]
        PROVE  IsOver(t, q)'
    <3>1. IsOver(t, q)  BY <1>7, <2>3 DEF OnceInv
    <3>2. SymbolNodes'[t].down = SymbolNodes[t].down  BY <1>13
    <3>3. SymbolNodes[t].parses \in Seq(Parse)  BY <1>7 DEF ShapeInv, IsSymbolNode
    <3>4. q \in Parse /\ Derives(SymbolNodes[t], q)  BY <1>7, <2>3, <3>3 DEF ParseInv
    <3>5. PICK a : a = SymbolNodes[t]  OBVIOUS
    <3>6. Back(q.items) \in SymbolNodeNos  BY <1>7, <3>4, <3>5, LastItem
    <3>7. /\ \A v \in ActiveNodes : Back(q.items) \notin StateNodes[v].children
          /\ \A red \in PendingReductions : ~(red.rule = q.rule /\ red.symbol = Back(q.items))
      BY <3>1 DEF IsOver
    <3>8. reduction.rule = q.rule =>
              \A other \in todo' :
                  ~(RightPart(other) = q.items /\ other.bottom \in SymbolNodes'[t].down)
      BY <1>1, <1>16, <3>1, <3>2 DEF IsOver
    <3> QED BY <2>2, <3>6, <3>7, <3>8
  <2>4. IsOver(m, p)'
    <3>1. /\ \A v \in ActiveNodes : Back(p.items) \notin StateNodes[v].children
          /\ \A red \in PendingReductions : ~(red.rule = p.rule /\ red.symbol = Back(p.items))
          /\ \A other \in todo :
                RightPart(other) = p.items /\ other.bottom = path.bottom => other = path
      BY <1>1, <1>3, FreshParse
    <3>2. SymbolNodes'[m].down = {path.bottom}  BY <1>4, <1>13
    <3>3. \A other \in todo' :
              ~(RightPart(other) = p.items /\ other.bottom \in SymbolNodes'[m].down)
      BY <1>5, <3>1, <3>2
    <3>4. Back(p.items) \in SymbolNodeNos  BY <1>6, <1>7, LastItem
    <3> QED BY <2>2, <3>1, <3>3, <3>4
  <2>5. ASSUME NEW t \in SymbolNodeNos', NEW i \in DOMAIN SymbolNodes'[t].parses
        PROVE  /\ IsOver(t, SymbolNodes[t].parses[i])'
               /\ \A j \in DOMAIN SymbolNodes'[t].parses :
                     SymbolNodes'[t].parses[j] = SymbolNodes'[t].parses[i] => i = j
    <3>1. CASE t \in SymbolNodeNos
      <4>1. SymbolNodes'[t] = SymbolNodes[t]  BY <1>13, <3>1
      <4> QED BY <1>7, <2>3, <2>5, <3>1, <4>1 DEF OnceInv
    <3>2. CASE t = m
      <4>1. SymbolNodes'[t].parses = <<p>>  BY <1>4, <1>13, <3>2
      <4>2. DOMAIN <<p>> = {1} /\ <<p>>[1] = p  OBVIOUS
      <4> QED BY <2>4, <2>5, <3>2, <4>1, <4>2
    <3> QED BY <1>12, <2>5, <3>1, <3>2
  <2> QED BY <2>5 DEF OnceInv
<1>22. LimitInv'  BY <1>1 DEF LimitInv
<1> QED BY <1>8, <1>9, <1>10, <1>17, <1>20, <1>21, <1>22 DEF IInv

-----------------------------------------------------------------------------
(* The steps from one closure set to the next                              *)

LEMMA NodesUnchanged ==
    ASSUME IInv, UNCHANGED <<table, words, breakAfterMax, StateNodes, SymbolNodes>>,
           \A v \in StateNodeNos : Border(v)' = Border(v)
    PROVE  ShapeInv' /\ StackInv' /\ LinkInv' /\ StateInv' /\ ParseInv' /\ PackInv'
<1>1. ShapeInv /\ StackInv /\ LinkInv /\ StateInv /\ ParseInv /\ PackInv  BY DEF IInv
<1>2. StateNodeNos' = StateNodeNos /\ SymbolNodeNos' = SymbolNodeNos
  BY DEF StateNodeNos, SymbolNodeNos
<1>3. Parse' = Parse /\ States' = States  BY DEF Parse, States
<1>4. ShapeInv'
  <2>1. \A s \in SymbolNodeNos : IsSymbolNode(SymbolNodes[s])'
    BY <1>1, <1>2, <1>3 DEF ShapeInv, IsSymbolNode
  <2>2. IsSeq(SymbolNodes)'  BY <1>1 DEF ShapeInv, IsSeq
  <2> QED BY <1>1, <1>2, <1>3, <2>1, <2>2 DEF ShapeInv
<1>5. StackInv'
  <2>1. ASSUME NEW s \in SymbolNodeNos
        PROVE  /\ SymbolNodes[s].start < SymbolNodes[s].end
               /\ SymbolNodes[s].end <= Len(words)
               /\ \A d \in SymbolNodes[s].down : d # 1 => Border(d)' = SymbolNodes[s].start
               /\ \E v \in StateNodeNos :
                     s \in StateNodes[v].children /\ Border(v)' = SymbolNodes[s].end
    <3>1. SymbolNodes[s].down \subseteq StateNodeNos  BY <1>1 DEF ShapeInv, IsSymbolNode
    <3>2. /\ SymbolNodes[s].start < SymbolNodes[s].end
          /\ SymbolNodes[s].end <= Len(words)
          /\ \A d \in SymbolNodes[s].down : d # 1 => Border(d) = SymbolNodes[s].start
          /\ \E v \in StateNodeNos :
                s \in StateNodes[v].children /\ Border(v) = SymbolNodes[s].end
      BY <1>1 DEF StackInv
    <3> QED BY <3>1, <3>2
  <2> QED BY <1>1, <1>2, <2>1 DEF StackInv
<1>6. LinkInv'  BY <1>1, <1>2 DEF LinkInv, HasGoto, Goto
<1>7. StateInv'  BY <1>1, <1>2 DEF StateInv
<1>8. ParseInv'
  <2>1. ASSUME NEW s \in SymbolNodeNos
        PROVE  /\ SymbolNodes[s].parses = <<>> => IsLeaf(SymbolNodes[s])'
               /\ \A i \in DOMAIN SymbolNodes[s].parses :
                     Derives(SymbolNodes[s], SymbolNodes[s].parses[i])'
    <3>1. /\ SymbolNodes[s].parses = <<>> => IsLeaf(SymbolNodes[s])
          /\ \A i \in DOMAIN SymbolNodes[s].parses :
                Derives(SymbolNodes[s], SymbolNodes[s].parses[i])
      BY <1>1 DEF ParseInv
    <3>2. SymbolNodes[s].parses = <<>> => IsLeaf(SymbolNodes[s])'
      BY <3>1 DEF IsLeaf
    <3>3. \A i \in DOMAIN SymbolNodes[s].parses :
                Derives(SymbolNodes[s], SymbolNodes[s].parses[i])'
      BY <1>2, <3>1 DEF Derives, Back
    <3> QED BY <3>2, <3>3
  <2> QED BY <1>1, <1>2, <2>1 DEF ParseInv
<1>9. PackInv'  BY <1>1, <1>2 DEF PackInv, TooManyNodes
<1> QED BY <1>4, <1>5, <1>6, <1>7, <1>8, <1>9

\* The levels when the last of them is raised to the number of nodes.
RaisedLevels == [InputLevels EXCEPT ![Len(InputLevels)] = Len(StateNodes)]

IsRaised(n, top, old) ==
    /\ n \in Nat \ {0} /\ top \in Nat \ {0}
    /\ old \in Seq(Nat) /\ Len(old) = n /\ DOMAIN old = 1..n
    /\ old[n] = top /\ old[1] >= 1
    /\ \A i \in 1..n : i # n => old[i] = InputLevels[i]
    /\ \A i \in 1..n : old[i] \in Nat /\ old[i] <= top
    /\ \A i, j \in 1..n : i <= j => old[i] <= old[j]

LEMMA LevelsRaised ==
    ASSUME InputInv, ShapeInv, LevelInv
    PROVE  IsRaised(Len(InputLevels), Len(StateNodes), RaisedLevels)
<1>0. PICK n, top, old : /\ n = Len(InputLevels) /\ top = Len(StateNodes)
                         /\ old = [InputLevels EXCEPT ![n] = top] /\ old = RaisedLevels
  BY DEF RaisedLevels
<1>1. top \in Nat \ {0}  BY <1>0, NodeFacts
<1>2. n >= 1 /\ InputLevels \in Seq(Nat)  BY <1>0 DEF LevelInv
<1>3. /\ old \in Seq(Nat) /\ Len(old) = n /\ DOMAIN old = 1..n /\ DOMAIN InputLevels = 1..n
      /\ n \in Nat \ {0}
      /\ old[n] = top /\ \A i \in 1..n : i # n => old[i] = InputLevels[i]
  BY <1>0, <1>1, <1>2, Raised
<1>4. \A i \in 1..n : InputLevels[i] \in Nat  BY <1>2, <1>3
<1>5. n \in 1..n /\ 1 \in 1..n  BY <1>3
<1>6. InputLevels[n] <= top  BY <1>0 DEF LevelInv, Back
<1>7. \A i, j \in 1..n : i <= j => InputLevels[i] <= InputLevels[j]  BY <1>3 DEF LevelInv
<1>8. ASSUME NEW i \in 1..n PROVE old[i] \in Nat /\ old[i] <= top
  <2>1. i <= n  BY <1>3
  <2>2. InputLevels[i] <= InputLevels[n]  BY <1>5, <1>7, <2>1
  <2> QED BY <1>1, <1>3, <1>4, <1>5, <1>6, <2>2
<1>9. ASSUME NEW i \in 1..n, NEW j \in 1..n, i <= j PROVE old[i] <= old[j]
  <2>1. CASE j = n
    BY <1>3, <1>8, <2>1
  <2>2. CASE j # n
    <3>1. i # n  BY <1>3, <1>9, <2>2
    <3> QED BY <1>3, <1>7, <1>9, <2>2, <3>1
  <2> QED BY <2>1, <2>2
<1>10. old[1] >= 1
  <2>1. InputLevels[1] >= 1  BY DEF LevelInv
  <2> QED BY <1>1, <1>3, <1>5, <2>1
<1>11. IsRaised(n, top, old)  BY <1>1, <1>3, <1>8, <1>9, <1>10 DEF IsRaised
<1> QED BY <1>0, <1>11

LEMMA CloseLevelStep ==
    ASSUME IInv, CloseLevel
    PROVE  IInv'
<1>1. /\ pc = "loop" /\ pc' = "shift" /\ ActiveNodes = {} /\ PendingReductions = {}
      /\ InputLevels' = Append([InputLevels EXCEPT ![Len(InputLevels)] = Len(StateNodes)],
                               Len(StateNodes))
      /\ UNCHANGED <<table, words, breakAfterMax, wordNo, StateNodes, SymbolNodes>>
      /\ UNCHANGED <<ActiveNodes, PendingReductions, PendingShifts, reduction, todo, createdGroups>>
  BY DEF CloseLevel, input
<1>2. InputInv /\ ShapeInv /\ LevelInv /\ LeafInv /\ PendingInv /\ ShiftInv /\ OnceInv /\ LimitInv
  BY DEF IInv
<1>3. PICK n, top : n = Len(InputLevels) /\ top = Len(StateNodes)  OBVIOUS
<1>4. PICK old : old = [InputLevels EXCEPT ![n] = top]  OBVIOUS
<1>0. IsRaised(n, top, old)  BY <1>2, <1>3, <1>4, LevelsRaised DEF RaisedLevels
<1>5. n \in Nat \ {0} /\ top \in Nat \ {0}  BY <1>0 DEF IsRaised
<1>6. /\ old \in Seq(Nat) /\ Len(old) = n /\ DOMAIN old = 1..n
      /\ old[n] = top /\ old[1] >= 1
      /\ \A i \in 1..n : i # n => old[i] = InputLevels[i]
      /\ \A i \in 1..n : old[i] \in Nat /\ old[i] <= top
      /\ \A i, j \in 1..n : i <= j => old[i] <= old[j]
  BY <1>0 DEF IsRaised
<1>7. PICK new : new = InputLevels'  OBVIOUS
<1>8. /\ new \in Seq(Nat) /\ Len(new) = n + 1 /\ DOMAIN new = 1..(n + 1)
      /\ \A i \in 1..n : new[i] = old[i]
      /\ new[n + 1] = top
  <2>1. new = Append(old, top)  BY <1>1, <1>3, <1>4, <1>7
  <2>2. IsSeq(old)  BY <1>6 DEF IsSeq
  <2>3. /\ Len(new) = n + 1 /\ \A i \in 1..n : new[i] = old[i]
        /\ new[n + 1] = top
    BY <1>6, <2>1, <2>2, Appended
  <2>4. new \in Seq(Nat) /\ DOMAIN new = 1..Len(new)  BY <1>5, <1>6, <2>1
  <2> QED BY <2>3, <2>4
<1>9. \A v \in StateNodeNos : Border(v)' = Border(v)
  BY <1>1, <1>2, <1>3, <1>5, BorderOfClose
<1>10. ShapeInv' /\ StackInv' /\ LinkInv' /\ StateInv' /\ ParseInv' /\ PackInv'
  BY <1>1, <1>9, NodesUnchanged
<1>11. InputInv'  BY <1>1, <1>2 DEF InputInv
<1>12. LevelInv'
  <2>1. n = wordNo  BY <1>1, <1>2, <1>3 DEF LevelInv
  <2>2. n \in 1..n /\ 1 \in 1..n /\ (n + 1) - 1 = n /\ n + 1 >= 1 /\ n + 1 # 1  BY <1>5
  <2>3. new[1] >= 1  BY <1>6, <1>8, <2>2
  <2>4. ASSUME NEW i \in 1..(n + 1), NEW j \in 1..(n + 1), i <= j PROVE new[i] <= new[j]
    <3>1. CASE j = n + 1 /\ i = n + 1
      BY <1>5, <1>8, <3>1
    <3>2. CASE j = n + 1 /\ i # n + 1
      <4>1. i \in 1..n  BY <1>5, <3>2
      <4> QED BY <1>6, <1>8, <3>2, <4>1
    <3>3. CASE j # n + 1
      <4>1. i \in 1..n /\ j \in 1..n  BY <1>5, <2>4, <3>3
      <4> QED BY <1>6, <1>8, <2>4, <4>1
    <3> QED BY <3>1, <3>2, <3>3
  <2>5. Back(new) = top /\ new[Len(new) - 1] = top  BY <1>6, <1>8, <2>2 DEF Back
  <2>6. top <= Len(StateNodes')  BY <1>1, <1>3, <1>5
  <2>7. Back(InputLevels)' = top  BY <1>7, <2>5 DEF Back
  <2> QED BY <1>1, <1>7, <1>8, <2>1, <2>2, <2>3, <2>4, <2>5, <2>6, <2>7 DEF LevelInv
<1>13. StateNodeNos' = StateNodeNos  BY <1>1 DEF StateNodeNos
<1>14. LeafInv'
  <2>1. CurrentFirst' = top + 1
    <3>1. n + 1 > 1 /\ (n + 1) - 1 = n /\ n \in 1..n  BY <1>5
    <3> QED BY <1>6, <1>7, <1>8, <3>1 DEF CurrentFirst
  <2>2. \A v \in StateNodeNos : ~(v >= top + 1)  BY <1>3, <1>5 DEF StateNodeNos
  <2>3. \A v \in StateNodeNos : \A s, t \in StateNodes[v].children :
            SymbolNodes[s].parses = <<>> => s = t
    BY <1>2 DEF LeafInv
  <2> QED BY <1>1, <1>13, <2>1, <2>2, <2>3 DEF LeafInv
<1>15. PendingInv'
  <2>1. todo = {}  BY <1>1, <1>2 DEF PendingInv
  <2> QED BY <1>1, <2>1 DEF PendingInv
<1>16. ShiftInv'
  <2>1. ASSUME NEW shift \in PendingShifts PROVE CanShift(shift)'
    <3>1. CanShift(shift)  BY <1>2 DEF ShiftInv
    <3>2. Border(shift.from)' = Border(shift.from)  BY <1>9, <3>1 DEF CanShift
    <3>3. Symbols' = Symbols  BY <1>1 DEF Symbols
    <3> QED BY <1>1, <1>13, <3>1, <3>2, <3>3 DEF CanShift, HasGoto, Goto
  <2> QED BY <1>1, <2>1 DEF ShiftInv
<1>17. OnceInv'  BY <1>1, <1>2, OnceKept
<1>18. LimitInv'
  <2>1. ~TooMany(SymbolNodes, createdGroups)  BY <1>1, <1>2 DEF LimitInv
  <2> QED BY <1>1, <2>1 DEF LimitInv, TooMany, TooManyNodes
<1> QED BY <1>10, <1>11, <1>12, <1>14, <1>15, <1>16, <1>17, <1>18 DEF IInv

LEMMA EndWordStep ==
    ASSUME IInv, EndWord
    PROVE  IInv'
<1>1. /\ pc = "shift" /\ PendingShifts = {}
      /\ InputLevels' = [InputLevels EXCEPT ![Len(InputLevels)] = Len(StateNodes)]
      /\ \/ wordNo <= Len(words) /\ pc' = "word" /\ wordNo' = wordNo + 1
         \/ pc' = "found" /\ wordNo' = wordNo
      /\ UNCHANGED <<table, words, breakAfterMax, StateNodes, SymbolNodes>>
      /\ UNCHANGED <<ActiveNodes, PendingReductions, PendingShifts, reduction, todo, createdGroups>>
  BY DEF EndWord, input
<1>2. InputInv /\ ShapeInv /\ LevelInv /\ LeafInv /\ PendingInv /\ ShiftInv /\ OnceInv /\ LimitInv
  BY DEF IInv
<1>3. PICK n, top, new : n = Len(InputLevels) /\ top = Len(StateNodes) /\ new = InputLevels'
  OBVIOUS
<1>4. new = [InputLevels EXCEPT ![n] = top]  BY <1>1, <1>3
<1>0. IsRaised(n, top, new)  BY <1>2, <1>3, <1>4, LevelsRaised DEF RaisedLevels
<1>5. n \in Nat \ {0} /\ top \in Nat \ {0}  BY <1>0 DEF IsRaised
<1>6. /\ new \in Seq(Nat) /\ Len(new) = n /\ DOMAIN new = 1..n
      /\ new[n] = top /\ new[1] >= 1
      /\ \A i \in 1..n : i # n => new[i] = InputLevels[i]
      /\ \A i \in 1..n : new[i] \in Nat /\ new[i] <= top
      /\ \A i, j \in 1..n : i <= j => new[i] <= new[j]
  BY <1>0 DEF IsRaised
<1>7. n = wordNo + 1 /\ InputLevels[n - 1] = Back(InputLevels)  BY <1>1, <1>2, <1>3 DEF LevelInv
<1>8. wordNo \in Nat \ {0} /\ Len(words) \in Nat  BY <1>2, SymbolsFacts
<1>9. n > 1 /\ n - 1 \in 1..n /\ n - 1 # n  BY <1>5, <1>7, <1>8
<1>10. \A v \in StateNodeNos : Border(v)' = Border(v)
  <2>1. StateNodeNos \subseteq Nat  BY <1>3, <1>5 DEF StateNodeNos
  <2> QED BY <1>1, <1>2, <1>3, <1>5, <2>1, BorderOfEnd
<1>11. ShapeInv' /\ StackInv' /\ LinkInv' /\ StateInv' /\ ParseInv' /\ PackInv'
  BY <1>1, <1>10, NodesUnchanged
<1>12. InputInv'
  <2>1. wordNo' \in 1..(Len(words) + 1)
    BY <1>1, <1>2, <1>8 DEF InputInv
  <2> QED BY <1>1, <1>2, <2>1 DEF InputInv
<1>13. Back(InputLevels)' = top  BY <1>3, <1>6 DEF Back
<1>14. LevelInv'
  <2>1. pc' = "word" => n = wordNo'  BY <1>1, <1>7
  <2>2. pc' \in {"word", "found"} /\ n >= 1 /\ n # 1  BY <1>1, <1>5, <1>9
  <2>3. top <= Len(StateNodes') /\ top = Len(StateNodes')  BY <1>1, <1>3, <1>5
  <2> QED BY <1>3, <1>6, <1>13, <2>1, <2>2, <2>3 DEF LevelInv
<1>15. StateNodeNos' = StateNodeNos  BY <1>1 DEF StateNodeNos
<1>16. CurrentFirst' = CurrentFirst /\ CurrentFirst = InputLevels[n - 1] + 1
  <2>1. CurrentFirst = InputLevels[n - 1] + 1  BY <1>3, <1>9 DEF CurrentFirst
  <2>2. CurrentFirst' = new[n - 1] + 1  BY <1>3, <1>6, <1>9 DEF CurrentFirst
  <2> QED BY <1>6, <1>9, <2>1, <2>2
<1>17. LeafInv'
  <2>1. \A v \in StateNodeNos : v >= CurrentFirst =>
            \A s \in StateNodes[v].children : SymbolNodes[s].parses = <<>>
    BY <1>1, <1>2 DEF LeafInv
  <2>2. \A v \in StateNodeNos : \A s, t \in StateNodes[v].children :
            SymbolNodes[s].parses = <<>> => s = t
    BY <1>2 DEF LeafInv
  <2> QED BY <1>1, <1>15, <1>16, <2>1, <2>2 DEF LeafInv
<1>18. PendingInv'
  <2>1. todo = {} /\ ActiveNodes = {} /\ PendingReductions = {}  BY <1>1, <1>2 DEF PendingInv
  <2> QED BY <1>1, <2>1 DEF PendingInv
<1>19. ShiftInv'  BY <1>1 DEF ShiftInv
<1>20. OnceInv'  BY <1>1, <1>2, OnceKept
<1>21. LimitInv'
  <2>1. TooMany(SymbolNodes, createdGroups)' <=> TooMany(SymbolNodes, createdGroups)
    BY <1>1 DEF TooMany, TooManyNodes
  <2>2. ASSUME TooMany(SymbolNodes, createdGroups) PROVE (LastClosure # {})'
    <3>1. Len(StateNodes) > Back(InputLevels)  BY <1>1, <1>2, <2>2 DEF LimitInv
    <3>2. Back(InputLevels) \in Nat  BY <1>2, FirstNodeNo
    <3>3. LastClosure' = CurrentFirst'..top  BY <1>13 DEF LastClosure, CurrentFirst
    <3>4. PICK b : b = Back(InputLevels)  OBVIOUS
    <3>5. CurrentFirst' = b + 1 /\ b \in Nat /\ top > b  BY <1>3, <1>7, <1>16, <3>1, <3>2, <3>4
    <3>6. top \in CurrentFirst'..top  BY <1>5, <3>5
    <3> QED BY <3>3, <3>6
  <2> QED BY <1>1, <2>1, <2>2 DEF LimitInv
<1> QED BY <1>11, <1>12, <1>14, <1>17, <1>18, <1>19, <1>20, <1>21 DEF IInv

-----------------------------------------------------------------------------
(* Shifter                                                                 *)

LEMMA CanShiftFacts ==
    ASSUME InputInv, ShapeInv, LevelInv, pc = "shift", NEW shift, CanShift(shift)
    PROVE  /\ shift.to \in States /\ shift.to # 1
           /\ shift.symbol \in Readings(table)
           /\ wordNo \in 1..Len(words) /\ shift.symbol \in words[wordNo]
           /\ Len(InputLevels) = wordNo + 1 /\ Len(words) \in Nat
<1>1. /\ HasGoto(StateNodes[shift.from].state, shift.symbol)
      /\ shift.to = Goto(StateNodes[shift.from].state, shift.symbol)
      /\ shift.symbol \in Symbols
  BY DEF CanShift
<1>2. shift.to \in States /\ shift.to # 1 /\ shift.symbol # Endmark  BY <1>1, GotoFacts
<1>3. wordNo \in 1..Len(words) /\ shift.symbol \in words[wordNo]  BY <1>1, <1>2, SymbolsFacts
<1>4. shift.symbol \in Readings(table)  BY <1>1, SymbolsFacts
<1>5. Len(InputLevels) = wordNo + 1  BY DEF LevelInv
<1> QED BY <1>2, <1>3, <1>4, <1>5, SymbolsFacts

HasLeaf(node, s, X) ==
    /\ StateNodes[node].children = {s}
    /\ s \in SymbolNodeNos
    /\ SymbolNodes[s].symbol = X
    /\ SymbolNodes[s].parses = <<>>

\* A node that the current closure set has for the state holds the terminal.
LEMMA SameFacts ==
    ASSUME IInv, pc = "shift", NEW shift, CanShift(shift), Labelled(shift.to) # {},
           NEW node, node = NodeFor(shift.to)
    PROVE  /\ node \in StateNodeNos /\ node # 1
           /\ StateNodes[node].state = shift.to
           /\ Border(node) = wordNo
           /\ \E s : HasLeaf(node, s, shift.symbol)
<1>1. InputInv /\ ShapeInv /\ LevelInv /\ StackInv /\ LinkInv /\ LeafInv /\ ParseInv
  BY DEF IInv
<1>2. /\ shift.to # 1 /\ shift.symbol \in Readings(table)
      /\ wordNo \in 1..Len(words) /\ Len(InputLevels) = wordNo + 1 /\ Len(words) \in Nat
  BY <1>1, CanShiftFacts
<1>3. /\ node \in StateNodeNos /\ node >= GetFirstNodeNoOfCurrentClosure
      /\ StateNodes[node].state = shift.to /\ node # 1
  BY <1>1, <1>2, NodeForFacts
<1>4. Border(node) = wordNo
  <2>1. node \in Nat \ {0}  BY <1>1, <1>3, NodeFacts DEF StateNodeNos
  <2>2. node >= CurrentFirst  BY <1>1, <1>3, <2>1, FirstNodeNo
  <2>3. Border(node) = Len(InputLevels) - 1  BY <1>1, <2>1, <2>2, BorderFacts
  <2> QED BY <1>2, <2>3
<1>5. PICK s : s \in StateNodes[node].children  BY <1>1, <1>3 DEF StackInv
<1>6. s \in SymbolNodeNos  BY <1>1, <1>3, <1>5 DEF ShapeInv
<1>7. SymbolNodes[s].symbol = shift.symbol
  <2>1. /\ HasGoto(StateNodes[shift.from].state, shift.symbol)
        /\ shift.to = Goto(StateNodes[shift.from].state, shift.symbol)
    BY DEF CanShift
  <2>2. PICK i, X : i = StateNodes[shift.from].state /\ X = shift.symbol  OBVIOUS
  <2>3. HasGoto(i, X) /\ Goto(i, X) = StateNodes[node].state  BY <1>3, <2>1, <2>2
  <2> QED BY <1>1, <1>3, <1>5, <2>2, <2>3, AccessingSymbol
<1>8. SymbolNodes[s].parses = <<>>  BY <1>1, <1>2, <1>6, <1>7, LeafSymbol
<1>9. StateNodes[node].children = {s}  BY <1>1, <1>3, <1>5, <1>8 DEF LeafInv
<1>10. HasLeaf(node, s, shift.symbol)  BY <1>6, <1>7, <1>8, <1>9 DEF HasLeaf
<1> QED BY <1>3, <1>4, <1>10

\* While words are shifted nothing else is pending.
LEMMA ShifterRest ==
    ASSUME IInv, pc = "shift", pc' = "shift", Grown, UNCHANGED <<InputLevels, wordNo>>,
           UNCHANGED <<ActiveNodes, PendingReductions, reduction, todo>>,
           PendingShifts' \subseteq PendingShifts,
           \A s \in SymbolNodeNos' : \/ SymbolNodes'[s].parses = <<>>
                                     \/ /\ s \in SymbolNodeNos
                                        /\ SymbolNodes'[s].parses = SymbolNodes[s].parses
    PROVE  PendingInv' /\ ShiftInv' /\ OnceInv'
<1>1. PendingInv /\ ShiftInv /\ OnceInv  BY DEF IInv
<1>2. todo = {} /\ ActiveNodes = {} /\ PendingReductions = {}  BY <1>1 DEF PendingInv
<1>3. PendingInv'  BY <1>2 DEF PendingInv
<1>4. \A shift \in PendingShifts : CanShift(shift)'  BY <1>1, ShiftKept
<1>5. ShiftInv'  BY <1>4 DEF ShiftInv
<1>6. \A s, p : IsOver(s, p)'  BY <1>2 DEF IsOver
<1>7. ASSUME NEW s \in SymbolNodeNos', NEW i \in DOMAIN SymbolNodes'[s].parses,
             NEW j \in DOMAIN SymbolNodes'[s].parses,
             SymbolNodes'[s].parses[j] = SymbolNodes'[s].parses[i]
      PROVE  i = j
  <2>1. CASE SymbolNodes'[s].parses = <<>>
    BY <1>7, <2>1
  <2>2. CASE s \in SymbolNodeNos /\ SymbolNodes'[s].parses = SymbolNodes[s].parses
    BY <1>1, <1>7, <2>2 DEF OnceInv
  <2> QED BY <2>1, <2>2
<1>8. OnceInv'  BY <1>6, <1>7 DEF OnceInv
<1> QED BY <1>3, <1>5, <1>8

LEMMA ShifterNew ==
    ASSUME IInv, pc = "shift", NEW shift, CanShift(shift), Labelled(shift.to) = {},
           PendingShifts' \subseteq PendingShifts,
           NEW node, node = NodeFor(shift.to),
           NEW e, e = [symbol |-> shift.symbol, item |-> LeafItem(shift.symbol),
                       start |-> Len(InputLevels) - 2, end |-> Len(InputLevels) - 1,
                       down |-> {shift.from}, parses |-> <<>>],
           SymbolNodes' = Append(SymbolNodes, e),
           StateNodes' = [WithNodeFor(shift.to) EXCEPT ![node].children =
                             @ \cup {Len(SymbolNodes) + 1}],
           UNCHANGED <<table, words, breakAfterMax, InputLevels, wordNo, pc>>,
           UNCHANGED <<ActiveNodes, PendingReductions, reduction, todo, createdGroups>>
    PROVE  IInv'
<1>1. /\ InputInv /\ ShapeInv /\ LevelInv /\ StackInv /\ LinkInv /\ StateInv
      /\ LeafInv /\ ParseInv /\ PackInv
  BY DEF IInv
<1>2. /\ shift.to \in States /\ shift.to # 1
      /\ wordNo \in 1..Len(words) /\ shift.symbol \in words[wordNo]
      /\ Len(InputLevels) = wordNo + 1 /\ Len(words) \in Nat
  BY <1>1, CanShiftFacts
<1>3. /\ shift.from \in StateNodeNos
      /\ HasGoto(StateNodes[shift.from].state, shift.symbol)
      /\ shift.to = Goto(StateNodes[shift.from].state, shift.symbol)
      /\ shift.from # 1 => Border(shift.from) = wordNo - 1
  BY DEF CanShift
<1>4. PICK state : state = shift.to  OBVIOUS
<1>5. Linked(state, node, e)  BY <1>1, <1>2, <1>4, LinkedHolds
<1>6. /\ e.symbol = shift.symbol /\ e.item = LeafItem(shift.symbol)
      /\ e.start = Len(InputLevels) - 2 /\ e.end = Len(InputLevels) - 1
      /\ e.down = {shift.from} /\ e.parses = <<>>
  OBVIOUS
<1>7. e.start = wordNo - 1 /\ e.end = wordNo  BY <1>2, <1>6
<1>8. e.start \in Nat /\ e.start < e.end /\ e.end <= Len(words) /\ e.end = e.start + 1
  BY <1>2, <1>7
<1>9. NewNode(state, shift.from, e)
  <2>1. e.parses \in Seq(Parse)  BY <1>6
  <2>2. e = [symbol |-> e.symbol, item |-> e.item, start |-> e.start, end |-> e.end,
             down |-> {shift.from}, parses |-> e.parses]
    BY <1>6
  <2> QED BY <1>3, <1>4, <1>6, <1>7, <1>8, <2>1, <2>2 DEF NewNode
<1>10. LinkStep(state, node, shift.from, e)  BY <1>5, <1>9 DEF LinkStep
<1>11. node = Len(StateNodes) + 1 /\ Len(StateNodes) \in Nat /\ node \notin StateNodeNos
  BY <1>1, NodeFacts DEF NodeFor, StateNodeNos
<1>12. IsShifted(node, e)
  BY <1>2, <1>6, <1>7, <1>8, <1>11 DEF IsShifted, IsLeaf
<1>13. PICK d : d = shift.from  OBVIOUS
<1>14. LinkStep(state, node, d, e)  BY <1>10, <1>13
<1>15. /\ ShapeInv' /\ LevelInv' /\ StackInv' /\ LinkInv' /\ StateInv' /\ LeafInv'
       /\ ParseInv' /\ PackInv' /\ Grown
  <2>1. ShapeInv' /\ LevelInv' /\ StackInv' /\ LinkInv' /\ Grown
    BY <1>1, <1>14, LinkedShape, LinkedStack, LinkedLink, LinkedGrown
  <2>2. StateInv' /\ LeafInv' /\ ParseInv'
    BY <1>1, <1>12, <1>14, LinkedState, LinkedLeaf, LinkedParse
  <2>3. PackInv'  BY <1>1, <1>11, <1>14, LinkedPack
  <2> QED BY <2>1, <2>2, <2>3
<1>16. PendingInv' /\ ShiftInv' /\ OnceInv'
  <2>1. \A s \in SymbolNodeNos' : \/ SymbolNodes'[s].parses = <<>>
                                  \/ /\ s \in SymbolNodeNos
                                     /\ SymbolNodes'[s].parses = SymbolNodes[s].parses
    <3>1. SymbolNodeNos' = SymbolNodeNos \cup {Len(SymbolNodes) + 1}  BY <1>1, <1>5, LinkedNodes
    <3>2. /\ \A t \in SymbolNodeNos : SymbolNodes'[t] = SymbolNodes[t]
          /\ SymbolNodes'[Len(SymbolNodes) + 1] = e
      BY <1>5 DEF Linked
    <3> QED BY <1>6, <3>1, <3>2
  <2> QED BY <1>15, <2>1, ShifterRest
<1>17. InputInv'  BY <1>1 DEF InputInv
<1>18. LimitInv'
  <2>1. Len(StateNodes') = Len(StateNodes) + 1  BY <1>5, <1>11 DEF Linked
  <2>2. Back(InputLevels) <= Len(StateNodes) /\ Back(InputLevels) \in Nat
    BY <1>1, FirstNodeNo DEF LevelInv
  <2>3. Len(StateNodes') > Back(InputLevels)  BY <1>11, <2>1, <2>2
  <2>4. Back(InputLevels)' = Back(InputLevels)  BY DEF Back
  <2> QED BY <2>3, <2>4 DEF LimitInv
<1> QED BY <1>15, <1>16, <1>17, <1>18 DEF IInv

\* Symbol node s leads down to one more node.
LedDown(s, from) ==
    SymbolNodes' = [t \in DOMAIN SymbolNodes |->
        IF t = s THEN [SymbolNodes[t] EXCEPT !.down = @ \cup {from}] ELSE SymbolNodes[t]]

LEMMA ShifterSame ==
    ASSUME IInv, pc = "shift", NEW shift, CanShift(shift), Labelled(shift.to) # {},
           PendingShifts' \subseteq PendingShifts,
           NEW node, node = NodeFor(shift.to), NEW s, StateNodes[node].children = {s},
           LedDown(s, shift.from),
           UNCHANGED <<table, words, breakAfterMax, StateNodes, InputLevels, wordNo, pc>>,
           UNCHANGED <<ActiveNodes, PendingReductions, reduction, todo, createdGroups>>
    PROVE  IInv'
<1>1. /\ InputInv /\ ShapeInv /\ LevelInv /\ StackInv /\ LinkInv /\ StateInv
      /\ LeafInv /\ ParseInv /\ PackInv
  BY DEF IInv
<1>2. /\ node \in StateNodeNos /\ node # 1
      /\ StateNodes[node].state = shift.to
      /\ Border(node) = wordNo
      /\ s \in SymbolNodeNos
      /\ SymbolNodes[s].symbol = shift.symbol
      /\ SymbolNodes[s].parses = <<>>
  <2>1. /\ node \in StateNodeNos /\ node # 1
        /\ StateNodes[node].state = shift.to
        /\ Border(node) = wordNo
    BY SameFacts
  <2>2. PICK t : HasLeaf(node, t, shift.symbol)  BY SameFacts
  <2>3. t = s  BY <2>2 DEF HasLeaf
  <2> QED BY <2>1, <2>2, <2>3 DEF HasLeaf
<1>3. /\ shift.from \in StateNodeNos
      /\ HasGoto(StateNodes[shift.from].state, shift.symbol)
      /\ shift.to = Goto(StateNodes[shift.from].state, shift.symbol)
      /\ shift.from # 1 => Border(shift.from) = wordNo - 1
  BY DEF CanShift
<1>4. PICK a : a = SymbolNodes[s]  OBVIOUS
<1>5. PICK D, P : D = a.down \cup {shift.from} /\ P = a.parses  OBVIOUS
<1>6. /\ a = [symbol |-> a.symbol, item |-> a.item, start |-> a.start,
              end |-> a.end, down |-> a.down, parses |-> a.parses]
      /\ a.down \subseteq StateNodeNos /\ a.parses \in Seq(Parse)
      /\ a.start \in Nat /\ a.end \in Nat
  BY <1>1, <1>2, <1>4 DEF ShapeInv, IsSymbolNode
<1>7. \A v \in StateNodeNos : s \in StateNodes[v].children => v = node
  BY <1>1, <1>2 DEF StackInv
<1>8. a.start = wordNo - 1
  <2>1. a.end = a.start + 1  BY <1>1, <1>2, <1>4 DEF ParseInv, IsLeaf
  <2>2. PICK v \in StateNodeNos : s \in StateNodes[v].children /\ Border(v) = a.end
    BY <1>1, <1>2, <1>4 DEF StackInv
  <2>3. a.end = wordNo  BY <1>2, <1>7, <2>2
  <2> QED BY <1>6, <2>1, <2>3
<1>9. /\ IsSeq(SymbolNodes') /\ Len(SymbolNodes') = Len(SymbolNodes)
      /\ \A t \in SymbolNodeNos : t # s => SymbolNodes'[t] = SymbolNodes[t]
      /\ SymbolNodes'[s] = [symbol |-> a.symbol, item |-> a.item, start |-> a.start,
                            end |-> a.end, down |-> D, parses |-> P]
  <2>1. PICK N, f : N = Len(SymbolNodes) /\ N \in Nat /\ f = SymbolNodes'  BY <1>1, NodeFacts
  <2>2. DOMAIN SymbolNodes = 1..N /\ SymbolNodeNos = 1..N
    BY <1>1, <2>1, NodeFacts DEF SymbolNodeNos
  <2>3. PICK b : b = [a EXCEPT !.down = @ \cup {shift.from}]  OBVIOUS
  <2>4. b = [symbol |-> a.symbol, item |-> a.item, start |-> a.start,
             end |-> a.end, down |-> D, parses |-> P]
    <3>1. PICK x, i, st, en, d, Q : a = [symbol |-> x, item |-> i, start |-> st,
                                         end |-> en, down |-> d, parses |-> Q]
      BY <1>6
    <3>2. PICK from : from = shift.from  OBVIOUS
    <3>3. b = [symbol |-> x, item |-> i, start |-> st, end |-> en, down |-> d \cup {from},
               parses |-> Q]
      BY ONLY <2>3, <3>1, <3>2
    <3> QED BY <1>5, <3>1, <3>2, <3>3
  <2>5. DOMAIN f = 1..N /\ f = [t \in 1..N |-> f[t]]  BY <2>1, <2>2 DEF LedDown
  <2>6. f[s] = b  BY <1>2, <1>4, <2>1, <2>2, <2>3 DEF LedDown
  <2>7. \A t \in 1..N : t # s => f[t] = SymbolNodes[t]  BY <2>1, <2>2 DEF LedDown
  <2>8. IsSeq(f) /\ Len(f) = N  BY <2>1, <2>5, SeqOfFunction
  <2> QED BY <2>1, <2>2, <2>4, <2>6, <2>7, <2>8
<1>10. Touched(s, D, P)
  <2>1. \A c \in D : c # 1 => Border(c) = a.start
    <3>1. \A c \in a.down : c # 1 => Border(c) = a.start  BY <1>1, <1>2, <1>4 DEF StackInv
    <3> QED BY <1>3, <1>5, <1>8, <3>1
  <2>2. ASSUME NEW c \in D
        PROVE  /\ HasGoto(StateNodes[c].state, a.symbol)
               /\ Goto(StateNodes[c].state, a.symbol) = StateNodes[node].state
    <3>1. CASE c = shift.from
      BY <1>2, <1>3, <1>4, <3>1
    <3>2. CASE c \in a.down
      BY <1>1, <1>2, <1>4, <3>2 DEF LinkInv
    <3> QED BY <1>5, <2>2, <3>1, <3>2
  <2>3. \A v \in StateNodeNos : s \in StateNodes[v].children =>
            \A c \in D : /\ HasGoto(StateNodes[c].state, a.symbol)
                         /\ Goto(StateNodes[c].state, a.symbol) = StateNodes[v].state
    BY <1>7, <2>2
  <2>4. P = <<>> /\ P \in Seq(Parse) /\ DOMAIN P = {}  BY <1>2, <1>4, <1>5
  <2>5. a.down \subseteq D /\ D \subseteq StateNodeNos  BY <1>3, <1>5, <1>6
  <2> QED BY <1>2, <1>4, <1>9, <2>1, <2>3, <2>4, <2>5 DEF Touched
<1>11. TouchStep(s, D, P)  BY <1>10 DEF TouchStep
<1>12. /\ ShapeInv' /\ LevelInv' /\ StackInv' /\ LinkInv' /\ StateInv' /\ LeafInv'
       /\ ParseInv' /\ PackInv'
  BY <1>1, <1>11, TouchedShape, TouchedStack, TouchedParse
<1>13. /\ Grown /\ SymbolNodeNos' = SymbolNodeNos
       /\ SymbolNodes'[s].parses = P
       /\ \A t \in SymbolNodeNos : t # s => SymbolNodes'[t] = SymbolNodes[t]
  BY ONLY <1>11, TouchedNodes
<1>14. PendingInv' /\ ShiftInv' /\ OnceInv'
  <2>1. \A t \in SymbolNodeNos' : \/ SymbolNodes'[t].parses = <<>>
                                  \/ /\ t \in SymbolNodeNos
                                     /\ SymbolNodes'[t].parses = SymbolNodes[t].parses
    BY <1>4, <1>5, <1>13
  <2> QED BY <1>13, <2>1, ShifterRest
<1>15. InputInv'  BY <1>1 DEF InputInv
<1>16. LimitInv'
  <2>1. TooMany(SymbolNodes, createdGroups)' <=> TooMany(SymbolNodes, createdGroups)
    BY <1>9 DEF TooMany, TooManyNodes
  <2>2. LimitInv /\ Back(InputLevels)' = Back(InputLevels)  BY DEF IInv, Back
  <2> QED BY <2>1, <2>2 DEF LimitInv
<1> QED BY <1>12, <1>14, <1>15, <1>16 DEF IInv

LEMMA ShifterStep ==
    ASSUME IInv, Shifter
    PROVE  IInv'
<1>1. /\ pc = "shift"
      /\ UNCHANGED <<table, words, breakAfterMax, InputLevels, wordNo, pc>>
      /\ UNCHANGED <<ActiveNodes, PendingReductions, reduction, todo, createdGroups>>
  BY DEF Shifter, input
<1>2. PICK shift \in PendingShifts :
          /\ PendingShifts' = PendingShifts \ {shift}
          /\ LET node == NodeFor(shift.to)
                 same == IF Labelled(shift.to) = {} THEN {}
                         ELSE {s \in StateNodes[node].children : SymbolNodes[s].symbol = shift.symbol}
             IN  IF same = {}
                 THEN /\ StateNodes' = [WithNodeFor(shift.to) EXCEPT ![node].children =
                                           @ \cup {Len(SymbolNodes) + 1}]
                      /\ SymbolNodes' = Append(SymbolNodes,
                             [symbol |-> shift.symbol,
                              item   |-> LeafItem(shift.symbol),
                              start  |-> Len(InputLevels) - 2,
                              end    |-> Len(InputLevels) - 1,
                              down   |-> {shift.from},
                              parses |-> <<>>])
                 ELSE /\ SymbolNodes' = [s \in DOMAIN SymbolNodes |->
                             IF s \in same
                             THEN [SymbolNodes[s] EXCEPT !.down = @ \cup {shift.from}]
                             ELSE SymbolNodes[s]]
                      /\ StateNodes' = StateNodes
  BY DEF Shifter
<1>3. CanShift(shift)  BY DEF IInv, ShiftInv
<1>4. PICK node : node = NodeFor(shift.to)  OBVIOUS
<1>5. PendingShifts' \subseteq PendingShifts  BY <1>2
<1>6. CASE Labelled(shift.to) = {}
  <2>1. PICK e : e = [symbol |-> shift.symbol, item |-> LeafItem(shift.symbol),
                      start |-> Len(InputLevels) - 2, end |-> Len(InputLevels) - 1,
                      down |-> {shift.from}, parses |-> <<>>]
    OBVIOUS
  <2>2. /\ StateNodes' = [WithNodeFor(shift.to) EXCEPT ![node].children =
                             @ \cup {Len(SymbolNodes) + 1}]
        /\ SymbolNodes' = Append(SymbolNodes, e)
    BY <1>2, <1>4, <1>6, <2>1
  <2>3. IInv  OBVIOUS
  <2> QED BY ONLY <1>1, <1>3, <1>4, <1>5, <1>6, <2>1, <2>2, <2>3, ShifterNew
<1>7. CASE Labelled(shift.to) # {}
  <2>0. PICK s : HasLeaf(node, s, shift.symbol)
    BY <1>1, <1>3, <1>4, <1>7, SameFacts
  <2>1. StateNodes[node].children = {s} /\ SymbolNodes[s].symbol = shift.symbol
    BY <2>0 DEF HasLeaf
  <2>2. PICK same : same = {t \in StateNodes[node].children : SymbolNodes[t].symbol = shift.symbol}
    OBVIOUS
  <2>3. same = {s}  BY <2>1, <2>2
  <2>4. /\ SymbolNodes' = [t \in DOMAIN SymbolNodes |->
               IF t \in same THEN [SymbolNodes[t] EXCEPT !.down = @ \cup {shift.from}]
                             ELSE SymbolNodes[t]]
        /\ StateNodes' = StateNodes
    BY <1>2, <1>4, <1>7, <2>2, <2>3
  <2>5. LedDown(s, shift.from)  BY <2>3, <2>4 DEF LedDown
  <2>6. UNCHANGED <<table, words, breakAfterMax, StateNodes, InputLevels, wordNo, pc>>
    BY <1>1, <2>4
  <2>7. IInv  OBVIOUS
  <2> QED BY ONLY <1>1, <1>3, <1>4, <1>5, <1>7, <2>1, <2>5, <2>6, <2>7, ShifterSame
<1> QED BY <1>6, <1>7

-----------------------------------------------------------------------------
(* The inductive invariant holds                                           *)

LEMMA InitInv ==
    ASSUME Init
    PROVE  IInv
<1>1. PICK par \in Parsers : table = par[1] /\ breakAfterMax = par[2]  BY DEF Init
<1>2. /\ words \in Sentences /\ wordNo = 1 /\ pc \in {"word", "done"}
      /\ StateNodes = <<[state |-> 1, children |-> {}]>>
      /\ SymbolNodes = <<>> /\ InputLevels = <<1>>
      /\ ActiveNodes = {} /\ PendingReductions = {} /\ PendingShifts = {} /\ todo = {}
  BY DEF Init
<1>3. InputInv
  <2>1. IsTable(table) /\ breakAfterMax \in BOOLEAN  BY <1>1, TableAssumption
  <2>2. Endmark \in Readings(table) /\ words \in Seq(SUBSET Readings(table))
    BY <1>1, <1>2, WordsAssumption
  <2>3. Len(words) \in Nat  BY <2>2
  <2>4. wordNo \in 1..(Len(words) + 1)  BY <1>2, <2>3
  <2> QED BY <1>2, <2>1, <2>2, <2>4 DEF InputInv
<1>4. StateNodeNos = {1} /\ SymbolNodeNos = {} /\ Len(StateNodes) = 1
  BY <1>2 DEF StateNodeNos, SymbolNodeNos
<1>5. StateNodes[1] = [state |-> 1, children |-> {}]
      /\ StateNodes[1].state = 1 /\ StateNodes[1].children = {}
  BY <1>2
<1>6. ShapeInv
  <2>1. 1 \in States  BY <1>3, SymbolsFacts
  <2>2. [state |-> 1, children |-> {}] \in [state : States, children : SUBSET Nat]  BY <2>1
  <2>3. StateNodes \in Seq([state : States, children : SUBSET Nat])  BY <1>2, <2>2
  <2>4. IsSeq(SymbolNodes)  BY <1>2 DEF IsSeq
  <2> QED BY <1>4, <1>5, <2>3, <2>4 DEF ShapeInv
<1>7. Len(InputLevels) = 1 /\ InputLevels[1] = 1 /\ DOMAIN InputLevels = {1}
      /\ InputLevels \in Seq(Nat) /\ Back(InputLevels) = 1
  BY <1>2 DEF Back
<1>8. LevelInv  BY <1>2, <1>4, <1>7 DEF LevelInv
<1>9. StackInv /\ LinkInv /\ StateInv /\ LeafInv /\ ParseInv /\ PackInv
  BY <1>4, <1>5 DEF StackInv, LinkInv, StateInv, LeafInv, ParseInv, PackInv
<1>10. PendingInv /\ ShiftInv /\ OnceInv  BY <1>2, <1>4 DEF PendingInv, ShiftInv, OnceInv
<1>11. LimitInv
  <2>1. LastClosure = 1..1  BY <1>7 DEF LastClosure
  <2>2. 1 \in LastClosure  BY <2>1
  <2> QED BY <1>2, <2>2 DEF LimitInv
<1> QED BY <1>3, <1>6, <1>8, <1>9, <1>10, <1>11 DEF IInv

LEMMA StutterInv ==
    ASSUME IInv, UNCHANGED vars
    PROVE  IInv'
<1>1. /\ UNCHANGED <<table, words, breakAfterMax, StateNodes, SymbolNodes>>
      /\ UNCHANGED <<InputLevels, pc, wordNo, createdGroups>>
      /\ UNCHANGED <<ActiveNodes, PendingReductions, PendingShifts, reduction, todo>>
  BY DEF vars, input
<1>2. /\ InputInv /\ LevelInv /\ LeafInv /\ PendingInv /\ ShiftInv /\ OnceInv /\ LimitInv
  BY DEF IInv
<1>3. \A v : Border(v)' = Border(v)  BY <1>1, BorderUnchanged
<1>4. ShapeInv' /\ StackInv' /\ LinkInv' /\ StateInv' /\ ParseInv' /\ PackInv'
  BY <1>1, <1>3, NodesUnchanged
<1>5. InputInv'  BY <1>1, <1>2 DEF InputInv
<1>6. LevelInv'  BY <1>1, <1>2 DEF LevelInv, Back
<1>7. StateNodeNos' = StateNodeNos /\ SymbolNodeNos' = SymbolNodeNos
  BY <1>1 DEF StateNodeNos, SymbolNodeNos
<1>8. LeafInv'
  <2>1. CurrentFirst' = CurrentFirst /\ Back(InputLevels)' = Back(InputLevels)
    BY <1>1 DEF CurrentFirst, Back
  <2> QED BY <1>1, <1>2, <1>7, <2>1 DEF LeafInv
<1>9. PendingInv'
  <2>1. \A red : CanReduce(red)' <=> CanReduce(red)
    BY <1>1, <1>3, <1>7 DEF CanReduce, RuleLength
  <2>2. CanReduce(reduction)' <=> CanReduce(reduction)
    BY <1>1, <1>3, <1>7 DEF CanReduce, RuleLength
  <2>3. Paths(reduction)' = Paths(reduction)  BY <1>1 DEF Paths, Below, RuleLength
  <2> QED BY <1>1, <1>2, <1>3, <1>7, <2>1, <2>2, <2>3 DEF PendingInv
<1>10. ShiftInv'
  <2>1. \A shift : CanShift(shift)' <=> CanShift(shift)
    BY <1>1, <1>3, <1>7 DEF CanShift, HasGoto, Goto, Symbols
  <2> QED BY <1>1, <1>2, <2>1 DEF ShiftInv
<1>11. OnceInv'  BY <1>1, <1>2, OnceKept
<1>12. LimitInv'
  <2>1. TooMany(SymbolNodes, createdGroups)' <=> TooMany(SymbolNodes, createdGroups)
    BY <1>1 DEF TooMany, TooManyNodes
  <2>2. LastClosure' = LastClosure /\ Back(InputLevels)' = Back(InputLevels)
    BY <1>1 DEF LastClosure, Back
  <2> QED BY <1>1, <1>2, <2>1, <2>2 DEF LimitInv
<1> QED BY <1>4, <1>5, <1>6, <1>8, <1>9, <1>10, <1>11, <1>12 DEF IInv

LEMMA NextInv ==
    ASSUME IInv, [Next]_vars
    PROVE  IInv'
<1>1. CASE BeginWord  BY <1>1, BeginWordStep
<1>2. CASE Actor  BY <1>2, ActorStep
<1>3. CASE Reducer  BY <1>3, ReducerStep
<1>4. CASE RejectPath  BY <1>4, RejectPathStep
<1>5. CASE PackPath  BY <1>5, PackPathStep
<1>6. CASE LinkPath  BY <1>6, LinkPathStep
<1>7. CASE EndReducer \/ Collect  BY <1>7, LeavingStep
<1>8. CASE CloseLevel  BY <1>8, CloseLevelStep
<1>9. CASE Shifter  BY <1>9, ShifterStep
<1>10. CASE EndWord  BY <1>10, EndWordStep
<1>11. CASE UNCHANGED vars  BY <1>11, StutterInv
<1> QED BY <1>1, <1>2, <1>3, <1>4, <1>5, <1>6, <1>7, <1>8, <1>9, <1>10, <1>11 DEF Next

LEMMA InvAlways == Spec => []IInv
<1>1. Init => IInv  BY InitInv
<1>2. IInv /\ [Next]_vars => IInv'  BY NextInv
<1> QED BY <1>1, <1>2, PTL DEF Spec

-----------------------------------------------------------------------------
(* The theorems                                                            *)

\* Every symbol node of the stack belongs to one state node, ends at its border
\* and leads down to the root or to nodes at the border where it starts: what
\* ReduceOnePath relies on when it takes the stretch of a new symbol node from
\* the ends of a path.
THEOREM StackFollowsInputAlways == Spec => []StackFollowsInput
<1>1. IInv => StackFollowsInput
  BY DEF IInv, StackInv, StackFollowsInput
<1> QED BY <1>1, InvAlways, PTL

\* In a closure set CreateOrReuseNode never makes a second node for a state,
\* and the symbol nodes under a state node carry one symbol, so that
\* HasPathOfLengthTwo need not compare it.
THEOREM OneNodePerStateAlways == Spec => []OneNodePerState
<1>1. IInv => OneNodePerState
  <2>1. SUFFICES ASSUME IInv PROVE OneNodePerState  OBVIOUS
  <2>2. InputInv /\ ShapeInv /\ LinkInv /\ StateInv  BY <2>1 DEF IInv
  <2>3. ASSUME NEW v \in StateNodeNos, NEW s \in StateNodes[v].children,
               NEW t \in StateNodes[v].children
        PROVE  SymbolNodes[s].symbol = SymbolNodes[t].symbol
    <3>1. t \in SymbolNodeNos  BY <2>2 DEF ShapeInv
    <3>2. PICK d : d \in SymbolNodes[t].down  BY <2>2, <3>1 DEF ShapeInv, IsSymbolNode
    <3>3. PICK i, X : i = StateNodes[d].state /\ X = SymbolNodes[t].symbol  OBVIOUS
    <3>4. HasGoto(i, X) /\ Goto(i, X) = StateNodes[v].state
      BY <2>2, <3>2, <3>3 DEF LinkInv
    <3>5. SymbolNodes[s].symbol = X  BY <2>2, <3>4, AccessingSymbol
    <3> QED BY <3>3, <3>5
  <2> QED BY <2>2, <2>3 DEF OneNodePerState, StateInv
<1> QED BY <1>1, InvAlways, PTL

\* As long as no limit is met, HasPathOfLengthTwo keeps two symbol nodes under a
\* state node apart in item, start or all that they lead down to, and
\* ReduceOnePath stores no parse twice.
THEOREM AmbiguityIsPackedAlways == Spec => []AmbiguityIsPacked
<1>1. IInv => AmbiguityIsPacked
  BY DEF IInv, PackInv, OnceInv, AmbiguityIsPacked, TooMany
<1> QED BY <1>1, InvAlways, PTL

\* Every parse that ReduceOnePath stores applies its rule to symbol nodes that
\* follow one another over the words of the node; the first is made of older
\* nodes; and a node without parses is a word read as its terminal by Shifter.
THEOREM ParsesAreDerivationsAlways == Spec => []ParsesAreDerivations
<1>1. IInv => ParsesAreDerivations
  <2>1. SUFFICES ASSUME IInv, NEW s \in SymbolNodeNos, NEW node, node = SymbolNodes[s]
                 PROVE  /\ node.parses = <<>> =>
                              /\ node.end = node.start + 1
                              /\ node.symbol \in words[node.end]
                              /\ node.item = LeafItem(node.symbol)
                        /\ \A i \in DOMAIN node.parses :
                              LET items == node.parses[i].items
                                  rule  == table.rules[node.parses[i].rule]
                              IN  /\ rule.left = node.symbol
                                  /\ Len(items) = Len(rule.right)
                                  /\ \A k \in DOMAIN items : SymbolNodes[items[k]].symbol = rule.right[k]
                                  /\ SymbolNodes[items[1]].start = node.start
                                  /\ Back([k \in DOMAIN items |-> SymbolNodes[items[k]].end]) = node.end
                                  /\ \A k \in 1..(Len(items) - 1) :
                                        SymbolNodes[items[k]].end = SymbolNodes[items[k + 1]].start
                                  /\ node.item = CreateNewItem(rule,
                                        [k \in DOMAIN items |-> SymbolNodes[items[k]].item])
                                  /\ i = 1 => \A k \in DOMAIN items : items[k] < s
    BY DEF ParsesAreDerivations
  <2>2. InputInv /\ ShapeInv /\ ParseInv  BY <2>1 DEF IInv
  <2>3. node.parses = <<>> => IsLeaf(node)  BY <2>1, <2>2 DEF ParseInv
  <2>4. ASSUME NEW i \in DOMAIN node.parses, NEW items, NEW rule,
               items = node.parses[i].items, rule = table.rules[node.parses[i].rule]
        PROVE  /\ rule.left = node.symbol
               /\ Len(items) = Len(rule.right)
               /\ \A k \in DOMAIN items : SymbolNodes[items[k]].symbol = rule.right[k]
               /\ SymbolNodes[items[1]].start = node.start
               /\ Back([k \in DOMAIN items |-> SymbolNodes[items[k]].end]) = node.end
               /\ \A k \in 1..(Len(items) - 1) :
                     SymbolNodes[items[k]].end = SymbolNodes[items[k + 1]].start
               /\ node.item = CreateNewItem(rule,
                     [k \in DOMAIN items |-> SymbolNodes[items[k]].item])
               /\ i = 1 => \A k \in DOMAIN items : items[k] < s
    <3>1. Derives(node, node.parses[i])  BY <2>1, <2>2, <2>4 DEF ParseInv
    <3>2. /\ items \in Seq(SymbolNodeNos)
          /\ rule.left = node.symbol
          /\ Len(items) = Len(rule.right)
          /\ \A k \in DOMAIN items : SymbolNodes[items[k]].symbol = rule.right[k]
          /\ SymbolNodes[items[1]].start = node.start
          /\ SymbolNodes[Back(items)].end = node.end
          /\ \A k \in 1..(Len(items) - 1) :
                SymbolNodes[items[k]].end = SymbolNodes[items[k + 1]].start
          /\ node.item = CreateNewItem(rule, [k \in DOMAIN items |-> SymbolNodes[items[k]].item])
      BY <2>4, <3>1 DEF Derives
    <3>3. i = 1 => \A k \in DOMAIN items : items[k] < s  BY <2>1, <2>2, <2>4 DEF ParseInv
    <3>4. node.parses \in Seq(Parse)  BY <2>1, <2>2 DEF ShapeInv, IsSymbolNode
    <3>5. node.parses[i].rule \in DOMAIN table.rules
      <4>1. PICK Q, R : Q = node.parses /\ R = Parse  OBVIOUS
      <4>2. Q \in Seq(R) /\ i \in DOMAIN Q  BY <2>4, <3>4, <4>1
      <4>3. Q[i] \in R  BY ONLY <4>2
      <4>4. PICK p : p = node.parses[i]  OBVIOUS
      <4>5. p \in Parse  BY <4>1, <4>3, <4>4
      <4>6. p.rule \in DOMAIN table.rules  BY ONLY <4>5 DEF Parse
      <4> QED BY <4>4, <4>6
    <3>6. PICK n : n = Len(items) /\ n \in Nat \ {0}
      BY <2>2, <2>4, <3>2, <3>5, RuleFacts DEF RuleLength
    <3>7. Back([k \in DOMAIN items |-> SymbolNodes[items[k]].end]) = node.end
      <4>1. PICK f : f = [k \in DOMAIN items |-> SymbolNodes[items[k]].end]  OBVIOUS
      <4>2. DOMAIN items = 1..n  BY <3>2, <3>6
      <4>3. f = [k \in 1..n |-> f[k]]  BY <4>1, <4>2
      <4>4. Len(f) = n  BY <3>6, <4>3, SeqOfFunction
      <4>5. n \in 1..n  BY <3>6
      <4>6. f[n] = SymbolNodes[items[n]].end  BY <4>1, <4>2, <4>5
      <4>7. Back(f) = f[n] /\ Back(items) = items[n]  BY <3>6, <4>4 DEF Back
      <4> QED BY <3>2, <4>1, <4>6, <4>7
    <3> QED BY <3>2, <3>3, <3>7
  <2> QED BY <2>3, <2>4 DEF IsLeaf
<1> QED BY <1>1, InvAlways, PTL

\* A pending reduction always has a path, and the state at the end of each has a
\* goto for the left part: the assertions of ReduceOnePath (glr.cpp:713 and 718)
\* never fail.
THEOREM ReductionsHavePathsAlways == Spec => []ReductionsHavePaths
<1>1. IInv => ReductionsHavePaths
  <2>1. SUFFICES ASSUME IInv, NEW red \in PendingReductions
                 PROVE  /\ Paths(red) # {}
                        /\ \A path \in Paths(red) :
                              HasGoto(StateNodes[path.bottom].state, table.rules[red.rule].left)
    BY DEF ReductionsHavePaths
  <2>2. InputInv /\ ShapeInv /\ StackInv /\ LinkInv /\ CanReduce(red)
    BY <2>1 DEF IInv, PendingInv
  <2>3. PICK n : n = RuleLength(red.rule)  OBVIOUS
  <2>4. PICK q : IsChain(q, n, red)  BY <2>2, <2>3, ChainExists
  <2>5. n \in 1..n
    <3>1. red.rule \in DOMAIN table.rules  BY <2>2 DEF CanReduce
    <3>2. n \in Nat \ {0}  BY <2>2, <2>3, <3>1, RuleFacts
    <3> QED BY <3>2
  <2>6. q[n] \in SymbolNodeNos  BY <2>4, <2>5 DEF IsChain
  <2>7. PICK w : w \in SymbolNodes[q[n]].down  BY ZenonT(40), <2>2, <2>6 DEF ShapeInv, IsSymbolNode
  <2>8. [symbols |-> q, bottom |-> w] \in Paths(red)  BY <2>3, <2>4, <2>7, PathsElement
  <2>9. ASSUME NEW path \in Paths(red)
        PROVE  HasGoto(StateNodes[path.bottom].state, table.rules[red.rule].left)
    BY <2>2, PathFacts
  <2> QED BY <2>8, <2>9
<1> QED BY <1>1, InvAlways, PTL

-----------------------------------------------------------------------------
(* What a step may never do                                                *)

\* The closure sets that were left are as they were.
Frozen ==
    /\ \A v \in 1..Back(InputLevels) : StateNodes'[v] = StateNodes[v]
    /\ \A s \in SymbolNodeNos :
          (pc # "shift" \/ SymbolNodes[s].end < wordNo) =>
              SymbolNodes'[s].down = SymbolNodes[s].down

LEMMA LinkedFrozen ==
    ASSUME InputInv, ShapeInv, LevelInv, NEW state, NEW node, NEW e, Linked(state, node, e)
    PROVE  Frozen
<1>1. /\ Back(InputLevels) \in Nat
      /\ Len(InputLevels) > 1 => GetFirstNodeNoOfCurrentClosure = Back(InputLevels) + 1
  BY FirstNodeNo
<1>2. PICK N, b : /\ N = Len(StateNodes) /\ N \in Nat \ {0}
                  /\ b = Back(InputLevels) /\ b \in Nat
  BY <1>1, NodeFacts
<1>3. b <= N /\ (Len(InputLevels) = 1 => N = 1)  BY <1>2 DEF LevelInv
<1>4. node \in Nat \ {0}  BY LinkedNodes
<1>5. node >= GetFirstNodeNoOfCurrentClosure /\ node # 1  BY DEF Linked
<1>6. Len(InputLevels) = 1 \/ Len(InputLevels) > 1
  <2>1. Len(InputLevels) \in Nat /\ Len(InputLevels) >= 1  BY DEF LevelInv
  <2> QED BY <2>1
<1>7. \A v \in 1..b : v # node
  <2>1. CASE Len(InputLevels) = 1
    <3>1. b \in Nat /\ b <= 1  BY <1>2, <1>3, <2>1
    <3>2. \A v \in 1..b : v = 1  BY ONLY <3>1
    <3> QED BY <1>5, <3>2
  <2>2. CASE Len(InputLevels) > 1
    BY <1>1, <1>2, <1>4, <1>5, <2>2
  <2> QED BY <1>6, <2>1, <2>2
<1>8. \A v \in 1..b : v \in StateNodeNos  BY <1>2, <1>3 DEF StateNodeNos
<1>9. /\ \A v \in StateNodeNos : v # node => StateNodes'[v] = StateNodes[v]
      /\ \A t \in SymbolNodeNos : SymbolNodes'[t] = SymbolNodes[t]
  BY DEF Linked
<1> QED BY <1>2, <1>7, <1>8, <1>9 DEF Frozen

LEMMA PackPathFrozen ==
    ASSUME IInv, PackPath
    PROVE  Frozen
<1>1. UNCHANGED StateNodes  BY DEF PackPath
<1>2. PICK s, p : SymbolNodes' = [SymbolNodes EXCEPT ![s].parses = Append(@, p)]
  BY DEF PackPath
<1>3. ShapeInv  BY DEF IInv
<1>4. PICK N, g, f : /\ N = Len(SymbolNodes) /\ N \in Nat
                     /\ g = SymbolNodes /\ f = SymbolNodes'
  BY <1>3, NodeFacts
<1>5. IsSeq(g) /\ SymbolNodeNos = 1..N  BY <1>3, <1>4 DEF ShapeInv, SymbolNodeNos
<1>6. g = [t \in 1..N |-> g[t]]  BY <1>4, <1>5, SeqFacts
<1>7. f = [g EXCEPT ![s].parses = Append(@, p)]  BY <1>2, <1>4
<1>8. ASSUME NEW t \in 1..N PROVE f[t].down = g[t].down
  <2>1. CASE s \in 1..N
    <3>1. PICK a, P : a = g[s] /\ P = Append(a.parses, p)  OBVIOUS
    <3>2. a = [symbol |-> a.symbol, item |-> a.item, start |-> a.start,
               end |-> a.end, down |-> a.down, parses |-> a.parses]
      BY <1>3, <1>4, <1>5, <2>1, <3>1 DEF ShapeInv, IsSymbolNode
    <3>3. N \in Nat  BY <1>4
    <3>4. /\ \A u \in 1..N : u # s => f[u] = g[u]
          /\ f[s] = [symbol |-> a.symbol, item |-> a.item, start |-> a.start,
                     end |-> a.end, down |-> a.down, parses |-> P]
      BY ONLY <1>6, <1>7, <2>1, <3>1, <3>2, <3>3, ParsesAdded
    <3>5. f[s].down = a.down  BY <3>4
    <3> QED BY <1>8, <3>1, <3>4, <3>5
  <2>2. CASE s \notin 1..N
    <3>1. t \in DOMAIN g /\ t # s  BY <1>6, <1>8, <2>2
    <3>2. f[t] = g[t]  BY ONLY <1>7, <3>1
    <3> QED BY <3>2
  <2> QED BY <2>1, <2>2
<1> QED BY <1>1, <1>4, <1>5, <1>8 DEF Frozen

LEMMA LinkPathFrozen ==
    ASSUME IInv, LinkPath
    PROVE  Frozen
<1>1. /\ pc = "paths" /\ UNCHANGED <<table, words, breakAfterMax, InputLevels, wordNo, pc>>
  BY DEF LinkPath, input
<1>2. PICK path, state, node, p, e :
          /\ path \in todo /\ HasPathOfLengthTwo(path) = {}
          /\ state = PathGoto(path) /\ node = NodeFor(state)
          /\ p = [rule |-> reduction.rule, items |-> RightPart(path)]
          /\ e = [symbol |-> PathLeft, item |-> PathItem(path), start |-> PathStart(path),
                  end |-> PathEnd(path), down |-> {path.bottom}, parses |-> <<p>>]
          /\ StateNodes' = [WithNodeFor(state) EXCEPT ![node].children =
                               @ \cup {Len(SymbolNodes) + 1}]
          /\ SymbolNodes' = Append(SymbolNodes, e)
  BY DEF LinkPath
<1>3. InputInv /\ ShapeInv /\ LevelInv /\ IInv  BY DEF IInv
<1>4. LinkStep(state, node, path.bottom, e)  BY ONLY <1>1, <1>2, <1>3, LinkPathHolds
<1>5. Linked(state, node, e)  BY <1>4 DEF LinkStep
<1> QED BY ONLY <1>3, <1>5, LinkedFrozen

LEMMA ShifterFrozen ==
    ASSUME IInv, Shifter
    PROVE  Frozen
<1>1. pc = "shift" /\ UNCHANGED <<table, InputLevels, wordNo>>  BY DEF Shifter, input
<1>2. PICK shift \in PendingShifts :
          LET node == NodeFor(shift.to)
              same == IF Labelled(shift.to) = {} THEN {}
                      ELSE {s \in StateNodes[node].children : SymbolNodes[s].symbol = shift.symbol}
          IN  IF same = {}
              THEN /\ StateNodes' = [WithNodeFor(shift.to) EXCEPT ![node].children =
                                        @ \cup {Len(SymbolNodes) + 1}]
                   /\ SymbolNodes' = Append(SymbolNodes,
                          [symbol |-> shift.symbol,
                           item   |-> LeafItem(shift.symbol),
                           start  |-> Len(InputLevels) - 2,
                           end    |-> Len(InputLevels) - 1,
                           down   |-> {shift.from},
                           parses |-> <<>>])
              ELSE /\ SymbolNodes' = [s \in DOMAIN SymbolNodes |->
                          IF s \in same
                          THEN [SymbolNodes[s] EXCEPT !.down = @ \cup {shift.from}]
                          ELSE SymbolNodes[s]]
                   /\ StateNodes' = StateNodes
  BY DEF Shifter
<1>3. InputInv /\ ShapeInv /\ LevelInv /\ StackInv /\ CanShift(shift)  BY DEF IInv, ShiftInv
<1>4. PICK state, node : state = shift.to /\ node = NodeFor(state)  OBVIOUS
<1>5. CASE Labelled(shift.to) = {}
  <2>1. PICK e : /\ StateNodes' = [WithNodeFor(state) EXCEPT ![node].children =
                                      @ \cup {Len(SymbolNodes) + 1}]
                 /\ SymbolNodes' = Append(SymbolNodes, e)
    BY <1>2, <1>4, <1>5
  <2>2. state \in States /\ state # 1  BY <1>1, <1>3, <1>4, CanShiftFacts
  <2>3. UNCHANGED table  BY <1>1
  <2>4. Linked(state, node, e)  BY ONLY <1>3, <1>4, <2>1, <2>2, <2>3, LinkedHolds
  <2> QED BY ONLY <1>3, <2>4, LinkedFrozen
<1>6. CASE Labelled(shift.to) # {}
  <2>1. /\ node \in StateNodeNos /\ Border(node) = wordNo
        /\ \E s : HasLeaf(node, s, shift.symbol)
    BY <1>1, <1>3, <1>4, <1>6, SameFacts
  <2>2. PICK s : HasLeaf(node, s, shift.symbol)  BY <2>1
  <2>3. StateNodes[node].children = {s} /\ SymbolNodes[s].symbol = shift.symbol
        /\ s \in SymbolNodeNos
    BY <2>2 DEF HasLeaf
  <2>4. PICK same : same = {t \in StateNodes[node].children : SymbolNodes[t].symbol = shift.symbol}
    OBVIOUS
  <2>5. same = {s}  BY <2>3, <2>4
  <2>6. /\ SymbolNodes' = [t \in DOMAIN SymbolNodes |->
               IF t \in same THEN [SymbolNodes[t] EXCEPT !.down = @ \cup {shift.from}]
                             ELSE SymbolNodes[t]]
        /\ StateNodes' = StateNodes
    BY <1>2, <1>4, <1>6, <2>4, <2>5
  <2>7. LedDown(s, shift.from)  BY <2>5, <2>6 DEF LedDown
  <2>8. DOMAIN SymbolNodes = SymbolNodeNos  BY <1>3, NodeFacts
  <2>9. \A t \in SymbolNodeNos : t # s => SymbolNodes'[t] = SymbolNodes[t]
    BY <2>7, <2>8 DEF LedDown
  <2>10. SymbolNodes[s].end = wordNo
    <3>1. PICK v \in StateNodeNos : s \in StateNodes[v].children /\ Border(v) = SymbolNodes[s].end
      BY <1>3, <2>3 DEF StackInv
    <3>2. v = node  BY <1>3, <2>1, <2>3, <3>1 DEF StackInv
    <3> QED BY <2>1, <3>1, <3>2
  <2>11. wordNo \in Nat  BY <1>3, SymbolsFacts
  <2>12. ASSUME NEW t \in SymbolNodeNos, SymbolNodes[t].end < wordNo
         PROVE  SymbolNodes'[t] = SymbolNodes[t]
    <3>1. t # s  BY <2>10, <2>11, <2>12
    <3> QED BY <2>9, <3>1
  <2>13. UNCHANGED StateNodes /\ pc = "shift"  BY <1>1, <2>6
  <2> QED BY ONLY <2>12, <2>13 DEF Frozen
<1> QED BY <1>5, <1>6

\* A closure set that was left is never touched again, and only Shifter, at the
\* border it works at, lets a symbol node lead down to more nodes: Reducer's
\* depth-first walk meets the same paths however ReduceOnePath adds to the stack.
THEOREM EarlierStackIsFrozenAlways == Spec => EarlierStackIsFrozen
<1>1. IInv /\ [Next]_vars => [Frozen]_vars
  <2>1. SUFFICES ASSUME IInv, Next PROVE Frozen  OBVIOUS
  <2>2. CASE BeginWord \/ Actor \/ Reducer \/ RejectPath \/ EndReducer \/ CloseLevel \/ EndWord \/ Collect
    <3>1. UNCHANGED <<StateNodes, SymbolNodes>>
      BY <2>2 DEF BeginWord, Actor, Reducer, RejectPath, EndReducer, CloseLevel, EndWord,
                  Collect, stack
    <3> QED BY <3>1 DEF Frozen
  <2>3. CASE PackPath  BY <2>1, <2>3, PackPathFrozen
  <2>4. CASE LinkPath  BY <2>1, <2>4, LinkPathFrozen
  <2>5. CASE Shifter  BY <2>1, <2>5, ShifterFrozen
  <2> QED BY <2>1, <2>2, <2>3, <2>4, <2>5 DEF Next
<1> QED BY <1>1, InvAlways, PTL DEF Spec, EarlierStackIsFrozen, Frozen

\* Once a limit is met no further word is shifted: ParseSymbol looks at the
\* limits after each step of its loop, and a closure set that a shift left past
\* them has an active node, whose Actor is such a step.
THEOREM LimitStopsTheParseAlways == Spec => LimitStopsTheParse
<1> DEFINE Stops == (TooMany(SymbolNodes, createdGroups) /\ pc # "shift") => pc' # "shift"
<1>1. IInv /\ [Next]_vars => [Stops]_vars
  <2>1. SUFFICES ASSUME IInv, Next, TooMany(SymbolNodes, createdGroups), pc # "shift"
                 PROVE  pc' # "shift"
    OBVIOUS
  <2>2. CASE BeginWord \/ Actor \/ Reducer \/ RejectPath \/ PackPath \/ LinkPath \/ EndReducer
             \/ Collect
    BY <2>1, <2>2 DEF BeginWord, Actor, Reducer, RejectPath, PackPath, LinkPath, EndReducer,
                      Collect, AfterStep
  <2>3. CASE CloseLevel
    <3>1. pc = "loop" /\ ActiveNodes = {}  BY <2>3 DEF CloseLevel
    <3>2. ActiveNodes # {}  BY <2>1, <3>1 DEF IInv, LimitInv
    <3> QED BY <3>1, <3>2
  <2>4. CASE Shifter \/ EndWord
    BY <2>1, <2>4 DEF Shifter, EndWord
  <2> QED BY <2>1, <2>2, <2>3, <2>4 DEF Next
<1> QED BY <1>1, InvAlways, PTL DEF Spec, LimitStopsTheParse

-----------------------------------------------------------------------------
(* Type correctness                                                        *)

\* The counter of facts, and the result, which is empty until the parse is over.
ResultInv ==
    /\ createdGroups \in Nat
    /\ pc # "done" => Occurrences = {}
    /\ Occurrences \subseteq SymbolNodeNos

LEMMA TypeFromInv ==
    ASSUME IInv, ResultInv
    PROVE  TypeOK
<1>1. InputInv /\ ShapeInv /\ StackInv /\ PendingInv /\ ShiftInv  BY DEF IInv
<1>2. pc \in {"word", "loop", "paths", "shift", "found", "done"} /\ wordNo \in 1..(Len(words) + 1)
  BY <1>1 DEF InputInv
<1>3. \A v \in StateNodeNos : /\ StateNodes[v].state \in States
                              /\ StateNodes[v].children \subseteq SymbolNodeNos
  BY <1>1, NodeFacts DEF ShapeInv
<1>4. ASSUME NEW s \in SymbolNodeNos
      PROVE  /\ SymbolNodes[s].down \subseteq StateNodeNos
             /\ SymbolNodes[s].start \in 0..Len(words)
             /\ SymbolNodes[s].end \in 1..(Len(words) + 1)
  <2>1. /\ SymbolNodes[s].down \subseteq StateNodeNos
        /\ SymbolNodes[s].start \in Nat /\ SymbolNodes[s].end \in Nat
    BY <1>1 DEF ShapeInv, IsSymbolNode
  <2>2. /\ SymbolNodes[s].start < SymbolNodes[s].end
        /\ SymbolNodes[s].end <= Len(words)
    BY <1>1 DEF StackInv
  <2>3. Len(words) \in Nat  BY <1>1, SymbolsFacts
  <2> QED BY <2>1, <2>2, <2>3
<1>5. ASSUME NEW red \in PendingReductions
      PROVE  red.symbol \in SymbolNodeNos /\ red.last \in StateNodeNos
  BY <1>1 DEF PendingInv, CanReduce
<1>6. ASSUME NEW shift \in PendingShifts
      PROVE  shift.from \in StateNodeNos /\ shift.to \in States
  <2>1. CanShift(shift)  BY <1>1 DEF ShiftInv
  <2>2. PICK i, X : i = StateNodes[shift.from].state /\ X = shift.symbol  OBVIOUS
  <2>3. HasGoto(i, X) /\ shift.to = Goto(i, X)  BY <2>1, <2>2 DEF CanShift
  <2>4. Goto(i, X) \in States  BY <1>1, <2>3, GotoFacts
  <2> QED BY <2>1, <2>3, <2>4 DEF CanShift
<1>7. ActiveNodes \subseteq StateNodeNos  BY <1>1 DEF PendingInv
<1> QED BY <1>2, <1>3, <1>4, <1>5, <1>6, <1>7 DEF ResultInv, TypeOK

LEMMA ResultStep ==
    ASSUME \A item : FactsCount(item) \in Nat, IInv, ResultInv, [Next]_vars
    PROVE  ResultInv'
<1>1. createdGroups' \in Nat
  <2>1. CASE PackPath \/ LinkPath
    <3>1. PICK path : createdGroups' = createdGroups + FactsCount(PathItem(path))
      BY <2>1 DEF PackPath, LinkPath
    <3>2. PICK n : n = FactsCount(PathItem(path)) /\ n \in Nat  OBVIOUS
    <3> QED BY <3>1, <3>2 DEF ResultInv
  <2>2. CASE UNCHANGED createdGroups
    BY <2>2 DEF ResultInv
  <2>3. PackPath \/ LinkPath \/ UNCHANGED createdGroups
    BY DEF Next, vars, BeginWord, Actor, Reducer, RejectPath, EndReducer, CloseLevel, Shifter,
           EndWord, Collect
  <2> QED BY <2>1, <2>2, <2>3
<1>2. CASE Collect
  <2>1. /\ pc' = "done" /\ UNCHANGED SymbolNodes
        /\ Occurrences' = {s \in DOMAIN SymbolNodes : SymbolNodes[s].symbol = table.root}
    BY <1>2 DEF Collect, stack
  <2>2. DOMAIN SymbolNodes = SymbolNodeNos  BY NodeFacts DEF IInv
  <2>3. SymbolNodeNos' = SymbolNodeNos  BY <2>1 DEF SymbolNodeNos
  <2> QED BY <1>1, <2>1, <2>2, <2>3 DEF ResultInv
<1>3. CASE BeginWord \/ Actor \/ Reducer \/ RejectPath \/ PackPath \/ LinkPath \/ EndReducer
           \/ CloseLevel \/ Shifter \/ EndWord
  <2>1. pc # "done" /\ UNCHANGED Occurrences
    BY <1>3 DEF BeginWord, Actor, Reducer, RejectPath, PackPath, LinkPath, EndReducer,
                CloseLevel, Shifter, EndWord
  <2>2. Occurrences = {}  BY <2>1 DEF ResultInv
  <2> QED BY <1>1, <2>1, <2>2 DEF ResultInv
<1>4. CASE UNCHANGED vars
  <2>1. UNCHANGED <<pc, SymbolNodes, createdGroups, Occurrences>>  BY <1>4 DEF vars
  <2>2. SymbolNodeNos' = SymbolNodeNos  BY <2>1 DEF SymbolNodeNos
  <2> QED BY <2>1, <2>2 DEF ResultInv
<1> QED BY <1>2, <1>3, <1>4 DEF Next

\* The nodes that the stack, the pending reductions and shifts and the result
\* name by their numbers exist, and they stand inside the sentence, if the
\* count of facts of an item, a size_t in the code, is a natural number.
THEOREM TypeCorrect ==
    ASSUME \A item : FactsCount(item) \in Nat
    PROVE  Spec => []TypeOK
<1>1. Init => ResultInv  BY DEF Init, ResultInv
<1>2. IInv /\ ResultInv /\ [Next]_vars => ResultInv'  BY ResultStep
<1>3. IInv /\ ResultInv => TypeOK  BY TypeFromInv
<1> QED BY <1>1, <1>2, <1>3, InvAlways, PTL DEF Spec
=============================================================================
