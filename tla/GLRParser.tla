------------------------------ MODULE GLRParser ------------------------------
(***************************************************************************)
(* CGLRParser (afglrparserlib/glr.cpp) under its driver                    *)
(* CInputSequenceGLR::Process (inputsequence.cpp): a generalised LR parse  *)
(* of one sentence over a graph structured stack, which reports every      *)
(* stretch of words that the grammar's root derives.                       *)
(*                                                                         *)
(* A step of the machine is one turn of a loop of the code: one Actor, one *)
(* pending reduction taken, one path of it reduced, one pending shift.     *)
(* State and symbol nodes are numbered from 1, in the order they are made; *)
(* the root of the stack is node 1.  Words are numbered from 1; the        *)
(* borders between them, m_InputStart and m_InputEnd, from 0 as in the     *)
(* code.  A word is the set of terminals it may be read as, END_OF_INPUT   *)
(* included (BuildWordsInterpretation inserts it into every word).         *)
(***************************************************************************)
EXTENDS AhoCorasick, ParserTable

CONSTANTS
    Parsers,              \* the tables in use (SLRTable), each with a value of breakAfterMax
    Sentences,            \* the sentences
    MaxSymbolNodesCount,  \* the limit on symbol nodes
    MaxCreatedGroups,     \* the limit on facts (five times the former)
    LeafItem(_),          \* the item of a terminal
    CreateNewItem(_, _),  \* a rule, the items of its right part: the item, or NoItem
    FactsCount(_),        \* GetFactsCount of an item
    NoItem,               \* the agreement of the rule does not hold (NULL)
    MaxHeight             \* the height of the derivations looked for in the result

\* The tables come from the compiler.
ASSUME TableAssumption ==
    \A p \in Parsers : IsTable(p[1]) /\ IsComplete(p[1]) /\ p[2] \in BOOLEAN

\* A word is read as terminals of the table.
ASSUME WordsAssumption ==
    \A p \in Parsers :
        Endmark \in Readings(p[1]) /\ Sentences \subseteq Seq(SUBSET Readings(p[1]))

\* BuildWordsInterpretation reads every word as the end of input as well.
ASSUME EndmarkAssumption ==
    \A sentence \in Sentences : \A i \in DOMAIN sentence : Endmark \in sentence[i]

ASSUME LimitsAssumption ==
    MaxSymbolNodesCount \in Nat /\ MaxCreatedGroups \in Nat /\ MaxHeight \in Nat

VARIABLES
    table, words,         \* m_pTable and the sentence
    breakAfterMax,        \* m_bBreakAfterMaxSymbolNodesCount: do the limits hold
    startPoints,          \* the driver: the words at which a prefix of the root begins
    pc, wordNo,           \* the driver: the step, the word being parsed
    StateNodes,           \* m_StateNodes: [state, children]
    SymbolNodes,          \* m_SymbolNodes: [symbol, item, start, end, down, parses]
    InputLevels,          \* m_InputLevels
    ActiveNodes,          \* m_ActiveNodes
    PendingReductions,    \* m_PendingReductions: [rule, symbol, last]
    PendingShifts,        \* m_PendingShifts: [from, to, symbol]
    reduction, todo,      \* Reducer: the reduction taken, its paths not yet reduced
    createdGroups,        \* m_iCreatedGroups
    Occurrences           \* the result: numbers of symbol nodes

input == <<table, words, breakAfterMax, startPoints>>

vars == <<input, pc, wordNo, StateNodes, SymbolNodes, InputLevels, ActiveNodes,
          PendingReductions, PendingShifts, reduction, todo, createdGroups, Occurrences>>

stack == <<StateNodes, SymbolNodes, InputLevels>>

NoReduction == [rule |-> 0, symbol |-> 0, last |-> 0]

\* The last number of a sequence of numbers.
Back(s) == s[Len(s)]

\* The symbols of the word being parsed; after the last word the driver parses
\* the end of input alone.
Symbols == IF wordNo <= Len(words) THEN words[wordNo] ELSE {Endmark}

\* CInputSequenceGLR::Process: the words at which the automaton finds a prefix.
StartPoints(trie) == {occurrence.first : occurrence \in FindOccurrencesWithTrie(trie, words)}

-----------------------------------------------------------------------------
(* The table                                                               *)

SymbolNo(X) == CHOOSE i \in DOMAIN table.symbols : table.symbols[i] = X

HasGoto(state, X) == <<state, X>> \in DOMAIN table.goto

\* A faulty Goto: the line after the one in the table.
GotoNextLine(state, X) == table.goto[<<state, X>>] + 1

Goto(state, X) == table.goto[<<state, X>>]

\* The rules by which a state reduces before the word being parsed.
Reductions(state) == UNION {table.reduce[<<state, X>>] : X \in Symbols}

-----------------------------------------------------------------------------
(* The stack                                                               *)

\* A faulty LastClosure: all the nodes there are.
AllClosures == 1..Back(InputLevels)

\* The nodes of the closure set the driver finished last, with which a word
\* starts: everything above the level before it.
LastClosure ==
    (IF Len(InputLevels) > 1 THEN InputLevels[Len(InputLevels) - 1] + 1 ELSE 1)..Back(InputLevels)

\* Faulty beginnings of the current closure set: one node late; the root.
FirstNodeNoLate == IF Len(InputLevels) = 1 THEN 1 ELSE Back(InputLevels) + 2

FirstNodeNoOfAll == 1

GetFirstNodeNoOfCurrentClosure ==
    IF Len(InputLevels) = 1 THEN 1 ELSE Back(InputLevels) + 1

\* CreateOrReuseNode: the node of the current closure set that is labelled with
\* a state, the root first; a new node, the next number, if there is none.
Labelled(state) ==
    IF StateNodes[1].state = state THEN {1}
    ELSE {v \in GetFirstNodeNoOfCurrentClosure..Len(StateNodes) : StateNodes[v].state = state}

NodeFor(state) ==
    IF Labelled(state) = {} THEN Len(StateNodes) + 1
    ELSE CHOOSE v \in Labelled(state) : \A u \in Labelled(state) : v <= u

WithNodeFor(state) ==
    IF Labelled(state) = {} THEN Append(StateNodes, [state |-> state, children |-> {}])
    ELSE StateNodes

\* The break of ParseSymbol's loop, on what the step leaves behind.
TooManyNodes(symbolNodes) == breakAfterMax /\ Len(symbolNodes) >= MaxSymbolNodesCount

TooMany(symbolNodes, groups) ==
    TooManyNodes(symbolNodes) \/ (breakAfterMax /\ groups >= MaxCreatedGroups)

\* A faulty AfterStep: the limits are not looked at.
AfterStepNoLimit(symbolNodes, groups) == "loop"

\* Where the loop of ParseSymbol goes after a step of it.
AfterStep(symbolNodes, groups) == IF TooMany(symbolNodes, groups) THEN "found" ELSE "loop"

-----------------------------------------------------------------------------
(* Paths of a reduction.  A path is its symbol nodes from the top of the   *)
(* stack down, and the state node under the last of them.  Each symbol     *)
(* node is the child of one state node, so the state nodes between are     *)
(* given by the symbol nodes.                                              *)

\* A faulty RuleLength: the left part is counted.
RuleLengthWithLeft(r) == Len(table.rules[r].right) + 1

RuleLength(r) == Len(table.rules[r].right)

Below(s, t) == \E v \in SymbolNodes[s].down : t \in StateNodes[v].children

Paths(red) ==
    LET n == RuleLength(red.rule)
        chains == {q \in [1..n -> 1..Len(SymbolNodes)] :
                      q[1] = red.symbol /\ \A i \in 1..(n - 1) : Below(q[i], q[i + 1])}
    IN  UNION {{[symbols |-> q, bottom |-> w] : w \in SymbolNodes[q[n]].down} : q \in chains}

\* The order in which the depth-first search of Reducer meets the paths: the
\* children of a node are in the order of their numbers.
Owner(s) == CHOOSE v \in DOMAIN StateNodes : s \in StateNodes[v].children

MetFirst(p, q) ==
    \/ p.symbols = q.symbols /\ p.bottom <= q.bottom
    \/ \E i \in DOMAIN p.symbols :
          LET s == p.symbols[i]
              t == q.symbols[i]
          IN  /\ \A j \in 1..(i - 1) : p.symbols[j] = q.symbols[j]
              /\ s # t
              /\ Owner(s) < Owner(t) \/ (Owner(s) = Owner(t) /\ s < t)

IsNext(path) == \A other \in todo : MetFirst(path, other)

\* A faulty RightPart: the order of the path itself.
RightPartFromTop(path) == path.symbols

\* The symbol nodes of a path from left to right.
RightPart(path) ==
    LET n == Len(path.symbols) IN [i \in 1..n |-> path.symbols[n + 1 - i]]

PathItem(path) ==
    CreateNewItem(table.rules[reduction.rule],
                  [i \in DOMAIN path.symbols |-> SymbolNodes[RightPart(path)[i]].item])

PathStart(path) == SymbolNodes[RightPart(path)[1]].start
PathEnd(path) == SymbolNodes[path.symbols[1]].end

PathLeft == table.rules[reduction.rule].left
PathGoto(path) == Goto(StateNodes[path.bottom].state, PathLeft)

\* Faulty forms of HasPathOfLengthTwo: the starting words are not compared;
\* nothing is ever found.
HasPathAnyStart(path) ==
    IF Labelled(PathGoto(path)) = {} \/ TooManyNodes(SymbolNodes) THEN {}
    ELSE {s \in StateNodes[NodeFor(PathGoto(path))].children :
             /\ path.bottom \in SymbolNodes[s].down
             /\ SymbolNodes[s].item = PathItem(path)}

HasPathNever(path) == {}

\* HasPathOfLengthTwo: the symbol nodes between the node the reduction leads to
\* and the path's last state node that hold an equal item and begin at the same
\* word.  The symbols are not compared.
HasPathOfLengthTwo(path) ==
    IF Labelled(PathGoto(path)) = {} \/ TooManyNodes(SymbolNodes) THEN {}
    ELSE {s \in StateNodes[NodeFor(PathGoto(path))].children :
             /\ path.bottom \in SymbolNodes[s].down
             /\ SymbolNodes[s].item = PathItem(path)
             /\ SymbolNodes[s].start = PathStart(path)}

\* A faulty TakenUpAgain: none.
TakenUpNever(node, active, s, state) == {}

\* The reductions of a state node that a new symbol node s under it calls for,
\* if the node is not active, Actor having been called for it already.
TakenUpAgain(node, active, s, state) ==
    IF node \in active THEN {}
    ELSE {[rule |-> r, symbol |-> s, last |-> node] : r \in Reductions(state)}

-----------------------------------------------------------------------------
(* Actions                                                                 *)

\* InitGLRParser.  Without start points the driver does not parse.
Init ==
    /\ \E p \in Parsers : table = p[1] /\ breakAfterMax = p[2]
    /\ words \in Sentences
    /\ startPoints = StartPoints(table.trie)
    /\ pc = IF startPoints = {} THEN "done" ELSE "word"
    /\ wordNo = 1
    /\ StateNodes = <<[state |-> 1, children |-> {}]>>
    /\ SymbolNodes = <<>>
    /\ InputLevels = <<1>>
    /\ ActiveNodes = {}
    /\ PendingReductions = {}
    /\ PendingShifts = {}
    /\ reduction = NoReduction
    /\ todo = {}
    /\ createdGroups = 0
    /\ Occurrences = {}

\* ParseSymbol up to its loop: the nodes of the last closure set are active, and
\* the root too if the word is a start point.
BeginWord ==
    /\ pc = "word"
    /\ pc' = "loop"
    /\ ActiveNodes' = LastClosure \cup (IF wordNo \in startPoints THEN {1} ELSE {})
    /\ UNCHANGED <<input, wordNo, stack, PendingReductions, PendingShifts, reduction, todo,
                   createdGroups, Occurrences>>

\* Actor, for the first of the active nodes.
Actor ==
    /\ pc = "loop"
    /\ \E v \in ActiveNodes :
          /\ \A u \in ActiveNodes : v <= u
          /\ ActiveNodes' = ActiveNodes \ {v}
          /\ LET state == StateNodes[v].state IN
             /\ PendingShifts' = PendingShifts \cup
                    {[from |-> v, to |-> Goto(state, X), symbol |-> X] :
                        X \in {Y \in Symbols : HasGoto(state, Y)}}
             /\ PendingReductions' = PendingReductions \cup
                    {[rule |-> r, symbol |-> s, last |-> v] :
                        r \in Reductions(state), s \in StateNodes[v].children}
    /\ pc' = AfterStep(SymbolNodes, createdGroups)
    /\ UNCHANGED <<input, wordNo, stack, reduction, todo, createdGroups, Occurrences>>

\* Reducer: the first pending reduction is taken, once no node is active.
Before(a, b) ==
    \/ a.symbol < b.symbol
    \/ a.symbol = b.symbol /\ a.last < b.last
    \/ a.symbol = b.symbol /\ a.last = b.last /\ a.rule <= b.rule

Reducer ==
    /\ pc = "loop"
    /\ ActiveNodes = {}
    /\ \E red \in PendingReductions :
          /\ \A other \in PendingReductions : Before(red, other)
          /\ PendingReductions' = PendingReductions \ {red}
          /\ reduction' = red
          /\ todo' = Paths(red)
    /\ pc' = "paths"
    /\ UNCHANGED <<input, wordNo, stack, ActiveNodes, PendingShifts, createdGroups, Occurrences>>

\* A faulty RejectPath: the search does not move on.
RejectPathAgain ==
    /\ pc = "paths"
    /\ \E path \in todo :
          /\ IsNext(path)
          /\ PathItem(path) = NoItem
    /\ UNCHANGED vars

\* ReduceOnePath when the agreement of the rule fails.
RejectPath ==
    /\ pc = "paths"
    /\ \E path \in todo :
          /\ IsNext(path)
          /\ PathItem(path) = NoItem
          /\ todo' = todo \ {path}
    /\ UNCHANGED <<input, pc, wordNo, stack, ActiveNodes, PendingReductions, PendingShifts,
                   reduction, createdGroups, Occurrences>>

\* ReduceOnePath when an equal symbol node is there already: the path becomes
\* one more of its parses.
PackPath ==
    /\ pc = "paths"
    /\ \E path \in todo :
          /\ IsNext(path)
          /\ PathItem(path) # NoItem
          /\ HasPathOfLengthTwo(path) # {}
          /\ LET s == CHOOSE x \in HasPathOfLengthTwo(path) :
                         \A y \in HasPathOfLengthTwo(path) : x <= y
             IN  SymbolNodes' = [SymbolNodes EXCEPT ![s].parses =
                                    Append(@, [rule |-> reduction.rule, items |-> RightPart(path)])]
          /\ createdGroups' = createdGroups + FactsCount(PathItem(path))
          /\ todo' = todo \ {path}
    /\ UNCHANGED <<input, pc, wordNo, StateNodes, InputLevels, ActiveNodes, PendingReductions,
                   PendingShifts, reduction, Occurrences>>

\* ReduceOnePath when the symbol node is new.  A state node made for it becomes
\* active; one that was there and is no longer active has its reductions taken
\* up again for the new symbol node.
LinkPath ==
    /\ pc = "paths"
    /\ \E path \in todo :
          /\ IsNext(path)
          /\ PathItem(path) # NoItem
          /\ HasPathOfLengthTwo(path) = {}
          /\ LET state == PathGoto(path)
                 node  == NodeFor(state)
                 s     == Len(SymbolNodes) + 1
             IN  /\ StateNodes' = [WithNodeFor(state) EXCEPT ![node].children = @ \cup {s}]
                 /\ SymbolNodes' = Append(SymbolNodes,
                        [symbol |-> PathLeft,
                         item   |-> PathItem(path),
                         start  |-> PathStart(path),
                         end    |-> PathEnd(path),
                         down   |-> {path.bottom},
                         parses |-> <<[rule |-> reduction.rule, items |-> RightPart(path)]>>])
                 /\ ActiveNodes' = ActiveNodes \cup (IF Labelled(state) = {} THEN {node} ELSE {})
                 /\ PendingReductions' =
                        PendingReductions \cup TakenUpAgain(node, ActiveNodes', s, state)
          /\ createdGroups' = createdGroups + FactsCount(PathItem(path))
          /\ todo' = todo \ {path}
    /\ UNCHANGED <<input, pc, wordNo, InputLevels, PendingShifts, reduction, Occurrences>>

\* Reducer returns, all its paths reduced.
EndReducer ==
    /\ pc = "paths"
    /\ todo = {}
    /\ reduction' = NoReduction
    /\ pc' = AfterStep(SymbolNodes, createdGroups)
    /\ UNCHANGED <<input, wordNo, stack, ActiveNodes, PendingReductions, PendingShifts, todo,
                   createdGroups, Occurrences>>

\* ParseSymbol finishes the closure set and opens the next.
CloseLevel ==
    /\ pc = "loop"
    /\ ActiveNodes = {} /\ PendingReductions = {}
    /\ InputLevels' = Append([InputLevels EXCEPT ![Len(InputLevels)] = Len(StateNodes)],
                             Len(StateNodes))
    /\ pc' = "shift"
    /\ UNCHANGED <<input, wordNo, StateNodes, SymbolNodes, ActiveNodes, PendingReductions,
                   PendingShifts, reduction, todo, createdGroups, Occurrences>>

\* Shifter, for one pending shift: the symbol node for the terminal under the
\* node for the next state is made if it is not there, and leads down to the
\* node the shift came from.
Shifter ==
    /\ pc = "shift"
    /\ \E shift \in PendingShifts :
          /\ \A other \in PendingShifts :
                \/ shift.from < other.from
                \/ shift.from = other.from /\ SymbolNo(shift.symbol) <= SymbolNo(other.symbol)
          /\ PendingShifts' = PendingShifts \ {shift}
          /\ LET node == NodeFor(shift.to)
                 same == IF Labelled(shift.to) = {} THEN {}
                         ELSE {s \in StateNodes[node].children : SymbolNodes[s].symbol = shift.symbol}
             IN  IF same = {}
                 THEN /\ StateNodes' = [WithNodeFor(shift.to) EXCEPT ![node].children =
                                           @ \cup {Len(SymbolNodes) + 1}]
                      /\ SymbolNodes' = Append(SymbolNodes,
                             [symbol |-> shift.symbol,
                              item   |-> LeafItem(shift.symbol),
                              start  |-> Len(InputLevels) - 2,
                              end    |-> Len(InputLevels) - 1,
                              down   |-> {shift.from},
                              parses |-> <<>>])
                 ELSE /\ SymbolNodes' = [s \in DOMAIN SymbolNodes |->
                             IF s \in same
                             THEN [SymbolNodes[s] EXCEPT !.down = @ \cup {shift.from}]
                             ELSE SymbolNodes[s]]
                      /\ StateNodes' = StateNodes
    /\ UNCHANGED <<input, pc, wordNo, InputLevels, ActiveNodes, PendingReductions, reduction,
                   todo, createdGroups, Occurrences>>

\* ParseSymbol returns: the next word, and after the last word the end of input.
EndWord ==
    /\ pc = "shift"
    /\ PendingShifts = {}
    /\ InputLevels' = [InputLevels EXCEPT ![Len(InputLevels)] = Len(StateNodes)]
    /\ IF wordNo <= Len(words)
       THEN pc' = "word" /\ wordNo' = wordNo + 1
       ELSE pc' = "found" /\ wordNo' = wordNo
    /\ UNCHANGED <<input, StateNodes, SymbolNodes, ActiveNodes, PendingReductions, PendingShifts,
                   reduction, todo, createdGroups, Occurrences>>

\* ApplyGLR_Parsing collects the symbol nodes of the root.
Collect ==
    /\ pc = "found"
    /\ pc' = "done"
    /\ Occurrences' = {s \in DOMAIN SymbolNodes : SymbolNodes[s].symbol = table.root}
    /\ UNCHANGED <<input, wordNo, stack, ActiveNodes, PendingReductions, PendingShifts,
                   reduction, todo, createdGroups>>

Next ==
    \/ BeginWord \/ Actor \/ Reducer \/ RejectPath \/ PackPath \/ LinkPath \/ EndReducer
    \/ CloseLevel \/ Shifter \/ EndWord \/ Collect

\* The parser is one thread that runs until it returns.
Spec == Init /\ [][Next]_vars /\ WF_vars(Next)

-----------------------------------------------------------------------------
(* Properties                                                              *)

States == table.states
StateNodeNos == 1..Len(StateNodes)
SymbolNodeNos == 1..Len(SymbolNodes)

\* Type invariant.
TypeOK ==
    /\ pc \in {"word", "loop", "paths", "shift", "found", "done"}
    /\ wordNo \in 1..(Len(words) + 1)
    /\ \A v \in StateNodeNos : /\ StateNodes[v].state \in States
                               /\ StateNodes[v].children \subseteq SymbolNodeNos
    /\ \A s \in SymbolNodeNos : /\ SymbolNodes[s].down \subseteq StateNodeNos
                                /\ SymbolNodes[s].start \in 0..Len(words)
                                /\ SymbolNodes[s].end \in 1..(Len(words) + 1)
    /\ ActiveNodes \subseteq StateNodeNos
    /\ \A red \in PendingReductions : red.symbol \in SymbolNodeNos /\ red.last \in StateNodeNos
    /\ \A shift \in PendingShifts : shift.from \in StateNodeNos /\ shift.to \in States
    /\ createdGroups \in Nat
    /\ Occurrences \subseteq SymbolNodeNos

\* The border at which a node's closure set stands (GetNumberOfClosureSet).
Border(v) == Cardinality({i \in DOMAIN InputLevels : i < Len(InputLevels) /\ InputLevels[i] < v})

\* The stack follows the input: every symbol node belongs to one state node and
\* ends at its border, and what it leads down to is the root or a node at the
\* border where it starts.  ReduceOnePath (glr.cpp:703) takes the stretch of a
\* new symbol node from the first and the last of its children on this ground,
\* while the root is shared by all the start points.
StackFollowsInput ==
    \A s \in SymbolNodeNos :
        /\ SymbolNodes[s].start < SymbolNodes[s].end
        /\ \A d \in SymbolNodes[s].down : d # 1 => Border(d) = SymbolNodes[s].start
        /\ \E v \in StateNodeNos :
              /\ s \in StateNodes[v].children
              /\ Border(v) = SymbolNodes[s].end
              /\ \A u \in StateNodeNos : s \in StateNodes[u].children => u = v

\* A closure set has one node for a state (CreateOrReuseNode, glr.cpp:253,
\* searches only the nodes made since the last shift), and all the symbol nodes
\* under a state node carry the same symbol, which HasPathOfLengthTwo does not
\* compare.
OneNodePerState ==
    /\ \A u, v \in StateNodeNos :
          (Border(u) = Border(v) /\ StateNodes[u].state = StateNodes[v].state) => u = v
    /\ \A v \in StateNodeNos : \A s, t \in StateNodes[v].children :
          SymbolNodes[s].symbol = SymbolNodes[t].symbol

\* Local ambiguity is packed (HasPathOfLengthTwo, glr.cpp:217): until the limit
\* on symbol nodes is met, two symbol nodes under one state node differ in
\* their item, in where they start or in every state node they lead down to;
\* and a parse is stored once.
AmbiguityIsPacked ==
    ~TooMany(SymbolNodes, createdGroups) =>
        /\ \A v \in StateNodeNos : \A s, t \in StateNodes[v].children :
              (/\ SymbolNodes[s].item = SymbolNodes[t].item
               /\ SymbolNodes[s].start = SymbolNodes[t].start
               /\ SymbolNodes[s].down \cap SymbolNodes[t].down # {}) => s = t
        /\ \A s \in SymbolNodeNos : \A i, j \in DOMAIN SymbolNodes[s].parses :
              SymbolNodes[s].parses[i] = SymbolNodes[s].parses[j] => i = j

\* Every parse stored in a symbol node is an application of its rule: the
\* children carry the symbols of the right part, stand one after the other over
\* the stretch of the node, and give its item.  The first parse is made of
\* older nodes, so the node has a finite derivation whatever cycles the later
\* ones close.  A node without parses is a word read as its terminal.
ParsesAreDerivations ==
    \A s \in SymbolNodeNos :
        LET node == SymbolNodes[s] IN
        /\ node.parses = <<>> =>
              /\ node.end = node.start + 1
              /\ node.symbol \in words[node.end]
              /\ node.item = LeafItem(node.symbol)
        /\ \A i \in DOMAIN node.parses :
              LET items == node.parses[i].items
                  rule  == table.rules[node.parses[i].rule]
              IN  /\ rule.left = node.symbol
                  /\ Len(items) = Len(rule.right)
                  /\ \A k \in DOMAIN items : SymbolNodes[items[k]].symbol = rule.right[k]
                  /\ SymbolNodes[items[1]].start = node.start
                  /\ Back([k \in DOMAIN items |-> SymbolNodes[items[k]].end]) = node.end
                  /\ \A k \in 1..(Len(items) - 1) :
                        SymbolNodes[items[k]].end = SymbolNodes[items[k + 1]].start
                  /\ node.item = CreateNewItem(rule, [k \in DOMAIN items |-> SymbolNodes[items[k]].item])
                  /\ i = 1 => \A k \in DOMAIN items : items[k] < s

\* A closure set that was left is never touched again: no step adds a symbol
\* node under one of its nodes, and only Shifter, at the border it works at,
\* lets a symbol node lead down to more nodes.  Reducer (glr.cpp:808) walks the
\* stack depth-first while ReduceOnePath adds to it, so it would otherwise meet
\* or miss a path by luck; the model takes all the paths at once on this ground.
EarlierStackIsFrozen ==
    [][/\ \A v \in 1..Back(InputLevels) : StateNodes'[v] = StateNodes[v]
       /\ \A s \in SymbolNodeNos :
             (pc # "shift" \/ SymbolNodes[s].end < wordNo) =>
                 SymbolNodes'[s].down = SymbolNodes[s].down]_vars

\* The parser finds its way: a pending reduction has a path, and the state at
\* the end of each has a goto for the left part (the assertions of
\* ReduceOnePath, glr.cpp:713 and 718).
ReductionsHavePaths ==
    \A red \in PendingReductions :
        /\ Paths(red) # {}
        /\ \A path \in Paths(red) :
              HasGoto(StateNodes[path.bottom].state, table.rules[red.rule].left)

\* Once a limit is met (glr.cpp:143) no further word is shifted: the check is made
\* after each step of the loop, never in Shifter, which may pass the limit, and
\* the first step of the word after it then ends the parse.
LimitStopsTheParse ==
    [][(TooMany(SymbolNodes, createdGroups) /\ pc # "shift") => pc' # "shift"]_vars

\* Parsing ends, also with rules that derive each other in a circle.
Terminates == <>(pc = "done")

-----------------------------------------------------------------------------
(* The result.  An entry <<symbol, start, end, item>> says that the symbol *)
(* derives the words between two borders with an item.                     *)

\* The words read as terminals.
LeafEntries ==
    UNION {{<<X, i - 1, i, LeafItem(X)>> : X \in words[i] \ {Endmark}} : i \in DOMAIN words}

\* The ways to find the right part of a rule among the entries of a chart, each
\* beginning where the one before it ends.
Rows(chart, rule) ==
    {row \in [1..Len(rule.right) -> chart] :
        /\ \A i \in 1..Len(rule.right) : row[i][1] = rule.right[i]
        /\ \A i \in 1..(Len(rule.right) - 1) : row[i][3] = row[i + 1][2]}

RowItem(rule, row) == CreateNewItem(rule, [i \in DOMAIN row |-> row[i][4]])

RowEntry(rule, row) == <<rule.left, row[1][2], row[Len(rule.right)][3], RowItem(rule, row)>>

\* What one application of the rules adds to a chart.
Applied(chart) ==
    UNION {{RowEntry(table.rules[r], row) :
               row \in {w \in Rows(chart, table.rules[r]) : RowItem(table.rules[r], w) # NoItem}} :
              r \in DOMAIN table.rules}

\* What the words derive by derivations of bounded height, bottom up.
Chart[height \in Nat] ==
    IF height = 0 THEN LeafEntries ELSE Chart[height - 1] \cup Applied(Chart[height - 1])

Entry(s) ==
    <<SymbolNodes[s].symbol, SymbolNodes[s].start, SymbolNodes[s].end, SymbolNodes[s].item>>

\* Nothing is reported (ApplyGLR_Parsing, inputsequence.cpp:45) that the root
\* does not derive, over just these words and with just this item, also when
\* the parse was broken off at a limit.  A derivation is no higher than there
\* are symbol nodes, although the parses of packed nodes may close cycles.
OccurrencesAreSound ==
    pc = "done" =>
        \E height \in 0..Len(SymbolNodes) : \A s \in Occurrences :
            SymbolNodes[s].symbol = table.root /\ Entry(s) \in Chart[height]

\* Nothing is missed: what the root derives from a start point on is reported,
\* unless the parse was broken off at a limit, to whatever word it goes and
\* whatever the nodes it shares, packs or takes up again on the way (Reducer,
\* glr.cpp:808).
OccurrencesAreComplete ==
    (pc = "done" /\ ~TooMany(SymbolNodes, createdGroups)) =>
        \A e \in Chart[MaxHeight] :
            (e[1] = table.root /\ e[2] + 1 \in startPoints) => \E s \in Occurrences : Entry(s) = e
=============================================================================
