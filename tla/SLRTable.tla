------------------------------ MODULE SLRTable ------------------------------
(***************************************************************************)
(* The grammar compiler's last stage (afglrparserlib), from the rules of a *)
(* work grammar to the SLR table the GLR parser reads: what one turn of    *)
(* each of its loops does.  GrammarCompiler runs the loops as a state      *)
(* machine, TableBuilder as functions of the grammar.                      *)
(*                                                                         *)
(* A grammar G is a record: root (the only m_bGrammarRoot item), symbols   *)
(* (m_UniqueGrammarItems, a sequence of names) and rules (a sequence of    *)
(* [left, right]; the position is m_OriginalRuleNo).  Right parts are not  *)
(* empty.  A symbol is siMeta when it is the left part of some rule.       *)
(***************************************************************************)
EXTENDS AhoCorasick, Functions

NEW_ROOT == "$NewRoot"
END_OF_INPUT == "$"

\* No transition, in a cell of the table (the code's -1).
NoLine == 0

Metas(G) == {G.rules[r].left : r \in DOMAIN G.rules}
Terminals(G) == Range(G.symbols) \ Metas(G)

\* What the earlier stages hand over: the names differ, the two that the
\* compiler adds are not among them, and the root derives something.
IsGrammar(G) ==
    /\ G.symbols \in Seq(Range(G.symbols)) /\ G.rules \in Seq(Range(G.rules))
    /\ \A i, j \in DOMAIN G.symbols : G.symbols[i] = G.symbols[j] => i = j
    /\ {NEW_ROOT, END_OF_INPUT} \cap Range(G.symbols) = {}
    /\ \A r \in DOMAIN G.rules :
          /\ G.rules[r].left \in Range(G.symbols)
          /\ G.rules[r].right \in Seq(Range(G.symbols)) \ {<<>>}
    /\ G.root \in Metas(G)

\* AugmentGrammar: END_OF_INPUT and NEW_ROOT become the last two symbols, and
\* the rule NEW_ROOT -> root END_OF_INPUT the last rule.
AugmentGrammar(G) ==
    [root    |-> G.root,
     symbols |-> G.symbols \o <<END_OF_INPUT, NEW_ROOT>>,
     rules   |-> Append(G.rules, [left |-> NEW_ROOT, right |-> <<G.root, END_OF_INPUT>>])]

-----------------------------------------------------------------------------
(* FIRST, FOLLOW and the prefixes of the root: what a sweep over the rules *)
(* does at one of them.                                                    *)

\* The empty family of sets with which each of the computations starts.
NoSets(G) == [X \in Range(G.symbols) |-> {}]

\* What the symbol X contributes to the FIRST set of a rule it opens.
Opens(G, first, X) == IF X \in Metas(G) THEN first[X] ELSE {X}

\* Build_FIRST_Set.
FirstOfRule(G, first, rule) ==
    [first EXCEPT ![rule.left] = @ \cup Opens(G, first, rule.right[1])]

\* What may follow X in a rule because of its neighbour there.
Neighbours(G, first, rule, X) ==
    UNION {Opens(G, first, rule.right[i + 1]) :
              i \in {j \in 1..(Len(rule.right) - 1) : rule.right[j] = X}}

\* A faulty FollowOfRule: a last non-terminal does not inherit from the left part.
FollowOfRuleInnerOnly(G, first, follow, rule) ==
    [X \in DOMAIN follow |-> follow[X] \cup Neighbours(G, first, rule, X)]

\* Build_FOLLOW_Set: what may follow each symbol but the last is what opens its
\* neighbour, and what may follow a last symbol that is a non-terminal is what
\* may follow the left part.
FollowOfRule(G, first, follow, rule) ==
    LET inner == [X \in DOMAIN follow |-> follow[X] \cup Neighbours(G, first, rule, X)]
        last  == rule.right[Len(rule.right)]
    IN  IF last \in Metas(G) THEN [inner EXCEPT ![last] = @ \cup inner[rule.left]] ELSE inner

\* What BuildGLRTableForGrammar calls Build_FIRST_Set_k with.
PrefixLength == 1

\* Build_FIRST_Set_k.  A rule's prefixes are made from those of its first k
\* symbols: each prefix that is still short is extended by each addition, cut
\* at length k; a symbol with no prefix yet leaves the rule without any.
ExtendPrefix(k, prefix, addition) ==
    prefix \o SubSeq(addition, 1, IF Len(addition) < k - Len(prefix)
                                  THEN Len(addition) ELSE k - Len(prefix))

Additions(G, first_k, X) == IF X \in Metas(G) THEN first_k[X] ELSE {<<X>>}

\* A faulty RulePrefixes: a non-terminal stands for itself.
RulePrefixesUnexpanded(G, first_k, k, rule) ==
    {SubSeq(rule.right, 1, IF k < Len(rule.right) THEN k ELSE Len(rule.right))}

RulePrefixes(G, first_k, k, rule) ==
    LET n == IF k < Len(rule.right) THEN k ELSE Len(rule.right)
        made[i \in 0..n] ==
            IF i = 0 THEN {<<>>}
            ELSE {ExtendPrefix(k, p, a) : p \in made[i - 1],
                                          a \in Additions(G, first_k, rule.right[i])}
    IN  made[n]

PrefixesOfRule(G, first_k, k, rule) ==
    [first_k EXCEPT ![rule.left] = @ \cup RulePrefixes(G, first_k, k, rule)]

-----------------------------------------------------------------------------
(* The collection of LR(0) item sets.  An item is <<rule, dot>>, the dot   *)
(* standing after that many symbols of the right part.                     *)

\* A faulty IsFinished: true one symbol too early as well.
IsFinishedEarly(W, item) == item[2] + 1 >= Len(W.rules[item[1]].right)

IsFinished(W, item) == item[2] = Len(W.rules[item[1]].right)
GetSymbolNo(W, item) == W.rules[item[1]].right[item[2] + 1]

\* The symbols before which the dot of some item stands.
Ahead(W, itemSet) == {GetSymbolNo(W, it) : it \in {i \in itemSet : ~IsFinished(W, i)}}

AddToItemSet(W, X) == {<<r, 0>> : r \in {q \in DOMAIN W.rules : W.rules[q].left = X}}

\* A faulty CloseItemSet: the items that were added do not add any.
CloseItemSetOnce(W, itemSet) ==
    itemSet \cup UNION {AddToItemSet(W, X) :
                           X \in Ahead(W, {it \in itemSet : it[2] > 0 \/ W.rules[it[1]].left = NEW_ROOT})}

\* One pass of CloseItemSet, which ends when a pass adds nothing.
CloseItemSet(W, itemSet) == itemSet \cup UNION {AddToItemSet(W, X) : X \in Ahead(W, itemSet)}

\* The items of a set moved over X.
NextItemSet(W, itemSet, X) ==
    {<<it[1], it[2] + 1>> : it \in {i \in itemSet : /\ ~IsFinished(W, i)
                                                    /\ GetSymbolNo(W, i) = X}}

\* The number of a value in a sequence that holds it.
Position(seq, v) == CHOOSE i \in DOMAIN seq : seq[i] = v

\* A faulty StateOf: item sets are the same when their rules are.
StateOfRules(sets, next) ==
    LET Rules(set) == {it[1] : it \in set}
        old == {j \in DOMAIN sets : Rules(sets[j]) = Rules(next)}
    IN  IF old = {} THEN Len(sets) + 1 ELSE CHOOSE j \in old : TRUE

\* The number of an item set, which is the next number if it is new.
StateOf(sets, next) ==
    IF next \in Range(sets) THEN Position(sets, next) ELSE Len(sets) + 1

AddSet(sets, next) == IF StateOf(sets, next) > Len(sets) THEN Append(sets, next) ELSE sets

AddGoto(goto, i, X, state) ==
    [p \in DOMAIN goto \cup {<<i, X>>} |-> IF p = <<i, X>> THEN state ELSE goto[p]]

-----------------------------------------------------------------------------
(* The table                                                               *)

\* The cell of BuildGLRTable in line i and column X.
Cell(W, sets, goto, follow, i, X) ==
    LET line == IF <<i, X>> \in DOMAIN goto THEN goto[<<i, X>>] ELSE NoLine
    IN  [shift  |-> X \notin Metas(W) /\ line # NoLine,
         line   |-> line,
         reduce |-> {it[1] : it \in {t \in sets[i] :
                        /\ IsFinished(W, t)
                        /\ W.rules[t[1]].left # NEW_ROOT
                        /\ X \in follow[W.rules[t[1]].left]}}]

IsEmpty(cell) == ~cell.shift /\ cell.line = NoLine /\ cell.reduce = {}

RawTable(W, sets, goto, follow) ==
    [i \in DOMAIN sets |-> [c \in DOMAIN W.symbols |-> Cell(W, sets, goto, follow, i, W.symbols[c])]]

\* TSparseMatrix::Add: elements come in ascending order of (row, column); the
\* rows are counted from 0 as in the code, RowIndex[r + 1] is the number of
\* values before row r.
NoMatrix == [Values |-> <<>>, RowIndex |-> <<0>>, ColumnIndex |-> <<>>]

\* A faulty Add: the rows that are skipped begin at 0.
MatrixAddZeroRows(m, row, column, value) ==
    LET missing == (row + 2) - Len(m.RowIndex)
        rows    == m.RowIndex \o [i \in 1..missing |-> 0]
    IN  [Values      |-> Append(m.Values, value),
         RowIndex    |-> [rows EXCEPT ![Len(rows)] = Len(m.Values) + 1],
         ColumnIndex |-> Append(m.ColumnIndex, column)]

MatrixAdd(m, row, column, value) ==
    LET missing == (row + 2) - Len(m.RowIndex)
        rows    == m.RowIndex \o [i \in 1..missing |-> Last(m.RowIndex)]
    IN  [Values      |-> Append(m.Values, value),
         RowIndex    |-> [rows EXCEPT ![Len(rows)] = Len(m.Values) + 1],
         ColumnIndex |-> Append(m.ColumnIndex, column)]

\* TSparseMatrix::Get: the first column of the row that is not less.
MatrixGet(m, row, column) ==
    LET beg == m.RowIndex[row + 1]
        end == m.RowIndex[row + 2]
        hit == {i \in (beg + 1)..end : m.ColumnIndex[i] >= column}
    IN  m.Values[IF hit = {} THEN end + 1 ELSE CHOOSE i \in hit : \A j \in hit : i <= j]

NoCells == [Mask |-> {}, SimpleCells |-> NoMatrix, ComplexCells |-> <<>>]

\* CGLRTable::Compact, for one cell.  An empty cell is a zero of Mask.  A cell that is one
\* reduction and nothing else is its rule index shifted left; any other is the
\* index of an entry of ComplexCells shifted left, plus 1.
CompactCell(T, row, column, cell) ==
    IF IsEmpty(cell) THEN T
    ELSE LET simple == Cardinality(cell.reduce) = 1 /\ ~cell.shift /\ cell.line = NoLine
             code   == IF simple THEN 2 * (CHOOSE r \in cell.reduce : TRUE)
                       ELSE 2 * Len(T.ComplexCells) + 1
         IN  [Mask         |-> T.Mask \cup {<<row, column>>},
              SimpleCells  |-> MatrixAdd(T.SimpleCells, row, column, code),
              ComplexCells |-> IF simple THEN T.ComplexCells
                               ELSE Append(T.ComplexCells,
                                           [shiftGoto |-> 2 * cell.line + IF cell.shift THEN 1 ELSE 0,
                                            rules     |-> cell.reduce])]

\* What the parser reads: IsEmptyCell, IsSimpleCell, GetGotoLine (NoLine for
\* false), and the rules of a cell through GetSimpleCellRule or
\* IterComplexCellRules.  Rows are numbered from 1 here.
IsEmptyCell(T, row, column) == <<row - 1, column>> \notin T.Mask

GetEncodedCell(T, row, column) == MatrixGet(T.SimpleCells, row - 1, column)

IsSimpleCell(code) == code % 2 = 0

GetGotoLine(T, code) ==
    IF IsSimpleCell(code) THEN NoLine ELSE T.ComplexCells[(code \div 2) + 1].shiftGoto \div 2

CellRules(T, code) ==
    IF IsSimpleCell(code) THEN {code \div 2} ELSE T.ComplexCells[(code \div 2) + 1].rules

\* The transition and the rules in the cell of state i and symbol X.
CellGoto(T, symbols, i, X) ==
    LET c == Position(symbols, X)
    IN  IF IsEmptyCell(T, i, c) THEN NoLine ELSE GetGotoLine(T, GetEncodedCell(T, i, c))

CellReduce(T, symbols, i, X) ==
    LET c == Position(symbols, X)
    IN  IF IsEmptyCell(T, i, c) THEN {} ELSE CellRules(T, GetEncodedCell(T, i, c))

\* The table as the parser sees it, decoded from its compact form, with the item
\* sets, FIRST and FOLLOW (see ParserTable).
TableOf(W, sets, first, follow, T) ==
    LET cells == (DOMAIN sets) \X Range(W.symbols) IN
    [root    |-> W.root,
     states  |-> DOMAIN sets,
     items   |-> sets,
     symbols |-> W.symbols,
     rules   |-> [r \in 1..(Len(W.rules) - 1) |-> W.rules[r]],
     first   |-> first,
     follow  |-> follow,
     goto    |-> [p \in {q \in cells : CellGoto(T, W.symbols, q[1], q[2]) # NoLine} |->
                     CellGoto(T, W.symbols, p[1], p[2])],
     reduce  |-> [p \in cells |-> CellReduce(T, W.symbols, p[1], p[2])]]
=============================================================================
