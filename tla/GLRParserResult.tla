--------------------------- MODULE GLRParserResult ---------------------------
(***************************************************************************)
(* Proofs that the parser reports what the root derives, and all of it,    *)
(* for every table, sentence and agreement.                                *)
(*                                                                         *)
(* Soundness rests on the first parse of a symbol node being made of older *)
(* ones.  Completeness rests on the work that is never forgotten: a state  *)
(* node whose Actor has run has each of its reductions pending, in hand or *)
(* carried out over every path, and each of its shifts pending or made.    *)
(* When a closure set is left nothing is pending; so whatever the rules    *)
(* derive on top of a state node that can use it is in the stack, by       *)
(* induction on the height of the derivation and, along the right part of  *)
(* a rule, from left to right.                                             *)
(***************************************************************************)
EXTENDS GLRParserProofs

-----------------------------------------------------------------------------
(* What is known of the work done                                          *)

\* The readings of the word behind a border, and the rules by which a state node
\* reduced before it.
SymbolsAt(b) == IF b + 1 <= Len(words) THEN words[b + 1] ELSE {Endmark}

ReductionsOf(v) == UNION {table.reduce[<<StateNodes[v].state, X>>] : X \in SymbolsAt(Border(v))}

\* Some symbol node with entry e leads down to state node v.
HasEdge(v, e) ==
    \E u \in StateNodeNos : \E t \in StateNodes[u].children :
        v \in SymbolNodes[t].down /\ Entry(t) = e

\* The item and the entry that a rule gives over a path, and that the path was
\* reduced, or rejected.
ItemOver(r, path) ==
    CreateNewItem(table.rules[r],
                  [i \in DOMAIN path.symbols |-> SymbolNodes[RightPart(path)[i]].item])

EntryOver(r, path) ==
    <<table.rules[r].left, PathStart(path), PathEnd(path), ItemOver(r, path)>>

PathDone(r, path) == ItemOver(r, path) = NoItem \/ HasEdge(path.bottom, EntryOver(r, path))

Red(r, s, v) == [rule |-> r, symbol |-> s, last |-> v]

InHand(red, path) == pc = "paths" /\ reduction = red /\ path \in todo

Treated(red) ==
    \/ red \in PendingReductions
    \/ \A path \in Paths(red) : PathDone(red.rule, path) \/ InHand(red, path)

\* Actor has run for the state node.
Begun(v) == IF pc \in {"loop", "paths"} THEN v \notin ActiveNodes ELSE v < CurrentFirst

ReduceInv ==
    \A v \in StateNodeNos : Begun(v) =>
        \A r \in ReductionsOf(v) : \A s \in StateNodes[v].children : Treated(Red(r, s, v))

\* The parser was at state node v before the word behind border b, and Actor has
\* run for it there.
Stands(v, b) == Border(v) = b \/ (v = 1 /\ b + 1 \in startPoints)

Passed(v, b) ==
    /\ Stands(v, b)
    /\ b = wordNo - 1 => pc # "word" /\ v \notin ActiveNodes

ShiftOf(v, X) == [from |-> v, to |-> Goto(StateNodes[v].state, X), symbol |-> X]

Shifted(v, b, X) ==
    \/ HasEdge(v, <<X, b, b + 1, LeafItem(X)>>)
    \/ b = wordNo - 1 /\ ShiftOf(v, X) \in PendingShifts

ShiftedInv ==
    \A v \in StateNodeNos : \A b \in 0..(wordNo - 1) : Passed(v, b) =>
        \A X \in SymbolsAt(b) : HasGoto(StateNodes[v].state, X) => Shifted(v, b, X)

\* The parse was not broken off.
Unbroken == pc \in {"found", "done"} => ~TooMany(SymbolNodes, createdGroups)

\* Items are given where the agreement holds; the input is as assumed; the parse
\* ends behind the last word, and the root's nodes are the result.
ItemInv == \A s \in SymbolNodeNos : SymbolNodes[s].parses # <<>> => SymbolNodes[s].item # NoItem

WordsInv ==
    /\ IsComplete(table)
    /\ \A i \in DOMAIN words : Endmark \in words[i]

EndInv ==
    /\ pc \in {"found", "done"} /\ Unbroken =>
          /\ startPoints # {} => wordNo = Len(words) + 1 /\ Len(InputLevels) = wordNo + 1
          /\ PendingReductions = {} /\ PendingShifts = {}
    /\ pc = "done" => Occurrences = {s \in SymbolNodeNos : SymbolNodes[s].symbol = table.root}

WorkInv == startPoints # {} /\ Unbroken => ReduceInv /\ ShiftedInv

-----------------------------------------------------------------------------
(* Proofs: charts                                                          *)

LEMMA NatUp ==
    ASSUME NEW S, 0 \in S, \A n \in Nat : n \in S => n + 1 \in S
    PROVE  \A n \in Nat : n \in S
<1> DEFINE T == {n \in Nat : n \notin S}
<1> SUFFICES ASSUME T # {} PROVE FALSE  OBVIOUS
<1>1. PICK m \in T : \A k \in T : m <= k
  <2>1. T \in SUBSET Nat  OBVIOUS
  <2> HIDE DEF T
  <2> QED BY <2>1, LeastNatural
<1>2. m \in Nat /\ m # 0 /\ m \notin S  BY <1>1
<1>3. m - 1 \in Nat /\ m - 1 \notin T  BY <1>1, <1>2
<1>4. (m - 1) + 1 = m  BY <1>2
<1> QED BY <1>2, <1>3, <1>4

\* The charts up to height n, as far as the equation of Chart goes.
IsCharts(g, n) ==
    /\ g[0] = LeafEntries
    /\ \A k \in 1..n : g[k] = g[k - 1] \cup Applied(g[k - 1])

LEMMA ChartsExist ==
    ASSUME NEW n \in Nat
    PROVE  \E g : IsCharts(g, n)
<1> DEFINE S == {m \in Nat : \E g : IsCharts(g, m)}
<1>1. 0 \in S
  <2> DEFINE g == [k \in Nat |-> LeafEntries]
  <2>1. IsCharts(g, 0)  BY DEF IsCharts
  <2> QED BY <2>1
<1>2. ASSUME NEW m \in Nat, m \in S PROVE m + 1 \in S
  <2>1. PICK g : IsCharts(g, m)  BY <1>2
  <2> DEFINE f == [k \in Nat |-> IF k = m + 1 THEN g[m] \cup Applied(g[m]) ELSE g[k]]
  <2>2. f[0] = LeafEntries  BY <2>1 DEF IsCharts
  <2>3. ASSUME NEW k \in 1..(m + 1) PROVE f[k] = f[k - 1] \cup Applied(f[k - 1])
    <3>1. CASE k = m + 1
      <4>1. f[k] = g[m] \cup Applied(g[m]) /\ f[k - 1] = g[m]  BY <3>1
      <4> QED BY <4>1
    <3>2. CASE k # m + 1
      <4>1. k \in 1..m /\ f[k] = g[k] /\ f[k - 1] = g[k - 1]  BY <3>2
      <4>2. g[k] = g[k - 1] \cup Applied(g[k - 1])  BY <2>1, <4>1 DEF IsCharts
      <4> QED BY <4>1, <4>2
    <3> QED BY <3>1, <3>2
  <2>4. IsCharts(f, m + 1)
    <3> HIDE DEF f
    <3> QED BY <2>2, <2>3 DEF IsCharts
  <2> QED BY <2>4
<1> HIDE DEF S
<1>3. n \in S  BY <1>1, <1>2, NatUp
<1> QED BY <1>3 DEF S

LEMMA ChartsUnique ==
    ASSUME NEW m \in Nat, NEW n \in Nat, m <= n,
           NEW f, IsCharts(f, m), NEW g, IsCharts(g, n)
    PROVE  f[m] = g[m]
<1> DEFINE S == {k \in Nat : k <= m => f[k] = g[k]}
<1>1. 0 \in S  BY DEF IsCharts
<1>2. ASSUME NEW k \in Nat, k \in S PROVE k + 1 \in S
  <2> SUFFICES ASSUME k + 1 <= m PROVE f[k + 1] = g[k + 1]  OBVIOUS
  <2>1. f[k] = g[k]  BY <1>2
  <2>2. k + 1 \in 1..m /\ k + 1 \in 1..n /\ (k + 1) - 1 = k  OBVIOUS
  <2>3. f[k + 1] = f[k] \cup Applied(f[k])  BY <2>2 DEF IsCharts
  <2>4. g[k + 1] = g[k] \cup Applied(g[k])  BY <2>2 DEF IsCharts
  <2> QED BY <2>1, <2>3, <2>4
<1> HIDE DEF S
<1>3. m \in S  BY <1>1, <1>2, NatUp
<1> QED BY <1>3 DEF S

\* The recursive definition of Chart means what it says.
LEMMA ChartDef ==
    /\ Chart[0] = LeafEntries
    /\ \A h \in Nat : Chart[h + 1] = Chart[h] \cup Applied(Chart[h])
<1> DEFINE g(n) == CHOOSE f : IsCharts(f, n)
           F == [n \in Nat |-> g(n)[n]]
           G(C) == [height \in Nat |->
                      IF height = 0 THEN LeafEntries ELSE C[height - 1] \cup Applied(C[height - 1])]
<1>1. \A n \in Nat : IsCharts(g(n), n)  BY ChartsExist
<1>2. F[0] = LeafEntries  BY <1>1 DEF IsCharts
<1>3. ASSUME NEW n \in Nat, n # 0 PROVE F[n] = F[n - 1] \cup Applied(F[n - 1])
  <2>1. n - 1 \in Nat /\ n \in 1..n /\ n - 1 <= n  BY <1>3
  <2>2. IsCharts(g(n), n) /\ IsCharts(g(n - 1), n - 1)  BY <1>1, <2>1
  <2>3. PICK a, b : a = g(n) /\ b = g(n - 1)  OBVIOUS
  <2>4. a[n] = a[n - 1] \cup Applied(a[n - 1])  BY <2>1, <2>2, <2>3 DEF IsCharts
  <2>5. b[n - 1] = a[n - 1]
    <3>1. PICK m : m = n - 1  OBVIOUS
    <3>2. m \in Nat /\ m <= n /\ IsCharts(b, m) /\ IsCharts(a, n)
      BY ONLY <2>1, <2>2, <2>3, <3>1
    <3>3. b[m] = a[m]  BY ONLY <3>2, <1>3, ChartsUnique
    <3> QED BY <3>1, <3>3
  <2>6. F[n] = a[n] /\ F[n - 1] = b[n - 1]  BY <2>1, <2>3
  <2> QED BY <2>4, <2>5, <2>6
<1>4. F = G(F)
  <2> HIDE DEF g
  <2>1. \A n \in Nat : F[n] = IF n = 0 THEN LeafEntries ELSE F[n - 1] \cup Applied(F[n - 1])
    <3> HIDE DEF F
    <3> QED BY <1>2, <1>3
  <2> QED BY <2>1
<1>5. Chart = G(Chart)
  <2>1. \E C : C = G(C)
    <3> HIDE DEF F, G
    <3> QED BY <1>4
  <2>2. Chart = CHOOSE C : C = G(C)  BY DEF Chart
  <2> HIDE DEF G
  <2> QED BY <2>1, <2>2
<1>6. \A n \in Nat : Chart[n] = IF n = 0 THEN LeafEntries
                                ELSE Chart[n - 1] \cup Applied(Chart[n - 1])
  <2>1. PICK C : C = Chart  OBVIOUS
  <2>2. C = G(C)  BY <1>5, <2>1
  <2>3. \A n \in Nat : C[n] = IF n = 0 THEN LeafEntries ELSE C[n - 1] \cup Applied(C[n - 1])
    BY <2>2
  <2> QED BY <2>1, <2>3
<1>7. ASSUME NEW h \in Nat PROVE Chart[h + 1] = Chart[h] \cup Applied(Chart[h])
  <2>1. h + 1 \in Nat /\ h + 1 # 0 /\ (h + 1) - 1 = h  OBVIOUS
  <2> QED BY <1>6, <2>1
<1> QED BY <1>6, <1>7

LEMMA ChartGrows ==
    ASSUME NEW h \in Nat, NEW k \in Nat, h <= k
    PROVE  Chart[h] \subseteq Chart[k]
<1> DEFINE S == {n \in Nat : n >= h => Chart[h] \subseteq Chart[n]}
<1>1. 0 \in S  OBVIOUS
<1>2. ASSUME NEW n \in Nat, n \in S PROVE n + 1 \in S
  <2>1. CASE n + 1 = h  BY <2>1
  <2>2. CASE n + 1 < h  BY <2>2
  <2>3. CASE n >= h
    <3>1. Chart[h] \subseteq Chart[n]  BY <1>2, <2>3
    <3>2. Chart[n + 1] = Chart[n] \cup Applied(Chart[n])  BY ChartDef
    <3> QED BY <3>1, <3>2
  <2> QED BY <2>1, <2>2, <2>3
<1> HIDE DEF S
<1>3. k \in S  BY <1>1, <1>2, NatUp
<1> QED BY <1>3 DEF S

\* What follows from entries of a chart by a rule is in the next chart.
LEMMA ChartStep ==
    ASSUME NEW h \in Nat, NEW r \in DOMAIN table.rules,
           NEW row \in Rows(Chart[h], table.rules[r]), RowItem(table.rules[r], row) # NoItem
    PROVE  RowEntry(table.rules[r], row) \in Chart[h + 1]
<1>1. RowEntry(table.rules[r], row) \in Applied(Chart[h])  BY DEF Applied
<1> QED BY <1>1, ChartDef

\* The words read as terminals are in every chart.
LEMMA ChartLeaf ==
    ASSUME NEW h \in Nat, NEW i \in DOMAIN words, NEW X \in words[i] \ {Endmark}
    PROVE  <<X, i - 1, i, LeafItem(X)>> \in Chart[h]
<1>1. <<X, i - 1, i, LeafItem(X)>> \in LeafEntries  BY DEF LeafEntries
<1>2. Chart[0] \subseteq Chart[h]  BY ChartGrows
<1> QED BY <1>1, <1>2, ChartDef

-----------------------------------------------------------------------------
(* Proofs: soundness                                                       *)

LEMMA SymbolNodeFacts ==
    ASSUME IInv, NEW s \in SymbolNodeNos
    PROVE  /\ SymbolNodes[s].start \in Nat /\ SymbolNodes[s].end \in 1..Len(words)
           /\ SymbolNodes[s].symbol # Endmark
           /\ SymbolNodes[s].parses \in Seq(Parse)
           /\ Len(words) \in Nat /\ DOMAIN words = 1..Len(words)
<1>1. IsSymbolNode(SymbolNodes[s])  BY DEF IInv, ShapeInv
<1>2. /\ SymbolNodes[s].start \in Nat /\ SymbolNodes[s].end \in Nat
      /\ SymbolNodes[s].down # {} /\ SymbolNodes[s].parses \in Seq(Parse)
  BY <1>1 DEF IsSymbolNode
<1>3. SymbolNodes[s].start < SymbolNodes[s].end /\ SymbolNodes[s].end <= Len(words)
  BY DEF IInv, StackInv
<1>4. Len(words) \in Nat /\ DOMAIN words = 1..Len(words)
  <2>1. words \in Seq(SUBSET Readings(table))  BY DEF IInv, InputInv
  <2> QED BY <2>1
<1>5. SymbolNodes[s].symbol # Endmark
  <2>1. PICK d \in SymbolNodes[s].down : TRUE  BY <1>2
  <2>2. PICK v \in StateNodeNos : s \in StateNodes[v].children  BY DEF IInv, StackInv
  <2>3. HasGoto(StateNodes[d].state, SymbolNodes[s].symbol)  BY <2>1, <2>2 DEF IInv, LinkInv
  <2> QED BY <2>3 DEF HasGoto, IInv, InputInv, IsTable
<1> QED BY <1>2, <1>3, <1>4, <1>5

\* The children of a parse make a row of a chart that holds them, which gives the
\* node.
LEMMA ParseRow ==
    ASSUME IInv, NEW s \in SymbolNodeNos, NEW p \in Parse, Derives(SymbolNodes[s], p),
           NEW C, \A k \in DOMAIN p.items : Entry(p.items[k]) \in C,
           NEW rule, rule = table.rules[p.rule]
    PROVE  \E row \in Rows(C, rule) :
              RowEntry(rule, row) = Entry(s) /\ RowItem(rule, row) = SymbolNodes[s].item
<1>1. PICK items, n : items = p.items /\ n = Len(items)  OBVIOUS
<1>2. /\ items \in Seq(SymbolNodeNos) /\ n = Len(rule.right) /\ n \in Nat \ {0}
      /\ DOMAIN items = 1..n
  <2>1. items \in Seq(SymbolNodeNos) /\ n = Len(rule.right)  BY <1>1 DEF Derives
  <2>2. p.rule \in DOMAIN table.rules  BY DEF Parse
  <2>3. RuleLength(p.rule) \in Nat \ {0}  BY <2>2, RuleFacts DEF IInv
  <2>4. n \in Nat \ {0}  BY <2>1, <2>3 DEF RuleLength
  <2>5. DOMAIN items = 1..n
    <3>1. DOMAIN items = 1..Len(items)  BY ONLY <2>1
    <3> QED BY <1>1, <3>1
  <2> QED BY <2>1, <2>4, <2>5
<1> DEFINE row == [k \in 1..n |-> Entry(items[k])]
<1>3. row \in [1..n -> C]  BY <1>1, <1>2
<1>4. \A k \in 1..n : /\ row[k][1] = SymbolNodes[items[k]].symbol
                      /\ row[k][2] = SymbolNodes[items[k]].start
                      /\ row[k][3] = SymbolNodes[items[k]].end
                      /\ row[k][4] = SymbolNodes[items[k]].item
  BY <1>2 DEF Entry
<1>5. /\ \A k \in 1..n : SymbolNodes[items[k]].symbol = rule.right[k]
      /\ \A k \in 1..(n - 1) : SymbolNodes[items[k]].end = SymbolNodes[items[k + 1]].start
      /\ SymbolNodes[items[1]].start = SymbolNodes[s].start
      /\ SymbolNodes[items[n]].end = SymbolNodes[s].end
      /\ rule.left = SymbolNodes[s].symbol
      /\ SymbolNodes[s].item = CreateNewItem(rule, [k \in DOMAIN items |-> SymbolNodes[items[k]].item])
  BY <1>1, <1>2 DEF Derives, Back
<1>6. [k \in DOMAIN items |-> SymbolNodes[items[k]].item] = [i \in DOMAIN row |-> row[i][4]]
  <2>1. DOMAIN row = DOMAIN items  BY <1>2
  <2> HIDE DEF row
  <2> QED BY <1>2, <1>4, <2>1
<1>7. 1 \in 1..n /\ n \in 1..n  BY <1>2
<1> HIDE DEF row
<1>8. row \in Rows(C, rule)
  <2>1. \A k \in 1..n : row[k][1] = rule.right[k]  BY <1>4, <1>5
  <2>2. \A k \in 1..(n - 1) : row[k][3] = row[k + 1][2]
    <3> TAKE k \in 1..(n - 1)
    <3>1. k \in 1..n /\ k + 1 \in 1..n  BY <1>2
    <3> QED BY <1>4, <1>5, <3>1
  <2> QED BY <1>2, <1>3, <2>1, <2>2 DEF Rows
<1>9. RowItem(rule, row) = SymbolNodes[s].item  BY <1>5, <1>6 DEF RowItem
<1>10. RowEntry(rule, row) = Entry(s)
  <2>1. row[1][2] = SymbolNodes[s].start /\ row[n][3] = SymbolNodes[s].end
    BY <1>4, <1>5, <1>7
  <2> QED BY <1>2, <1>5, <1>9, <2>1 DEF RowEntry, Entry
<1> QED BY <1>8, <1>9, <1>10

\* A symbol node is derived, by a derivation no higher than its number.
LEMMA NodesAreDerived ==
    ASSUME IInv, ItemInv
    PROVE  \A s \in SymbolNodeNos : Entry(s) \in Chart[s]
<1> DEFINE Bad == {s \in SymbolNodeNos : Entry(s) \notin Chart[s]}
<1> SUFFICES ASSUME Bad # {} PROVE FALSE  OBVIOUS
<1>1. PICK s \in Bad : \A t \in Bad : s <= t
  <2>1. Bad \in SUBSET Nat  BY DEF SymbolNodeNos
  <2> HIDE DEF Bad
  <2> QED BY <2>1, LeastNatural
<1>2. /\ s \in SymbolNodeNos /\ Entry(s) \notin Chart[s] /\ s \in Nat \ {0}
      /\ \A t \in SymbolNodeNos : t < s => Entry(t) \in Chart[t]
  <2>1. Len(SymbolNodes) \in Nat  BY NodeFacts DEF IInv
  <2> QED BY <1>1, <2>1 DEF SymbolNodeNos
<1>3. CASE SymbolNodes[s].parses = <<>>
  <2>1. IsLeaf(SymbolNodes[s])  BY <1>2, <1>3 DEF IInv, ParseInv
  <2>2. PICK X, i : X = SymbolNodes[s].symbol /\ i = SymbolNodes[s].end  OBVIOUS
  <2>3. /\ i \in DOMAIN words /\ X \in words[i] \ {Endmark}
        /\ SymbolNodes[s].start = i - 1 /\ SymbolNodes[s].item = LeafItem(X)
    BY <1>2, <2>1, <2>2, SymbolNodeFacts DEF IsLeaf
  <2>4. Entry(s) = <<X, i - 1, i, LeafItem(X)>>  BY <2>2, <2>3 DEF Entry
  <2> QED BY <1>2, <2>3, <2>4, ChartLeaf
<1>4. CASE SymbolNodes[s].parses # <<>>
  <2>1. SymbolNodes[s].parses \in Seq(Parse)  BY <1>2, SymbolNodeFacts
  <2>2. 1 \in DOMAIN SymbolNodes[s].parses  BY <1>4, <2>1
  <2>3. PICK p : p = SymbolNodes[s].parses[1]  OBVIOUS
  <2>4. p \in Parse /\ Derives(SymbolNodes[s], p) /\ \A k \in DOMAIN p.items : p.items[k] < s
    BY <1>2, <2>1, <2>2, <2>3 DEF IInv, ParseInv
  <2>5. PICK h : h = s - 1  OBVIOUS
  <2>6. h \in Nat /\ h + 1 = s  BY <1>2, <2>5
  <2>7. ASSUME NEW k \in DOMAIN p.items PROVE Entry(p.items[k]) \in Chart[h]
    <3>1. PICK t : t = p.items[k]  OBVIOUS
    <3>2. t \in SymbolNodeNos
      <4>1. p.items \in Seq(SymbolNodeNos)  BY <2>4 DEF Derives
      <4> QED BY <2>7, <3>1, <4>1
    <3>3. t < s /\ t \in Nat /\ t <= h  BY <1>2, <2>4, <2>5, <3>1, <3>2 DEF SymbolNodeNos
    <3>4. Entry(t) \in Chart[t]  BY <1>2, <3>2, <3>3
    <3>5. Chart[t] \subseteq Chart[h]  BY <2>6, <3>3, ChartGrows
    <3> QED BY <3>1, <3>4, <3>5
  <2>8. PICK r, rule : r = p.rule /\ rule = table.rules[r]  OBVIOUS
  <2>9. r \in DOMAIN table.rules  BY <2>4, <2>8 DEF Parse
  <2>10. PICK row \in Rows(Chart[h], rule) :
            RowEntry(rule, row) = Entry(s) /\ RowItem(rule, row) = SymbolNodes[s].item
    <3>1. PICK C : C = Chart[h]  OBVIOUS
    <3>2. \A k \in DOMAIN p.items : Entry(p.items[k]) \in C  BY <2>7, <3>1
    <3>3. \E row \in Rows(C, rule) :
            RowEntry(rule, row) = Entry(s) /\ RowItem(rule, row) = SymbolNodes[s].item
      BY <1>2, <2>4, <2>8, <3>2, ParseRow
    <3> QED BY <3>1, <3>3
  <2>11. RowItem(rule, row) # NoItem  BY <1>2, <1>4, <2>10 DEF ItemInv
  <2>12. RowEntry(rule, row) \in Chart[h + 1]  BY <2>6, <2>8, <2>9, <2>10, <2>11, ChartStep
  <2> QED BY <1>2, <2>6, <2>10, <2>12
<1> QED BY <1>3, <1>4

-----------------------------------------------------------------------------
(* Proofs: what stays as the stack grows                                   *)

\* A symbol node ends at the border of the state node above it.
LEMMA OwnerBorder ==
    ASSUME IInv, NEW v \in StateNodeNos, NEW s \in StateNodes[v].children
    PROVE  /\ s \in SymbolNodeNos /\ SymbolNodes[s].end = Border(v)
           /\ v # 1 /\ SymbolNodes[s].down \subseteq StateNodeNos
           /\ SymbolNodes[s].start \in Nat /\ SymbolNodes[s].start < SymbolNodes[s].end
<1>1. s \in SymbolNodeNos  BY DEF IInv, ShapeInv
<1>2. PICK u \in StateNodeNos : s \in StateNodes[u].children /\ Border(u) = SymbolNodes[s].end
  BY <1>1 DEF IInv, StackInv
<1>3. u = v  BY <1>2 DEF IInv, StackInv
<1>4. v # 1
  <2>1. StateNodes[1].children = {}  BY DEF IInv, ShapeInv
  <2> QED BY <2>1
<1>5. SymbolNodes[s].down \subseteq StateNodeNos /\ SymbolNodes[s].start \in Nat
  BY <1>1 DEF IInv, ShapeInv, IsSymbolNode
<1> QED BY <1>1, <1>2, <1>3, <1>4, <1>5 DEF IInv, StackInv

LEMMA EdgeKept ==
    ASSUME IInv, Grown, NEW v, NEW e, HasEdge(v, e)
    PROVE  HasEdge(v, e)'
<1>0. PICK u \in StateNodeNos :
          \E t \in StateNodes[u].children : v \in SymbolNodes[t].down /\ Entry(t) = e
  BY DEF HasEdge
<1>1. PICK t \in StateNodes[u].children : v \in SymbolNodes[t].down /\ Entry(t) = e
  BY <1>0
<1>2. t \in SymbolNodeNos  BY <1>1, OwnerBorder
<1>3. u \in StateNodeNos' /\ t \in StateNodes'[u].children /\ v \in SymbolNodes'[t].down
  BY <1>1, <1>2 DEF Grown
<1>4. Entry(t)' = Entry(t)  BY <1>2 DEF Grown, Entry
<1> QED BY <1>1, <1>3, <1>4 DEF HasEdge

\* The symbol nodes of a path.
LEMMA PathShape ==
    ASSUME IInv, NEW red, red.rule \in DOMAIN table.rules, NEW path \in Paths(red),
           NEW n, n = RuleLength(red.rule), NEW q, q = path.symbols
    PROVE  /\ n \in Nat \ {0} /\ q \in [1..n -> SymbolNodeNos] /\ Len(q) = n /\ DOMAIN q = 1..n
           /\ q[1] = red.symbol
           /\ \A i \in 1..(n - 1) : Below(q[i], q[i + 1])
           /\ path.bottom \in SymbolNodes[q[n]].down
           /\ RightPart(path) = [i \in 1..n |-> q[n + 1 - i]]
<1>1. n \in Nat \ {0}  BY RuleFacts DEF IInv
<1>2. PICK p, w : /\ path = [symbols |-> p, bottom |-> w]
                  /\ IsChain(p, n, red) /\ w \in SymbolNodes[p[n]].down
  BY PathsElement
<1>3. p = q /\ w = path.bottom  BY <1>2
<1>4. q \in [1..n -> SymbolNodeNos] /\ q[1] = red.symbol
      /\ \A i \in 1..(n - 1) : Below(q[i], q[i + 1])
  BY <1>2, <1>3 DEF IsChain
<1>5. Len(q) = n /\ DOMAIN q = 1..n  BY <1>1, <1>4, SeqFromFunction
<1>6. RightPart(path) = [i \in 1..n |-> q[n + 1 - i]]  BY <1>5 DEF RightPart
<1> QED BY <1>1, <1>2, <1>3, <1>4, <1>5, <1>6

LEMMA EntryKept ==
    ASSUME IInv, Grown, NEW red, NEW r, r = red.rule, r \in DOMAIN table.rules,
           NEW path \in Paths(red)
    PROVE  ItemOver(r, path)' = ItemOver(r, path) /\ EntryOver(r, path)' = EntryOver(r, path)
<1>1. PICK n, q, p : n = RuleLength(r) /\ q = path.symbols /\ p = RightPart(path)  OBVIOUS
<1>2. /\ n \in Nat \ {0} /\ q \in [1..n -> SymbolNodeNos] /\ DOMAIN q = 1..n
      /\ p = [i \in 1..n |-> q[n + 1 - i]]
  BY <1>1, PathShape
<1>3. RightPart(path)' = p  BY <1>1 DEF RightPart
<1>4. /\ \A i \in 1..n : n + 1 - i \in 1..n
      /\ \A i \in 1..n : p[i] \in SymbolNodeNos /\ q[i] \in SymbolNodeNos
      /\ 1 \in 1..n
  BY <1>2
<1>5. \A s \in SymbolNodeNos :
          /\ SymbolNodes'[s].item = SymbolNodes[s].item
          /\ SymbolNodes'[s].start = SymbolNodes[s].start
          /\ SymbolNodes'[s].end = SymbolNodes[s].end
  BY DEF Grown
<1>6. [i \in 1..n |-> SymbolNodes'[p[i]].item] = [i \in 1..n |-> SymbolNodes[p[i]].item]
  BY <1>4, <1>5
<1>7. table' = table  BY DEF Grown
<1>8. ItemOver(r, path) = CreateNewItem(table.rules[r], [i \in 1..n |-> SymbolNodes[p[i]].item])
  BY <1>1, <1>2 DEF ItemOver
<1>9. ItemOver(r, path)' = CreateNewItem(table.rules[r], [i \in 1..n |-> SymbolNodes'[p[i]].item])
  BY <1>1, <1>2, <1>3, <1>7 DEF ItemOver
<1>10. ItemOver(r, path)' = ItemOver(r, path)  BY <1>6, <1>8, <1>9
<1>11. PathStart(path)' = PathStart(path)  BY <1>1, <1>3, <1>4, <1>5 DEF PathStart
<1>12. PathEnd(path)' = PathEnd(path)  BY <1>1, <1>4, <1>5 DEF PathEnd
<1> QED BY <1>7, <1>10, <1>11, <1>12 DEF EntryOver

LEMMA DoneKept ==
    ASSUME IInv, Grown, NEW red, NEW r, r = red.rule, r \in DOMAIN table.rules,
           NEW path \in Paths(red), PathDone(r, path)
    PROVE  PathDone(r, path)'
<1>1. ItemOver(r, path)' = ItemOver(r, path) /\ EntryOver(r, path)' = EntryOver(r, path)
  BY EntryKept
<1>2. CASE ItemOver(r, path) = NoItem  BY <1>1, <1>2 DEF PathDone
<1>3. CASE HasEdge(path.bottom, EntryOver(r, path))
  <2>1. PICK v, e : v = path.bottom /\ e = EntryOver(r, path)  OBVIOUS
  <2>2. HasEdge(v, e)  BY <1>3, <2>1
  <2>3. HasEdge(v, e)'  BY <2>2, EdgeKept
  <2>4. HasEdge(path.bottom, EntryOver(r, path))'  BY <1>1, <2>1, <2>3 DEF HasEdge
  <2> QED BY <2>4 DEF PathDone
<1> QED BY <1>2, <1>3 DEF PathDone

\* No path is added to a reduction that was there, unless it is from a node that
\* Shifter works at.
LEMMA PathsKept ==
    ASSUME IInv, Grown, Frozen, UNCHANGED InputLevels,
           NEW v \in StateNodeNos, NEW s \in StateNodes[v].children,
           pc = "shift" => v < CurrentFirst,
           NEW red, red.symbol = s, red.rule \in DOMAIN table.rules
    PROVE  Paths(red)' \subseteq Paths(red)
<1>1. PICK n, E, L, top : /\ n = RuleLength(red.rule) /\ E = Border(v)
                          /\ L = Len(InputLevels) /\ top = Back(InputLevels)
  OBVIOUS
<1>2. n \in Nat \ {0} /\ n \in 1..n
  <2>1. n \in Nat \ {0}  BY <1>1, RuleFacts DEF IInv
  <2> QED BY <2>1
<1>3. RuleLength(red.rule)' = n  BY <1>1 DEF RuleLength, Grown
<1>4. /\ L \in Nat \ {0} /\ top \in Nat \ {0} /\ E \in Nat /\ E <= L - 1
      /\ pc = "shift" => E < wordNo
      /\ wordNo \in Nat
      /\ \A w \in StateNodeNos : w \notin 1..top => Border(w) = L - 1
  <2>1. LevelInv /\ InputInv  BY DEF IInv
  <2>2. InputLevels \in Seq(Nat) /\ Len(InputLevels) >= 1 /\ InputLevels[1] >= 1
        /\ (\A i, j \in DOMAIN InputLevels : i <= j => InputLevels[i] <= InputLevels[j])
    BY <2>1 DEF LevelInv
  <2>3. L \in Nat \ {0} /\ DOMAIN InputLevels = 1..L /\ top = InputLevels[L]
        /\ (\A i \in 1..L : InputLevels[i] \in Nat)
    BY <1>1, <2>2 DEF Back
  <2>4. top >= 1 /\ top \in Nat  BY <2>2, <2>3
  <2>5. StateNodeNos \subseteq Nat \ {0}  BY DEF StateNodeNos
  <2>6. \A w \in StateNodeNos : /\ Border(w) \in Nat /\ Border(w) <= L - 1
                                /\ Border(w) = L - 1 <=> w >= CurrentFirst
    BY <1>1, <2>1, <2>5, BorderFacts
  <2>7. CurrentFirst \in Nat \ {0} /\ CurrentFirst <= top + 1
    <3>1. CASE L = 1  BY <1>1, <2>4, <3>1 DEF CurrentFirst
    <3>2. CASE L > 1
      <4>1. L - 1 \in 1..L /\ L \in 1..L  BY <2>3, <3>2
      <4>2. InputLevels[L - 1] <= InputLevels[L]  BY <2>2, <2>3, <4>1
      <4> QED BY <1>1, <2>3, <3>2, <4>1, <4>2 DEF CurrentFirst
    <3> QED BY <2>3, <3>1, <3>2
  <2>8. wordNo \in Nat  BY <2>1, SymbolsFacts
  <2>9. pc = "shift" => L = wordNo + 1  BY <1>1, <2>1 DEF LevelInv
  <2>10. pc = "shift" => E < wordNo
    <3> SUFFICES ASSUME pc = "shift" PROVE E < wordNo  OBVIOUS
    <3>1. v < CurrentFirst /\ v \in Nat  BY <2>5
    <3>2. E # L - 1 /\ E \in Nat /\ E <= L - 1  BY <1>1, <2>6, <2>7, <3>1
    <3> QED BY <2>3, <2>8, <2>9, <3>2
  <2>11. ASSUME NEW w \in StateNodeNos, w \notin 1..top PROVE Border(w) = L - 1
    <3>1. w \in Nat \ {0} /\ w >= top + 1  BY <2>4, <2>5, <2>11
    <3> QED BY <2>4, <2>6, <2>7, <3>1
  <2> QED BY <1>1, <2>3, <2>4, <2>6, <2>8, <2>10, <2>11
<1>5. SUFFICES ASSUME NEW path \in Paths(red)' PROVE path \in Paths(red)  OBVIOUS
<1>6. path \in Paths(red)' <=>
          \E r, b : /\ path = [symbols |-> r, bottom |-> b]
                    /\ IsChain(r, RuleLength(red.rule), red)'
                    /\ b \in SymbolNodes'[r[RuleLength(red.rule)']].down
  BY DEF Paths, IsChain, SymbolNodeNos
<1>7. PICK q, b : /\ path = [symbols |-> q, bottom |-> b]
                  /\ IsChain(q, RuleLength(red.rule), red)'
                  /\ b \in SymbolNodes'[q[n]].down
  BY <1>3, <1>6
<1>8. /\ q \in [1..n -> SymbolNodeNos'] /\ q[1] = s
      /\ \A i \in 1..(n - 1) : Below(q[i], q[i + 1])'
  BY <1>3, <1>7 DEF IsChain
<1> DEFINE S == {i \in 1..n : q[i] \in SymbolNodeNos /\ SymbolNodes[q[i]].end <= E}
<1>9. ASSUME NEW t \in SymbolNodeNos, SymbolNodes[t].end <= E
      PROVE  SymbolNodes'[t].down = SymbolNodes[t].down
  <2>1. SymbolNodes[t].end \in Nat  BY <1>9 DEF IInv, ShapeInv, IsSymbolNode
  <2>2. pc # "shift" \/ SymbolNodes[t].end < wordNo  BY <1>4, <1>9, <2>1
  <2> QED BY <1>9, <2>2 DEF Frozen
<1>10. ASSUME NEW t \in SymbolNodeNos, SymbolNodes[t].end <= E, NEW u, Below(t, u)'
       PROVE  u \in SymbolNodeNos /\ SymbolNodes[u].end <= E /\ Below(t, u)
  <2>1. PICK w \in SymbolNodes'[t].down : u \in StateNodes'[w].children  BY <1>10 DEF Below
  <2>2. w \in SymbolNodes[t].down  BY <1>9, <1>10, <2>1
  <2>3. /\ w \in StateNodeNos /\ SymbolNodes[t].start \in Nat /\ SymbolNodes[t].end \in Nat
        /\ SymbolNodes[t].start < SymbolNodes[t].end
        /\ w # 1 => Border(w) = SymbolNodes[t].start
    BY <1>10, <2>2 DEF IInv, ShapeInv, IsSymbolNode, StackInv
  <2>4. CASE w \in 1..top
    <3>1. StateNodes'[w] = StateNodes[w]  BY <1>1, <2>4 DEF Frozen
    <3>2. u \in StateNodes[w].children  BY <2>1, <3>1
    <3>3. u \in SymbolNodeNos /\ SymbolNodes[u].end = Border(w) /\ w # 1
      BY <2>3, <3>2, OwnerBorder
    <3> QED BY <1>4, <1>10, <2>2, <2>3, <3>2, <3>3 DEF Below
  <2>5. CASE w \notin 1..top
    <3>1. w # 1 /\ Border(w) = L - 1  BY <1>4, <2>3, <2>5
    <3> QED BY <1>4, <1>10, <2>3, <3>1
  <2> QED BY <2>4, <2>5
<1>11. 1 \in S
  <2>1. s \in SymbolNodeNos /\ SymbolNodes[s].end = E  BY <1>1, OwnerBorder
  <2> QED BY <1>2, <1>4, <1>8, <2>1
<1>12. ASSUME NEW i \in 1..n, i + 1 \in 1..n, i \in S PROVE i + 1 \in S
  <2>1. i \in 1..(n - 1)  BY <1>2, <1>12
  <2>2. Below(q[i], q[i + 1])'  BY <1>8, <2>1
  <2>3. PICK t, u : t = q[i] /\ u = q[i + 1]  OBVIOUS
  <2>4. t \in SymbolNodeNos /\ SymbolNodes[t].end <= E  BY <1>12, <2>3
  <2>5. Below(t, u)'  BY <2>2, <2>3 DEF Below
  <2>6. u \in SymbolNodeNos /\ SymbolNodes[u].end <= E  BY <1>10, <2>4, <2>5
  <2> QED BY <1>12, <2>3, <2>6
<1>13. \A i \in 1..n : q[i] \in SymbolNodeNos /\ SymbolNodes[q[i]].end <= E
  <2>1. \A i \in 1..n : i \in S
    <3> HIDE DEF S
    <3>1. n \in Nat  BY <1>2
    <3> QED BY <1>11, <1>12, <3>1, UpInduction
  <2> QED BY <2>1
<1>14. q \in [1..n -> SymbolNodeNos]  BY <1>8, <1>13
<1>15. ASSUME NEW i \in 1..(n - 1) PROVE Below(q[i], q[i + 1])
  <2>1. i \in 1..n  BY <1>2
  <2>2. PICK t, u : t = q[i] /\ u = q[i + 1]  OBVIOUS
  <2>3. Below(t, u)'  BY <1>8, <2>2 DEF Below
  <2>4. Below(t, u)  BY <1>10, <1>13, <2>1, <2>2, <2>3
  <2> QED BY <2>2, <2>4
<1>16. b \in SymbolNodes[q[n]].down
  <2>1. q[n] \in SymbolNodeNos /\ SymbolNodes[q[n]].end <= E  BY <1>2, <1>13
  <2> QED BY <1>7, <1>9, <2>1
<1>17. IsChain(q, n, red)  BY <1>8, <1>14, <1>15 DEF IsChain
<1> QED BY <1>1, <1>7, <1>16, <1>17, PathsElement

-----------------------------------------------------------------------------
(* Proofs: no work is forgotten                                            *)

LEMMA ReductionsOfFacts ==
    ASSUME IInv, NEW v \in StateNodeNos, NEW r \in ReductionsOf(v)
    PROVE  r \in DOMAIN table.rules /\ <<r, RuleLength(r)>> \in table.items[StateNodes[v].state]
<1>1. PICK b, i : b = Border(v) /\ i = StateNodes[v].state  OBVIOUS
<1>2. PICK X \in SymbolsAt(b) : r \in table.reduce[<<i, X>>]  BY <1>1 DEF ReductionsOf
<1>3. InputInv /\ ShapeInv /\ LevelInv  BY DEF IInv
<1>4. v \in Nat \ {0} /\ i \in States  BY <1>1, <1>3, NodeFacts DEF StateNodeNos
<1>5. b \in Nat  BY <1>1, <1>3, <1>4, BorderFacts
<1>6. SymbolsAt(b) \subseteq Readings(table)
  <2>1. Len(words) \in Nat /\ \A w \in 1..Len(words) : words[w] \subseteq Readings(table)
    BY <1>3, SymbolsFacts
  <2>2. Endmark \in Readings(table)  BY <1>3 DEF InputInv
  <2>3. b + 1 <= Len(words) => b + 1 \in 1..Len(words)  BY <1>5, <2>1
  <2> QED BY <2>1, <2>2, <2>3 DEF SymbolsAt
<1> QED BY <1>1, <1>2, <1>3, <1>4, <1>6 DEF InputInv, IsTable, RuleLength, States

\* Before the word being parsed, these are the reductions Actor looks up.
LEMMA ReductionsCurrent ==
    ASSUME IInv, pc \in {"loop", "paths"}, NEW v \in StateNodeNos,
           Border(v) = Len(InputLevels) - 1
    PROVE  ReductionsOf(v) = Reductions(StateNodes[v].state)
<1>1. wordNo \in Nat /\ Len(InputLevels) = wordNo  BY SymbolsFacts DEF IInv, LevelInv
<1>2. Border(v) + 1 = wordNo  BY <1>1
<1>3. SymbolsAt(Border(v)) = Symbols  BY <1>2 DEF SymbolsAt, Symbols
<1> QED BY <1>3 DEF ReductionsOf, Reductions

BordersKept == \A v \in StateNodeNos : Border(v)' = Border(v)

LEMMA TreatedKept ==
    ASSUME IInv, Grown, NEW red, red.rule \in DOMAIN table.rules, Treated(red),
           Paths(red)' \subseteq Paths(red),
           red \in PendingReductions =>
               red \in PendingReductions' \/ \A path \in Paths(red)' : InHand(red, path)',
           \A path \in Paths(red) :
               InHand(red, path) => InHand(red, path)' \/ PathDone(red.rule, path)'
    PROVE  Treated(red)'
<1>1. CASE red \in PendingReductions  BY <1>1 DEF Treated
<1>2. CASE \A path \in Paths(red) : PathDone(red.rule, path) \/ InHand(red, path)
  <2>1. PICK r : r = red.rule  OBVIOUS
  <2>2. ASSUME NEW path \in Paths(red), PathDone(r, path) PROVE PathDone(r, path)'
    BY <2>1, <2>2, DoneKept
  <2>3. ASSUME NEW path \in Paths(red)'
        PROVE  PathDone(r, path)' \/ InHand(red, path)'
    <3>1. path \in Paths(red)  BY <2>3
    <3> QED BY <1>2, <2>1, <2>2, <3>1
  <2> QED BY <2>1, <2>3 DEF Treated
<1> QED BY <1>1, <1>2 DEF Treated

\* What a step may do with reductions: the pairs of a state node and a symbol
\* node that begin have them pending; no pair that has begun gets new paths;
\* what is pending stays so or is taken in hand, and what is in hand stays so
\* until it is done.
LEMMA ReduceKept ==
    ASSUME IInv, ReduceInv, Grown, BordersKept,
           \A v \in StateNodeNos' : Begun(v)' => \A s \in StateNodes'[v].children :
               \/ \A r \in ReductionsOf(v)' : Red(r, s, v) \in PendingReductions'
               \/ /\ v \in StateNodeNos /\ s \in StateNodes[v].children /\ Begun(v)
                  /\ \A r \in DOMAIN table.rules : Paths(Red(r, s, v))' \subseteq Paths(Red(r, s, v)),
           \A red \in PendingReductions :
               red \in PendingReductions' \/ \A path \in Paths(red)' : InHand(red, path)',
           \A red : \A path \in Paths(red) :
               InHand(red, path) => InHand(red, path)' \/ PathDone(red.rule, path)'
    PROVE  ReduceInv'
<1> SUFFICES ASSUME NEW v \in StateNodeNos', Begun(v)', NEW r \in ReductionsOf(v)',
                    NEW s \in StateNodes'[v].children
             PROVE  Treated(Red(r, s, v))'
  BY DEF ReduceInv
<1>1. PICK red : red = Red(r, s, v)  OBVIOUS
<1>2. red.rule = r  BY <1>1 DEF Red
<1>3. Treated(Red(r, s, v))' <=> Treated(red)'  BY <1>1 DEF Treated, Red, Paths, RuleLength, InHand
<1>4. CASE red \in PendingReductions'  BY <1>3, <1>4 DEF Treated
<1>5. CASE /\ v \in StateNodeNos /\ s \in StateNodes[v].children /\ Begun(v)
           /\ \A q \in DOMAIN table.rules : Paths(Red(q, s, v))' \subseteq Paths(Red(q, s, v))
  <2>1. ReductionsOf(v)' = ReductionsOf(v)
    <3>1. StateNodes'[v].state = StateNodes[v].state /\ table' = table /\ words' = words
      BY <1>5 DEF Grown
    <3>2. Border(v)' = Border(v)  BY <1>5 DEF BordersKept
    <3>3. SymbolsAt(Border(v))' = SymbolsAt(Border(v))  BY <3>1, <3>2 DEF SymbolsAt
    <3> QED BY <3>1, <3>3 DEF ReductionsOf
  <2>2. r \in ReductionsOf(v)  BY <2>1
  <2>3. r \in DOMAIN table.rules  BY <1>5, <2>2, ReductionsOfFacts
  <2>4. Treated(red)  BY <1>1, <1>5, <2>2 DEF ReduceInv
  <2>5. Paths(red)' \subseteq Paths(red)
    <3>1. Paths(Red(r, s, v))' \subseteq Paths(Red(r, s, v))  BY <1>5, <2>3
    <3>2. Paths(Red(r, s, v))' = Paths(red)'  BY <1>1 DEF Paths, RuleLength, Red
    <3> QED BY <1>1, <3>1, <3>2
  <2>6. red.rule \in DOMAIN table.rules  BY <1>2, <2>3
  <2>7. Treated(red)'  BY <2>4, <2>5, <2>6, TreatedKept
  <2> QED BY <1>3, <2>7
<1>6. Red(r, s, v) \in PendingReductions' <=> red \in PendingReductions'  BY <1>1
<1> QED BY <1>4, <1>5, <1>6

\* The same for shifts.
LEMMA ShiftedKept ==
    ASSUME IInv, ShiftedInv, Grown, BordersKept, UNCHANGED startPoints,
           \A v \in StateNodeNos' : \A b \in 0..(wordNo' - 1) : Passed(v, b)' =>
               \/ v \in StateNodeNos /\ b \in 0..(wordNo - 1) /\ Passed(v, b)
               \/ \A X \in SymbolsAt(b) : HasGoto(StateNodes'[v].state, X) => Shifted(v, b, X)',
           \A v \in StateNodeNos : \A b, X :
               (b = wordNo - 1 /\ ShiftOf(v, X) \in PendingShifts) => Shifted(v, b, X)'
    PROVE  ShiftedInv'
<1>1. words' = words /\ table' = table  BY DEF Grown
<1>2. \A b : SymbolsAt(b)' = SymbolsAt(b)  BY <1>1 DEF SymbolsAt
<1>3. \A i, X : HasGoto(i, X)' <=> HasGoto(i, X)  BY <1>1 DEF HasGoto
<1> SUFFICES ASSUME NEW v \in StateNodeNos', NEW b \in 0..(wordNo' - 1), Passed(v, b)',
                    NEW X \in SymbolsAt(b)', HasGoto(StateNodes[v].state, X)'
             PROVE  Shifted(v, b, X)'
  BY DEF ShiftedInv
<1>4. X \in SymbolsAt(b) /\ HasGoto(StateNodes'[v].state, X)  BY <1>2, <1>1 DEF HasGoto
<1>5. CASE v \in StateNodeNos /\ b \in 0..(wordNo - 1) /\ Passed(v, b)
  <2>1. StateNodes'[v].state = StateNodes[v].state  BY <1>5 DEF Grown
  <2>2. Shifted(v, b, X)  BY <1>4, <1>5, <2>1 DEF ShiftedInv
  <2>3. CASE HasEdge(v, <<X, b, b + 1, LeafItem(X)>>)
    <3>1. PICK e : e = <<X, b, b + 1, LeafItem(X)>>  OBVIOUS
    <3>2. HasEdge(v, e)'  BY <2>3, <3>1, EdgeKept
    <3>3. HasEdge(v, <<X, b, b + 1, LeafItem(X)>>)'  BY <3>1, <3>2 DEF HasEdge
    <3> QED BY <3>3 DEF Shifted
  <2>4. CASE b = wordNo - 1 /\ ShiftOf(v, X) \in PendingShifts
    BY <1>5, <2>4
  <2> QED BY <2>2, <2>3, <2>4 DEF Shifted
<1> QED BY <1>4, <1>5

\* A step that leaves the stack alone.
StackKept == UNCHANGED <<table, words, startPoints, StateNodes, SymbolNodes>>

LEMMA StackKeptFacts ==
    ASSUME StackKept
    PROVE  /\ Grown /\ StateNodeNos' = StateNodeNos /\ SymbolNodeNos' = SymbolNodeNos
           /\ \A red : Paths(red)' = Paths(red)
           /\ \A v, e : HasEdge(v, e)' <=> HasEdge(v, e)
<1>1. StateNodeNos' = StateNodeNos /\ SymbolNodeNos' = SymbolNodeNos
  BY DEF StackKept, StateNodeNos, SymbolNodeNos
<1>2. Grown  BY <1>1 DEF StackKept, Grown
<1>3. \A red : Paths(red)' = Paths(red)  BY DEF StackKept, Paths, Below, RuleLength
<1>4. \A v, e : HasEdge(v, e)' <=> HasEdge(v, e)  BY <1>1 DEF StackKept, HasEdge, Entry
<1> QED BY <1>1, <1>2, <1>3, <1>4

LEMMA ReduceQuiet ==
    ASSUME IInv, ReduceInv, StackKept, BordersKept,
           \A v \in StateNodeNos : Begun(v)' =>
               \/ Begun(v)
               \/ \A s \in StateNodes[v].children : \A r \in ReductionsOf(v) :
                      Red(r, s, v) \in PendingReductions',
           \A red \in PendingReductions :
               red \in PendingReductions' \/ \A path \in Paths(red) : InHand(red, path)',
           \A red : \A path \in Paths(red) :
               InHand(red, path) => InHand(red, path)' \/ PathDone(red.rule, path)'
    PROVE  ReduceInv'
<1>1. /\ Grown /\ StateNodeNos' = StateNodeNos
      /\ \A red : Paths(red)' = Paths(red)
  BY StackKeptFacts
<1>2. ASSUME NEW v \in StateNodeNos', Begun(v)', NEW s \in StateNodes'[v].children
      PROVE  \/ \A r \in ReductionsOf(v)' : Red(r, s, v) \in PendingReductions'
             \/ /\ v \in StateNodeNos /\ s \in StateNodes[v].children /\ Begun(v)
                /\ \A r \in DOMAIN table.rules : Paths(Red(r, s, v))' \subseteq Paths(Red(r, s, v))
  <2>1. v \in StateNodeNos /\ s \in StateNodes[v].children  BY <1>1, <1>2 DEF StackKept
  <2>2. CASE Begun(v)
    <3>1. ASSUME NEW r \in DOMAIN table.rules
          PROVE  Paths(Red(r, s, v))' \subseteq Paths(Red(r, s, v))
      <4>1. PICK red : red = Red(r, s, v)  OBVIOUS
      <4>2. Paths(Red(r, s, v))' = Paths(red)'  BY <4>1 DEF Paths, RuleLength, Red
      <4> QED BY <1>1, <4>1, <4>2
    <3> QED BY <2>1, <2>2, <3>1
  <2>3. CASE \A r \in ReductionsOf(v) : Red(r, s, v) \in PendingReductions'
    <3>1. Border(v)' = Border(v)  BY <2>1 DEF BordersKept
    <3>2. ReductionsOf(v)' = ReductionsOf(v)  BY <3>1 DEF ReductionsOf, SymbolsAt, StackKept
    <3> QED BY <2>3, <3>2
  <2> QED BY <1>2, <2>1, <2>2, <2>3
<1>3. \A red \in PendingReductions :
          red \in PendingReductions' \/ \A path \in Paths(red)' : InHand(red, path)'
  BY <1>1
<1> QED BY <1>1, <1>2, <1>3, ReduceKept

LEMMA ShiftedQuiet ==
    ASSUME IInv, ShiftedInv, StackKept, BordersKept,
           \A v \in StateNodeNos : \A b \in 0..(wordNo' - 1) : Passed(v, b)' =>
               \/ b \in 0..(wordNo - 1) /\ Passed(v, b)
               \/ \A X \in SymbolsAt(b) : HasGoto(StateNodes[v].state, X) => Shifted(v, b, X)',
           \A shift \in PendingShifts : wordNo' = wordNo /\ shift \in PendingShifts'
    PROVE  ShiftedInv'
<1>1. Grown /\ StateNodeNos' = StateNodeNos  BY StackKeptFacts
<1>2. UNCHANGED <<startPoints, StateNodes, table>>  BY DEF StackKept
<1>3. ASSUME NEW v \in StateNodeNos, NEW b, NEW X, b = wordNo - 1, ShiftOf(v, X) \in PendingShifts
      PROVE  Shifted(v, b, X)'
  <2>1. ShiftOf(v, X)' = ShiftOf(v, X)  BY <1>2 DEF ShiftOf, Goto
  <2>2. wordNo' = wordNo /\ ShiftOf(v, X) \in PendingShifts'  BY <1>3
  <2> QED BY <1>3, <2>1, <2>2 DEF Shifted
<1>4. \A v \in StateNodeNos' : \A b \in 0..(wordNo' - 1) : Passed(v, b)' =>
          \/ v \in StateNodeNos /\ b \in 0..(wordNo - 1) /\ Passed(v, b)
          \/ \A X \in SymbolsAt(b) : HasGoto(StateNodes'[v].state, X) => Shifted(v, b, X)'
  BY <1>1, <1>2
<1> QED BY <1>1, <1>2, <1>3, <1>4, ShiftedKept

\* The borders of the nodes of a closure set.
LEMMA StandsFacts ==
    ASSUME IInv, NEW v \in StateNodeNos
    PROVE  /\ v \in Nat \ {0} /\ Border(v) \in Nat /\ Border(v) <= Len(InputLevels) - 1
           /\ Border(v) = Len(InputLevels) - 1 <=> v >= CurrentFirst
           /\ CurrentFirst \in Nat \ {0} /\ wordNo \in Nat \ {0}
           /\ StateNodes[1].children = {}
           /\ pc \in {"word", "loop", "paths"} => Len(InputLevels) = wordNo
           /\ pc = "shift" => Len(InputLevels) = wordNo + 1
<1>1. InputInv /\ ShapeInv /\ LevelInv  BY DEF IInv
<1>2. v \in Nat \ {0}  BY DEF StateNodeNos
<1>3. CurrentFirst \in Nat \ {0}  BY <1>1, FirstNodeNo
<1>4. wordNo \in Nat \ {0}  BY <1>1, SymbolsFacts
<1>5. StateNodes[1].children = {}  BY <1>1 DEF ShapeInv
<1> QED BY <1>1, <1>2, <1>3, <1>4, <1>5, BorderFacts DEF LevelInv

LEMMA BeginWordWork ==
    ASSUME IInv, ReduceInv, ShiftedInv, BeginWord
    PROVE  ReduceInv' /\ ShiftedInv'
<1>1. /\ pc = "word" /\ pc' = "loop"
      /\ ActiveNodes' = LastClosure \cup (IF wordNo \in startPoints THEN {1} ELSE {})
      /\ UNCHANGED <<InputLevels, wordNo, PendingShifts, startPoints>> /\ StackKept
  BY DEF BeginWord, input, stack, StackKept
<1>2. InputInv /\ ShapeInv /\ LevelInv /\ PendingInv /\ ShiftInv  BY DEF IInv
<1>3. PendingReductions = {} /\ PendingShifts = {}  BY <1>1, <1>2 DEF PendingInv, ShiftInv
<1>4. \A v : Border(v)' = Border(v)  BY <1>1, BorderUnchanged
<1>5. BordersKept  BY <1>4 DEF BordersKept
<1>6. ASSUME NEW v \in StateNodeNos, v >= CurrentFirst PROVE v \in ActiveNodes'
  <2>1. LastClosure = CurrentFirst..Back(InputLevels)  BY <1>2, ClosureFacts
  <2>2. Back(InputLevels) = Len(StateNodes) /\ Len(StateNodes) \in Nat
    BY <1>1, <1>2, NodeFacts DEF LevelInv
  <2>3. v \in CurrentFirst..Len(StateNodes)  BY <1>6, <2>2, StandsFacts DEF StateNodeNos
  <2> QED BY <1>1, <2>1, <2>2, <2>3
<1>7. ReduceInv'
  <2>1. ASSUME NEW v \in StateNodeNos, Begun(v)' PROVE Begun(v)
    <3>1. v \notin ActiveNodes'  BY <1>1, <2>1 DEF Begun
    <3>2. v < CurrentFirst  BY <1>6, <3>1, StandsFacts
    <3> QED BY <1>1, <3>2 DEF Begun
  <2>2. \A red, path : ~InHand(red, path)  BY <1>1 DEF InHand
  <2> QED BY <1>1, <1>3, <1>5, <2>1, <2>2, ReduceQuiet
<1>8. ShiftedInv'
  <2>1. ASSUME NEW v \in StateNodeNos, NEW b \in 0..(wordNo' - 1), Passed(v, b)'
        PROVE  b \in 0..(wordNo - 1) /\ Passed(v, b)
    <3>1. Stands(v, b)' <=> Stands(v, b)  BY <1>1, <1>4 DEF Stands
    <3>2. b # wordNo - 1
      <4>1. SUFFICES ASSUME b = wordNo - 1 PROVE FALSE  OBVIOUS
      <4>2. v \notin ActiveNodes' /\ Stands(v, b)  BY <1>1, <2>1, <3>1, <4>1 DEF Passed
      <4>3. CASE Border(v) = b
        <5>1. v >= CurrentFirst  BY <1>1, <4>1, <4>3, StandsFacts
        <5> QED BY <1>6, <4>2, <5>1
      <4>4. CASE v = 1 /\ b + 1 \in startPoints
        <5>1. wordNo \in startPoints  BY <4>1, <4>4, StandsFacts
        <5> QED BY <1>1, <4>2, <4>4, <5>1
      <4> QED BY <4>2, <4>3, <4>4 DEF Stands
    <3> QED BY <1>1, <2>1, <3>1, <3>2 DEF Passed
  <2> QED BY <1>1, <1>3, <1>5, <2>1, ShiftedQuiet
<1> QED BY <1>7, <1>8

LEMMA ActorWork ==
    ASSUME IInv, ReduceInv, ShiftedInv, Actor, pc' = "loop"
    PROVE  ReduceInv' /\ ShiftedInv'
<1>1. /\ pc = "loop"
      /\ UNCHANGED <<InputLevels, wordNo, startPoints, reduction, todo>> /\ StackKept
  BY DEF Actor, input, stack, StackKept
<1>2. PICK u \in ActiveNodes :
          /\ ActiveNodes' = ActiveNodes \ {u}
          /\ PendingShifts' = PendingShifts \cup
                 {[from |-> u, to |-> Goto(StateNodes[u].state, X), symbol |-> X] :
                     X \in {Y \in Symbols : HasGoto(StateNodes[u].state, Y)}}
          /\ PendingReductions' = PendingReductions \cup
                 {[rule |-> r, symbol |-> s, last |-> u] :
                     r \in Reductions(StateNodes[u].state), s \in StateNodes[u].children}
  BY DEF Actor
<1>3. u \in StateNodeNos /\ (u = 1 \/ Border(u) = Len(InputLevels) - 1)
  BY DEF IInv, PendingInv
<1>4. \A v : Border(v)' = Border(v)  BY <1>1, BorderUnchanged
<1>5. BordersKept  BY <1>4 DEF BordersKept
<1>6. ReduceInv'
  <2>1. ASSUME NEW v \in StateNodeNos, Begun(v)', ~Begun(v),
               NEW s \in StateNodes[v].children, NEW r \in ReductionsOf(v)
        PROVE  Red(r, s, v) \in PendingReductions'
    <3>1. v = u  BY <1>1, <1>2, <2>1 DEF Begun
    <3>2. v # 1  BY <2>1, StandsFacts
    <3>3. r \in Reductions(StateNodes[u].state)
      BY <1>1, <1>3, <2>1, <3>1, <3>2, ReductionsCurrent
    <3> QED BY <1>2, <2>1, <3>1, <3>3 DEF Red
  <2>2. \A red, path : ~InHand(red, path)  BY <1>1 DEF InHand
  <2>3. PendingReductions \subseteq PendingReductions'  BY <1>2
  <2> QED BY ONLY IInv, ReduceInv, <1>1, <1>5, <2>1, <2>2, <2>3, ReduceQuiet
<1>7. ShiftedInv'
  <2>1. ASSUME NEW v \in StateNodeNos, NEW b \in 0..(wordNo' - 1), Passed(v, b)', ~Passed(v, b),
               NEW X \in SymbolsAt(b), HasGoto(StateNodes[v].state, X)
        PROVE  Shifted(v, b, X)'
    <3>1. Stands(v, b)' <=> Stands(v, b)  BY <1>1, <1>4 DEF Stands
    <3>2. b = wordNo - 1 /\ v = u  BY <1>1, <1>2, <2>1, <3>1 DEF Passed
    <3>3. SymbolsAt(b) = Symbols
      <4>1. b + 1 = wordNo  BY <3>2, StandsFacts
      <4> QED BY <4>1 DEF SymbolsAt, Symbols
    <3>4. ShiftOf(v, X) \in PendingShifts'  BY <1>2, <2>1, <3>2, <3>3 DEF ShiftOf
    <3>5. ShiftOf(v, X)' = ShiftOf(v, X)  BY <1>1 DEF ShiftOf, Goto, StackKept
    <3> QED BY <1>1, <3>2, <3>4, <3>5 DEF Shifted
  <2>2. PendingShifts \subseteq PendingShifts'  BY <1>2
  <2>3. wordNo' = wordNo  BY <1>1
  <2> QED BY ONLY IInv, ShiftedInv, <1>1, <1>5, <2>1, <2>2, <2>3, ShiftedQuiet
<1> QED BY <1>6, <1>7

\* A step that does nothing to shifts.
LEMMA ShiftedSame ==
    ASSUME IInv, ShiftedInv, StackKept, BordersKept,
           UNCHANGED <<wordNo, ActiveNodes, PendingShifts>>, pc # "word" \/ pc' = "word"
    PROVE  ShiftedInv'
<1>1. ASSUME NEW v \in StateNodeNos, NEW b \in 0..(wordNo' - 1), Passed(v, b)'
      PROVE  b \in 0..(wordNo - 1) /\ Passed(v, b)
  <2>1. Border(v)' = Border(v)  BY DEF BordersKept
  <2>2. Stands(v, b)' <=> Stands(v, b)  BY <2>1 DEF Stands, StackKept
  <2> QED BY <1>1, <2>2 DEF Passed
<1> QED BY <1>1, ShiftedQuiet

LEMMA ReducerWork ==
    ASSUME IInv, ReduceInv, ShiftedInv, Reducer
    PROVE  ReduceInv' /\ ShiftedInv'
<1>1. /\ pc = "loop" /\ pc' = "paths"
      /\ UNCHANGED <<InputLevels, wordNo, ActiveNodes, PendingShifts>> /\ StackKept
  BY DEF Reducer, input, stack, StackKept
<1>2. PICK red \in PendingReductions :
          /\ PendingReductions' = PendingReductions \ {red}
          /\ reduction' = red /\ todo' = Paths(red)
  BY DEF Reducer
<1>3. BordersKept  BY <1>1, BorderUnchanged DEF BordersKept
<1>4. \A v \in StateNodeNos : Begun(v)' => Begun(v)  BY <1>1 DEF Begun
<1>5. \A r, path : ~InHand(r, path)  BY <1>1 DEF InHand
<1>6. \A path \in Paths(red) : InHand(red, path)'  BY <1>1, <1>2 DEF InHand
<1>7. \A r \in PendingReductions :
          r \in PendingReductions' \/ \A path \in Paths(r) : InHand(r, path)'
  BY <1>2, <1>6
<1>8. ReduceInv'  BY ONLY IInv, ReduceInv, <1>1, <1>3, <1>4, <1>5, <1>7, ReduceQuiet
<1>9. ShiftedInv'  BY <1>1, <1>3, ShiftedSame
<1> QED BY <1>8, <1>9

LEMMA RejectPathWork ==
    ASSUME IInv, ReduceInv, ShiftedInv, RejectPath
    PROVE  ReduceInv' /\ ShiftedInv'
<1>1. /\ pc = "paths" /\ pc' = "paths" /\ StackKept
      /\ UNCHANGED <<InputLevels, wordNo, ActiveNodes, PendingReductions, PendingShifts, reduction>>
  BY DEF RejectPath, input, stack, StackKept
<1>2. PICK gone \in todo : PathItem(gone) = NoItem /\ todo' = todo \ {gone}  BY DEF RejectPath
<1>3. BordersKept  BY <1>1, BorderUnchanged DEF BordersKept
<1>4. \A v \in StateNodeNos : Begun(v)' => Begun(v)  BY <1>1 DEF Begun
<1>5. ASSUME NEW red, NEW path \in Paths(red), InHand(red, path)
      PROVE  InHand(red, path)' \/ PathDone(red.rule, path)'
  <2>1. CASE path # gone
    BY <1>1, <1>2, <1>5, <2>1 DEF InHand
  <2>2. CASE path = gone
    <3>1. red = reduction /\ table' = table /\ SymbolNodes' = SymbolNodes
      BY <1>1, <1>5 DEF InHand, StackKept
    <3>2. ItemOver(red.rule, path) = NoItem  BY <1>2, <2>2, <3>1 DEF PathItem, ItemOver
    <3>3. ItemOver(red.rule, path)' = NoItem  BY <3>1, <3>2 DEF ItemOver, RightPart
    <3> QED BY <3>3 DEF PathDone
  <2> QED BY <2>1, <2>2
<1>6. PendingReductions \subseteq PendingReductions'  BY <1>1
<1>7. ReduceInv'  BY ONLY IInv, ReduceInv, <1>1, <1>3, <1>4, <1>5, <1>6, ReduceQuiet
<1>8. ShiftedInv'  BY <1>1, <1>3, ShiftedSame
<1> QED BY <1>7, <1>8

\* A step that only moves on.
LEMMA MovesOn ==
    ASSUME IInv, ReduceInv, ShiftedInv, StackKept, BordersKept,
           UNCHANGED <<wordNo, ActiveNodes, PendingReductions, PendingShifts>>,
           pc # "word" \/ pc' = "word",
           \A v \in StateNodeNos : Begun(v)' => Begun(v),
           \A red, path : ~InHand(red, path)
    PROVE  ReduceInv' /\ ShiftedInv'
  BY ReduceQuiet, ShiftedSame

LEMMA EndReducerWork ==
    ASSUME IInv, ReduceInv, ShiftedInv, EndReducer, pc' = "loop"
    PROVE  ReduceInv' /\ ShiftedInv'
<1>1. /\ pc = "paths" /\ todo = {} /\ StackKept
      /\ UNCHANGED <<InputLevels, wordNo, ActiveNodes, PendingReductions, PendingShifts>>
  BY DEF EndReducer, input, stack, StackKept
<1>2. BordersKept  BY <1>1, BorderUnchanged DEF BordersKept
<1>3. \A v \in StateNodeNos : Begun(v)' => Begun(v)  BY <1>1 DEF Begun
<1>4. \A red, path : ~InHand(red, path)  BY <1>1 DEF InHand
<1> QED BY <1>1, <1>2, <1>3, <1>4, MovesOn

LEMMA CloseLevelWork ==
    ASSUME IInv, ReduceInv, ShiftedInv, CloseLevel
    PROVE  ReduceInv' /\ ShiftedInv'
<1>1. /\ pc = "loop" /\ pc' = "shift" /\ ActiveNodes = {} /\ StackKept
      /\ InputLevels' = Append([InputLevels EXCEPT ![Len(InputLevels)] = Len(StateNodes)],
                               Len(StateNodes))
      /\ UNCHANGED <<wordNo, ActiveNodes, PendingReductions, PendingShifts>>
  BY DEF CloseLevel, input, StackKept
<1>2. BordersKept
  <2>1. Len(StateNodes) \in Nat /\ LevelInv  BY NodeFacts DEF IInv
  <2> QED BY <1>1, <2>1, BorderOfClose DEF BordersKept
<1>3. \A v \in StateNodeNos : Begun(v)  BY <1>1 DEF Begun
<1>4. \A red, path : ~InHand(red, path)  BY <1>1 DEF InHand
<1>5. pc # "word"  BY <1>1
<1> QED BY ONLY IInv, ReduceInv, ShiftedInv, <1>1, <1>2, <1>3, <1>4, <1>5, MovesOn

LEMMA CollectWork ==
    ASSUME IInv, ReduceInv, ShiftedInv, Collect
    PROVE  ReduceInv' /\ ShiftedInv'
<1>1. /\ pc = "found" /\ pc' = "done" /\ StackKept
      /\ UNCHANGED <<InputLevels, wordNo, ActiveNodes, PendingReductions, PendingShifts>>
  BY DEF Collect, input, stack, StackKept
<1>2. BordersKept  BY <1>1, BorderUnchanged DEF BordersKept
<1>3. \A v \in StateNodeNos : Begun(v)' => Begun(v)  BY <1>1 DEF Begun, CurrentFirst
<1>4. \A red, path : ~InHand(red, path)  BY <1>1 DEF InHand
<1> QED BY <1>1, <1>2, <1>3, <1>4, MovesOn

LEMMA StutterWork ==
    ASSUME IInv, ReduceInv, ShiftedInv, UNCHANGED vars
    PROVE  ReduceInv' /\ ShiftedInv'
<1>1. /\ StackKept /\ pc' = pc
      /\ UNCHANGED <<InputLevels, wordNo, ActiveNodes, PendingReductions, PendingShifts>>
      /\ UNCHANGED <<reduction, todo>>
  BY DEF vars, input, StackKept
<1>2. BordersKept  BY <1>1, BorderUnchanged DEF BordersKept
<1>3. \A v \in StateNodeNos : Begun(v)' => Begun(v)  BY <1>1 DEF Begun, CurrentFirst
<1>4. \A red, path : InHand(red, path) => InHand(red, path)'  BY <1>1 DEF InHand
<1>5. PendingReductions \subseteq PendingReductions'  BY <1>1
<1>6. ReduceInv'  BY <1>1, <1>2, <1>3, <1>4, <1>5, ReduceQuiet
<1>7. ShiftedInv'  BY <1>1, <1>2, ShiftedSame
<1> QED BY <1>6, <1>7

LEMMA EndWordWork ==
    ASSUME IInv, ReduceInv, ShiftedInv, EndWord
    PROVE  ReduceInv' /\ ShiftedInv'
<1>1. /\ pc = "shift" /\ PendingShifts = {} /\ StackKept
      /\ InputLevels' = [InputLevels EXCEPT ![Len(InputLevels)] = Len(StateNodes)]
      /\ \/ pc' = "word" /\ wordNo' = wordNo + 1
         \/ pc' = "found" /\ wordNo' = wordNo
      /\ UNCHANGED <<ActiveNodes, PendingReductions, PendingShifts>>
  BY DEF EndWord, input, StackKept
<1>2. InputInv /\ ShapeInv /\ LevelInv /\ PendingInv  BY DEF IInv
<1>3. ActiveNodes = {} /\ PendingReductions = {}  BY <1>1, <1>2 DEF PendingInv
<1>4. PICK n, top, new : n = Len(InputLevels) /\ top = Len(StateNodes) /\ new = InputLevels'
  OBVIOUS
<1>5. new = [InputLevels EXCEPT ![n] = top]  BY <1>1, <1>4
<1>6. IsRaised(n, top, new)  BY <1>2, <1>4, <1>5, LevelsRaised DEF RaisedLevels
<1>7. n = wordNo + 1 /\ wordNo \in Nat \ {0} /\ top \in Nat
  BY <1>1, <1>2, <1>4, <1>6, SymbolsFacts DEF LevelInv, IsRaised
<1>8. CurrentFirst' = CurrentFirst
  <2>1. n > 1 /\ n - 1 \in 1..n /\ n - 1 # n  BY <1>7
  <2>2. Len(new) = n /\ new[n - 1] = InputLevels[n - 1]  BY <1>6, <2>1 DEF IsRaised
  <2> QED BY <1>4, <2>1, <2>2 DEF CurrentFirst
<1>9. BordersKept
  <2>1. StateNodeNos \subseteq Nat  BY <1>4, <1>7 DEF StateNodeNos
  <2> QED BY <1>1, <1>2, <1>4, <1>7, <2>1, BorderOfEnd DEF BordersKept
<1>10. ReduceInv'
  <2>1. \A v \in StateNodeNos : Begun(v)' => Begun(v)  BY <1>1, <1>8 DEF Begun
  <2>2. \A red, path : ~InHand(red, path)  BY <1>1 DEF InHand
  <2> QED BY ONLY IInv, ReduceInv, <1>1, <1>3, <1>9, <2>1, <2>2, ReduceQuiet
<1>11. ShiftedInv'
  <2>1. ASSUME NEW v \in StateNodeNos, NEW b \in 0..(wordNo' - 1), Passed(v, b)'
        PROVE  b \in 0..(wordNo - 1) /\ Passed(v, b)
    <3>1. Border(v)' = Border(v)  BY <1>9 DEF BordersKept
    <3>2. Stands(v, b)' <=> Stands(v, b)  BY <1>1, <3>1 DEF Stands, StackKept
    <3>3. b \in 0..(wordNo - 1)
      <4>1. CASE pc' = "word" /\ wordNo' = wordNo + 1
        <5>1. b # wordNo' - 1  BY <2>1, <4>1 DEF Passed
        <5> QED BY <1>7, <4>1, <5>1
      <4>2. CASE wordNo' = wordNo  BY <4>2
      <4> QED BY <1>1, <4>1, <4>2
    <3> QED BY <1>1, <1>3, <2>1, <3>2, <3>3 DEF Passed
  <2>2. PendingShifts = {}  BY <1>1
  <2> QED BY ONLY IInv, ShiftedInv, <1>1, <1>9, <2>1, <2>2, ShiftedQuiet
<1> QED BY <1>10, <1>11

LEMMA RedPathsKept ==
    ASSUME IInv, Grown, Frozen, UNCHANGED InputLevels,
           NEW v \in StateNodeNos, NEW s \in StateNodes[v].children,
           pc = "shift" => v < CurrentFirst
    PROVE  \A r \in DOMAIN table.rules : Paths(Red(r, s, v))' \subseteq Paths(Red(r, s, v))
<1> TAKE r \in DOMAIN table.rules
<1>1. PICK red : red = Red(r, s, v)  OBVIOUS
<1>2. red.symbol = s /\ red.rule \in DOMAIN table.rules  BY <1>1 DEF Red
<1>3. Paths(red)' \subseteq Paths(red)  BY <1>2, PathsKept
<1>4. Paths(Red(r, s, v))' = Paths(red)'  BY <1>1 DEF Paths, RuleLength, Red
<1> QED BY <1>1, <1>3, <1>4

\* The path that a step takes from those to be reduced.
LEMMA OnePathDone ==
    ASSUME IInv, Grown, pc = "paths", UNCHANGED <<pc, reduction>>,
           NEW gone \in todo, todo' = todo \ {gone},
           HasEdge(gone.bottom, EntryOver(reduction.rule, gone))'
    PROVE  \A red : \A path \in Paths(red) :
               InHand(red, path) => InHand(red, path)' \/ PathDone(red.rule, path)'
<1> SUFFICES ASSUME NEW red, NEW path \in Paths(red), InHand(red, path)
             PROVE  InHand(red, path)' \/ PathDone(red.rule, path)'
  OBVIOUS
<1>1. CASE path # gone  BY <1>1 DEF InHand
<1>2. CASE path = gone
  <2>1. red = reduction  BY DEF InHand
  <2>2. HasEdge(path.bottom, EntryOver(red.rule, path))'  BY <1>2, <2>1
  <2> QED BY <2>2 DEF PathDone
<1> QED BY <1>1, <1>2

\* The entry over a path is that of a symbol node that it derives.
LEMMA EntryOfParse ==
    ASSUME IInv, pc = "paths", NEW path \in todo, NEW a, NEW p,
           p = [rule |-> reduction.rule, items |-> RightPart(path)], Derives(a, p)
    PROVE  EntryOver(reduction.rule, path) = <<a.symbol, a.start, a.end, a.item>>
<1>1. CanReduce(reduction) /\ path \in Paths(reduction)  BY DEF IInv, PendingInv
<1>2. PICK r, n, q, items : /\ r = reduction.rule /\ n = RuleLength(r) /\ q = path.symbols
                            /\ items = RightPart(path)
  OBVIOUS
<1>3. r \in DOMAIN table.rules  BY <1>1, <1>2 DEF CanReduce
<1>4. n \in Nat \ {0} /\ DOMAIN q = 1..n /\ items = [i \in 1..n |-> q[n + 1 - i]]
  BY <1>1, <1>2, <1>3, PathShape
<1>5. p.rule = r /\ p.items = items  BY <1>2
<1>6. DOMAIN items = 1..n /\ items[n] = q[1] /\ Len(items) = n
  <2>1. DOMAIN items = 1..n /\ n \in 1..n /\ n + 1 - n = 1  BY <1>4
  <2>2. items \in Seq(SymbolNodeNos)  BY <1>5 DEF Derives
  <2>3. DOMAIN items = 1..Len(items) /\ Len(items) \in Nat  BY ONLY <2>2
  <2>4. Len(items) = n  BY <1>4, <2>1, <2>3
  <2> QED BY <1>4, <2>1, <2>4
<1>7. /\ table.rules[r].left = a.symbol
      /\ SymbolNodes[items[1]].start = a.start
      /\ SymbolNodes[items[n]].end = a.end
      /\ a.item = CreateNewItem(table.rules[r], [k \in DOMAIN items |-> SymbolNodes[items[k]].item])
  BY <1>5, <1>6 DEF Derives, Back
<1>8. PathStart(path) = a.start /\ PathEnd(path) = a.end
  BY <1>2, <1>6, <1>7 DEF PathStart, PathEnd
<1>9. ItemOver(r, path) = a.item
  <2>1. ItemOver(r, path) = CreateNewItem(table.rules[r], [i \in 1..n |-> SymbolNodes[items[i]].item])
    BY <1>2, <1>4 DEF ItemOver
  <2> QED BY <1>6, <1>7, <2>1
<1> QED BY <1>2, <1>7, <1>8, <1>9 DEF EntryOver

LEMMA PackPathWork ==
    ASSUME IInv, ReduceInv, ShiftedInv, PackPath
    PROVE  ReduceInv' /\ ShiftedInv'
<1>1. /\ pc = "paths" /\ pc' = pc
      /\ UNCHANGED <<table, words, startPoints, StateNodes, InputLevels, wordNo>>
      /\ UNCHANGED <<ActiveNodes, PendingReductions, PendingShifts, reduction>>
  BY DEF PackPath, input
<1>2. PICK path \in todo : \E s, p, D, P : Packs(path, s, p, D, P)  BY PackPathPacks
<1>3. PICK s, p, D, P : Packs(path, s, p, D, P)  BY <1>2
<1>4. /\ p = [rule |-> reduction.rule, items |-> RightPart(path)]
      /\ D = SymbolNodes[s].down /\ P = Append(SymbolNodes[s].parses, p)
      /\ TouchStep(s, D, P) /\ D = {path.bottom} /\ todo' = todo \ {path}
  BY <1>3 DEF Packs
<1>5. Grown /\ StateNodeNos' = StateNodeNos  BY <1>4, TouchedNodes
<1>6. \A v : Border(v)' = Border(v)  BY <1>1, BorderUnchanged
<1>7. BordersKept  BY <1>6 DEF BordersKept
<1>8. Frozen  BY PackPathFrozen
<1>9. HasEdge(path.bottom, EntryOver(reduction.rule, path))'
  <2>1. s \in SymbolNodeNos /\ \A i \in DOMAIN P : Derives(SymbolNodes[s], P[i])
    BY <1>4 DEF TouchStep, Touched
  <2>2. PICK Q, a : Q = SymbolNodes[s].parses /\ a = SymbolNodes[s]  OBVIOUS
  <2>3. Q \in Seq(Parse)  BY <2>1, <2>2, SymbolNodeFacts
  <2>4. IsSeq(Q)  BY <2>3 DEF IsSeq
  <2>5. Len(Q) \in Nat /\ Len(P) = Len(Q) + 1 /\ P[Len(Q) + 1] = p
    BY <1>4, <2>2, <2>4, Appended
  <2>6. Derives(a, p)
    <3>1. P \in Seq(Parse)  BY <1>4 DEF TouchStep, Touched
    <3>2. Len(Q) + 1 \in DOMAIN P  BY <2>5, <3>1
    <3> QED BY <2>1, <2>2, <2>5, <3>2
  <2>7. EntryOver(reduction.rule, path) = Entry(s)
    BY <1>1, <1>4, <2>2, <2>6, EntryOfParse DEF Entry
  <2>8. PICK u \in StateNodeNos : s \in StateNodes[u].children  BY <2>1 DEF IInv, StackInv
  <2>9. path.bottom \in SymbolNodes[s].down  BY <1>4
  <2>10. PICK r, w, e : r = reduction.rule /\ w = path.bottom /\ e = EntryOver(r, path)  OBVIOUS
  <2>11. HasEdge(w, e)  BY <2>7, <2>8, <2>9, <2>10 DEF HasEdge
  <2>12. HasEdge(w, e)'  BY <1>5, <2>11, EdgeKept
  <2>13. EntryOver(r, path)' = e
    <3>1. CanReduce(reduction) /\ path \in Paths(reduction)  BY <1>1 DEF IInv, PendingInv
    <3>2. PICK red : red = reduction  OBVIOUS
    <3>3. r = red.rule /\ r \in DOMAIN table.rules /\ path \in Paths(red)
      BY <2>10, <3>1, <3>2 DEF CanReduce
    <3> QED BY <1>5, <2>10, <3>3, EntryKept
  <2>14. EntryOver(reduction.rule, path)' = EntryOver(r, path)'
    BY <1>1, <2>10 DEF EntryOver, ItemOver
  <2> QED BY <2>10, <2>12, <2>13, <2>14 DEF HasEdge
<1>10. ReduceInv'
  <2>1. \A red : \A q \in Paths(red) :
            InHand(red, q) => InHand(red, q)' \/ PathDone(red.rule, q)'
    BY <1>1, <1>4, <1>5, <1>9, OnePathDone
  <2>2. PendingReductions \subseteq PendingReductions'  BY <1>1
  <2>3. ASSUME NEW v \in StateNodeNos', Begun(v)', NEW t \in StateNodes'[v].children
        PROVE  /\ v \in StateNodeNos /\ t \in StateNodes[v].children /\ Begun(v)
               /\ \A r \in DOMAIN table.rules : Paths(Red(r, t, v))' \subseteq Paths(Red(r, t, v))
    <3>1. v \in StateNodeNos /\ t \in StateNodes[v].children /\ Begun(v)
      BY <1>1, <1>5, <2>3 DEF Begun
    <3>2. pc # "shift"  BY <1>1
    <3> QED BY <1>1, <1>5, <1>8, <3>1, <3>2, RedPathsKept
  <2> QED BY ONLY IInv, ReduceInv, <1>5, <1>7, <2>1, <2>2, <2>3, ReduceKept
<1>11. ShiftedInv'
  <2>1. \A v \in StateNodeNos' : \A b \in 0..(wordNo' - 1) : Passed(v, b)' =>
            v \in StateNodeNos /\ b \in 0..(wordNo - 1) /\ Passed(v, b)
    BY <1>1, <1>5, <1>6 DEF Passed, Stands
  <2>2. \A v \in StateNodeNos : \A b, X :
            (b = wordNo - 1 /\ ShiftOf(v, X) \in PendingShifts) => Shifted(v, b, X)'
    BY <1>1 DEF Shifted, ShiftOf, Goto
  <2>3. UNCHANGED startPoints  BY <1>1
  <2> QED BY ONLY IInv, ShiftedInv, <1>5, <1>7, <2>1, <2>2, <2>3, ShiftedKept
<1> QED BY <1>10, <1>11

\* A path that gets a symbol node m of its own, and what that makes pending.
Links(path, state, node, m, p, e) ==
    /\ state = PathGoto(path) /\ node = NodeFor(state) /\ m = Len(SymbolNodes) + 1
    /\ LinkStep(state, node, path.bottom, e) /\ Derives(e, p)
    /\ p = [rule |-> reduction.rule, items |-> RightPart(path)]
    /\ e.item # NoItem /\ e.parses = <<p>> /\ e.down = {path.bottom}
    /\ todo' = todo \ {path}
    /\ ActiveNodes' = ActiveNodes \cup (IF Labelled(state) = {} THEN {node} ELSE {})
    /\ PendingReductions' = PendingReductions \cup TakenUpAgain(node, ActiveNodes', m, state)

LEMMA LinkPathLinks ==
    ASSUME IInv, LinkPath
    PROVE  \E path \in todo : \E state, node, m, p, e : Links(path, state, node, m, p, e)
<1>1. /\ pc = "paths" /\ UNCHANGED <<table, words, breakAfterMax, InputLevels, wordNo, pc>>
  BY DEF LinkPath, input
<1>2. PICK path, state, node, m, p, e :
          /\ path \in todo /\ HasPathOfLengthTwo(path) = {} /\ PathItem(path) # NoItem
          /\ state = PathGoto(path) /\ node = NodeFor(state) /\ m = Len(SymbolNodes) + 1
          /\ p = [rule |-> reduction.rule, items |-> RightPart(path)]
          /\ e = [symbol |-> PathLeft, item |-> PathItem(path), start |-> PathStart(path),
                  end |-> PathEnd(path), down |-> {path.bottom}, parses |-> <<p>>]
          /\ StateNodes' = [WithNodeFor(state) EXCEPT ![node].children =
                               @ \cup {Len(SymbolNodes) + 1}]
          /\ SymbolNodes' = Append(SymbolNodes, e)
          /\ todo' = todo \ {path}
          /\ ActiveNodes' = ActiveNodes \cup (IF Labelled(state) = {} THEN {node} ELSE {})
          /\ PendingReductions' = PendingReductions \cup TakenUpAgain(node, ActiveNodes', m, state)
  BY DEF LinkPath
<1>3. LinkStep(state, node, path.bottom, e) /\ Derives(e, p)
  BY ONLY IInv, <1>1, <1>2, LinkPathHolds
<1>4. e.item # NoItem /\ e.parses = <<p>> /\ e.down = {path.bottom}  BY <1>2
<1>5. Links(path, state, node, m, p, e)  BY ONLY <1>2, <1>3, <1>4 DEF Links
<1> QED BY <1>2, <1>5

LEMMA LinkPathWork ==
    ASSUME IInv, IInv', ReduceInv, ShiftedInv, LinkPath
    PROVE  ReduceInv' /\ ShiftedInv'
<1>1. /\ pc = "paths" /\ pc' = pc
      /\ UNCHANGED <<table, words, startPoints, InputLevels, wordNo, PendingShifts, reduction>>
  BY DEF LinkPath, input
<1>2. PICK path \in todo : \E state, node, m, p, e : Links(path, state, node, m, p, e)
  BY LinkPathLinks
<1>3. PICK state, node, m, p, e : Links(path, state, node, m, p, e)  BY <1>2
<1>4. /\ m = Len(SymbolNodes) + 1
      /\ LinkStep(state, node, path.bottom, e) /\ Linked(state, node, e) /\ Derives(e, p)
      /\ p = [rule |-> reduction.rule, items |-> RightPart(path)]
      /\ e.down = {path.bottom} /\ todo' = todo \ {path}
      /\ ActiveNodes' = ActiveNodes \cup (IF Labelled(state) = {} THEN {node} ELSE {})
      /\ PendingReductions' = PendingReductions \cup TakenUpAgain(node, ActiveNodes', m, state)
  BY <1>3 DEF Links, LinkStep
<1>5. InputInv /\ ShapeInv /\ LevelInv  BY DEF IInv
<1>6. Grown  BY <1>4, <1>5, LinkedGrown
<1>7. Frozen  BY LinkPathFrozen
<1>8. \A v : Border(v)' = Border(v)  BY <1>1, BorderUnchanged
<1>9. BordersKept  BY <1>8 DEF BordersKept
<1>10. /\ StateNodeNos' = StateNodeNos \cup {node}
       /\ SymbolNodeNos' = SymbolNodeNos \cup {m} /\ m \notin SymbolNodeNos
       /\ \A v \in StateNodeNos' : \A t :
             t \in StateNodes'[v].children <=>
                 (v \in StateNodeNos /\ t \in StateNodes[v].children) \/ (v = node /\ t = m)
  BY <1>4, <1>5, LinkedNodes
<1>11. SymbolNodes'[m] = e /\ StateNodes'[node].state = state /\ node # 1
  BY <1>4 DEF Linked
<1>12. Border(node)' = Len(InputLevels) - 1  BY <1>4, <1>5, LinkedBorders
<1>13. Labelled(state) = {} => node \in ActiveNodes'  BY <1>4
<1>14. Labelled(state) # {} => node \in StateNodeNos  BY <1>4 DEF Linked
<1>15. HasEdge(path.bottom, EntryOver(reduction.rule, path))'
  <2>1. PICK r, w, x : r = reduction.rule /\ w = path.bottom /\ x = EntryOver(r, path)  OBVIOUS
  <2>2. x = <<e.symbol, e.start, e.end, e.item>>  BY <1>1, <1>4, <2>1, EntryOfParse
  <2>3. Entry(m)' = x  BY <1>11, <2>2 DEF Entry
  <2>4. node \in StateNodeNos' /\ m \in StateNodes'[node].children /\ w \in SymbolNodes'[m].down
    BY <1>4, <1>10, <1>11, <2>1
  <2>5. HasEdge(w, x)'  BY <2>3, <2>4 DEF HasEdge
  <2>6. EntryOver(r, path)' = x
    <3>1. CanReduce(reduction) /\ path \in Paths(reduction)  BY <1>1 DEF IInv, PendingInv
    <3>2. PICK red : red = reduction  OBVIOUS
    <3>3. r = red.rule /\ r \in DOMAIN table.rules /\ path \in Paths(red)
      BY <2>1, <3>1, <3>2 DEF CanReduce
    <3> QED BY <1>6, <2>1, <3>3, EntryKept
  <2>7. EntryOver(reduction.rule, path)' = EntryOver(r, path)'
    BY <1>1, <2>1 DEF EntryOver, ItemOver
  <2> QED BY <2>1, <2>5, <2>6, <2>7 DEF HasEdge
<1>16. ReduceInv'
  <2>1. \A red : \A q \in Paths(red) :
            InHand(red, q) => InHand(red, q)' \/ PathDone(red.rule, q)'
    BY <1>1, <1>4, <1>6, <1>15, OnePathDone
  <2>2. PendingReductions \subseteq PendingReductions'  BY <1>4
  <2>3. ASSUME NEW v \in StateNodeNos', Begun(v)', NEW t \in StateNodes'[v].children
        PROVE  \/ \A r \in ReductionsOf(v)' : Red(r, t, v) \in PendingReductions'
               \/ /\ v \in StateNodeNos /\ t \in StateNodes[v].children /\ Begun(v)
                  /\ \A r \in DOMAIN table.rules : Paths(Red(r, t, v))' \subseteq Paths(Red(r, t, v))
    <3>0. v \notin ActiveNodes'  BY <1>1, <2>3 DEF Begun
    <3>1. CASE v \in StateNodeNos /\ t \in StateNodes[v].children
      <4>1. Begun(v)  BY <1>1, <1>4, <3>0 DEF Begun
      <4>2. pc # "shift"  BY <1>1
      <4> QED BY <1>1, <1>6, <1>7, <3>1, <4>1, <4>2, RedPathsKept
    <3>2. CASE v = node /\ t = m
      <4>1. ReductionsOf(node)' = Reductions(state)
        <5>1. wordNo \in Nat /\ Len(InputLevels) = wordNo  BY <1>1, <1>5, SymbolsFacts DEF LevelInv
        <5>2. Border(node)' + 1 = wordNo  BY <1>12, <5>1
        <5>3. SymbolsAt(Border(node))' = Symbols  BY <1>1, <5>2 DEF SymbolsAt, Symbols
        <5> QED BY <1>1, <1>11, <5>3 DEF ReductionsOf, Reductions
      <4>2. node \notin ActiveNodes'  BY <3>0, <3>2
      <4>3. \A r \in Reductions(state) : Red(r, m, node) \in PendingReductions'
        BY <1>4, <4>2 DEF TakenUpAgain, Red
      <4> QED BY <3>2, <4>1, <4>3
    <3> QED BY <1>10, <2>3, <3>1, <3>2
  <2> QED BY ONLY IInv, ReduceInv, <1>6, <1>9, <2>1, <2>2, <2>3, ReduceKept
<1>17. ShiftedInv'
  <2>1. ASSUME NEW v \in StateNodeNos', NEW b \in 0..(wordNo' - 1), Passed(v, b)'
        PROVE  v \in StateNodeNos /\ b \in 0..(wordNo - 1) /\ Passed(v, b)
    <3>1. v \in StateNodeNos
      <4>1. SUFFICES ASSUME v = node, node \notin StateNodeNos PROVE FALSE  BY <1>10
      <4>2. node \in ActiveNodes'  BY <1>13, <1>14, <4>1
      <4>3. b = Len(InputLevels) - 1  BY <1>11, <1>12, <2>1, <4>1 DEF Passed, Stands
      <4>4. Len(InputLevels) = wordNo  BY <1>1, <1>5 DEF LevelInv
      <4> QED BY <1>1, <2>1, <4>1, <4>2, <4>3, <4>4 DEF Passed
    <3>2. Stands(v, b)' <=> Stands(v, b)  BY <1>1, <1>8 DEF Stands
    <3>3. v \notin ActiveNodes' => v \notin ActiveNodes  BY <1>4
    <3> QED BY <1>1, <2>1, <3>1, <3>2, <3>3 DEF Passed
  <2>2. ASSUME NEW v \in StateNodeNos, NEW b, NEW X, b = wordNo - 1,
               ShiftOf(v, X) \in PendingShifts
        PROVE  Shifted(v, b, X)'
    <3>1. ShiftOf(v, X)' = ShiftOf(v, X)  BY <1>1, <1>6 DEF ShiftOf, Goto, Grown
    <3> QED BY <1>1, <2>2, <3>1 DEF Shifted
  <2>3. UNCHANGED startPoints  BY <1>1
  <2> QED BY ONLY IInv, ShiftedInv, <1>6, <1>9, <2>1, <2>2, <2>3, ShiftedKept
<1> QED BY <1>16, <1>17

\* What Shifter does for a shift: the symbol node for the terminal leads down to
\* the node that the shift came from.
ShiftMade(shift) ==
    /\ PendingShifts' = PendingShifts \ {shift}
    /\ Grown
    /\ \A v \in StateNodeNos' : v \in StateNodeNos \/ (v # 1 /\ Border(v)' = wordNo)
    /\ \A s \in SymbolNodeNos' :
          SymbolNodes'[s].parses = <<>> \/ (s \in SymbolNodeNos /\ SymbolNodes'[s] = SymbolNodes[s])
    /\ \E u \in StateNodeNos' : \E t \in StateNodes'[u].children :
          /\ shift.from \in SymbolNodes'[t].down
          /\ SymbolNodes'[t].symbol = shift.symbol /\ SymbolNodes'[t].start = wordNo - 1
          /\ SymbolNodes'[t].end = wordNo /\ SymbolNodes'[t].item = LeafItem(shift.symbol)

LEMMA ShiftMadeNew ==
    ASSUME IInv, pc = "shift", NEW shift, CanShift(shift), Labelled(shift.to) = {},
           PendingShifts' = PendingShifts \ {shift},
           NEW node, node = NodeFor(shift.to),
           NEW e, e = [symbol |-> shift.symbol, item |-> LeafItem(shift.symbol),
                       start |-> Len(InputLevels) - 2, end |-> Len(InputLevels) - 1,
                       down |-> {shift.from}, parses |-> <<>>],
           SymbolNodes' = Append(SymbolNodes, e),
           StateNodes' = [WithNodeFor(shift.to) EXCEPT ![node].children =
                             @ \cup {Len(SymbolNodes) + 1}],
           UNCHANGED <<table, words, InputLevels, wordNo>>
    PROVE  ShiftMade(shift)
<1>1. InputInv /\ ShapeInv /\ LevelInv  BY DEF IInv
<1>2. /\ shift.to \in States /\ shift.to # 1
      /\ wordNo \in 1..Len(words) /\ Len(InputLevels) = wordNo + 1 /\ Len(words) \in Nat
  BY <1>1, CanShiftFacts
<1>3. PICK state, m : state = shift.to /\ m = Len(SymbolNodes) + 1  OBVIOUS
<1>4. Linked(state, node, e)  BY <1>1, <1>2, <1>3, LinkedHolds
<1>5. /\ e.symbol = shift.symbol /\ e.item = LeafItem(shift.symbol)
      /\ e.start = wordNo - 1 /\ e.end = wordNo
      /\ e.down = {shift.from} /\ e.parses = <<>>
  <2>1. e.start = Len(InputLevels) - 2 /\ e.end = Len(InputLevels) - 1  OBVIOUS
  <2>2. Len(InputLevels) - 2 = wordNo - 1 /\ Len(InputLevels) - 1 = wordNo  BY <1>2
  <2> QED BY <2>1, <2>2
<1>6. /\ StateNodeNos' = StateNodeNos \cup {node}
      /\ SymbolNodeNos' = SymbolNodeNos \cup {m}
      /\ \A v \in StateNodeNos : StateNodes'[v].state = StateNodes[v].state
      /\ \A v \in StateNodeNos' : \A t :
             t \in StateNodes'[v].children <=>
                 (v \in StateNodeNos /\ t \in StateNodes[v].children) \/ (v = node /\ t = m)
  BY <1>1, <1>3, <1>4, LinkedNodes
<1>7. /\ \A s \in SymbolNodeNos : SymbolNodes'[s] = SymbolNodes[s]
      /\ SymbolNodes'[m] = e /\ node # 1 /\ node >= GetFirstNodeNoOfCurrentClosure
  BY <1>3, <1>4 DEF Linked
<1>8. UNCHANGED <<table, words>>  OBVIOUS
<1>9. Grown  BY ONLY <1>6, <1>7, <1>8 DEF Grown
<1>10. Border(node)' = wordNo
  <2>1. node \in Nat \ {0}  BY <1>1, <1>4, LinkedNodes
  <2>2. node >= CurrentFirst  BY <1>1, <1>7, <2>1, FirstNodeNo
  <2>3. Border(node) = Len(InputLevels) - 1  BY <1>1, <2>1, <2>2, BorderFacts
  <2>4. Border(node)' = Border(node)  BY BorderUnchanged
  <2> QED BY <1>2, <2>3, <2>4
<1>11. node \in StateNodeNos' /\ m \in StateNodes'[node].children  BY <1>6
<1>12. PendingShifts' = PendingShifts \ {shift}  OBVIOUS
<1> QED BY ONLY <1>5, <1>6, <1>7, <1>9, <1>10, <1>11, <1>12 DEF ShiftMade

LEMMA ShiftMadeSame ==
    ASSUME IInv, pc = "shift", NEW shift, CanShift(shift), Labelled(shift.to) # {},
           PendingShifts' = PendingShifts \ {shift},
           NEW node, node = NodeFor(shift.to), NEW s, HasLeaf(node, s, shift.symbol),
           LedDown(s, shift.from),
           UNCHANGED <<table, words, StateNodes, InputLevels, wordNo>>
    PROVE  ShiftMade(shift)
<1>1. InputInv /\ ShapeInv /\ StackInv /\ ParseInv  BY DEF IInv
<1>2. /\ StateNodes[node].children = {s} /\ s \in SymbolNodeNos
      /\ SymbolNodes[s].symbol = shift.symbol /\ SymbolNodes[s].parses = <<>>
  BY DEF HasLeaf
<1>3. node \in StateNodeNos /\ Border(node) = wordNo  BY SameFacts
<1>4. SymbolNodes[s].end = wordNo /\ SymbolNodes[s].start \in Nat
  BY <1>2, <1>3, OwnerBorder
<1>5. IsLeaf(SymbolNodes[s])  BY <1>1, <1>2 DEF ParseInv
<1>6. SymbolNodes[s].start = wordNo - 1 /\ SymbolNodes[s].item = LeafItem(shift.symbol)
  BY <1>2, <1>4, <1>5 DEF IsLeaf
<1>7. DOMAIN SymbolNodes = SymbolNodeNos /\ StateNodeNos' = StateNodeNos
  BY <1>1, NodeFacts DEF StateNodeNos
<1>8. SymbolNodeNos' = SymbolNodeNos
  <2>1. PICK N, f : N = Len(SymbolNodes) /\ N \in Nat /\ f = SymbolNodes'  BY <1>1, NodeFacts
  <2>2. DOMAIN SymbolNodes = 1..N  BY <1>7, <2>1 DEF SymbolNodeNos
  <2>3. f = [t \in 1..N |-> f[t]]  BY <2>1, <2>2 DEF LedDown
  <2>4. Len(f) = N  BY <2>1, <2>3, SeqOfFunction
  <2> QED BY <2>1, <2>4 DEF SymbolNodeNos
<1>9. \A t \in SymbolNodeNos : t # s => SymbolNodes'[t] = SymbolNodes[t]
  BY <1>7 DEF LedDown
<1>10. PICK a, b, from : /\ a = SymbolNodes[s] /\ b = SymbolNodes'[s] /\ from = shift.from
  OBVIOUS
<1>11. b = [a EXCEPT !.down = @ \cup {from}]  BY <1>2, <1>7, <1>10 DEF LedDown
<1>12. a = [symbol |-> a.symbol, item |-> a.item, start |-> a.start,
            end |-> a.end, down |-> a.down, parses |-> a.parses]
  BY <1>1, <1>2, <1>10 DEF ShapeInv, IsSymbolNode
<1>13. /\ b.symbol = a.symbol /\ b.item = a.item /\ b.start = a.start /\ b.end = a.end
       /\ b.parses = a.parses /\ b.down = a.down \cup {from}
  BY ONLY <1>11, <1>12
<1>14. UNCHANGED <<table, words, StateNodes>> /\ PendingShifts' = PendingShifts \ {shift}  OBVIOUS
<1>15. \A t \in SymbolNodeNos :
          /\ SymbolNodes'[t].symbol = SymbolNodes[t].symbol
          /\ SymbolNodes'[t].item = SymbolNodes[t].item
          /\ SymbolNodes'[t].start = SymbolNodes[t].start
          /\ SymbolNodes'[t].end = SymbolNodes[t].end
          /\ SymbolNodes[t].down \subseteq SymbolNodes'[t].down
  <2> TAKE t \in SymbolNodeNos
  <2>1. CASE t = s  BY ONLY <1>10, <1>13, <2>1
  <2>2. CASE t # s  BY <1>9, <2>2
  <2> QED BY <2>1, <2>2
<1>16. Grown  BY ONLY <1>7, <1>8, <1>14, <1>15 DEF Grown
<1>17. \A t \in SymbolNodeNos' :
          SymbolNodes'[t].parses = <<>> \/ (t \in SymbolNodeNos /\ SymbolNodes'[t] = SymbolNodes[t])
  BY <1>2, <1>8, <1>9, <1>10, <1>13
<1>18. /\ node \in StateNodeNos' /\ s \in StateNodes'[node].children
       /\ shift.from \in SymbolNodes'[s].down
       /\ SymbolNodes'[s].symbol = shift.symbol /\ SymbolNodes'[s].start = wordNo - 1
       /\ SymbolNodes'[s].end = wordNo /\ SymbolNodes'[s].item = LeafItem(shift.symbol)
  BY <1>2, <1>3, <1>4, <1>6, <1>7, <1>10, <1>13, <1>14
<1> QED BY ONLY <1>7, <1>14, <1>16, <1>17, <1>18 DEF ShiftMade

LEMMA ShifterMakes ==
    ASSUME IInv, Shifter
    PROVE  \E shift \in PendingShifts : ShiftMade(shift)
<1>1. pc = "shift" /\ UNCHANGED <<table, words, InputLevels, wordNo>>  BY DEF Shifter, input
<1>2. PICK shift \in PendingShifts :
          /\ PendingShifts' = PendingShifts \ {shift}
          /\ LET node == NodeFor(shift.to)
                 same == IF Labelled(shift.to) = {} THEN {}
                         ELSE {s \in StateNodes[node].children : SymbolNodes[s].symbol = shift.symbol}
             IN  IF same = {}
                 THEN /\ StateNodes' = [WithNodeFor(shift.to) EXCEPT ![node].children =
                                           @ \cup {Len(SymbolNodes) + 1}]
                      /\ SymbolNodes' = Append(SymbolNodes,
                             [symbol |-> shift.symbol,
                              item   |-> LeafItem(shift.symbol),
                              start  |-> Len(InputLevels) - 2,
                              end    |-> Len(InputLevels) - 1,
                              down   |-> {shift.from},
                              parses |-> <<>>])
                 ELSE /\ SymbolNodes' = [s \in DOMAIN SymbolNodes |->
                             IF s \in same
                             THEN [SymbolNodes[s] EXCEPT !.down = @ \cup {shift.from}]
                             ELSE SymbolNodes[s]]
                      /\ StateNodes' = StateNodes
  BY DEF Shifter
<1>3. IInv /\ CanShift(shift)  BY DEF IInv, ShiftInv
<1>4. PICK node : node = NodeFor(shift.to)  OBVIOUS
<1>5. PendingShifts' = PendingShifts \ {shift}  BY <1>2
<1>6. CASE Labelled(shift.to) = {}
  <2>1. PICK e : e = [symbol |-> shift.symbol, item |-> LeafItem(shift.symbol),
                      start |-> Len(InputLevels) - 2, end |-> Len(InputLevels) - 1,
                      down |-> {shift.from}, parses |-> <<>>]
    OBVIOUS
  <2>2. /\ StateNodes' = [WithNodeFor(shift.to) EXCEPT ![node].children =
                             @ \cup {Len(SymbolNodes) + 1}]
        /\ SymbolNodes' = Append(SymbolNodes, e)
    BY <1>2, <1>4, <1>6, <2>1
  <2>3. ShiftMade(shift)
    BY ONLY <1>1, <1>3, <1>4, <1>5, <1>6, <2>1, <2>2, ShiftMadeNew
  <2> QED BY <2>3
<1>7. CASE Labelled(shift.to) # {}
  <2>0. PICK s : HasLeaf(node, s, shift.symbol)
    BY <1>1, <1>3, <1>4, <1>7, SameFacts
  <2>1. StateNodes[node].children = {s} /\ SymbolNodes[s].symbol = shift.symbol
    BY <2>0 DEF HasLeaf
  <2>2. PICK same : same = {t \in StateNodes[node].children : SymbolNodes[t].symbol = shift.symbol}
    OBVIOUS
  <2>3. same = {s}  BY <2>1, <2>2
  <2>4. /\ SymbolNodes' = [t \in DOMAIN SymbolNodes |->
               IF t \in same THEN [SymbolNodes[t] EXCEPT !.down = @ \cup {shift.from}]
                             ELSE SymbolNodes[t]]
        /\ StateNodes' = StateNodes
    BY <1>2, <1>4, <1>7, <2>2, <2>3
  <2>5. LedDown(s, shift.from)  BY <2>3, <2>4 DEF LedDown
  <2>6. UNCHANGED <<table, words, StateNodes, InputLevels, wordNo>>  BY <1>1, <2>4
  <2>7. ShiftMade(shift)
    BY ONLY <1>1, <1>3, <1>4, <1>5, <1>7, <2>0, <2>5, <2>6, ShiftMadeSame
  <2> QED BY <2>7
<1> QED BY <1>6, <1>7

LEMMA ShifterWork ==
    ASSUME IInv, ReduceInv, ShiftedInv, Shifter
    PROVE  ReduceInv' /\ ShiftedInv'
<1>1. /\ pc = "shift" /\ pc' = pc
      /\ UNCHANGED <<table, words, startPoints, InputLevels, wordNo>>
      /\ UNCHANGED <<ActiveNodes, PendingReductions, reduction, todo>>
  BY DEF Shifter, input
<1>2. PICK shift \in PendingShifts : ShiftMade(shift)  BY ShifterMakes
<1>3. Grown  BY <1>2 DEF ShiftMade
<1>4. Frozen  BY ShifterFrozen
<1>5. \A v : Border(v)' = Border(v)  BY <1>1, BorderUnchanged
<1>6. BordersKept  BY <1>5 DEF BordersKept
<1>7. InputInv /\ ShapeInv /\ LevelInv  BY DEF IInv
<1>8. ReduceInv'
  <2>1. \A red, path : ~InHand(red, path)  BY <1>1 DEF InHand
  <2>2. PendingReductions \subseteq PendingReductions'  BY <1>1
  <2>3. ASSUME NEW v \in StateNodeNos', Begun(v)', NEW t \in StateNodes'[v].children
        PROVE  /\ v \in StateNodeNos /\ t \in StateNodes[v].children /\ Begun(v)
               /\ \A r \in DOMAIN table.rules : Paths(Red(r, t, v))' \subseteq Paths(Red(r, t, v))
    <3>1. v < CurrentFirst  BY <1>1, <2>3 DEF Begun, CurrentFirst
    <3>2. /\ CurrentFirst \in Nat \ {0} /\ Back(InputLevels) \in Nat
          /\ CurrentFirst <= Back(InputLevels) + 1
      <4>1. /\ CurrentFirst = GetFirstNodeNoOfCurrentClosure /\ CurrentFirst \in Nat \ {0}
            /\ Back(InputLevels) \in Nat
            /\ Len(InputLevels) > 1 => GetFirstNodeNoOfCurrentClosure = Back(InputLevels) + 1
        BY <1>1, <1>7, FirstNodeNo
      <4>2. Len(InputLevels) = wordNo + 1 /\ wordNo \in Nat \ {0}
        BY <1>1, <1>7, SymbolsFacts DEF LevelInv
      <4> QED BY <4>1, <4>2
    <3>3. v \in Nat \ {0}  BY DEF StateNodeNos
    <3>4. v \in 1..Back(InputLevels)  BY <3>1, <3>2, <3>3
    <3>5. v \in StateNodeNos
      <4>1. Back(InputLevels) <= Len(StateNodes) /\ Len(StateNodes) \in Nat
        BY <1>7, NodeFacts DEF LevelInv
      <4> QED BY <3>2, <3>4, <4>1 DEF StateNodeNos
    <3>6. StateNodes'[v] = StateNodes[v]  BY <1>4, <3>4 DEF Frozen
    <3>7. t \in StateNodes[v].children /\ Begun(v)  BY <1>1, <2>3, <3>1, <3>6 DEF Begun
    <3> QED BY <1>1, <1>3, <1>4, <3>1, <3>5, <3>7, RedPathsKept
  <2> QED BY ONLY IInv, ReduceInv, <1>3, <1>6, <2>1, <2>2, <2>3, ReduceKept
<1>9. ShiftedInv'
  <2>1. ASSUME NEW v \in StateNodeNos', NEW b \in 0..(wordNo' - 1), Passed(v, b)'
        PROVE  v \in StateNodeNos /\ b \in 0..(wordNo - 1) /\ Passed(v, b)
    <3>0. wordNo \in Nat  BY <1>7, SymbolsFacts
    <3>1. v \in StateNodeNos
      <4>1. SUFFICES ASSUME v # 1, Border(v)' = wordNo PROVE FALSE  BY <1>2 DEF ShiftMade
      <4>2. Border(v)' = b  BY <2>1, <4>1 DEF Passed, Stands
      <4> QED BY <1>1, <2>1, <3>0, <4>1, <4>2
    <3>2. Stands(v, b)' <=> Stands(v, b)  BY <1>1, <1>5 DEF Stands
    <3> QED BY <1>1, <2>1, <3>1, <3>2 DEF Passed
  <2>2. ASSUME NEW v \in StateNodeNos, NEW b, NEW X, b = wordNo - 1,
               ShiftOf(v, X) \in PendingShifts
        PROVE  Shifted(v, b, X)'
    <3>1. CASE ShiftOf(v, X) = shift
      <4>1. v = shift.from /\ X = shift.symbol  BY <3>1 DEF ShiftOf
      <4>2. PICK u \in StateNodeNos' : \E t \in StateNodes'[u].children :
              /\ shift.from \in SymbolNodes'[t].down
              /\ SymbolNodes'[t].symbol = shift.symbol /\ SymbolNodes'[t].start = wordNo - 1
              /\ SymbolNodes'[t].end = wordNo /\ SymbolNodes'[t].item = LeafItem(shift.symbol)
        BY <1>2 DEF ShiftMade
      <4>3. PICK t \in StateNodes'[u].children :
              /\ shift.from \in SymbolNodes'[t].down
              /\ SymbolNodes'[t].symbol = shift.symbol /\ SymbolNodes'[t].start = wordNo - 1
              /\ SymbolNodes'[t].end = wordNo /\ SymbolNodes'[t].item = LeafItem(shift.symbol)
        BY <4>2
      <4>4. b + 1 = wordNo  BY <1>7, <2>2, SymbolsFacts
      <4>5. Entry(t)' = <<X, b, b + 1, LeafItem(X)>>  BY <2>2, <4>1, <4>3, <4>4 DEF Entry
      <4>6. HasEdge(v, <<X, b, b + 1, LeafItem(X)>>)'  BY <4>1, <4>3, <4>5 DEF HasEdge
      <4> QED BY <4>6 DEF Shifted
    <3>2. CASE ShiftOf(v, X) # shift
      <4>1. ShiftOf(v, X)' = ShiftOf(v, X)  BY <1>1, <1>3 DEF ShiftOf, Goto, Grown
      <4>2. ShiftOf(v, X) \in PendingShifts'  BY <1>2, <2>2, <3>2 DEF ShiftMade
      <4> QED BY <1>1, <2>2, <4>1, <4>2 DEF Shifted
    <3> QED BY <3>1, <3>2
  <2>3. UNCHANGED startPoints  BY <1>1
  <2> QED BY ONLY IInv, ShiftedInv, <1>3, <1>6, <2>1, <2>2, <2>3, ShiftedKept
<1> QED BY <1>8, <1>9

LEMMA InputUnchanged ==
    ASSUME [Next]_vars
    PROVE  UNCHANGED <<table, words, breakAfterMax, startPoints>>
  BY DEF Next, vars, input, BeginWord, Actor, Reducer, RejectPath, PackPath, LinkPath, EndReducer,
         CloseLevel, Shifter, EndWord, Collect

\* A step of ParseSymbol's loop that leaves the word does so at a limit.
LEMMA BrokenOff ==
    ASSUME Actor \/ EndReducer, pc' # "loop"
    PROVE  ~Unbroken'
<1>1. /\ pc' = AfterStep(SymbolNodes, createdGroups)
      /\ UNCHANGED <<SymbolNodes, createdGroups, breakAfterMax>>
  BY DEF Actor, EndReducer, input, stack
<1>2. TooMany(SymbolNodes, createdGroups) /\ pc' = "found"  BY <1>1 DEF AfterStep
<1>3. TooMany(SymbolNodes, createdGroups)'  BY <1>1, <1>2 DEF TooMany, TooManyNodes
<1> QED BY <1>2, <1>3 DEF Unbroken

LEMMA WorkStep ==
    ASSUME IInv, IInv', WorkInv, [Next]_vars
    PROVE  WorkInv'
<1> SUFFICES ASSUME startPoints' # {}, Unbroken' PROVE ReduceInv' /\ ShiftedInv'  BY DEF WorkInv
<1>0. Unbroken => ReduceInv /\ ShiftedInv  BY InputUnchanged DEF WorkInv
<1>1. CASE BeginWord
  <2>1. Unbroken  BY <1>1 DEF BeginWord, Unbroken
  <2> QED BY <1>0, <1>1, <2>1, BeginWordWork
<1>2. CASE Actor
  <2>1. Unbroken /\ pc' = "loop"  BY <1>2, BrokenOff DEF Actor, Unbroken
  <2> QED BY <1>0, <1>2, <2>1, ActorWork
<1>3. CASE Reducer
  <2>1. Unbroken  BY <1>3 DEF Reducer, Unbroken
  <2> QED BY <1>0, <1>3, <2>1, ReducerWork
<1>4. CASE RejectPath
  <2>1. Unbroken  BY <1>4 DEF RejectPath, Unbroken
  <2> QED BY <1>0, <1>4, <2>1, RejectPathWork
<1>5. CASE PackPath
  <2>1. Unbroken  BY <1>5 DEF PackPath, Unbroken
  <2> QED BY <1>0, <1>5, <2>1, PackPathWork
<1>6. CASE LinkPath
  <2>1. Unbroken  BY <1>6 DEF LinkPath, Unbroken
  <2> QED BY <1>0, <1>6, <2>1, LinkPathWork
<1>7. CASE EndReducer
  <2>1. Unbroken /\ pc' = "loop"  BY <1>7, BrokenOff DEF EndReducer, Unbroken
  <2> QED BY <1>0, <1>7, <2>1, EndReducerWork
<1>8. CASE CloseLevel
  <2>1. Unbroken  BY <1>8 DEF CloseLevel, Unbroken
  <2> QED BY <1>0, <1>8, <2>1, CloseLevelWork
<1>9. CASE Shifter
  <2>1. Unbroken  BY <1>9 DEF Shifter, Unbroken
  <2> QED BY <1>0, <1>9, <2>1, ShifterWork
<1>10. CASE EndWord
  <2>1. Unbroken  BY <1>10 DEF EndWord, Unbroken
  <2> QED BY <1>0, <1>10, <2>1, EndWordWork
<1>11. CASE Collect
  <2>1. UNCHANGED <<SymbolNodes, createdGroups, breakAfterMax>> /\ pc' = "done"
    BY <1>11 DEF Collect, input, stack
  <2>2. Unbroken  BY <2>1 DEF Unbroken, TooMany, TooManyNodes
  <2> QED BY <1>0, <1>11, <2>2, CollectWork
<1>12. CASE UNCHANGED vars
  <2>1. UNCHANGED <<SymbolNodes, createdGroups, breakAfterMax, pc>>  BY <1>12 DEF vars, input
  <2>2. Unbroken  BY <2>1 DEF Unbroken, TooMany, TooManyNodes
  <2> QED BY <1>0, <1>12, <2>2, StutterWork
<1> QED BY <1>1, <1>2, <1>3, <1>4, <1>5, <1>6, <1>7, <1>8, <1>9, <1>10, <1>11, <1>12 DEF Next

LEMMA ItemStep ==
    ASSUME IInv, ItemInv, [Next]_vars
    PROVE  ItemInv'
<1>1. CASE PackPath
  <2>1. PICK path \in todo : \E s, p, D, P : Packs(path, s, p, D, P)  BY <1>1, PackPathPacks
  <2>2. PICK s, p, D, P : Packs(path, s, p, D, P)  BY <2>1
  <2>3. TouchStep(s, D, P)  BY <2>2 DEF Packs
  <2>4. /\ SymbolNodeNos' = SymbolNodeNos
        /\ \A t \in SymbolNodeNos :
              /\ SymbolNodes'[t].item = SymbolNodes[t].item
              /\ SymbolNodes'[t].parses = <<>> <=> SymbolNodes[t].parses = <<>>
    BY <2>3, TouchedNodes
  <2> QED BY <2>4 DEF ItemInv
<1>2. CASE LinkPath
  <2>1. PICK path \in todo : \E state, node, m, p, e : Links(path, state, node, m, p, e)
    BY <1>2, LinkPathLinks
  <2>2. PICK state, node, m, p, e : Links(path, state, node, m, p, e)  BY <2>1
  <2>3. Linked(state, node, e) /\ m = Len(SymbolNodes) + 1 /\ e.item # NoItem
    BY <2>2 DEF Links, LinkStep
  <2>4. SymbolNodeNos' = SymbolNodeNos \cup {m}  BY <2>3, LinkedNodes DEF IInv
  <2>5. (\A t \in SymbolNodeNos : SymbolNodes'[t] = SymbolNodes[t]) /\ SymbolNodes'[m] = e
    BY <2>3 DEF Linked
  <2> QED BY <2>3, <2>4, <2>5 DEF ItemInv
<1>3. CASE Shifter
  <2>1. PICK shift \in PendingShifts : ShiftMade(shift)  BY <1>3, ShifterMakes
  <2>2. \A s \in SymbolNodeNos' :
          SymbolNodes'[s].parses = <<>> \/ (s \in SymbolNodeNos /\ SymbolNodes'[s] = SymbolNodes[s])
    BY <2>1 DEF ShiftMade
  <2> QED BY <2>2 DEF ItemInv
<1>4. CASE UNCHANGED SymbolNodes
  BY <1>4 DEF ItemInv, SymbolNodeNos
<1>5. PackPath \/ LinkPath \/ Shifter \/ UNCHANGED SymbolNodes
  BY DEF Next, vars, stack, BeginWord, Actor, Reducer, RejectPath, EndReducer, CloseLevel,
         EndWord, Collect
<1> QED BY <1>1, <1>2, <1>3, <1>4, <1>5

LEMMA EndStep ==
    ASSUME IInv, EndInv, [Next]_vars
    PROVE  EndInv'
<1>1. CASE EndWord
  <2>1. /\ pc = "shift" /\ PendingShifts = {}
        /\ InputLevels' = [InputLevels EXCEPT ![Len(InputLevels)] = Len(StateNodes)]
        /\ pc' = "word" \/ (~(wordNo <= Len(words)) /\ pc' = "found" /\ wordNo' = wordNo)
        /\ UNCHANGED <<words, PendingReductions, PendingShifts>>
    BY <1>1 DEF EndWord, input
  <2>2. InputInv /\ ShapeInv /\ LevelInv /\ PendingInv  BY DEF IInv
  <2>3. PendingReductions = {}  BY <2>1, <2>2 DEF PendingInv
  <2>4. wordNo \in 1..(Len(words) + 1) /\ Len(words) \in Nat  BY <2>2, SymbolsFacts DEF InputInv
  <2>5. ~(wordNo <= Len(words)) => wordNo = Len(words) + 1  BY <2>4
  <2>6. Len(InputLevels') = Len(InputLevels)
    <3>1. PICK n, top, new : n = Len(InputLevels) /\ top = Len(StateNodes) /\ new = InputLevels'
      OBVIOUS
    <3>2. new = [InputLevels EXCEPT ![n] = top]  BY <2>1, <3>1
    <3>3. IsRaised(n, top, new)  BY <2>2, <3>1, <3>2, LevelsRaised DEF RaisedLevels
    <3> QED BY <3>1, <3>3 DEF IsRaised
  <2>7. Len(InputLevels) = wordNo + 1  BY <2>1, <2>2 DEF LevelInv
  <2>8. pc' # "done" /\ (pc' = "word" \/ wordNo' = wordNo)  BY <2>1
  <2> QED BY ONLY <2>1, <2>3, <2>5, <2>6, <2>7, <2>8 DEF EndInv
<1>2. CASE Collect
  <2>1. /\ pc = "found" /\ pc' = "done"
        /\ Occurrences' = {s \in DOMAIN SymbolNodes : SymbolNodes[s].symbol = table.root}
        /\ UNCHANGED <<table, words, breakAfterMax, startPoints, wordNo, SymbolNodes, InputLevels>>
        /\ UNCHANGED <<PendingReductions, PendingShifts, createdGroups>>
    BY <1>2 DEF Collect, input, stack
  <2>2. DOMAIN SymbolNodes = SymbolNodeNos  BY NodeFacts DEF IInv
  <2>3. SymbolNodeNos' = SymbolNodeNos  BY <2>1 DEF SymbolNodeNos
  <2>4. Unbroken' => Unbroken  BY <2>1 DEF Unbroken, TooMany, TooManyNodes
  <2> QED BY <2>1, <2>2, <2>3, <2>4 DEF EndInv
<1>3. CASE UNCHANGED vars
  <2>1. /\ UNCHANGED <<table, words, breakAfterMax, startPoints, wordNo, SymbolNodes, InputLevels>>
        /\ UNCHANGED <<pc, PendingReductions, PendingShifts, createdGroups, Occurrences>>
    BY <1>3 DEF vars, input
  <2>2. SymbolNodeNos' = SymbolNodeNos  BY <2>1 DEF SymbolNodeNos
  <2>3. Unbroken' => Unbroken  BY <2>1 DEF Unbroken, TooMany, TooManyNodes
  <2> QED BY <2>1, <2>2, <2>3 DEF EndInv
<1>4. CASE Actor \/ EndReducer
  <2>1. pc' # "done" /\ (pc' = "found" => ~Unbroken')
    BY <1>4, BrokenOff DEF Actor, EndReducer, AfterStep
  <2> QED BY <2>1 DEF EndInv
<1>5. CASE BeginWord \/ Reducer \/ RejectPath \/ PackPath \/ LinkPath \/ CloseLevel \/ Shifter
  <2>1. pc' \notin {"found", "done"}
    BY <1>5 DEF BeginWord, Reducer, RejectPath, PackPath, LinkPath, CloseLevel, Shifter
  <2> QED BY <2>1 DEF EndInv
<1> QED BY <1>1, <1>2, <1>3, <1>4, <1>5 DEF Next

\* What is known of the work done, of the input and of the end.
AllInv == WorkInv /\ ItemInv /\ WordsInv /\ EndInv

LEMMA InitAll ==
    ASSUME Init
    PROVE  AllInv
<1>1. /\ pc = (IF startPoints = {} THEN "done" ELSE "word") /\ wordNo = 1
      /\ words \in Sentences /\ SymbolNodes = <<>> /\ InputLevels = <<1>>
      /\ StateNodes = <<[state |-> 1, children |-> {}]>>
      /\ PendingReductions = {} /\ PendingShifts = {} /\ Occurrences = {}
      /\ ActiveNodes = {}
  BY DEF Init
<1>2. PICK p \in Parsers : table = p[1]  BY DEF Init
<1>3. StateNodeNos = {1} /\ SymbolNodeNos = {} /\ StateNodes[1].children = {}
  BY <1>1 DEF StateNodeNos, SymbolNodeNos
<1>4. ItemInv  BY <1>3 DEF ItemInv
<1>5. WordsInv  BY <1>1, <1>2, TableAssumption, EndmarkAssumption DEF WordsInv
<1>6. EndInv
  <2>1. startPoints # {} => pc \notin {"found", "done"}  BY <1>1
  <2>2. {s \in SymbolNodeNos : SymbolNodes[s].symbol = table.root} = {}  BY <1>3
  <2> QED BY <1>1, <2>1, <2>2 DEF EndInv
<1>7. ReduceInv  BY <1>3 DEF ReduceInv
<1>8. ASSUME startPoints # {} PROVE ShiftedInv
  <2> SUFFICES ASSUME NEW v \in StateNodeNos, NEW b \in 0..(wordNo - 1), Passed(v, b)
               PROVE  FALSE
    BY DEF ShiftedInv
  <2>1. b = wordNo - 1 /\ pc = "word"  BY <1>1, <1>8
  <2> QED BY <2>1 DEF Passed
<1> QED BY <1>4, <1>5, <1>6, <1>7, <1>8 DEF AllInv, WorkInv

LEMMA AllAlways == Spec => [](IInv /\ AllInv)
<1>1. Init => IInv /\ AllInv  BY InitInv, InitAll
<1>2. ASSUME IInv, AllInv, [Next]_vars PROVE IInv' /\ AllInv'
  <2>1. IInv'  BY <1>2, NextInv
  <2>2. WorkInv' /\ ItemInv' /\ EndInv'  BY <1>2, <2>1, WorkStep, ItemStep, EndStep DEF AllInv
  <2>3. WordsInv'  BY <1>2, InputUnchanged DEF AllInv, WordsInv
  <2> QED BY <2>1, <2>2, <2>3 DEF AllInv
<1>3. IInv /\ AllInv /\ [Next]_vars => (IInv /\ AllInv)'  BY <1>2
<1> QED BY <1>1, <1>3, PTL DEF Spec

\* Nothing is reported that the root does not derive, over just these words and
\* with just this item, however the parse ended: ApplyGLR_Parsing collects
\* symbol nodes, and the first parse of each is made of older ones.
THEOREM OccurrencesAreSoundAlways == Spec => []OccurrencesAreSound
<1>1. IInv /\ AllInv => OccurrencesAreSound
  <2> SUFFICES ASSUME IInv, AllInv, pc = "done"
               PROVE  \E height \in 0..Len(SymbolNodes) : \A s \in Occurrences :
                          SymbolNodes[s].symbol = table.root /\ Entry(s) \in Chart[height]
    BY DEF OccurrencesAreSound
  <2>1. Len(SymbolNodes) \in Nat  BY NodeFacts DEF IInv
  <2>2. Occurrences = {s \in SymbolNodeNos : SymbolNodes[s].symbol = table.root}
    BY DEF AllInv, EndInv
  <2>3. ASSUME NEW s \in SymbolNodeNos PROVE Entry(s) \in Chart[Len(SymbolNodes)]
    <3>1. Entry(s) \in Chart[s]  BY NodesAreDerived DEF AllInv
    <3>2. PICK n : n = Len(SymbolNodes)  OBVIOUS
    <3>3. s \in Nat /\ n \in Nat /\ s <= n  BY <2>1, <3>2 DEF SymbolNodeNos
    <3>4. Chart[s] \subseteq Chart[n]  BY <3>3, ChartGrows
    <3> QED BY <3>1, <3>2, <3>4
  <2>4. Len(SymbolNodes) \in 0..Len(SymbolNodes)  BY <2>1
  <2> QED BY <2>2, <2>3, <2>4
<1> QED BY <1>1, AllAlways, PTL

-----------------------------------------------------------------------------
(* Proofs: completeness                                                    *)

LeftParts == {table.rules[r].left : r \in DOMAIN table.rules}

\* The terminals with which a symbol begins.
Opening(X) == IF X \in LeftParts THEN table.first[X] ELSE {X}

LEMMA CompleteFacts ==
    ASSUME InputInv, WordsInv, NEW r \in DOMAIN table.rules,
           NEW left, left = table.rules[r].left, NEW right, right = table.rules[r].right,
           NEW n, n = RuleLength(r)
    PROVE  /\ n \in Nat \ {0} /\ n = Len(right) /\ left \in LeftParts
           /\ \A i \in States : HasGoto(i, left) => <<r, 0>> \in table.items[i]
           /\ \A i \in States : \A k \in 1..n : <<r, k - 1>> \in table.items[i] =>
                 HasGoto(i, right[k]) /\ <<r, k>> \in table.items[Goto(i, right[k])]
           /\ \A i \in States : <<r, n>> \in table.items[i] =>
                 \A X \in table.follow[left] : r \in table.reduce[<<i, X>>]
           /\ Opening(right[1]) \subseteq table.first[left]
           /\ \A k \in 1..(n - 1) : Opening(right[k + 1]) \subseteq table.follow[right[k]]
           /\ right[n] \in LeftParts => table.follow[left] \subseteq table.follow[right[n]]
<1>1. n \in Nat \ {0} /\ n = Len(right)  BY RuleFacts DEF RuleLength
<1>2. left \in LeftParts  BY DEF LeftParts
<1>3. right[n] \in LeftParts => right[n] \notin Readings(table)  BY DEF LeftParts, Readings
<1>4. IsComplete(table)  BY DEF WordsInv
<1>5. \A i \in States : HasGoto(i, left) => <<r, 0>> \in table.items[i]
  BY <1>4 DEF IsComplete, HasGoto, States
<1>6. \A i \in States : \A k \in 1..n : <<r, k - 1>> \in table.items[i] =>
          HasGoto(i, right[k]) /\ <<r, k>> \in table.items[Goto(i, right[k])]
  BY <1>1, <1>4 DEF IsComplete, HasGoto, Goto, States
<1>7. \A i \in States : <<r, n>> \in table.items[i] =>
          \A X \in table.follow[left] : r \in table.reduce[<<i, X>>]
  BY <1>1, <1>4 DEF IsComplete, States
<1>8. Opening(right[1]) \subseteq table.first[left]
  BY <1>4 DEF IsComplete, Opening, LeftParts
<1>9. \A k \in 1..(n - 1) : Opening(right[k + 1]) \subseteq table.follow[right[k]]
  BY <1>1, <1>4 DEF IsComplete, Opening, LeftParts
<1>10. right[n] \in LeftParts => table.follow[left] \subseteq table.follow[right[n]]
  BY <1>1, <1>3, <1>4 DEF IsComplete
<1> QED BY <1>1, <1>2, <1>5, <1>6, <1>7, <1>8, <1>9, <1>10

\* Where an entry stands, and that it begins with a word its symbol can begin
\* with.
Placed(e) ==
    /\ e[2] \in Nat /\ e[3] \in Nat /\ e[2] < e[3] /\ e[3] <= Len(words)
    /\ \E X \in words[e[2] + 1] : X \in Opening(e[1])

LEMMA RowPlaced ==
    ASSUME InputInv, WordsInv, NEW r \in DOMAIN table.rules, NEW C, \A e \in C : Placed(e),
           NEW rule, rule = table.rules[r], NEW row \in Rows(C, rule)
    PROVE  Placed(RowEntry(rule, row))
<1>1. PICK n, right : n = RuleLength(r) /\ right = rule.right  OBVIOUS
<1>2. n \in Nat \ {0} /\ n = Len(right) /\ Opening(right[1]) \subseteq table.first[rule.left]
      /\ rule.left \in LeftParts
  <2>1. PICK left : left = rule.left  OBVIOUS
  <2> QED BY <1>1, <2>1, CompleteFacts
<1>3. /\ row \in [1..n -> C] /\ row[1][1] = right[1]
      /\ \A i \in 1..(n - 1) : row[i][3] = row[i + 1][2]
  BY <1>1, <1>2 DEF Rows
<1>4. \A i \in 1..n : Placed(row[i])  BY <1>3
<1>5. 1 \in 1..n /\ n \in 1..n  BY <1>2
<1>6. row[1][2] \in Nat /\ row[n][3] \in Nat /\ row[n][3] <= Len(words)
  BY <1>4, <1>5 DEF Placed
<1>7. row[1][2] < row[n][3]
  <2> DEFINE S == {i \in 1..n : row[1][2] < row[i][3]}
  <2>1. 1 \in S  BY <1>4, <1>5 DEF Placed
  <2>2. ASSUME NEW i \in 1..n, i + 1 \in 1..n, i \in S PROVE i + 1 \in S
    <3>1. i \in 1..(n - 1)  BY <1>2, <2>2
    <3>2. row[i][3] = row[i + 1][2]  BY <1>3, <3>1
    <3>3. row[1][2] < row[i][3]  BY <2>2
    <3>4. /\ row[i][3] \in Nat /\ row[i + 1][3] \in Nat
          /\ row[i + 1][2] < row[i + 1][3]
      BY <1>4, <2>2 DEF Placed
    <3>5. row[1][2] < row[i + 1][3]  BY <1>6, <3>2, <3>3, <3>4
    <3> QED BY <2>2, <3>5
  <2>3. \A i \in 1..n : i \in S
    <3> HIDE DEF S
    <3>1. n \in Nat  BY <1>2
    <3> QED BY <2>1, <2>2, <3>1, UpInduction
  <2> QED BY <1>5, <2>3
<1>8. PICK X \in words[row[1][2] + 1] : X \in Opening(rule.left)
  <2>1. PICK X \in words[row[1][2] + 1] : X \in Opening(row[1][1])  BY <1>4, <1>5 DEF Placed
  <2>2. X \in table.first[rule.left]  BY <1>2, <1>3, <2>1
  <2> QED BY <1>2, <2>1, <2>2 DEF Opening
<1>9. PICK e : e = RowEntry(rule, row)  OBVIOUS
<1>10. e[1] = rule.left /\ e[2] = row[1][2] /\ e[3] = row[n][3]
  BY <1>1, <1>2, <1>9 DEF RowEntry
<1>11. Placed(e)  BY <1>6, <1>7, <1>8, <1>10 DEF Placed
<1> QED BY <1>9, <1>11

LEMMA LeafPlaced ==
    ASSUME InputInv, NEW e \in LeafEntries
    PROVE  /\ Placed(e)
           /\ \E X \in words[e[2] + 1] : X # Endmark /\ e = <<X, e[2], e[2] + 1, LeafItem(X)>>
<1>1. PICK i \in DOMAIN words : \E X \in words[i] \ {Endmark} : e = <<X, i - 1, i, LeafItem(X)>>
  BY DEF LeafEntries
<1>2. PICK X \in words[i] \ {Endmark} : e = <<X, i - 1, i, LeafItem(X)>>  BY <1>1
<1>3. i \in 1..Len(words) /\ Len(words) \in Nat /\ words[i] \subseteq Readings(table)
  <2>1. words \in Seq(SUBSET Readings(table))  BY DEF InputInv
  <2> QED BY <1>1, <2>1
<1>4. PICK b : b = i - 1  OBVIOUS
<1>5. b \in Nat /\ i = b + 1  BY <1>3, <1>4
<1>6. e = <<X, b, b + 1, LeafItem(X)>>  BY <1>2, <1>4, <1>5
<1>7. e[1] = X /\ e[2] = b /\ e[3] = b + 1  BY <1>6
<1>8. X \in words[b + 1] /\ X # Endmark  BY <1>2, <1>5
<1>9. X \in Opening(X)  BY <1>2, <1>3 DEF Opening, LeftParts, Readings
<1>10. b + 1 <= Len(words)  BY <1>3, <1>5
<1>11. Placed(e)  BY <1>5, <1>7, <1>8, <1>9, <1>10 DEF Placed
<1> QED BY <1>6, <1>7, <1>8, <1>11

LEMMA ChartPlaced ==
    ASSUME InputInv, WordsInv
    PROVE  \A h \in Nat : \A e \in Chart[h] : Placed(e)
<1> DEFINE S == {h \in Nat : \A e \in Chart[h] : Placed(e)}
<1>1. 0 \in S  BY ChartDef, LeafPlaced
<1>2. ASSUME NEW h \in Nat, h \in S PROVE h + 1 \in S
  <2>1. PICK C : C = Chart[h]  OBVIOUS
  <2>2. \A e \in C : Placed(e)  BY <1>2, <2>1
  <2>3. ASSUME NEW e \in Applied(C) PROVE Placed(e)
    <3>1. PICK r \in DOMAIN table.rules : \E row \in Rows(C, table.rules[r]) :
              e = RowEntry(table.rules[r], row)
      BY DEF Applied
    <3>2. PICK rule : rule = table.rules[r]  OBVIOUS
    <3>3. PICK row \in Rows(C, rule) : e = RowEntry(rule, row)  BY <3>1, <3>2
    <3>4. Placed(RowEntry(rule, row))  BY <2>2, <3>2, RowPlaced
    <3> QED BY <3>3, <3>4
  <2>4. Chart[h + 1] = C \cup Applied(C)  BY <2>1, ChartDef
  <2> QED BY <2>2, <2>3, <2>4
<1> HIDE DEF S
<1>3. \A h \in Nat : h \in S  BY <1>1, <1>2, NatUp
<1> QED BY <1>3 DEF S

\* The parse has come to its end with nothing left to do.
AtEnd ==
    /\ ReduceInv /\ ShiftedInv /\ WordsInv
    /\ pc = "done" /\ wordNo = Len(words) + 1 /\ Len(InputLevels) = wordNo + 1
    /\ PendingReductions = {} /\ PendingShifts = {}

\* A word follows that lets the symbol of an entry be used, and the entry is in
\* the stack on top of whatever can use it.
Usable(e) == e[1] \in LeftParts => \E X \in table.follow[e[1]] : X \in SymbolsAt(e[3])

InStack(e) ==
    \A v \in StateNodeNos :
        (Stands(v, e[2]) /\ HasGoto(StateNodes[v].state, e[1]) /\ Usable(e)) => HasEdge(v, e)

LEMMA LeafInStack ==
    ASSUME IInv, AtEnd, NEW e \in LeafEntries
    PROVE  InStack(e)
<1> SUFFICES ASSUME NEW v \in StateNodeNos, Stands(v, e[2]), HasGoto(StateNodes[v].state, e[1])
             PROVE  HasEdge(v, e)
  BY DEF InStack
<1>1. InputInv  BY DEF IInv
<1>2. PICK b : b = e[2]  OBVIOUS
<1>3. Placed(e) /\ \E X \in words[b + 1] : X # Endmark /\ e = <<X, b, b + 1, LeafItem(X)>>
  BY <1>1, <1>2, LeafPlaced
<1>4. PICK X \in words[b + 1] : e = <<X, b, b + 1, LeafItem(X)>>  BY <1>3
<1>5. e[1] = X /\ e[3] = b + 1  BY <1>4
<1>6. Len(words) \in Nat /\ b \in Nat /\ b + 1 <= Len(words)
  BY <1>1, <1>2, <1>3, <1>5, SymbolsFacts DEF Placed
<1>7. b \in 0..(wordNo - 1) /\ b # wordNo - 1  BY <1>6 DEF AtEnd
<1>8. Passed(v, b)  BY <1>2, <1>7 DEF Passed
<1>9. X \in SymbolsAt(b)  BY <1>4, <1>6 DEF SymbolsAt
<1>10. Shifted(v, b, X)  BY <1>5, <1>7, <1>8, <1>9 DEF AtEnd, ShiftedInv
<1>11. HasEdge(v, <<X, b, b + 1, LeafItem(X)>>)  BY <1>7, <1>10 DEF Shifted
<1> QED BY <1>4, <1>11

\* The nodes q over the state nodes u that spell the first k entries of a row of
\* rule r, from state node v upwards.
Climbs(q, u, k, r, v, row) ==
    /\ q \in [1..k -> SymbolNodeNos] /\ u \in [0..k -> StateNodeNos] /\ u[0] = v
    /\ <<r, k>> \in table.items[StateNodes[u[k]].state]
    /\ \A i \in 1..k : /\ q[i] \in StateNodes[u[i]].children
                       /\ u[i - 1] \in SymbolNodes[q[i]].down
                       /\ Entry(q[i]) = row[i]

LEMMA ClimbOne ==
    ASSUME NEW k \in Nat, NEW r, NEW v, NEW row, NEW q, NEW u, Climbs(q, u, k, r, v, row),
           NEW s \in SymbolNodeNos, NEW w \in StateNodeNos,
           s \in StateNodes[w].children, u[k] \in SymbolNodes[s].down, Entry(s) = row[k + 1],
           <<r, k + 1>> \in table.items[StateNodes[w].state]
    PROVE  \E q2, u2 : Climbs(q2, u2, k + 1, r, v, row)
<1> DEFINE q2 == [i \in 1..(k + 1) |-> IF i = k + 1 THEN s ELSE q[i]]
           u2 == [i \in 0..(k + 1) |-> IF i = k + 1 THEN w ELSE u[i]]
<1>1. /\ q \in [1..k -> SymbolNodeNos] /\ u \in [0..k -> StateNodeNos] /\ u[0] = v
      /\ \A i \in 1..k : /\ q[i] \in StateNodes[u[i]].children
                         /\ u[i - 1] \in SymbolNodes[q[i]].down
                         /\ Entry(q[i]) = row[i]
  BY DEF Climbs
<1>2. q2 \in [1..(k + 1) -> SymbolNodeNos]
  <2>1. ASSUME NEW i \in 1..(k + 1), i # k + 1 PROVE i \in 1..k  BY <2>1
  <2> QED BY <1>1, <2>1
<1>3. u2 \in [0..(k + 1) -> StateNodeNos]
  <2>1. ASSUME NEW i \in 0..(k + 1), i # k + 1 PROVE i \in 0..k  BY <2>1
  <2> QED BY <1>1, <2>1
<1>4. u2[0] = v /\ u2[k + 1] = w /\ q2[k + 1] = s /\ u2[k] = u[k]
  <2>1. 0 \in 0..(k + 1) /\ 0 # k + 1 /\ k \in 0..(k + 1) /\ k # k + 1
        /\ k + 1 \in 1..(k + 1) /\ k + 1 \in 0..(k + 1)
    OBVIOUS
  <2> QED BY <1>1, <2>1
<1>5. ASSUME NEW i \in 1..(k + 1)
      PROVE  /\ q2[i] \in StateNodes[u2[i]].children
             /\ u2[i - 1] \in SymbolNodes[q2[i]].down
             /\ Entry(q2[i]) = row[i]
  <2>1. CASE i = k + 1
    <3>1. i - 1 = k  BY <2>1
    <3> HIDE DEF q2, u2
    <3> QED BY <1>4, <2>1, <3>1
  <2>2. CASE i # k + 1
    <3>1. i \in 1..k /\ i \in 0..(k + 1) /\ i - 1 \in 0..(k + 1) /\ i - 1 # k + 1  BY <2>2
    <3>2. q2[i] = q[i] /\ u2[i] = u[i] /\ u2[i - 1] = u[i - 1]  BY <2>2, <3>1
    <3> HIDE DEF q2, u2
    <3> QED BY <1>1, <3>1, <3>2
  <2> QED BY <2>1, <2>2
<1> HIDE DEF q2, u2
<1>6. Climbs(q2, u2, k + 1, r, v, row)  BY <1>2, <1>3, <1>4, <1>5 DEF Climbs
<1> QED BY <1>6

\* The entries of a row lie in the stack, one on top of the other.
LEMMA RowClimbs ==
    ASSUME IInv, AtEnd, NEW C, \A e \in C : Placed(e) /\ InStack(e),
           NEW r \in DOMAIN table.rules, NEW rule, rule = table.rules[r],
           NEW row \in Rows(C, rule), NEW n, n = RuleLength(r), NEW v \in StateNodeNos,
           Stands(v, row[1][2]), HasGoto(StateNodes[v].state, rule.left),
           NEW X \in table.follow[rule.left], X \in SymbolsAt(row[n][3])
    PROVE  \E q, u : Climbs(q, u, n, r, v, row)
<1>1. InputInv /\ WordsInv /\ ShapeInv /\ LinkInv  BY DEF IInv, AtEnd
<1>2. PICK left, right : left = rule.left /\ right = rule.right  OBVIOUS
<1>3. /\ n \in Nat \ {0} /\ n = Len(right) /\ left \in LeftParts
      /\ \A i \in States : HasGoto(i, left) => <<r, 0>> \in table.items[i]
      /\ \A i \in States : \A k \in 1..n : <<r, k - 1>> \in table.items[i] =>
            HasGoto(i, right[k]) /\ <<r, k>> \in table.items[Goto(i, right[k])]
      /\ \A k \in 1..(n - 1) : Opening(right[k + 1]) \subseteq table.follow[right[k]]
      /\ right[n] \in LeftParts => table.follow[left] \subseteq table.follow[right[n]]
  BY <1>1, <1>2, CompleteFacts
<1>4. /\ row \in [1..n -> C] /\ \A i \in 1..n : row[i][1] = right[i]
      /\ \A i \in 1..(n - 1) : row[i][3] = row[i + 1][2]
  BY <1>2, <1>3 DEF Rows
<1>5. \A i \in 1..n : Placed(row[i]) /\ InStack(row[i])  BY <1>4
<1>6. \A w \in StateNodeNos : StateNodes[w].state \in States  BY <1>1, NodeFacts
<1>7. ASSUME NEW k \in 1..n PROVE Usable(row[k])
  <2> SUFFICES ASSUME right[k] \in LeftParts
               PROVE  \E Y \in table.follow[right[k]] : Y \in SymbolsAt(row[k][3])
    BY <1>4 DEF Usable
  <2>1. CASE k = n  BY <1>2, <1>3, <2>1
  <2>2. CASE k # n
    <3>1. k \in 1..(n - 1) /\ k + 1 \in 1..n  BY <1>3, <2>2
    <3>2. PICK b : b = row[k + 1][2]  OBVIOUS
    <3>3. PICK Y \in words[b + 1] : Y \in Opening(row[k + 1][1])
      BY <1>5, <3>1, <3>2 DEF Placed
    <3>4. b \in Nat /\ b + 1 <= Len(words)
      <4>1. PICK c : c = row[k + 1][3]  OBVIOUS
      <4>2. b \in Nat /\ c \in Nat /\ b < c /\ c <= Len(words)
        BY <1>5, <3>1, <3>2, <4>1 DEF Placed
      <4>3. Len(words) \in Nat  BY <1>1, SymbolsFacts
      <4> QED BY <4>2, <4>3
    <3>5. Y \in SymbolsAt(b)  BY <3>3, <3>4 DEF SymbolsAt
    <3>6. Y \in table.follow[right[k]]  BY <1>3, <1>4, <3>1, <3>3
    <3>7. row[k][3] = b  BY <1>4, <3>1, <3>2
    <3> QED BY <3>5, <3>6, <3>7
  <2> QED BY <2>1, <2>2
<1> DEFINE S == {k \in Nat : k <= n => \E q, u : Climbs(q, u, k, r, v, row)}
<1>8. 0 \in S
  <2>1. PICK q, u : q = [i \in 1..0 |-> 1] /\ u = [i \in 0..0 |-> v]  OBVIOUS
  <2>2. q \in [1..0 -> SymbolNodeNos]  BY <2>1
  <2>3. u \in [0..0 -> StateNodeNos] /\ u[0] = v  BY <2>1
  <2>4. <<r, 0>> \in table.items[StateNodes[v].state]  BY <1>2, <1>3, <1>6
  <2>5. Climbs(q, u, 0, r, v, row)  BY <2>2, <2>3, <2>4 DEF Climbs
  <2> QED BY <2>5
<1>9. ASSUME NEW k \in Nat, k \in S PROVE k + 1 \in S
  <2> SUFFICES ASSUME k + 1 <= n PROVE \E q, u : Climbs(q, u, k + 1, r, v, row)  OBVIOUS
  <2>1. PICK q, u : Climbs(q, u, k, r, v, row)
    <3>1. k <= n  BY <1>3
    <3> QED BY <1>9, <3>1
  <2>2. PICK d, e : d = u[k] /\ e = row[k + 1]  OBVIOUS
  <2>3. k + 1 \in 1..n /\ (k + 1) - 1 = k /\ k \in 0..k  BY <1>3
  <2>4. d \in StateNodeNos /\ <<r, k>> \in table.items[StateNodes[d].state]
    BY <2>1, <2>2, <2>3 DEF Climbs
  <2>5. PICK i : i = StateNodes[d].state  OBVIOUS
  <2>6. HasGoto(i, right[k + 1]) /\ <<r, k + 1>> \in table.items[Goto(i, right[k + 1])]
    BY <1>3, <1>6, <2>3, <2>4, <2>5
  <2>7. e[1] = right[k + 1] /\ Usable(e) /\ InStack(e)  BY <1>4, <1>5, <1>7, <2>2, <2>3
  <2>8. Stands(d, e[2])
    <3>1. CASE k = 0  BY <2>1, <2>2, <3>1 DEF Climbs
    <3>2. CASE k # 0
      <4>1. k \in 1..k /\ k \in 1..(n - 1)  BY <1>3, <3>2
      <4>2. PICK s : s = q[k]  OBVIOUS
      <4>3. s \in StateNodes[d].children /\ Entry(s) = row[k]
        BY <2>1, <2>2, <4>1, <4>2 DEF Climbs
      <4>4. SymbolNodes[s].end = Border(d)  BY <2>4, <4>3, OwnerBorder
      <4>5. row[k][3] = SymbolNodes[s].end  BY <4>3 DEF Entry
      <4>6. row[k][3] = e[2]  BY <1>4, <2>2, <4>1
      <4> QED BY <4>4, <4>5, <4>6 DEF Stands
    <3> QED BY <3>1, <3>2
  <2>9. HasEdge(d, e)  BY <2>4, <2>5, <2>6, <2>7, <2>8 DEF InStack
  <2>10. PICK w \in StateNodeNos : \E s \in StateNodes[w].children :
            d \in SymbolNodes[s].down /\ Entry(s) = e
    BY <2>9 DEF HasEdge
  <2>11. PICK s \in StateNodes[w].children : d \in SymbolNodes[s].down /\ Entry(s) = e
    BY <2>10
  <2>12. s \in SymbolNodeNos  BY <1>1, <2>10, <2>11 DEF ShapeInv
  <2>13. SymbolNodes[s].symbol = right[k + 1]  BY <2>7, <2>11 DEF Entry
  <2>14. StateNodes[w].state = Goto(i, right[k + 1])
    BY <1>1, <2>5, <2>10, <2>11, <2>13 DEF LinkInv
  <2>15. <<r, k + 1>> \in table.items[StateNodes[w].state]  BY <2>6, <2>14
  <2>16. u[k] \in SymbolNodes[s].down /\ Entry(s) = row[k + 1]  BY <2>2, <2>11
  <2> QED BY ONLY <1>9, <2>1, <2>10, <2>11, <2>12, <2>15, <2>16, ClimbOne
<1>10. n \in S
  <2> HIDE DEF S
  <2> QED BY <1>3, <1>8, <1>9, NatUp
<1> QED BY <1>3, <1>10

\* The row was reduced: its path lies under a state node for which Actor has run,
\* before a word at which the state reduces by the rule.
LEMMA RowInStack ==
    ASSUME IInv, AtEnd, NEW C, \A e \in C : Placed(e) /\ InStack(e),
           NEW r \in DOMAIN table.rules, NEW rule, rule = table.rules[r],
           NEW row \in Rows(C, rule), RowItem(rule, row) # NoItem
    PROVE  InStack(RowEntry(rule, row))
<1>1. InputInv /\ WordsInv /\ ShapeInv  BY DEF IInv, AtEnd
<1>2. PICK e, n, left : e = RowEntry(rule, row) /\ n = RuleLength(r) /\ left = rule.left  OBVIOUS
<1>3. /\ n \in Nat \ {0} /\ n = Len(rule.right) /\ left \in LeftParts
      /\ \A i \in States : <<r, n>> \in table.items[i] =>
            \A X \in table.follow[left] : r \in table.reduce[<<i, X>>]
  <2>1. PICK right : right = rule.right  OBVIOUS
  <2> QED BY <1>1, <1>2, <2>1, CompleteFacts
<1>4. e = <<left, row[1][2], row[n][3], RowItem(rule, row)>>  BY <1>2, <1>3 DEF RowEntry
<1>5. e[1] = left /\ e[2] = row[1][2] /\ e[3] = row[n][3]  BY <1>4
<1>6. row \in [1..n -> C]  BY <1>3 DEF Rows
<1>7. 1 \in 1..n /\ n \in 1..n  BY <1>3
<1> SUFFICES ASSUME NEW v \in StateNodeNos, Stands(v, row[1][2]),
                    HasGoto(StateNodes[v].state, left),
                    NEW X \in table.follow[left], X \in SymbolsAt(row[n][3])
             PROVE  HasEdge(v, e)
  <2> SUFFICES InStack(e)  BY <1>2
  <2> QED BY <1>3, <1>5 DEF InStack, Usable
<1>8. PICK q, u : Climbs(q, u, n, r, v, row)
  <2>1. \E q, u : Climbs(q, u, n, r, v, row)  BY <1>2, RowClimbs
  <2> QED BY <2>1
<1>9. /\ q \in [1..n -> SymbolNodeNos] /\ u \in [0..n -> StateNodeNos] /\ u[0] = v
      /\ <<r, n>> \in table.items[StateNodes[u[n]].state]
      /\ \A i \in 1..n : /\ q[i] \in StateNodes[u[i]].children
                         /\ u[i - 1] \in SymbolNodes[q[i]].down
                         /\ Entry(q[i]) = row[i]
  BY <1>8 DEF Climbs
<1>10. PICK w, s : w = u[n] /\ s = q[n]  OBVIOUS
<1>11. /\ w \in StateNodeNos /\ s \in StateNodes[w].children /\ Entry(s) = row[n]
       /\ <<r, n>> \in table.items[StateNodes[w].state]
  <2>1. n \in 0..n  BY <1>3
  <2> QED BY <1>7, <1>9, <1>10, <2>1
<1>12. Border(w) = row[n][3]
  <2>1. SymbolNodes[s].end = Border(w)  BY <1>11, OwnerBorder
  <2> QED BY <1>11, <2>1 DEF Entry
<1>13. r \in ReductionsOf(w)
  <2>1. StateNodes[w].state \in States  BY <1>1, <1>11, NodeFacts
  <2>2. r \in table.reduce[<<StateNodes[w].state, X>>]  BY <1>3, <1>11, <2>1
  <2> QED BY <1>12, <2>2 DEF ReductionsOf
<1>14. Begun(w)
  <2>1. row[n] \in C /\ row[n][3] \in Nat /\ row[n][3] <= Len(words)
    BY <1>6, <1>7 DEF Placed
  <2>2. Len(words) \in Nat  BY <1>1, SymbolsFacts
  <2>3. Len(InputLevels) = Len(words) + 2  BY <2>2 DEF AtEnd
  <2>4. Border(w) # Len(InputLevels) - 1  BY <1>12, <2>1, <2>2, <2>3
  <2>5. w \in Nat /\ CurrentFirst \in Nat /\ ~(w >= CurrentFirst)
    BY <1>11, <2>4, StandsFacts
  <2> QED BY <2>5 DEF Begun, AtEnd
<1>15. Treated(Red(r, s, w))  BY <1>11, <1>13, <1>14 DEF AtEnd, ReduceInv
<1>16. PICK red, p : red = Red(r, s, w) /\ p = [i \in 1..n |-> q[n + 1 - i]]  OBVIOUS
<1>17. red.rule = r /\ red.symbol = s  BY <1>16 DEF Red
<1>18. PICK path : path = [symbols |-> p, bottom |-> v]  OBVIOUS
<1>19. path.symbols = p /\ path.bottom = v  BY <1>18
<1>20. /\ \A i \in 1..n : n + 1 - i \in 1..n /\ p[i] = q[n + 1 - i]
       /\ p \in [1..n -> SymbolNodeNos]
  <2>1. \A i \in 1..n : n + 1 - i \in 1..n  BY <1>3
  <2> QED BY <1>9, <1>16, <2>1
<1>21. path \in Paths(red)
  <2>1. p[1] = s
    <3>1. n + 1 - 1 = n  BY <1>3
    <3> QED BY <1>7, <1>10, <1>20, <3>1
  <2>2. ASSUME NEW i \in 1..(n - 1) PROVE Below(p[i], p[i + 1])
    <3>1. PICK j : j = n + 1 - i  OBVIOUS
    <3>2. /\ i \in 1..n /\ i + 1 \in 1..n /\ n + 1 - (i + 1) = j - 1
          /\ j \in 1..n /\ j - 1 \in 1..n /\ j - 1 \in 0..n
      <4>1. n \in Int /\ i \in Int /\ 1 <= i /\ i <= n - 1  BY <1>3, <2>2
      <4>2. j \in Int  BY <3>1, <4>1
      <4> QED BY ONLY <3>1, <4>1, <4>2
    <3>3. p[i] = q[j] /\ p[i + 1] = q[j - 1]  BY <1>20, <3>1, <3>2
    <3>4. u[j - 1] \in SymbolNodes[q[j]].down /\ q[j - 1] \in StateNodes[u[j - 1]].children
      BY <1>9, <3>2
    <3> QED BY <3>3, <3>4 DEF Below
  <2>3. IsChain(p, n, red)  BY <1>17, <1>20, <2>1, <2>2 DEF IsChain
  <2>4. v \in SymbolNodes[p[n]].down
    <3>1. n + 1 - n = 1 /\ 1 - 1 = 0  BY <1>3
    <3>2. p[n] = q[1]  BY <1>7, <1>20, <3>1
    <3>3. u[1 - 1] \in SymbolNodes[q[1]].down  BY <1>7, <1>9
    <3> QED BY <1>9, <3>1, <3>2, <3>3
  <2> QED BY <1>2, <1>17, <1>18, <2>3, <2>4, PathsElement
<1>22. PathDone(r, path)
  <2>1. red \notin PendingReductions /\ pc # "paths"  BY DEF AtEnd
  <2>2. \A x \in Paths(red) : PathDone(red.rule, x)  BY <1>15, <1>16, <2>1 DEF Treated, InHand
  <2> QED BY <1>17, <1>21, <2>2
<1>23. PICK items : items = RightPart(path)  OBVIOUS
<1>24. DOMAIN p = 1..n /\ \A i \in 1..n : items[i] = q[i]
  <2>1. DOMAIN path.symbols = 1..n /\ items = [i \in 1..n |-> p[n + 1 - i]]
    BY <1>2, <1>17, <1>19, <1>21, <1>23, PathShape
  <2>2. \A i \in 1..n : n + 1 - (n + 1 - i) = i  BY <1>3
  <2> QED BY <1>19, <1>20, <2>1, <2>2
<1>25. ItemOver(r, path) = RowItem(rule, row)
  <2>1. DOMAIN row = 1..n  BY <1>6
  <2>2. \A i \in 1..n : SymbolNodes[items[i]].item = row[i][4]  BY <1>9, <1>24 DEF Entry
  <2>3. [i \in 1..n |-> SymbolNodes[items[i]].item] = [i \in 1..n |-> row[i][4]]  BY <2>2
  <2> QED BY <1>19, <1>23, <1>24, <2>1, <2>3 DEF ItemOver, RowItem
<1>26. EntryOver(r, path) = e
  <2>1. PathStart(path) = row[1][2]  BY <1>7, <1>9, <1>23, <1>24 DEF PathStart, Entry
  <2>2. PathEnd(path) = row[n][3]
    <3>1. p[1] = q[n]
      <4>1. n + 1 - 1 = n  BY <1>3
      <4> QED BY <1>7, <1>20, <4>1
    <3> QED BY <1>10, <1>11, <1>19, <3>1 DEF PathEnd, Entry
  <2> QED BY <1>2, <1>4, <1>25, <2>1, <2>2 DEF EntryOver
<1> QED BY <1>19, <1>22, <1>25, <1>26 DEF PathDone

LEMMA ChartInStack ==
    ASSUME IInv, AtEnd
    PROVE  \A h \in Nat : \A e \in Chart[h] : InStack(e)
<1> DEFINE S == {h \in Nat : \A e \in Chart[h] : InStack(e)}
<1>1. 0 \in S  BY ChartDef, LeafInStack
<1>2. ASSUME NEW h \in Nat, h \in S PROVE h + 1 \in S
  <2>1. PICK C : C = Chart[h]  OBVIOUS
  <2>2. \A e \in C : Placed(e) /\ InStack(e)  BY <1>2, <2>1, ChartPlaced DEF IInv, AtEnd
  <2>3. ASSUME NEW e \in Applied(C) PROVE InStack(e)
    <3>1. PICK r \in DOMAIN table.rules : \E row \in Rows(C, table.rules[r]) :
              RowItem(table.rules[r], row) # NoItem /\ e = RowEntry(table.rules[r], row)
      BY DEF Applied
    <3>2. PICK rule : rule = table.rules[r]  OBVIOUS
    <3>3. PICK row \in Rows(C, rule) : RowItem(rule, row) # NoItem /\ e = RowEntry(rule, row)
      BY <3>1, <3>2
    <3>4. InStack(RowEntry(rule, row))  BY <2>2, <3>2, <3>3, RowInStack
    <3> QED BY <3>3, <3>4
  <2>4. Chart[h + 1] = C \cup Applied(C)  BY <2>1, ChartDef
  <2> QED BY <1>2, <2>1, <2>3, <2>4
<1> HIDE DEF S
<1>3. \A h \in Nat : h \in S  BY <1>1, <1>2, NatUp
<1> QED BY <1>3 DEF S

\* Nothing is missed: at the end of a parse that met no limit, whatever the root
\* derives from a start point on is among the symbol nodes ApplyGLR_Parsing
\* collects, however high its derivation is.  No reduction over a path that
\* comes into being late is forgotten by ParseSymbol and ReduceOnePath.
THEOREM OccurrencesAreCompleteAlways == Spec => []OccurrencesAreComplete
<1>1. IInv /\ AllInv => OccurrencesAreComplete
  <2> SUFFICES ASSUME IInv, AllInv, pc = "done", ~TooMany(SymbolNodes, createdGroups),
                      NEW e \in Chart[MaxHeight], e[1] = table.root, e[2] + 1 \in startPoints
               PROVE  \E s \in Occurrences : Entry(s) = e
    BY DEF OccurrencesAreComplete
  <2>1. InputInv /\ ShapeInv /\ LinkInv /\ StackInv  BY DEF IInv
  <2>2. Unbroken /\ startPoints # {}  BY DEF Unbroken
  <2>3. AtEnd  BY <2>2 DEF AllInv, WorkInv, EndInv, AtEnd
  <2>4. MaxHeight \in Nat  BY LimitsAssumption
  <2>5. Placed(e) /\ InStack(e)  BY <2>1, <2>3, <2>4, ChartPlaced, ChartInStack DEF AtEnd
  <2>6. 1 \in StateNodeNos /\ StateNodes[1].state = 1
    <3>1. Len(StateNodes) \in Nat \ {0} /\ StateNodes[1] = [state |-> 1, children |-> {}]
      BY <2>1, NodeFacts DEF ShapeInv
    <3> QED BY <3>1 DEF StateNodeNos
  <2>7. HasGoto(1, table.root) /\ Endmark \in table.follow[table.root]
    BY DEF AllInv, WordsInv, IsComplete, HasGoto
  <2>8. Endmark \in SymbolsAt(e[3])
    <3>1. PICK b : b = e[3]  OBVIOUS
    <3>2. b \in Nat /\ Len(words) \in Nat  BY <2>1, <2>5, <3>1, SymbolsFacts DEF Placed
    <3>3. b + 1 <= Len(words) => b + 1 \in DOMAIN words
      <4>1. words \in Seq(SUBSET Readings(table))  BY <2>1 DEF InputInv
      <4> QED BY <3>2, <4>1
    <3> QED BY <3>1, <3>3 DEF SymbolsAt, AllInv, WordsInv
  <2>9. Stands(1, e[2]) /\ Usable(e)  BY <2>7, <2>8 DEF Stands, Usable
  <2>10. HasEdge(1, e)  BY <2>5, <2>6, <2>7, <2>9 DEF InStack
  <2>11. PICK u \in StateNodeNos : \E s \in StateNodes[u].children : Entry(s) = e
    BY <2>10 DEF HasEdge
  <2>12. PICK s \in StateNodes[u].children : Entry(s) = e  BY <2>11
  <2>13. s \in SymbolNodeNos /\ SymbolNodes[s].symbol = table.root
    BY <2>1, <2>11, <2>12 DEF ShapeInv, Entry
  <2>14. s \in Occurrences  BY <2>13 DEF AllInv, EndInv
  <2> QED BY <2>12, <2>14
<1> QED BY <1>1, AllAlways, PTL
=============================================================================
