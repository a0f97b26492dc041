---------------------------- MODULE TableBuilder ----------------------------
(***************************************************************************)
(* BuildGLRTableForGrammar as a function of the grammar: the loops of      *)
(* GrammarCompiler run to their ends, for the instances of the parser and  *)
(* for automata of longer prefixes than the compiler asks for.             *)
(***************************************************************************)
EXTENDS SLRTable

RECURSIVE GrowFirst(_, _)
GrowFirst(G, first) ==
    LET swept == FoldLeft(LAMBDA f, rule : FirstOfRule(G, f, rule), first, G.rules)
    IN  IF swept = first THEN first ELSE GrowFirst(G, swept)

Build_FIRST_Set(G) == GrowFirst(G, NoSets(G))

RECURSIVE GrowFollow(_, _, _)
GrowFollow(G, first, follow) ==
    LET swept == FoldLeft(LAMBDA f, rule : FollowOfRule(G, first, f, rule), follow, G.rules)
    IN  IF swept = follow THEN follow ELSE GrowFollow(G, first, swept)

Build_FOLLOW_Set(G) == GrowFollow(G, Build_FIRST_Set(G), NoSets(G))

RECURSIVE GrowFirst_k(_, _, _)
GrowFirst_k(G, first_k, k) ==
    LET swept == FoldLeft(LAMBDA f, rule : PrefixesOfRule(G, f, k, rule), first_k, G.rules)
    IN  IF swept = first_k THEN first_k ELSE GrowFirst_k(G, swept, k)

\* m_RootPrefixes: the patterns of the automaton that finds the start points.
RootPrefixes(G, k) == GrowFirst_k(G, NoSets(G), k)[G.root]

RECURSIVE Closure(_, _)
Closure(W, itemSet) ==
    LET closed == CloseItemSet(W, itemSet)
    IN  IF closed = itemSet THEN itemSet ELSE Closure(W, closed)

\* CLRCollectionSet::Compute, line by line; the transitions of a line in the
\* order of the symbols.
RECURSIVE CollectFrom(_, _, _)
CollectFrom(W, C, i) ==
    IF i > Len(C.sets) THEN C
    ELSE LET Transition(c, X) ==
                 LET next == Closure(W, NextItemSet(W, C.sets[i], X))
                 IN  [sets |-> AddSet(c.sets, next),
                      goto |-> AddGoto(c.goto, i, X, StateOf(c.sets, next))]
             ahead == Ahead(W, C.sets[i]) \ {END_OF_INPUT}
         IN  CollectFrom(W, FoldLeft(Transition, C, SelectSeq(W.symbols, LAMBDA X : X \in ahead)), i + 1)

Compute(W) ==
    CollectFrom(W, [sets |-> <<Closure(W, AddToItemSet(W, NEW_ROOT))>>, goto |-> <<>>], 1)

Compact(table) ==
    LET CompactRow(T, row) ==
            FoldLeft(LAMBDA t, column : CompactCell(t, row - 1, column, table[row][column]),
                     T, [c \in DOMAIN table[row] |-> c])
    IN  FoldLeft(CompactRow, NoCells, [r \in DOMAIN table |-> r])

\* The table of a grammar, and the automaton of the one-symbol prefixes of the root.
BuildGLRTableForGrammar(G) ==
    LET W      == AugmentGrammar(G)
        C      == Compute(W)
        first  == Build_FIRST_Set(W)
        follow == Build_FOLLOW_Set(W)
        T      == TableOf(W, C.sets, first, follow, Compact(RawTable(W, C.sets, C.goto, follow)))
    IN  T @@ [trie |-> Create(Patterns(G.symbols, RootPrefixes(G, PrefixLength)))]
=============================================================================
