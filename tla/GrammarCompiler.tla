--------------------------- MODULE GrammarCompiler ---------------------------
(***************************************************************************)
(* BuildGLRTableForGrammar (loader.cpp) as a state machine over every      *)
(* grammar of a set: one action per turn of the loops of the calls it      *)
(* makes, in their order.  What a turn does is in SLRTable; the properties *)
(* relate the results to each other and to what the parser needs.          *)
(***************************************************************************)
EXTENDS SLRTable

CONSTANTS Grammars,      \* the grammars that are compiled
          MaxForm,       \* sentential forms up to this length are looked at
          MaxSteps       \* and derivations of so many steps

\* The grammars come from the earlier stages of the compiler.
ASSUME GrammarAssumption == \A G \in Grammars : IsGrammar(G)

ASSUME BoundAssumption == MaxForm \in Nat /\ MaxSteps \in Nat

VARIABLES stage,         \* the loop that is running
          grammar,       \* the work grammar (augmented once AugmentGrammar ran)
          at, bChanged,  \* the place in a loop; whether a sweep added something
          First_k,       \* the prefixes of the symbols
          prefixes,      \* m_RootPrefixes
          trie,          \* m_TrieHolder
          first,         \* m_FirstSets
          follow,        \* m_FollowSets
          sets, goto,    \* CLRCollectionSet: m_ItemSets and m_GotoFunction
          line,          \* the item set, later the row, that is worked on
          ahead,         \* the symbols whose transitions of it are still to be added
          symbol, next,  \* the symbol being moved over, and newItemSet
          raw,           \* the table before Compact
          compact        \* CGLRTable's compact fields

sweepVars == <<at, bChanged>>
itemVars  == <<sets, goto, line, ahead, symbol, next>>
tableVars == <<raw, compact>>
vars == <<stage, grammar, sweepVars, First_k, prefixes, trie, first, follow, itemVars, tableVars>>

Nothing == <<>>

Init ==
    /\ stage = "prefixes"
    /\ grammar \in Grammars
    /\ at = 1 /\ bChanged = FALSE
    /\ First_k = NoSets(grammar)
    /\ prefixes = Nothing /\ trie = Nothing /\ first = Nothing /\ follow = Nothing
    /\ sets = <<>> /\ goto = <<>> /\ line = 1 /\ ahead = {} /\ symbol = NEW_ROOT /\ next = {}
    /\ raw = Nothing /\ compact = NoCells

-----------------------------------------------------------------------------
(* The sweeps over the rules, each until one adds nothing.                 *)

SweepAgain ==
    /\ stage \in {"prefixes", "first", "follow"}
    /\ at > Len(grammar.rules) /\ bChanged
    /\ at' = 1 /\ bChanged' = FALSE
    /\ UNCHANGED <<stage, grammar, First_k, prefixes, trie, first, follow, itemVars, tableVars>>

PrefixRule ==
    /\ stage = "prefixes" /\ at <= Len(grammar.rules)
    /\ First_k' = PrefixesOfRule(grammar, First_k, PrefixLength, grammar.rules[at])
    /\ bChanged' = (bChanged \/ First_k' # First_k)
    /\ at' = at + 1
    /\ UNCHANGED <<stage, grammar, prefixes, trie, first, follow, itemVars, tableVars>>

PrefixesDone ==
    /\ stage = "prefixes" /\ at > Len(grammar.rules) /\ ~bChanged
    /\ stage' = "automaton"
    /\ prefixes' = First_k[grammar.root]
    /\ UNCHANGED <<grammar, sweepVars, First_k, trie, first, follow, itemVars, tableVars>>

\* CreateTrie takes the first pattern without asking whether there is one (its
\* assertion, ahokorasick.cpp:172): for a root that derives nothing the rest is
\* undefined.
BuildAutomat ==
    /\ stage = "automaton" /\ prefixes # {}
    /\ stage' = "augment"
    /\ trie' = Create(Patterns(grammar.symbols, prefixes))
    /\ UNCHANGED <<grammar, sweepVars, First_k, prefixes, first, follow, itemVars, tableVars>>

Augment ==
    /\ stage = "augment" /\ stage' = "first"
    /\ grammar' = AugmentGrammar(grammar)
    /\ first' = NoSets(AugmentGrammar(grammar))
    /\ at' = 1 /\ bChanged' = FALSE
    /\ UNCHANGED <<First_k, prefixes, trie, follow, itemVars, tableVars>>

FirstRule ==
    /\ stage = "first" /\ at <= Len(grammar.rules)
    /\ first' = FirstOfRule(grammar, first, grammar.rules[at])
    /\ bChanged' = (bChanged \/ first' # first)
    /\ at' = at + 1
    /\ UNCHANGED <<stage, grammar, First_k, prefixes, trie, follow, itemVars, tableVars>>

FirstDone ==
    /\ stage = "first" /\ at > Len(grammar.rules) /\ ~bChanged
    /\ stage' = "follow"
    /\ follow' = NoSets(grammar)
    /\ at' = 1 /\ bChanged' = FALSE
    /\ UNCHANGED <<grammar, First_k, prefixes, trie, first, itemVars, tableVars>>

FollowRule ==
    /\ stage = "follow" /\ at <= Len(grammar.rules)
    /\ follow' = FollowOfRule(grammar, first, follow, grammar.rules[at])
    /\ bChanged' = (bChanged \/ follow' # follow)
    /\ at' = at + 1
    /\ UNCHANGED <<stage, grammar, First_k, prefixes, trie, first, itemVars, tableVars>>

FollowDone ==
    /\ stage = "follow" /\ at > Len(grammar.rules) /\ ~bChanged
    /\ stage' = "start"
    /\ next' = AddToItemSet(grammar, NEW_ROOT)
    /\ UNCHANGED <<grammar, sweepVars, First_k, prefixes, trie, first, follow,
                   sets, goto, line, ahead, symbol, tableVars>>

-----------------------------------------------------------------------------
(* CLRCollectionSet::Compute: the start set, then line by line the sets    *)
(* its items lead to, each closed before it is looked up.                  *)

Close ==
    /\ stage \in {"start", "close"}
    /\ CloseItemSet(grammar, next) # next
    /\ next' = CloseItemSet(grammar, next)
    /\ UNCHANGED <<stage, grammar, sweepVars, First_k, prefixes, trie, first, follow,
                   sets, goto, line, ahead, symbol, tableVars>>

StartSet ==
    /\ stage = "start" /\ CloseItemSet(grammar, next) = next
    /\ stage' = "line"
    /\ sets' = <<next>>
    /\ ahead' = Ahead(grammar, next) \ {END_OF_INPUT}
    /\ UNCHANGED <<grammar, sweepVars, First_k, prefixes, trie, first, follow,
                   goto, line, symbol, next, tableVars>>

\* nextItemSets is ordered by the symbols.
TakeSymbol ==
    /\ stage = "line"
    /\ \E X \in ahead :
          /\ \A Y \in ahead : Position(grammar.symbols, X) <= Position(grammar.symbols, Y)
          /\ symbol' = X
          /\ ahead' = ahead \ {X}
          /\ next' = NextItemSet(grammar, sets[line], X)
    /\ stage' = "close"
    /\ UNCHANGED <<grammar, sweepVars, First_k, prefixes, trie, first, follow,
                   sets, goto, line, tableVars>>

AddTransition ==
    /\ stage = "close" /\ CloseItemSet(grammar, next) = next
    /\ stage' = "line"
    /\ sets' = AddSet(sets, next)
    /\ goto' = AddGoto(goto, line, symbol, StateOf(sets, next))
    /\ UNCHANGED <<grammar, sweepVars, First_k, prefixes, trie, first, follow,
                   line, ahead, symbol, next, tableVars>>

NextLine ==
    /\ stage = "line" /\ ahead = {} /\ line < Len(sets)
    /\ line' = line + 1
    /\ ahead' = Ahead(grammar, sets[line + 1]) \ {END_OF_INPUT}
    /\ UNCHANGED <<stage, grammar, sweepVars, First_k, prefixes, trie, first, follow,
                   sets, goto, symbol, next, tableVars>>

-----------------------------------------------------------------------------
(* BuildGLRTable and Compact.                                              *)

FillTable ==
    /\ stage = "line" /\ ahead = {} /\ line = Len(sets)
    /\ stage' = "compact"
    /\ raw' = RawTable(grammar, sets, goto, follow)
    /\ line' = 1 /\ at' = 1
    /\ UNCHANGED <<grammar, bChanged, First_k, prefixes, trie, first, follow,
                   sets, goto, ahead, symbol, next, compact>>

CompactColumn ==
    /\ stage = "compact" /\ line <= Len(raw) /\ at <= Len(raw[line])
    /\ compact' = CompactCell(compact, line - 1, at, raw[line][at])
    /\ at' = at + 1
    /\ UNCHANGED <<stage, grammar, bChanged, First_k, prefixes, trie, first, follow, itemVars, raw>>

CompactRow ==
    /\ stage = "compact" /\ line <= Len(raw) /\ at > Len(raw[line])
    /\ line' = line + 1 /\ at' = 1
    /\ UNCHANGED <<stage, grammar, bChanged, First_k, prefixes, trie, first, follow,
                   sets, goto, ahead, symbol, next, tableVars>>

CompactDone ==
    /\ stage = "compact" /\ line > Len(raw)
    /\ stage' = "done"
    /\ UNCHANGED <<grammar, sweepVars, First_k, prefixes, trie, first, follow, itemVars, tableVars>>

Next ==
    \/ SweepAgain \/ PrefixRule \/ PrefixesDone \/ BuildAutomat \/ Augment
    \/ FirstRule \/ FirstDone \/ FollowRule \/ FollowDone
    \/ Close \/ StartSet \/ TakeSymbol \/ AddTransition \/ NextLine
    \/ FillTable \/ CompactColumn \/ CompactRow \/ CompactDone

Spec == Init /\ [][Next]_vars

-----------------------------------------------------------------------------
(* Reference notions                                                       *)

\* A sequence with its i-th element replaced by the sequence part.
Replace(form, i, part) ==
    [j \in 1..(Len(form) + Len(part) - 1) |->
        IF j < i THEN form[j]
        ELSE IF j < i + Len(part) THEN part[j - i + 1]
        ELSE form[j - Len(part) + 1]]

\* The sentential forms that follow from a form by one step.
Rewrites(W, form) ==
    UNION {{Replace(form, i, W.rules[r].right) :
               r \in {q \in DOMAIN W.rules : W.rules[q].left = form[i]}} : i \in DOMAIN form}

\* The forms that X derives in up to n steps, of at most MaxForm symbols.
Forms(W, X) ==
    LET forms[n \in 0..MaxSteps] ==
            IF n = 0 THEN {<<X>>}
            ELSE LET before == forms[n - 1]
                 IN  before \cup {f \in UNION {Rewrites(W, form) : form \in before} : Len(f) <= MaxForm}
    IN  forms[MaxSteps]

\* The compact table as the parser reads it.
Goto(i, X) == CellGoto(compact, grammar.symbols, i, X)
Reduce(i, X) == CellReduce(compact, grammar.symbols, i, X)
Table == TableOf(grammar, sets, first, follow, compact)

\* The state reached from i over a sequence of symbols, NoLine if the table has
\* no such transitions.
Walk(i, symbols) ==
    LET walk[n \in 0..Len(symbols)] ==
            IF n = 0 THEN i
            ELSE LET from == walk[n - 1]
                 IN  IF from = NoLine THEN NoLine ELSE Goto(from, symbols[n])
    IN  walk[Len(symbols)]

States == DOMAIN sets

Parser == INSTANCE ParserTable WITH Endmark <- END_OF_INPUT

-----------------------------------------------------------------------------
(* Properties                                                              *)

\* The start points come from the prefixes of the root, computed before the
\* grammar is augmented (Build_FIRST_Set_k, loader.cpp:370), the table from the
\* FIRST sets computed after (Build_FIRST_Set, loader.cpp:302).  For the prefix
\* length the code uses they are the same symbols: a word at which the parser
\* could begin an occurrence of the root is always a start point.
PrefixesMatchFirst ==
    stage = "follow" => prefixes = {<<t>> : t \in first[grammar.root]}

\* FOLLOW (Build_FOLLOW_Set, loader.cpp:475) misses nothing: whenever a
\* non-terminal stands before a terminal in a sentential form of the augmented
\* grammar, the terminal is in its FOLLOW set.  A missing one would make the
\* parser drop a reduction it needs.
FollowIsComplete ==
    stage = "start" =>
        \A form \in Forms(grammar, NEW_ROOT) : \A i \in 1..(Len(form) - 1) :
            (form[i] \in Metas(grammar) /\ form[i + 1] \in Terminals(grammar))
                => form[i + 1] \in follow[form[i]]

\* Verify (glrtable.cpp:223): a cell decoded from the compact table is the cell
\* that was encoded.
Verify ==
    stage = "done" =>
        \A i \in DOMAIN raw : \A c \in DOMAIN raw[i] :
            /\ IsEmpty(raw[i][c]) <=> IsEmptyCell(compact, i, c)
            /\ ~IsEmpty(raw[i][c]) =>
                  /\ Goto(i, grammar.symbols[c]) = raw[i][c].line
                  /\ Reduce(i, grammar.symbols[c]) = raw[i][c].reduce

\* The table is one the parser is right with: every state but the start is
\* entered over one symbol, and the start never (CreateOrReuseNode, glr.cpp:253,
\* hands out the root node for the start state); what a state reduces by has
\* been read on every way to it; and no transition or reduction that a
\* derivation needs is missing.
TableIsFit ==
    stage = "done" => Parser!IsTable(Table) /\ Parser!IsComplete(Table)

\* A reduction the table offers always has a way back: going back over the
\* right part from a state that reduces, along any transitions of the table,
\* ends in a state that has a goto for the left part (the assertion
\* hasGotoLine of ReduceOnePath, glr.cpp:718), and there is such a way.
ReductionsReturn ==
    stage = "done" =>
        \A i \in States, t \in Terminals(grammar) : \A r \in Reduce(i, t) :
            LET from == {s \in States : Walk(s, grammar.rules[r].right) = i}
            IN  from # {} /\ \A s \in from : Goto(s, grammar.rules[r].left) # NoLine

\* The table recognises every rule wherever its left part may stand: from a
\* state with a goto for the left part the transitions over the right part are
\* there too, and the state they lead to reduces by the rule before everything
\* that may follow the left part; the start state has a goto for the root.
RulesAreRecognised ==
    stage = "done" =>
        /\ Goto(1, grammar.root) # NoLine
        /\ \A s \in States, r \in DOMAIN grammar.rules :
              LET rule == grammar.rules[r]
                  end  == Walk(s, rule.right)
              IN  Goto(s, rule.left) # NoLine =>
                      end # NoLine /\ \A t \in follow[rule.left] : r \in Reduce(end, t)
=============================================================================
