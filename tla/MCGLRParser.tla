----------------------------- MODULE MCGLRParser -----------------------------
(***************************************************************************)
(* Instances of GLRParser: the tables are those of TableBuilder for a few  *)
(* grammars, the sentences all of a bounded length.  The items of the      *)
(* words a and b differ; a rule takes the item of its first symbol, and a  *)
(* rule with agreement only if the items of all its symbols are equal.     *)
(***************************************************************************)
EXTENDS GLRParser, TableBuilder

CONSTANTS Chosen,     \* the grammars of a run, by number
          MaxWords    \* the length of a sentence

\* A rule, a rule with agreement, and a rule whose items are heavier than those
\* they are made of, so that no two of a chain of reductions are equal.
MCRule(left, right) == [left |-> left, right |-> right, agree |-> FALSE, weight |-> 0]
MCAgree(left, right) == [left |-> left, right |-> right, agree |-> TRUE, weight |-> 0]
MCHeavier(left, right) == [left |-> left, right |-> right, agree |-> FALSE, weight |-> 1]

MCGrammar(symbols, rules) == [root |-> "S", symbols |-> symbols, rules |-> rules]

MCGrammars == <<
    \* 1: every bracketing of a row of words
    MCGrammar(<<"S", "a", "b">>,
              <<MCRule("S", <<"S", "S">>), MCRule("S", <<"a">>)>>),
    \* 2: left recursion, a border that two rules may draw differently
    MCGrammar(<<"S", "A", "B", "a", "b">>,
              <<MCRule("S", <<"A", "B">>), MCRule("A", <<"a">>), MCRule("A", <<"A", "a">>),
                MCRule("B", <<"a">>), MCRule("B", <<"B", "b">>)>>),
    \* 3: S and A derive each other
    MCGrammar(<<"S", "A", "a", "b">>,
              <<MCRule("S", <<"A">>), MCRule("A", <<"S">>), MCRule("A", <<"a">>),
                MCRule("S", <<"A", "b">>)>>),
    \* 4: agreement between the symbols of two of the rules
    MCGrammar(<<"S", "N", "a", "b">>,
              <<MCAgree("S", <<"N", "N">>), MCRule("S", <<"N">>), MCRule("N", <<"a">>),
                MCRule("N", <<"b">>), MCAgree("S", <<"S", "N">>)>>),
    \* 5: nesting, right parts of three symbols
    MCGrammar(<<"S", "a", "b">>,
              <<MCRule("S", <<"a", "S", "b">>), MCRule("S", <<"a", "b">>), MCRule("S", <<"S", "S">>)>>),
    \* 6: two ways to the same symbol over the same words
    MCGrammar(<<"S", "A", "B", "a", "b">>,
              <<MCRule("S", <<"A">>), MCRule("S", <<"B">>), MCRule("A", <<"a">>),
                MCRule("B", <<"a">>), MCRule("B", <<"b", "S">>), MCRule("A", <<"b", "A">>)>>),
    \* 7: S and A derive each other, heavier each time: only the limits end the parse
    MCGrammar(<<"S", "A", "a", "b">>,
              <<MCHeavier("S", <<"A">>), MCHeavier("A", <<"S">>), MCHeavier("A", <<"a">>),
                MCHeavier("S", <<"A", "b">>)>>)
>>

MCCyclic == {7}

\* Grammars for a sweep: one rule of up to two symbols for A; for S one such rule,
\* or two of which the second is S -> a or S -> S S.  The root derives something.
MCShortRights == UNION {[1..k -> {"S", "A", "a", "b"}] : k \in 1..2}

MCSweepRules ==
    {<<MCRule("S", x)>> : x \in MCShortRights}
        \cup {<<MCRule("S", p[1]), MCRule("S", p[2])>> :
                 p \in {q \in MCShortRights \X {<<"a">>, <<"S", "S">>} : q[1] # q[2]}}

MCSweepGrammars ==
    {G \in {MCGrammar(<<"S", "A", "a", "b">>, s \o <<MCRule("A", y)>>) :
               s \in MCSweepRules, y \in MCShortRights} : RootPrefixes(G, 1) # {}}

MCSweepParsers == {<<BuildGLRTableForGrammar(G), TRUE>> : G \in MCSweepGrammars}

MCSweepSentences ==
    [1..MaxWords -> {w \cup {END_OF_INPUT} : w \in (SUBSET {"a", "b"}) \ {{}}}]

\* Every grammar with and without the limits, unless only they end its parse.
MCParsers ==
    UNION {{<<BuildGLRTableForGrammar(MCGrammars[n]), b>> : b \in BOOLEAN \ (IF n \in MCCyclic THEN {FALSE} ELSE {})} :
              n \in Chosen}

MCSentences ==
    UNION {[1..k -> {w \cup {END_OF_INPUT} : w \in SUBSET {"a", "b"}}] : k \in 1..MaxWords}

MCLeafItem(X) == IF X = "b" THEN 2 ELSE 1

MCCreateNewItem(rule, items) ==
    IF rule.agree /\ \E i \in DOMAIN items : items[i] # items[1]
    THEN 0 ELSE items[1] + rule.weight

MCFactsCount(item) == 1

-----------------------------------------------------------------------------
\* All that the words derive: the chart grows until nothing changes.
RECURSIVE GrowChart(_)
GrowChart(chart) ==
    LET grown == chart \cup Applied(chart)
    IN  IF grown = chart THEN chart ELSE GrowChart(grown)

\* The result is exact and the forest under it complete, when the parse was not
\* broken off: what is reported is all that the root derives, from whatever word
\* and to whatever word, and the parses of each occurrence are all the
\* applications of a rule to entries of the chart that give it.
ForestIsComplete ==
    (pc = "done" /\ ~TooMany(SymbolNodes, createdGroups)) =>
        LET chart == GrowChart(LeafEntries)
            Within(e) == {c \in chart : e[2] <= c[2] /\ c[3] <= e[3]}
        IN  /\ {Entry(s) : s \in Occurrences} = {e \in chart : e[1] = table.root}
            /\ \A s \in Occurrences :
                  {<<p.rule, [i \in DOMAIN p.items |-> Entry(p.items[i])]>> :
                      p \in Range(SymbolNodes[s].parses)}
                  = UNION {{<<r, row>> : row \in {w \in Rows(Within(Entry(s)), table.rules[r]) :
                                                     RowEntry(table.rules[r], w) = Entry(s)}} :
                              r \in DOMAIN table.rules}
=============================================================================
