-------------------------- MODULE MCGrammarCompiler --------------------------
(* Every grammar with one or two rules for S, of up to three symbols, and  *)
(* one or two rules for A, of up to two symbols, over S, A, a and b; the    *)
(* second rule of a pair is taken from a short list, and differs from the   *)
(* first as it does in the code's set of rules.                             *)
EXTENDS GrammarCompiler, TableBuilder

CONSTANTS MaxPrefix,     \* automata are checked for prefixes up to this length
          Texts          \* and on these sentences

MCSymbols == <<"S", "A", "a", "b">>

MCRights(n) == UNION {[1..k -> {"S", "A", "a", "b"}] : k \in 1..n}

MCRule(left, right) == [left |-> left, right |-> right]

MCRules(left, n, seconds) ==
    {<<MCRule(left, x)>> : x \in MCRights(n)}
        \cup {<<MCRule(left, p[1]), MCRule(left, p[2])>> :
                 p \in {q \in MCRights(n) \X seconds : q[1] # q[2]}}

MCGrammars ==
    {[root |-> "S", symbols |-> MCSymbols, rules |-> s \o a] :
        s \in MCRules("S", 3, {<<"a">>, <<"A", "b">>}), a \in MCRules("A", 2, {<<"b">>})}

\* Sentences for the automaton; a word that is both a and b has two readings.
MCTexts == {<<{"a"}, {"a", "b"}, {"a"}, {"b"}>>, <<{"b"}, {"a"}, {"a", "b"}, {"a", "b"}>>,
            <<{"a"}, {"a"}, {"a"}, {"b"}>>, <<{"a", "b"}, {}, {"b"}, {"a"}>>}

\* The automaton (CTrieHolder) finds the patterns exactly: for the prefixes of
\* the root, of whatever length up to MaxPrefix, the occurrences it reports in a
\* sentence whose words have several readings are all the places where some
\* choice of readings spells a pattern.  CreateTrie (ahokorasick.cpp:187) looks
\* at one earlier pattern only, GetTerminatedPeriodNext recomputes the failure
\* links, and every reading continues from every state.
TrieIsExact ==
    stage = "augment" =>
        \A k \in PrefixLength..MaxPrefix :
            LET patterns == Patterns(grammar.symbols, RootPrefixes(grammar, k))
                automaton == IF k = PrefixLength THEN trie ELSE Create(patterns)
                Occurs(text, w, p) ==
                    /\ w + Len(p) - 1 <= Len(text)
                    /\ \A i \in DOMAIN p : p[i] \in text[w + i - 1]
            IN  \A text \in Texts :
                    FindOccurrencesWithTrie(automaton, text) =
                        UNION {{[first |-> i, last |-> i + Len(patterns[r]) - 1, rule |-> r] :
                                   i \in {j \in DOMAIN text : Occurs(text, j, patterns[r])}} :
                                  r \in DOMAIN patterns}
=============================================================================
