---------------------------- MODULE AhoCorasick ----------------------------
(***************************************************************************)
(* CTrieHolder (afglrparserlib/ahokorasick.cpp), the automaton that finds  *)
(* the prefixes of a grammar's root in a sentence, and its use in          *)
(* CInputSequence::FindOccurrencesWithTrie, where a word has several       *)
(* readings and the automaton is in several states at once.                *)
(*                                                                         *)
(* An automaton is a record of nodes and failure links.  Nodes and words   *)
(* are numbered from 1; node 1 is the root.                                *)
(***************************************************************************)
EXTENDS Naturals, Sequences, FiniteSets, SequencesExt

NoNode == 0       \* the code's -1
Root == 1
NoRule == 0       \* no pattern ends at the node

\* The order of the set of patterns, CWorkRule's operator <: lexicographic in
\* the numbers of the symbols.
Less(symbols, p, q) ==
    \E i \in DOMAIN q :
        /\ i <= Len(p) + 1
        /\ SubSeq(p, 1, i - 1) = SubSeq(q, 1, i - 1)
        /\ i <= Len(p) => \E m, n \in DOMAIN symbols :
                              m < n /\ symbols[m] = p[i] /\ symbols[n] = q[i]

\* The elements of a set in a strict order of them.
Sorted(S, less(_, _)) ==
    [i \in 1..Cardinality(S) |->
        CHOOSE p \in S : Cardinality({q \in S : less(q, p)}) = i - 1]

Patterns(symbols, prefixes) == Sorted(prefixes, LAMBDA p, q : Less(symbols, p, q))

-----------------------------------------------------------------------------
(* The trie.                                                               *)

\* FindChild; of two children over one symbol only the later is registered.
FindChild(nodes, n, X) ==
    LET children == {m \in DOMAIN nodes : nodes[m].parent = n /\ nodes[m].symbol = X}
    IN  IF children = {} THEN NoNode
        ELSE CHOOSE m \in children : \A o \in children : o <= m

\* New nodes for the symbols, one under the other, the last with the pattern.
CreateChildrenSequence(nodes, parent, symbols, rule) ==
    nodes \o [i \in DOMAIN symbols |->
                 [parent |-> IF i = 1 THEN parent ELSE Len(nodes) + i - 1,
                  symbol |-> symbols[i],
                  depth  |-> nodes[parent].depth + i,
                  rule   |-> IF i = Len(symbols) THEN rule ELSE NoRule]]

\* CreateTrie, for pattern number r: what it shares with the one before it is
\* in the trie already.
AddPattern(patterns, nodes, r) ==
    LET shared  == IF r = 1 THEN <<>>
                   ELSE LongestCommonPrefix({patterns[r - 1], patterns[r]})
        rest    == SubSeq(patterns[r], Len(shared) + 1, Len(patterns[r]))
        starter == FoldLeft(LAMBDA n, X : FindChild(nodes, n, X), Root, shared)
    IN  IF rest = <<>> THEN nodes ELSE CreateChildrenSequence(nodes, starter, rest, r)

CreateTrie(patterns) ==
    FoldLeft(LAMBDA nodes, r : AddPattern(patterns, nodes, r),
             <<[parent |-> NoNode, symbol |-> "", depth |-> 0, rule |-> NoRule]>>,
             [r \in DOMAIN patterns |-> r])

-----------------------------------------------------------------------------
(* Failure links.                                                          *)

\* The first node, from n up the failure links, with a child over X.
UpTo(nodes, failure, n, X) ==
    LET up[m \in {NoNode} \cup DOMAIN nodes] ==
            IF m = NoNode \/ FindChild(nodes, m, X) # NoNode THEN m ELSE up[failure[m]]
    IN  up[n]

\* A faulty link: the failure of the parent is tried and nothing above it.
FailureOfOnce(nodes, failure, n) ==
    LET r == failure[nodes[n].parent]
        child == IF r = NoNode THEN NoNode ELSE FindChild(nodes, r, nodes[n].symbol)
    IN  IF child = NoNode THEN Root ELSE child

\* The failure link of a node, those of the nodes less deep being known.
FailureOf(nodes, failure, n) ==
    LET r == UpTo(nodes, failure, failure[nodes[n].parent], nodes[n].symbol)
    IN  IF r = NoNode THEN Root ELSE FindChild(nodes, r, nodes[n].symbol)

\* InitFailureFunction goes through the nodes level by level.
InitFailureFunction(nodes) ==
    FoldLeft(LAMBDA failure, n : [failure EXCEPT ![n] = FailureOf(nodes, failure, n)],
             [n \in DOMAIN nodes |-> NoNode],
             Sorted(DOMAIN nodes \ {Root},
                    LAMBDA m, n : \/ nodes[m].depth < nodes[n].depth
                                  \/ nodes[m].depth = nodes[n].depth /\ m < n))

Create(patterns) ==
    LET nodes == CreateTrie(patterns)
    IN  [nodes |-> nodes, failure |-> InitFailureFunction(nodes)]

-----------------------------------------------------------------------------
(* The search.                                                             *)

\* GetTerminatedPeriodNext: the next shorter suffix that is a node, NoNode
\* where the failure link would be the root.
GetTerminatedPeriodNext(trie, n) ==
    IF n = Root THEN NoNode
    ELSE LET node == trie.nodes[n]
             r    == UpTo(trie.nodes, trie.failure, trie.failure[node.parent], node.symbol)
         IN  IF r = NoNode THEN NoNode ELSE FindChild(trie.nodes, r, node.symbol)

\* The nodes from n on at which a pattern ends.
Ending(trie, n) ==
    LET ending[m \in {NoNode} \cup DOMAIN trie.nodes] ==
            IF m = NoNode THEN {}
            ELSE {k \in {m} : trie.nodes[k].rule # NoRule}
                    \cup ending[GetTerminatedPeriodNext(trie, m)]
    IN  ending[n]

\* NextState: the state after reading X, and the patterns that end at it.
NextState(trie, state, X) ==
    LET r == UpTo(trie.nodes, trie.failure, state, X)
    IN  IF r = NoNode THEN Root ELSE FindChild(trie.nodes, r, X)

EndingAt(trie, state, word) ==
    {[first |-> word - trie.nodes[n].depth + 1, last |-> word, rule |-> trie.nodes[n].rule] :
        n \in Ending(trie, state)}

\* FindOccurrencesWithTrie: the states after every reading of every word.
FindOccurrencesWithTrie(trie, words) ==
    FoldLeft(LAMBDA acc, w :
                 LET next == {NextState(trie, s, X) : s \in acc.states, X \in words[w]}
                 IN  [states |-> IF next = {} THEN {Root} ELSE next,
                      found  |-> acc.found \cup UNION {EndingAt(trie, s, w) : s \in next}],
             [states |-> {Root}, found |-> {}],
             [w \in DOMAIN words |-> w]).found
=============================================================================
