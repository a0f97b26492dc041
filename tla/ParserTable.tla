---------------------------- MODULE ParserTable ----------------------------
(***************************************************************************)
(* What CGLRParser takes for granted in the table it is given, and what it *)
(* needs to miss nothing.  The compiler is shown to build such tables      *)
(* (GrammarCompiler), the parser to be correct with them (GLRParser).      *)
(*                                                                         *)
(* A table T is a record: root, symbols and rules of the grammar; states;  *)
(* goto and reduce, what the cells hold; and, which no action of the       *)
(* parser looks at, the item sets of the states (CLRCollectionSet), FIRST  *)
(* and FOLLOW.  An item is <<rule, dot>>.                                  *)
(***************************************************************************)
EXTENDS Naturals, Sequences

CONSTANT Endmark          \* END_OF_INPUT

\* The terminals of a table: what a word may be read as.
Readings(T) ==
    {T.symbols[i] : i \in DOMAIN T.symbols} \ {T.rules[r].left : r \in DOMAIN T.rules}

\* Right parts are not empty; no transition leads to the start state or is over
\* the end of input, and those to one state are over one symbol.  The numbers of
\* the rules and places in the table come from item sets: an item with the dot
\* behind a symbol came over that symbol from the item with the dot before it,
\* a rule of which nothing has been read yet can be left by its left part, and
\* a state reduces by rules that it has read to the end.
IsTable(T) ==
    LET Length(r) == Len(T.rules[r].right) IN
    /\ 1 \in T.states
    /\ \A r \in DOMAIN T.rules :
          /\ Length(r) \in Nat \ {0}
          /\ \A k \in 1..Length(r) : <<r, k>> \notin T.items[1]
          /\ \A i \in T.states :
                <<r, 0>> \in T.items[i] => <<i, T.rules[r].left>> \in DOMAIN T.goto
    /\ \A p \in DOMAIN T.goto :
          /\ p[1] \in T.states /\ p[2] # Endmark
          /\ T.goto[p] \in T.states \ {1}
          /\ \A q \in DOMAIN T.goto : T.goto[p] = T.goto[q] => p[2] = q[2]
          /\ \A r \in DOMAIN T.rules : \A k \in 1..Length(r) :
                <<r, k>> \in T.items[T.goto[p]] =>
                    T.rules[r].right[k] = p[2] /\ <<r, k - 1>> \in T.items[p[1]]
    /\ \A i \in T.states : \A X \in Readings(T) : \A r \in T.reduce[<<i, X>>] :
          r \in DOMAIN T.rules /\ <<r, Length(r)>> \in T.items[i]

\* That a table misses nothing.  The start state has a transition over the root;
\* a state with a transition over a left part can begin the rule, one that has
\* read a part of a rule can read the next symbol of it, and one that has read
\* it to the end reduces by it before all that may follow the left part.  FIRST
\* and FOLLOW (m_FirstSets and m_FollowSets of the work grammar) are closed
\* under the rules, and the end of input may follow the root.
IsComplete(T) ==
    LET Opening(X) == IF X \in {T.rules[r].left : r \in DOMAIN T.rules} THEN T.first[X] ELSE {X}
    IN
    /\ <<1, T.root>> \in DOMAIN T.goto
    /\ Endmark \in T.follow[T.root]
    /\ \A r \in DOMAIN T.rules :
          LET left  == T.rules[r].left
              right == T.rules[r].right
          IN
          /\ \A i \in T.states :
                /\ <<i, left>> \in DOMAIN T.goto => <<r, 0>> \in T.items[i]
                /\ \A k \in 1..Len(right) :
                      <<r, k - 1>> \in T.items[i] =>
                          /\ <<i, right[k]>> \in DOMAIN T.goto
                          /\ <<r, k>> \in T.items[T.goto[<<i, right[k]>>]]
                /\ <<r, Len(right)>> \in T.items[i] =>
                      \A X \in T.follow[left] : r \in T.reduce[<<i, X>>]
          /\ Opening(right[1]) \subseteq T.first[left]
          /\ \A k \in 1..(Len(right) - 1) : Opening(right[k + 1]) \subseteq T.follow[right[k]]
          /\ right[Len(right)] \notin Readings(T) =>
                T.follow[left] \subseteq T.follow[right[Len(right)]]
=============================================================================
