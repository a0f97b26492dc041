----------------------- MODULE GrammarCompilerProofs -----------------------
(***************************************************************************)
(* Proofs about GrammarCompiler, for every set of grammars: that the loops *)
(* end with what they are for, and that the table is one with which the    *)
(* parser is right (see ParserTable).                                      *)
(***************************************************************************)
EXTENDS GrammarCompiler, FiniteSetTheorems, NaturalsInduction, WellFoundedInduction, TLAPS

-----------------------------------------------------------------------------
(* Numbers                                                                 *)

\* A set of natural numbers has a least one.
LEMMA LeastNatural ==
    ASSUME NEW T \in SUBSET Nat, T # {}
    PROVE  \E m \in T : \A k \in T : m <= k
<1> DEFINE R == OpToRel(<, Nat)
<1>1. IsWellFoundedOn(R, Nat)
  BY NatLessThanWellFounded
<1>2. PICK m \in T : \A k \in T : ~ (<<k, m>> \in R)
  <2> HIDE DEF R
  <2> QED BY <1>1, WFMin
<1>3. \A k \in T : m <= k
  <2> TAKE k \in T
  <2>1. <<k, m>> \notin R  BY <1>2
  <2>2. ~(k < m)  BY <2>1 DEF OpToRel
  <2> QED BY <2>2
<1> QED BY <1>3

\* A set that holds 0, and with each number the next, holds all of them.
LEMMA NatUp ==
    ASSUME NEW S, 0 \in S, \A n \in Nat : n \in S => n + 1 \in S
    PROVE  \A n \in Nat : n \in S
<1> DEFINE T == {n \in Nat : n \notin S}
<1> SUFFICES ASSUME T # {} PROVE FALSE  OBVIOUS
<1>1. PICK m \in T : \A k \in T : m <= k
  <2>1. T \in SUBSET Nat  OBVIOUS
  <2> HIDE DEF T
  <2> QED BY <2>1, LeastNatural
<1>2. m \in Nat /\ m # 0 /\ m \notin S  BY <1>1
<1>3. m - 1 \in Nat /\ m - 1 \notin T  BY <1>1, <1>2
<1>4. (m - 1) + 1 = m  BY <1>2
<1> QED BY <1>2, <1>3, <1>4

-----------------------------------------------------------------------------
(* The work grammar                                                        *)

\* The right part of a rule is a row of the symbols S, and not empty.
IsRight(right, S) ==
    /\ Len(right) \in Nat \ {0}
    /\ DOMAIN right = 1..Len(right)
    /\ \A k \in 1..Len(right) : right[k] \in S

\* What the later stages know of the augmented grammar.
IsWork(W) ==
    /\ Len(W.symbols) \in Nat /\ DOMAIN W.symbols = 1..Len(W.symbols)
    /\ \A i, j \in DOMAIN W.symbols : W.symbols[i] = W.symbols[j] => i = j
    /\ Len(W.rules) \in Nat \ {0} /\ DOMAIN W.rules = 1..Len(W.rules)
    /\ \A r \in DOMAIN W.rules :
          W.rules[r].left \in Range(W.symbols) /\ IsRight(W.rules[r].right, Range(W.symbols))
    /\ \A r \in 1..(Len(W.rules) - 1) :
          /\ W.rules[r].left \notin {NEW_ROOT, END_OF_INPUT}
          /\ \A k \in 1..Len(W.rules[r].right) : W.rules[r].right[k] \notin {NEW_ROOT, END_OF_INPUT}
    /\ W.rules[Len(W.rules)].left = NEW_ROOT
    /\ Len(W.rules[Len(W.rules)].right) = 2
    /\ W.rules[Len(W.rules)].right[1] = W.root
    /\ W.rules[Len(W.rules)].right[2] = END_OF_INPUT
    /\ \E r \in 1..(Len(W.rules) - 1) : W.rules[r].left = W.root
    /\ END_OF_INPUT \in Range(W.symbols)

\* AugmentGrammar gives such a grammar.
LEMMA Augmented ==
    ASSUME NEW G, IsGrammar(G), NEW W, W = AugmentGrammar(G)
    PROVE  /\ IsWork(W)
           /\ Len(W.rules) = Len(G.rules) + 1
           /\ Len(G.rules) \in Nat /\ DOMAIN G.rules = 1..Len(G.rules)
           /\ \A r \in 1..Len(G.rules) : W.rules[r] = G.rules[r]
           /\ W.root = G.root
           /\ Range(W.symbols) = Range(G.symbols) \cup {NEW_ROOT, END_OF_INPUT}
           /\ Metas(W) = Metas(G) \cup {NEW_ROOT}
<1> DEFINE s == G.symbols
           R == G.rules
           last == [left |-> NEW_ROOT, right |-> <<G.root, END_OF_INPUT>>]
<1>1. s \in Seq(Range(s)) /\ R \in Seq(Range(R))  BY DEF IsGrammar
<1>2. W.root = G.root /\ W.symbols = s \o <<END_OF_INPUT, NEW_ROOT>> /\ W.rules = Append(R, last)
  BY DEF AugmentGrammar
<1>3. /\ Len(s) \in Nat /\ DOMAIN s = 1..Len(s)
      /\ Len(W.symbols) = Len(s) + 2 /\ DOMAIN W.symbols = 1..(Len(s) + 2)
      /\ \A i \in 1..Len(s) : W.symbols[i] = s[i]
      /\ W.symbols[Len(s) + 1] = END_OF_INPUT /\ W.symbols[Len(s) + 2] = NEW_ROOT
  <2>1. <<END_OF_INPUT, NEW_ROOT>> \in Seq({END_OF_INPUT, NEW_ROOT})  OBVIOUS
  <2> HIDE DEF s
  <2>2. PICK S : S = Range(s) \cup {END_OF_INPUT, NEW_ROOT}  OBVIOUS
  <2>3. s \in Seq(S) /\ <<END_OF_INPUT, NEW_ROOT>> \in Seq(S)  BY <1>1, <2>2
  <2> QED BY <1>2, <2>3
<1>4. /\ Len(R) \in Nat /\ DOMAIN R = 1..Len(R)
      /\ Len(W.rules) = Len(R) + 1 /\ DOMAIN W.rules = 1..(Len(R) + 1)
      /\ \A r \in 1..Len(R) : W.rules[r] = R[r]
      /\ W.rules[Len(R) + 1] = last
  <2> HIDE DEF R, last
  <2>1. PICK S : S = Range(R) \cup {last}  OBVIOUS
  <2>2. R \in Seq(S) /\ last \in S  BY <1>1, <2>1
  <2> QED BY <1>2, <2>2
<1>5. Range(W.symbols) = Range(s) \cup {NEW_ROOT, END_OF_INPUT}
  <2>1. ASSUME NEW X \in Range(W.symbols) PROVE X \in Range(s) \cup {NEW_ROOT, END_OF_INPUT}
    <3>1. PICK i \in 1..(Len(s) + 2) : W.symbols[i] = X  BY <1>3, <2>1 DEF Range
    <3>2. i \in 1..Len(s) \/ i = Len(s) + 1 \/ i = Len(s) + 2  BY <1>3, <3>1
    <3> QED BY <1>3, <3>1, <3>2 DEF Range
  <2>2. ASSUME NEW X \in Range(s) PROVE X \in Range(W.symbols)
    <3>1. PICK i \in 1..Len(s) : s[i] = X  BY <1>3, <2>2 DEF Range
    <3>2. i \in 1..(Len(s) + 2) /\ W.symbols[i] = X  BY <1>3, <3>1
    <3> QED BY <1>3, <3>2 DEF Range
  <2>3. NEW_ROOT \in Range(W.symbols) /\ END_OF_INPUT \in Range(W.symbols)
    <3>1. Len(s) + 1 \in 1..(Len(s) + 2) /\ Len(s) + 2 \in 1..(Len(s) + 2)  BY <1>3
    <3> QED BY <1>3, <3>1 DEF Range
  <2> QED BY <2>1, <2>2, <2>3
<1>6. Metas(W) = Metas(G) \cup {NEW_ROOT}
  <2>1. last.left = NEW_ROOT  OBVIOUS
  <2> HIDE DEF last, R
  <2>2. ASSUME NEW X \in Metas(W) PROVE X \in Metas(G) \cup {NEW_ROOT}
    <3>1. PICK r \in 1..(Len(R) + 1) : X = W.rules[r].left  BY <1>4, <2>2 DEF Metas
    <3>2. r \in 1..Len(R) \/ r = Len(R) + 1  BY <1>4, <3>1
    <3> QED BY <1>4, <2>1, <3>1, <3>2 DEF Metas, R
  <2>3. ASSUME NEW X \in Metas(G) PROVE X \in Metas(W)
    <3>1. PICK r \in 1..Len(R) : X = R[r].left  BY <1>4, <2>3 DEF Metas, R
    <3>2. r \in 1..(Len(R) + 1) /\ X = W.rules[r].left  BY <1>4, <3>1
    <3> QED BY <1>4, <3>2 DEF Metas
  <2>4. NEW_ROOT \in Metas(W)
    <3>1. Len(R) + 1 \in 1..(Len(R) + 1)  BY <1>4
    <3> QED BY <1>4, <2>1, <3>1 DEF Metas
  <2> QED BY <2>2, <2>3, <2>4
<1>7. \A i, j \in DOMAIN W.symbols : W.symbols[i] = W.symbols[j] => i = j
  <2> TAKE i, j \in DOMAIN W.symbols
  <2>1. \A k \in 1..Len(s) : s[k] # NEW_ROOT /\ s[k] # END_OF_INPUT
    BY <1>3 DEF IsGrammar, Range
  <2>2. \A k, l \in 1..Len(s) : s[k] = s[l] => k = l  BY <1>3 DEF IsGrammar
  <2>3. /\ i \in 1..Len(s) \/ i = Len(s) + 1 \/ i = Len(s) + 2
        /\ j \in 1..Len(s) \/ j = Len(s) + 1 \/ j = Len(s) + 2
    BY <1>3
  <2>4. END_OF_INPUT # NEW_ROOT  BY DEF END_OF_INPUT, NEW_ROOT
  <2> QED BY <1>3, <2>1, <2>2, <2>3, <2>4
<1>8. \A r \in 1..Len(R) : R[r].left \in Range(s) /\ IsRight(R[r].right, Range(s))
  <2> TAKE r \in 1..Len(R)
  <2>1. R[r].left \in Range(s) /\ R[r].right \in Seq(Range(s)) \ {<<>>}  BY <1>4 DEF IsGrammar
  <2>2. PICK q, S : q = R[r].right /\ S = Range(s)  OBVIOUS
  <2>3. q \in Seq(S) /\ q # <<>>  BY <2>1, <2>2
  <2>4. Len(q) \in Nat \ {0} /\ DOMAIN q = 1..Len(q) /\ \A k \in 1..Len(q) : q[k] \in S
    BY ONLY <2>3
  <2> QED BY <2>1, <2>2, <2>4 DEF IsRight
<1>9. {NEW_ROOT, END_OF_INPUT} \cap Range(s) = {} /\ G.root \in Metas(G)  BY DEF IsGrammar
<1>10. \A r \in DOMAIN W.rules :
          W.rules[r].left \in Range(W.symbols) /\ IsRight(W.rules[r].right, Range(W.symbols))
  <2> TAKE r \in DOMAIN W.rules
  <2>1. CASE r \in 1..Len(R)
    BY <1>4, <1>5, <1>8, <2>1 DEF IsRight
  <2>2. CASE r = Len(R) + 1
    <3>1. G.root \in Range(s)
      <4>1. PICK q \in DOMAIN G.rules : G.root = G.rules[q].left  BY <1>9 DEF Metas
      <4> QED BY <1>4, <1>8, <4>1
    <3>2. IsRight(<<G.root, END_OF_INPUT>>, Range(W.symbols))  BY <1>5, <3>1 DEF IsRight
    <3> QED BY <1>4, <1>5, <2>2, <3>2
  <2> QED BY <1>4, <2>1, <2>2
<1>11. \A r \in 1..(Len(W.rules) - 1) :
          /\ W.rules[r].left \notin {NEW_ROOT, END_OF_INPUT}
          /\ \A k \in 1..Len(W.rules[r].right) : W.rules[r].right[k] \notin {NEW_ROOT, END_OF_INPUT}
  <2> TAKE r \in 1..(Len(W.rules) - 1)
  <2>1. r \in 1..Len(R) /\ W.rules[r] = R[r]  BY <1>4
  <2> QED BY <1>8, <1>9, <2>1 DEF IsRight
<1>12. \E r \in 1..(Len(W.rules) - 1) : W.rules[r].left = W.root
  <2>1. PICK q \in 1..Len(R) : R[q].left = G.root  BY <1>4, <1>9 DEF Metas
  <2> QED BY <1>2, <1>4, <2>1
<1>13. IsWork(W)
  <2>1. Len(W.rules) \in Nat \ {0} /\ DOMAIN W.rules = 1..Len(W.rules)  BY <1>4
  <2>2. Len(W.symbols) \in Nat /\ DOMAIN W.symbols = 1..Len(W.symbols)  BY <1>3
  <2>3. W.rules[Len(W.rules)] = last  BY <1>4
  <2>4. last.left = NEW_ROOT /\ Len(last.right) = 2 /\ last.right[1] = W.root /\ last.right[2] = END_OF_INPUT
    BY <1>2
  <2> HIDE DEF last, s, R
  <2> QED BY <1>5, <1>7, <1>10, <1>11, <1>12, <2>1, <2>2, <2>3, <2>4 DEF IsWork
<1> QED BY <1>2, <1>4, <1>5, <1>6, <1>13

-----------------------------------------------------------------------------
(* FIRST and the prefixes: the least families of sets closed under the     *)
(* first n rules.                                                          *)

FirstClosed(W, n, F) ==
    \A r \in 1..n : Opens(W, F, W.rules[r].right[1]) \subseteq F[W.rules[r].left]

FirstLeast(W, n, F) ==
    \A H : FirstClosed(W, n, H) => \A X \in DOMAIN F : F[X] \subseteq H[X]

PrefixClosed(W, n, F) ==
    \A r \in 1..n : Additions(W, F, W.rules[r].right[1]) \subseteq F[W.rules[r].left]

\* Prefixes of one symbol, in every closed family.
PrefixLeast(W, n, F) ==
    \A H : FirstClosed(W, n, H) => \A X \in DOMAIN F : F[X] \subseteq {<<t>> : t \in H[X]}

IsSingles(F) == \A X \in DOMAIN F : \A p \in F[X] : \E t : p = <<t>>

\* The sets of a family over the symbols.
Families(W) == [Range(W.symbols) -> SUBSET Range(W.symbols)]

\* A turn of the loop of Build_FIRST_Set.
LEMMA FirstStep ==
    ASSUME NEW W, NEW n \in Nat, NEW r \in 1..n, NEW F, NEW F2,
           F \in Families(W), FirstLeast(W, n, F),
           W.rules[r].left \in Range(W.symbols), IsRight(W.rules[r].right, Range(W.symbols)),
           F2 = FirstOfRule(W, F, W.rules[r])
    PROVE  /\ F2 \in Families(W)
           /\ FirstLeast(W, n, F2)
           /\ F2 = F => Opens(W, F, W.rules[r].right[1]) \subseteq F[W.rules[r].left]
<1> DEFINE l == W.rules[r].left
           X1 == W.rules[r].right[1]
           O == Opens(W, F, X1)
<1>1. X1 \in Range(W.symbols)
  <2>1. 1 \in 1..Len(W.rules[r].right)  BY DEF IsRight
  <2> QED BY <2>1 DEF IsRight
<1>2. O \subseteq Range(W.symbols)  BY <1>1 DEF Opens, Families
<1>3. F2 = [F EXCEPT ![l] = @ \cup O]  BY DEF FirstOfRule
<1>4. /\ DOMAIN F2 = Range(W.symbols) /\ DOMAIN F = Range(W.symbols)
      /\ \A X \in Range(W.symbols) : F2[X] = IF X = l THEN F[X] \cup O ELSE F[X]
  <2> HIDE DEF O, l
  <2> QED BY <1>3 DEF Families
<1>5. F2 \in Families(W)
  <2> HIDE DEF O, l
  <2> QED BY <1>2, <1>3 DEF Families
<1>6. FirstLeast(W, n, F2)
  <2> SUFFICES ASSUME NEW H, FirstClosed(W, n, H), NEW X \in Range(W.symbols)
               PROVE  F2[X] \subseteq H[X]
    BY <1>4 DEF FirstLeast
  <2>1. \A Y \in Range(W.symbols) : F[Y] \subseteq H[Y]  BY <1>4 DEF FirstLeast
  <2>2. Opens(W, H, X1) \subseteq H[l]  BY DEF FirstClosed
  <2>3. O \subseteq Opens(W, H, X1)  BY <1>1, <2>1 DEF Opens
  <2> QED BY <1>4, <2>1, <2>2, <2>3
<1>7. F2 = F => O \subseteq F[l]  BY <1>4
<1> QED BY <1>5, <1>6, <1>7

\* The prefixes of length 1 of a rule are those of its first symbol.
LEMMA RulePrefixesOne ==
    ASSUME NEW W, NEW F, NEW rule, NEW S, IsRight(rule.right, S), S \subseteq DOMAIN F, IsSingles(F)
    PROVE  RulePrefixes(W, F, PrefixLength, rule) = Additions(W, F, rule.right[1])
<1> DEFINE k == 1
           n == IF k < Len(rule.right) THEN k ELSE Len(rule.right)
           A(i) == Additions(W, F, rule.right[i])
           More(P, i) == {ExtendPrefix(k, p, a) : p \in P, a \in A(i)}
           Body(f) == [i \in 0..n |-> IF i = 0 THEN {<<>>} ELSE More(f[i - 1], i)]
           made == CHOOSE f : f = Body(f)
           g == [i \in 0..n |-> IF i = 0 THEN {<<>>} ELSE More({<<>>}, 1)]
<1>1. n = 1
  <2>1. PICK m : m = Len(rule.right)  OBVIOUS
  <2>2. m \in Nat \ {0}  BY <2>1 DEF IsRight
  <2>3. ~(1 < m) => m = 1  BY ONLY <2>2
  <2>4. CASE 1 < m  BY <2>1, <2>4
  <2>5. CASE m = 1  BY <2>1, <2>5
  <2> QED BY <2>3, <2>4, <2>5
<1>2. 0..n = {0, 1} /\ 1 - 1 = 0  BY ONLY <1>1
<1>3. g = Body(g)
  <2> HIDE DEF n, More
  <2>1. g[0] = {<<>>} /\ g[1] = More({<<>>}, 1)  BY <1>2
  <2>2. \A i \in 0..n : (IF i = 0 THEN {<<>>} ELSE More(g[i - 1], i)) = g[i]
    <3> HIDE DEF g
    <3> QED BY <1>2, <2>1
  <2>3. g = [i \in 0..n |-> g[i]]  OBVIOUS
  <2> HIDE DEF g
  <2> QED BY <2>2, <2>3
<1>4. made = Body(made)
  <2> HIDE DEF Body, g
  <2> QED BY <1>3
<1>5. made[0] = {<<>>} /\ made[1] = More(made[0], 1)
  <2> HIDE DEF made, n, More
  <2> QED BY <1>2, <1>4
<1>6. RulePrefixes(W, F, PrefixLength, rule) = made[n]
  BY DEF RulePrefixes, PrefixLength
<1>7. \A a \in A(1) : ExtendPrefix(k, <<>>, a) = a
  <2> TAKE a \in A(1)
  <2>1. \E t : a = <<t>>
    <3>1. rule.right[1] \in S
      <4>1. 1 \in 1..Len(rule.right)  BY DEF IsRight
      <4> QED BY <4>1 DEF IsRight
    <3> QED BY <3>1 DEF Additions, IsSingles
  <2>2. PICK t : a = <<t>>  BY <2>1
  <2>3. ExtendPrefix(1, <<>>, <<t>>) = <<>> \o SubSeq(<<t>>, 1, 1)  BY DEF ExtendPrefix
  <2>4. SubSeq(<<t>>, 1, 1) = <<t>>
    <3>1. <<t>> \in Seq({t})  OBVIOUS
    <3>2. PICK u : u = <<t>>  OBVIOUS
    <3>3. SubSeq(u, 1, 1) = [i \in 1..1 |-> u[i]]  BY <3>1, <3>2
    <3>4. u = [i \in 1..1 |-> u[i]]  BY <3>2
    <3> QED BY <3>2, <3>3, <3>4
  <2>5. <<>> \o <<t>> = <<t>>
    <3>1. <<t>> \in Seq({t}) /\ <<>> \in Seq({t})  OBVIOUS
    <3> QED BY <3>1
  <2> QED BY <2>2, <2>3, <2>4, <2>5
<1>8. made[n] = {ExtendPrefix(k, <<>>, a) : a \in A(1)}
  <2> HIDE DEF made, A, n
  <2> QED BY <1>1, <1>5
<1>9. {ExtendPrefix(k, <<>>, a) : a \in A(1)} = A(1)
  <2> HIDE DEF A
  <2> QED BY <1>7
<1> HIDE DEF made, n
<1> QED BY <1>6, <1>8, <1>9

\* A turn of the loop of Build_FIRST_Set_k.
LEMMA PrefixStep ==
    ASSUME NEW W, NEW n \in Nat, NEW r \in 1..n, NEW F, NEW F2,
           DOMAIN F = Range(W.symbols), IsSingles(F), PrefixLeast(W, n, F),
           W.rules[r].left \in Range(W.symbols), IsRight(W.rules[r].right, Range(W.symbols)),
           F2 = PrefixesOfRule(W, F, PrefixLength, W.rules[r])
    PROVE  /\ DOMAIN F2 = Range(W.symbols)
           /\ IsSingles(F2)
           /\ PrefixLeast(W, n, F2)
           /\ F2 = F => Additions(W, F, W.rules[r].right[1]) \subseteq F[W.rules[r].left]
<1> DEFINE l == W.rules[r].left
           X1 == W.rules[r].right[1]
           A == Additions(W, F, X1)
<1>1. X1 \in Range(W.symbols)
  <2>1. 1 \in 1..Len(W.rules[r].right)  BY DEF IsRight
  <2> QED BY <2>1 DEF IsRight
<1>2. RulePrefixes(W, F, PrefixLength, W.rules[r]) = A  BY RulePrefixesOne
<1>3. F2 = [F EXCEPT ![l] = @ \cup A]  BY <1>2 DEF PrefixesOfRule
<1>4. /\ DOMAIN F2 = Range(W.symbols)
      /\ \A X \in Range(W.symbols) : F2[X] = IF X = l THEN F[X] \cup A ELSE F[X]
  <2> HIDE DEF A, l
  <2> QED BY <1>3
<1>5. \A p \in A : \E t : p = <<t>>  BY <1>1 DEF Additions, IsSingles
<1>6. IsSingles(F2)
  <2> SUFFICES ASSUME NEW X \in Range(W.symbols), NEW p \in F2[X] PROVE \E t : p = <<t>>
    BY <1>4 DEF IsSingles
  <2>1. p \in F[X] \/ p \in A
    <3> HIDE DEF A, l
    <3> QED BY <1>4
  <2> HIDE DEF A, l
  <2> QED BY <1>5, <2>1 DEF IsSingles
<1>7. PrefixLeast(W, n, F2)
  <2> SUFFICES ASSUME NEW H, FirstClosed(W, n, H), NEW X \in Range(W.symbols)
               PROVE  F2[X] \subseteq {<<t>> : t \in H[X]}
    BY <1>4 DEF PrefixLeast
  <2>1. \A Y \in Range(W.symbols) : F[Y] \subseteq {<<t>> : t \in H[Y]}  BY DEF PrefixLeast
  <2>2. Opens(W, H, X1) \subseteq H[l]  BY DEF FirstClosed
  <2>3. A \subseteq {<<t>> : t \in Opens(W, H, X1)}
    <3>1. CASE X1 \in Metas(W)  BY <1>1, <2>1, <3>1 DEF Opens, Additions
    <3>2. CASE X1 \notin Metas(W)  BY <3>2 DEF Opens, Additions
    <3> QED BY <3>1, <3>2
  <2>4. A \subseteq {<<t>> : t \in H[l]}
    <3> HIDE DEF A, l, X1
    <3> QED BY <2>2, <2>3
  <2> HIDE DEF A, l
  <2> QED BY <1>4, <2>1, <2>4
<1>8. F2 = F => A \subseteq F[l]
  <2>1. F2[l] = F[l] \cup A
    <3> HIDE DEF A
    <3> QED BY <1>4
  <2> QED BY <2>1
<1> QED BY <1>4, <1>6, <1>7, <1>8

\* The two computations agree on the root: the prefixes F were made for the rules
\* before the last, the sets first for all rules of the augmented grammar.
LEMMA SameStart ==
    ASSUME NEW W, IsWork(W), NEW F, NEW G, NEW n, n = Len(W.rules) - 1,
           DOMAIN F = Range(W.symbols) \ {NEW_ROOT, END_OF_INPUT},
           IsSingles(F), PrefixLeast(W, n, F), PrefixClosed(W, n, F),
           G \in Families(W), FirstClosed(W, n + 1, G), FirstLeast(W, n + 1, G)
    PROVE  F[W.root] = {<<t>> : t \in G[W.root]}
<1> DEFINE K == [X \in Range(W.symbols) |->
                    IF X = NEW_ROOT THEN {p[1] : p \in F[W.root]}
                    ELSE IF X = END_OF_INPUT THEN {} ELSE {p[1] : p \in F[X]}]
<1>1. /\ n \in Nat /\ n + 1 = Len(W.rules) /\ n + 1 \in 1..(n + 1) /\ 1..n \subseteq 1..(n + 1)
      /\ \A r \in 1..(n + 1) : r \in 1..n \/ r = n + 1
  BY DEF IsWork
<1>2. /\ W.root \in DOMAIN F /\ W.root \in Metas(W) /\ W.root \in Range(W.symbols)
      /\ W.root \notin {NEW_ROOT, END_OF_INPUT}
  <2>1. PICK r \in 1..n : W.rules[r].left = W.root  BY DEF IsWork
  <2>2. r \in DOMAIN W.rules  BY <1>1, <2>1 DEF IsWork
  <2> QED BY <2>1, <2>2 DEF IsWork, Metas
<1>3. F[W.root] \subseteq {<<t>> : t \in G[W.root]}
  <2>1. FirstClosed(W, n, G)  BY <1>1 DEF FirstClosed
  <2> QED BY <1>2, <2>1 DEF PrefixLeast
<1>4. \A r \in 1..n : /\ W.rules[r].left \in DOMAIN F
                      /\ W.rules[r].right[1] \in DOMAIN F
  <2> TAKE r \in 1..n
  <2>1. r \in DOMAIN W.rules  BY <1>1 DEF IsWork
  <2>2. IsRight(W.rules[r].right, Range(W.symbols))  BY <2>1 DEF IsWork
  <2>3. 1 \in 1..Len(W.rules[r].right)  BY <2>2 DEF IsRight
  <2> QED BY <2>1, <2>2, <2>3 DEF IsWork, IsRight
<1>5. \A X \in DOMAIN F : X \in Range(W.symbols) /\ K[X] = {p[1] : p \in F[X]}
  OBVIOUS
<1>6. FirstClosed(W, n + 1, K)
  <2> SUFFICES ASSUME NEW r \in 1..(n + 1)
               PROVE  Opens(W, K, W.rules[r].right[1]) \subseteq K[W.rules[r].left]
    BY DEF FirstClosed
  <2>1. CASE r \in 1..n
    <3>1. PICK X, l : X = W.rules[r].right[1] /\ l = W.rules[r].left  OBVIOUS
    <3>2. X \in DOMAIN F /\ l \in DOMAIN F  BY <1>4, <2>1, <3>1
    <3>3. Additions(W, F, X) \subseteq F[l]  BY <2>1, <3>1 DEF PrefixClosed
    <3>4. K[X] = {p[1] : p \in F[X]} /\ K[l] = {p[1] : p \in F[l]}  BY <1>5, <3>2
    <3>5. CASE X \in Metas(W)
      <4>1. F[X] \subseteq F[l]  BY <3>3, <3>5 DEF Additions
      <4>2. K[X] \subseteq K[l]
        <5> HIDE DEF K
        <5> QED BY <3>4, <4>1
      <4> QED BY <3>1, <3>5, <4>2 DEF Opens
    <3>6. CASE X \notin Metas(W)
      <4>1. <<X>> \in F[l]  BY <3>3, <3>6 DEF Additions
      <4>2. <<X>>[1] = X  OBVIOUS
      <4>3. X \in K[l]
        <5> HIDE DEF K
        <5> QED BY <3>4, <4>1, <4>2
      <4> QED BY <3>1, <3>6, <4>3 DEF Opens
    <3> QED BY <3>5, <3>6
  <2>2. CASE r = n + 1
    <3>1. W.rules[r].right[1] = W.root /\ W.rules[r].left = NEW_ROOT  BY <1>1, <2>2 DEF IsWork
    <3>2. NEW_ROOT \in Range(W.symbols)
      <4>1. r \in DOMAIN W.rules  BY <1>1, <2>2 DEF IsWork
      <4> QED BY <3>1, <4>1 DEF IsWork
    <3>3. K[NEW_ROOT] = {p[1] : p \in F[W.root]}  BY <3>2
    <3>4. K[W.root] = {p[1] : p \in F[W.root]}  BY <1>2, <1>5
    <3> HIDE DEF K
    <3> QED BY <1>2, <3>1, <3>3, <3>4 DEF Opens
  <2> QED BY <1>1, <2>1, <2>2
<1>7. G[W.root] \subseteq K[W.root]
  <2> HIDE DEF K
  <2> QED BY <1>2, <1>6 DEF FirstLeast, Families
<1>8. {<<t>> : t \in G[W.root]} \subseteq F[W.root]
  <2> SUFFICES ASSUME NEW t \in G[W.root] PROVE <<t>> \in F[W.root]  OBVIOUS
  <2>1. K[W.root] = {p[1] : p \in F[W.root]}  BY <1>2, <1>5
  <2> HIDE DEF K
  <2>2. PICK p \in F[W.root] : t = p[1]  BY <1>7, <2>1
  <2>3. PICK u : p = <<u>>  BY <1>2, <2>2 DEF IsSingles
  <2> QED BY <2>2, <2>3
<1> QED BY <1>3, <1>8

-----------------------------------------------------------------------------
(* FOLLOW                                                                  *)

\* What a rule asks of the FOLLOW sets.
FollowsRule(W, first_, F, rule) ==
    /\ \A k \in 1..(Len(rule.right) - 1) : Opens(W, first_, rule.right[k + 1]) \subseteq F[rule.right[k]]
    /\ rule.right[Len(rule.right)] \in Metas(W) => F[rule.left] \subseteq F[rule.right[Len(rule.right)]]

FollowClosed(W, n, first_, F) == \A r \in 1..n : FollowsRule(W, first_, F, W.rules[r])

\* A turn of the loop of Build_FOLLOW_Set.
LEMMA FollowStep ==
    ASSUME NEW W, NEW rule, NEW first_, NEW F, NEW F2,
           first_ \in Families(W), F \in Families(W),
           rule.left \in Range(W.symbols), IsRight(rule.right, Range(W.symbols)),
           F2 = FollowOfRule(W, first_, F, rule)
    PROVE  /\ F2 \in Families(W)
           /\ F2 = F => FollowsRule(W, first_, F, rule)
<1> DEFINE S == Range(W.symbols)
           m == Len(rule.right)
           inner == [X \in DOMAIN F |-> F[X] \cup Neighbours(W, first_, rule, X)]
           last == rule.right[m]
<1>1. m \in Nat \ {0} /\ \A k \in 1..m : rule.right[k] \in S  BY DEF IsRight
<1>2. \A X \in S : Opens(W, first_, X) \subseteq S  BY DEF Opens, Families
<1>3. \A X \in S : Neighbours(W, first_, rule, X) \subseteq S
  <2> SUFFICES ASSUME NEW X \in S, NEW i \in 1..(m - 1)
               PROVE  Opens(W, first_, rule.right[i + 1]) \subseteq S
    BY DEF Neighbours
  <2>1. i + 1 \in 1..m  BY <1>1
  <2> QED BY <1>1, <1>2, <2>1
<1>4. inner \in Families(W)  BY <1>3 DEF Families
<1>5. last \in S  BY <1>1
<1>6. F2 = IF last \in Metas(W) THEN [inner EXCEPT ![last] = @ \cup inner[rule.left]] ELSE inner
  BY DEF FollowOfRule
<1>7. DOMAIN F = S /\ \A X \in S : inner[X] = F[X] \cup Neighbours(W, first_, rule, X)
  BY DEF Families
<1>8. F2 \in Families(W)
  <2>1. PICK f : f = inner  OBVIOUS
  <2>2. inner[rule.left] \subseteq S  BY <1>4 DEF Families
  <2> HIDE DEF inner, last
  <2> QED BY <1>4, <1>5, <1>6, <2>2 DEF Families
<1>9. ASSUME F2 = F PROVE FollowsRule(W, first_, F, rule)
  <2>1. \A X \in S : inner[X] \subseteq F2[X]
    <3> HIDE DEF inner, last
    <3> QED BY <1>4, <1>6 DEF Families
  <2>2. \A X \in S : Neighbours(W, first_, rule, X) \subseteq F[X]
    <3> HIDE DEF inner
    <3> QED BY <1>7, <1>9, <2>1
  <2>3. ASSUME NEW k \in 1..(m - 1)
        PROVE  Opens(W, first_, rule.right[k + 1]) \subseteq F[rule.right[k]]
    <3>1. k \in 1..m  BY <1>1
    <3>2. rule.right[k] \in S  BY <1>1, <3>1
    <3>3. Opens(W, first_, rule.right[k + 1]) \subseteq Neighbours(W, first_, rule, rule.right[k])
      BY DEF Neighbours
    <3> QED BY <2>2, <3>2, <3>3
  <2>4. ASSUME last \in Metas(W) PROVE F[rule.left] \subseteq F[last]
    <3>1. inner[rule.left] \subseteq F2[last]
      <4> HIDE DEF inner, last
      <4> QED BY <1>4, <1>5, <1>6, <2>4 DEF Families
    <3>2. F[rule.left] \subseteq inner[rule.left]
      <4> HIDE DEF inner
      <4> QED BY <1>7
    <3> QED BY <1>9, <3>1, <3>2
  <2> QED BY <2>3, <2>4 DEF FollowsRule
<1> QED BY <1>8, <1>9

\* A form in which FOLLOW explains what stands behind a non-terminal.
IsGoodForm(W, first_, F, form) ==
    /\ IsRight(form, Range(W.symbols))
    /\ \A i \in 1..(Len(form) - 1) :
          form[i] \in Metas(W) => Opens(W, first_, form[i + 1]) \subseteq F[form[i]]

LEMMA Replaced ==
    ASSUME NEW S, NEW form, IsRight(form, S), NEW part, IsRight(part, S), NEW i \in 1..Len(form),
           NEW g, g = Replace(form, i, part)
    PROVE  /\ IsRight(g, S)
           /\ Len(g) = Len(form) + Len(part) - 1
           /\ \A j \in 1..Len(g) :
                 g[j] = IF j < i THEN form[j]
                        ELSE IF j < i + Len(part) THEN part[j - i + 1]
                        ELSE form[j - Len(part) + 1]
<1>1. PICK a, b : a = Len(form) /\ b = Len(part)  OBVIOUS
<1>2. a \in Nat \ {0} /\ b \in Nat \ {0} /\ i \in 1..a  BY <1>1 DEF IsRight
<1>3. PICK N : N = a + b - 1  OBVIOUS
<1>4. N \in Nat \ {0}  BY <1>2, <1>3
<1>5. g = [j \in 1..N |-> IF j < i THEN form[j] ELSE IF j < i + b THEN part[j - i + 1] ELSE form[j - b + 1]]
  BY <1>1, <1>3 DEF Replace
<1>6. \A j \in 1..N : g[j] \in S
  <2> TAKE j \in 1..N
  <2>1. CASE j < i
    <3>1. j \in 1..a  BY <1>2, <1>4, <2>1
    <3> QED BY <1>1, <1>5, <2>1, <3>1 DEF IsRight
  <2>2. CASE ~(j < i) /\ j < i + b
    <3>1. j - i + 1 \in 1..b  BY <1>2, <1>4, <2>2
    <3> QED BY <1>1, <1>5, <2>2, <3>1 DEF IsRight
  <2>3. CASE ~(j < i) /\ ~(j < i + b)
    <3>1. j - b + 1 \in 1..a  BY <1>2, <1>3, <1>4, <2>3
    <3> QED BY <1>1, <1>5, <2>3, <3>1 DEF IsRight
  <2> QED BY <2>1, <2>2, <2>3
<1>7. g \in Seq(S) /\ Len(g) = N /\ DOMAIN g = 1..N
  <2>1. g \in [1..N -> S]
    <3>1. g = [j \in 1..N |-> g[j]]  BY <1>5
    <3> QED BY <1>6, <3>1
  <2>2. N \in Nat  BY <1>4
  <2> QED BY ONLY <2>1, <2>2
<1> QED BY <1>1, <1>3, <1>4, <1>5, <1>6, <1>7 DEF IsRight

LEMMA RewrittenIsGood ==
    ASSUME NEW W, NEW first_, NEW F, NEW n, n = Len(W.rules), IsWork(W),
           FirstClosed(W, n, first_), FollowClosed(W, n, first_, F),
           NEW form, IsGoodForm(W, first_, F, form), NEW g \in Rewrites(W, form)
    PROVE  IsGoodForm(W, first_, F, g)
<1>1. PICK i \in DOMAIN form, r \in DOMAIN W.rules :
         W.rules[r].left = form[i] /\ g = Replace(form, i, W.rules[r].right)
  BY DEF Rewrites
<1>2. PICK part, S, a, b : /\ part = W.rules[r].right /\ S = Range(W.symbols)
                           /\ a = Len(form) /\ b = Len(part)
  OBVIOUS
<1>3. r \in 1..n /\ IsRight(part, S) /\ IsRight(form, S)  BY <1>2 DEF IsWork, IsGoodForm
<1>4. a \in Nat \ {0} /\ b \in Nat \ {0} /\ i \in 1..a  BY <1>2, <1>3 DEF IsRight
<1>5. /\ IsRight(g, S) /\ Len(g) = a + b - 1
      /\ \A j \in 1..(a + b - 1) :
            g[j] = IF j < i THEN form[j]
                   ELSE IF j < i + b THEN part[j - i + 1] ELSE form[j - b + 1]
  <2>1. i \in 1..Len(form) /\ g = Replace(form, i, part)  BY <1>1, <1>2, <1>4
  <2>2. /\ IsRight(g, S)
        /\ Len(g) = Len(form) + Len(part) - 1
        /\ \A j \in 1..Len(g) :
              g[j] = IF j < i THEN form[j]
                     ELSE IF j < i + Len(part) THEN part[j - i + 1]
                     ELSE form[j - Len(part) + 1]
    BY ONLY <1>3, <2>1, Replaced
  <2> QED BY <1>2, <2>2
<1>6. FollowsRule(W, first_, F, W.rules[r])  BY <1>3 DEF FollowClosed
<1>7. /\ \A k \in 1..(b - 1) : Opens(W, first_, part[k + 1]) \subseteq F[part[k]]
      /\ part[b] \in Metas(W) => F[form[i]] \subseteq F[part[b]]
  BY <1>1, <1>2, <1>6 DEF FollowsRule
<1>8. Opens(W, first_, part[1]) \subseteq first_[form[i]]  BY <1>1, <1>2, <1>3 DEF FirstClosed
<1>9. form[i] \in Metas(W)  BY <1>1 DEF Metas
<1>10. \A k \in 1..(a - 1) : form[k] \in Metas(W) => Opens(W, first_, form[k + 1]) \subseteq F[form[k]]
  BY <1>2 DEF IsGoodForm
<1>11. ASSUME NEW j \in 1..(a + b - 2), g[j] \in Metas(W)
       PROVE  Opens(W, first_, g[j + 1]) \subseteq F[g[j]]
  <2>1. j \in 1..(a + b - 1) /\ j + 1 \in 1..(a + b - 1) /\ j \in Int  BY <1>4, <1>11
  <2>2. CASE j + 1 < i
    <3>1. g[j] = form[j] /\ g[j + 1] = form[j + 1]  BY <1>4, <1>5, <2>1, <2>2
    <3>2. j \in 1..(a - 1)  BY <1>4, <2>1, <2>2
    <3> QED BY <1>10, <1>11, <3>1, <3>2
  <2>3. CASE j + 1 = i
    <3>1. g[j] = form[j]  BY <1>4, <1>5, <2>1, <2>3
    <3>2. g[j + 1] = part[1]
      <4>1. (j + 1) - i + 1 = 1 /\ ~(j + 1 < i) /\ j + 1 < i + b  BY <1>4, <2>1, <2>3
      <4> QED BY <1>5, <2>1, <4>1
    <3>3. j \in 1..(a - 1)  BY <1>4, <2>1, <2>3
    <3>4. Opens(W, first_, form[i]) \subseteq F[form[j]]  BY <1>10, <1>11, <2>3, <3>1, <3>3
    <3>5. Opens(W, first_, form[i]) = first_[form[i]]  BY <1>9 DEF Opens
    <3> QED BY <1>8, <3>1, <3>2, <3>4, <3>5
  <2>4. CASE i <= j /\ j + 1 < i + b
    <3>1. PICK k : k = j - i + 1  OBVIOUS
    <3>2. k \in 1..(b - 1) /\ (j + 1) - i + 1 = k + 1 /\ ~(j < i) /\ ~(j + 1 < i) /\ j < i + b
      BY ONLY <1>4, <2>1, <2>4, <3>1
    <3>3. g[j] = part[k] /\ g[j + 1] = part[k + 1]  BY <1>5, <2>1, <2>4, <3>1, <3>2
    <3> QED BY <1>7, <3>2, <3>3
  <2>5. CASE j + 1 = i + b
    <3>1. j - i + 1 = b /\ (j + 1) - b + 1 = i + 1 /\ ~(j < i) /\ ~(j + 1 < i) /\ j < i + b /\ ~(j + 1 < i + b)
      BY <1>4, <2>1, <2>5
    <3>2. g[j] = part[b] /\ g[j + 1] = form[i + 1]  BY <1>5, <2>1, <3>1
    <3>3. i \in 1..(a - 1)  BY <1>4, <1>11, <2>5
    <3>4. Opens(W, first_, form[i + 1]) \subseteq F[form[i]]  BY <1>9, <1>10, <3>3
    <3> QED BY <1>7, <1>11, <3>2, <3>4
  <2>6. CASE i + b <= j
    <3>1. PICK k : k = j - b + 1  OBVIOUS
    <3>2. k \in 1..(a - 1) /\ (j + 1) - b + 1 = k + 1 /\ ~(j < i) /\ ~(j + 1 < i) /\ ~(j < i + b) /\ ~(j + 1 < i + b)
      BY <1>4, <1>11, <2>1, <2>6, <3>1
    <3>3. g[j] = form[k] /\ g[j + 1] = form[k + 1]  BY <1>5, <2>1, <3>1, <3>2
    <3> QED BY <1>10, <1>11, <3>2, <3>3
  <2> QED BY <1>4, <2>1, <2>2, <2>3, <2>4, <2>5, <2>6
<1>12. Len(g) - 1 = a + b - 2  BY <1>4, <1>5
<1> QED BY <1>2, <1>5, <1>11, <1>12 DEF IsGoodForm

\* The forms that one more step gives.
MoreForms(W, before) ==
    before \cup {f \in UNION {Rewrites(W, form) : form \in before} : Len(f) <= MaxForm}

AreForms(W, X, g, n) == g[0] = {<<X>>} /\ \A k \in 1..n : g[k] = MoreForms(W, g[k - 1])

LEMMA FormsExist ==
    ASSUME NEW W, NEW X, NEW n \in Nat
    PROVE  \E g : AreForms(W, X, g, n)
<1> DEFINE S == {m \in Nat : \E g : AreForms(W, X, g, m)}
<1>1. 0 \in S
  <2>1. PICK g : g = [k \in {0} |-> {<<X>>}]  OBVIOUS
  <2>2. AreForms(W, X, g, 0)  BY <2>1 DEF AreForms
  <2> QED BY <2>2
<1>2. ASSUME NEW m \in Nat, m \in S PROVE m + 1 \in S
  <2>1. PICK g : AreForms(W, X, g, m)  BY <1>2
  <2>2. PICK v : v = MoreForms(W, g[m])  OBVIOUS
  <2>3. PICK h : h = [k \in 0..(m + 1) |-> IF k <= m THEN g[k] ELSE v]  OBVIOUS
  <2>4. h[0] = g[0]  BY <1>2, <2>3
  <2>5. ASSUME NEW k \in 1..(m + 1) PROVE h[k] = MoreForms(W, h[k - 1])
    <3>1. k \in 0..(m + 1) /\ k - 1 \in 0..(m + 1) /\ k - 1 <= m  BY <1>2
    <3>2. h[k - 1] = g[k - 1]  BY <2>3, <3>1
    <3>3. CASE k <= m
      <4>1. k \in 1..m  BY <1>2, <3>3
      <4>2. h[k] = g[k]  BY <2>3, <3>1, <3>3
      <4> QED BY <2>1, <3>2, <4>1, <4>2 DEF AreForms
    <3>4. CASE k = m + 1
      <4>1. ~(k <= m) /\ k - 1 = m  BY <1>2, <3>4
      <4>2. h[k] = v  BY <2>3, <3>1, <4>1
      <4> QED BY <2>2, <3>2, <4>1, <4>2
    <3> QED BY <1>2, <3>3, <3>4
  <2>6. AreForms(W, X, h, m + 1)  BY <2>1, <2>4, <2>5 DEF AreForms
  <2> QED BY <1>2, <2>6
<1>3. \A m \in Nat : m \in S
  <2> HIDE DEF S
  <2> QED BY <1>1, <1>2, NatUp
<1> QED BY <1>3

LEMMA FormsDef ==
    ASSUME NEW W, NEW X
    PROVE  \E g : AreForms(W, X, g, MaxSteps) /\ Forms(W, X) = g[MaxSteps]
<1> DEFINE Body(f) == [n \in 0..MaxSteps |-> IF n = 0 THEN {<<X>>} ELSE MoreForms(W, f[n - 1])]
           forms == CHOOSE f : f = Body(f)
<1>1. MaxSteps \in Nat  BY BoundAssumption
<1>2. \E f : f = Body(f)
  <2>1. PICK g : AreForms(W, X, g, MaxSteps)  BY <1>1, FormsExist
  <2>2. PICK h : h = [n \in 0..MaxSteps |-> g[n]]  OBVIOUS
  <2>3. \A n \in 0..MaxSteps : h[n] = IF n = 0 THEN {<<X>>} ELSE MoreForms(W, h[n - 1])
    <3> TAKE n \in 0..MaxSteps
    <3>1. CASE n = 0  BY <1>1, <2>1, <2>2, <3>1 DEF AreForms
    <3>2. CASE n # 0
      <4>1. n \in 1..MaxSteps /\ n - 1 \in 0..MaxSteps  BY <1>1, <3>2
      <4>2. h[n] = g[n] /\ h[n - 1] = g[n - 1]  BY <2>2, <4>1
      <4> QED BY <2>1, <3>2, <4>1, <4>2 DEF AreForms
    <3> QED BY <3>1, <3>2
  <2>4. h = [n \in 0..MaxSteps |-> h[n]]  BY <2>2
  <2>5. h = Body(h)  BY <2>3, <2>4
  <2> QED BY <2>5
<1>3. forms = Body(forms)
  <2> HIDE DEF Body
  <2> QED BY <1>2
<1>4. AreForms(W, X, forms, MaxSteps)
  <2> HIDE DEF forms
  <2>1. forms[0] = {<<X>>}  BY <1>1, <1>3
  <2>2. ASSUME NEW k \in 1..MaxSteps PROVE forms[k] = MoreForms(W, forms[k - 1])
    <3>1. k \in 0..MaxSteps /\ k # 0  BY <1>1
    <3> QED BY <1>3, <3>1
  <2> QED BY <2>1, <2>2 DEF AreForms
<1>5. Forms(W, X) = forms[MaxSteps]  BY DEF Forms, MoreForms
<1> HIDE DEF forms
<1> QED BY <1>4, <1>5

LEMMA FormsAreGood ==
    ASSUME NEW W, NEW first_, NEW F, NEW n, n = Len(W.rules), IsWork(W),
           FirstClosed(W, n, first_), FollowClosed(W, n, first_, F)
    PROVE  \A form \in Forms(W, NEW_ROOT) : IsGoodForm(W, first_, F, form)
<1>1. PICK g : AreForms(W, NEW_ROOT, g, MaxSteps) /\ Forms(W, NEW_ROOT) = g[MaxSteps]
  BY FormsDef
<1> DEFINE Good(k) == \A form \in g[k] : IsGoodForm(W, first_, F, form)
           S == {k \in Nat : k <= MaxSteps => Good(k)}
<1>2. MaxSteps \in Nat  BY BoundAssumption
<1>3. 0 \in S
  <2>1. NEW_ROOT \in Range(W.symbols)
    <3>1. Len(W.rules) \in DOMAIN W.rules  BY DEF IsWork
    <3> QED BY <3>1 DEF IsWork
  <2>2. IsGoodForm(W, first_, F, <<NEW_ROOT>>)  BY <2>1 DEF IsGoodForm, IsRight
  <2> QED BY <1>1, <2>2 DEF AreForms
<1>4. ASSUME NEW k \in Nat, k \in S PROVE k + 1 \in S
  <2> SUFFICES ASSUME k + 1 <= MaxSteps, NEW form \in g[k + 1] PROVE IsGoodForm(W, first_, F, form)
    BY <1>4
  <2>1. k + 1 \in 1..MaxSteps /\ (k + 1) - 1 = k /\ k <= MaxSteps  BY <1>2, <1>4
  <2>2. Good(k)  BY <1>4, <2>1
  <2>3. g[k + 1] = MoreForms(W, g[k])  BY <1>1, <2>1 DEF AreForms
  <2>4. CASE form \in g[k]  BY <2>2, <2>4
  <2>5. CASE \E b \in g[k] : form \in Rewrites(W, b)
    <3>1. PICK b \in g[k] : form \in Rewrites(W, b)  BY <2>5
    <3>2. IsGoodForm(W, first_, F, b)  BY <2>2, <3>1
    <3> QED BY <3>1, <3>2, RewrittenIsGood
  <2> QED BY <2>3, <2>4, <2>5 DEF MoreForms
<1>5. \A k \in Nat : k \in S
  <2> HIDE DEF S
  <2> QED BY <1>3, <1>4, NatUp
<1>6. Good(MaxSteps)  BY <1>2, <1>5
<1> QED BY <1>1, <1>6

-----------------------------------------------------------------------------
(* The invariant of the sweeps.                                            *)

Early == {"prefixes", "automaton", "augment"}
After == {"start", "line", "close", "compact", "done"}
Late  == {"first", "follow"} \cup After

GrammarInv ==
    /\ stage \in Early \cup Late
    /\ stage \in Early => IsGrammar(grammar)
    /\ stage \in Late => IsWork(grammar)
    /\ stage \in {"prefixes", "first", "follow"} => at \in 1..(Len(grammar.rules) + 1)

\* The number of the rules for which the prefixes were made.
OwnRules == IF stage \in Early THEN Len(grammar.rules) ELSE Len(grammar.rules) - 1

\* While nothing changes in a sweep, what it has passed is closed.
PrefixInv ==
    /\ DOMAIN First_k = Range(grammar.symbols) \ {NEW_ROOT, END_OF_INPUT}
    /\ IsSingles(First_k)
    /\ PrefixLeast(grammar, OwnRules, First_k)
    /\ (stage = "prefixes" /\ ~bChanged) => PrefixClosed(grammar, at - 1, First_k)
    /\ stage # "prefixes" =>
          PrefixClosed(grammar, OwnRules, First_k) /\ prefixes = First_k[grammar.root]

FirstInv ==
    stage \in Late =>
        /\ first \in Families(grammar)
        /\ FirstLeast(grammar, Len(grammar.rules), first)
        /\ (stage = "first" /\ ~bChanged) => FirstClosed(grammar, at - 1, first)
        /\ stage # "first" => FirstClosed(grammar, Len(grammar.rules), first)

FollowInv ==
    stage \in Late \ {"first"} =>
        /\ follow \in Families(grammar)
        /\ (stage = "follow" /\ ~bChanged) => FollowClosed(grammar, at - 1, first, follow)
        /\ stage # "follow" => FollowClosed(grammar, Len(grammar.rules), first, follow)

SetsInv == GrammarInv /\ PrefixInv /\ FirstInv /\ FollowInv

\* The rules and the symbols of a grammar that was handed over.
LEMMA GrammarFacts ==
    ASSUME NEW G, IsGrammar(G)
    PROVE  /\ Len(G.rules) \in Nat /\ DOMAIN G.rules = 1..Len(G.rules)
           /\ \A r \in 1..Len(G.rules) :
                 G.rules[r].left \in Range(G.symbols) /\ IsRight(G.rules[r].right, Range(G.symbols))
           /\ Range(G.symbols) \ {NEW_ROOT, END_OF_INPUT} = Range(G.symbols)
<1>1. PICK R, S : R = G.rules /\ S = Range(G.symbols)  OBVIOUS
<1>2. Len(R) \in Nat /\ DOMAIN R = 1..Len(R)
  <2>1. PICK T : T = Range(R)  OBVIOUS
  <2>2. R \in Seq(T)  BY <1>1, <2>1 DEF IsGrammar
  <2> QED BY ONLY <2>2
<1>3. ASSUME NEW r \in 1..Len(R) PROVE R[r].left \in S /\ IsRight(R[r].right, S)
  <2>1. R[r].left \in S /\ R[r].right \in Seq(S) \ {<<>>}  BY <1>1, <1>2 DEF IsGrammar
  <2>2. PICK q : q = R[r].right  OBVIOUS
  <2>3. q \in Seq(S) /\ q # <<>>  BY <2>1, <2>2
  <2>4. Len(q) \in Nat \ {0} /\ DOMAIN q = 1..Len(q) /\ \A k \in 1..Len(q) : q[k] \in S
    BY ONLY <2>3
  <2> QED BY <2>1, <2>2, <2>4 DEF IsRight
<1>4. {NEW_ROOT, END_OF_INPUT} \cap S = {}  BY <1>1 DEF IsGrammar
<1> QED BY <1>1, <1>2, <1>3, <1>4

LEMMA WorkFacts ==
    ASSUME NEW W, IsWork(W)
    PROVE  /\ Len(W.rules) \in Nat \ {0} /\ DOMAIN W.rules = 1..Len(W.rules)
           /\ \A r \in 1..Len(W.rules) :
                 W.rules[r].left \in Range(W.symbols) /\ IsRight(W.rules[r].right, Range(W.symbols))
BY DEF IsWork

\* What was said of the prefixes stays true of the augmented grammar.
LEMMA AugmentKeepsPrefixes ==
    ASSUME NEW G, IsGrammar(G), NEW W, W = AugmentGrammar(G), NEW n, n = Len(G.rules), NEW F,
           PrefixLeast(G, n, F), PrefixClosed(G, n, F)
    PROVE  PrefixLeast(W, n, F) /\ PrefixClosed(W, n, F)
<1>1. /\ \A r \in 1..n : W.rules[r] = G.rules[r]
      /\ Metas(W) = Metas(G) \cup {NEW_ROOT}
  BY Augmented
<1>2. \A r \in 1..n : G.rules[r].right[1] # NEW_ROOT
  <2> TAKE r \in 1..n
  <2>1. IsRight(G.rules[r].right, Range(G.symbols)) /\ NEW_ROOT \notin Range(G.symbols)
    BY GrammarFacts
  <2>2. 1 \in 1..Len(G.rules[r].right)  BY <2>1 DEF IsRight
  <2> QED BY <2>1, <2>2 DEF IsRight
<1>3. \A r \in 1..n : G.rules[r].right[1] \in Metas(W) <=> G.rules[r].right[1] \in Metas(G)
  BY <1>1, <1>2
<1>4. PrefixClosed(W, n, F)
  BY <1>1, <1>3 DEF PrefixClosed, Additions
<1>5. ASSUME NEW H, FirstClosed(W, n, H) PROVE FirstClosed(G, n, H)
  <2> SUFFICES ASSUME NEW r \in 1..n
               PROVE  Opens(G, H, G.rules[r].right[1]) \subseteq H[G.rules[r].left]
    BY DEF FirstClosed
  <2>1. Opens(W, H, W.rules[r].right[1]) \subseteq H[W.rules[r].left]  BY <1>5 DEF FirstClosed
  <2>2. W.rules[r] = G.rules[r]  BY <1>1
  <2>3. Opens(W, H, G.rules[r].right[1]) = Opens(G, H, G.rules[r].right[1])  BY <1>3 DEF Opens
  <2> QED BY <2>1, <2>2, <2>3
<1>6. PrefixLeast(W, n, F)  BY <1>5 DEF PrefixLeast
<1> QED BY <1>4, <1>6

LEMMA SetsInvInit == Init => SetsInv
<1> SUFFICES ASSUME Init PROVE SetsInv  OBVIOUS
<1>1. PICK G : G = grammar  OBVIOUS
<1>2. G \in Grammars /\ IsGrammar(G)  BY <1>1, GrammarAssumption DEF Init
<1>3. PICK n : n = Len(G.rules)  OBVIOUS
<1>4. n \in Nat /\ Range(G.symbols) \ {NEW_ROOT, END_OF_INPUT} = Range(G.symbols)
  BY <1>2, <1>3, GrammarFacts
<1>5. stage = "prefixes" /\ at = 1 /\ First_k = NoSets(G)  BY <1>1 DEF Init
<1>6. DOMAIN First_k = Range(G.symbols) /\ \A X \in Range(G.symbols) : First_k[X] = {}
  BY <1>5 DEF NoSets
<1>7. GrammarInv
  <2>1. 1 \in 1..(n + 1)  BY <1>4
  <2> QED BY <1>1, <1>2, <1>3, <1>5, <2>1 DEF GrammarInv, Early, Late, After
<1>8. PrefixInv
  <2>1. IsSingles(First_k)  BY <1>6 DEF IsSingles
  <2>2. PrefixLeast(grammar, OwnRules, First_k)  BY <1>6 DEF PrefixLeast
  <2>3. PrefixClosed(grammar, at - 1, First_k)  BY <1>5 DEF PrefixClosed
  <2> QED BY <1>1, <1>4, <1>5, <1>6, <2>1, <2>2, <2>3 DEF PrefixInv
<1>9. FirstInv /\ FollowInv  BY <1>5 DEF FirstInv, FollowInv, Late, After
<1> QED BY <1>7, <1>8, <1>9 DEF SetsInv

\* An action of a later stage changes nothing of this.
LEMMA SetsInvLater ==
    ASSUME SetsInv, stage \in After, stage' \in After,
           UNCHANGED <<grammar, First_k, prefixes, first, follow>>
    PROVE  SetsInv'
<1>1. /\ stage \notin Early /\ stage' \notin Early /\ stage \in Late /\ stage' \in Late
      /\ stage # "prefixes" /\ stage' # "prefixes" /\ stage # "first" /\ stage' # "first"
      /\ stage # "follow" /\ stage' # "follow"
  BY DEF Early, Late, After
<1>2. OwnRules' = OwnRules  BY <1>1 DEF OwnRules
<1>3. GrammarInv'  BY <1>1 DEF SetsInv, GrammarInv
<1>4. PrefixInv'  BY <1>1, <1>2 DEF SetsInv, PrefixInv
<1>5. FirstInv'  BY <1>1 DEF SetsInv, FirstInv
<1>6. FollowInv'  BY <1>1 DEF SetsInv, FollowInv
<1> QED BY <1>3, <1>4, <1>5, <1>6 DEF SetsInv

LEMMA SetsInvSweepAgain ==
    ASSUME SetsInv, SweepAgain
    PROVE  SetsInv'
<1>1. /\ stage' = stage /\ stage \in {"prefixes", "first", "follow"} /\ at' = 1
      /\ grammar' = grammar /\ First_k' = First_k /\ prefixes' = prefixes
      /\ first' = first /\ follow' = follow
  BY DEF SweepAgain
<1>2. Len(grammar.rules) \in Nat
  BY GrammarFacts, WorkFacts DEF SetsInv, GrammarInv
<1>3. at' - 1 = 0 /\ at' \in 1..(Len(grammar.rules) + 1)  BY <1>1, <1>2
<1>4. GrammarInv'  BY <1>1, <1>3 DEF SetsInv, GrammarInv
<1>5. OwnRules' = OwnRules  BY <1>1 DEF OwnRules
<1>6. PrefixClosed(grammar, 0, First_k) /\ FirstClosed(grammar, 0, first) /\ FollowClosed(grammar, 0, first, follow)
  BY DEF PrefixClosed, FirstClosed, FollowClosed
<1>7. PrefixInv'  BY <1>1, <1>3, <1>5, <1>6 DEF SetsInv, PrefixInv
<1>8. FirstInv'  BY <1>1, <1>3, <1>6 DEF SetsInv, FirstInv
<1>9. FollowInv'  BY <1>1, <1>3, <1>6 DEF SetsInv, FollowInv
<1> QED BY <1>4, <1>7, <1>8, <1>9 DEF SetsInv

LEMMA SetsInvPrefixRule ==
    ASSUME SetsInv, PrefixRule
    PROVE  SetsInv'
<1>1. /\ stage = "prefixes" /\ stage' = stage /\ grammar' = grammar /\ at <= Len(grammar.rules)
      /\ First_k' = PrefixesOfRule(grammar, First_k, PrefixLength, grammar.rules[at])
      /\ at' = at + 1
  BY DEF PrefixRule
<1>2. PICK G, n, F, F2, r : /\ G = grammar /\ n = Len(grammar.rules) /\ F = First_k /\ F2 = First_k'
                            /\ r = at
  OBVIOUS
<1>3. IsGrammar(G) /\ r \in 1..(n + 1) /\ OwnRules = n
  BY <1>1, <1>2 DEF SetsInv, GrammarInv, Early, OwnRules
<1>4. /\ n \in Nat /\ G.rules[r].left \in Range(G.symbols)
      /\ IsRight(G.rules[r].right, Range(G.symbols))
      /\ Range(G.symbols) \ {NEW_ROOT, END_OF_INPUT} = Range(G.symbols)
      /\ r \in 1..n
  <2>1. n \in Nat  BY <1>2, <1>3, GrammarFacts
  <2>2. r \in 1..n  BY <1>1, <1>2, <1>3, <2>1
  <2> QED BY <1>2, <1>3, <2>1, <2>2, GrammarFacts
<1>5. DOMAIN F = Range(G.symbols) /\ IsSingles(F) /\ PrefixLeast(G, n, F)
  BY <1>2, <1>3, <1>4 DEF SetsInv, PrefixInv
<1>6. F2 = PrefixesOfRule(G, F, PrefixLength, G.rules[r])  BY <1>1, <1>2
<1>7. /\ DOMAIN F2 = Range(G.symbols)
      /\ IsSingles(F2)
      /\ PrefixLeast(G, n, F2)
      /\ F2 = F => Additions(G, F, G.rules[r].right[1]) \subseteq F[G.rules[r].left]
  BY ONLY <1>4, <1>5, <1>6, PrefixStep
<1>8. ASSUME ~bChanged' PROVE PrefixClosed(G, r, F2)
  <2>1. ~bChanged /\ F2 = F  BY <1>2, <1>8 DEF PrefixRule
  <2>2. PrefixClosed(G, r - 1, F)  BY <1>1, <1>2, <2>1 DEF SetsInv, PrefixInv
  <2>3. \A q \in 1..r : q \in 1..(r - 1) \/ q = r  BY <1>4
  <2> QED BY <1>7, <2>1, <2>2, <2>3 DEF PrefixClosed
<1>9. OwnRules' = n  BY <1>1, <1>2 DEF OwnRules, Early
<1>10. at' - 1 = r /\ at' \in 1..(n + 1)  BY <1>1, <1>2, <1>4
<1>11. GrammarInv'  BY <1>1, <1>2, <1>3, <1>10 DEF GrammarInv, Early, Late, After
<1>12. PrefixInv'  BY <1>1, <1>2, <1>4, <1>7, <1>8, <1>9, <1>10 DEF PrefixInv
<1>13. FirstInv' /\ FollowInv'  BY <1>1 DEF FirstInv, FollowInv, Late, After
<1> QED BY <1>11, <1>12, <1>13 DEF SetsInv

LEMMA SetsInvPrefixesDone ==
    ASSUME SetsInv, PrefixesDone \/ BuildAutomat
    PROVE  SetsInv'
<1>1. /\ stage \in Early /\ stage' \in Early \ {"prefixes"} /\ stage # "augment"
      /\ grammar' = grammar /\ First_k' = First_k
  BY DEF PrefixesDone, BuildAutomat, Early
<1>2. IsGrammar(grammar)  BY <1>1 DEF SetsInv, GrammarInv
<1>3. Len(grammar.rules) \in Nat  BY <1>2, GrammarFacts
<1>4. OwnRules = Len(grammar.rules) /\ OwnRules' = OwnRules  BY <1>1 DEF OwnRules
<1>5. PrefixClosed(grammar, OwnRules, First_k) /\ prefixes' = First_k[grammar.root]
  <2>1. CASE PrefixesDone
    <3>1. stage = "prefixes" /\ at > Len(grammar.rules) /\ ~bChanged /\ prefixes' = First_k[grammar.root]
      BY <2>1 DEF PrefixesDone
    <3>2. at \in 1..(Len(grammar.rules) + 1)  BY <3>1 DEF SetsInv, GrammarInv
    <3>3. at - 1 = Len(grammar.rules)  BY <1>3, <3>1, <3>2
    <3>4. PrefixClosed(grammar, at - 1, First_k)  BY <3>1 DEF SetsInv, PrefixInv
    <3> QED BY <1>4, <3>1, <3>3, <3>4
  <2>2. CASE BuildAutomat
    BY <2>2 DEF BuildAutomat, SetsInv, PrefixInv
  <2> QED BY <2>1, <2>2
<1>6. GrammarInv'
  BY <1>1, <1>2 DEF GrammarInv, Early, Late, After
<1>7. PrefixInv'  BY <1>1, <1>4, <1>5 DEF SetsInv, PrefixInv
<1>8. FirstInv' /\ FollowInv'  BY <1>1 DEF FirstInv, FollowInv, Early, Late, After
<1> QED BY <1>6, <1>7, <1>8 DEF SetsInv

LEMMA SetsInvAugment ==
    ASSUME SetsInv, Augment
    PROVE  SetsInv'
<1>1. /\ stage = "augment" /\ stage' = "first" /\ grammar' = AugmentGrammar(grammar)
      /\ first' = NoSets(AugmentGrammar(grammar)) /\ at' = 1
      /\ First_k' = First_k /\ prefixes' = prefixes
  BY DEF Augment
<1>2. PICK G, W, n, F : G = grammar /\ W = grammar' /\ n = Len(grammar.rules) /\ F = First_k
  OBVIOUS
<1>3. IsGrammar(G) /\ W = AugmentGrammar(G)  BY <1>1, <1>2 DEF SetsInv, GrammarInv, Early
<1>4. /\ IsWork(W) /\ Len(W.rules) = n + 1 /\ n \in Nat /\ W.root = G.root
      /\ Range(W.symbols) = Range(G.symbols) \cup {NEW_ROOT, END_OF_INPUT}
      /\ Range(G.symbols) \ {NEW_ROOT, END_OF_INPUT} = Range(G.symbols)
  BY <1>2, <1>3, Augmented, GrammarFacts
<1>5. OwnRules = n /\ OwnRules' = n
  <2>1. OwnRules = n  BY <1>1, <1>2 DEF OwnRules, Early
  <2>2. OwnRules' = Len(W.rules) - 1  BY <1>1, <1>2 DEF OwnRules, Early
  <2> QED BY <1>4, <2>1, <2>2
<1>6. PrefixLeast(G, n, F) /\ PrefixClosed(G, n, F) /\ DOMAIN F = Range(G.symbols) /\ IsSingles(F)
      /\ prefixes = F[G.root]
  BY <1>1, <1>2, <1>4, <1>5 DEF SetsInv, PrefixInv
<1>7. PrefixLeast(W, n, F) /\ PrefixClosed(W, n, F)
  BY <1>2, <1>3, <1>6, AugmentKeepsPrefixes
<1>8. GrammarInv'
  <2>1. 1 \in 1..(Len(W.rules) + 1)  BY <1>4
  <2> QED BY <1>1, <1>2, <1>4, <2>1 DEF GrammarInv, Early, Late, After
<1>9. PrefixInv'
  <2>1. Range(W.symbols) \ {NEW_ROOT, END_OF_INPUT} = Range(G.symbols)  BY <1>4
  <2> QED BY <1>1, <1>2, <1>4, <1>5, <1>6, <1>7, <2>1 DEF PrefixInv
<1>10. FirstInv'
  <2>1. first' = NoSets(W)  BY <1>1, <1>2
  <2>2. first' \in Families(W) /\ \A X \in DOMAIN first' : first'[X] = {}
    BY <2>1 DEF NoSets, Families
  <2>3. FirstLeast(W, Len(W.rules), first')  BY <2>2 DEF FirstLeast
  <2>4. FirstClosed(W, at' - 1, first')  BY <1>1 DEF FirstClosed
  <2> QED BY <1>1, <1>2, <2>2, <2>3, <2>4 DEF FirstInv
<1>11. FollowInv'  BY <1>1 DEF FollowInv
<1> QED BY <1>8, <1>9, <1>10, <1>11 DEF SetsInv

LEMMA SetsInvFirstRule ==
    ASSUME SetsInv, FirstRule
    PROVE  SetsInv'
<1>1. /\ stage = "first" /\ stage' = stage /\ grammar' = grammar /\ at <= Len(grammar.rules)
      /\ first' = FirstOfRule(grammar, first, grammar.rules[at])
      /\ at' = at + 1 /\ First_k' = First_k /\ prefixes' = prefixes
  BY DEF FirstRule
<1>2. PICK W, n, F, F2, r : /\ W = grammar /\ n = Len(grammar.rules) /\ F = first /\ F2 = first'
                            /\ r = at
  OBVIOUS
<1>3. /\ IsWork(W) /\ r \in 1..(n + 1) /\ F \in Families(W) /\ FirstLeast(W, n, F)
      /\ stage \in Late /\ stage \notin Early
  BY <1>1, <1>2 DEF SetsInv, GrammarInv, FirstInv, Early, Late
<1>4. /\ n \in Nat /\ W.rules[r].left \in Range(W.symbols)
      /\ IsRight(W.rules[r].right, Range(W.symbols))
      /\ r \in 1..n
  <2>1. n \in Nat  BY <1>2, <1>3, WorkFacts
  <2>2. r \in 1..n  BY <1>1, <1>2, <1>3, <2>1
  <2> QED BY <1>2, <1>3, <2>1, <2>2, WorkFacts
<1>5. F2 = FirstOfRule(W, F, W.rules[r])  BY <1>1, <1>2
<1>6. /\ F2 \in Families(W)
      /\ FirstLeast(W, n, F2)
      /\ F2 = F => Opens(W, F, W.rules[r].right[1]) \subseteq F[W.rules[r].left]
  BY ONLY <1>3, <1>4, <1>5, FirstStep
<1>7. ASSUME ~bChanged' PROVE FirstClosed(W, r, F2)
  <2>1. ~bChanged /\ F2 = F  BY <1>2, <1>7 DEF FirstRule
  <2>2. FirstClosed(W, r - 1, F)  BY <1>1, <1>2, <1>3, <2>1 DEF SetsInv, FirstInv
  <2>3. \A q \in 1..r : q \in 1..(r - 1) \/ q = r  BY <1>4
  <2> QED BY <1>6, <2>1, <2>2, <2>3 DEF FirstClosed
<1>8. OwnRules' = OwnRules  BY <1>1 DEF OwnRules
<1>9. at' - 1 = r /\ at' \in 1..(n + 1)  BY <1>1, <1>2, <1>4
<1>10. GrammarInv'  BY <1>1, <1>2, <1>3, <1>9 DEF GrammarInv, Early, Late, After
<1>11. PrefixInv'  BY <1>1, <1>8 DEF SetsInv, PrefixInv
<1>12. FirstInv'  BY <1>1, <1>2, <1>6, <1>7, <1>9 DEF FirstInv
<1>13. FollowInv'  BY <1>1 DEF FollowInv
<1> QED BY <1>10, <1>11, <1>12, <1>13 DEF SetsInv

LEMMA SetsInvFirstDone ==
    ASSUME SetsInv, FirstDone
    PROVE  SetsInv'
<1>1. /\ stage = "first" /\ stage' = "follow" /\ grammar' = grammar /\ at > Len(grammar.rules)
      /\ ~bChanged /\ follow' = NoSets(grammar) /\ at' = 1
      /\ First_k' = First_k /\ prefixes' = prefixes /\ first' = first
  BY DEF FirstDone
<1>2. /\ IsWork(grammar) /\ at \in 1..(Len(grammar.rules) + 1)
      /\ stage \in Late /\ stage \notin Early /\ stage' \in Late /\ stage' \notin Early
  BY <1>1 DEF SetsInv, GrammarInv, Early, Late
<1>3. Len(grammar.rules) \in Nat  BY <1>2, WorkFacts
<1>4. at - 1 = Len(grammar.rules) /\ at' \in 1..(Len(grammar.rules) + 1) /\ at' - 1 = 0
  BY <1>1, <1>2, <1>3
<1>5. OwnRules' = OwnRules  BY <1>1, <1>2 DEF OwnRules
<1>6. GrammarInv'  BY <1>1, <1>2, <1>4 DEF GrammarInv
<1>7. PrefixInv'  BY <1>1, <1>5 DEF SetsInv, PrefixInv
<1>8. FirstInv'  BY <1>1, <1>2, <1>4 DEF SetsInv, FirstInv
<1>9. FollowInv'
  <2>1. follow' \in Families(grammar)  BY <1>1 DEF NoSets, Families
  <2>2. FollowClosed(grammar, 0, first, follow')  BY DEF FollowClosed
  <2> QED BY <1>1, <1>4, <2>1, <2>2 DEF FollowInv
<1> QED BY <1>6, <1>7, <1>8, <1>9 DEF SetsInv

LEMMA SetsInvFollowRule ==
    ASSUME SetsInv, FollowRule
    PROVE  SetsInv'
<1>1. /\ stage = "follow" /\ stage' = stage /\ grammar' = grammar /\ at <= Len(grammar.rules)
      /\ follow' = FollowOfRule(grammar, first, follow, grammar.rules[at])
      /\ at' = at + 1 /\ First_k' = First_k /\ prefixes' = prefixes /\ first' = first
  BY DEF FollowRule
<1>2. PICK W, n, D, F, F2, r : /\ W = grammar /\ n = Len(grammar.rules) /\ D = first
                               /\ F = follow /\ F2 = follow' /\ r = at
  OBVIOUS
<1>3. /\ IsWork(W) /\ r \in 1..(n + 1) /\ D \in Families(W) /\ F \in Families(W)
      /\ stage \in Late \ {"first"} /\ stage \notin Early
  BY <1>1, <1>2 DEF SetsInv, GrammarInv, FirstInv, FollowInv, Early, Late
<1>4. /\ n \in Nat /\ W.rules[r].left \in Range(W.symbols)
      /\ IsRight(W.rules[r].right, Range(W.symbols))
      /\ r \in 1..n
  <2>1. n \in Nat  BY <1>2, <1>3, WorkFacts
  <2>2. r \in 1..n  BY <1>1, <1>2, <1>3, <2>1
  <2> QED BY <1>2, <1>3, <2>1, <2>2, WorkFacts
<1>5. F2 = FollowOfRule(W, D, F, W.rules[r])  BY <1>1, <1>2
<1>6. /\ F2 \in Families(W)
      /\ F2 = F => FollowsRule(W, D, F, W.rules[r])
  BY ONLY <1>3, <1>4, <1>5, FollowStep
<1>7. ASSUME ~bChanged' PROVE FollowClosed(W, r, D, F2)
  <2>1. ~bChanged /\ F2 = F  BY <1>2, <1>7 DEF FollowRule
  <2>2. FollowClosed(W, r - 1, D, F)  BY <1>1, <1>2, <1>3, <2>1 DEF SetsInv, FollowInv
  <2>3. \A q \in 1..r : q \in 1..(r - 1) \/ q = r  BY <1>4
  <2> QED BY <1>6, <2>1, <2>2, <2>3 DEF FollowClosed
<1>8. OwnRules' = OwnRules  BY <1>1 DEF OwnRules
<1>9. at' - 1 = r /\ at' \in 1..(n + 1)  BY <1>1, <1>2, <1>4
<1>10. GrammarInv'  BY <1>1, <1>2, <1>3, <1>9 DEF GrammarInv, Early, Late, After
<1>11. PrefixInv'  BY <1>1, <1>8 DEF SetsInv, PrefixInv
<1>12. FirstInv'  BY <1>1 DEF SetsInv, FirstInv
<1>13. FollowInv'  BY <1>1, <1>2, <1>6, <1>7, <1>9 DEF FollowInv
<1> QED BY <1>10, <1>11, <1>12, <1>13 DEF SetsInv

LEMMA SetsInvFollowDone ==
    ASSUME SetsInv, FollowDone
    PROVE  SetsInv'
<1>1. /\ stage = "follow" /\ stage' = "start" /\ grammar' = grammar /\ at > Len(grammar.rules)
      /\ ~bChanged
      /\ First_k' = First_k /\ prefixes' = prefixes /\ first' = first /\ follow' = follow
  BY DEF FollowDone
<1>2. /\ IsWork(grammar) /\ at \in 1..(Len(grammar.rules) + 1)
      /\ stage \in Late /\ stage \notin Early /\ stage' \in Late /\ stage' \notin Early
  BY <1>1 DEF SetsInv, GrammarInv, Early, Late, After
<1>3. Len(grammar.rules) \in Nat  BY <1>2, WorkFacts
<1>4. at - 1 = Len(grammar.rules)  BY <1>1, <1>2, <1>3
<1>5. OwnRules' = OwnRules  BY <1>1, <1>2 DEF OwnRules
<1>6. GrammarInv'  BY <1>1, <1>2 DEF GrammarInv
<1>7. PrefixInv'  BY <1>1, <1>5 DEF SetsInv, PrefixInv
<1>8. FirstInv'  BY <1>1, <1>2 DEF SetsInv, FirstInv
<1>9. FollowInv'  BY <1>1, <1>2, <1>4 DEF SetsInv, FollowInv
<1> QED BY <1>6, <1>7, <1>8, <1>9 DEF SetsInv

LEMMA SetsInvNext == SetsInv /\ [Next]_vars => SetsInv'
<1> SUFFICES ASSUME SetsInv, [Next]_vars PROVE SetsInv'  OBVIOUS
<1>1. CASE SweepAgain  BY <1>1, SetsInvSweepAgain
<1>2. CASE PrefixRule  BY <1>2, SetsInvPrefixRule
<1>3. CASE PrefixesDone \/ BuildAutomat  BY <1>3, SetsInvPrefixesDone
<1>4. CASE Augment  BY <1>4, SetsInvAugment
<1>5. CASE FirstRule  BY <1>5, SetsInvFirstRule
<1>6. CASE FirstDone  BY <1>6, SetsInvFirstDone
<1>7. CASE FollowRule  BY <1>7, SetsInvFollowRule
<1>8. CASE FollowDone  BY <1>8, SetsInvFollowDone
<1>9. CASE Close  BY <1>9, SetsInvLater DEF Close, After
<1>10. CASE StartSet  BY <1>10, SetsInvLater DEF StartSet, After
<1>11. CASE TakeSymbol  BY <1>11, SetsInvLater DEF TakeSymbol, After
<1>12. CASE AddTransition  BY <1>12, SetsInvLater DEF AddTransition, After
<1>13. CASE NextLine  BY <1>13, SetsInvLater DEF NextLine, After
<1>14. CASE FillTable  BY <1>14, SetsInvLater DEF FillTable, After
<1>15. CASE CompactColumn  BY <1>15, SetsInvLater DEF CompactColumn, After
<1>16. CASE CompactRow  BY <1>16, SetsInvLater DEF CompactRow, After
<1>17. CASE CompactDone  BY <1>17, SetsInvLater DEF CompactDone, After
<1>18. CASE UNCHANGED vars
  <2>1. /\ stage' = stage /\ grammar' = grammar /\ at' = at /\ bChanged' = bChanged
        /\ First_k' = First_k /\ prefixes' = prefixes /\ first' = first /\ follow' = follow
    BY <1>18 DEF vars, sweepVars
  <2>2. OwnRules' = OwnRules  BY <2>1 DEF OwnRules
  <2>3. GrammarInv'  BY <2>1 DEF SetsInv, GrammarInv
  <2>4. PrefixInv'  BY <2>1, <2>2 DEF SetsInv, PrefixInv
  <2>5. FirstInv'  BY <2>1 DEF SetsInv, FirstInv
  <2>6. FollowInv'  BY <2>1 DEF SetsInv, FollowInv
  <2> QED BY <2>3, <2>4, <2>5, <2>6 DEF SetsInv
<1> QED BY <1>1, <1>2, <1>3, <1>4, <1>5, <1>6, <1>7, <1>8, <1>9, <1>10, <1>11, <1>12, <1>13,
           <1>14, <1>15, <1>16, <1>17, <1>18 DEF Next

LEMMA SetsInvAlways == Spec => []SetsInv
BY SetsInvInit, SetsInvNext, PTL DEF Spec

\* The start points are the words with which the root can begin, for every
\* grammar: the prefixes that Build_FIRST_Set_k finds before the grammar is
\* augmented are the FIRST set that Build_FIRST_Set computes after.
THEOREM PrefixesMatchFirstAlways == Spec => []PrefixesMatchFirst
<1>1. SetsInv => PrefixesMatchFirst
  <2> SUFFICES ASSUME SetsInv, stage = "follow"
               PROVE  prefixes = {<<t>> : t \in first[grammar.root]}
    BY DEF PrefixesMatchFirst
  <2>1. stage \in Late /\ stage \notin Early  BY DEF Late, Early
  <2>2. PICK W, n, F, G : W = grammar /\ n = Len(W.rules) - 1 /\ F = First_k /\ G = first  OBVIOUS
  <2>3. IsWork(W)  BY <2>1, <2>2 DEF SetsInv, GrammarInv
  <2>4. n + 1 = Len(W.rules)  BY <2>2, <2>3, WorkFacts
  <2>5. OwnRules = n  BY <2>1, <2>2 DEF OwnRules
  <2>6. /\ DOMAIN F = Range(W.symbols) \ {NEW_ROOT, END_OF_INPUT}
        /\ IsSingles(F) /\ PrefixLeast(W, n, F) /\ PrefixClosed(W, n, F)
        /\ prefixes = F[W.root]
    BY <2>2, <2>5 DEF SetsInv, PrefixInv
  <2>7. G \in Families(W) /\ FirstClosed(W, n + 1, G) /\ FirstLeast(W, n + 1, G)
    BY <2>1, <2>2, <2>4 DEF SetsInv, FirstInv
  <2>8. F[W.root] = {<<t>> : t \in G[W.root]}
    BY ONLY <2>2, <2>3, <2>6, <2>7, SameStart
  <2> QED BY <2>2, <2>6, <2>8
<1> QED BY <1>1, SetsInvAlways, PTL

\* FOLLOW misses nothing, for every grammar and every derivation from the root of
\* the augmented grammar, whatever the bounds on its steps and its length.
THEOREM FollowIsCompleteAlways == Spec => []FollowIsComplete
<1>1. SetsInv => FollowIsComplete
  <2> SUFFICES ASSUME SetsInv, stage = "start",
                      NEW form \in Forms(grammar, NEW_ROOT), NEW i \in 1..(Len(form) - 1),
                      form[i] \in Metas(grammar), form[i + 1] \in Terminals(grammar)
               PROVE  form[i + 1] \in follow[form[i]]
    BY DEF FollowIsComplete
  <2>1. stage \in Late \ {"first"}  BY DEF Late, After
  <2>2. PICK W, n, D, F : W = grammar /\ n = Len(W.rules) /\ D = first /\ F = follow  OBVIOUS
  <2>3. IsWork(W)  BY <2>1, <2>2 DEF SetsInv, GrammarInv
  <2>4. FirstClosed(W, n, D) /\ FollowClosed(W, n, D, F)
    BY <2>1, <2>2 DEF SetsInv, FirstInv, FollowInv
  <2>5. \A f \in Forms(W, NEW_ROOT) : IsGoodForm(W, D, F, f)
    BY ONLY <2>2, <2>3, <2>4, FormsAreGood
  <2>6. Opens(W, D, form[i + 1]) \subseteq F[form[i]]  BY <2>2, <2>5 DEF IsGoodForm
  <2>7. form[i + 1] \notin Metas(W)  BY <2>2 DEF Terminals
  <2> QED BY <2>2, <2>6, <2>7 DEF Opens
<1> QED BY <1>1, SetsInvAlways, PTL

-----------------------------------------------------------------------------
(* Item sets                                                               *)

Items(W) == {it \in (DOMAIN W.rules) \X Nat : it[2] <= Len(W.rules[it[1]].right)}

\* The items that came over a symbol.
Kernel(S) == {it \in S : it[2] > 0}

\* A rule begins in a set because its left part can be read there.
IsGrounded(W, S) ==
    \A r \in DOMAIN W.rules :
        <<r, 0>> \in S => W.rules[r].left = NEW_ROOT \/ W.rules[r].left \in Ahead(W, S)

IsState(W, S) == S \subseteq Items(W) /\ CloseItemSet(W, S) = S /\ IsGrounded(W, S)

\* The symbol before which the dot of an item stands.
LEMMA AheadDef ==
    ASSUME NEW W, IsWork(W), NEW S, S \subseteq Items(W)
    PROVE  /\ \A it \in S : it[2] < Len(W.rules[it[1]].right) => W.rules[it[1]].right[it[2] + 1] \in Ahead(W, S)
           /\ \A X \in Ahead(W, S) :
                 /\ X \in Range(W.symbols)
                 /\ \E it \in S : /\ it \in (DOMAIN W.rules) \X Nat /\ it[2] < Len(W.rules[it[1]].right)
                                  /\ X = W.rules[it[1]].right[it[2] + 1]
<1>1. \A it \in S : /\ it \in (DOMAIN W.rules) \X Nat /\ it[2] \in Nat /\ it[2] <= Len(W.rules[it[1]].right)
                    /\ Len(W.rules[it[1]].right) \in Nat
                    /\ IsRight(W.rules[it[1]].right, Range(W.symbols))
  <2> TAKE it \in S
  <2>1. it \in (DOMAIN W.rules) \X Nat /\ it[2] <= Len(W.rules[it[1]].right)  BY DEF Items
  <2>2. it[1] \in DOMAIN W.rules /\ it[2] \in Nat  BY <2>1
  <2>3. IsRight(W.rules[it[1]].right, Range(W.symbols))  BY <2>2 DEF IsWork
  <2> QED BY <2>1, <2>2, <2>3 DEF IsRight
<1>2. ASSUME NEW it \in S, it[2] < Len(W.rules[it[1]].right)
      PROVE  W.rules[it[1]].right[it[2] + 1] \in Ahead(W, S)
  <2>1. it[2] # Len(W.rules[it[1]].right)  BY <1>1, <1>2
  <2> QED BY <2>1 DEF Ahead, IsFinished, GetSymbolNo
<1>3. ASSUME NEW X \in Ahead(W, S)
      PROVE  /\ X \in Range(W.symbols)
             /\ \E it \in S : /\ it \in (DOMAIN W.rules) \X Nat /\ it[2] < Len(W.rules[it[1]].right)
                              /\ X = W.rules[it[1]].right[it[2] + 1]
  <2>1. PICK it \in S : it[2] # Len(W.rules[it[1]].right) /\ X = W.rules[it[1]].right[it[2] + 1]
    BY DEF Ahead, IsFinished, GetSymbolNo
  <2>2. PICK m, d : m = Len(W.rules[it[1]].right) /\ d = it[2]  OBVIOUS
  <2>3. m \in Nat /\ d \in Nat /\ d <= m /\ d # m  BY <1>1, <2>1, <2>2
  <2>4. d < m /\ d + 1 \in 1..m  BY ONLY <2>3
  <2>5. X \in Range(W.symbols)  BY <1>1, <2>1, <2>2, <2>4 DEF IsRight
  <2> QED BY <1>1, <2>1, <2>2, <2>4, <2>5
<1> QED BY <1>2, <1>3

LEMMA AheadMonotone ==
    ASSUME NEW W, NEW S, NEW T, S \subseteq T
    PROVE  Ahead(W, S) \subseteq Ahead(W, T)
BY DEF Ahead

\* A pass of CloseItemSet.
LEMMA CloseStep ==
    ASSUME NEW W, IsWork(W), NEW S, S \subseteq Items(W), IsGrounded(W, S),
           NEW T, T = CloseItemSet(W, S)
    PROVE  S \subseteq T /\ T \subseteq Items(W) /\ IsGrounded(W, T) /\ Kernel(T) = Kernel(S)
<1>1. S \subseteq T  BY DEF CloseItemSet
<1>2. \A it \in T : it \in S \/ \E r \in DOMAIN W.rules : it = <<r, 0>> /\ W.rules[r].left \in Ahead(W, S)
  BY DEF CloseItemSet, AddToItemSet
<1>3. T \subseteq Items(W)
  <2> SUFFICES ASSUME NEW r \in DOMAIN W.rules PROVE <<r, 0>> \in Items(W)  BY <1>2
  <2>1. IsRight(W.rules[r].right, Range(W.symbols))  BY DEF IsWork
  <2>2. 0 <= Len(W.rules[r].right)  BY <2>1 DEF IsRight
  <2> QED BY <2>2 DEF Items
<1>4. IsGrounded(W, T)
  <2> SUFFICES ASSUME NEW r \in DOMAIN W.rules, <<r, 0>> \in T, W.rules[r].left # NEW_ROOT
               PROVE  W.rules[r].left \in Ahead(W, T)
    BY DEF IsGrounded
  <2>1. Ahead(W, S) \subseteq Ahead(W, T)  BY <1>1, AheadMonotone
  <2>2. W.rules[r].left \in Ahead(W, S)  BY <1>2 DEF IsGrounded
  <2> QED BY <2>1, <2>2
<1>5. Kernel(T) = Kernel(S)  BY <1>1, <1>2 DEF Kernel
<1> QED BY <1>1, <1>3, <1>4, <1>5

\* The items moved over X.
IsMoved(W, S, X, T) ==
    \A r \in DOMAIN W.rules : \A k \in 1..Len(W.rules[r].right) :
        <<r, k>> \in T <=> <<r, k - 1>> \in S /\ W.rules[r].right[k] = X

LEMMA NextSet ==
    ASSUME NEW W, IsWork(W), NEW S, S \subseteq Items(W), NEW X, NEW T, T = NextItemSet(W, S, X)
    PROVE  /\ T \subseteq Items(W) /\ IsGrounded(W, T) /\ Kernel(T) = T
           /\ X \in Ahead(W, S) => T # {}
           /\ IsMoved(W, S, X, T)
<1>1. \A it \in S : /\ it \in (DOMAIN W.rules) \X Nat
                    /\ it[2] <= Len(W.rules[it[1]].right)
                    /\ Len(W.rules[it[1]].right) \in Nat
  <2> TAKE it \in S
  <2>1. it \in (DOMAIN W.rules) \X Nat /\ it[2] <= Len(W.rules[it[1]].right)  BY DEF Items
  <2>2. it[1] \in DOMAIN W.rules  BY <2>1
  <2>3. IsRight(W.rules[it[1]].right, Range(W.symbols))  BY <2>2 DEF IsWork
  <2> QED BY <2>1, <2>3 DEF IsRight
<1>2. \A t : t \in T <=> \E it \in S : /\ it[2] # Len(W.rules[it[1]].right)
                                       /\ W.rules[it[1]].right[it[2] + 1] = X
                                       /\ t = <<it[1], it[2] + 1>>
  BY DEF NextItemSet, IsFinished, GetSymbolNo
<1>3. \A t \in T : t \in (DOMAIN W.rules) \X Nat /\ t[2] > 0 /\ t[2] <= Len(W.rules[t[1]].right)
  <2> TAKE t \in T
  <2>1. PICK it \in S : it[2] # Len(W.rules[it[1]].right) /\ t = <<it[1], it[2] + 1>>  BY <1>2
  <2>2. PICK m, d, q : m = Len(W.rules[it[1]].right) /\ d = it[2] /\ q = it[1]  OBVIOUS
  <2>3. m \in Nat /\ d \in Nat /\ q \in DOMAIN W.rules /\ d <= m /\ d # m  BY <1>1, <2>1, <2>2
  <2>4. d + 1 > 0 /\ d + 1 <= m /\ d + 1 \in Nat  BY ONLY <2>3
  <2> QED BY <2>1, <2>2, <2>3, <2>4
<1>4. T \subseteq Items(W)  BY <1>3 DEF Items
<1>5. Kernel(T) = T  BY <1>3 DEF Kernel
<1>6. IsGrounded(W, T)
  <2>1. ASSUME NEW r, <<r, 0>> \in T PROVE FALSE
    <3>1. <<r, 0>>[2] > 0  BY <1>3, <2>1
    <3> QED BY <3>1
  <2> QED BY <2>1 DEF IsGrounded
<1>7. X \in Ahead(W, S) => T # {}
  BY <1>2 DEF Ahead, IsFinished, GetSymbolNo
<1>8. ASSUME NEW r \in DOMAIN W.rules, NEW k \in 1..Len(W.rules[r].right)
      PROVE  <<r, k>> \in T <=> <<r, k - 1>> \in S /\ W.rules[r].right[k] = X
  <2>1. PICK m : m = Len(W.rules[r].right)  OBVIOUS
  <2>2. m \in Nat /\ k \in 1..m  BY <1>8, <2>1 DEF IsWork, IsRight
  <2>3. k - 1 \in Nat /\ (k - 1) + 1 = k /\ k - 1 # m  BY ONLY <2>2
  <2>4. ASSUME <<r, k>> \in T PROVE <<r, k - 1>> \in S /\ W.rules[r].right[k] = X
    <3>1. PICK it \in S : W.rules[it[1]].right[it[2] + 1] = X /\ <<r, k>> = <<it[1], it[2] + 1>>
      BY <1>2, <2>4
    <3>2. it = <<it[1], it[2]>> /\ it[2] \in Nat  BY <1>1
    <3>3. it[1] = r /\ it[2] = k - 1
      <4>1. PICK d : d = it[2]  OBVIOUS
      <4>2. d \in Nat /\ k = d + 1 /\ it[1] = r  BY <3>1, <3>2, <4>1
      <4> QED BY <2>2, <4>1, <4>2
    <3> QED BY <2>3, <3>1, <3>2, <3>3
  <2>5. ASSUME <<r, k - 1>> \in S, W.rules[r].right[k] = X PROVE <<r, k>> \in T
    <3>1. PICK it : it = <<r, k - 1>>  OBVIOUS
    <3>2. it \in S /\ it[1] = r /\ it[2] = k - 1  BY <2>5, <3>1
    <3>3. it[2] # Len(W.rules[it[1]].right)  BY <2>1, <2>3, <3>2
    <3>4. W.rules[it[1]].right[it[2] + 1] = X  BY <2>3, <2>5, <3>2
    <3>5. <<r, k>> = <<it[1], it[2] + 1>>  BY <2>3, <3>2
    <3> QED BY <1>2, <3>2, <3>3, <3>4, <3>5
  <2> QED BY <2>4, <2>5
<1> QED BY <1>4, <1>5, <1>6, <1>7, <1>8 DEF IsMoved

-----------------------------------------------------------------------------
(* The collection: item sets and the transitions between them.             *)

IsSets(W, S) ==
    /\ Len(S) \in Nat \ {0} /\ DOMAIN S = 1..Len(S) /\ S \in Seq(SUBSET Items(W))
    /\ \A i \in 1..Len(S) : IsState(W, S[i])
    /\ Kernel(S[1]) = {}
    /\ <<Len(W.rules), 0>> \in S[1]

\* A transition leads to the set of the items moved over its symbol.
IsTransition(W, S, p, j) ==
    /\ p \in (1..Len(S)) \X Range(W.symbols)
    /\ p[2] \in Ahead(W, S[p[1]]) \ {END_OF_INPUT}
    /\ j \in 2..Len(S)
    /\ Kernel(S[j]) = NextItemSet(W, S[p[1]], p[2])

IsCollection(W, S, g) ==
    /\ IsSets(W, S)
    /\ \A p \in DOMAIN g : IsTransition(W, S, p, g[p])
    /\ \A j \in 2..Len(S) : \E p \in DOMAIN g : g[p] = j

\* A new or an old set, with the transition that leads to it.
LEMMA SetAdded ==
    ASSUME NEW W, IsWork(W), NEW S, IsSets(W, S), NEW i \in 1..Len(S),
           NEW X \in Ahead(W, S[i]) \ {END_OF_INPUT},
           NEW N, IsState(W, N), Kernel(N) = NextItemSet(W, S[i], X),
           NEW j, j = StateOf(S, N), NEW T, T = AddSet(S, N)
    PROVE  /\ IsSets(W, T)
           /\ Len(S) <= Len(T) /\ \A k \in 1..Len(S) : T[k] = S[k]
           /\ \A k \in 1..Len(T) : k \in 1..Len(S) \/ k = j
           /\ IsTransition(W, T, <<i, X>>, j)
<1>1. PICK n : n = Len(S)  OBVIOUS
<1>2. /\ n \in Nat \ {0} /\ DOMAIN S = 1..n /\ S \in Seq(SUBSET Items(W)) /\ i \in 1..n
      /\ \A k \in 1..n : IsState(W, S[k])
      /\ Kernel(S[1]) = {} /\ <<Len(W.rules), 0>> \in S[1]
  BY <1>1 DEF IsSets
<1>3. S[i] \subseteq Items(W) /\ N \subseteq Items(W)  BY <1>2 DEF IsState
<1>4. Kernel(N) # {} /\ X \in Range(W.symbols)
  <2>1. X \in Ahead(W, S[i])  OBVIOUS
  <2>2. NextItemSet(W, S[i], X) # {}  BY <1>3, <2>1, NextSet
  <2> QED BY <1>3, <2>1, <2>2, AheadDef
<1>5. CASE N \in Range(S)
  <2>1. j = Position(S, N)  BY <1>5 DEF StateOf
  <2>2. j \in 1..n /\ S[j] = N  BY <1>2, <1>5, <2>1 DEF Position, Range
  <2>3. ~(j > n)  BY <1>2, <2>2
  <2>4. T = S  BY <1>1, <2>3 DEF AddSet
  <2>5. j # 1  BY <1>2, <1>4, <2>2
  <2>6. j \in 2..n  BY <1>2, <2>2, <2>5
  <2>7. IsTransition(W, S, <<i, X>>, j)  BY <1>1, <1>2, <1>4, <2>2, <2>6 DEF IsTransition
  <2>8. n <= n  BY <1>2
  <2> QED BY <1>1, <2>4, <2>7, <2>8
<1>6. CASE N \notin Range(S)
  <2>1. j = n + 1  BY <1>1, <1>6 DEF StateOf
  <2>2. j > n  BY <1>2, <2>1
  <2>3. T = Append(S, N)  BY <1>1, <2>2 DEF AddSet
  <2>4. /\ T \in Seq(SUBSET Items(W)) /\ Len(T) = n + 1 /\ DOMAIN T = 1..(n + 1)
        /\ T[n + 1] = N /\ \A k \in 1..n : T[k] = S[k]
    <3>1. PICK U : U = SUBSET Items(W)  OBVIOUS
    <3>2. S \in Seq(U) /\ N \in U  BY <1>2, <1>3, <3>1
    <3>3. /\ T \in Seq(U) /\ Len(T) = n + 1 /\ DOMAIN T = 1..(n + 1)
          /\ T[n + 1] = N /\ \A k \in 1..n : T[k] = S[k]
      BY ONLY <1>1, <2>3, <3>2
    <3> QED BY <3>1, <3>3
  <2>5. \A k \in 1..(n + 1) : k \in 1..n \/ k = n + 1  BY <1>2
  <2>6. 1 \in 1..n /\ n + 1 \in Nat \ {0} /\ n <= n + 1 /\ n + 1 \in 2..(n + 1) /\ i \in 1..(n + 1)
    BY <1>2
  <2>7. IsSets(W, T)
    <3>1. \A k \in 1..(n + 1) : IsState(W, T[k])  BY <1>2, <2>4, <2>5
    <3> QED BY <1>2, <2>4, <2>6, <3>1 DEF IsSets
  <2>8. IsTransition(W, T, <<i, X>>, j)
    BY <1>2, <1>4, <2>1, <2>4, <2>6 DEF IsTransition
  <2> QED BY <1>1, <2>1, <2>4, <2>5, <2>6, <2>7, <2>8
<1> QED BY <1>5, <1>6

IsExtended(W, S, g, i, X, T, h) ==
    /\ IsCollection(W, T, h)
    /\ Len(S) <= Len(T) /\ \A k \in 1..Len(S) : T[k] = S[k]
    /\ DOMAIN h = DOMAIN g \cup {<<i, X>>}

LEMMA TransitionAdded ==
    ASSUME NEW W, IsWork(W), NEW S, NEW g, IsCollection(W, S, g), NEW i, i \in 1..Len(S),
           NEW X, X \in Ahead(W, S[i]) \ {END_OF_INPUT}, <<i, X>> \notin DOMAIN g,
           NEW N, IsState(W, N), Kernel(N) = NextItemSet(W, S[i], X),
           NEW T, T = AddSet(S, N), NEW h, h = AddGoto(g, i, X, StateOf(S, N))
    PROVE  IsExtended(W, S, g, i, X, T, h)
<1>1. PICK j : j = StateOf(S, N)  OBVIOUS
<1>2. IsSets(W, S)  BY DEF IsCollection
<1>3. /\ IsSets(W, T)
      /\ Len(S) <= Len(T) /\ \A k \in 1..Len(S) : T[k] = S[k]
      /\ \A k \in 1..Len(T) : k \in 1..Len(S) \/ k = j
      /\ IsTransition(W, T, <<i, X>>, j)
  BY <1>1, <1>2, SetAdded
<1>4. /\ DOMAIN h = DOMAIN g \cup {<<i, X>>} /\ h[<<i, X>>] = j
      /\ \A p \in DOMAIN g : h[p] = g[p]
  <2>1. PICK c : c = <<i, X>>  OBVIOUS
  <2>2. h = [p \in DOMAIN g \cup {c} |-> IF p = c THEN j ELSE g[p]] /\ c \notin DOMAIN g
    BY <1>1, <2>1 DEF AddGoto
  <2> QED BY <2>1, <2>2
<1>5. PICK n, m : n = Len(S) /\ m = Len(T)  OBVIOUS
<1>6. n \in Nat \ {0} /\ m \in Nat \ {0} /\ n <= m  BY <1>2, <1>3, <1>5 DEF IsSets
<1>7. 1..n \subseteq 1..m /\ 2..n \subseteq 2..m  BY ONLY <1>6
<1>8. ASSUME NEW p \in DOMAIN g PROVE IsTransition(W, T, p, g[p])
  <2>1. IsTransition(W, S, p, g[p])  BY DEF IsCollection
  <2>2. /\ p \in (1..n) \X Range(W.symbols) /\ p[2] \in Ahead(W, S[p[1]]) \ {END_OF_INPUT}
        /\ g[p] \in 2..n /\ Kernel(S[g[p]]) = NextItemSet(W, S[p[1]], p[2])
    BY <1>5, <2>1 DEF IsTransition
  <2>3. p[1] \in 1..n /\ g[p] \in 1..n  BY <1>6, <2>2
  <2>4. T[p[1]] = S[p[1]] /\ T[g[p]] = S[g[p]]  BY <1>3, <1>5, <2>3
  <2> QED BY <1>5, <1>7, <2>2, <2>4 DEF IsTransition
<1>9. \A p \in DOMAIN h : IsTransition(W, T, p, h[p])  BY <1>3, <1>4, <1>8
<1>10. ASSUME NEW k \in 2..m PROVE \E p \in DOMAIN h : h[p] = k
  <2>1. k \in 1..m  BY <1>6
  <2>2. CASE k = j  BY <1>4, <2>2
  <2>3. CASE k \in 1..n
    <3>1. k \in 2..n  BY <1>6, <2>3
    <3>2. PICK p \in DOMAIN g : g[p] = k  BY <1>5, <3>1 DEF IsCollection
    <3> QED BY <1>4, <3>2
  <2> QED BY <1>3, <1>5, <2>1, <2>2, <2>3
<1>11. IsCollection(W, T, h)  BY <1>3, <1>5, <1>9, <1>10 DEF IsCollection
<1> QED BY <1>3, <1>4, <1>11 DEF IsExtended

-----------------------------------------------------------------------------
(* The invariant of Compute.                                               *)

IsOpen(W, S) == S \subseteq Items(W) /\ IsGrounded(W, S)

\* The first n lines have all their transitions.
LinesDone(W, S, g, n) ==
    \A i \in 1..n : \A X \in Ahead(W, S[i]) \ {END_OF_INPUT} : <<i, X>> \in DOMAIN g

\* Of the line in work those are missing that are still ahead, and the one that
\* is being made; none is made twice.
LineInv ==
    /\ line \in 1..Len(sets)
    /\ LinesDone(grammar, sets, goto, line - 1)
    /\ ahead \subseteq Ahead(grammar, sets[line]) \ {END_OF_INPUT}
    /\ \A X \in Ahead(grammar, sets[line]) \ {END_OF_INPUT} :
          <<line, X>> \in DOMAIN goto \/ X \in ahead \/ (stage = "close" /\ X = symbol)
    /\ \A p \in DOMAIN goto : p[1] <= line
    /\ \A X \in ahead : <<line, X>> \notin DOMAIN goto

CloseInv ==
    /\ IsOpen(grammar, next)
    /\ symbol \in Ahead(grammar, sets[line]) \ {END_OF_INPUT}
    /\ symbol \notin ahead /\ <<line, symbol>> \notin DOMAIN goto
    /\ Kernel(next) = NextItemSet(grammar, sets[line], symbol)

StartInv ==
    /\ IsOpen(grammar, next)
    /\ Kernel(next) = {}
    /\ <<Len(grammar.rules), 0>> \in next

ItemInv ==
    /\ stage \in Early \cup {"first", "follow", "start"} => DOMAIN goto = {} /\ line = 1
    /\ stage = "start" => StartInv
    /\ stage \in {"line", "close", "compact", "done"} => IsCollection(grammar, sets, goto)
    /\ stage \in {"line", "close"} => LineInv
    /\ stage = "close" => CloseInv
    /\ stage \in {"compact", "done"} => LinesDone(grammar, sets, goto, Len(sets))

LEMMA ItemInvInit == Init => ItemInv
BY DEF Init, ItemInv, Early

LEMMA ItemInvEarly ==
    ASSUME ItemInv, stage \in Early \cup {"first", "follow"}, stage' \in Early \cup {"first", "follow"},
           UNCHANGED itemVars
    PROVE  ItemInv'
BY DEF ItemInv, Early, itemVars

LEMMA ItemInvFollowDone ==
    ASSUME SetsInv, ItemInv, FollowDone
    PROVE  ItemInv'
<1>1. /\ stage = "follow" /\ stage' = "start" /\ grammar' = grammar /\ goto' = goto /\ line' = line
      /\ next' = AddToItemSet(grammar, NEW_ROOT)
  BY DEF FollowDone
<1>2. PICK W, N, n : W = grammar /\ N = next' /\ n = Len(grammar.rules)  OBVIOUS
<1>3. IsWork(W)  BY <1>1, <1>2 DEF SetsInv, GrammarInv, Late
<1>4. N = {<<r, 0>> : r \in {q \in DOMAIN W.rules : W.rules[q].left = NEW_ROOT}}
  BY <1>1, <1>2 DEF AddToItemSet
<1>5. N \subseteq Items(W)
  <2> SUFFICES ASSUME NEW r \in DOMAIN W.rules PROVE <<r, 0>> \in Items(W)  BY <1>4
  <2>1. IsRight(W.rules[r].right, Range(W.symbols))  BY <1>3 DEF IsWork
  <2>2. 0 <= Len(W.rules[r].right)  BY <2>1 DEF IsRight
  <2> QED BY <2>2 DEF Items
<1>6. IsGrounded(W, N)  BY <1>4 DEF IsGrounded
<1>7. Kernel(N) = {}  BY <1>4 DEF Kernel
<1>8. <<n, 0>> \in N
  <2>1. n \in DOMAIN W.rules /\ W.rules[n].left = NEW_ROOT  BY <1>2, <1>3 DEF IsWork
  <2> QED BY <1>4, <2>1
<1>9. StartInv'  BY <1>1, <1>2, <1>5, <1>6, <1>7, <1>8 DEF StartInv, IsOpen
<1> QED BY <1>1, <1>9 DEF ItemInv, Early

LEMMA ItemInvClose ==
    ASSUME SetsInv, ItemInv, Close
    PROVE  ItemInv'
<1>1. /\ stage \in {"start", "close"} /\ stage' = stage /\ next' = CloseItemSet(grammar, next)
      /\ grammar' = grammar /\ sets' = sets /\ goto' = goto /\ line' = line /\ ahead' = ahead
      /\ symbol' = symbol
  BY DEF Close
<1>2. PICK W, S, T : W = grammar /\ S = next /\ T = next'  OBVIOUS
<1>3. IsWork(W)  BY <1>1, <1>2 DEF SetsInv, GrammarInv, Late, After
<1>4. IsOpen(W, S)  BY <1>1, <1>2 DEF ItemInv, StartInv, CloseInv
<1>5. S \subseteq T /\ T \subseteq Items(W) /\ IsGrounded(W, T) /\ Kernel(T) = Kernel(S)
  <2>1. T = CloseItemSet(W, S) /\ S \subseteq Items(W) /\ IsGrounded(W, S)  BY <1>1, <1>2, <1>4 DEF IsOpen
  <2> QED BY ONLY <1>3, <2>1, CloseStep
<1>6. LineInv => LineInv'  BY <1>1 DEF LineInv
<1>7. CloseInv => CloseInv'  BY <1>1, <1>2, <1>5 DEF CloseInv, IsOpen
<1>8. StartInv => StartInv'  BY <1>1, <1>2, <1>5 DEF StartInv, IsOpen
<1> QED BY <1>1, <1>6, <1>7, <1>8 DEF ItemInv, Early

LEMMA ItemInvStartSet ==
    ASSUME SetsInv, ItemInv, StartSet
    PROVE  ItemInv'
<1>1. /\ stage = "start" /\ stage' = "line" /\ CloseItemSet(grammar, next) = next
      /\ sets' = <<next>> /\ ahead' = Ahead(grammar, next) \ {END_OF_INPUT}
      /\ grammar' = grammar /\ goto' = goto /\ line' = line
  BY DEF StartSet
<1>2. PICK W, N, S : W = grammar /\ N = next /\ S = sets'  OBVIOUS
<1>3. StartInv /\ DOMAIN goto = {} /\ line = 1  BY <1>1 DEF ItemInv
<1>4. IsState(W, N)  BY <1>1, <1>2, <1>3 DEF StartInv, IsOpen, IsState
<1>5. S = <<N>> /\ Len(S) = 1 /\ DOMAIN S = 1..1 /\ S[1] = N /\ S \in Seq(SUBSET Items(W)) /\ 1..1 = {1} /\ 2..1 = {}
  BY <1>1, <1>2, <1>4 DEF IsState
<1>6. IsSets(W, S)  BY <1>2, <1>3, <1>4, <1>5 DEF IsSets, StartInv
<1>7. IsCollection(W, S, goto)  BY <1>3, <1>5, <1>6 DEF IsCollection
<1>8. LineInv'
  <2>1. line' \in 1..Len(sets') /\ sets'[line'] = N  BY <1>1, <1>2, <1>3, <1>5
  <2>2. LinesDone(W, S, goto, line' - 1)  BY <1>1, <1>3 DEF LinesDone
  <2> QED BY <1>1, <1>2, <1>3, <2>1, <2>2 DEF LineInv
<1> QED BY <1>1, <1>2, <1>7, <1>8 DEF ItemInv, Early

LEMMA ItemInvTakeSymbol ==
    ASSUME SetsInv, ItemInv, TakeSymbol
    PROVE  ItemInv'
<1>1. /\ stage = "line" /\ stage' = "close"
      /\ grammar' = grammar /\ sets' = sets /\ goto' = goto /\ line' = line
  BY DEF TakeSymbol
<1>2. PICK X \in ahead : symbol' = X /\ ahead' = ahead \ {X} /\ next' = NextItemSet(grammar, sets[line], X)
  BY DEF TakeSymbol
<1>3. IsCollection(grammar, sets, goto) /\ LineInv  BY <1>1 DEF ItemInv
<1>4. PICK W, S, N : W = grammar /\ S = sets[line] /\ N = next'  OBVIOUS
<1>5. IsWork(W)  BY <1>1, <1>4 DEF SetsInv, GrammarInv, Late, After
<1>6. S \subseteq Items(W)  BY <1>3, <1>4 DEF IsCollection, IsSets, LineInv, IsState
<1>7. N \subseteq Items(W) /\ IsGrounded(W, N) /\ Kernel(N) = N
  <2>1. N = NextItemSet(W, S, X)  BY <1>2, <1>4
  <2>2. PICK Y : Y = X  OBVIOUS
  <2>3. N = NextItemSet(W, S, Y)  BY <2>1, <2>2
  <2>4. /\ N \subseteq Items(W) /\ IsGrounded(W, N) /\ Kernel(N) = N
        /\ Y \in Ahead(W, S) => N # {}
        /\ IsMoved(W, S, Y, N)
    BY ONLY <1>5, <1>6, <2>3, NextSet
  <2> QED BY <2>4
<1>8. LineInv'  BY <1>1, <1>2, <1>3 DEF LineInv
<1>9. CloseInv'  BY <1>1, <1>2, <1>3, <1>4, <1>7 DEF CloseInv, LineInv, IsOpen
<1> QED BY <1>1, <1>3, <1>8, <1>9 DEF ItemInv, Early

LEMMA ItemInvAddTransition ==
    ASSUME SetsInv, ItemInv, AddTransition
    PROVE  ItemInv'
<1>1. /\ stage = "close" /\ stage' = "line" /\ CloseItemSet(grammar, next) = next
      /\ sets' = AddSet(sets, next) /\ goto' = AddGoto(goto, line, symbol, StateOf(sets, next))
      /\ grammar' = grammar /\ line' = line /\ ahead' = ahead
  BY DEF AddTransition
<1>2. IsCollection(grammar, sets, goto) /\ LineInv /\ CloseInv  BY <1>1 DEF ItemInv
<1>3. PICK W, S, T, g, h, i, X, N : /\ W = grammar /\ S = sets /\ T = sets' /\ g = goto /\ h = goto'
                                    /\ i = line /\ X = symbol /\ N = next
  OBVIOUS
<1>4. IsWork(W)  BY <1>1, <1>3 DEF SetsInv, GrammarInv, Late, After
<1>5. /\ IsCollection(W, S, g) /\ i \in 1..Len(S) /\ X \in Ahead(W, S[i]) \ {END_OF_INPUT}
      /\ <<i, X>> \notin DOMAIN g /\ IsState(W, N) /\ Kernel(N) = NextItemSet(W, S[i], X)
      /\ T = AddSet(S, N) /\ h = AddGoto(g, i, X, StateOf(S, N))
  BY <1>1, <1>2, <1>3 DEF LineInv, CloseInv, IsState, IsOpen
<1>6. /\ IsCollection(W, T, h)
      /\ Len(S) <= Len(T) /\ \A k \in 1..Len(S) : T[k] = S[k]
      /\ DOMAIN h = DOMAIN g \cup {<<i, X>>}
  <2>1. IsExtended(W, S, g, i, X, T, h)  BY ONLY <1>4, <1>5, TransitionAdded
  <2> QED BY <2>1 DEF IsExtended
<1>7. PICK n, m : n = Len(S) /\ m = Len(T)  OBVIOUS
<1>8. n \in Nat /\ m \in Nat /\ n <= m /\ i \in 1..n
  BY <1>5, <1>6, <1>7 DEF IsCollection, IsSets
<1>9. i \in 1..m /\ \A k \in 1..(i - 1) : k \in 1..n  BY ONLY <1>8
<1>10. T[i] = S[i]  BY <1>6, <1>7, <1>8
<1>11. LinesDone(W, T, h, i - 1)
  <2>1. LinesDone(W, S, g, i - 1)  BY <1>2, <1>3 DEF LineInv
  <2>2. \A k \in 1..(i - 1) : T[k] = S[k]  BY <1>6, <1>7, <1>9
  <2> QED BY <1>6, <2>1, <2>2 DEF LinesDone
<1>12. /\ ahead \subseteq Ahead(W, T[i]) \ {END_OF_INPUT}
       /\ \A Y \in Ahead(W, T[i]) \ {END_OF_INPUT} : <<i, Y>> \in DOMAIN h \/ Y \in ahead
  BY <1>1, <1>2, <1>3, <1>6, <1>10 DEF LineInv
<1>13. \A p \in DOMAIN h : p[1] <= i
  <2>1. \A p \in DOMAIN g : p[1] <= i  BY <1>2, <1>3 DEF LineInv
  <2>2. i <= i  BY <1>8
  <2> QED BY <1>6, <2>1, <2>2
<1>14. \A Y \in ahead : <<i, Y>> \notin DOMAIN h
  <2> TAKE Y \in ahead
  <2>1. <<i, Y>> \notin DOMAIN g /\ Y # X  BY <1>2, <1>3 DEF LineInv, CloseInv
  <2> QED BY <1>6, <2>1
<1>15. LineInv'  BY <1>1, <1>3, <1>7, <1>9, <1>11, <1>12, <1>13, <1>14 DEF LineInv
<1> QED BY <1>1, <1>3, <1>6, <1>15 DEF ItemInv, Early

LEMMA ItemInvNextLine ==
    ASSUME SetsInv, ItemInv, NextLine
    PROVE  ItemInv'
<1>1. /\ stage = "line" /\ stage' = stage /\ ahead = {} /\ line < Len(sets) /\ line' = line + 1
      /\ ahead' = Ahead(grammar, sets[line + 1]) \ {END_OF_INPUT}
      /\ grammar' = grammar /\ sets' = sets /\ goto' = goto
  BY DEF NextLine
<1>2. IsCollection(grammar, sets, goto) /\ LineInv  BY <1>1 DEF ItemInv
<1>3. PICK W, S, g, i, n : W = grammar /\ S = sets /\ g = goto /\ i = line /\ n = Len(sets)  OBVIOUS
<1>4. n \in Nat /\ i \in 1..n /\ i < n  BY <1>1, <1>2, <1>3 DEF IsCollection, IsSets, LineInv
<1>5. /\ i + 1 \in 1..n /\ (i + 1) - 1 = i /\ \A k \in 1..i : k \in 1..(i - 1) \/ k = i
      /\ i + 1 \in Int /\ i \in Int
  BY ONLY <1>4
<1>6. LinesDone(W, S, g, i)
  <2>1. LinesDone(W, S, g, i - 1)  BY <1>2, <1>3 DEF LineInv
  <2>2. \A X \in Ahead(W, S[i]) \ {END_OF_INPUT} : <<i, X>> \in DOMAIN g
    BY <1>1, <1>2, <1>3 DEF LineInv
  <2> QED BY <1>5, <2>1, <2>2 DEF LinesDone
<1>7. \A p \in DOMAIN g : p[1] \in Nat /\ p[1] <= i
  <2> TAKE p \in DOMAIN g
  <2>1. p \in (1..n) \X Range(W.symbols)  BY <1>2, <1>3 DEF IsCollection, IsTransition
  <2>2. p[1] <= i  BY <1>2, <1>3 DEF LineInv
  <2> QED BY <2>1, <2>2
<1>8. \A p \in DOMAIN g : p[1] <= i + 1 /\ p[1] # i + 1  BY <1>4, <1>7
<1>9. \A X : <<i + 1, X>> \notin DOMAIN g
  <2> SUFFICES ASSUME NEW X, <<i + 1, X>> \in DOMAIN g PROVE FALSE  OBVIOUS
  <2>1. <<i + 1, X>>[1] = i + 1  OBVIOUS
  <2> QED BY <1>8, <2>1
<1>10. LineInv'  BY <1>1, <1>3, <1>5, <1>6, <1>8, <1>9 DEF LineInv
<1> QED BY <1>1, <1>2, <1>10 DEF ItemInv, Early

LEMMA ItemInvFillTable ==
    ASSUME SetsInv, ItemInv, FillTable
    PROVE  ItemInv'
<1>1. /\ stage = "line" /\ stage' = "compact" /\ ahead = {} /\ line = Len(sets)
      /\ grammar' = grammar /\ sets' = sets /\ goto' = goto
  BY DEF FillTable
<1>2. IsCollection(grammar, sets, goto) /\ LineInv  BY <1>1 DEF ItemInv
<1>3. PICK W, S, g, n : W = grammar /\ S = sets /\ g = goto /\ n = Len(sets)  OBVIOUS
<1>4. n \in Nat /\ \A k \in 1..n : k \in 1..(n - 1) \/ k = n
  <2>1. n \in Nat  BY <1>2, <1>3 DEF IsCollection, IsSets
  <2> QED BY <2>1
<1>5. LinesDone(W, S, g, n)
  <2>1. LinesDone(W, S, g, n - 1)  BY <1>1, <1>2, <1>3 DEF LineInv
  <2>2. \A X \in Ahead(W, S[n]) \ {END_OF_INPUT} : <<n, X>> \in DOMAIN g
    BY <1>1, <1>2, <1>3 DEF LineInv
  <2> QED BY <1>4, <2>1, <2>2 DEF LinesDone
<1> QED BY <1>1, <1>2, <1>3, <1>5 DEF ItemInv, Early

LEMMA ItemInvCompact ==
    ASSUME ItemInv, stage = "compact", stage' \in {"compact", "done"},
           grammar' = grammar, sets' = sets, goto' = goto
    PROVE  ItemInv'
BY DEF ItemInv, Early

LEMMA ItemInvNext == SetsInv /\ ItemInv /\ [Next]_vars => ItemInv'
<1> SUFFICES ASSUME SetsInv, ItemInv, [Next]_vars PROVE ItemInv'  OBVIOUS
<1>1. CASE SweepAgain  BY <1>1, ItemInvEarly DEF SweepAgain, Early
<1>2. CASE PrefixRule  BY <1>2, ItemInvEarly DEF PrefixRule, Early
<1>3. CASE PrefixesDone  BY <1>3, ItemInvEarly DEF PrefixesDone, Early
<1>4. CASE BuildAutomat  BY <1>4, ItemInvEarly DEF BuildAutomat, Early
<1>5. CASE Augment  BY <1>5, ItemInvEarly DEF Augment, Early
<1>6. CASE FirstRule  BY <1>6, ItemInvEarly DEF FirstRule, Early
<1>7. CASE FirstDone  BY <1>7, ItemInvEarly DEF FirstDone, Early
<1>8. CASE FollowRule  BY <1>8, ItemInvEarly DEF FollowRule, Early
<1>9. CASE FollowDone  BY <1>9, ItemInvFollowDone
<1>10. CASE Close  BY <1>10, ItemInvClose
<1>11. CASE StartSet  BY <1>11, ItemInvStartSet
<1>12. CASE TakeSymbol  BY <1>12, ItemInvTakeSymbol
<1>13. CASE AddTransition  BY <1>13, ItemInvAddTransition
<1>14. CASE NextLine  BY <1>14, ItemInvNextLine
<1>15. CASE FillTable  BY <1>15, ItemInvFillTable
<1>16. CASE CompactColumn  BY <1>16, ItemInvCompact DEF CompactColumn, itemVars
<1>17. CASE CompactRow  BY <1>17, ItemInvCompact DEF CompactRow
<1>18. CASE CompactDone  BY <1>18, ItemInvCompact DEF CompactDone, itemVars
<1>19. CASE UNCHANGED vars
  <2>1. /\ stage' = stage /\ grammar' = grammar /\ sets' = sets /\ goto' = goto /\ line' = line
        /\ ahead' = ahead /\ symbol' = symbol /\ next' = next
    BY <1>19 DEF vars, itemVars
  <2>2. LineInv => LineInv'  BY <2>1 DEF LineInv
  <2>3. CloseInv => CloseInv'  BY <2>1 DEF CloseInv
  <2>4. StartInv => StartInv'  BY <2>1 DEF StartInv
  <2> QED BY <2>1, <2>2, <2>3, <2>4 DEF ItemInv
<1> QED BY <1>1, <1>2, <1>3, <1>4, <1>5, <1>6, <1>7, <1>8, <1>9, <1>10, <1>11, <1>12, <1>13,
           <1>14, <1>15, <1>16, <1>17, <1>18, <1>19 DEF Next

LEMMA ItemInvAlways == Spec => [](SetsInv /\ ItemInv)
BY SetsInvInit, SetsInvNext, ItemInvInit, ItemInvNext, PTL DEF Spec

-----------------------------------------------------------------------------
(* TSparseMatrix                                                           *)

\* The matrix m holds values of the rows up to i (from 1 on), those of row i in
\* columns before c.
IsMatrix(m, i, c) ==
    LET n == Len(m.Values)
        rows == Len(m.RowIndex)
    IN  /\ m.Values \in Seq(Nat) /\ m.ColumnIndex \in Seq(Nat) /\ m.RowIndex \in Seq(Nat)
        /\ Len(m.ColumnIndex) = n
        /\ rows \in 1..(i + 1)
        /\ \A k \in 1..rows : m.RowIndex[k] <= n
        /\ m.RowIndex[rows] = n
        /\ rows = i + 1 => \A w \in (m.RowIndex[i] + 1)..n : m.ColumnIndex[w] < c

\* The value of row k and column d is number v.
IsAt(m, k, d, v) ==
    /\ k \in Nat \ {0} /\ k + 1 <= Len(m.RowIndex)
    /\ v \in (m.RowIndex[k] + 1)..m.RowIndex[k + 1]
    /\ m.ColumnIndex[v] = d
    /\ \A w \in (m.RowIndex[k] + 1)..(v - 1) : m.ColumnIndex[w] < d

\* What Add changes.
IsAdded(m, m2, i, c, code, n, rows) ==
    /\ m2.Values \in Seq(Nat) /\ m2.ColumnIndex \in Seq(Nat) /\ m2.RowIndex \in Seq(Nat)
    /\ n \in Nat /\ rows \in 1..(i + 1)
    /\ Len(m2.Values) = n + 1 /\ m2.Values[n + 1] = code /\ \A w \in 1..n : m2.Values[w] = m.Values[w]
    /\ Len(m2.ColumnIndex) = n + 1 /\ m2.ColumnIndex[n + 1] = c
    /\ \A w \in 1..n : m2.ColumnIndex[w] = m.ColumnIndex[w] /\ m.ColumnIndex[w] \in Nat
    /\ Len(m2.RowIndex) = i + 1 /\ m2.RowIndex[i + 1] = n + 1
    /\ \A k \in 1..i : m2.RowIndex[k] = IF k <= rows THEN m.RowIndex[k] ELSE n
    /\ \A k \in 1..rows : m.RowIndex[k] \in Nat /\ m.RowIndex[k] <= n
    /\ m.RowIndex[rows] = n

LEMMA MatrixAddedParts ==
    ASSUME NEW m, NEW i \in Nat \ {0}, NEW c \in Nat, NEW code \in Nat, IsMatrix(m, i, c),
           NEW m2, m2 = MatrixAdd(m, i - 1, c, code), NEW n, n = Len(m.Values), NEW rows, rows = Len(m.RowIndex)
    PROVE  IsAdded(m, m2, i, c, code, n, rows)
<1>1. PICK V, C, R : V = m.Values /\ C = m.ColumnIndex /\ R = m.RowIndex  OBVIOUS
<1>2. /\ V \in Seq(Nat) /\ C \in Seq(Nat) /\ R \in Seq(Nat) /\ Len(C) = n /\ Len(V) = n /\ Len(R) = rows
      /\ rows \in 1..(i + 1) /\ R[rows] = n /\ \A k \in 1..rows : R[k] <= n
  BY <1>1 DEF IsMatrix
<1>3. n \in Nat /\ \A k \in 1..rows : R[k] \in Nat /\ \A w \in 1..n : C[w] \in Nat  BY ONLY <1>2
<1>4. PICK missing : missing = ((i - 1) + 2) - rows  OBVIOUS
<1>5. missing \in Nat /\ rows + missing = i + 1 /\ rows \in Nat  BY ONLY <1>2, <1>4
<1>6. PICK fill : fill = [k \in 1..missing |-> Last(R)]  OBVIOUS
<1>7. Last(R) = n  BY <1>2 DEF Last
<1>8. fill \in Seq(Nat) /\ Len(fill) = missing /\ \A k \in 1..missing : fill[k] = n
  <2>1. fill \in [1..missing -> Nat]  BY <1>3, <1>6, <1>7
  <2>2. fill \in Seq(Nat) /\ Len(fill) = missing  BY ONLY <1>5, <2>1
  <2> QED BY <1>6, <1>7, <2>2
<1>9. PICK all : all = R \o fill  OBVIOUS
<1>10. /\ all \in Seq(Nat) /\ Len(all) = i + 1
       /\ \A k \in 1..(i + 1) : all[k] = IF k <= rows THEN R[k] ELSE n
  <2>1. all \in Seq(Nat) /\ Len(all) = rows + missing
    <3>1. R \in Seq(Nat) /\ fill \in Seq(Nat)  BY <1>2, <1>8
    <3>2. all \in Seq(Nat) /\ Len(all) = Len(R) + Len(fill)  BY ONLY <3>1, <1>9
    <3> QED BY <1>2, <1>8, <3>2
  <2>2. ASSUME NEW k \in 1..(i + 1) PROVE all[k] = IF k <= rows THEN R[k] ELSE n
    <3>1. k \in 1..(rows + missing)  BY <1>5
    <3>2. CASE k <= rows  BY ONLY <1>2, <1>5, <1>8, <1>9, <3>1, <3>2
    <3>3. CASE ~(k <= rows)
      <4>1. k - rows \in 1..missing  BY ONLY <1>5, <3>1, <3>3
      <4>2. all[k] = fill[k - rows]  BY ONLY <1>2, <1>5, <1>8, <1>9, <3>1, <3>3
      <4> QED BY <1>8, <3>3, <4>1, <4>2
    <3> QED BY <3>2, <3>3
  <2> QED BY <1>5, <2>1, <2>2
<1>11. /\ m2.Values = Append(V, code) /\ m2.ColumnIndex = Append(C, c)
       /\ m2.RowIndex = [all EXCEPT ![i + 1] = n + 1]
  <2>1. m2.RowIndex = [all EXCEPT ![Len(all)] = Len(V) + 1]
    BY <1>1, <1>2, <1>4, <1>6, <1>9 DEF MatrixAdd
  <2>2. m2.Values = Append(V, code) /\ m2.ColumnIndex = Append(C, c)  BY <1>1 DEF MatrixAdd
  <2> QED BY <1>2, <1>10, <2>1, <2>2
<1>12. /\ m2.RowIndex \in Seq(Nat) /\ Len(m2.RowIndex) = i + 1 /\ m2.RowIndex[i + 1] = n + 1
       /\ \A k \in 1..i : m2.RowIndex[k] = IF k <= rows THEN R[k] ELSE n
  <2>1. PICK Q : Q = m2.RowIndex  OBVIOUS
  <2>2. Q = [all EXCEPT ![i + 1] = n + 1]  BY <1>11, <2>1
  <2>3. i + 1 \in 1..(i + 1) /\ i + 1 \in Nat /\ n + 1 \in Nat /\ \A k \in 1..i : k \in 1..(i + 1) /\ k # i + 1
    BY <1>3
  <2>4. all \in [1..(i + 1) -> Nat] /\ DOMAIN all = 1..(i + 1)  BY ONLY <1>10
  <2>5. Q \in [1..(i + 1) -> Nat] /\ Q[i + 1] = n + 1 /\ \A k \in 1..i : Q[k] = all[k]
    BY ONLY <2>2, <2>3, <2>4
  <2>6. Q \in Seq(Nat) /\ Len(Q) = i + 1
    <3>1. PICK N : N = i + 1  OBVIOUS
    <3>2. N \in Nat /\ Q \in [1..N -> Nat]  BY <2>3, <2>5, <3>1
    <3>3. Q \in Seq(Nat) /\ Len(Q) = N  BY ONLY <3>2
    <3> QED BY <3>1, <3>3
  <2>7. \A k \in 1..i : Q[k] = IF k <= rows THEN R[k] ELSE n
    <3> SUFFICES ASSUME NEW k \in 1..i PROVE Q[k] = IF k <= rows THEN R[k] ELSE n  OBVIOUS
    <3>1. k \in 1..(i + 1) /\ Q[k] = all[k]  BY <2>3, <2>5
    <3>2. all[k] = IF k <= rows THEN R[k] ELSE n  BY <1>10, <3>1
    <3> QED BY ONLY <3>1, <3>2
  <2> QED BY <2>1, <2>5, <2>6, <2>7
<1>13. /\ m2.Values \in Seq(Nat) /\ Len(m2.Values) = n + 1 /\ m2.Values[n + 1] = code
       /\ \A w \in 1..n : m2.Values[w] = V[w]
  <2>1. PICK Q : Q = m2.Values  OBVIOUS
  <2>2. Q = Append(V, code)  BY <1>11, <2>1
  <2>3. Q \in Seq(Nat) /\ Len(Q) = n + 1 /\ Q[n + 1] = code /\ \A w \in 1..n : Q[w] = V[w]
    BY <1>2, <1>3, <2>2
  <2> QED BY <2>1, <2>3
<1>14. /\ m2.ColumnIndex \in Seq(Nat) /\ Len(m2.ColumnIndex) = n + 1 /\ m2.ColumnIndex[n + 1] = c
       /\ \A w \in 1..n : m2.ColumnIndex[w] = C[w]
  <2>1. PICK Q : Q = m2.ColumnIndex  OBVIOUS
  <2>2. Q = Append(C, c)  BY <1>11, <2>1
  <2>3. Q \in Seq(Nat) /\ Len(Q) = n + 1 /\ Q[n + 1] = c /\ \A w \in 1..n : Q[w] = C[w]
    BY <1>2, <1>3, <2>2
  <2> QED BY <2>1, <2>3
<1>15. \A w \in 1..n : C[w] \in Nat
  <2>1. C \in [1..n -> Nat]  BY ONLY <1>2
  <2> QED BY <2>1
<1> QED BY <1>1, <1>2, <1>3, <1>12, <1>13, <1>14, <1>15 DEF IsAdded

IsPut(m, m2, i, c, code, n) ==
    /\ IsMatrix(m2, i, c + 1)
    /\ IsAt(m2, i, c, n + 1) /\ m2.Values[n + 1] = code
    /\ \A k, d, v : (k <= i /\ IsAt(m, k, d, v)) => IsAt(m2, k, d, v) /\ m2.Values[v] = m.Values[v]

LEMMA MatrixAdded ==
    ASSUME NEW m, NEW i \in Nat \ {0}, NEW c \in Nat, NEW code \in Nat, IsMatrix(m, i, c),
           NEW m2, m2 = MatrixAdd(m, i - 1, c, code), NEW n, n = Len(m.Values)
    PROVE  IsPut(m, m2, i, c, code, n)
<1>1. PICK rows, V, C, R, V2, C2, R2 :
         /\ rows = Len(m.RowIndex)
         /\ V = m.Values /\ C = m.ColumnIndex /\ R = m.RowIndex
         /\ V2 = m2.Values /\ C2 = m2.ColumnIndex /\ R2 = m2.RowIndex
  OBVIOUS
<1>2. IsAdded(m, m2, i, c, code, n, rows)  BY <1>1, MatrixAddedParts
<1>3. /\ V2 \in Seq(Nat) /\ C2 \in Seq(Nat) /\ R2 \in Seq(Nat) /\ n \in Nat /\ rows \in 1..(i + 1)
      /\ Len(V2) = n + 1 /\ V2[n + 1] = code /\ \A w \in 1..n : V2[w] = V[w]
      /\ Len(C2) = n + 1 /\ C2[n + 1] = c /\ \A w \in 1..n : C2[w] = C[w] /\ C[w] \in Nat
      /\ Len(R2) = i + 1 /\ R2[i + 1] = n + 1
      /\ \A k \in 1..i : R2[k] = IF k <= rows THEN R[k] ELSE n
      /\ \A k \in 1..rows : R[k] \in Nat /\ R[k] <= n
      /\ R[rows] = n
  BY <1>1, <1>2 DEF IsAdded
<1>4. \A k \in 1..i : R2[k] \in Nat /\ R2[k] <= n
  <2> TAKE k \in 1..i
  <2>1. CASE k <= rows
    <3>1. k \in 1..rows  BY <1>3, <2>1
    <3>2. R2[k] = R[k]  BY <1>3, <2>1
    <3>3. R[k] \in Nat /\ R[k] <= n  BY <1>3, <3>1
    <3> QED BY <3>2, <3>3
  <2>2. CASE ~(k <= rows)
    <3>1. R2[k] = n  BY <1>3, <2>2
    <3>2. n \in Nat /\ n <= n  BY <1>3
    <3> QED BY <3>1, <3>2
  <2> QED BY <2>1, <2>2
\* The columns of the row in work lie before c.
<1>5. \A w \in (R2[i] + 1)..n : C[w] < c
  <2>1. CASE rows = i + 1
    <3>1. R2[i] = R[i]  BY <1>3, <2>1
    <3>2. \A w \in (R[i] + 1)..n : C[w] < c  BY <1>1, <2>1 DEF IsMatrix
    <3> QED BY <3>1, <3>2
  <2>2. CASE rows # i + 1
    <3>1. R2[i] = n
      <4>1. rows = i \/ rows < i  BY <1>3, <2>2
      <4>2. CASE rows = i  BY <1>3, <4>2
      <4>3. CASE rows < i
        <5>1. i \in 1..i /\ ~(i <= rows)  BY <1>3, <4>3
        <5> QED BY <1>3, <5>1
      <4> QED BY <4>1, <4>2, <4>3
    <3>2. (n + 1)..n = {}  BY <1>3
    <3> QED BY <3>1, <3>2
  <2> QED BY <2>1, <2>2
<1>6. i \in 1..i /\ R2[i] \in Nat /\ R2[i] <= n /\ i + 1 \in 1..(i + 1)  BY <1>4
<1>7. IsMatrix(m2, i, c + 1)
  <2>1. \A k \in 1..(i + 1) : R2[k] <= n + 1
    <3> TAKE k \in 1..(i + 1)
    <3>1. k \in 1..i \/ k = i + 1  OBVIOUS
    <3>2. CASE k \in 1..i
      <4>1. R2[k] \in Nat /\ R2[k] <= n  BY <1>4, <3>2
      <4> QED BY <1>3, <4>1
    <3>3. CASE k = i + 1  BY <1>3, <3>3
    <3> QED BY <3>1, <3>2, <3>3
  <2>2. ASSUME NEW w \in (R2[i] + 1)..(n + 1) PROVE C2[w] < c + 1
    <3>1. w \in (R2[i] + 1)..n \/ w = n + 1
      <4>1. PICK a : a = R2[i]  OBVIOUS
      <4>2. a \in Nat /\ n \in Nat /\ w \in (a + 1)..(n + 1)  BY <1>3, <1>6, <4>1
      <4>3. w \in (a + 1)..n \/ w = n + 1  BY ONLY <4>2
      <4> QED BY <4>1, <4>3
    <3>2. CASE w = n + 1
      <4>1. C2[w] = c  BY <1>3, <3>2
      <4>2. c < c + 1  OBVIOUS
      <4> QED BY <4>1, <4>2
    <3>3. CASE w \in (R2[i] + 1)..n
      <4>1. w \in 1..n  BY <1>3, <1>6, <3>3
      <4>2. C[w] < c /\ C2[w] = C[w] /\ C[w] \in Nat  BY <1>3, <1>5, <3>3, <4>1
      <4> QED BY <4>2
    <3> QED BY <3>1, <3>2, <3>3
  <2> QED BY <1>1, <1>3, <1>6, <2>1, <2>2 DEF IsMatrix
<1>8. IsAt(m2, i, c, n + 1)
  <2>1. n + 1 \in (R2[i] + 1)..R2[i + 1]  BY <1>3, <1>6
  <2>2. ASSUME NEW w \in (R2[i] + 1)..((n + 1) - 1) PROVE C2[w] < c
    <3>1. w \in (R2[i] + 1)..n /\ w \in 1..n  BY <1>3, <1>6
    <3> QED BY <1>3, <1>5, <3>1
  <2>3. i + 1 <= i + 1  OBVIOUS
  <2> QED BY <1>1, <1>3, <2>1, <2>2, <2>3 DEF IsAt
<1>9. ASSUME NEW k, NEW d, NEW v, k <= i, IsAt(m, k, d, v)
      PROVE  IsAt(m2, k, d, v) /\ V2[v] = V[v]
  <2>1. /\ k \in Nat \ {0} /\ k + 1 <= rows /\ v \in (R[k] + 1)..R[k + 1] /\ C[v] = d
        /\ \A w \in (R[k] + 1)..(v - 1) : C[w] < d
    BY <1>1, <1>9 DEF IsAt
  <2>2. k \in 1..i /\ k <= rows /\ k \in 1..rows /\ k + 1 \in 1..rows /\ rows \in Nat /\ k + 1 <= i + 1
    BY <1>3, <1>9, <2>1
  <2>3. R2[k] = R[k] /\ R[k] \in Nat /\ R[k + 1] \in Nat /\ R[k + 1] <= n  BY <1>3, <2>2
  <2>4. R2[k + 1] \in Nat /\ R[k + 1] <= R2[k + 1]
    <3>1. CASE k + 1 = i + 1
      <4>1. R2[k + 1] = n + 1  BY <1>3, <3>1
      <4>2. PICK b : b = R[k + 1]  OBVIOUS
      <4>3. b \in Nat /\ n \in Nat /\ b <= n  BY <1>3, <2>3, <4>2
      <4>4. n + 1 \in Nat /\ b <= n + 1  BY ONLY <4>3
      <4> QED BY <4>1, <4>2, <4>4
    <3>2. CASE k + 1 # i + 1
      <4>1. k + 1 \in 1..i /\ k + 1 <= rows  BY <1>3, <2>1, <2>2, <3>2
      <4>2. R2[k + 1] = R[k + 1]  BY <1>3, <4>1
      <4> QED BY <2>3, <4>2
    <3> QED BY <3>1, <3>2
  <2>5. v \in Nat /\ v \in 1..n /\ v \in (R2[k] + 1)..R2[k + 1]
    <3>1. PICK a, b, e : a = R[k] /\ b = R[k + 1] /\ e = R2[k + 1]  OBVIOUS
    <3>2. a \in Nat /\ b \in Nat /\ e \in Nat /\ b <= n /\ b <= e /\ v \in (a + 1)..b /\ n \in Nat
      BY <1>3, <2>1, <2>3, <2>4, <3>1
    <3>3. v \in Nat /\ v \in 1..n /\ v \in (a + 1)..e  BY ONLY <3>2
    <3> QED BY <2>3, <3>1, <3>3
  <2>6. ASSUME NEW w \in (R2[k] + 1)..(v - 1) PROVE C2[w] < d
    <3>1. w \in (R[k] + 1)..(v - 1) /\ w \in 1..n
      <4>1. PICK a : a = R[k]  OBVIOUS
      <4>2. a \in Nat /\ w \in (a + 1)..(v - 1) /\ v \in 1..n /\ n \in Nat  BY <1>3, <2>3, <2>5, <2>6, <4>1
      <4>3. w \in 1..n  BY ONLY <4>2
      <4> QED BY <4>1, <4>2, <4>3
    <3> QED BY <1>3, <2>1, <3>1
  <2>7. C2[v] = d /\ V2[v] = V[v]  BY <1>3, <2>1, <2>5
  <2> QED BY <1>1, <1>3, <2>1, <2>2, <2>5, <2>6, <2>7 DEF IsAt
<1> QED BY <1>1, <1>3, <1>7, <1>8, <1>9 DEF IsPut

\* TSparseMatrix::Get finds what is there.
LEMMA MatrixFound ==
    ASSUME NEW m, NEW i, NEW c, IsMatrix(m, i, c), NEW k, NEW d \in Nat, NEW v, IsAt(m, k, d, v)
    PROVE  MatrixGet(m, k - 1, d) = m.Values[v]
<1>1. PICK C, R, rows : C = m.ColumnIndex /\ R = m.RowIndex /\ rows = Len(m.RowIndex)  OBVIOUS
<1>2. /\ k \in Nat \ {0} /\ k + 1 <= rows /\ v \in (R[k] + 1)..R[k + 1] /\ C[v] = d
      /\ \A w \in (R[k] + 1)..(v - 1) : C[w] < d
  BY <1>1 DEF IsAt
<1>3. R \in Seq(Nat) /\ C \in Seq(Nat) /\ rows \in Nat /\ Len(C) = Len(m.Values) /\ Len(m.Values) \in Nat
      /\ \A q \in 1..rows : R[q] <= Len(m.Values) /\ R[q] \in Nat
  <2>1. R \in Seq(Nat) /\ C \in Seq(Nat) /\ m.Values \in Seq(Nat) /\ Len(R) = rows
        /\ Len(C) = Len(m.Values) /\ \A q \in 1..rows : R[q] <= Len(m.Values)
    BY <1>1 DEF IsMatrix
  <2>2. rows \in Nat /\ \A q \in 1..rows : R[q] \in Nat  BY ONLY <2>1
  <2>3. Len(m.Values) \in Nat  BY ONLY <2>1
  <2> QED BY <2>1, <2>2, <2>3
<1>4. PICK beg, end : beg = R[k] /\ end = R[k + 1]  OBVIOUS
<1>5. k \in 1..rows /\ k + 1 \in 1..rows /\ (k - 1) + 1 = k /\ (k - 1) + 2 = k + 1  BY <1>2, <1>3
<1>6. beg \in Nat /\ end \in Nat /\ end <= Len(m.Values) /\ v \in (beg + 1)..end  BY <1>2, <1>3, <1>4, <1>5
<1>7. PICK hit : hit = {w \in (beg + 1)..end : C[w] >= d}  OBVIOUS
<1>8. MatrixGet(m, k - 1, d) =
         m.Values[IF hit = {} THEN end + 1 ELSE CHOOSE w \in hit : \A x \in hit : w <= x]
  BY <1>1, <1>4, <1>5, <1>7 DEF MatrixGet
<1>9. v \in hit  BY <1>2, <1>6, <1>7
<1>10. \A x \in hit : v <= x
  <2> TAKE x \in hit
  <2>1. x \in (beg + 1)..end /\ C[x] >= d  BY <1>7
  <2>2. C[x] \in Nat
    <3>1. x \in 1..Len(C)  BY <1>3, <1>6, <2>1
    <3> QED BY <1>3, <3>1
  <2> SUFFICES ASSUME ~(v <= x) PROVE FALSE  OBVIOUS
  <2>3. x \in (beg + 1)..(v - 1)  BY <1>6, <2>1
  <2>4. C[x] < d  BY <1>2, <1>4, <2>3
  <2> QED BY <2>1, <2>2, <2>4
<1>11. \A x \in hit : x \in Nat /\ ((\A y \in hit : x <= y) => x = v)
  <2> TAKE x \in hit
  <2>1. x \in Nat /\ v \in Nat  BY <1>6, <1>7
  <2> QED BY <1>9, <1>10, <2>1
<1>12. (CHOOSE w \in hit : \A x \in hit : w <= x) = v
  <2>1. \E w \in hit : \A x \in hit : w <= x  BY <1>9, <1>10
  <2>2. PICK u : u = CHOOSE w \in hit : \A x \in hit : w <= x  OBVIOUS
  <2>3. u \in hit /\ \A x \in hit : u <= x  BY <2>1, <2>2
  <2> QED BY <1>11, <2>2, <2>3
<1> QED BY <1>8, <1>9, <1>12

-----------------------------------------------------------------------------
(* Compact                                                                 *)

Complex == [shiftGoto : Nat, rules : SUBSET Nat]

IsCell(cell) ==
    /\ cell.line \in Nat /\ cell.shift \in BOOLEAN
    /\ cell.reduce \in SUBSET Nat /\ IsFiniteSet(cell.reduce)

\* A code stands for a cell: a rule's number, or the number of a complex cell.
IsRule(code, cell) == \E r \in Nat : code = 2 * r /\ cell.line = NoLine /\ cell.reduce = {r}

IsNumber(C, code, cell) ==
    \E k \in 1..Len(C) : /\ code = 2 * (k - 1) + 1
                         /\ C[k].shiftGoto \in {2 * cell.line, 2 * cell.line + 1}
                         /\ C[k].rules = cell.reduce

Decodes(C, code, cell) == IsRule(code, cell) \/ IsNumber(C, code, cell)

\* What GetGotoLine and the rules of a cell are then.
LEMMA Decoded ==
    ASSUME NEW T, NEW C, C = T.ComplexCells, C \in Seq(Complex), NEW code, NEW cell, IsCell(cell),
           Decodes(C, code, cell)
    PROVE  GetGotoLine(T, code) = cell.line /\ CellRules(T, code) = cell.reduce
<1>1. CASE IsRule(code, cell)
  <2>1. PICK r \in Nat : code = 2 * r /\ cell.line = NoLine /\ cell.reduce = {r}  BY <1>1 DEF IsRule
  <2>2. (2 * r) % 2 = 0 /\ (2 * r) \div 2 = r  OBVIOUS
  <2>3. IsSimpleCell(code) /\ code \div 2 = r  BY <2>1, <2>2 DEF IsSimpleCell
  <2> QED BY <2>1, <2>3 DEF GetGotoLine, CellRules
<1>2. CASE IsNumber(C, code, cell)
  <2>1. PICK k \in 1..Len(C) : /\ code = 2 * (k - 1) + 1
                               /\ C[k].shiftGoto \in {2 * cell.line, 2 * cell.line + 1}
                               /\ C[k].rules = cell.reduce
    BY <1>2 DEF IsNumber
  <2>2. PICK n, l : n = Len(C) /\ l = cell.line  OBVIOUS
  <2>3. n \in Nat /\ k \in 1..n /\ l \in Nat  BY <2>2 DEF IsCell
  <2>4. (2 * (k - 1) + 1) % 2 = 1 /\ (2 * (k - 1) + 1) \div 2 = k - 1 /\ (k - 1) + 1 = k
    BY ONLY <2>3
  <2>5. (2 * l) \div 2 = l /\ (2 * l + 1) \div 2 = l  BY ONLY <2>3
  <2>6. ~IsSimpleCell(code) /\ (code \div 2) + 1 = k  BY <2>1, <2>4 DEF IsSimpleCell
  <2>7. C[k].shiftGoto \div 2 = cell.line  BY <2>1, <2>2, <2>5
  <2> QED BY <2>1, <2>6, <2>7 DEF GetGotoLine, CellRules
<1> QED BY <1>1, <1>2 DEF Decodes

\* The table T holds the cell at (k, d).
IsHeld(T, k, d, cell) ==
    \E v : /\ IsAt(T.SimpleCells, k, d, v)
           /\ Decodes(T.ComplexCells, T.SimpleCells.Values[v], cell)

\* Of the cells before (i, c), and of no other, those that are not empty are in the
\* table, each as the cell that it is.
IsPast(k, d, i, c) == k < i \/ (k = i /\ d < c)

IsCompact(T, R, i, c) ==
    /\ IsMatrix(T.SimpleCells, i, c)
    /\ T.ComplexCells \in Seq(Complex)
    /\ \A k \in DOMAIN R : \A d \in DOMAIN R[k] :
          /\ <<k - 1, d>> \in T.Mask <=> IsPast(k, d, i, c) /\ ~IsEmpty(R[k][d])
          /\ (IsPast(k, d, i, c) /\ ~IsEmpty(R[k][d])) => IsHeld(T, k, d, R[k][d])

\* The code that a cell gets.
IsCoded(T, T2, i, c, cell, code) ==
    /\ T2.Mask = T.Mask \cup {<<i - 1, c>>}
    /\ T2.SimpleCells = MatrixAdd(T.SimpleCells, i - 1, c, code)
    /\ T2.ComplexCells \in Seq(Complex)
    /\ Decodes(T2.ComplexCells, code, cell)
    /\ \/ T2.ComplexCells = T.ComplexCells
       \/ \E x \in Complex : T2.ComplexCells = Append(T.ComplexCells, x)

LEMMA CodeOfCell ==
    ASSUME NEW T, NEW i \in Nat \ {0}, NEW c \in Nat, NEW cell, IsCell(cell), ~IsEmpty(cell),
           NEW C, C = T.ComplexCells, C \in Seq(Complex), NEW T2, T2 = CompactCell(T, i - 1, c, cell)
    PROVE  \E code \in Nat : IsCoded(T, T2, i, c, cell, code)
<1> DEFINE simple == Cardinality(cell.reduce) = 1 /\ ~cell.shift /\ cell.line = NoLine
           x == [shiftGoto |-> 2 * cell.line + IF cell.shift THEN 1 ELSE 0, rules |-> cell.reduce]
<1>1. CASE simple
  <2>1. PICK r : cell.reduce = {r}  BY <1>1, FS_Singleton DEF IsCell
  <2>2. r \in Nat /\ (CHOOSE q \in cell.reduce : TRUE) = r  BY <2>1 DEF IsCell
  <2>3. /\ T2.Mask = T.Mask \cup {<<i - 1, c>>}
        /\ T2.SimpleCells = MatrixAdd(T.SimpleCells, i - 1, c, 2 * r)
        /\ T2.ComplexCells = C
    BY <1>1, <2>2 DEF CompactCell
  <2>4. 2 * r \in Nat  BY <2>2
  <2>5. IsRule(2 * r, cell)  BY <1>1, <2>1, <2>2 DEF IsRule
  <2>6. Decodes(C, 2 * r, cell)  BY <2>5 DEF Decodes
  <2> QED BY <2>3, <2>4, <2>6 DEF IsCoded
<1>2. CASE ~simple
  <2>1. /\ T2.Mask = T.Mask \cup {<<i - 1, c>>}
        /\ T2.SimpleCells = MatrixAdd(T.SimpleCells, i - 1, c, 2 * Len(C) + 1)
        /\ T2.ComplexCells = Append(C, x)
    BY <1>2 DEF CompactCell
  <2>2. x.shiftGoto \in Nat /\ x.shiftGoto \in {2 * cell.line, 2 * cell.line + 1} /\ x.rules = cell.reduce
    <3>1. PICK l : l = cell.line  OBVIOUS
    <3>2. l \in Nat  BY <3>1 DEF IsCell
    <3>3. 2 * l + 1 \in Nat /\ 2 * l + 0 = 2 * l /\ 2 * l \in Nat  BY ONLY <3>2
    <3>4. CASE cell.shift  BY <3>1, <3>3, <3>4
    <3>5. CASE ~cell.shift  BY <3>1, <3>3, <3>5
    <3> QED BY <3>4, <3>5
  <2>3. x \in Complex  BY <2>2 DEF Complex, IsCell
  <2> HIDE DEF x
  <2>4. PICK n, U, C2 : n = Len(C) /\ U = Complex /\ C2 = Append(C, x)  OBVIOUS
  <2>5. n \in Nat /\ C2 \in Seq(U) /\ Len(C2) = n + 1 /\ C2[n + 1] = x
    <3>1. C \in Seq(U) /\ x \in U  BY <2>3, <2>4
    <3> QED BY ONLY <2>4, <3>1
  <2>6. n + 1 \in 1..(n + 1) /\ 2 * n + 1 \in Nat /\ 2 * n + 1 = 2 * ((n + 1) - 1) + 1  BY ONLY <2>5
  <2>7. IsNumber(C2, 2 * n + 1, cell)
    BY <2>2, <2>5, <2>6 DEF IsNumber
  <2>8. Decodes(C2, 2 * n + 1, cell)  BY <2>7 DEF Decodes
  <2>9. /\ T2.SimpleCells = MatrixAdd(T.SimpleCells, i - 1, c, 2 * n + 1)
        /\ T2.ComplexCells = C2 /\ C2 \in Seq(Complex)
    BY <2>1, <2>4, <2>5
  <2> QED BY <2>1, <2>3, <2>4, <2>6, <2>8, <2>9 DEF IsCoded
<1> QED BY <1>1, <1>2

\* What is decoded stays so when complex cells are added.
LEMMA DecodesMore ==
    ASSUME NEW C \in Seq(Complex), NEW x \in Complex, NEW code, NEW cell, Decodes(C, code, cell)
    PROVE  Decodes(Append(C, x), code, cell)
<1>1. CASE IsRule(code, cell)  BY <1>1 DEF Decodes
<1>2. CASE IsNumber(C, code, cell)
  <2>1. PICK n, U, C2 : n = Len(C) /\ U = Complex /\ C2 = Append(C, x)  OBVIOUS
  <2>2. C \in Seq(U) /\ x \in U  BY <2>1
  <2>3. n \in Nat /\ Len(C2) = n + 1 /\ \A k \in 1..n : C2[k] = C[k] /\ k \in 1..(n + 1)
    BY ONLY <2>1, <2>2
  <2>4. IsNumber(C2, code, cell)  BY <1>2, <2>1, <2>3 DEF IsNumber
  <2> QED BY <2>1, <2>4 DEF Decodes
<1> QED BY <1>1, <1>2 DEF Decodes

\* A matrix into which nothing is put.
LEMMA MatrixSkipped ==
    ASSUME NEW m, NEW i \in Nat \ {0}, NEW c \in Nat, IsMatrix(m, i, c)
    PROVE  IsMatrix(m, i, c + 1) /\ IsMatrix(m, i + 1, 1)
<1>1. PICK V, C, R, n, rows : /\ V = m.Values /\ C = m.ColumnIndex /\ R = m.RowIndex
                              /\ n = Len(m.Values) /\ rows = Len(m.RowIndex)
  OBVIOUS
<1>2. /\ V \in Seq(Nat) /\ C \in Seq(Nat) /\ R \in Seq(Nat) /\ Len(V) = n /\ Len(C) = n /\ Len(R) = rows
      /\ rows \in 1..(i + 1) /\ R[rows] = n /\ \A k \in 1..rows : R[k] <= n
      /\ rows = i + 1 => \A w \in (R[i] + 1)..n : C[w] < c
  BY <1>1 DEF IsMatrix
<1>3. n \in Nat /\ rows \in Nat /\ (\A k \in 1..rows : R[k] \in Nat) /\ (\A w \in 1..n : C[w] \in Nat)
  <2>1. V \in Seq(Nat) /\ R \in Seq(Nat) /\ C \in Seq(Nat) /\ Len(V) = n /\ Len(C) = n /\ Len(R) = rows
    BY <1>2
  <2>2. n \in Nat /\ rows \in Nat  BY ONLY <2>1
  <2>3. R \in [1..rows -> Nat] /\ C \in [1..n -> Nat]  BY ONLY <2>1
  <2> QED BY <2>2, <2>3
<1>4. rows = i + 1 => \A w \in (R[i] + 1)..n : C[w] < c + 1
  <2> SUFFICES ASSUME rows = i + 1, NEW w \in (R[i] + 1)..n PROVE C[w] < c + 1  OBVIOUS
  <2>1. PICK a, b : a = R[i] /\ b = C[w]  OBVIOUS
  <2>2. a \in Nat /\ w \in (a + 1)..n /\ n \in Nat /\ b < c
    <3>1. i \in 1..rows  OBVIOUS
    <3> QED BY <1>2, <1>3, <2>1, <3>1
  <2>3. w \in 1..n  BY ONLY <2>2
  <2>4. b \in Nat  BY <1>3, <2>1, <2>3
  <2>5. b < c + 1  BY <2>2, <2>4
  <2> QED BY <2>1, <2>5
<1>5. rows \in 1..((i + 1) + 1) /\ rows # (i + 1) + 1  BY <1>2
<1> QED BY <1>1, <1>2, <1>4, <1>5 DEF IsMatrix

LEMMA HeldMore ==
    ASSUME NEW T, NEW T2, NEW i \in Nat \ {0}, NEW c \in Nat, NEW cell, IsCell(cell), ~IsEmpty(cell),
           IsMatrix(T.SimpleCells, i, c), T.ComplexCells \in Seq(Complex),
           T2 = CompactCell(T, i - 1, c, cell)
    PROVE  /\ IsMatrix(T2.SimpleCells, i, c + 1) /\ T2.ComplexCells \in Seq(Complex)
           /\ T2.Mask = T.Mask \cup {<<i - 1, c>>}
           /\ IsHeld(T2, i, c, cell)
           /\ \A k, d, x : (k <= i /\ IsHeld(T, k, d, x)) => IsHeld(T2, k, d, x)
<1>1. PICK C, C2, m, m2, n : /\ C = T.ComplexCells /\ C2 = T2.ComplexCells
                             /\ m = T.SimpleCells /\ m2 = T2.SimpleCells /\ n = Len(m.Values)
  OBVIOUS
<1>2. PICK code \in Nat :
         /\ T2.Mask = T.Mask \cup {<<i - 1, c>>}
         /\ m2 = MatrixAdd(m, i - 1, c, code)
         /\ C2 \in Seq(Complex)
         /\ Decodes(C2, code, cell)
         /\ C2 = C \/ \E x \in Complex : C2 = Append(C, x)
  <2>1. C = T.ComplexCells /\ C \in Seq(Complex)  BY <1>1
  <2>2. PICK code \in Nat : IsCoded(T, T2, i, c, cell, code)  BY <2>1, CodeOfCell
  <2> QED BY <1>1, <2>2 DEF IsCoded
<1>3. /\ IsMatrix(m2, i, c + 1)
      /\ IsAt(m2, i, c, n + 1) /\ m2.Values[n + 1] = code
      /\ \A k, d, v : (k <= i /\ IsAt(m, k, d, v)) => IsAt(m2, k, d, v) /\ m2.Values[v] = m.Values[v]
  <2>1. IsMatrix(m, i, c) /\ m2 = MatrixAdd(m, i - 1, c, code) /\ n = Len(m.Values)  BY <1>1, <1>2
  <2>2. IsPut(m, m2, i, c, code, n)  BY <2>1, MatrixAdded
  <2> QED BY <2>2 DEF IsPut
<1>4. IsHeld(T2, i, c, cell)  BY <1>1, <1>2, <1>3 DEF IsHeld
<1>5. ASSUME NEW k, NEW d, NEW x, k <= i, IsHeld(T, k, d, x) PROVE IsHeld(T2, k, d, x)
  <2>1. PICK v : IsAt(m, k, d, v) /\ Decodes(C, m.Values[v], x)  BY <1>1, <1>5 DEF IsHeld
  <2>2. IsAt(m2, k, d, v) /\ m2.Values[v] = m.Values[v]  BY <1>3, <1>5, <2>1
  <2>3. Decodes(C2, m.Values[v], x)
    <3>1. C \in Seq(Complex)  BY <1>1
    <3> QED BY <1>2, <2>1, <3>1, DecodesMore
  <2> QED BY <1>1, <2>2, <2>3 DEF IsHeld
<1> QED BY <1>1, <1>2, <1>3, <1>4, <1>5

\* The turns of the loops of Compact.
LEMMA CompactColumnStep ==
    ASSUME NEW T, NEW T2, NEW R, NEW i, i \in DOMAIN R, NEW c, c \in DOMAIN R[i], NEW h \in Nat, NEW w \in Nat,
           DOMAIN R = 1..h, \A k \in 1..h : DOMAIN R[k] = 1..w,
           IsCell(R[i][c]), IsCompact(T, R, i, c), T2 = CompactCell(T, i - 1, c, R[i][c])
    PROVE  IsCompact(T2, R, i, c + 1)
<1>1. i \in Nat \ {0} /\ c \in Nat /\ i \in 1..h /\ c \in 1..w  OBVIOUS
<1>2. \A k \in 1..h : \A d \in 1..w : IsPast(k, d, i, c + 1) <=> IsPast(k, d, i, c) \/ (k = i /\ d = c)
  BY <1>1 DEF IsPast
<1>3. IsMatrix(T.SimpleCells, i, c) /\ T.ComplexCells \in Seq(Complex)  BY DEF IsCompact
<1>4. ASSUME NEW k \in 1..h, NEW d \in 1..w
      PROVE  /\ <<k - 1, d>> \in T.Mask <=> IsPast(k, d, i, c) /\ ~IsEmpty(R[k][d])
             /\ (IsPast(k, d, i, c) /\ ~IsEmpty(R[k][d])) => IsHeld(T, k, d, R[k][d])
  BY DEF IsCompact
<1>5. CASE IsEmpty(R[i][c])
  <2>1. T2 = T  BY <1>5 DEF CompactCell
  <2>2. IsMatrix(T.SimpleCells, i, c + 1)  BY <1>1, <1>3, MatrixSkipped
  <2>3. ASSUME NEW k \in 1..h, NEW d \in 1..w
        PROVE  /\ <<k - 1, d>> \in T.Mask <=> IsPast(k, d, i, c + 1) /\ ~IsEmpty(R[k][d])
               /\ (IsPast(k, d, i, c + 1) /\ ~IsEmpty(R[k][d])) => IsHeld(T, k, d, R[k][d])
    <3>1. IsPast(k, d, i, c + 1) /\ ~IsEmpty(R[k][d]) <=> IsPast(k, d, i, c) /\ ~IsEmpty(R[k][d])
      BY <1>2, <1>5
    <3> QED BY <1>4, <3>1
  <2> QED BY <1>3, <2>1, <2>2, <2>3 DEF IsCompact
<1>6. CASE ~IsEmpty(R[i][c])
  <2>1. PICK cell : cell = R[i][c]  OBVIOUS
  <2>2. IsCell(cell) /\ ~IsEmpty(cell) /\ T2 = CompactCell(T, i - 1, c, cell)  BY <1>6, <2>1
  <2>3. /\ IsMatrix(T2.SimpleCells, i, c + 1) /\ T2.ComplexCells \in Seq(Complex)
        /\ T2.Mask = T.Mask \cup {<<i - 1, c>>}
        /\ IsHeld(T2, i, c, cell)
        /\ \A k, d, x : (k <= i /\ IsHeld(T, k, d, x)) => IsHeld(T2, k, d, x)
    BY ONLY <1>1, <1>3, <2>2, HeldMore
  <2>4. ASSUME NEW k \in 1..h, NEW d \in 1..w
        PROVE  /\ <<k - 1, d>> \in T2.Mask <=> IsPast(k, d, i, c + 1) /\ ~IsEmpty(R[k][d])
               /\ (IsPast(k, d, i, c + 1) /\ ~IsEmpty(R[k][d])) => IsHeld(T2, k, d, R[k][d])
    <3>1. <<k - 1, d>> = <<i - 1, c>> <=> k = i /\ d = c  BY <1>1
    <3>2. <<k - 1, d>> \in T2.Mask <=> <<k - 1, d>> \in T.Mask \/ (k = i /\ d = c)  BY <2>3, <3>1
    <3>3. IsPast(k, d, i, c) => k <= i  BY <1>1 DEF IsPast
    <3>4. CASE k = i /\ d = c  BY <1>2, <1>6, <2>1, <2>3, <3>2, <3>4
    <3>5. CASE ~(k = i /\ d = c)  BY <1>2, <1>4, <2>3, <3>2, <3>3, <3>5
    <3> QED BY <3>4, <3>5
  <2> QED BY <2>3, <2>4 DEF IsCompact
<1> QED BY <1>5, <1>6

LEMMA CompactRowStep ==
    ASSUME NEW T, NEW R, NEW i \in Nat \ {0}, NEW h \in Nat, NEW w \in Nat,
           DOMAIN R = 1..h, \A k \in 1..h : DOMAIN R[k] = 1..w,
           IsCompact(T, R, i, w + 1)
    PROVE  IsCompact(T, R, i + 1, 1)
<1>1. \A k \in 1..h : \A d \in 1..w : IsPast(k, d, i + 1, 1) <=> IsPast(k, d, i, w + 1)
  BY DEF IsPast
<1>2. IsMatrix(T.SimpleCells, i, w + 1)  BY DEF IsCompact
<1>3. IsMatrix(T.SimpleCells, i + 1, 1)  BY <1>2, MatrixSkipped
<1> QED BY <1>1, <1>3 DEF IsCompact

LEMMA CompactStart ==
    ASSUME NEW R, NEW h \in Nat, NEW w \in Nat, DOMAIN R = 1..h, \A k \in 1..h : DOMAIN R[k] = 1..w
    PROVE  IsCompact(NoCells, R, 1, 1)
<1>1. \A k \in 1..h : \A d \in 1..w : ~IsPast(k, d, 1, 1)  BY DEF IsPast
<1>2. IsMatrix(NoMatrix, 1, 1)  BY DEF IsMatrix, NoMatrix
<1>3. NoCells.SimpleCells = NoMatrix /\ NoCells.ComplexCells = <<>> /\ NoCells.Mask = {}
  BY DEF NoCells
<1>4. <<>> \in Seq(Complex)  OBVIOUS
<1> QED BY <1>1, <1>2, <1>3, <1>4 DEF IsCompact

\* The cells that are compacted.
LEMMA RawFacts ==
    ASSUME NEW W, IsWork(W), NEW S, NEW g, IsCollection(W, S, g), NEW F, NEW h, h = Len(S),
           NEW w, w = Len(W.symbols), NEW R, R = RawTable(W, S, g, F)
    PROVE  /\ h \in Nat /\ w \in Nat /\ Len(R) = h /\ DOMAIN R = 1..h
           /\ \A k \in 1..h : Len(R[k]) = w /\ DOMAIN R[k] = 1..w
           /\ \A k \in 1..h : \A d \in 1..w :
                 R[k][d] = Cell(W, S, g, F, k, W.symbols[d]) /\ IsCell(R[k][d])
<1>1. h \in Nat /\ w \in Nat /\ DOMAIN S = 1..h /\ DOMAIN W.symbols = 1..w
  BY DEF IsWork, IsCollection, IsSets
<1>2. DOMAIN R = 1..h /\ \A k \in 1..h : R[k] = [d \in 1..w |-> Cell(W, S, g, F, k, W.symbols[d])]
  BY <1>1 DEF RawTable
<1>3. \A Q, n : (Q = [j \in 1..n |-> Q[j]] /\ n \in Nat) => Len(Q) = n
  OBVIOUS
<1>4. Len(R) = h
  <2>1. R = [j \in 1..h |-> R[j]]  BY <1>1 DEF RawTable
  <2> QED BY ONLY <1>1, <1>3, <2>1
<1>5. ASSUME NEW k \in 1..h
      PROVE  Len(R[k]) = w /\ DOMAIN R[k] = 1..w
  <2>1. PICK Q : Q = R[k]  OBVIOUS
  <2>2. Q = [j \in 1..w |-> Q[j]] /\ DOMAIN Q = 1..w  BY <1>2, <2>1
  <2>3. Len(Q) = w  BY ONLY <1>1, <1>3, <2>2
  <2> QED BY <2>1, <2>2, <2>3
<1>6. ASSUME NEW k \in 1..h, NEW X PROVE IsCell(Cell(W, S, g, F, k, X))
  <2>1. PICK cell : cell = Cell(W, S, g, F, k, X)  OBVIOUS
  <2>2. PICK l : l = IF <<k, X>> \in DOMAIN g THEN g[<<k, X>>] ELSE NoLine  OBVIOUS
  <2>3. l \in Nat
    <3>1. CASE <<k, X>> \in DOMAIN g
      <4>1. IsTransition(W, S, <<k, X>>, g[<<k, X>>])  BY <3>1 DEF IsCollection
      <4> QED BY <1>1, <2>2, <3>1, <4>1 DEF IsTransition
    <3>2. CASE <<k, X>> \notin DOMAIN g  BY <2>2, <3>2 DEF NoLine
    <3> QED BY <3>1, <3>2
  <2>4. cell.line = l /\ cell.shift \in BOOLEAN /\ cell.reduce \subseteq {it[1] : it \in S[k]}
    BY <2>1, <2>2 DEF Cell
  <2>5. \A it \in S[k] : it[1] \in DOMAIN W.rules
    BY DEF IsCollection, IsSets, IsState, Items
  <2>6. PICK n : n = Len(W.rules)  OBVIOUS
  <2>7. n \in Nat /\ DOMAIN W.rules = 1..n  BY <2>6 DEF IsWork
  <2>8. cell.reduce \in SUBSET (1..n)  BY <2>4, <2>5, <2>7
  <2>9. IsFiniteSet(1..n)  BY <2>7, FS_Interval
  <2>10. IsFiniteSet(cell.reduce)  BY <2>8, <2>9, FS_Subset
  <2>11. 1..n \subseteq Nat  BY <2>7
  <2> QED BY <2>1, <2>3, <2>4, <2>8, <2>10, <2>11 DEF IsCell
<1>7. \A k \in 1..h : \A d \in 1..w : R[k][d] = Cell(W, S, g, F, k, W.symbols[d])
  BY <1>2
<1> QED BY <1>1, <1>2, <1>4, <1>5, <1>6, <1>7

-----------------------------------------------------------------------------
(* The invariant of Compact.                                               *)

RawInv ==
    /\ raw = RawTable(grammar, sets, goto, follow)
    /\ line \in 1..(Len(sets) + 1) /\ at \in 1..(Len(grammar.symbols) + 1)
    /\ IsCompact(compact, raw, line, at)
    /\ stage = "done" => line = Len(sets) + 1

CompactInv ==
    /\ stage \notin {"compact", "done"} => compact = NoCells
    /\ stage \in {"compact", "done"} => RawInv

Inv == SetsInv /\ ItemInv /\ CompactInv

LEMMA CompactInvInit == Init => CompactInv
BY DEF Init, CompactInv

LEMMA CompactInvEarly ==
    ASSUME CompactInv, stage \notin {"compact", "done"}, stage' \notin {"compact", "done"}, compact' = compact
    PROVE  CompactInv'
BY DEF CompactInv

\* What is compacted, in the stages in which it is.
LEMMA RawHere ==
    ASSUME SetsInv, IsCollection(grammar, sets, goto), stage \in {"line", "compact", "done"},
           NEW R, R = RawTable(grammar, sets, goto, follow), NEW h, h = Len(sets), NEW w, w = Len(grammar.symbols)
    PROVE  /\ h \in Nat /\ w \in Nat /\ Len(R) = h /\ DOMAIN R = 1..h
           /\ \A k \in 1..h : Len(R[k]) = w /\ DOMAIN R[k] = 1..w
           /\ \A k \in 1..h : \A d \in 1..w :
                 R[k][d] = Cell(grammar, sets, goto, follow, k, grammar.symbols[d]) /\ IsCell(R[k][d])
<1>1. PICK W, S, g, F : W = grammar /\ S = sets /\ g = goto /\ F = follow  OBVIOUS
<1>2. IsWork(W)  BY <1>1 DEF SetsInv, GrammarInv, Late, After
<1>3. IsCollection(W, S, g) /\ h = Len(S) /\ w = Len(W.symbols) /\ R = RawTable(W, S, g, F)  BY <1>1
<1>4. /\ h \in Nat /\ w \in Nat /\ Len(R) = h /\ DOMAIN R = 1..h
      /\ \A k \in 1..h : Len(R[k]) = w /\ DOMAIN R[k] = 1..w
      /\ \A k \in 1..h : \A d \in 1..w :
            R[k][d] = Cell(W, S, g, F, k, W.symbols[d]) /\ IsCell(R[k][d])
  BY ONLY <1>2, <1>3, RawFacts
<1> QED BY <1>1, <1>4

LEMMA CompactInvFillTable ==
    ASSUME SetsInv, ItemInv, CompactInv, FillTable
    PROVE  CompactInv'
<1>1. /\ stage = "line" /\ stage' = "compact" /\ raw' = RawTable(grammar, sets, goto, follow)
      /\ line' = 1 /\ at' = 1 /\ compact' = compact
      /\ grammar' = grammar /\ sets' = sets /\ goto' = goto /\ follow' = follow
  BY DEF FillTable
<1>2. PICK R, h, w : R = raw' /\ h = Len(sets) /\ w = Len(grammar.symbols)  OBVIOUS
<1>3. IsCollection(grammar, sets, goto)  BY <1>1 DEF ItemInv
<1>4. h \in Nat /\ w \in Nat /\ DOMAIN R = 1..h /\ \A k \in 1..h : DOMAIN R[k] = 1..w
  <2>1. R = RawTable(grammar, sets, goto, follow)  BY <1>1, <1>2
  <2>2. /\ h \in Nat /\ w \in Nat /\ Len(R) = h /\ DOMAIN R = 1..h
        /\ \A k \in 1..h : Len(R[k]) = w /\ DOMAIN R[k] = 1..w
        /\ \A k \in 1..h : \A d \in 1..w :
              R[k][d] = Cell(grammar, sets, goto, follow, k, grammar.symbols[d]) /\ IsCell(R[k][d])
    BY <1>1, <1>2, <1>3, <2>1, RawHere
  <2> QED BY <2>2
<1>5. IsCompact(NoCells, R, 1, 1)  BY ONLY <1>4, CompactStart
<1>6. 1 \in 1..(h + 1) /\ 1 \in 1..(w + 1)  BY <1>4
<1>7. compact = NoCells  BY <1>1 DEF CompactInv
<1>8. RawInv'  BY <1>1, <1>2, <1>5, <1>6, <1>7 DEF RawInv
<1> QED BY <1>1, <1>8 DEF CompactInv

LEMMA CompactInvColumn ==
    ASSUME SetsInv, ItemInv, CompactInv, CompactColumn
    PROVE  CompactInv'
<1>1. /\ stage = "compact" /\ stage' = stage /\ raw' = raw /\ line' = line /\ at' = at + 1
      /\ line <= Len(raw) /\ at <= Len(raw[line])
      /\ compact' = CompactCell(compact, line - 1, at, raw[line][at])
      /\ grammar' = grammar /\ sets' = sets /\ goto' = goto /\ follow' = follow
  BY DEF CompactColumn, itemVars
<1>2. PICK R, h, w, i, c, T, T2 :
         /\ R = raw /\ h = Len(sets) /\ w = Len(grammar.symbols) /\ i = line /\ c = at
         /\ T = compact /\ T2 = compact'
  OBVIOUS
<1>3. IsCollection(grammar, sets, goto) /\ RawInv  BY <1>1 DEF ItemInv, CompactInv
<1>4. /\ h \in Nat /\ w \in Nat /\ Len(R) = h /\ DOMAIN R = 1..h
      /\ \A k \in 1..h : Len(R[k]) = w /\ DOMAIN R[k] = 1..w
      /\ \A k \in 1..h : \A d \in 1..w :
            R[k][d] = Cell(grammar, sets, goto, follow, k, grammar.symbols[d]) /\ IsCell(R[k][d])
  <2>1. R = RawTable(grammar, sets, goto, follow)  BY <1>2, <1>3 DEF RawInv
  <2> QED BY <1>1, <1>2, <1>3, <2>1, RawHere
<1>5. i \in 1..h /\ c \in 1..w
  <2>1. i \in 1..(h + 1) /\ c \in 1..(w + 1) /\ i <= h  BY <1>1, <1>2, <1>3, <1>4 DEF RawInv
  <2>2. i \in 1..h  BY <1>4, <2>1
  <2>3. c <= w  BY <1>1, <1>2, <1>4, <2>2
  <2> QED BY <1>4, <2>1, <2>2, <2>3
<1>6. IsCompact(T2, R, i, c + 1)
  <2>1. /\ i \in DOMAIN R /\ c \in DOMAIN R[i] /\ IsCell(R[i][c])
        /\ DOMAIN R = 1..h /\ \A k \in 1..h : DOMAIN R[k] = 1..w
    BY <1>4, <1>5
  <2>2. IsCompact(T, R, i, c) /\ T2 = CompactCell(T, i - 1, c, R[i][c])  BY <1>1, <1>2, <1>3 DEF RawInv
  <2>3. h \in Nat /\ w \in Nat  BY <1>4
  <2> QED BY ONLY <2>1, <2>2, <2>3, CompactColumnStep
<1>7. c + 1 \in 1..(w + 1)  BY <1>4, <1>5
<1>8. RawInv'  BY <1>1, <1>2, <1>3, <1>6, <1>7 DEF RawInv
<1> QED BY <1>1, <1>8 DEF CompactInv

LEMMA CompactInvRow ==
    ASSUME SetsInv, ItemInv, CompactInv, CompactRow
    PROVE  CompactInv'
<1>1. /\ stage = "compact" /\ stage' = stage /\ raw' = raw /\ line' = line + 1 /\ at' = 1
      /\ line <= Len(raw) /\ at > Len(raw[line]) /\ compact' = compact
      /\ grammar' = grammar /\ sets' = sets /\ goto' = goto /\ follow' = follow
  BY DEF CompactRow, tableVars
<1>2. PICK R, h, w, i, c, T :
         /\ R = raw /\ h = Len(sets) /\ w = Len(grammar.symbols) /\ i = line /\ c = at /\ T = compact
  OBVIOUS
<1>3. IsCollection(grammar, sets, goto) /\ RawInv  BY <1>1 DEF ItemInv, CompactInv
<1>4. /\ h \in Nat /\ w \in Nat /\ Len(R) = h /\ DOMAIN R = 1..h
      /\ \A k \in 1..h : Len(R[k]) = w /\ DOMAIN R[k] = 1..w
      /\ \A k \in 1..h : \A d \in 1..w :
            R[k][d] = Cell(grammar, sets, goto, follow, k, grammar.symbols[d]) /\ IsCell(R[k][d])
  <2>1. R = RawTable(grammar, sets, goto, follow)  BY <1>2, <1>3 DEF RawInv
  <2> QED BY <1>1, <1>2, <1>3, <2>1, RawHere
<1>5. i \in 1..h /\ c = w + 1
  <2>1. i \in 1..(h + 1) /\ c \in 1..(w + 1) /\ i <= h  BY <1>1, <1>2, <1>3, <1>4 DEF RawInv
  <2>2. i \in 1..h  BY <1>4, <2>1
  <2>3. c > w  BY <1>1, <1>2, <1>4, <2>2
  <2> QED BY <1>4, <2>1, <2>2, <2>3
<1>6. IsCompact(T, R, i + 1, 1)
  <2>1. DOMAIN R = 1..h /\ \A k \in 1..h : DOMAIN R[k] = 1..w  BY <1>4
  <2>2. IsCompact(T, R, i, w + 1)  BY <1>2, <1>3, <1>5 DEF RawInv
  <2>3. h \in Nat /\ w \in Nat /\ i \in Nat \ {0}  BY <1>4, <1>5
  <2> QED BY ONLY <2>1, <2>2, <2>3, CompactRowStep
<1>7. i + 1 \in 1..(h + 1) /\ 1 \in 1..(w + 1)  BY <1>4, <1>5
<1>8. RawInv'  BY <1>1, <1>2, <1>3, <1>6, <1>7 DEF RawInv
<1> QED BY <1>1, <1>8 DEF CompactInv

LEMMA CompactInvDone ==
    ASSUME SetsInv, ItemInv, CompactInv, CompactDone
    PROVE  CompactInv'
<1>1. /\ stage = "compact" /\ stage' = "done" /\ raw' = raw /\ line' = line /\ at' = at
      /\ line > Len(raw) /\ compact' = compact
      /\ grammar' = grammar /\ sets' = sets /\ goto' = goto /\ follow' = follow
  BY DEF CompactDone, sweepVars, itemVars, tableVars
<1>2. PICK R, h, w, i : R = raw /\ h = Len(sets) /\ w = Len(grammar.symbols) /\ i = line  OBVIOUS
<1>3. IsCollection(grammar, sets, goto) /\ RawInv  BY <1>1 DEF ItemInv, CompactInv
<1>4. /\ h \in Nat /\ w \in Nat /\ Len(R) = h /\ DOMAIN R = 1..h
      /\ \A k \in 1..h : Len(R[k]) = w /\ DOMAIN R[k] = 1..w
      /\ \A k \in 1..h : \A d \in 1..w :
            R[k][d] = Cell(grammar, sets, goto, follow, k, grammar.symbols[d]) /\ IsCell(R[k][d])
  <2>1. R = RawTable(grammar, sets, goto, follow)  BY <1>2, <1>3 DEF RawInv
  <2> QED BY <1>1, <1>2, <1>3, <2>1, RawHere
<1>5. i = h + 1
  <2>1. i \in 1..(h + 1) /\ i > h  BY <1>1, <1>2, <1>3, <1>4 DEF RawInv
  <2> QED BY <1>4, <2>1
<1>6. RawInv'  BY <1>1, <1>2, <1>3, <1>5 DEF RawInv
<1> QED BY <1>1, <1>6 DEF CompactInv

LEMMA CompactInvNext == SetsInv /\ ItemInv /\ CompactInv /\ [Next]_vars => CompactInv'
<1> SUFFICES ASSUME SetsInv, ItemInv, CompactInv, [Next]_vars PROVE CompactInv'  OBVIOUS
<1>1. CASE SweepAgain  BY <1>1, CompactInvEarly DEF SweepAgain, tableVars
<1>2. CASE PrefixRule  BY <1>2, CompactInvEarly DEF PrefixRule, tableVars
<1>3. CASE PrefixesDone  BY <1>3, CompactInvEarly DEF PrefixesDone, tableVars
<1>4. CASE BuildAutomat  BY <1>4, CompactInvEarly DEF BuildAutomat, tableVars
<1>5. CASE Augment  BY <1>5, CompactInvEarly DEF Augment, tableVars
<1>6. CASE FirstRule  BY <1>6, CompactInvEarly DEF FirstRule, tableVars
<1>7. CASE FirstDone  BY <1>7, CompactInvEarly DEF FirstDone, tableVars
<1>8. CASE FollowRule  BY <1>8, CompactInvEarly DEF FollowRule, tableVars
<1>9. CASE FollowDone  BY <1>9, CompactInvEarly DEF FollowDone, tableVars
<1>10. CASE Close  BY <1>10, CompactInvEarly DEF Close, tableVars
<1>11. CASE StartSet  BY <1>11, CompactInvEarly DEF StartSet, tableVars
<1>12. CASE TakeSymbol  BY <1>12, CompactInvEarly DEF TakeSymbol, tableVars
<1>13. CASE AddTransition  BY <1>13, CompactInvEarly DEF AddTransition, tableVars
<1>14. CASE NextLine  BY <1>14, CompactInvEarly DEF NextLine, tableVars
<1>15. CASE FillTable  BY <1>15, CompactInvFillTable
<1>16. CASE CompactColumn  BY <1>16, CompactInvColumn
<1>17. CASE CompactRow  BY <1>17, CompactInvRow
<1>18. CASE CompactDone  BY <1>18, CompactInvDone
<1>19. CASE UNCHANGED vars
  <2>1. /\ stage' = stage /\ grammar' = grammar /\ sets' = sets /\ goto' = goto /\ line' = line
        /\ at' = at /\ raw' = raw /\ compact' = compact /\ follow' = follow
    BY <1>19 DEF vars, sweepVars, itemVars, tableVars
  <2>2. RawInv => RawInv'  BY <2>1 DEF RawInv
  <2> QED BY <2>1, <2>2 DEF CompactInv
<1> QED BY <1>1, <1>2, <1>3, <1>4, <1>5, <1>6, <1>7, <1>8, <1>9, <1>10, <1>11, <1>12, <1>13,
           <1>14, <1>15, <1>16, <1>17, <1>18, <1>19 DEF Next

LEMMA InvAlways == Spec => []Inv
<1>1. Init => Inv  BY SetsInvInit, ItemInvInit, CompactInvInit DEF Inv
<1>2. Inv /\ [Next]_vars => Inv'  BY SetsInvNext, ItemInvNext, CompactInvNext DEF Inv
<1> QED BY <1>1, <1>2, PTL DEF Spec

-----------------------------------------------------------------------------
(* The table that is read                                                  *)

\* The cells that are read from the table T are those of the collection.
IsTableOfSets(W, S, g, F, T) ==
    \A i \in 1..Len(S) : \A d \in DOMAIN W.symbols :
        LET cell == Cell(W, S, g, F, i, W.symbols[d])
        IN  /\ IsEmpty(cell) <=> IsEmptyCell(T, i, d)
            /\ CellGoto(T, W.symbols, i, W.symbols[d]) = cell.line
            /\ CellReduce(T, W.symbols, i, W.symbols[d]) = cell.reduce

LEMMA CompactIsRead ==
    ASSUME NEW W, IsWork(W), NEW S, NEW g, IsCollection(W, S, g), NEW F, NEW R, R = RawTable(W, S, g, F),
           NEW T, NEW h, h = Len(S), NEW c, IsCompact(T, R, h + 1, c)
    PROVE  IsTableOfSets(W, S, g, F, T)
<1>1. PICK w, s : w = Len(W.symbols) /\ s = W.symbols  OBVIOUS
<1>2. /\ h \in Nat /\ w \in Nat /\ Len(R) = h /\ DOMAIN R = 1..h
      /\ \A k \in 1..h : Len(R[k]) = w /\ DOMAIN R[k] = 1..w
      /\ \A k \in 1..h : \A d \in 1..w :
            R[k][d] = Cell(W, S, g, F, k, W.symbols[d]) /\ IsCell(R[k][d])
  BY <1>1, RawFacts
<1>3. ASSUME NEW i \in 1..h, NEW d \in 1..w, NEW cell, cell = Cell(W, S, g, F, i, s[d])
      PROVE  /\ IsEmpty(cell) <=> IsEmptyCell(T, i, d)
             /\ CellGoto(T, s, i, s[d]) = cell.line
             /\ CellReduce(T, s, i, s[d]) = cell.reduce
  <2>1. cell = R[i][d] /\ IsCell(cell)  BY <1>1, <1>2, <1>3
  <2>2. IsPast(i, d, h + 1, c)  BY <1>2 DEF IsPast
  <2>3. /\ <<i - 1, d>> \in T.Mask <=> ~IsEmpty(cell)
        /\ ~IsEmpty(cell) => IsHeld(T, i, d, cell)
    BY <1>2, <2>1, <2>2 DEF IsCompact
  <2>4. Position(s, s[d]) = d
    <3>1. d \in DOMAIN s /\ \A j \in DOMAIN s : s[j] = s[d] => j = d  BY <1>1 DEF IsWork
    <3> QED BY <3>1 DEF Position
  <2>5. IsEmpty(cell) <=> IsEmptyCell(T, i, d)  BY <2>3 DEF IsEmptyCell
  <2>6. CASE IsEmpty(cell)
    <3>1. CellGoto(T, s, i, s[d]) = NoLine /\ CellReduce(T, s, i, s[d]) = {}
      BY <2>4, <2>5, <2>6 DEF CellGoto, CellReduce
    <3> QED BY <2>5, <2>6, <3>1 DEF IsEmpty
  <2>7. CASE ~IsEmpty(cell)
    <3>1. PICK m : m = T.SimpleCells  OBVIOUS
    <3>2. PICK v : IsAt(m, i, d, v) /\ Decodes(T.ComplexCells, m.Values[v], cell)
      BY <2>3, <2>7, <3>1 DEF IsHeld
    <3>3. IsMatrix(m, h + 1, c) /\ T.ComplexCells \in Seq(Complex)  BY <3>1 DEF IsCompact
    <3>4. MatrixGet(m, i - 1, d) = m.Values[v]
      <4>1. d \in Nat  BY <1>2
      <4> QED BY <3>2, <3>3, <4>1, MatrixFound
    <3>5. PICK code : code = GetEncodedCell(T, i, d)  OBVIOUS
    <3>6. Decodes(T.ComplexCells, code, cell)  BY <3>1, <3>2, <3>4, <3>5 DEF GetEncodedCell
    <3>7. GetGotoLine(T, code) = cell.line /\ CellRules(T, code) = cell.reduce
      BY <2>1, <3>3, <3>6, Decoded
    <3>8. CellGoto(T, s, i, s[d]) = GetGotoLine(T, code) /\ CellReduce(T, s, i, s[d]) = CellRules(T, code)
      BY <2>4, <2>5, <2>7, <3>5 DEF CellGoto, CellReduce
    <3> QED BY <2>5, <3>7, <3>8
  <2> QED BY <2>6, <2>7
<1>4. DOMAIN W.symbols = 1..w  BY <1>1 DEF IsWork
<1> QED BY <1>1, <1>3, <1>4 DEF IsTableOfSets

LEMMA DoneIsRead ==
    ASSUME Inv, stage = "done"
    PROVE  IsWork(grammar) /\ IsCollection(grammar, sets, goto) /\ IsTableOfSets(grammar, sets, goto, follow, compact)
<1>1. PICK W, S, g, F, T, R, h, c : /\ W = grammar /\ S = sets /\ g = goto /\ F = follow /\ T = compact
                                    /\ R = raw /\ h = Len(sets) /\ c = at
  OBVIOUS
<1>2. IsWork(W) /\ IsCollection(W, S, g)
  BY <1>1 DEF Inv, SetsInv, GrammarInv, Late, After, ItemInv
<1>3. R = RawTable(W, S, g, F) /\ h = Len(S) /\ IsCompact(T, R, h + 1, c)
  BY <1>1 DEF Inv, CompactInv, RawInv
<1>4. IsTableOfSets(W, S, g, F, T)  BY ONLY <1>2, <1>3, CompactIsRead
<1> QED BY <1>1, <1>2, <1>4

\* Verify holds of every table that the compiler builds: what Compact
\* (glrtable.cpp:172) encodes is what the parser decodes.
THEOREM VerifyAlways == Spec => []Verify
<1>1. Inv => Verify
  <2> SUFFICES ASSUME Inv, stage = "done", NEW i \in DOMAIN raw, NEW c \in DOMAIN raw[i]
               PROVE  /\ IsEmpty(raw[i][c]) <=> IsEmptyCell(compact, i, c)
                      /\ Goto(i, grammar.symbols[c]) = raw[i][c].line
                      /\ Reduce(i, grammar.symbols[c]) = raw[i][c].reduce
    BY DEF Verify
  <2>1. /\ IsWork(grammar) /\ IsCollection(grammar, sets, goto)
        /\ IsTableOfSets(grammar, sets, goto, follow, compact)
    BY DoneIsRead
  <2>2. PICK R, h, w : R = raw /\ h = Len(sets) /\ w = Len(grammar.symbols)  OBVIOUS
  <2>3. /\ h \in Nat /\ w \in Nat /\ Len(R) = h /\ DOMAIN R = 1..h
        /\ \A k \in 1..h : Len(R[k]) = w /\ DOMAIN R[k] = 1..w
        /\ \A k \in 1..h : \A d \in 1..w :
              R[k][d] = Cell(grammar, sets, goto, follow, k, grammar.symbols[d]) /\ IsCell(R[k][d])
    <3>1. R = RawTable(grammar, sets, goto, follow) /\ SetsInv  BY <2>2 DEF Inv, CompactInv, RawInv
    <3> QED BY <2>1, <2>2, <3>1, RawHere
  <2>4. i \in 1..h /\ c \in 1..w  BY <2>2, <2>3
  <2>5. c \in DOMAIN grammar.symbols  BY <2>1, <2>2, <2>4 DEF IsWork
  <2>6. raw[i][c] = Cell(grammar, sets, goto, follow, i, grammar.symbols[c])  BY <2>2, <2>3, <2>4
  <2> QED BY <2>1, <2>2, <2>4, <2>5, <2>6 DEF IsTableOfSets, Goto, Reduce
<1> QED BY <1>1, InvAlways, PTL

-----------------------------------------------------------------------------
(* The table is fit for the parser.                                        *)

\* The collection, with what its transitions and its items have to do with each
\* other.
IsLinked(W, S, g, h, n) ==
    /\ h \in Nat \ {0} /\ DOMAIN S = 1..h
    /\ \A i \in 1..h : S[i] \subseteq Items(W)
    /\ \A r \in 1..n : \A k \in 1..Len(W.rules[r].right) : <<r, k>> \notin S[1]
    /\ <<1, W.root>> \in DOMAIN g
    /\ \A p \in DOMAIN g :
          /\ p \in (1..h) \X Range(W.symbols)
          /\ p[2] # END_OF_INPUT /\ p[2] # NEW_ROOT /\ g[p] \in 2..h
          /\ \A q \in DOMAIN g : g[p] = g[q] => p[2] = q[2]
          /\ \A r \in 1..n : \A k \in 1..Len(W.rules[r].right) :
                <<r, k>> \in S[g[p]] <=> <<r, k - 1>> \in S[p[1]] /\ W.rules[r].right[k] = p[2]
    /\ \A j \in 2..h : \E p \in DOMAIN g : g[p] = j
    /\ \A i \in 1..h : \A r \in 1..(n - 1) :
          /\ <<r, 0>> \in S[i] <=> <<i, W.rules[r].left>> \in DOMAIN g
          /\ \A k \in 1..Len(W.rules[r].right) :
                <<r, k - 1>> \in S[i] => <<i, W.rules[r].right[k]>> \in DOMAIN g

LEMMA Linked ==
    ASSUME NEW W, IsWork(W), NEW S, NEW g, IsCollection(W, S, g), LinesDone(W, S, g, Len(S)),
           NEW h, h = Len(S), NEW n, n = Len(W.rules)
    PROVE  IsLinked(W, S, g, h, n)
<1>1. h = Len(S) /\ n = Len(W.rules)  OBVIOUS
<1>2. /\ h \in Nat \ {0} /\ DOMAIN S = 1..h /\ \A i \in 1..h : IsState(W, S[i])
      /\ Kernel(S[1]) = {} /\ <<n, 0>> \in S[1]
  BY <1>1 DEF IsCollection, IsSets
<1>3. /\ n \in Nat \ {0} /\ DOMAIN W.rules = 1..n
      /\ \A r \in 1..n : W.rules[r].left \in Range(W.symbols) /\ IsRight(W.rules[r].right, Range(W.symbols))
      /\ \A r \in 1..(n - 1) : /\ W.rules[r].left # NEW_ROOT /\ W.rules[r].left # END_OF_INPUT
                               /\ \A k \in 1..Len(W.rules[r].right) :
                                     W.rules[r].right[k] # NEW_ROOT /\ W.rules[r].right[k] # END_OF_INPUT
      /\ W.rules[n].left = NEW_ROOT /\ Len(W.rules[n].right) = 2
      /\ W.rules[n].right[1] = W.root /\ W.rules[n].right[2] = END_OF_INPUT
      /\ \E r \in 1..(n - 1) : W.rules[r].left = W.root
  BY <1>1 DEF IsWork
<1>4. n \in 1..n /\ 1 \in 1..h /\ (\A r \in 1..(n - 1) : r \in 1..n) /\ \A r \in 1..n : r # n => r \in 1..(n - 1)
  BY <1>2, <1>3
<1>5. \A i \in 1..h : S[i] \subseteq Items(W)  BY <1>2 DEF IsState
<1>6. \A r \in 1..n : Len(W.rules[r].right) \in Nat \ {0}  BY <1>3 DEF IsRight
<1>7. W.root # END_OF_INPUT /\ W.root # NEW_ROOT  BY <1>3
\* What can be read next has a transition.
<1>8. ASSUME NEW i \in 1..h, NEW r \in 1..n, NEW k \in 1..Len(W.rules[r].right), <<r, k - 1>> \in S[i],
             W.rules[r].right[k] # END_OF_INPUT
      PROVE  <<i, W.rules[r].right[k]>> \in DOMAIN g
  <2>1. PICK m, it : m = Len(W.rules[r].right) /\ it = <<r, k - 1>>  OBVIOUS
  <2>2. m \in Nat /\ k \in 1..m  BY <1>6, <1>8, <2>1
  <2>3. k - 1 < m /\ (k - 1) + 1 = k  BY ONLY <2>2
  <2>4. it \in S[i] /\ it[1] = r /\ it[2] = k - 1  BY <1>8, <2>1
  <2>5. \A t \in S[i] : t[2] < Len(W.rules[t[1]].right) => W.rules[t[1]].right[t[2] + 1] \in Ahead(W, S[i])
    <3>1. S[i] \subseteq Items(W)  BY <1>5, <1>8
    <3> QED BY <3>1, AheadDef
  <2>6. it[2] < Len(W.rules[it[1]].right) /\ W.rules[it[1]].right[it[2] + 1] = W.rules[r].right[k]
    BY <2>1, <2>3, <2>4
  <2>7. W.rules[r].right[k] \in Ahead(W, S[i])  BY <2>4, <2>5, <2>6
  <2> QED BY <1>1, <1>8, <2>7 DEF LinesDone
\* Only the symbols of rules are read, and NEW_ROOT is in none.
<1>9. ASSUME NEW i \in 1..h PROVE NEW_ROOT \notin Ahead(W, S[i])
  <2> SUFFICES ASSUME NEW_ROOT \in Ahead(W, S[i]) PROVE FALSE  OBVIOUS
  <2>1. S[i] \subseteq Items(W)  BY <1>5
  <2>2. PICK it \in S[i] : /\ it \in (DOMAIN W.rules) \X Nat /\ it[2] < Len(W.rules[it[1]].right)
                           /\ NEW_ROOT = W.rules[it[1]].right[it[2] + 1]
    BY <2>1, AheadDef
  <2>3. PICK r, k, m : r = it[1] /\ k = it[2] + 1 /\ m = Len(W.rules[it[1]].right)  OBVIOUS
  <2>4. r \in 1..n /\ it[2] \in Nat  BY <1>3, <2>2, <2>3
  <2>5. m \in Nat /\ it[2] < m  BY <1>6, <2>2, <2>3, <2>4
  <2>6. k \in 1..m
    <3>1. PICK d : d = it[2]  OBVIOUS
    <3>2. d \in Nat /\ m \in Nat /\ d < m /\ k = d + 1  BY <2>3, <2>4, <2>5, <3>1
    <3> QED BY ONLY <3>2
  <2>7. W.rules[r].right[k] = NEW_ROOT  BY <2>2, <2>3
  <2>8. CASE r \in 1..(n - 1)  BY <1>3, <2>3, <2>6, <2>7, <2>8
  <2>9. CASE r = n
    <3>1. m = 2  BY <1>3, <2>3, <2>9
    <3>2. k = 1 \/ k = 2  BY <2>6, <3>1
    <3>3. END_OF_INPUT # NEW_ROOT  BY DEF END_OF_INPUT, NEW_ROOT
    <3> QED BY <1>3, <1>7, <2>7, <2>9, <3>2, <3>3
  <2> QED BY <1>4, <2>4, <2>8, <2>9
<1>10. ASSUME NEW r \in 1..n, NEW k \in 1..Len(W.rules[r].right) PROVE <<r, k>> \notin S[1]
  <2>1. k > 0 /\ <<r, k>>[2] = k  BY <1>6
  <2> QED BY <1>2, <2>1 DEF Kernel
<1>11. <<1, W.root>> \in DOMAIN g
  <2>1. 1 \in 1..Len(W.rules[n].right) /\ 1 - 1 = 0  BY <1>3
  <2> QED BY <1>2, <1>3, <1>4, <1>7, <1>8, <2>1
<1>12. ASSUME NEW p \in DOMAIN g
       PROVE  /\ p \in (1..h) \X Range(W.symbols) /\ p[1] \in 1..h
              /\ p[2] # END_OF_INPUT /\ p[2] \in Ahead(W, S[p[1]]) /\ g[p] \in 2..h
              /\ Kernel(S[g[p]]) = NextItemSet(W, S[p[1]], p[2])
  <2>1. IsTransition(W, S, p, g[p])  BY DEF IsCollection
  <2>2. p \in (1..h) \X Range(W.symbols)  BY <1>1, <2>1 DEF IsTransition
  <2> QED BY <1>1, <2>1, <2>2 DEF IsTransition
<1>13. ASSUME NEW p \in DOMAIN g, NEW r \in 1..n, NEW k \in 1..Len(W.rules[r].right)
       PROVE  <<r, k>> \in S[g[p]] <=> <<r, k - 1>> \in S[p[1]] /\ W.rules[r].right[k] = p[2]
  <2>1. PICK A, X, T : A = S[p[1]] /\ X = p[2] /\ T = NextItemSet(W, A, X)  OBVIOUS
  <2>2. A \subseteq Items(W)  BY <1>5, <1>12, <2>1
  <2>3. \A q \in DOMAIN W.rules : \A l \in 1..Len(W.rules[q].right) :
           <<q, l>> \in T <=> <<q, l - 1>> \in A /\ W.rules[q].right[l] = X
    <3>1. /\ T \subseteq Items(W) /\ IsGrounded(W, T) /\ Kernel(T) = T
          /\ X \in Ahead(W, A) => T # {}
          /\ IsMoved(W, A, X, T)
      BY <2>1, <2>2, NextSet
    <3> QED BY <3>1 DEF IsMoved
  <2>4. k > 0 /\ <<r, k>>[2] = k  BY <1>6
  <2>5. <<r, k>> \in S[g[p]] <=> <<r, k>> \in T  BY <1>12, <2>1, <2>4 DEF Kernel
  <2> QED BY <1>3, <2>1, <2>3, <2>5
<1>14. ASSUME NEW p \in DOMAIN g, NEW q \in DOMAIN g, g[p] = g[q] PROVE p[2] = q[2]
  <2>1. PICK A, X, T : A = S[p[1]] /\ X = p[2] /\ T = NextItemSet(W, A, X)  OBVIOUS
  <2>2. A \subseteq Items(W) /\ X \in Ahead(W, A)  BY <1>5, <1>12, <2>1
  <2>3. T \subseteq Items(W) /\ T # {}  BY <2>1, <2>2, NextSet
  <2>4. PICK it : it \in T  BY <2>3
  <2>5. it \in Kernel(S[g[p]])  BY <1>12, <2>1, <2>4
  <2>6. it \in S[g[p]] /\ it[2] > 0  BY <2>5 DEF Kernel
  <2>7. it \in (DOMAIN W.rules) \X Nat /\ it[2] <= Len(W.rules[it[1]].right)  BY <2>3, <2>4 DEF Items
  <2>8. PICK r, k, m : r = it[1] /\ k = it[2] /\ m = Len(W.rules[it[1]].right)  OBVIOUS
  <2>9. it = <<r, k>> /\ r \in 1..n  BY <1>3, <2>7, <2>8
  <2>10. k \in Nat /\ m \in Nat /\ k > 0 /\ k <= m  BY <1>6, <2>6, <2>7, <2>8, <2>9
  <2>11. k \in 1..m  BY ONLY <2>10
  <2>12. W.rules[r].right[k] = p[2]  BY <1>13, <2>6, <2>8, <2>9, <2>11
  <2>13. W.rules[r].right[k] = q[2]  BY <1>13, <1>14, <2>6, <2>8, <2>9, <2>11
  <2> QED BY <2>12, <2>13
<1>15. ASSUME NEW i \in 1..h, NEW r \in 1..(n - 1)
       PROVE  <<r, 0>> \in S[i] <=> <<i, W.rules[r].left>> \in DOMAIN g
  <2>1. IsState(W, S[i]) /\ r \in DOMAIN W.rules  BY <1>2, <1>3, <1>4
  <2>2. ASSUME <<r, 0>> \in S[i] PROVE <<i, W.rules[r].left>> \in DOMAIN g
    <3>1. W.rules[r].left \in Ahead(W, S[i]) \ {END_OF_INPUT}
      BY <1>3, <2>1, <2>2 DEF IsState, IsGrounded
    <3> QED BY <1>1, <3>1 DEF LinesDone
  <2>3. ASSUME <<i, W.rules[r].left>> \in DOMAIN g PROVE <<r, 0>> \in S[i]
    <3>1. PICK p : p = <<i, W.rules[r].left>>  OBVIOUS
    <3>2. W.rules[r].left \in Ahead(W, S[i])  BY <1>12, <2>3, <3>1
    <3>3. <<r, 0>> \in AddToItemSet(W, W.rules[r].left)  BY <2>1 DEF AddToItemSet
    <3>4. <<r, 0>> \in CloseItemSet(W, S[i])  BY <3>2, <3>3 DEF CloseItemSet
    <3> QED BY <2>1, <3>4 DEF IsState
  <2> QED BY <2>2, <2>3
<1>16. \A j \in 2..h : \E p \in DOMAIN g : g[p] = j  BY <1>1 DEF IsCollection
<1>17. ASSUME NEW p \in DOMAIN g PROVE p[2] # NEW_ROOT  BY <1>9, <1>12
<1>18. ASSUME NEW i \in 1..h, NEW r \in 1..(n - 1), NEW k \in 1..Len(W.rules[r].right), <<r, k - 1>> \in S[i]
       PROVE  <<i, W.rules[r].right[k]>> \in DOMAIN g
  BY <1>3, <1>4, <1>8, <1>18
<1>19. \A p \in DOMAIN g :
          /\ p \in (1..h) \X Range(W.symbols)
          /\ p[2] # END_OF_INPUT /\ p[2] # NEW_ROOT /\ g[p] \in 2..h
          /\ \A q \in DOMAIN g : g[p] = g[q] => p[2] = q[2]
          /\ \A r \in 1..n : \A k \in 1..Len(W.rules[r].right) :
                <<r, k>> \in S[g[p]] <=> <<r, k - 1>> \in S[p[1]] /\ W.rules[r].right[k] = p[2]
  <2> TAKE p \in DOMAIN g
  <2>1. \A q \in DOMAIN g : g[p] = g[q] => p[2] = q[2]  BY <1>14
  <2>2. \A r \in 1..n : \A k \in 1..Len(W.rules[r].right) :
           <<r, k>> \in S[g[p]] <=> <<r, k - 1>> \in S[p[1]] /\ W.rules[r].right[k] = p[2]
    BY <1>13
  <2> QED BY <1>12, <1>17, <2>1, <2>2
<1>20. \A i \in 1..h : \A r \in 1..(n - 1) :
          /\ <<r, 0>> \in S[i] <=> <<i, W.rules[r].left>> \in DOMAIN g
          /\ \A k \in 1..Len(W.rules[r].right) :
                <<r, k - 1>> \in S[i] => <<i, W.rules[r].right[k]>> \in DOMAIN g
  BY <1>15, <1>18
<1>21. \A r \in 1..n : \A k \in 1..Len(W.rules[r].right) : <<r, k>> \notin S[1]  BY <1>10
<1> QED BY ONLY <1>2, <1>5, <1>11, <1>16, <1>19, <1>20, <1>21 DEF IsLinked

\* What the parser finds in the table (h states, n rules with that of NEW_ROOT).
IsParts(W, S, g, D, F, h, n, T) ==
    /\ T.root = W.root /\ T.states = 1..h /\ T.items = S /\ T.symbols = W.symbols
    /\ T.first = D /\ T.follow = F
    /\ DOMAIN T.rules = 1..(n - 1) /\ \A r \in 1..(n - 1) : T.rules[r] = W.rules[r]
    /\ DOMAIN T.goto = DOMAIN g /\ \A p \in DOMAIN g : T.goto[p] = g[p]
    /\ \A i \in 1..h : \A X \in Range(W.symbols) : \A r :
          r \in T.reduce[<<i, X>>] <=>
              /\ r \in 1..(n - 1) /\ <<r, Len(W.rules[r].right)>> \in S[i]
              /\ X \in F[W.rules[r].left]

\* The transitions of a collection, and the items on both sides of them.
LEMMA LinkedMoves ==
    ASSUME NEW W, NEW S, NEW g, NEW h, NEW n, IsLinked(W, S, g, h, n), NEW p, p \in DOMAIN g
    PROVE  /\ \A q \in DOMAIN g : g[p] = g[q] => p[2] = q[2]
           /\ \A r \in 1..n : \A k \in 1..Len(W.rules[r].right) :
                 <<r, k>> \in S[g[p]] <=> <<r, k - 1>> \in S[p[1]] /\ W.rules[r].right[k] = p[2]
BY DEF IsLinked

\* The rules of a cell of the collection.
IsCellOf(W, S, g, F, n, i, X, cell) ==
    /\ cell.line = IF <<i, X>> \in DOMAIN g THEN g[<<i, X>>] ELSE NoLine
    /\ \A r : r \in cell.reduce <=>
          /\ r \in 1..(n - 1) /\ <<r, Len(W.rules[r].right)>> \in S[i]
          /\ X \in F[W.rules[r].left]

LEMMA CellOfSets ==
    ASSUME NEW W, IsWork(W), NEW S, NEW g, NEW F, NEW h, NEW n, n = Len(W.rules), IsLinked(W, S, g, h, n),
           NEW i \in 1..h, NEW X, NEW cell, cell = Cell(W, S, g, F, i, X)
    PROVE  IsCellOf(W, S, g, F, n, i, X, cell)
<1>1. cell.line = IF <<i, X>> \in DOMAIN g THEN g[<<i, X>>] ELSE NoLine  BY DEF Cell
<1>2. /\ n \in Nat \ {0} /\ DOMAIN W.rules = 1..n /\ W.rules[n].left = NEW_ROOT
      /\ \A r \in 1..(n - 1) : W.rules[r].left # NEW_ROOT
  BY DEF IsWork
<1>3. S[i] \subseteq Items(W)  BY DEF IsLinked
<1>4. \A it \in S[i] : it \in (1..n) \X Nat  BY <1>2, <1>3 DEF Items
<1>5. \A r : r \in cell.reduce <=> \E it \in S[i] : /\ it[1] = r /\ it[2] = Len(W.rules[it[1]].right)
                                                    /\ W.rules[it[1]].left # NEW_ROOT
                                                    /\ X \in F[W.rules[it[1]].left]
  BY DEF Cell, IsFinished
<1>6. ASSUME NEW r, r \in cell.reduce
      PROVE  r \in 1..(n - 1) /\ <<r, Len(W.rules[r].right)>> \in S[i] /\ X \in F[W.rules[r].left]
  <2>1. PICK it \in S[i] : /\ it[1] = r /\ it[2] = Len(W.rules[it[1]].right)
                           /\ W.rules[it[1]].left # NEW_ROOT /\ X \in F[W.rules[it[1]].left]
    BY <1>5, <1>6
  <2>2. it = <<r, Len(W.rules[r].right)>> /\ r \in 1..n  BY <1>4, <2>1
  <2>3. r # n  BY <1>2, <2>1
  <2>4. r \in 1..(n - 1)  BY <1>2, <2>2, <2>3
  <2> QED BY <2>1, <2>2, <2>4
<1>7. ASSUME NEW r \in 1..(n - 1), <<r, Len(W.rules[r].right)>> \in S[i], X \in F[W.rules[r].left]
      PROVE  r \in cell.reduce
  <2>1. PICK it : it = <<r, Len(W.rules[r].right)>>  OBVIOUS
  <2>2. it \in S[i] /\ it[1] = r /\ it[2] = Len(W.rules[r].right)  BY <1>7, <2>1
  <2> QED BY <1>2, <1>5, <1>7, <2>2
<1> QED BY <1>1, <1>6, <1>7 DEF IsCellOf

LEMMA TableParts ==
    ASSUME NEW W, IsWork(W), NEW S, NEW g, NEW D, NEW F, NEW h, h = Len(S), NEW n, n = Len(W.rules),
           IsLinked(W, S, g, h, n), NEW C, IsTableOfSets(W, S, g, F, C),
           NEW T, T = TableOf(W, S, D, F, C)
    PROVE  IsParts(W, S, g, D, F, h, n, T)
<1>1. DOMAIN S = 1..h /\ h \in Nat  BY DEF IsLinked
<1> DEFINE cells == (1..h) \X Range(W.symbols)
           Line(p) == CellGoto(C, W.symbols, p[1], p[2])
<1>2. /\ T.root = W.root /\ T.states = 1..h /\ T.items = S /\ T.symbols = W.symbols
      /\ T.first = D /\ T.follow = F
      /\ T.rules = [r \in 1..(n - 1) |-> W.rules[r]]
      /\ T.goto = [p \in {q \in cells : Line(q) # NoLine} |-> Line(p)]
      /\ T.reduce = [p \in cells |-> CellReduce(C, W.symbols, p[1], p[2])]
  BY <1>1 DEF TableOf
<1>3. ASSUME NEW i \in 1..h, NEW X \in Range(W.symbols)
      PROVE  /\ CellGoto(C, W.symbols, i, X) = Cell(W, S, g, F, i, X).line
             /\ CellReduce(C, W.symbols, i, X) = Cell(W, S, g, F, i, X).reduce
  <2>1. PICK d \in DOMAIN W.symbols : W.symbols[d] = X  BY DEF Range
  <2> QED BY <2>1 DEF IsTableOfSets
<1>4. ASSUME NEW i \in 1..h, NEW X \in Range(W.symbols)
      PROVE  /\ Line(<<i, X>>) = IF <<i, X>> \in DOMAIN g THEN g[<<i, X>>] ELSE NoLine
             /\ \A r : r \in T.reduce[<<i, X>>] <=>
                   /\ r \in 1..(n - 1) /\ <<r, Len(W.rules[r].right)>> \in S[i]
                   /\ X \in F[W.rules[r].left]
  <2>1. PICK cell, p : cell = Cell(W, S, g, F, i, X) /\ p = <<i, X>>  OBVIOUS
  <2>2. p \in cells /\ p[1] = i /\ p[2] = X  BY <2>1
  <2>3. Line(p) = cell.line /\ T.reduce[p] = cell.reduce  BY <1>2, <1>3, <2>1, <2>2
  <2>4. /\ cell.line = IF <<i, X>> \in DOMAIN g THEN g[<<i, X>>] ELSE NoLine
        /\ \A r : r \in cell.reduce <=>
              /\ r \in 1..(n - 1) /\ <<r, Len(W.rules[r].right)>> \in S[i]
              /\ X \in F[W.rules[r].left]
    <3>1. IsCellOf(W, S, g, F, n, i, X, cell)  BY <2>1, CellOfSets
    <3> QED BY <3>1 DEF IsCellOf
  <2> QED BY <2>1, <2>3, <2>4
<1>5. ASSUME NEW p \in DOMAIN g PROVE p \in cells /\ g[p] # NoLine
  <2>1. p \in cells /\ g[p] \in 2..h  BY DEF IsLinked
  <2> QED BY <1>1, <2>1 DEF NoLine
<1>6. ASSUME NEW p \in cells PROVE Line(p) = IF p \in DOMAIN g THEN g[p] ELSE NoLine
  <2>1. p = <<p[1], p[2]>> /\ p[1] \in 1..h /\ p[2] \in Range(W.symbols)  BY <1>6
  <2>2. PICK i, X : i = p[1] /\ X = p[2]  OBVIOUS
  <2>3. Line(<<i, X>>) = IF <<i, X>> \in DOMAIN g THEN g[<<i, X>>] ELSE NoLine  BY <1>4, <2>1, <2>2
  <2> QED BY <2>1, <2>2, <2>3
<1>7. DOMAIN T.goto = DOMAIN g /\ \A p \in DOMAIN g : T.goto[p] = g[p]
  <2>1. DOMAIN T.goto = {q \in cells : Line(q) # NoLine}  BY <1>2
  <2>2. \A q \in cells : Line(q) # NoLine <=> q \in DOMAIN g
    <3> HIDE DEF Line, cells
    <3> QED BY <1>5, <1>6
  <2>3. DOMAIN T.goto = DOMAIN g
    <3> HIDE DEF Line, cells
    <3> QED BY <1>5, <2>1, <2>2
  <2>4. ASSUME NEW p \in DOMAIN g PROVE T.goto[p] = g[p]
    <3>1. p \in DOMAIN T.goto /\ p \in cells  BY <1>5, <2>3
    <3>2. T.goto[p] = Line(p)
      <4> HIDE DEF Line
      <4> QED BY <1>2, <3>1
    <3>3. Line(p) = g[p]
      <4> HIDE DEF Line, cells
      <4> QED BY <1>6, <3>1
    <3> QED BY <3>2, <3>3
  <2> QED BY <2>3, <2>4
<1>8. DOMAIN T.rules = 1..(n - 1) /\ \A r \in 1..(n - 1) : T.rules[r] = W.rules[r]  BY <1>2
<1>9. \A i \in 1..h : \A X \in Range(W.symbols) : \A r :
         r \in T.reduce[<<i, X>>] <=>
             /\ r \in 1..(n - 1) /\ <<r, Len(W.rules[r].right)>> \in S[i]
             /\ X \in F[W.rules[r].left]
  BY <1>4
<1>10. /\ T.root = W.root /\ T.states = 1..h /\ T.items = S /\ T.symbols = W.symbols
       /\ T.first = D /\ T.follow = F
  BY <1>2
<1> QED BY ONLY <1>7, <1>8, <1>9, <1>10 DEF IsParts

LEMMA PartsAreTable ==
    ASSUME NEW W, IsWork(W), NEW S, NEW g, NEW D, NEW F, NEW h, NEW n, n = Len(W.rules),
           IsLinked(W, S, g, h, n), NEW T, IsParts(W, S, g, D, F, h, n, T)
    PROVE  Parser!IsTable(T)
<1>1. /\ n \in Nat \ {0} /\ DOMAIN W.rules = 1..n
      /\ \A r \in 1..n : Len(W.rules[r].right) \in Nat \ {0}
  BY DEF IsWork, IsRight
<1>2. h \in Nat \ {0} /\ \A r \in 1..(n - 1) : r \in 1..n  BY <1>1 DEF IsLinked
<1>3. 1 \in T.states  BY <1>2 DEF IsParts
<1>4. ASSUME NEW r \in DOMAIN T.rules
      PROVE  /\ Len(T.rules[r].right) \in Nat \ {0}
             /\ \A k \in 1..Len(T.rules[r].right) : <<r, k>> \notin T.items[1]
             /\ \A i \in T.states :
                   <<r, 0>> \in T.items[i] => <<i, T.rules[r].left>> \in DOMAIN T.goto
  <2>1. r \in 1..(n - 1) /\ r \in 1..n /\ T.rules[r] = W.rules[r] /\ T.items = S
        /\ T.states = 1..h /\ DOMAIN T.goto = DOMAIN g
    BY <1>2, <1>4 DEF IsParts
  <2>2. Len(W.rules[r].right) \in Nat \ {0}  BY <1>1, <2>1
  <2>3. \A k \in 1..Len(W.rules[r].right) : <<r, k>> \notin S[1]  BY <2>1 DEF IsLinked
  <2>4. \A i \in 1..h : <<r, 0>> \in S[i] => <<i, W.rules[r].left>> \in DOMAIN g  BY <2>1 DEF IsLinked
  <2> QED BY ONLY <2>1, <2>2, <2>3, <2>4
<1>5. ASSUME NEW p \in DOMAIN T.goto
      PROVE  /\ p[1] \in T.states /\ p[2] # END_OF_INPUT
             /\ T.goto[p] \in T.states \ {1}
             /\ \A q \in DOMAIN T.goto : T.goto[p] = T.goto[q] => p[2] = q[2]
             /\ \A r \in DOMAIN T.rules : \A k \in 1..Len(T.rules[r].right) :
                   <<r, k>> \in T.items[T.goto[p]] =>
                       T.rules[r].right[k] = p[2] /\ <<r, k - 1>> \in T.items[p[1]]
  <2>1. /\ p \in DOMAIN g /\ T.goto[p] = g[p] /\ T.items = S /\ T.states = 1..h
        /\ DOMAIN T.rules = 1..(n - 1) /\ DOMAIN T.goto = DOMAIN g
    BY <1>5 DEF IsParts
  <2>2. p \in (1..h) \X Range(W.symbols) /\ p[2] # END_OF_INPUT /\ g[p] \in 2..h
    BY <2>1 DEF IsLinked
  <2>3. p[1] \in 1..h /\ g[p] \in (1..h) \ {1}  BY <1>2, <2>2
  <2>4. ASSUME NEW q \in DOMAIN T.goto, T.goto[p] = T.goto[q] PROVE p[2] = q[2]
    <3>1. q \in DOMAIN g /\ T.goto[q] = g[q]  BY <2>4 DEF IsParts
    <3>2. g[p] = g[q]  BY <2>1, <2>4, <3>1
    <3>3. /\ \A u \in DOMAIN g : g[p] = g[u] => p[2] = u[2]
          /\ \A r \in 1..n : \A k \in 1..Len(W.rules[r].right) :
                <<r, k>> \in S[g[p]] <=> <<r, k - 1>> \in S[p[1]] /\ W.rules[r].right[k] = p[2]
      BY <2>1, LinkedMoves
    <3> QED BY <3>1, <3>2, <3>3
  <2>5. ASSUME NEW r \in DOMAIN T.rules, NEW k \in 1..Len(T.rules[r].right), <<r, k>> \in T.items[T.goto[p]]
        PROVE  T.rules[r].right[k] = p[2] /\ <<r, k - 1>> \in T.items[p[1]]
    <3>1. r \in 1..n /\ T.rules[r] = W.rules[r]  BY <1>2, <2>1 DEF IsParts
    <3>2. k \in 1..Len(W.rules[r].right) /\ <<r, k>> \in S[g[p]]  BY <2>1, <2>5, <3>1
    <3>3. <<r, k - 1>> \in S[p[1]] /\ W.rules[r].right[k] = p[2]
      <4>1. /\ \A u \in DOMAIN g : g[p] = g[u] => p[2] = u[2]
            /\ \A q \in 1..n : \A l \in 1..Len(W.rules[q].right) :
                  <<q, l>> \in S[g[p]] <=> <<q, l - 1>> \in S[p[1]] /\ W.rules[q].right[l] = p[2]
        BY <2>1, LinkedMoves
      <4> QED BY <3>1, <3>2, <4>1
    <3> QED BY <2>1, <3>1, <3>3
  <2>6. p[1] \in T.states /\ p[2] # END_OF_INPUT /\ T.goto[p] \in T.states \ {1}  BY <2>1, <2>2, <2>3
  <2> QED BY <2>4, <2>5, <2>6
<1>6. ASSUME NEW i \in T.states, NEW X \in Parser!Readings(T), NEW r \in T.reduce[<<i, X>>]
      PROVE  r \in DOMAIN T.rules /\ <<r, Len(T.rules[r].right)>> \in T.items[i]
  <2>1. i \in 1..h /\ T.symbols = W.symbols /\ DOMAIN T.rules = 1..(n - 1) /\ T.items = S  BY DEF IsParts
  <2>2. X \in Range(W.symbols)  BY <2>1 DEF Parser!Readings, Range
  <2>3. r \in 1..(n - 1) /\ <<r, Len(W.rules[r].right)>> \in S[i]  BY <2>1, <2>2 DEF IsParts
  <2>4. T.rules[r] = W.rules[r]  BY <2>3 DEF IsParts
  <2> QED BY <2>1, <2>3, <2>4
<1> QED BY ONLY <1>3, <1>4, <1>5, <1>6 DEF Parser!IsTable

LEMMA PartsAreComplete ==
    ASSUME NEW W, IsWork(W), NEW S, NEW g, NEW D \in Families(W), NEW F \in Families(W), NEW h, NEW n, n = Len(W.rules),
           FirstClosed(W, n, D), FollowClosed(W, n, D, F),
           IsLinked(W, S, g, h, n), NEW T, IsParts(W, S, g, D, F, h, n, T)
    PROVE  Parser!IsComplete(T)
<1> DEFINE Lefts == {T.rules[r].left : r \in DOMAIN T.rules}
           Opening(X) == IF X \in Lefts THEN T.first[X] ELSE {X}
<1>1. /\ n \in Nat \ {0} /\ DOMAIN W.rules = 1..n
      /\ \A r \in 1..n : W.rules[r].left \in Range(W.symbols) /\ IsRight(W.rules[r].right, Range(W.symbols))
      /\ \A r \in 1..(n - 1) : /\ W.rules[r].left # NEW_ROOT /\ W.rules[r].left # END_OF_INPUT
                               /\ \A k \in 1..Len(W.rules[r].right) : W.rules[r].right[k] # NEW_ROOT
      /\ W.rules[n].left = NEW_ROOT /\ Len(W.rules[n].right) = 2
      /\ W.rules[n].right[1] = W.root /\ W.rules[n].right[2] = END_OF_INPUT
  BY DEF IsWork
<1>2. (\A r \in 1..(n - 1) : r \in 1..n) /\ n \in 1..n /\ \A r \in 1..n : r = n \/ r \in 1..(n - 1)  BY <1>1
<1>3. <<1, T.root>> \in DOMAIN T.goto  BY DEF IsParts, IsLinked
<1>4. END_OF_INPUT \in T.follow[T.root]
  <2>1. END_OF_INPUT \notin Metas(W)
    <3>1. END_OF_INPUT # NEW_ROOT  BY DEF END_OF_INPUT, NEW_ROOT
    <3> QED BY <1>1, <1>2, <3>1 DEF Metas
  <2>2. FollowsRule(W, D, F, W.rules[n])  BY <1>2 DEF FollowClosed
  <2>3. 1 \in 1..(Len(W.rules[n].right) - 1) /\ 1 + 1 = 2  BY <1>1
  <2>4. Opens(W, D, W.rules[n].right[1 + 1]) \subseteq F[W.rules[n].right[1]]  BY <2>2, <2>3 DEF FollowsRule
  <2>5. {END_OF_INPUT} \subseteq F[W.root]  BY <1>1, <2>1, <2>3, <2>4 DEF Opens
  <2>6. T.follow = F /\ T.root = W.root  BY DEF IsParts
  <2> QED BY <2>5, <2>6
<1>5. \A X : X # NEW_ROOT => (X \in Lefts <=> X \in Metas(W))
  <2>1. DOMAIN T.rules = 1..(n - 1) /\ \A r \in 1..(n - 1) : T.rules[r] = W.rules[r]  BY DEF IsParts
  <2>2. Lefts = {W.rules[r].left : r \in 1..(n - 1)}  BY <2>1
  <2> QED BY <1>1, <1>2, <2>2 DEF Metas
<1>6. \A X : X # NEW_ROOT => Opening(X) = Opens(W, D, X)
  <2>1. T.first = D  BY DEF IsParts
  <2> QED BY <1>5, <2>1 DEF Opens
<1>7. ASSUME NEW r \in DOMAIN T.rules, NEW left, left = T.rules[r].left, NEW right, right = T.rules[r].right
      PROVE  /\ \A i \in T.states :
                   /\ <<i, left>> \in DOMAIN T.goto => <<r, 0>> \in T.items[i]
                   /\ \A k \in 1..Len(right) :
                         <<r, k - 1>> \in T.items[i] =>
                             /\ <<i, right[k]>> \in DOMAIN T.goto
                             /\ <<r, k>> \in T.items[T.goto[<<i, right[k]>>]]
                   /\ <<r, Len(right)>> \in T.items[i] =>
                         \A X \in T.follow[left] : r \in T.reduce[<<i, X>>]
             /\ Opening(right[1]) \subseteq T.first[left]
             /\ \A k \in 1..(Len(right) - 1) : Opening(right[k + 1]) \subseteq T.follow[right[k]]
             /\ right[Len(right)] \notin Parser!Readings(T) =>
                   T.follow[left] \subseteq T.follow[right[Len(right)]]
  <2>1. /\ r \in 1..(n - 1) /\ left = W.rules[r].left /\ right = W.rules[r].right
        /\ T.states = 1..h /\ T.items = S /\ DOMAIN T.goto = DOMAIN g /\ T.first = D /\ T.follow = F
        /\ T.symbols = W.symbols
    BY <1>7 DEF IsParts
  <2>2. r \in 1..n /\ IsRight(right, Range(W.symbols)) /\ left \in Range(W.symbols)  BY <1>1, <1>2, <2>1
  <2>3. PICK m : m = Len(right)  OBVIOUS
  <2>4. m \in Nat \ {0} /\ \A k \in 1..m : right[k] \in Range(W.symbols) /\ right[k] # NEW_ROOT
    BY <1>1, <2>1, <2>2, <2>3 DEF IsRight
  <2>5. 1 \in 1..m /\ m \in 1..m /\ \A k \in 1..(m - 1) : k + 1 \in 1..m  BY <2>4
  <2>6. ASSUME NEW i \in 1..h, <<i, left>> \in DOMAIN g PROVE <<r, 0>> \in S[i]
    BY <2>1, <2>6 DEF IsLinked
  <2>7. ASSUME NEW i \in 1..h, NEW k \in 1..m, <<r, k - 1>> \in S[i]
        PROVE  <<i, right[k]>> \in DOMAIN g /\ <<r, k>> \in S[T.goto[<<i, right[k]>>]]
    <3>1. <<i, right[k]>> \in DOMAIN g  BY <2>1, <2>3, <2>7 DEF IsLinked
    <3>2. PICK p : p = <<i, right[k]>>  OBVIOUS
    <3>3. p \in DOMAIN g /\ p[1] = i /\ p[2] = right[k] /\ k \in 1..Len(W.rules[r].right)
      BY <2>1, <2>3, <2>7, <3>1, <3>2
    <3>4. <<r, k>> \in S[g[p]] <=> <<r, k - 1>> \in S[p[1]] /\ W.rules[r].right[k] = p[2]
      <4>1. /\ \A u \in DOMAIN g : g[p] = g[u] => p[2] = u[2]
            /\ \A q \in 1..n : \A l \in 1..Len(W.rules[q].right) :
                  <<q, l>> \in S[g[p]] <=> <<q, l - 1>> \in S[p[1]] /\ W.rules[q].right[l] = p[2]
        BY <3>3, LinkedMoves
      <4> QED BY <2>2, <3>3, <4>1
    <3>5. T.goto[p] = g[p]  BY <3>3 DEF IsParts
    <3> QED BY <2>1, <2>7, <3>1, <3>2, <3>3, <3>4, <3>5
  <2>8. ASSUME NEW i \in 1..h, <<r, m>> \in S[i], NEW X \in F[left] PROVE r \in T.reduce[<<i, X>>]
    <3>1. X \in Range(W.symbols)  BY <2>2, <2>8 DEF Families
    <3> QED BY <2>1, <2>3, <2>8, <3>1 DEF IsParts
  <2>9. Opening(right[1]) \subseteq D[left]
    <3>1. Opens(W, D, right[1]) \subseteq D[left]  BY <2>1, <2>2 DEF FirstClosed
    <3> QED BY <1>6, <2>4, <2>5, <3>1
  <2>10. FollowsRule(W, D, F, W.rules[r])  BY <2>2 DEF FollowClosed
  <2>11. ASSUME NEW k \in 1..(m - 1) PROVE Opening(right[k + 1]) \subseteq F[right[k]]
    <3>1. Opens(W, D, right[k + 1]) \subseteq F[right[k]]  BY <2>1, <2>3, <2>10, <2>11 DEF FollowsRule
    <3>2. right[k + 1] # NEW_ROOT  BY <2>4, <2>5, <2>11
    <3> QED BY <1>6, <3>1, <3>2
  <2>12. ASSUME right[m] \notin Parser!Readings(T) PROVE F[left] \subseteq F[right[m]]
    <3>1. right[m] \in Range(W.symbols) /\ right[m] # NEW_ROOT  BY <2>4, <2>5
    <3>2. Parser!Readings(T) = Range(W.symbols) \ Lefts  BY <2>1 DEF Parser!Readings, Range
    <3>3. right[m] \in Metas(W)  BY <1>5, <2>12, <3>1, <3>2
    <3> QED BY <2>1, <2>3, <2>10, <3>3 DEF FollowsRule
  <2> HIDE DEF Opening
  <2> QED BY ONLY <2>1, <2>3, <2>6, <2>7, <2>8, <2>9, <2>11, <2>12
<1> QED BY ONLY <1>3, <1>4, <1>7 DEF Parser!IsComplete, Opening, Lefts

LEMMA DoneIsLinked ==
    ASSUME Inv, stage = "done", NEW h, h = Len(sets), NEW n, n = Len(grammar.rules)
    PROVE  /\ IsLinked(grammar, sets, goto, h, n)
           /\ first \in Families(grammar) /\ follow \in Families(grammar)
           /\ FirstClosed(grammar, n, first) /\ FollowClosed(grammar, n, first, follow)
<1>1. PICK W, S, g : W = grammar /\ S = sets /\ g = goto  OBVIOUS
<1>2. IsWork(W) /\ IsCollection(W, S, g) /\ LinesDone(W, S, g, Len(S)) /\ h = Len(S) /\ n = Len(W.rules)
  BY <1>1 DEF Inv, SetsInv, GrammarInv, Late, After, ItemInv
<1>3. IsLinked(W, S, g, h, n)  BY ONLY <1>2, Linked
<1>4. stage \in Late /\ stage \in Late \ {"first"} /\ stage # "first" /\ stage # "follow"  BY DEF Late, After
<1>5. /\ first \in Families(grammar) /\ follow \in Families(grammar)
      /\ FirstClosed(grammar, n, first) /\ FollowClosed(grammar, n, first, follow)
  BY <1>4 DEF Inv, SetsInv, FirstInv, FollowInv
<1> QED BY <1>1, <1>3, <1>5

\* Every table that the compiler builds has what the parser takes for granted
\* (CreateOrReuseNode, glr.cpp:253; ReduceOnePath, glr.cpp:718) and what it needs
\* to miss nothing: what GLRParser assumes of its tables.
THEOREM TableIsFitAlways == Spec => []TableIsFit
<1>1. Inv => TableIsFit
  <2> SUFFICES ASSUME Inv, stage = "done" PROVE Parser!IsTable(Table) /\ Parser!IsComplete(Table)
    BY DEF TableIsFit
  <2>1. PICK W, S, g, D, F, C, h, n, T :
           /\ W = grammar /\ S = sets /\ g = goto /\ D = first /\ F = follow /\ C = compact
           /\ h = Len(sets) /\ n = Len(grammar.rules) /\ T = Table
    OBVIOUS
  <2>2. IsWork(W) /\ IsTableOfSets(W, S, g, F, C)  BY <2>1, DoneIsRead
  <2>3. /\ IsLinked(W, S, g, h, n) /\ D \in Families(W) /\ F \in Families(W)
        /\ FirstClosed(W, n, D) /\ FollowClosed(W, n, D, F)
    BY <2>1, DoneIsLinked
  <2>4. h = Len(S) /\ n = Len(W.rules) /\ T = TableOf(W, S, D, F, C)  BY <2>1 DEF Table
  <2>5. IsParts(W, S, g, D, F, h, n, T)  BY ONLY <2>2, <2>3, <2>4, TableParts
  <2>6. Parser!IsTable(T)  BY ONLY <2>2, <2>3, <2>4, <2>5, PartsAreTable
  <2>7. Parser!IsComplete(T)  BY ONLY <2>2, <2>3, <2>4, <2>5, PartsAreComplete
  <2> QED BY <2>1, <2>6, <2>7
<1> QED BY <1>1, InvAlways, PTL

-----------------------------------------------------------------------------
(* Walks through the table                                                 *)

\* The states w of a walk from i over symbols.
IsWalk(i, symbols, m, w) ==
    /\ w[0] = i
    /\ \A k \in 1..m : w[k] = IF w[k - 1] = NoLine THEN NoLine ELSE Goto(w[k - 1], symbols[k])

LEMMA WalkExists ==
    ASSUME NEW i, NEW symbols, NEW n \in Nat
    PROVE  \E w : IsWalk(i, symbols, n, w)
<1> DEFINE S == {m \in Nat : \E w : IsWalk(i, symbols, m, w)}
<1>1. 0 \in S
  <2>1. PICK w : w = [k \in {0} |-> i]  OBVIOUS
  <2>2. IsWalk(i, symbols, 0, w)  BY <2>1 DEF IsWalk
  <2> QED BY <2>2
<1>2. ASSUME NEW m \in Nat, m \in S PROVE m + 1 \in S
  <2>1. PICK w : IsWalk(i, symbols, m, w)  BY <1>2
  <2>2. PICK v : v = IF w[m] = NoLine THEN NoLine ELSE Goto(w[m], symbols[m + 1])  OBVIOUS
  <2>3. PICK u : u = [k \in 0..(m + 1) |-> IF k <= m THEN w[k] ELSE v]  OBVIOUS
  <2>4. u[0] = i  BY <1>2, <2>1, <2>3 DEF IsWalk
  <2>5. ASSUME NEW k \in 1..(m + 1)
        PROVE  u[k] = IF u[k - 1] = NoLine THEN NoLine ELSE Goto(u[k - 1], symbols[k])
    <3>1. k \in 0..(m + 1) /\ k - 1 \in 0..(m + 1) /\ k - 1 <= m  BY <1>2
    <3>2. u[k - 1] = w[k - 1]  BY <2>3, <3>1
    <3>3. CASE k <= m
      <4>1. k \in 1..m  BY <1>2, <3>3
      <4>2. u[k] = w[k]  BY <2>3, <3>1, <3>3
      <4> QED BY <2>1, <3>2, <4>1, <4>2 DEF IsWalk
    <3>4. CASE k = m + 1
      <4>1. ~(k <= m) /\ k - 1 = m  BY <1>2, <3>4
      <4>2. u[k] = v  BY <2>3, <3>1, <4>1
      <4> QED BY <2>2, <3>2, <3>4, <4>1, <4>2
    <3> QED BY <1>2, <3>3, <3>4
  <2>6. IsWalk(i, symbols, m + 1, u)  BY <2>4, <2>5 DEF IsWalk
  <2> QED BY <1>2, <2>6
<1>3. \A m \in Nat : m \in S
  <2> HIDE DEF S
  <2> QED BY <1>1, <1>2, NatUp
<1> QED BY <1>3

LEMMA WalkDef ==
    ASSUME NEW i, NEW symbols, NEW m \in Nat, m = Len(symbols)
    PROVE  \E w : IsWalk(i, symbols, m, w) /\ Walk(i, symbols) = w[m]
<1> DEFINE Step(f, n) == IF f[n - 1] = NoLine THEN NoLine ELSE Goto(f[n - 1], symbols[n])
           Body(f) == [n \in 0..m |-> IF n = 0 THEN i ELSE Step(f, n)]
           walk == CHOOSE f : f = Body(f)
<1>1. \E f : f = Body(f)
  <2>1. PICK w : IsWalk(i, symbols, m, w)  BY WalkExists
  <2>2. PICK u : u = [n \in 0..m |-> w[n]]  OBVIOUS
  <2>3. \A n \in 0..m : u[n] = IF n = 0 THEN i ELSE Step(u, n)
    <3> TAKE n \in 0..m
    <3>1. CASE n = 0  BY <2>1, <2>2, <3>1 DEF IsWalk
    <3>2. CASE n # 0
      <4>1. n \in 1..m /\ n - 1 \in 0..m  BY <3>2
      <4>2. u[n] = w[n] /\ u[n - 1] = w[n - 1]  BY <2>2, <4>1
      <4> QED BY <2>1, <3>2, <4>1, <4>2 DEF IsWalk
    <3> QED BY <3>1, <3>2
  <2>4. u = [n \in 0..m |-> u[n]]  BY <2>2
  <2>5. u = Body(u)  BY <2>3, <2>4
  <2> QED BY <2>5
<1>2. walk = Body(walk)
  <2> HIDE DEF Body
  <2> QED BY <1>1
<1>3. IsWalk(i, symbols, m, walk)
  <2> HIDE DEF walk
  <2>1. walk[0] = i  BY <1>2
  <2>2. ASSUME NEW k \in 1..m
        PROVE  walk[k] = IF walk[k - 1] = NoLine THEN NoLine ELSE Goto(walk[k - 1], symbols[k])
    <3>1. k \in 0..m /\ k # 0  OBVIOUS
    <3> QED BY <1>2, <3>1
  <2> QED BY <2>1, <2>2 DEF IsWalk
<1>4. Walk(i, symbols) = walk[m]  BY DEF Walk
<1> HIDE DEF walk
<1> QED BY <1>3, <1>4

\* What the cells of the table are, at the end.
IsRead(W, S, g, F, h, n) ==
    \A i \in 1..h : \A X \in Range(W.symbols) :
        /\ Goto(i, X) = IF <<i, X>> \in DOMAIN g THEN g[<<i, X>>] ELSE NoLine
        /\ \A r : r \in Reduce(i, X) <=>
              /\ r \in 1..(n - 1) /\ <<r, Len(W.rules[r].right)>> \in S[i]
              /\ X \in F[W.rules[r].left]

LEMMA DoneIsCells ==
    ASSUME Inv, stage = "done", NEW W, W = grammar, NEW S, S = sets, NEW g, g = goto, NEW F, F = follow,
           NEW h, h = Len(S), NEW n, n = Len(W.rules)
    PROVE  IsWork(W) /\ IsLinked(W, S, g, h, n) /\ IsRead(W, S, g, F, h, n) /\ F \in Families(W)
<1>1. PICK C : C = compact  OBVIOUS
<1>2. IsWork(W) /\ IsTableOfSets(W, S, g, F, C)  BY <1>1, DoneIsRead
<1>3. IsLinked(W, S, g, h, n) /\ F \in Families(W)  BY DoneIsLinked
<1>4. ASSUME NEW i \in 1..h, NEW X \in Range(W.symbols)
      PROVE  /\ Goto(i, X) = IF <<i, X>> \in DOMAIN g THEN g[<<i, X>>] ELSE NoLine
             /\ \A r : r \in Reduce(i, X) <=>
                   /\ r \in 1..(n - 1) /\ <<r, Len(W.rules[r].right)>> \in S[i]
                   /\ X \in F[W.rules[r].left]
  <2>1. PICK cell : cell = Cell(W, S, g, F, i, X)  OBVIOUS
  <2>2. PICK d \in DOMAIN W.symbols : W.symbols[d] = X  BY DEF Range
  <2>3. CellGoto(C, W.symbols, i, X) = cell.line /\ CellReduce(C, W.symbols, i, X) = cell.reduce
    BY <1>2, <2>1, <2>2 DEF IsTableOfSets
  <2>4. Goto(i, X) = cell.line /\ Reduce(i, X) = cell.reduce  BY <1>1, <2>3 DEF Goto, Reduce
  <2>5. IsCellOf(W, S, g, F, n, i, X, cell)  BY <1>2, <1>3, <2>1, CellOfSets
  <2> QED BY <2>4, <2>5 DEF IsCellOf
<1> QED BY <1>2, <1>3, <1>4 DEF IsRead

\* From an item a walk over the rest of the rule keeps to the item.
LEMMA WalkForward ==
    ASSUME NEW W, IsWork(W), NEW S, NEW g, NEW F, NEW h, NEW n, n = Len(W.rules),
           IsLinked(W, S, g, h, n), IsRead(W, S, g, F, h, n),
           NEW r \in 1..(n - 1), NEW right, right = W.rules[r].right, NEW m, m = Len(right),
           NEW s \in 1..h, <<r, 0>> \in S[s], NEW w, IsWalk(s, right, m, w)
    PROVE  w[m] \in 1..h /\ <<r, m>> \in S[w[m]]
<1>1. n \in Nat \ {0} /\ r \in 1..n /\ IsRight(right, Range(W.symbols))
  <2>1. n \in Nat \ {0}  BY DEF IsWork
  <2>2. r \in 1..n  BY <2>1
  <2> QED BY <2>1, <2>2 DEF IsWork
<1>2. m \in Nat /\ h \in Nat /\ \A k \in 1..m : right[k] \in Range(W.symbols)  BY <1>1 DEF IsRight, IsLinked
<1>6. IsLinked(W, S, g, h, n)  OBVIOUS
<1> DEFINE Q == {k \in Nat : k <= m => w[k] \in 1..h /\ <<r, k>> \in S[w[k]]}
<1>3. 0 \in Q  BY DEF IsWalk
<1>4. ASSUME NEW k \in Nat, k \in Q PROVE k + 1 \in Q
  <2> SUFFICES ASSUME k + 1 <= m PROVE w[k + 1] \in 1..h /\ <<r, k + 1>> \in S[w[k + 1]]  OBVIOUS
  <2>1. PICK l, X, i : l = k + 1 /\ X = right[k + 1] /\ i = w[k]  OBVIOUS
  <2>2. l \in 1..m /\ l - 1 = k /\ k <= m  BY <1>2, <2>1
  <2>3. i \in 1..h /\ <<r, k>> \in S[i]  BY <1>4, <2>1, <2>2
  <2>4. i # NoLine /\ X \in Range(W.symbols)  BY <1>2, <2>1, <2>2, <2>3 DEF NoLine
  <2>5. w[l] = Goto(i, X)  BY <2>1, <2>2, <2>4 DEF IsWalk
  <2>6. PICK p : p = <<i, X>>  OBVIOUS
  <2>7. p \in DOMAIN g
    <3>1. \A j \in 1..Len(W.rules[r].right) : <<r, j - 1>> \in S[i] => <<i, W.rules[r].right[j]>> \in DOMAIN g
      BY <2>3 DEF IsLinked
    <3> QED BY <2>1, <2>2, <2>3, <2>6, <3>1
  <2>8. w[l] = g[p]  BY <2>3, <2>4, <2>5, <2>6, <2>7 DEF IsRead
  <2>9. g[p] \in 2..h  BY <2>7 DEF IsLinked
  <2>10. g[p] \in 1..h  BY <1>2, <2>9
  <2>11. /\ \A u \in DOMAIN g : g[p] = g[u] => p[2] = u[2]
         /\ \A q \in 1..n : \A j \in 1..Len(W.rules[q].right) :
               <<q, j>> \in S[g[p]] <=> <<q, j - 1>> \in S[p[1]] /\ W.rules[q].right[j] = p[2]
    BY ONLY <1>6, <2>7, LinkedMoves
  <2>12. <<r, l>> \in S[g[p]]
    <3>1. p[1] = i /\ p[2] = X /\ l \in 1..Len(W.rules[r].right)  BY <2>2, <2>6
    <3> QED BY <1>1, <2>1, <2>2, <2>3, <2>11, <3>1
  <2> QED BY <2>1, <2>8, <2>10, <2>12
<1>5. \A k \in Nat : k \in Q
  <2> HIDE DEF Q
  <2> QED BY <1>3, <1>4, NatUp
<1> QED BY <1>2, <1>5

\* Going back from the end of a rule over any walk leads to its beginning.
LEMMA WalkBackward ==
    ASSUME NEW W, IsWork(W), NEW S, NEW g, NEW F, NEW h, NEW n, n = Len(W.rules),
           IsLinked(W, S, g, h, n), IsRead(W, S, g, F, h, n),
           NEW r \in 1..(n - 1), NEW right, right = W.rules[r].right, NEW m, m = Len(right),
           NEW s \in 1..h, NEW w, IsWalk(s, right, m, w), w[m] \in 1..h, <<r, m>> \in S[w[m]]
    PROVE  <<r, 0>> \in S[s]
<1>1. n \in Nat \ {0} /\ r \in 1..n /\ IsRight(right, Range(W.symbols))
  <2>1. n \in Nat \ {0}  BY DEF IsWork
  <2>2. r \in 1..n  BY <2>1
  <2> QED BY <2>1, <2>2 DEF IsWork
<1>2. m \in Nat /\ h \in Nat /\ \A k \in 1..m : right[k] \in Range(W.symbols)  BY <1>1 DEF IsRight, IsLinked
<1>3. IsLinked(W, S, g, h, n)  OBVIOUS
<1>4. ASSUME NEW l \in 1..m, w[l - 1] \in 1..h, w[l] # NoLine
      PROVE  <<w[l - 1], right[l]>> \in DOMAIN g /\ w[l] = g[<<w[l - 1], right[l]>>]
  <2>1. PICK i, X : i = w[l - 1] /\ X = right[l]  OBVIOUS
  <2>2. i \in 1..h /\ X \in Range(W.symbols) /\ i # NoLine  BY <1>2, <1>4, <2>1 DEF NoLine
  <2>3. w[l] = Goto(i, X)  BY <1>4, <2>1, <2>2 DEF IsWalk
  <2>4. Goto(i, X) = IF <<i, X>> \in DOMAIN g THEN g[<<i, X>>] ELSE NoLine  BY <2>2 DEF IsRead
  <2> QED BY <1>4, <2>1, <2>3, <2>4
<1>5. \A k \in Nat : k <= m => w[k] \in 1..h \/ w[k] = NoLine
  <2> DEFINE Q == {k \in Nat : k <= m => w[k] \in 1..h \/ w[k] = NoLine}
  <2>1. 0 \in Q  BY DEF IsWalk
  <2>2. ASSUME NEW k \in Nat, k \in Q PROVE k + 1 \in Q
    <3> SUFFICES ASSUME k + 1 <= m, w[k + 1] # NoLine PROVE w[k + 1] \in 1..h  OBVIOUS
    <3>1. PICK l : l = k + 1  OBVIOUS
    <3>2. l \in 1..m /\ l - 1 = k /\ k <= m  BY <1>2, <3>1
    <3>3. w[l - 1] # NoLine  BY <3>1, <3>2 DEF IsWalk
    <3>4. w[l - 1] \in 1..h  BY <2>2, <3>2, <3>3
    <3>5. PICK p : p = <<w[l - 1], right[l]>>  OBVIOUS
    <3>6. p \in DOMAIN g /\ w[l] = g[p]  BY <1>4, <3>1, <3>2, <3>4, <3>5
    <3>7. g[p] \in 2..h  BY <3>6 DEF IsLinked
    <3> QED BY <1>2, <3>1, <3>6, <3>7
  <2>3. \A k \in Nat : k \in Q
    <3> HIDE DEF Q
    <3> QED BY <2>1, <2>2, NatUp
  <2> QED BY <2>3
<1> DEFINE D == {k \in Nat : k <= m => w[m - k] \in 1..h /\ <<r, m - k>> \in S[w[m - k]]}
<1>6. 0 \in D
  <2>1. m - 0 = m  BY <1>2
  <2> QED BY <2>1
<1>7. ASSUME NEW k \in Nat, k \in D PROVE k + 1 \in D
  <2>12. k + 1 \in Nat  OBVIOUS
  <2> SUFFICES ASSUME k + 1 <= m
               PROVE  w[m - (k + 1)] \in 1..h /\ <<r, m - (k + 1)>> \in S[w[m - (k + 1)]]
    BY <2>12
  <2>1. PICK l : l = m - k  OBVIOUS
  <2>2. l \in 1..m /\ l - 1 = m - (k + 1) /\ l - 1 \in Nat /\ l - 1 <= m /\ k <= m
    <3>1. k \in Nat /\ m \in Nat /\ k + 1 <= m  BY <1>2
    <3> QED BY ONLY <2>1, <3>1
  <2>3. w[l] \in 1..h /\ <<r, l>> \in S[w[l]]  BY <1>7, <2>1, <2>2
  <2>4. w[l] # NoLine  BY <2>3 DEF NoLine
  <2>5. w[l - 1] # NoLine  BY <2>2, <2>4 DEF IsWalk
  <2>6. w[l - 1] \in 1..h  BY <1>5, <2>2, <2>5
  <2>7. PICK p : p = <<w[l - 1], right[l]>>  OBVIOUS
  <2>8. p \in DOMAIN g /\ w[l] = g[p]  BY <1>4, <2>2, <2>4, <2>6, <2>7
  <2>9. /\ \A u \in DOMAIN g : g[p] = g[u] => p[2] = u[2]
        /\ \A q \in 1..n : \A j \in 1..Len(W.rules[q].right) :
              <<q, j>> \in S[g[p]] <=> <<q, j - 1>> \in S[p[1]] /\ W.rules[q].right[j] = p[2]
    BY ONLY <1>3, <2>8, LinkedMoves
  <2>10. p[1] = w[l - 1] /\ l \in 1..Len(W.rules[r].right)  BY <2>2, <2>7
  <2>11. <<r, l - 1>> \in S[w[l - 1]]  BY <1>1, <2>3, <2>8, <2>9, <2>10
  <2> QED BY <2>2, <2>6, <2>11
<1>8. \A k \in Nat : k \in D
  <2> HIDE DEF D
  <2> QED BY <1>6, <1>7, NatUp
<1>9. m - m = 0 /\ m <= m  BY <1>2
<1>10. <<r, 0>> \in S[w[0]]  BY <1>2, <1>8, <1>9
<1> QED BY <1>10 DEF IsWalk

\* The states q on a way from place l of a rule to its end in state i.
IsWay(S, g, h, r, right, m, i, l, q) ==
    /\ q[m] = i
    /\ \A j \in l..m : q[j] \in 1..h /\ <<r, j>> \in S[q[j]]
    /\ \A j \in (l + 1)..m : <<q[j - 1], right[j]>> \in DOMAIN g /\ g[<<q[j - 1], right[j]>>] = q[j]

LEMMA WayBack ==
    ASSUME NEW W, IsWork(W), NEW S, NEW g, NEW h, NEW n, n = Len(W.rules), IsLinked(W, S, g, h, n),
           NEW r \in 1..n, NEW right, right = W.rules[r].right, NEW m, m = Len(right),
           NEW i, NEW l \in 1..m, NEW q, IsWay(S, g, h, r, right, m, i, l, q)
    PROVE  \E u : IsWay(S, g, h, r, right, m, i, l - 1, u)
<1>1. IsRight(right, Range(W.symbols))  BY DEF IsWork
<1>2. m \in Nat /\ h \in Nat  BY <1>1 DEF IsRight, IsLinked
<1>3. l \in l..m /\ m \in l..m /\ l - 1 \in (l - 1)..m /\ m \in (l - 1)..m /\ m # l - 1  BY <1>2
<1>4. q[l] \in 1..h /\ <<r, l>> \in S[q[l]]  BY <1>3 DEF IsWay
<1>5. q[l] # 1
  <2>1. <<r, l>> \notin S[1]  BY DEF IsLinked
  <2> QED BY <1>4, <2>1
<1>6. q[l] \in 2..h  BY <1>2, <1>4, <1>5
<1>7. PICK p \in DOMAIN g : g[p] = q[l]  BY <1>6 DEF IsLinked
<1>8. p \in (1..h) \X Range(W.symbols)  BY <1>7 DEF IsLinked
<1>9. IsLinked(W, S, g, h, n)  OBVIOUS
<1>10. /\ \A u \in DOMAIN g : g[p] = g[u] => p[2] = u[2]
       /\ \A t \in 1..n : \A j \in 1..Len(W.rules[t].right) :
             <<t, j>> \in S[g[p]] <=> <<t, j - 1>> \in S[p[1]] /\ W.rules[t].right[j] = p[2]
  BY ONLY <1>7, <1>9, LinkedMoves
<1>11. <<r, l - 1>> \in S[p[1]] /\ right[l] = p[2]
  <2>1. l \in 1..Len(W.rules[r].right)  OBVIOUS
  <2> QED BY <1>4, <1>7, <1>10, <2>1
<1>12. PICK a : a = p[1]  OBVIOUS
<1>13. a \in 1..h /\ p = <<a, right[l]>>  BY <1>8, <1>11, <1>12
<1>14. PICK u : u = [j \in (l - 1)..m |-> IF j = l - 1 THEN a ELSE q[j]]  OBVIOUS
<1>15. u[l - 1] = a /\ \A j \in l..m : u[j] = q[j]
  <2>1. \A j \in l..m : j \in (l - 1)..m /\ j # l - 1  BY <1>2
  <2> QED BY <1>3, <1>14, <2>1
<1>16. u[m] = i  BY <1>3, <1>15 DEF IsWay
<1>17. ASSUME NEW j \in (l - 1)..m PROVE u[j] \in 1..h /\ <<r, j>> \in S[u[j]]
  <2>1. j = l - 1 \/ j \in l..m  BY <1>2
  <2>2. CASE j = l - 1  BY <1>11, <1>12, <1>13, <1>15, <2>2
  <2>3. CASE j \in l..m  BY <1>15, <2>3 DEF IsWay
  <2> QED BY <2>1, <2>2, <2>3
<1>18. ASSUME NEW j \in ((l - 1) + 1)..m
       PROVE  <<u[j - 1], right[j]>> \in DOMAIN g /\ g[<<u[j - 1], right[j]>>] = u[j]
  <2>1. j = l \/ j \in (l + 1)..m  BY <1>2
  <2>2. CASE j = l  BY <1>3, <1>7, <1>13, <1>15, <2>2
  <2>3. CASE j \in (l + 1)..m
    <3>1. j \in l..m /\ j - 1 \in l..m  BY <1>2, <2>3
    <3>2. u[j] = q[j] /\ u[j - 1] = q[j - 1]  BY <1>15, <3>1
    <3> QED BY <2>3, <3>2 DEF IsWay
  <2> QED BY <2>1, <2>2, <2>3
<1>19. IsWay(S, g, h, r, right, m, i, l - 1, u)  BY <1>16, <1>17, <1>18 DEF IsWay
<1> QED BY <1>19

\* A state that has read a rule to the end was reached over it.
LEMMA WayFound ==
    ASSUME NEW W, IsWork(W), NEW S, NEW g, NEW h, NEW n, n = Len(W.rules), IsLinked(W, S, g, h, n),
           NEW r \in 1..n, NEW right, right = W.rules[r].right, NEW m, m = Len(right),
           NEW i \in 1..h, <<r, m>> \in S[i]
    PROVE  \E q : IsWay(S, g, h, r, right, m, i, 0, q)
<1>1. IsRight(right, Range(W.symbols))  BY DEF IsWork
<1>2. m \in Nat /\ h \in Nat  BY <1>1 DEF IsRight, IsLinked
<1> DEFINE D == {k \in Nat : k <= m => \E q : IsWay(S, g, h, r, right, m, i, m - k, q)}
<1>3. 0 \in D
  <2>1. PICK q : q = [j \in {m} |-> i]  OBVIOUS
  <2>2. q[m] = i /\ m - 0 = m /\ m..m = {m} /\ (m + 1)..m = {}  BY <1>2, <2>1
  <2>3. IsWay(S, g, h, r, right, m, i, m, q)  BY <2>2 DEF IsWay
  <2> QED BY <2>2, <2>3
<1>4. ASSUME NEW k \in Nat, k \in D PROVE k + 1 \in D
  <2> SUFFICES ASSUME k + 1 <= m PROVE \E q : IsWay(S, g, h, r, right, m, i, m - (k + 1), q)  OBVIOUS
  <2>1. PICK l : l = m - k  OBVIOUS
  <2>2. l \in 1..m /\ l - 1 = m - (k + 1) /\ k <= m  BY <1>2, <2>1
  <2>3. PICK q : IsWay(S, g, h, r, right, m, i, l, q)  BY <1>4, <2>1, <2>2
  <2>4. \E u : IsWay(S, g, h, r, right, m, i, l - 1, u)  BY <2>2, <2>3, WayBack
  <2> QED BY <2>2, <2>4
<1>5. \A k \in Nat : k \in D
  <2> HIDE DEF D
  <2> QED BY <1>3, <1>4, NatUp
<1>6. m - m = 0 /\ m <= m  BY <1>2
<1> QED BY <1>2, <1>5, <1>6

\* A way is what a walk from its beginning follows.
Ends(w, m, i) == w[m] = i

LEMMA WayIsWalked ==
    ASSUME NEW W, NEW S, NEW g, NEW F, NEW h, NEW n, IsRead(W, S, g, F, h, n),
           NEW r, NEW right, NEW m, IsRight(right, Range(W.symbols)), m = Len(right),
           NEW i, NEW q, IsWay(S, g, h, r, right, m, i, 0, q),
           NEW s, s = q[0], NEW w, IsWalk(s, right, m, w)
    PROVE  Ends(w, m, i)
<1>2. m \in Nat /\ \A k \in 1..m : right[k] \in Range(W.symbols)  BY DEF IsRight
<1> DEFINE Q == {k \in Nat : k <= m => w[k] = q[k]}
<1>3. 0 \in Q  BY DEF IsWalk
<1>4. ASSUME NEW k \in Nat, k \in Q PROVE k + 1 \in Q
  <2> SUFFICES ASSUME k + 1 <= m PROVE w[k + 1] = q[k + 1]  OBVIOUS
  <2>1. PICK l, a, X : l = k + 1 /\ a = q[k] /\ X = right[k + 1]  OBVIOUS
  <2>2. l \in 1..m /\ l \in (0 + 1)..m /\ l - 1 = k /\ k <= m /\ k \in 0..m  BY <1>2, <2>1
  <2>3. w[k] = a /\ a \in 1..h  BY <1>4, <2>1, <2>2 DEF IsWay
  <2>4. <<a, X>> \in DOMAIN g /\ g[<<a, X>>] = q[l]  BY <2>1, <2>2 DEF IsWay
  <2>5. a # NoLine /\ X \in Range(W.symbols)  BY <1>2, <2>1, <2>2, <2>3 DEF NoLine
  <2>6. w[l] = Goto(a, X)  BY <2>1, <2>2, <2>3, <2>5 DEF IsWalk
  <2>7. Goto(a, X) = g[<<a, X>>]  BY <2>3, <2>4, <2>5 DEF IsRead
  <2> QED BY <2>1, <2>4, <2>6, <2>7
<1>5. \A k \in Nat : k \in Q
  <2> HIDE DEF Q
  <2> QED BY <1>3, <1>4, NatUp
<1>6. w[m] = q[m]
  <2>1. m <= m  BY <1>2
  <2> QED BY <1>2, <1>5, <2>1
<1> QED BY <1>6 DEF IsWay, Ends

-----------------------------------------------------------------------------
(* The parser's moves in the table                                         *)

\* Every reduction of every compiled table returns: the assertion hasGotoLine of
\* ReduceOnePath (glr.cpp:718) cannot fail.
THEOREM ReductionsReturnAlways == Spec => []ReductionsReturn
<1>1. Inv => ReductionsReturn
  <2> SUFFICES ASSUME Inv, stage = "done",
                      NEW i \in States, NEW t \in Terminals(grammar), NEW r \in Reduce(i, t)
               PROVE  /\ \E s \in States : Walk(s, grammar.rules[r].right) = i
                      /\ \A s \in States : Walk(s, grammar.rules[r].right) = i =>
                            Goto(s, grammar.rules[r].left) # NoLine
    BY DEF ReductionsReturn
  <2>1. PICK W, S, g, F, h, n : /\ W = grammar /\ S = sets /\ g = goto /\ F = follow
                                /\ h = Len(sets) /\ n = Len(grammar.rules)
    OBVIOUS
  <2>2. IsWork(W) /\ IsLinked(W, S, g, h, n) /\ IsRead(W, S, g, F, h, n) /\ F \in Families(W)
    BY <2>1, DoneIsCells
  <2>3. States = 1..h /\ i \in 1..h /\ h \in Nat  BY <2>1, <2>2 DEF States, IsLinked
  <2>4. t \in Range(W.symbols)  BY <2>1 DEF Terminals
  <2>5. r \in 1..(n - 1) /\ <<r, Len(W.rules[r].right)>> \in S[i]  BY <2>2, <2>3, <2>4 DEF IsRead
  <2>6. PICK right, m : right = W.rules[r].right /\ m = Len(W.rules[r].right)  OBVIOUS
  <2>7. n = Len(W.rules) /\ n \in Nat \ {0} /\ r \in 1..n /\ m = Len(right) /\ <<r, m>> \in S[i]
    <3>1. n = Len(W.rules) /\ n \in Nat \ {0}  BY <2>1, <2>2 DEF IsWork
    <3>2. r \in 1..n  BY <2>5, <3>1
    <3> QED BY <2>5, <2>6, <3>1, <3>2
  <2>8. m \in Nat /\ W.rules[r].left \in Range(W.symbols)  BY <2>2, <2>6, <2>7 DEF IsWork, IsRight
  <2>9. \E s \in 1..h : Walk(s, right) = i
    <3>1. PICK q : IsWay(S, g, h, r, right, m, i, 0, q)
      BY <2>2, <2>3, <2>6, <2>7, WayFound
    <3>2. q[0] \in 1..h
      <4>1. 0 \in 0..m  BY <2>8
      <4> QED BY <3>1, <4>1 DEF IsWay
    <3>5. PICK s : s = q[0]  OBVIOUS
    <3>3. PICK w : IsWalk(s, right, m, w) /\ Walk(s, right) = w[m]  BY <2>7, <2>8, WalkDef
    <3>4. w[m] = i
      <4>1. IsRight(right, Range(W.symbols)) /\ m = Len(right)  BY <2>2, <2>6, <2>7 DEF IsWork
      <4>2. IsRead(W, S, g, F, h, n) /\ IsWalk(s, right, m, w)  BY <2>2, <3>3
      <4>3. Ends(w, m, i)  BY ONLY <3>1, <3>5, <4>1, <4>2, WayIsWalked
      <4> QED BY <4>3 DEF Ends
    <3> QED BY <3>2, <3>3, <3>4, <3>5
  <2>10. ASSUME NEW s \in 1..h, Walk(s, right) = i PROVE Goto(s, W.rules[r].left) # NoLine
    <3>1. PICK w : IsWalk(s, right, m, w) /\ Walk(s, right) = w[m]  BY <2>7, <2>8, WalkDef
    <3>2. w[m] \in 1..h /\ <<r, m>> \in S[w[m]]  BY <2>3, <2>7, <2>10, <3>1
    <3>3. <<r, 0>> \in S[s]  BY <2>2, <2>5, <2>6, <2>7, <3>1, <3>2, WalkBackward
    <3>4. PICK p : p = <<s, W.rules[r].left>>  OBVIOUS
    <3>5. p \in DOMAIN g  BY <2>2, <2>5, <3>3, <3>4 DEF IsLinked
    <3>6. g[p] \in 2..h  BY <2>2, <3>5 DEF IsLinked
    <3>7. Goto(s, W.rules[r].left) = g[p]  BY <2>2, <2>8, <3>4, <3>5 DEF IsRead
    <3> QED BY <2>3, <3>6, <3>7 DEF NoLine
  <2> QED BY <2>1, <2>3, <2>6, <2>9, <2>10
<1> QED BY <1>1, InvAlways, PTL

\* Every compiled table recognises every rule wherever its left part may stand.
THEOREM RulesAreRecognisedAlways == Spec => []RulesAreRecognised
<1>1. Inv => RulesAreRecognised
  <2> SUFFICES ASSUME Inv, stage = "done"
               PROVE  /\ Goto(1, grammar.root) # NoLine
                      /\ \A s \in States, r \in DOMAIN grammar.rules :
                            Goto(s, grammar.rules[r].left) # NoLine =>
                                /\ Walk(s, grammar.rules[r].right) # NoLine
                                /\ \A t \in follow[grammar.rules[r].left] :
                                      r \in Reduce(Walk(s, grammar.rules[r].right), t)
    BY DEF RulesAreRecognised
  <2>1. PICK W, S, g, F, h, n : /\ W = grammar /\ S = sets /\ g = goto /\ F = follow
                                /\ h = Len(sets) /\ n = Len(grammar.rules)
    OBVIOUS
  <2>2. IsWork(W) /\ IsLinked(W, S, g, h, n) /\ IsRead(W, S, g, F, h, n) /\ F \in Families(W)
    BY <2>1, DoneIsCells
  <2>3. States = 1..h /\ h \in Nat \ {0}  BY <2>1, <2>2 DEF States, IsLinked
  <2>4. /\ n = Len(W.rules) /\ n \in Nat \ {0} /\ DOMAIN W.rules = 1..n /\ W.rules[n].left = NEW_ROOT
        /\ \A r \in 1..n : W.rules[r].left \in Range(W.symbols) /\ IsRight(W.rules[r].right, Range(W.symbols))
    BY <2>1, <2>2 DEF IsWork
  <2>5. \A p \in DOMAIN g : p \in (1..h) \X Range(W.symbols) /\ g[p] \in 2..h /\ p[2] # NEW_ROOT
    BY <2>2 DEF IsLinked
  <2>6. Goto(1, W.root) # NoLine
    <3>1. PICK p : p = <<1, W.root>>  OBVIOUS
    <3>2. p \in DOMAIN g  BY <2>2, <3>1 DEF IsLinked
    <3>3. W.root \in Range(W.symbols) /\ g[p] \in 2..h /\ 1 \in 1..h  BY <2>3, <2>5, <3>1, <3>2
    <3>4. Goto(1, W.root) = g[p]  BY <2>2, <3>1, <3>2, <3>3 DEF IsRead
    <3> QED BY <2>3, <3>3, <3>4 DEF NoLine
  <2>7. ASSUME NEW s \in 1..h, NEW r \in 1..n, Goto(s, W.rules[r].left) # NoLine,
               NEW end, end = Walk(s, W.rules[r].right)
        PROVE  end # NoLine /\ \A t \in F[W.rules[r].left] : r \in Reduce(end, t)
    <3>1. PICK X, right, m : X = W.rules[r].left /\ right = W.rules[r].right /\ m = Len(right)  OBVIOUS
    <3>2. X \in Range(W.symbols) /\ m \in Nat  BY <2>4, <3>1 DEF IsRight
    <3>3. <<s, X>> \in DOMAIN g  BY <2>2, <2>7, <3>1, <3>2 DEF IsRead
    <3>4. r \in 1..(n - 1)
      <4>1. X # NEW_ROOT  BY <2>5, <3>3
      <4>2. r # n  BY <2>4, <3>1, <4>1
      <4> QED BY <2>4, <4>2
    <3>5. <<r, 0>> \in S[s]  BY <2>2, <3>1, <3>3, <3>4 DEF IsLinked
    <3>6. PICK w : IsWalk(s, right, m, w) /\ Walk(s, right) = w[m]  BY <3>1, <3>2, WalkDef
    <3>7. w[m] \in 1..h /\ <<r, m>> \in S[w[m]]
      BY <2>2, <2>4, <3>1, <3>4, <3>5, <3>6, WalkForward
    <3>8. end = w[m] /\ end # NoLine  BY <2>3, <2>7, <3>1, <3>6, <3>7 DEF NoLine
    <3>9. ASSUME NEW t \in F[X] PROVE r \in Reduce(end, t)
      <4>1. t \in Range(W.symbols)  BY <2>2, <3>2 DEF Families
      <4> QED BY <2>2, <3>1, <3>4, <3>7, <3>8, <4>1 DEF IsRead
    <3> QED BY <3>1, <3>8, <3>9
  <2> QED BY <2>1, <2>3, <2>4, <2>6, <2>7
<1> QED BY <1>1, InvAlways, PTL
=============================================================================
