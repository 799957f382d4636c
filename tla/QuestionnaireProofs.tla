------------------------- MODULE QuestionnaireProofs -------------------------
(***************************************************************************)
(* What Questionnaire accepts and stores, for any surveys and answers: the *)
(* rules, then the rows, handler by handler.                               *)
(***************************************************************************)
EXTENDS Questionnaire, TLAPS, FiniteSetTheorems, SequenceTheorems

-----------------------------------------------------------------------------
\* Folds over a list.

\* The least number principle, which stands in for induction below.
LEMMA LeastNumber ==
  ASSUME NEW T \in SUBSET Nat, T # {}
  PROVE  \E m \in T : \A k \in T : m <= k
<1> DEFINE Less == OpToRel(<, Nat)
<1>1. IsWellFoundedOn(Less, Nat)
  BY NatLessThanWellFounded
<1> HIDE DEF Less
<1>2. PICK m \in T : \A k \in T : <<k, m>> \notin Less
  BY <1>1, WFMin
<1>3. \A k \in T : ~(k < m)
  BY <1>2 DEF Less, OpToRel
<1>4. QED
  BY <1>3

\* A set of positions has a last one.
LEMMA MaxOfPositions ==
  ASSUME NEW n \in Nat, NEW S \in SUBSET (1..n), S # {}
  PROVE  Max(S) \in S
<1> DEFINE Above == {m \in Nat : \A y \in S : y <= m}
<1>1. n \in Above
  OBVIOUS
<1>2. PICK m \in Above : \A k \in Above : m <= k
  BY <1>1, LeastNumber
<1>3. m \in S
  <2>1. PICK y \in S : TRUE
    OBVIOUS
  <2>2. SUFFICES ASSUME m \notin S PROVE FALSE
    OBVIOUS
  <2>3. m \in Nat /\ y \in Nat /\ 1 <= y /\ y <= m
    OBVIOUS
  <2>4. \A x \in S : x \in Nat /\ x <= m /\ x # m
    BY <2>2
  <2>5. \A x \in S : x <= m - 1
    BY <2>3, <2>4
  <2>6. m - 1 \in Nat
    BY <2>3
  <2>7. m - 1 \in Above
    BY <2>5, <2>6
  <2>8. QED
    BY <1>2, <2>3, <2>7
<1>4. \E x \in S : \A y \in S : x >= y
  BY <1>3
<1>5. QED
  BY <1>4 DEF Max

-----------------------------------------------------------------------------
\* Lists.

IsList(s) == s \in Seq(ToSet(s))

LEMMA ListOfLength ==
  ASSUME NEW n \in Nat, NEW s, s = [i \in 1..n |-> s[i]]
  PROVE  IsList(s) /\ Len(s) = n /\ DOMAIN s = 1..n
<1>1. DOMAIN s = 1..n /\ \A i \in 1..n : s[i] \in ToSet(s)
  BY DEF ToSet
<1>2. [i \in 1..n |-> s[i]] \in [1..n -> ToSet(s)]
  BY <1>1
<1>3. s \in [1..n -> ToSet(s)]
  BY <1>2
<1>4. s \in Seq(ToSet(s)) /\ Len(s) = n
  BY <1>1, <1>3
<1>5. QED
  BY <1>1, <1>4 DEF IsList

LEMMA ListIs ==
  ASSUME NEW s, IsList(s)
  PROVE  Len(s) \in Nat /\ DOMAIN s = 1..Len(s) /\ s = [i \in 1..Len(s) |-> s[i]]
BY LenProperties DEF IsList

LEMMA ListIn ==
  ASSUME NEW X, NEW s \in Seq(X) PROVE IsList(s)
<1>1. Len(s) \in Nat /\ s \in [1..Len(s) -> X]
  BY LenProperties
<1>2. s = [i \in 1..Len(s) |-> s[i]]
  BY <1>1
<1>3. QED
  BY <1>1, <1>2, ListOfLength

LEMMA ShortLists ==
  /\ IsList(<<>>) /\ Len(<<>>) = 0
  /\ \A x : IsList(<<x>>) /\ Len(<<x>>) = 1 /\ <<x>>[1] = x
  /\ \A x, y : /\ IsList(<<x>> \o <<y>>) /\ Len(<<x>> \o <<y>>) = 2
              /\ (<<x>> \o <<y>>)[1] = x /\ (<<x>> \o <<y>>)[2] = y
  /\ \A x : <<x>> \o <<>> = <<x>>
  /\ <<>> \o <<>> = <<>>
<1>1. <<>> \in Seq({})
  OBVIOUS
<1>2. \A x : <<x>> \in Seq({x}) /\ Len(<<x>>) = 1 /\ <<x>>[1] = x
  OBVIOUS
<1>3. ASSUME NEW x, NEW y
      PROVE  /\ IsList(<<x>> \o <<y>>) /\ Len(<<x>> \o <<y>>) = 2
             /\ (<<x>> \o <<y>>)[1] = x /\ (<<x>> \o <<y>>)[2] = y
  <2>1. <<x>> \in Seq({x, y}) /\ <<y>> \in Seq({x, y})
    OBVIOUS
  <2>2. /\ <<x>> \o <<y>> \in Seq({x, y})
        /\ Len(<<x>> \o <<y>>) = 1 + 1
        /\ \A i \in 1..(1 + 1) :
             (<<x>> \o <<y>>)[i] = IF i <= 1 THEN <<x>>[i] ELSE <<y>>[i - 1]
    BY <1>2, <2>1, ConcatProperties
  <2>3. <<x>>[1] = x /\ <<y>>[1] = y
    OBVIOUS
  <2>4. IsList(<<x>> \o <<y>>)
    BY <2>2, ListIn
  <2> DEFINE xy == <<x>> \o <<y>>
  <2> HIDE DEF xy
  <2>5. xy[1] = <<x>>[1] /\ xy[2] = <<y>>[1] /\ Len(xy) = 2
    BY <2>2 DEF xy
  <2>6. QED
    BY <2>3, <2>4, <2>5 DEF xy
<1>4. \A x : <<x>> \o <<>> = <<x>>
  BY <1>2, ConcatEmptySeq
<1>5. QED
  BY <1>1, <1>2, <1>3, <1>4, ListIn, ConcatEmptySeq

\* F is the lists ss[1] to ss[m] one after the other, ss[i] behind its first at[i].
Flattens(F, ss, m, at) ==
  /\ \A i \in 1..m : at[i] \in Nat
  /\ \A i, k \in 1..m : i < k => \A j \in DOMAIN ss[i] : at[i] + j <= at[k]
  /\ \A i \in 1..m : \A j \in DOMAIN ss[i] : at[i] + j \in DOMAIN F /\ F[at[i] + j] = ss[i][j]
  /\ \A k \in DOMAIN F : \E i \in 1..m : \E j \in DOMAIN ss[i] : k = at[i] + j

\* The function that FlattenSeq chooses, up to m.
Concats(ss, m, g) == g = [i \in 1..m |-> IF i = 1 THEN ss[i] ELSE g[i - 1] \o ss[i]]

LEMMA ConcatsExist ==
  ASSUME NEW n \in Nat \ {0}, NEW ss PROVE \E g : Concats(ss, n, g)
<1> DEFINE Bad == {m \in 1..n : ~\E g : Concats(ss, m, g)}
<1>1. SUFFICES ASSUME Bad # {} PROVE FALSE
  BY DEF Bad
<1>2. PICK m \in Bad : \A k \in Bad : m <= k
  <2>1. Bad \in SUBSET Nat
    OBVIOUS
  <2> HIDE DEF Bad
  <2>2. QED
    BY <1>1, <2>1, LeastNumber
<1>3. m # 1
  <2>1. Concats(ss, 1, [i \in 1..1 |-> ss[i]])
    BY DEF Concats
  <2>2. QED
    BY <2>1
<1>4. m - 1 \in 1..n /\ m - 1 \notin Bad
  BY <1>2, <1>3
<1>5. PICK g : Concats(ss, m - 1, g)
  BY <1>4
<1> DEFINE h == [i \in 1..m |-> IF i = 1 THEN ss[i] ELSE g[i - 1] \o ss[i]]
<1>6. \A i \in 1..(m - 1) : h[i] = g[i]
  <2>1. \A i \in 1..(m - 1) : g[i] = IF i = 1 THEN ss[i] ELSE g[i - 1] \o ss[i]
    BY <1>4, <1>5 DEF Concats
  <2>2. \A i \in 1..(m - 1) : i \in 1..m
    BY <1>4
  <2>3. QED
    BY <2>1, <2>2
<1>7. \A i \in 1..m : i # 1 => h[i - 1] = g[i - 1]
  <2>1. \A i \in 1..m : i # 1 => i - 1 \in 1..(m - 1)
    BY <1>4
  <2> HIDE DEF h
  <2>2. QED
    BY <1>6, <2>1
<1>8. Concats(ss, m, h)
  BY <1>7 DEF Concats
<1>9. QED
  BY <1>8

LEMMA ConcatFlattens ==
  ASSUME NEW X, NEW n \in Nat \ {0}, NEW ss, \A i \in 1..n : ss[i] \in Seq(X),
         NEW g, Concats(ss, n, g)
  PROVE  g[n] \in Seq(X) /\ \E at : Flattens(g[n], ss, n, at)
<1> DEFINE Good(m) == g[m] \in Seq(X) /\ \E at : Flattens(g[m], ss, m, at)
           Bad == {m \in 1..n : ~Good(m)}
<1>0. \A i \in 1..n : Len(ss[i]) \in Nat /\ DOMAIN ss[i] = 1..Len(ss[i])
  BY LenProperties
<1>1. SUFFICES ASSUME Bad # {} PROVE FALSE
  OBVIOUS
<1>2. PICK m \in Bad : \A k \in Bad : m <= k
  <2>1. Bad \in SUBSET Nat
    OBVIOUS
  <2> HIDE DEF Bad
  <2>2. QED
    BY <1>1, <2>1, LeastNumber
<1>3. m # 1
  <2>1. g[1] = ss[1]
    BY DEF Concats
  <2>2. Flattens(ss[1], ss, 1, [i \in 1..1 |-> 0])
    BY <1>0 DEF Flattens
  <2>3. Good(1)
    BY <2>1, <2>2
  <2>4. QED
    BY <2>3
<1>4. m - 1 \in 1..n /\ Good(m - 1)
  BY <1>2, <1>3
<1>5. PICK before : Flattens(g[m - 1], ss, m - 1, before)
  BY <1>4
<1> DEFINE old == g[m - 1]
           new == g[m]
           at == [i \in 1..m |-> IF i = m THEN Len(old) ELSE before[i]]
<1>6. new = old \o ss[m]
  BY <1>3 DEF Concats
<1>7. old \in Seq(X) /\ ss[m] \in Seq(X)
  BY <1>4
<1>8. /\ Len(old) \in Nat /\ DOMAIN old = 1..Len(old)
      /\ Len(ss[m]) \in Nat /\ DOMAIN ss[m] = 1..Len(ss[m])
  BY <1>7, LenProperties
<1>9. /\ new \in Seq(X) /\ DOMAIN new = 1..(Len(old) + Len(ss[m]))
      /\ \A k \in 1..(Len(old) + Len(ss[m])) :
           new[k] = IF k <= Len(old) THEN old[k] ELSE ss[m][k - Len(old)]
  <2> HIDE DEF old, new
  <2>1. /\ new \in Seq(X) /\ Len(new) = Len(old) + Len(ss[m])
        /\ \A k \in 1..(Len(old) + Len(ss[m])) :
             new[k] = IF k <= Len(old) THEN old[k] ELSE ss[m][k - Len(old)]
    BY <1>6, <1>7, ConcatProperties
  <2>2. QED
    BY <2>1, LenProperties
<1> HIDE DEF old, new
<1>10. Flattens(new, ss, m, at)
  <2>1. \A i \in 1..m : at[i] \in Nat
    BY <1>4, <1>5, <1>8 DEF Flattens, old
  <2>2. ASSUME NEW i \in 1..m, NEW j \in DOMAIN ss[i]
        PROVE  at[i] + j \in DOMAIN new /\ new[at[i] + j] = ss[i][j]
    <3>1. CASE i = m
      <4>1. j \in 1..Len(ss[m]) /\ at[i] = Len(old)
        BY <1>8, <3>1
      <4>2. at[i] + j \in 1..(Len(old) + Len(ss[m])) /\ ~(at[i] + j <= Len(old))
            /\ (at[i] + j) - Len(old) = j
        BY <1>8, <4>1
      <4>3. QED
        BY <1>9, <3>1, <4>2
    <3>2. CASE i # m
      <4>1. i \in 1..(m - 1) /\ at[i] = before[i]
        BY <3>2
      <4>2. before[i] + j \in DOMAIN old /\ old[before[i] + j] = ss[i][j]
        BY <1>5, <4>1 DEF Flattens, old
      <4> HIDE DEF at
      <4>3. at[i] + j \in 1..(Len(old) + Len(ss[m])) /\ at[i] + j <= Len(old)
        BY <1>8, <4>1, <4>2
      <4>4. QED
        BY <1>9, <4>1, <4>2, <4>3
    <3>3. QED
      BY <3>1, <3>2
  <2>3. ASSUME NEW k \in DOMAIN new
        PROVE  \E i \in 1..m : \E j \in DOMAIN ss[i] : k = at[i] + j
    <3>1. CASE k <= Len(old)
      <4>1. k \in DOMAIN old
        BY <1>8, <1>9, <3>1
      <4>2. PICK i \in 1..(m - 1) : \E j \in DOMAIN ss[i] : k = before[i] + j
        BY <1>5, <4>1 DEF Flattens, old
      <4>3. i \in 1..m /\ at[i] = before[i]
        BY <4>2
      <4>4. QED
        BY <4>2, <4>3
    <3>2. CASE ~(k <= Len(old))
      <4>1. k - Len(old) \in DOMAIN ss[m] /\ at[m] = Len(old)
        BY <1>8, <1>9, <3>2
      <4> HIDE DEF at
      <4>2. k = at[m] + (k - Len(old))
        BY <1>8, <1>9, <4>1
      <4>3. QED
        BY <4>1, <4>2
    <3>3. QED
      BY <3>1, <3>2
  <2>4. ASSUME NEW i \in 1..m, NEW k \in 1..m, i < k, NEW j \in DOMAIN ss[i]
        PROVE  at[i] + j <= at[k]
    <3>1. i \in 1..(m - 1) /\ at[i] = before[i]
      BY <2>4
    <3>2. before[i] + j \in 1..Len(old)
      BY <1>5, <1>8, <3>1 DEF Flattens, old
    <3>3. CASE k = m
      BY <1>8, <3>1, <3>2, <3>3
    <3>4. CASE k # m
      <4>1. k \in 1..(m - 1) /\ at[k] = before[k]
        BY <3>4
      <4>2. before[i] + j <= before[k]
        BY <1>5, <2>4, <3>1, <4>1 DEF Flattens
      <4>3. QED
        BY <3>1, <4>1, <4>2
    <3>5. QED
      BY <3>3, <3>4
  <2> HIDE DEF at
  <2>5. QED
    BY <2>1, <2>2, <2>3, <2>4 DEF Flattens
<1>11. Good(m)
  BY <1>9, <1>10 DEF new
<1>12. QED
  BY <1>11

\* What FlattenSeq makes of a list of lists.
LEMMA FlattenIs ==
  ASSUME NEW n \in Nat, NEW ss, ss = [i \in 1..n |-> ss[i]], \A i \in 1..n : IsList(ss[i])
  PROVE  IsList(FlattenSeq(ss)) /\ \E at : Flattens(FlattenSeq(ss), ss, n, at)
<1>1. Len(ss) = n /\ DOMAIN ss = 1..n
  BY ListOfLength
<1>2. CASE n = 0
  <2>1. FlattenSeq(ss) = <<>>
    BY <1>1, <1>2 DEF FlattenSeq
  <2>2. Flattens(<<>>, ss, n, <<>>)
    BY <1>2 DEF Flattens
  <2>3. QED
    BY <2>1, <2>2, ShortLists
<1>3. CASE n # 0
  <2> DEFINE X == UNION {ToSet(ss[i]) : i \in 1..n}
             flatten == CHOOSE g : Concats(ss, n, g)
  <2>1. \A i \in 1..n : ss[i] \in Seq(X)
    <3>1. \A i \in 1..n : ss[i] \in Seq(ToSet(ss[i])) /\ ToSet(ss[i]) \subseteq X
      BY DEF IsList
    <3> HIDE DEF X
    <3>2. QED
      BY <3>1, SeqMonotonic
  <2>2. Concats(ss, n, flatten)
    BY <1>3, ConcatsExist
  <2>3. FlattenSeq(ss) = flatten[n]
    BY <1>1, <1>3 DEF FlattenSeq, Concats
  <2> HIDE DEF flatten, X
  <2>4. flatten[n] \in Seq(X) /\ \E at : Flattens(flatten[n], ss, n, at)
    BY <1>3, <2>1, <2>2, ConcatFlattens
  <2>5. QED
    BY <2>3, <2>4, ListIn
<1>4. QED
  BY <1>2, <1>3

\* The members of a flattened list are those of its parts.
LEMMA FlattenMembers ==
  ASSUME NEW n \in Nat, NEW ss, NEW F, NEW at, Flattens(F, ss, n, at)
  PROVE  \A x : x \in ToSet(F) <=> \E i \in 1..n : x \in ToSet(ss[i])
<1>1. ASSUME NEW k \in DOMAIN F PROVE \E i \in 1..n : F[k] \in ToSet(ss[i])
  <2>1. PICK i \in 1..n : \E j \in DOMAIN ss[i] : k = at[i] + j
    BY DEF Flattens
  <2>2. PICK j \in DOMAIN ss[i] : k = at[i] + j
    BY <2>1
  <2>3. F[k] = ss[i][j]
    BY <2>2 DEF Flattens
  <2>4. QED
    BY <2>3 DEF ToSet
<1>2. ASSUME NEW i \in 1..n, NEW j \in DOMAIN ss[i] PROVE ss[i][j] \in ToSet(F)
  <2>1. at[i] + j \in DOMAIN F /\ F[at[i] + j] = ss[i][j]
    BY DEF Flattens
  <2>2. QED
    BY <2>1 DEF ToSet
<1>3. QED
  BY <1>1, <1>2 DEF ToSet

-----------------------------------------------------------------------------
\* Rules.

\* The targets of the rules of a type that fire, among those at the positions I.
Targets(rules, answers, type, I) ==
  {rules[i].target : i \in {i \in I : Fires(rules[i], answers) /\ rules[i].type = type}}

\* What Evaluate has collected after the rules at the positions I.
Collected(rules, answers, I) ==
  [hide |-> Targets(rules, answers, "hide", I), show |-> Targets(rules, answers, "show", I)]

\* Its step for one rule.
ApplyRule(answers, acc, r) ==
  IF Fires(r, answers) /\ r.type \in DOMAIN acc
  THEN [acc EXCEPT ![r.type] = @ \cup {r.target}]
  ELSE acc

LEMMA CollectOne ==
  ASSUME NEW rules, NEW answers, NEW I, NEW i \in I
  PROVE  ApplyRule(answers, Collected(rules, answers, I \ {i}), rules[i])
           = Collected(rules, answers, I)
<1> DEFINE J == I \ {i}
           r == rules[i]
           fires == Fires(r, answers)
           H == Targets(rules, answers, "hide", J)
           K == Targets(rules, answers, "show", J)
<1>1. \A type : Targets(rules, answers, type, I) =
        Targets(rules, answers, type, J) \cup (IF fires /\ r.type = type THEN {r.target} ELSE {})
  BY DEF Targets
<1>2. Collected(rules, answers, J) = [hide |-> H, show |-> K]
  BY DEF Collected
<1>3. CASE fires /\ r.type = "hide"
  <2>1. Collected(rules, answers, I) = [hide |-> H \cup {r.target}, show |-> K]
    BY <1>1, <1>3 DEF Collected
  <2> HIDE DEF H, K
  <2>2. ApplyRule(answers, [hide |-> H, show |-> K], r) =
          [hide |-> H \cup {r.target}, show |-> K]
    BY <1>3 DEF ApplyRule
  <2>3. QED
    BY <1>2, <2>1, <2>2
<1>4. CASE fires /\ r.type = "show"
  <2>1. Collected(rules, answers, I) = [hide |-> H, show |-> K \cup {r.target}]
    BY <1>1, <1>4 DEF Collected
  <2> HIDE DEF H, K
  <2>2. ApplyRule(answers, [hide |-> H, show |-> K], r) =
          [hide |-> H, show |-> K \cup {r.target}]
    BY <1>4 DEF ApplyRule
  <2>3. QED
    BY <1>2, <2>1, <2>2
<1>5. CASE ~(fires /\ r.type \in {"hide", "show"})
  BY <1>1, <1>5 DEF ApplyRule, Collected
<1>6. QED
  BY <1>3, <1>4, <1>5

\* One pass in list order collects the same as looking at all rules at once.
LEMMA FoldCollects ==
  ASSUME NEW rules, NEW answers, NEW n \in Nat, NEW iter,
         iter = [I \in SUBSET (1..n) |->
                   IF I = {} THEN [hide |-> {}, show |-> {}]
                   ELSE ApplyRule(answers, iter[I \ {Max(I)}], rules[Max(I)])]
  PROVE  \A I \in SUBSET (1..n) : iter[I] = Collected(rules, answers, I)
<1> DEFINE Ordering == StrictSubsetOrdering(1..n)
           Bad == {I \in SUBSET (1..n) : iter[I] # Collected(rules, answers, I)}
<1>1. SUFFICES ASSUME Bad # {} PROVE FALSE
  OBVIOUS
<1>2. IsWellFoundedOn(Ordering, SUBSET (1..n))
  <2>1. IsFiniteSet(1..n)
    BY FS_Interval
  <2>2. QED
    BY <2>1, FS_FiniteSubsetsOfFinite, FS_StrictSubsetOrderingWellFounded
<1>3. \E I \in Bad : \A J \in Bad : <<J, I>> \notin Ordering
  <2> HIDE DEF Ordering
  <2>1. Bad \subseteq SUBSET (1..n)
    OBVIOUS
  <2> HIDE DEF Bad
  <2>2. QED
    BY <1>1, <1>2, <2>1, WFMin
<1>4. PICK I \in Bad : \A J \in Bad : <<J, I>> \notin Ordering
  BY <1>3
<1>5. I # {}
  <2>1. Collected(rules, answers, {}) = [hide |-> {}, show |-> {}]
    BY DEF Collected, Targets
  <2>2. QED
    BY <2>1
<1>6. Max(I) \in I
  BY <1>5, MaxOfPositions
<1>7. iter[I \ {Max(I)}] = Collected(rules, answers, I \ {Max(I)})
  <2> DEFINE J == I \ {Max(I)}
  <2>1. J \subseteq I /\ J # I
    BY <1>6
  <2>2. <<J, I>> \in Ordering
    BY <2>1 DEF StrictSubsetOrdering
  <2> HIDE DEF J, Ordering
  <2>3. J \notin Bad /\ J \subseteq I
    BY <1>4, <2>1, <2>2
  <2>4. QED
    BY <2>3 DEF J
<1>8. iter[I] = ApplyRule(answers, iter[I \ {Max(I)}], rules[Max(I)])
  BY <1>5
<1>9. iter[I] = Collected(rules, answers, I)
  <2>1. \A i \in I : ApplyRule(answers, Collected(rules, answers, I \ {i}), rules[i])
                       = Collected(rules, answers, I)
    BY CollectOne
  <2> HIDE DEF Bad
  <2>2. QED
    BY <1>6, <1>7, <1>8, <2>1
<1>10. QED
  BY <1>9

LEMMA EvaluateIs ==
  ASSUME NEW S, NEW rules \in Seq(S), NEW answers
  PROVE  Evaluate(rules, answers) = Targets(rules, answers, "hide", DOMAIN rules)
                                      \ Targets(rules, answers, "show", DOMAIN rules)
<1> DEFINE n == Len(rules)
           Step(iter) ==
             [I \in SUBSET (1..n) |->
                IF I = {} THEN [hide |-> {}, show |-> {}]
                ELSE ApplyRule(answers, iter[I \ {Max(I)}], rules[Max(I)])]
           whole == [I \in SUBSET (1..n) |-> Collected(rules, answers, I)]
           fold == CHOOSE iter : iter = Step(iter)
<1>1. n \in Nat /\ DOMAIN rules = 1..n
  OBVIOUS
<1>2. Evaluate(rules, answers) = fold[1..n]["hide"] \ fold[1..n]["show"]
  BY <1>1 DEF Evaluate, FoldLeft, MapThenFoldSet, ApplyRule
<1>3. whole = Step(whole)
  <2>1. ASSUME NEW I \in SUBSET (1..n)
        PROVE  whole[I] = Step(whole)[I]
    <3>1. CASE I = {}
      BY <3>1 DEF Collected, Targets
    <3>2. CASE I # {}
      BY <1>1, <3>2, MaxOfPositions, CollectOne
    <3>3. QED
      BY <3>1, <3>2
  <2>2. QED
    BY <2>1
<1>4. fold = Step(fold)
  BY <1>3
<1> HIDE DEF fold, n
<1>5. \A I \in SUBSET (1..n) : fold[I] = Collected(rules, answers, I)
  BY <1>1, <1>4, FoldCollects
<1>6. fold[1..n] = Collected(rules, answers, DOMAIN rules)
  BY <1>1, <1>5
<1>7. QED
  BY <1>2, <1>6 DEF Collected

-----------------------------------------------------------------------------
\* The inductive invariant: the case is one of those given, the verdict is that
\* of ValidateSurvey on it, and the rows are those of NormalizeSurvey.
CaseInv ==
  \E t \in Trials : case.schema \in t.schemas /\ case.answers \in t.answers

VerdictInv ==
  /\ phase \in {"received", "accepted", "refused", "flattened"}
  /\ phase # "received" => (ValidateSurvey(case.schema, case.answers) <=> phase # "refused")
  /\ phase = "flattened" => rows = NormalizeSurvey(case.schema, case.answers)

QInv == CaseInv /\ VerdictInv

LEMMA QuestionnaireInductive == Spec => []QInv
<1>1. Init => QInv
  BY DEF Init, QInv, CaseInv, VerdictInv
<1>2. ASSUME QInv, [Next]_vars PROVE QInv'
  <2>1. CASE Validate
    BY <1>2, <2>1 DEF Validate, QInv, CaseInv, VerdictInv
  <2>2. CASE Flatten
    BY <1>2, <2>2 DEF Flatten, QInv, CaseInv, VerdictInv
  <2>3. CASE UNCHANGED vars
    BY <1>2, <2>3 DEF vars, QInv, CaseInv, VerdictInv
  <2>4. QED
    BY <1>2, <2>1, <2>2, <2>3 DEF Next
<1>3. QED
  BY <1>1, <1>2, PTL DEF Spec

LEMMA CaseRules == CaseInv => case.schema.rules \in Seq(ToSet(case.schema.rules))
BY TrialsAssumption DEF CaseInv

LEMMA HiddenNowIs ==
  ASSUME CaseInv
  PROVE  HiddenNow = Targets(case.schema.rules, case.answers, "hide", DOMAIN case.schema.rules)
                     \ Targets(case.schema.rules, case.answers, "show", DOMAIN case.schema.rules)
BY CaseRules, EvaluateIs DEF HiddenNow

\* A rule that shows a question wins over every rule that hides it, wherever the
\* two stand in the list (logic.go:154-178).
THEOREM ShowWinsAlways == Spec => []ShowWins
<1>1. ASSUME CaseInv PROVE ShowWins
  <2> DEFINE rules == case.schema.rules
             fired == {r \in ToSet(rules) : Fires(r, case.answers)}
  <2>1. \A type : Targets(rules, case.answers, type, DOMAIN rules)
                     = {r.target : r \in {r \in fired : r.type = type}}
    BY DEF Targets, ToSet
  <2> HIDE DEF rules
  <2>2. QED
    BY <1>1, <2>1, HiddenNowIs DEF ShowWins, rules
<1>2. QED
  BY <1>1, QuestionnaireInductive, PTL DEF QInv

\* A rule looks at nothing but the answers its conditions name.
LEMMA FiresOnRead ==
  ASSUME NEW r, NEW a, NEW b, \A c \in r.conditions : a[c.qid] = b[c.qid]
  PROVE  Fires(r, a) <=> Fires(r, b)
<1>1. \A c \in r.conditions : Holds(c, a) <=> Holds(c, b)
  BY DEF Holds
<1>2. QED
  BY <1>1 DEF Fires

\* The answers of the case without those to hidden questions that no condition
\* reads, as in HiddenAnswersAreInert.
ReadIds == {c.qid : c \in UNION {r.conditions : r \in ToSet(case.schema.rules)}}

Cleared ==
  [q \in DOMAIN case.answers |->
     IF q \in HiddenNow \ ReadIds THEN Null ELSE case.answers[q]]

LEMMA ClearingHidesTheSame ==
  ASSUME CaseInv PROVE Evaluate(case.schema.rules, Cleared) = HiddenNow
<1> DEFINE rules == case.schema.rules
<1>1. \A r \in ToSet(rules) : \A c \in r.conditions : Cleared[c.qid] = case.answers[c.qid]
  <2>1. \A r \in ToSet(rules) : \A c \in r.conditions :
          c.qid \in DOMAIN case.answers /\ c.qid \in ReadIds
    BY TrialsAssumption DEF CaseInv, ReadIds
  <2>2. QED
    BY <2>1 DEF Cleared
<1>2. \A i \in DOMAIN rules : Fires(rules[i], Cleared) <=> Fires(rules[i], case.answers)
  BY <1>1, FiresOnRead DEF ToSet
<1>3. \A type : Targets(rules, Cleared, type, DOMAIN rules)
                 = Targets(rules, case.answers, type, DOMAIN rules)
  BY <1>2 DEF Targets
<1>4. rules \in Seq(ToSet(rules))
  BY CaseRules
<1> HIDE DEF rules
<1>5. Evaluate(rules, Cleared) = Evaluate(rules, case.answers)
  BY <1>3, <1>4, EvaluateIs
<1>6. QED
  BY <1>5 DEF rules, HiddenNow

\* What was sent for a hidden question changes neither the verdict nor the rows
\* unless a condition reads it (validate.go:16-21, normalize.go).
THEOREM HiddenInert == Spec => []HiddenAnswersAreInert
<1>1. ASSUME QInv PROVE HiddenAnswersAreInert
  <2>1. CaseInv /\ VerdictInv
    BY <1>1 DEF QInv
  <2>2. \A q \in ToSet(case.schema.questions) :
          q.id \notin HiddenNow => Cleared[q.id] = case.answers[q.id]
    <3>1. \A q \in ToSet(case.schema.questions) : q.id \in DOMAIN case.answers
      BY <2>1, TrialsAssumption DEF CaseInv
    <3>2. QED
      BY <3>1 DEF Cleared
  <2>3. Evaluate(case.schema.rules, Cleared) = HiddenNow
    BY <2>1, ClearingHidesTheSame
  <2>4. ValidateSurvey(case.schema, Cleared) <=> ValidateSurvey(case.schema, case.answers)
    BY <2>2, <2>3 DEF ValidateSurvey, HiddenNow
  <2>5. NormalizeSurvey(case.schema, Cleared) = NormalizeSurvey(case.schema, case.answers)
    <3> DEFINE RowsOf(q, answers) ==
                 IF q.id \notin HiddenNow /\ IsAnswered(answers[q.id])
                 THEN Normalize(q, answers[q.id]) ELSE <<>>
               questions == case.schema.questions
    <3>1. \A i \in DOMAIN questions :
            RowsOf(questions[i], Cleared) = RowsOf(questions[i], case.answers)
      BY <2>2 DEF ToSet
    <3> HIDE DEF RowsOf
    <3>2. [i \in DOMAIN questions |-> RowsOf(questions[i], Cleared)]
            = [i \in DOMAIN questions |-> RowsOf(questions[i], case.answers)]
      BY <3>1
    <3>3. QED
      BY <2>3, <3>2 DEF NormalizeSurvey, HiddenNow, RowsOf
  <2>6. QED
    BY <2>1, <2>4, <2>5 DEF HiddenAnswersAreInert, VerdictInv, Cleared, ReadIds
<1>2. QED
  BY <1>1, QuestionnaireInductive, PTL

-----------------------------------------------------------------------------
\* The rows of one question.

\* line[k] is the line that the row k is of; a line has no row twice.
OnLines(q, s, line) ==
  \A k \in DOMAIN s :
    /\ line[k] \in DOMAIN q.lines /\ q.lines[line[k]] = s[k].sub
    /\ \A l \in DOMAIN s : s[k] = s[l] /\ line[k] = line[l] => k = l

\* Rows that are equal are those of different lines.
Apart(q, s) ==
  IF q.type \in LineTypes THEN \E line : OnLines(q, s, line) ELSE IsInjective(s)

Fits(q, s) == \A k \in DOMAIN s : RowFits(q, s[k], {s[j] : j \in 1..(k - 1)})

Complete(q, a, s) ==
  q.required => \A sub \in Demanded(q) :
    OnlyUnnamed(q, a, sub) \/ \E k \in DOMAIN s : s[k].sub = sub

\* What the handler of q owes to the survey for the answer a that it accepted.
Sound(q, a, s) ==
  /\ IsList(s)
  /\ \A k \in DOMAIN s : s[k].qid = q.id
  /\ Apart(q, s) /\ Fits(q, s) /\ Complete(q, a, s)

LEMMA RowFitsMore ==
  ASSUME NEW q, NEW r, NEW E, NEW earlier, E \subseteq earlier, RowFits(q, r, E)
  PROVE  RowFits(q, r, earlier)
<1> DEFINE FillOf(e) == IF q.type = "single-choice" THEN "fill" ELSE FillKey[e.value.str]
           Filled(S) == \E e \in S : e.sub = Empty /\ r.sub = FillOf(e)
<1>1. Filled(E) => Filled(earlier)
  OBVIOUS
<1> HIDE DEF FillOf
<1>2. QED
  BY <1>1 DEF RowFits, FillOf

LEMMA NoneOrOne ==
  /\ IsList(<<>>) /\ IsInjective(<<>>) /\ DOMAIN <<>> = {}
  /\ \A x : /\ IsList(<<x>>) /\ IsInjective(<<x>>) /\ <<x>> # <<>>
            /\ DOMAIN <<x>> = {1} /\ <<x>>[1] = x
<1>1. IsList(<<>>) /\ DOMAIN <<>> = {}
  BY ShortLists
<1>2. ASSUME NEW x PROVE IsList(<<x>>) /\ <<x>> # <<>> /\ DOMAIN <<x>> = {1} /\ <<x>>[1] = x
  BY ShortLists
<1>3. QED
  BY <1>1, <1>2 DEF IsInjective

LEMMA RowIs ==
  ASSUME NEW q, NEW sub, NEW v
  PROVE  Row(q, sub, v).qid = q.id /\ Row(q, sub, v).sub = sub /\ Row(q, sub, v).value = v
BY DEF Row

\* A question of one value.
LEMMA OneRow ==
  ASSUME NEW q, NEW a, NEW v, q.type \notin LineTypes, RowFits(q, Row(q, Empty, v), {})
  PROVE  Sound(q, a, <<Row(q, Empty, v)>>)
<1> DEFINE s == <<Row(q, Empty, v)>>
<1>1. IsList(s) /\ IsInjective(s) /\ DOMAIN s = {1} /\ s[1] = Row(q, Empty, v)
  BY NoneOrOne
<1> HIDE DEF s
<1>2. s[1].qid = q.id /\ s[1].sub = Empty
  BY <1>1, RowIs
<1>3. ASSUME NEW earlier PROVE RowFits(q, s[1], earlier)
  BY <1>1, RowFitsMore
<1>4. Fits(q, s)
  BY <1>1, <1>3 DEF Fits
<1>5. Complete(q, a, s)
  BY <1>1, <1>2 DEF Complete, Demanded
<1>6. Apart(q, s)
  BY <1>1 DEF Apart
<1>7. Sound(q, a, s)
  BY <1>1, <1>2, <1>4, <1>5, <1>6 DEF Sound
<1>8. QED
  BY <1>7 DEF s

LEMMA AnsweredString ==
  ASSUME NEW a, DecodedAnswer(a), IsAnswered(a), a.kind = "string"
  PROVE  StrAnswered(a)
BY DEF DecodedAnswer, Decoded, IsAnswered, StrAnswered, Str

LEMMA DropdownSound ==
  ASSUME NEW q, q.type = "dropdown", NEW a, DecodedAnswer(a), IsAnswered(a), DropdownOk(q, a)
  PROVE  Sound(q, a, DropdownRows(q, a))
<1>1. StrAnswered(a)
  BY AnsweredString DEF DropdownOk
<1>2. RowFits(q, Row(q, Empty, a), {})
  BY <1>1, RowIs DEF RowFits, DropdownOk, StrAnswered, LineTypes
<1>3. QED
  BY <1>1, <1>2, OneRow DEF DropdownRows, TextRows, LineTypes

LEMMA ScaleSound ==
  ASSUME NEW q, q.type = "scale", DecodedQuestion(q), NEW a, ScaleOk(q, a)
  PROVE  Sound(q, a, ScaleRows(q, a))
<1>1. RowFits(q, Row(q, Empty, a), {})
  <2>1. q.min \in Int /\ q.max \in Int
    BY DEF DecodedQuestion
  <2>2. Limit(q.min, 2) \in Int /\ Limit(q.max, 10) \in Int
    BY <2>1 DEF Limit
  <2>3. QED
    BY <2>2, RowIs DEF RowFits, ScaleOk, LineTypes
<1>2. QED
  BY <1>1, OneRow DEF ScaleRows, ScaleOk, LineTypes

LEMMA TextInputSound ==
  ASSUME NEW q, q.type = "text-input", NEW a, DecodedAnswer(a), IsAnswered(a), TextOk(q, a)
  PROVE  Sound(q, a, TextRows(q, a))
<1>1. StrAnswered(a)
  BY AnsweredString DEF TextOk
<1>2. RowFits(q, Row(q, Empty, a), {})
  BY <1>1, RowIs DEF RowFits, LineTypes
<1>3. QED
  BY <1>1, <1>2, OneRow DEF TextRows, LineTypes

LEMMA TextareaSound ==
  ASSUME NEW q, q.type = "textarea", NEW a, DecodedAnswer(a), IsAnswered(a), TextareaOk(q, a)
  PROVE  Sound(q, a, TextRows(q, a))
<1>1. StrAnswered(a)
  BY AnsweredString DEF TextareaOk
<1>2. RowFits(q, Row(q, Empty, a), {})
  BY <1>1, RowIs DEF RowFits, LineTypes
<1>3. QED
  BY <1>1, <1>2, OneRow DEF TextRows, LineTypes

-----------------------------------------------------------------------------
\* Choices.

LEMMA FillIsNotEmpty == "fill" # Empty
BY Zenon DEF Empty

LEMMA StrIs == \A s : Str(s).kind = "string" /\ Str(s).str = s
BY DEF Str

\* A chosen option with a value has the row of that value and perhaps one of the
\* text filled in; one without a value has none.
LEMMA OptionRowsAre ==
  ASSUME NEW q, NEW e, NEW sub, e.ok,
         NEW s, s = OptionRows(q, e, sub)
  PROVE  /\ IsList(s)
         /\ e.value = Empty => DOMAIN s = {}
         /\ e.value # Empty => 1 \in DOMAIN s
         /\ \A j \in DOMAIN s :
              \/ j = 1 /\ s[j] = Row(q, Empty, Str(e.value)) /\ e.value # Empty
              \/ /\ j = 2 /\ s[j] = Row(q, sub, Str(e.text))
                 /\ e.value # Empty /\ e.text # Empty
         /\ e.value # Empty /\ e.text # Empty => 2 \in DOMAIN s
<1> DEFINE main == Row(q, Empty, Str(e.value))
           fill == Row(q, sub, Str(e.text))
<1>1. s = IF e.value = Empty THEN <<>> \o <<>>
          ELSE IF e.text # Empty THEN <<main>> \o <<fill>> ELSE <<main>> \o <<>>
  BY DEF OptionRows
<1> HIDE DEF main, fill
<1>2. CASE e.value = Empty
  <2>1. s = <<>>
    BY <1>1, <1>2, ShortLists
  <2>2. QED
    BY <1>2, <2>1, NoneOrOne
<1>3. CASE e.value # Empty /\ e.text = Empty
  <2>1. s = <<main>>
    BY <1>1, <1>3, ShortLists
  <2>2. QED
    BY <1>3, <2>1, NoneOrOne DEF main
<1>4. CASE e.value # Empty /\ e.text # Empty
  <2>1. s = <<main>> \o <<fill>>
    BY <1>1, <1>4
  <2>2. IsList(s) /\ Len(s) = 2 /\ s[1] = main /\ s[2] = fill
    BY <2>1, ShortLists
  <2>3. DOMAIN s = 1..2
    BY <2>2, ListIs
  <2>4. \A j \in 1..2 : j = 1 \/ j = 2
    OBVIOUS
  <2>5. 1 \in 1..2 /\ 2 \in 1..2
    OBVIOUS
  <2>6. QED
    BY <1>4, <2>2, <2>3, <2>4, <2>5 DEF main, fill
<1>5. QED
  BY <1>2, <1>3, <1>4

LEMMA OfferedIs ==
  ASSUME NEW q, DecodedQuestion(q), NEW v, NEW i \in Offers(q, v)
  PROVE  v \in Values(q) /\ v \in DOMAIN FillKey
<1>1. q.options[i] \in ToSet(q.options) /\ q.options[i].value = v
  BY DEF Offers, ToSet
<1>2. QED
  BY <1>1 DEF Values, DecodedQuestion

LEMMA MultiElementIs ==
  ASSUME NEW q, DecodedQuestion(q), NEW e, MultiElementOk(q, e)
  PROVE  e.ok /\ e.value \in Values(q) /\ e.value \in DOMAIN FillKey
BY OfferedIs DEF MultiElementOk

LEMMA SingleChoiceIs ==
  ASSUME NEW q, DecodedQuestion(q), NEW a, SingleChoiceOk(q, a)
  PROVE  Chosen(a).ok /\ Chosen(a).value \in Values(q)
BY OfferedIs DEF SingleChoiceOk

LEMMA MainRowFits ==
  ASSUME NEW q, q.type \in {"single-choice", "multi-choice"}, NEW v, v \in Values(q), NEW earlier
  PROVE  RowFits(q, Row(q, Empty, Str(v)), earlier)
BY RowIs, StrIs DEF RowFits, LineTypes

LEMMA FillRowFits ==
  ASSUME NEW q, q.type \in {"single-choice", "multi-choice"}, NEW v, NEW sub, NEW text, NEW earlier,
         Row(q, Empty, Str(v)) \in earlier,
         sub = IF q.type = "single-choice" THEN "fill" ELSE FillKey[v]
  PROVE  RowFits(q, Row(q, sub, Str(text)), earlier)
BY RowIs, StrIs DEF RowFits, LineTypes

\* A choice that is no array and has no value is all there is.
LEMMA SingleUnnamed ==
  ASSUME NEW q, q.type = "single-choice", NEW a, Chosen(a).ok,
         Chosen(a).value = Empty, Empty \in Values(q), NEW sub
  PROVE  OnlyUnnamed(q, a, sub)
<1>1. a.kind # "array"
  BY DEF Chosen, Field, Null
<1>2. QED
  BY <1>1 DEF OnlyUnnamed

LEMMA SingleChoiceSound ==
  ASSUME NEW q, q.type = "single-choice", DecodedQuestion(q), NEW a, SingleChoiceOk(q, a)
  PROVE  Sound(q, a, SingleChoiceRows(q, a))
<1> DEFINE e == Chosen(a)
           s == SingleChoiceRows(q, a)
<1>1. e.ok /\ e.value \in Values(q)
  BY SingleChoiceIs
<1>2. s = OptionRows(q, e, "fill")
  BY DEF SingleChoiceRows
<1>3. e.value = Empty => \A sub : OnlyUnnamed(q, a, sub)
  <2>1. SUFFICES ASSUME e.value = Empty, NEW sub PROVE OnlyUnnamed(q, a, sub)
    OBVIOUS
  <2>2. QED
    BY <1>1, <2>1, SingleUnnamed
<1> HIDE DEF e, s
<1>4. /\ IsList(s)
      /\ e.value # Empty => 1 \in DOMAIN s
      /\ \A j \in DOMAIN s :
           \/ j = 1 /\ s[j] = Row(q, Empty, Str(e.value)) /\ e.value # Empty
           \/ /\ j = 2 /\ s[j] = Row(q, "fill", Str(e.text))
              /\ e.value # Empty /\ e.text # Empty
  BY <1>1, <1>2, OptionRowsAre
<1>5. \A j \in DOMAIN s :
        s[j].qid = q.id /\ s[j].sub = (IF j = 1 THEN Empty ELSE "fill") /\ j \in {1, 2}
  BY <1>4, RowIs
<1>6. IsInjective(s)
  BY <1>5, FillIsNotEmpty DEF IsInjective
<1>7. ASSUME NEW j \in DOMAIN s PROVE RowFits(q, s[j], {s[i] : i \in 1..(j - 1)})
  <2> DEFINE earlier == {s[i] : i \in 1..(j - 1)}
  <2>1. CASE j = 1
    <3> HIDE DEF earlier
    <3>1. s[j] = Row(q, Empty, Str(e.value))
      BY <1>4, <2>1
    <3>2. RowFits(q, s[j], earlier)
      BY <1>1, <3>1, MainRowFits
    <3>3. QED
      BY <3>2 DEF earlier
  <2>2. CASE j # 1
    <3>1. j = 2 /\ s[j] = Row(q, "fill", Str(e.text)) /\ 1 \in DOMAIN s
      BY <1>4, <2>2
    <3>2. s[1] = Row(q, Empty, Str(e.value))
      BY <1>4, <3>1
    <3>3. 1 \in 1..(j - 1)
      BY <3>1
    <3>4. Row(q, Empty, Str(e.value)) \in earlier
      BY <3>2, <3>3
    <3> HIDE DEF earlier
    <3>5. RowFits(q, s[j], earlier)
      BY <3>1, <3>4, FillRowFits
    <3>6. QED
      BY <3>5 DEF earlier
  <2>3. QED
    BY <2>1, <2>2
<1>8. Complete(q, a, s)
  <2>1. Demanded(q) = {Empty}
    BY DEF Demanded, LineTypes
  <2>2. QED
    BY <1>3, <1>4, <1>5, <2>1 DEF Complete
<1>9. Apart(q, s)
  BY <1>6 DEF Apart, LineTypes
<1>10. Sound(q, a, s)
  BY <1>4, <1>5, <1>7, <1>8, <1>9 DEF Sound, Fits
<1>11. QED
  BY <1>10 DEF s

\* As many different images as elements: no two elements have the same image.
LEMMA AllDifferent ==
  ASSUME NEW n \in Nat, NEW f, f = [i \in 1..n |-> f[i]],
         Cardinality({f[i] : i \in 1..n}) = n
  PROVE  \A i, j \in 1..n : f[i] = f[j] => i = j
<1> DEFINE T == {f[i] : i \in 1..n}
<1>1. IsFiniteSet(1..n) /\ Cardinality(1..n) = n
  BY FS_Interval
<1>2. f \in [1..n -> T]
  <2>1. \A i \in 1..n : f[i] \in T
    OBVIOUS
  <2> HIDE DEF T
  <2>2. [i \in 1..n |-> f[i]] \in [1..n -> T]
    BY <2>1
  <2>3. QED
    BY <2>2
<1>3. f \in Surjection(1..n, T)
  BY <1>2 DEF Surjection
<1> HIDE DEF T
<1>4. f \in Injection(1..n, T)
  BY <1>1, <1>3, FS_SurjSameCardinalityImpliesInj DEF T
<1>5. QED
  BY <1>2, <1>4 DEF Injection, IsInjective

\* The elements of an accepted multi-choice answer and their rows.
LEMMA MultiChoiceParts ==
  ASSUME NEW q, DecodedQuestion(q), NEW a, DecodedAnswer(a), MultiChoiceOk(q, a)
  PROVE  LET n == Len(a.items)
             ss == [i \in 1..n |-> OptionRows(q, Chosen(a.items[i]), FillKey[Chosen(a.items[i]).value])]
         IN  /\ n \in Nat /\ DOMAIN a.items = 1..n /\ IsList(a.items)
             /\ \A i \in 1..n : /\ Chosen(a.items[i]).ok
                                /\ Chosen(a.items[i]).value \in DOMAIN FillKey
                                /\ Chosen(a.items[i]).value \in Values(q)
                                /\ IsList(ss[i])
             /\ \A i, j \in 1..n : Chosen(a.items[i]).value = Chosen(a.items[j]).value => i = j
             /\ IsList(FlattenSeq(ss)) /\ \E at : Flattens(FlattenSeq(ss), ss, n, at)
             /\ MultiChoiceRows(q, a) = FlattenSeq(ss)
<1> DEFINE n == Len(a.items)
           e(i) == Chosen(a.items[i])
           value == [i \in 1..n |-> e(i).value]
           ss == [i \in 1..n |-> OptionRows(q, e(i), FillKey[e(i).value])]
<1>1. n \in Nat /\ DOMAIN a.items = 1..n /\ IsList(a.items)
  <2>1. IsList(a.items)
    BY DEF MultiChoiceOk, DecodedAnswer, Decoded, IsList
  <2>2. QED
    BY <2>1, ListIs
<1>2. \A i \in 1..n : e(i).ok /\ e(i).value \in Values(q) /\ e(i).value \in DOMAIN FillKey
  <2>1. \A i \in 1..n : MultiElementOk(q, e(i))
    BY <1>1 DEF MultiChoiceOk
  <2> HIDE DEF e, n
  <2>2. QED
    BY <2>1, MultiElementIs
<1>3. \A i, j \in 1..n : e(i).value = e(j).value => i = j
  <2>1. Cardinality({e(i).value : i \in 1..n}) = n
    BY <1>1 DEF MultiChoiceOk
  <2>2. {e(i).value : i \in 1..n} = {value[i] : i \in 1..n}
    OBVIOUS
  <2>3. \A i \in 1..n : value[i] = e(i).value
    OBVIOUS
  <2> HIDE DEF n, value, e
  <2>4. value = [i \in 1..n |-> value[i]]
    BY DEF value
  <2>5. \A i, j \in 1..n : value[i] = value[j] => i = j
    BY <1>1, <2>1, <2>2, <2>4, AllDifferent
  <2>6. QED
    BY <2>3, <2>5
<1>4. \A i \in 1..n : IsList(ss[i])
  <2>1. ASSUME NEW i \in 1..n PROVE IsList(ss[i])
    <3>1. ss[i] = OptionRows(q, e(i), FillKey[e(i).value])
      OBVIOUS
    <3>2. e(i).ok
      BY <1>2
    <3> HIDE DEF ss, e
    <3>3. QED
      BY <3>1, <3>2, OptionRowsAre
  <2>2. QED
    BY <2>1
<1>5. MultiChoiceRows(q, a) = FlattenSeq(ss)
  BY <1>1 DEF MultiChoiceRows, MultiChoiceOk
<1>6. ss = [i \in 1..n |-> ss[i]]
  OBVIOUS
<1>7. IsList(FlattenSeq(ss)) /\ \E at : Flattens(FlattenSeq(ss), ss, n, at)
  <2> HIDE DEF ss, n, e
  <2>1. QED
    BY <1>1, <1>4, <1>6, FlattenIs
<1>8. QED
  BY <1>1, <1>2, <1>3, <1>4, <1>5, <1>7

LEMMA MultiChoiceSound ==
  ASSUME NEW q, q.type = "multi-choice", DecodedQuestion(q), NEW a, DecodedAnswer(a),
         MultiChoiceOk(q, a)
  PROVE  Sound(q, a, MultiChoiceRows(q, a))
<1> DEFINE n == Len(a.items)
           e(i) == Chosen(a.items[i])
           value == [i \in 1..n |-> e(i).value]
           text == [i \in 1..n |-> e(i).text]
           ss == [i \in 1..n |-> OptionRows(q, e(i), FillKey[e(i).value])]
           F == FlattenSeq(ss)
<1>1. /\ n \in Nat /\ DOMAIN a.items = 1..n /\ IsList(a.items)
      /\ IsList(F) /\ \E at : Flattens(F, ss, n, at)
      /\ MultiChoiceRows(q, a) = F
  BY MultiChoiceParts
<1>2. \A i \in 1..n : e(i).ok /\ value[i] \in DOMAIN FillKey /\ value[i] \in Values(q)
  BY MultiChoiceParts
<1>3. \A i, j \in 1..n : value[i] = value[j] => i = j
  <2>1. \A i, j \in 1..n : e(i).value = e(j).value => i = j
    BY MultiChoiceParts
  <2>2. QED
    BY <2>1
<1>4. ASSUME NEW i \in 1..n
      PROVE  /\ value[i] # Empty => 1 \in DOMAIN ss[i]
             /\ \A j \in DOMAIN ss[i] :
                  \/ j = 1 /\ ss[i][j] = Row(q, Empty, Str(value[i])) /\ value[i] # Empty
                  \/ /\ j = 2 /\ ss[i][j] = Row(q, FillKey[value[i]], Str(text[i]))
                     /\ value[i] # Empty
  <2>1. /\ ss[i] = OptionRows(q, e(i), FillKey[value[i]])
        /\ e(i).value = value[i] /\ e(i).text = text[i]
    OBVIOUS
  <2>2. e(i).ok
    BY <1>2
  <2> HIDE DEF ss, e, value, text
  <2>3. /\ e(i).value # Empty => 1 \in DOMAIN ss[i]
        /\ \A j \in DOMAIN ss[i] :
             \/ j = 1 /\ ss[i][j] = Row(q, Empty, Str(e(i).value)) /\ e(i).value # Empty
             \/ /\ j = 2 /\ ss[i][j] = Row(q, FillKey[value[i]], Str(e(i).text))
                /\ e(i).value # Empty /\ e(i).text # Empty
    BY <2>1, <2>2, OptionRowsAre
  <2>4. QED
    BY <2>1, <2>3
<1>5. \A i \in 1..n : value[i] = Chosen(a.items[i]).value
  OBVIOUS
<1> HIDE DEF n, e, value, text, ss, F
<1>6. PICK at : Flattens(F, ss, n, at)
  BY <1>1
<1>7. ASSUME NEW i \in 1..n, value[i] # Empty
      PROVE  /\ at[i] \in Nat /\ at[i] + 1 \in DOMAIN F
             /\ F[at[i] + 1] = Row(q, Empty, Str(value[i]))
  <2>1. 1 \in DOMAIN ss[i]
    BY <1>4, <1>7
  <2>2. ss[i][1] = Row(q, Empty, Str(value[i]))
    BY <1>4, <2>1
  <2>3. QED
    BY <1>6, <2>1, <2>2 DEF Flattens
<1> DEFINE Main(k, i) == k = at[i] + 1 /\ F[k] = Row(q, Empty, Str(value[i]))
           Fill(k, i) == k = at[i] + 2 /\ F[k] = Row(q, FillKey[value[i]], Str(text[i]))
<1>8. ASSUME NEW k \in DOMAIN F
      PROVE  \E i \in 1..n : value[i] # Empty /\ (Main(k, i) \/ Fill(k, i))
  <2>1. PICK i \in 1..n : \E j \in DOMAIN ss[i] : k = at[i] + j
    BY <1>6 DEF Flattens
  <2>2. PICK j \in DOMAIN ss[i] : k = at[i] + j
    BY <2>1
  <2>3. F[k] = ss[i][j]
    BY <1>6, <2>2 DEF Flattens
  <2>4. QED
    BY <1>4, <2>2, <2>3
<1>9. \A k \in DOMAIN F, i \in 1..n :
        /\ Main(k, i) => F[k].qid = q.id /\ F[k].sub = Empty /\ F[k].value.str = value[i]
        /\ Fill(k, i) => /\ F[k].qid = q.id /\ F[k].sub = FillKey[value[i]]
                         /\ F[k].sub # Empty
  <2>1. \A i \in 1..n : FillKey[value[i]] # Empty
    BY <1>2, QuestionnaireAssumption
  <2>2. QED
    BY <2>1, RowIs, StrIs
<1>10. IsInjective(F)
  <2>1. SUFFICES ASSUME NEW k \in DOMAIN F, NEW l \in DOMAIN F, F[k] = F[l] PROVE k = l
    BY DEF IsInjective
  <2>2. PICK i \in 1..n : Main(k, i) \/ Fill(k, i)
    BY <1>8
  <2>3. PICK j \in 1..n : Main(l, j) \/ Fill(l, j)
    BY <1>8
  <2>4. CASE Main(k, i) /\ Main(l, j)
    <3>1. value[i] = value[j]
      BY <1>9, <2>1, <2>4
    <3>2. i = j
      BY <1>3, <3>1
    <3>3. QED
      BY <2>4, <3>2
  <2>5. CASE Fill(k, i) /\ Fill(l, j)
    <3>1. FillKey[value[i]] = FillKey[value[j]]
      BY <1>9, <2>1, <2>5
    <3>2. value[i] = value[j]
      BY <1>2, <3>1, QuestionnaireAssumption
    <3>3. i = j
      BY <1>3, <3>2
    <3>4. QED
      BY <2>5, <3>3
  <2>6. ~(Main(k, i) /\ Fill(l, j)) /\ ~(Fill(k, i) /\ Main(l, j))
    <3> HIDE DEF Main, Fill
    <3>1. QED
      BY <1>9, <2>1
  <2>7. QED
    BY <2>2, <2>3, <2>4, <2>5, <2>6
<1>11. ASSUME NEW k \in DOMAIN F PROVE RowFits(q, F[k], {F[l] : l \in 1..(k - 1)})
  <2> DEFINE earlier == {F[l] : l \in 1..(k - 1)}
  <2>1. PICK i \in 1..n : value[i] # Empty /\ (Main(k, i) \/ Fill(k, i))
    BY <1>8
  <2>2. CASE Main(k, i)
    <3> HIDE DEF earlier
    <3>1. RowFits(q, Row(q, Empty, Str(value[i])), earlier)
      BY <1>2, MainRowFits
    <3>2. QED
      BY <2>2, <3>1 DEF earlier
  <2>3. CASE Fill(k, i)
    <3>0. /\ at[i] \in Nat /\ F[at[i] + 1] = Row(q, Empty, Str(value[i]))
      BY <1>7, <2>1
    <3>1. at[i] + 1 \in 1..(k - 1)
      BY <3>0, <2>3
    <3>2. Row(q, Empty, Str(value[i])) \in earlier
      BY <3>0, <3>1
    <3> HIDE DEF earlier
    <3>3. RowFits(q, Row(q, FillKey[value[i]], Str(text[i])), earlier)
      BY <3>2, FillRowFits
    <3>4. QED
      BY <2>3, <3>3 DEF earlier
  <2>4. QED
    BY <2>1, <2>2, <2>3
<1>12. ASSUME q.required PROVE OnlyUnnamed(q, a, Empty) \/ \E k \in DOMAIN F : F[k].sub = Empty
  <2>1. CASE \E i \in 1..n : value[i] # Empty
    <3>1. PICK i \in 1..n : value[i] # Empty
      BY <2>1
    <3>2. at[i] + 1 \in DOMAIN F /\ F[at[i] + 1].sub = Empty
      BY <1>7, <3>1, RowIs
    <3>3. QED
      BY <3>2
  <2>2. CASE \A i \in 1..n : value[i] = Empty
    <3>1. 1 \in 1..n
      <4>1. a.items # <<>>
        BY <1>12 DEF MultiChoiceOk
      <4>2. n # 0
        BY <1>1, <4>1, EmptySeq DEF n, IsList
      <4>3. QED
        BY <1>1, <4>2
    <3>2. Empty \in Values(q)
      BY <1>2, <2>2, <3>1
    <3>3. a.kind = "array"
      BY DEF MultiChoiceOk
    <3>4. \A x \in ToSet(a.items) : Chosen(x).value = Empty
      BY <1>1, <1>5, <2>2 DEF ToSet
    <3>5. QED
      BY <3>2, <3>3, <3>4 DEF OnlyUnnamed
  <2>3. QED
    BY <2>1, <2>2
<1>13. Complete(q, a, F)
  <2>1. Demanded(q) = {Empty}
    BY DEF Demanded, LineTypes
  <2>2. QED
    BY <1>12, <2>1 DEF Complete
<1>14. \A k \in DOMAIN F : F[k].qid = q.id
  <2> HIDE DEF Main, Fill
  <2>1. QED
    BY <1>8, <1>9
<1>15. Apart(q, F)
  BY <1>10 DEF Apart, LineTypes
<1>16. Sound(q, a, F)
  BY <1>1, <1>11, <1>13, <1>14, <1>15 DEF Sound, Fits
<1>17. QED
  BY <1>1, <1>16

-----------------------------------------------------------------------------
\* Lines.

LEMMA LineList ==
  ASSUME NEW q, NEW line, NEW v, IsList(v)
  PROVE  LET l == [j \in DOMAIN v |-> Row(q, line, v[j])] IN IsList(l) /\ DOMAIN l = DOMAIN v
<1> DEFINE m == Len(v)
           l == [j \in DOMAIN v |-> Row(q, line, v[j])]
<1>1. m \in Nat /\ DOMAIN v = 1..m
  BY ListIs
<1>2. l = [j \in 1..m |-> l[j]]
  BY <1>1
<1> HIDE DEF m, l
<1>3. IsList(l) /\ DOMAIN l = 1..m
  BY <1>1, <1>2, ListOfLength
<1>4. QED
  BY <1>1, <1>3 DEF l

\* Where the rows of the lines are.
LEMMA LineParts ==
  ASSUME NEW q, DecodedQuestion(q),
         NEW values, \A i \in DOMAIN q.lines : IsList(values[i])
  PROVE  /\ Len(q.lines) \in Nat /\ DOMAIN q.lines = 1..Len(q.lines)
         /\ IsList(LineRows(q, values))
         /\ \E ss, at :
              /\ Flattens(LineRows(q, values), ss, Len(q.lines), at)
              /\ \A i \in DOMAIN q.lines :
                   /\ IsList(ss[i]) /\ DOMAIN ss[i] = DOMAIN values[i]
                   /\ \A j \in DOMAIN values[i] : ss[i][j] = Row(q, q.lines[i], values[i][j])
<1> DEFINE n == Len(q.lines)
           line(i) == [j \in DOMAIN values[i] |-> Row(q, q.lines[i], values[i][j])]
           ss == [i \in 1..n |-> line(i)]
           F == FlattenSeq(ss)
<1>1. n \in Nat /\ DOMAIN q.lines = 1..n
  BY ListIs DEF DecodedQuestion, IsList
<1>2. ASSUME NEW i \in 1..n PROVE IsList(line(i)) /\ DOMAIN line(i) = DOMAIN values[i]
  BY <1>1, LineList
<1>3. \A i \in 1..n : ss[i] = line(i)
  OBVIOUS
<1>4. ss = [i \in 1..n |-> ss[i]]
  OBVIOUS
<1>5. LineRows(q, values) = F
  BY <1>1 DEF LineRows
<1>6. \A i \in 1..n : \A j \in DOMAIN values[i] : line(i)[j] = Row(q, q.lines[i], values[i][j])
  OBVIOUS
<1> HIDE DEF n, ss, line
<1>7. IsList(F) /\ \E at : Flattens(F, ss, n, at)
  <2>1. \A i \in 1..n : IsList(ss[i])
    BY <1>2, <1>3
  <2>2. QED
    BY <1>1, <1>4, <2>1, FlattenIs
<1>8. \A i \in DOMAIN q.lines :
        /\ IsList(ss[i]) /\ DOMAIN ss[i] = DOMAIN values[i]
        /\ \A j \in DOMAIN values[i] : ss[i][j] = Row(q, q.lines[i], values[i][j])
  BY <1>1, <1>2, <1>3, <1>6
<1> HIDE DEF F
<1>9. QED
  BY <1>1, <1>5, <1>7, <1>8 DEF n

\* A row of a value of the line i.
OfLine(q, values, i, r) == \E j \in DOMAIN values[i] : r = Row(q, q.lines[i], values[i][j])

\* The rows of the lines are those of their cells.
LEMMA LineMembers ==
  ASSUME NEW q, DecodedQuestion(q),
         NEW values, \A i \in DOMAIN q.lines : IsList(values[i])
  PROVE  \A r : r \in ToSet(LineRows(q, values)) <=> \E i \in DOMAIN q.lines : OfLine(q, values, i, r)
<1>1. PICK ss, at : /\ Flattens(LineRows(q, values), ss, Len(q.lines), at)
                    /\ \A i \in DOMAIN q.lines :
                         /\ DOMAIN ss[i] = DOMAIN values[i]
                         /\ \A j \in DOMAIN values[i] : ss[i][j] = Row(q, q.lines[i], values[i][j])
  BY LineParts
<1>2. Len(q.lines) \in Nat /\ DOMAIN q.lines = 1..Len(q.lines)
  BY LineParts
<1>3. \A r : r \in ToSet(LineRows(q, values)) <=> \E i \in DOMAIN q.lines : r \in ToSet(ss[i])
  BY <1>1, <1>2, FlattenMembers
<1>4. \A i \in DOMAIN q.lines : \A r : r \in ToSet(ss[i]) <=> OfLine(q, values, i, r)
  BY <1>1 DEF ToSet, OfLine
<1>5. QED
  BY <1>3, <1>4

\* A question of lines whose cells, one list for each line, are all right.
LEMMA LineSound ==
  ASSUME NEW q, q.type \in LineTypes, DecodedQuestion(q), NEW a,
         NEW values,
         \A i \in DOMAIN q.lines :
           /\ IsList(values[i]) /\ IsInjective(values[i])
           /\ \A j \in DOMAIN values[i] : RowFits(q, Row(q, q.lines[i], values[i][j]), {})
           /\ q.required => values[i] # <<>> \/ OnlyUnnamed(q, a, q.lines[i])
  PROVE  Sound(q, a, LineRows(q, values))
<1> DEFINE n == Len(q.lines)
           F == LineRows(q, values)
<1>1. n \in Nat /\ DOMAIN q.lines = 1..n /\ IsList(F)
  BY LineParts
<1>2. PICK ss, at : /\ Flattens(F, ss, n, at)
                    /\ \A i \in DOMAIN q.lines :
                         /\ DOMAIN ss[i] = DOMAIN values[i]
                         /\ \A j \in DOMAIN values[i] : ss[i][j] = Row(q, q.lines[i], values[i][j])
  BY LineParts
<1> HIDE DEF n, F
<1> DEFINE At(k, i) == \E j \in DOMAIN values[i] :
                         k = at[i] + j /\ F[k] = Row(q, q.lines[i], values[i][j])
           line == [k \in DOMAIN F |-> CHOOSE i \in 1..n : At(k, i)]
<1>3. ASSUME NEW k \in DOMAIN F PROVE \E i \in 1..n : At(k, i)
  <2>1. PICK i \in 1..n : \E j \in DOMAIN ss[i] : k = at[i] + j
    BY <1>2 DEF Flattens
  <2>2. PICK j \in DOMAIN ss[i] : k = at[i] + j
    BY <2>1
  <2>3. F[k] = ss[i][j]
    BY <1>2, <2>2 DEF Flattens
  <2>4. j \in DOMAIN values[i] /\ F[k] = Row(q, q.lines[i], values[i][j])
    BY <1>1, <1>2, <2>2, <2>3
  <2>5. QED
    BY <2>2, <2>4
<1>4. ASSUME NEW k \in DOMAIN F PROVE line[k] \in 1..n /\ At(k, line[k])
  <2> HIDE DEF At
  <2>1. QED
    BY <1>3
<1> HIDE DEF line
<1>5. ASSUME NEW k \in DOMAIN F
      PROVE  /\ line[k] \in DOMAIN q.lines /\ q.lines[line[k]] = F[k].sub
             /\ \A l \in DOMAIN F : F[k] = F[l] /\ line[k] = line[l] => k = l
  <2>1. line[k] \in 1..n /\ At(k, line[k])
    BY <1>4
  <2>2. PICK j \in DOMAIN values[line[k]] :
          k = at[line[k]] + j /\ F[k] = Row(q, q.lines[line[k]], values[line[k]][j])
    BY <2>1
  <2>3. ASSUME NEW l \in DOMAIN F, F[k] = F[l], line[k] = line[l] PROVE k = l
    <3>1. At(l, line[l])
      BY <1>4
    <3>2. PICK r \in DOMAIN values[line[l]] :
            l = at[line[l]] + r /\ F[l] = Row(q, q.lines[line[l]], values[line[l]][r])
      BY <3>1
    <3>3. values[line[k]][j] = values[line[k]][r]
      <4>1. F[l] = Row(q, q.lines[line[k]], values[line[k]][r])
        BY <2>3, <3>2
      <4>2. F[k].value = values[line[k]][j]
        BY <2>2, RowIs
      <4>3. F[l].value = values[line[k]][r]
        BY <4>1, RowIs
      <4>4. QED
        BY <2>3, <4>2, <4>3
    <3>4. j = r
      BY <1>1, <2>1, <2>3, <3>2, <3>3 DEF IsInjective
    <3>5. QED
      BY <2>2, <2>3, <3>2, <3>4
  <2>4. QED
    BY <1>1, <2>1, <2>2, <2>3, RowIs
<1>6. Apart(q, F)
  <2>1. \A k \in DOMAIN F :
          /\ line[k] \in DOMAIN q.lines /\ q.lines[line[k]] = F[k].sub
          /\ \A l \in DOMAIN F : F[k] = F[l] /\ line[k] = line[l] => k = l
    BY <1>5
  <2>2. QED
    BY <2>1 DEF Apart, OnLines
<1>7. ASSUME NEW k \in DOMAIN F
      PROVE  F[k].qid = q.id /\ RowFits(q, F[k], {F[l] : l \in 1..(k - 1)})
  <2> DEFINE earlier == {F[l] : l \in 1..(k - 1)}
  <2>1. PICK i \in 1..n : At(k, i)
    BY <1>3
  <2>2. PICK j \in DOMAIN values[i] : F[k] = Row(q, q.lines[i], values[i][j])
    BY <2>1
  <2>3. RowFits(q, F[k], {})
    BY <1>1, <2>2
  <2> HIDE DEF earlier
  <2>4. RowFits(q, F[k], earlier)
    BY <2>3, RowFitsMore
  <2>5. QED
    BY <2>2, <2>4, RowIs DEF earlier
<1>8. ASSUME q.required, NEW sub \in Demanded(q)
      PROVE  OnlyUnnamed(q, a, sub) \/ \E k \in DOMAIN F : F[k].sub = sub
  <2>1. PICK i \in 1..n : sub = q.lines[i]
    BY <1>1 DEF Demanded, Lines, ToSet
  <2>2. CASE values[i] # <<>>
    <3>1. 1 \in DOMAIN values[i]
      <4>1. IsList(values[i])
        BY <1>1
      <4>2. Len(values[i]) \in Nat /\ Len(values[i]) # 0
        BY <2>2, <4>1, EmptySeq, LenProperties DEF IsList
      <4>3. QED
        BY <4>1, <4>2, ListIs
    <3>2. 1 \in DOMAIN ss[i] /\ ss[i][1] = Row(q, q.lines[i], values[i][1])
      BY <1>1, <1>2, <3>1
    <3>3. at[i] + 1 \in DOMAIN F /\ F[at[i] + 1] = ss[i][1]
      BY <1>2, <3>2 DEF Flattens
    <3>4. F[at[i] + 1].sub = sub
      BY <2>1, <3>2, <3>3, RowIs
    <3>5. QED
      BY <3>3, <3>4
  <2>3. CASE values[i] = <<>>
    BY <1>1, <1>8, <2>1, <2>3
  <2>4. QED
    BY <2>2, <2>3
<1>9. Sound(q, a, F)
  BY <1>1, <1>6, <1>7, <1>8 DEF Sound, Fits, Complete
<1>10. QED
  BY <1>9 DEF F

\* The lines at the positions S have one value each, w[i], and the others none.
LEMMA CellsSound ==
  ASSUME NEW q, q.type \in LineTypes, DecodedQuestion(q), NEW a,
         NEW S, NEW w, NEW values,
         values = [i \in DOMAIN q.lines |-> IF i \in S THEN <<w[i]>> ELSE <<>>],
         \A i \in DOMAIN q.lines : i \in S => RowFits(q, Row(q, q.lines[i], w[i]), {}),
         q.required => DOMAIN q.lines \subseteq S
  PROVE  Sound(q, a, LineRows(q, values))
<1>1. ASSUME NEW i \in DOMAIN q.lines
      PROVE  /\ IsList(values[i]) /\ IsInjective(values[i])
             /\ \A j \in DOMAIN values[i] : RowFits(q, Row(q, q.lines[i], values[i][j]), {})
             /\ q.required => values[i] # <<>>
  <2>1. CASE i \in S
    <3>1. values[i] = <<w[i]>>
      BY <2>1
    <3>2. /\ IsList(values[i]) /\ IsInjective(values[i]) /\ values[i] # <<>>
          /\ DOMAIN values[i] = {1} /\ values[i][1] = w[i]
      BY <3>1, NoneOrOne
    <3>3. RowFits(q, Row(q, q.lines[i], w[i]), {})
      BY <2>1
    <3>4. QED
      BY <3>2, <3>3
  <2>2. CASE i \notin S
    <3>1. values[i] = <<>> /\ ~q.required
      BY <2>2
    <3>2. QED
      BY <3>1, NoneOrOne
  <2>3. QED
    BY <2>1, <2>2
<1>2. QED
  BY <1>1, LineSound

\* What Field finds is there.
LEMMA FieldIs ==
  ASSUME NEW a, NEW k, Field(a, k).kind # "null"
  PROVE  k \in Keys(a) /\ Field(a, k) = a.fields[k] /\ a.kind = "object" /\ k \in DOMAIN a.fields
BY DEF Field, Keys, Null

LEMMA LineOf == \A q : \A i \in DOMAIN q.lines : q.lines[i] \in Lines(q)
BY DEF Lines, ToSet

LEMMA StrIsAnswered == \A v : StrAnswered(v) => IsAnswered(v) /\ v.kind # "null"
BY DEF StrAnswered, IsAnswered, Null, Str

LEMMA StringRowsSound ==
  ASSUME NEW q, q.type \in LineTypes, DecodedQuestion(q), NEW a,
         \A i \in DOMAIN q.lines :
           StrAnswered(Cell(q, a, i)) => RowFits(q, Row(q, q.lines[i], Cell(q, a, i)), {}),
         q.required => \A k \in Lines(q) : StrAnswered(Field(a, k))
  PROVE  Sound(q, a, StringRows(q, a))
<1> DEFINE S == {i \in DOMAIN q.lines : StrAnswered(Cell(q, a, i))}
           w == [i \in DOMAIN q.lines |-> Cell(q, a, i)]
           values == [i \in DOMAIN q.lines |-> Kept(Cell(q, a, i))]
<1>1. values = [i \in DOMAIN q.lines |-> IF i \in S THEN <<w[i]>> ELSE <<>>]
  BY DEF Kept
<1>2. \A i \in DOMAIN q.lines : i \in S => RowFits(q, Row(q, q.lines[i], w[i]), {})
  OBVIOUS
<1>3. q.required => DOMAIN q.lines \subseteq S
  BY LineOf DEF Cell
<1>4. StringRows(q, a) = LineRows(q, values)
  BY DEF StringRows
<1> HIDE DEF S, w, values
<1>5. Sound(q, a, LineRows(q, values))
  BY <1>1, <1>2, <1>3, CellsSound
<1>6. QED
  BY <1>4, <1>5

\* A filled cell is under a line and a key of the answer.
LEMMA FilledCell ==
  ASSUME NEW q, NEW a, NEW i \in DOMAIN q.lines, Cell(q, a, i).kind # "null"
  PROVE  q.lines[i] \in Keys(a) /\ q.lines[i] \in Lines(q) /\ Cell(q, a, i) = Field(a, q.lines[i])
BY FieldIs, LineOf DEF Cell

LEMMA MatrixSingleSound ==
  ASSUME NEW q, q.type = "matrix-single", DecodedQuestion(q), NEW a, MatrixSingleOk(q, a)
  PROVE  Sound(q, a, MatrixSingleRows(q, a))
<1>1. ASSUME NEW i \in DOMAIN q.lines, StrAnswered(Cell(q, a, i))
      PROVE  RowFits(q, Row(q, q.lines[i], Cell(q, a, i)), {})
  <2>1. /\ q.lines[i] \in Lines(q) /\ Cell(q, a, i).str \in Values(q)
        /\ Cell(q, a, i).kind = "string"
    BY <1>1, FilledCell, StrIsAnswered DEF MatrixSingleOk, StrAnswered
  <2>2. QED
    BY <2>1, RowIs DEF RowFits, LineTypes
<1>2. q.required => \A k \in Lines(q) : StrAnswered(Field(a, k))
  BY DEF MatrixSingleOk
<1>3. QED
  BY <1>1, <1>2, StringRowsSound DEF MatrixSingleRows, LineTypes

LEMMA MatrixFillSound ==
  ASSUME NEW q, q.type = "matrix-fill", DecodedQuestion(q), NEW a, MatrixFillOk(q, a)
  PROVE  Sound(q, a, MatrixFillRows(q, a))
<1>1. ASSUME NEW i \in DOMAIN q.lines, StrAnswered(Cell(q, a, i))
      PROVE  RowFits(q, Row(q, q.lines[i], Cell(q, a, i)), {})
  <2>1. /\ q.lines[i] \in Lines(q) /\ Cell(q, a, i).kind = "string"
        /\ q.max # Unset => Size[Cell(q, a, i).str] <= q.max
    BY <1>1, FilledCell, StrIsAnswered DEF MatrixFillOk
  <2>2. QED
    BY <2>1, RowIs DEF RowFits, LineTypes
<1>2. q.required => \A k \in Lines(q) : StrAnswered(Field(a, k))
  BY DEF MatrixFillOk
<1>3. QED
  BY <1>1, <1>2, StringRowsSound DEF MatrixFillRows, LineTypes

LEMMA MultiFillSound ==
  ASSUME NEW q, q.type = "multi-fill", DecodedQuestion(q), NEW a, MultiFillOk(q, a)
  PROVE  Sound(q, a, MultiFillRows(q, a))
<1>1. ASSUME NEW i \in DOMAIN q.lines, StrAnswered(Cell(q, a, i))
      PROVE  RowFits(q, Row(q, q.lines[i], Cell(q, a, i)), {})
  <2>1. q.lines[i] \in Lines(q) /\ TextOk(q.blanks[q.lines[i]], Cell(q, a, i))
    BY <1>1, FilledCell, StrIsAnswered DEF MultiFillOk
  <2>2. QED
    BY <2>1, RowIs DEF RowFits, LineTypes
<1>2. q.required => \A k \in Lines(q) : StrAnswered(Field(a, k))
  BY DEF MultiFillOk
<1>3. QED
  BY <1>1, <1>2, StringRowsSound DEF MultiFillRows, LineTypes

LEMMA MatrixSliderSound ==
  ASSUME NEW q, q.type = "matrix-slider", DecodedQuestion(q), NEW a, MatrixSliderOk(q, a)
  PROVE  Sound(q, a, MatrixSliderRows(q, a))
<1> DEFINE S == {i \in DOMAIN q.lines : Cell(q, a, i).kind = "number"}
           w == [i \in DOMAIN q.lines |-> Cell(q, a, i)]
           values == [i \in DOMAIN q.lines |->
                        IF Cell(q, a, i).kind = "number" THEN <<Cell(q, a, i)>> ELSE <<>>]
<1>1. values = [i \in DOMAIN q.lines |-> IF i \in S THEN <<w[i]>> ELSE <<>>]
  OBVIOUS
<1>2. ASSUME NEW i \in DOMAIN q.lines, i \in S
      PROVE  RowFits(q, Row(q, q.lines[i], w[i]), {})
  <2> DEFINE v == Cell(q, a, i)
  <2>1. v.kind = "number" /\ v # Null
    BY <1>2 DEF Null
  <2>2. /\ q.lines[i] \in Lines(q)
        /\ v.num \in Limit(q.min, 0)..Limit(q.max, 200)
    BY <2>1, FilledCell DEF MatrixSliderOk
  <2>3. q.min \in Int /\ q.max \in Int
    BY DEF DecodedQuestion
  <2>4. Limit(q.min, 0) \in Int /\ Limit(q.max, 200) \in Int
    BY <2>3 DEF Limit
  <2>5. w[i] = v
    OBVIOUS
  <2> HIDE DEF v, w, S, values
  <2>6. v.num >= Limit(q.min, 0) /\ v.num <= Limit(q.max, 200)
    BY <2>2, <2>4
  <2>7. QED
    BY <2>1, <2>2, <2>5, <2>6, RowIs DEF RowFits, LineTypes
<1>3. q.required => DOMAIN q.lines \subseteq S
  BY LineOf DEF Cell, MatrixSliderOk
<1>4. MatrixSliderRows(q, a) = LineRows(q, values)
  BY DEF MatrixSliderRows
<1>5. q.type \in LineTypes
  BY DEF LineTypes
<1> HIDE DEF S, w, values
<1>6. Sound(q, a, LineRows(q, values))
  BY <1>1, <1>2, <1>3, <1>5, CellsSound
<1>7. QED
  BY <1>4, <1>6

\* A column has a score, or its value stands for it.
LEMMA ScoredIs ==
  ASSUME NEW q, DecodedQuestion(q), NEW v, v.kind = "string", v.str \in Values(q)
  PROVE  \/ Scored(q, v).kind = "string" /\ Scored(q, v).str \in Values(q)
         \/ \E o \in ToSet(q.options) : o.score # Unset /\ Scored(q, v) = Num(o.score)
<1> DEFINE columns == Offers(q, v.str)
           last == Max(columns)
<1>1. IsList(q.options)
  BY DEF DecodedQuestion, IsList
<1>2. Len(q.options) \in Nat /\ DOMAIN q.options = 1..Len(q.options)
  BY <1>1, ListIs
<1>3. columns # {}
  BY DEF Offers, Values, ToSet
<1>4. last \in columns
  <2>1. columns \in SUBSET (1..Len(q.options))
    BY <1>2 DEF Offers
  <2> HIDE DEF columns
  <2>2. QED
    BY <1>2, <1>3, <2>1, MaxOfPositions
<1>5. q.options[last] \in ToSet(q.options)
  BY <1>4 DEF Offers, ToSet
<1>6. Scored(q, v) = IF q.options[last].score = Unset THEN v ELSE Num(q.options[last].score)
  BY <1>3 DEF Scored
<1> HIDE DEF last
<1>7. QED
  BY <1>5, <1>6

LEMMA MatrixScaleSound ==
  ASSUME NEW q, q.type = "matrix-scale", DecodedQuestion(q), NEW a, MatrixScaleOk(q, a)
  PROVE  Sound(q, a, MatrixScaleRows(q, a))
<1> DEFINE S == {i \in DOMAIN q.lines : StrAnswered(Cell(q, a, i))}
           w == [i \in DOMAIN q.lines |-> Scored(q, Cell(q, a, i))]
           values == [i \in DOMAIN q.lines |->
             IF StrAnswered(Cell(q, a, i)) THEN <<Scored(q, Cell(q, a, i))>> ELSE <<>>]
<1>1. values = [i \in DOMAIN q.lines |-> IF i \in S THEN <<w[i]>> ELSE <<>>]
  OBVIOUS
<1>2. \A i \in DOMAIN q.lines : w[i] = Scored(q, Cell(q, a, i))
  OBVIOUS
<1>3. \A i \in S : i \in DOMAIN q.lines /\ StrAnswered(Cell(q, a, i))
  OBVIOUS
<1>4. q.required => DOMAIN q.lines \subseteq S
  BY LineOf DEF Cell, MatrixScaleOk, MatrixSingleOk
<1>5. MatrixScaleRows(q, a) = LineRows(q, values)
  BY DEF MatrixScaleRows
<1>6. q.type \in LineTypes
  BY DEF LineTypes
<1> HIDE DEF S, w, values
<1>7. ASSUME NEW i \in DOMAIN q.lines, i \in S
      PROVE  RowFits(q, Row(q, q.lines[i], w[i]), {})
  <2> DEFINE v == Cell(q, a, i)
  <2>1. StrAnswered(v)
    BY <1>3, <1>7
  <2>2. v.kind = "string" /\ v.str \in Values(q) /\ q.lines[i] \in Lines(q)
    BY <2>1, FilledCell, StrIsAnswered DEF MatrixScaleOk, MatrixSingleOk, StrAnswered
  <2>3. w[i] = Scored(q, v)
    BY <1>2
  <2> HIDE DEF v
  <2>4. \/ w[i].kind = "string" /\ w[i].str \in Values(q)
        \/ \E o \in ToSet(q.options) : o.score # Unset /\ w[i] = Num(o.score)
    BY <2>2, <2>3, ScoredIs
  <2>5. QED
    BY <2>2, <2>4, RowIs DEF RowFits, LineTypes
<1>8. Sound(q, a, LineRows(q, values))
  BY <1>1, <1>4, <1>6, <1>7, CellsSound
<1>9. QED
  BY <1>5, <1>8

\* A cell whose items differ keeps the strings among them, each one once.
LEMMA KeptList ==
  ASSUME NEW items, IsList(items),
         \A i, j \in DOMAIN items : items[i] = items[j] => i = j,
         NEW F, F = FlattenSeq([j \in DOMAIN items |-> Kept(items[j])])
  PROVE  /\ IsList(F) /\ IsInjective(F)
         /\ \A k \in DOMAIN F : \E j \in DOMAIN items : StrAnswered(items[j]) /\ F[k] = items[j]
         /\ \A j \in DOMAIN items : StrAnswered(items[j]) => \E k \in DOMAIN F : F[k] = items[j]
<1> DEFINE n == Len(items)
           ss == [j \in 1..n |-> Kept(items[j])]
<1>1. n \in Nat /\ DOMAIN items = 1..n
  BY ListIs
<1>2. \A j \in 1..n : ss[j] = IF StrAnswered(items[j]) THEN <<items[j]>> ELSE <<>>
  BY <1>1 DEF Kept
<1>3. F = FlattenSeq(ss) /\ ss = [j \in 1..n |-> ss[j]]
  BY <1>1
<1> HIDE DEF ss
<1>4. ASSUME NEW j \in 1..n
      PROVE  /\ IsList(ss[j])
             /\ StrAnswered(items[j]) => DOMAIN ss[j] = {1} /\ ss[j][1] = items[j]
             /\ ~StrAnswered(items[j]) => DOMAIN ss[j] = {}
  <2>1. CASE StrAnswered(items[j])
    <3>1. ss[j] = <<items[j]>>
      BY <1>2, <2>1
    <3>2. QED
      BY <2>1, <3>1, NoneOrOne
  <2>2. CASE ~StrAnswered(items[j])
    <3>1. ss[j] = <<>>
      BY <1>2, <2>2
    <3>2. QED
      BY <2>2, <3>1, NoneOrOne
  <2>3. QED
    BY <2>1, <2>2
<1> HIDE DEF n
<1>5. IsList(F) /\ \E at : Flattens(F, ss, n, at)
  <2>1. \A j \in 1..n : IsList(ss[j])
    BY <1>4
  <2>2. ss = [j \in 1..n |-> ss[j]]
    BY <1>3
  <2>3. IsList(FlattenSeq(ss)) /\ \E at : Flattens(FlattenSeq(ss), ss, n, at)
    BY <1>1, <2>1, <2>2, FlattenIs
  <2>4. QED
    BY <1>3, <2>3
<1>6. PICK at : Flattens(F, ss, n, at)
  BY <1>5
<1>7. ASSUME NEW k \in DOMAIN F
      PROVE  \E j \in 1..n : StrAnswered(items[j]) /\ k = at[j] + 1 /\ F[k] = items[j]
  <2>1. PICK j \in 1..n : \E i \in DOMAIN ss[j] : k = at[j] + i
    BY <1>6 DEF Flattens
  <2>2. StrAnswered(items[j]) /\ 1 \in DOMAIN ss[j] /\ k = at[j] + 1
    BY <1>4, <2>1
  <2>3. F[k] = items[j]
    BY <1>4, <1>6, <2>2 DEF Flattens
  <2>4. QED
    BY <2>2, <2>3
<1>8. IsInjective(F)
  <2>1. SUFFICES ASSUME NEW k \in DOMAIN F, NEW l \in DOMAIN F, F[k] = F[l] PROVE k = l
    BY DEF IsInjective
  <2>2. PICK i \in 1..n : k = at[i] + 1 /\ F[k] = items[i]
    BY <1>7
  <2>3. PICK j \in 1..n : l = at[j] + 1 /\ F[l] = items[j]
    BY <1>7
  <2>4. i = j
    BY <1>1, <2>1, <2>2, <2>3
  <2>5. QED
    BY <2>2, <2>3, <2>4
<1>9. ASSUME NEW j \in 1..n, StrAnswered(items[j]) PROVE \E k \in DOMAIN F : F[k] = items[j]
  <2>1. 1 \in DOMAIN ss[j] /\ ss[j][1] = items[j]
    BY <1>4, <1>9
  <2>2. at[j] + 1 \in DOMAIN F /\ F[at[j] + 1] = items[j]
    BY <1>6, <2>1 DEF Flattens
  <2>3. QED
    BY <2>2
<1>10. QED
  BY <1>1, <1>5, <1>7, <1>8, <1>9

LEMMA CellItemsDiffer ==
  ASSUME NEW q, NEW v, IsList(v.items), MatrixMultiCellOk(q, v)
  PROVE  \A j, k \in DOMAIN v.items : v.items[j] = v.items[k] => j = k
<1> DEFINE items == v.items
<1>1. Cardinality(ToSet(items)) = Len(items)
  BY DEF MatrixMultiCellOk
<1>2. IsList(items)
  OBVIOUS
<1> HIDE DEF items
<1>3. /\ Len(items) \in Nat /\ DOMAIN items = 1..Len(items)
      /\ items = [j \in 1..Len(items) |-> items[j]]
  BY <1>2, ListIs
<1>4. ToSet(items) = {items[j] : j \in 1..Len(items)}
  BY <1>3 DEF ToSet
<1>5. \A j, k \in 1..Len(items) : items[j] = items[k] => j = k
  BY <1>1, <1>3, <1>4, AllDifferent
<1>6. QED
  BY <1>3, <1>5 DEF items

\* A cell of an accepted matrix-multi answer, and its strings.
LEMMA MultiCell ==
  ASSUME NEW q, NEW a, DecodedAnswer(a), MatrixMultiOk(q, a), NEW k,
         Field(a, k).kind = "array"
  PROVE  LET items == Field(a, k).items
         IN  /\ k \in Keys(a) /\ IsList(items)
             /\ \A j \in DOMAIN items : /\ k \in Lines(q) /\ items[j].kind = "string"
                                        /\ items[j].str \in Values(q)
                                        /\ IsAnswered(items[j]) <=> StrAnswered(items[j])
             /\ \A i, j \in DOMAIN items : items[i] = items[j] => i = j
<1> DEFINE v == Field(a, k)
           items == v.items
<1>1. v # Null /\ v.kind # "null"
  BY DEF Null
<1>2. k \in Keys(a) /\ v = a.fields[k] /\ a.kind = "object" /\ k \in DOMAIN a.fields
  BY <1>1, FieldIs
<1>3. Decoded(v) /\ \A j \in DOMAIN items : Decoded(items[j])
  <2>1. k \in Elements(a) /\ Element(a, k) = v
    BY <1>2 DEF Elements, Element
  <2>2. Decoded(v) /\ \A j \in Elements(v) : Decoded(Element(v, j))
    BY <2>1 DEF DecodedAnswer
  <2>3. Elements(v) = DOMAIN items /\ \A j : Element(v, j) = items[j]
    BY DEF Elements, Element
  <2>4. QED
    BY <2>2, <2>3
<1>4. IsList(items)
  BY <1>3 DEF Decoded, IsList
<1>5. items # <<>> => k \in Lines(q) /\ MatrixMultiCellOk(q, v)
  BY <1>1, <1>2 DEF MatrixMultiOk, MatrixMultiCellsOk
<1> HIDE DEF v
<1>6. \A j \in DOMAIN items : items # <<>>
  BY NoneOrOne
<1>7. ASSUME NEW j \in DOMAIN items
      PROVE  /\ k \in Lines(q) /\ items[j].kind = "string" /\ items[j].str \in Values(q)
             /\ IsAnswered(items[j]) <=> StrAnswered(items[j])
  <2>1. k \in Lines(q) /\ items[j].kind = "string" /\ items[j].str \in Values(q)
    BY <1>5, <1>6 DEF MatrixMultiCellOk
  <2>2. IsAnswered(items[j]) => StrAnswered(items[j])
    BY <1>3, <2>1 DEF Decoded, IsAnswered, StrAnswered
  <2>3. QED
    BY <2>1, <2>2, StrIsAnswered
<1>8. \A i, j \in DOMAIN items : items[i] = items[j] => i = j
  <2>1. CASE items = <<>>
    BY <2>1, NoneOrOne
  <2>2. CASE items # <<>>
    BY <1>4, <1>5, <2>2, CellItemsDiffer
  <2>3. QED
    BY <2>1, <2>2
<1>9. QED
  BY <1>2, <1>4, <1>7, <1>8 DEF v

\* What LineRows is given by matrix-multi.
MultiValues(q, a) ==
  [i \in DOMAIN q.lines |->
    IF Cell(q, a, i).kind = "array"
    THEN FlattenSeq([j \in DOMAIN Cell(q, a, i).items |-> Kept(Cell(q, a, i).items[j])])
    ELSE <<>>]

LEMMA MultiValuesAre ==
  ASSUME NEW q, NEW a, DecodedAnswer(a), MatrixMultiOk(q, a), NEW i \in DOMAIN q.lines
  PROVE  LET v == Cell(q, a, i)
             l == MultiValues(q, a)[i]
         IN  /\ IsList(l) /\ IsInjective(l)
             /\ \A k \in DOMAIN l : v.kind = "array" /\ \E j \in DOMAIN v.items :
                                    StrAnswered(v.items[j]) /\ l[k] = v.items[j]
             /\ v.kind = "array" => \A j \in DOMAIN v.items :
                  StrAnswered(v.items[j]) => \E k \in DOMAIN l : l[k] = v.items[j]
<1> DEFINE v == Cell(q, a, i)
           l == MultiValues(q, a)[i]
           items == v.items
<1>1. CASE v.kind # "array"
  <2>1. l = <<>>
    BY <1>1 DEF MultiValues
  <2> HIDE DEF l, v
  <2>2. QED
    BY <1>1, <2>1, NoneOrOne DEF l, v
<1>2. CASE v.kind = "array"
  <2>1. l = FlattenSeq([j \in DOMAIN items |-> Kept(items[j])])
    BY <1>2 DEF MultiValues
  <2>2. IsList(items) /\ \A j, k \in DOMAIN items : items[j] = items[k] => j = k
    BY <1>2, MultiCell DEF Cell
  <2> HIDE DEF l, items
  <2>3. /\ IsList(l) /\ IsInjective(l)
        /\ \A k \in DOMAIN l : \E j \in DOMAIN items : StrAnswered(items[j]) /\ l[k] = items[j]
        /\ \A j \in DOMAIN items : StrAnswered(items[j]) => \E k \in DOMAIN l : l[k] = items[j]
    BY <2>1, <2>2, KeptList
  <2>4. QED
    BY <1>2, <2>3 DEF items, l
<1>3. QED
  BY <1>1, <1>2

\* A cell of a required question that keeps nothing.
LEMMA MultiUnnamed ==
  ASSUME NEW q, q.type = "matrix-multi", NEW a, DecodedAnswer(a), MatrixMultiOk(q, a),
         q.required, NEW k \in Lines(q),
         \A j \in DOMAIN Field(a, k).items : ~StrAnswered(Field(a, k).items[j])
  PROVE  OnlyUnnamed(q, a, k)
<1> DEFINE v == Field(a, k)
           items == v.items
<1>1. v.kind = "array" /\ items # <<>>
  BY DEF MatrixMultiOk
<1>2. /\ IsList(items)
      /\ \A j \in DOMAIN items : items[j].kind = "string" /\ items[j].str \in Values(q)
  BY <1>1, MultiCell
<1>3. \A j \in DOMAIN items : items[j].str = Empty
  BY <1>2 DEF StrAnswered
<1>4. \A e \in ToSet(items) : Chosen(e).value = Empty
  BY <1>2, <1>3 DEF Chosen, ToSet
<1> HIDE DEF v
<1>5. 1 \in DOMAIN items
  <2>1. Len(items) \in Nat /\ Len(items) # 0
    BY <1>1, <1>2, EmptySeq, LenProperties DEF IsList
  <2>2. QED
    BY <1>2, <2>1, ListIs
<1>6. Empty \in Values(q)
  BY <1>2, <1>3, <1>5
<1>7. QED
  BY <1>1, <1>4, <1>6 DEF OnlyUnnamed, v

LEMMA MatrixMultiSound ==
  ASSUME NEW q, q.type = "matrix-multi", DecodedQuestion(q), NEW a, DecodedAnswer(a),
         MatrixMultiOk(q, a)
  PROVE  Sound(q, a, MatrixMultiRows(q, a))
<1> DEFINE values == MultiValues(q, a)
<1>1. MatrixMultiRows(q, a) = LineRows(q, values)
  BY DEF MatrixMultiRows, MultiValues
<1>2. q.type \in LineTypes
  BY DEF LineTypes
<1> HIDE DEF values
<1>3. ASSUME NEW i \in DOMAIN q.lines
      PROVE  /\ IsList(values[i]) /\ IsInjective(values[i])
             /\ \A j \in DOMAIN values[i] : RowFits(q, Row(q, q.lines[i], values[i][j]), {})
             /\ q.required => values[i] # <<>> \/ OnlyUnnamed(q, a, q.lines[i])
  <2> DEFINE v == Cell(q, a, i)
  <2>1. /\ IsList(values[i]) /\ IsInjective(values[i])
        /\ \A k \in DOMAIN values[i] : v.kind = "array" /\ \E j \in DOMAIN v.items :
                                      StrAnswered(v.items[j]) /\ values[i][k] = v.items[j]
        /\ v.kind = "array" => \A j \in DOMAIN v.items :
             StrAnswered(v.items[j]) => \E k \in DOMAIN values[i] : values[i][k] = v.items[j]
    BY MultiValuesAre DEF values
  <2>2. ASSUME NEW k \in DOMAIN values[i]
        PROVE  RowFits(q, Row(q, q.lines[i], values[i][k]), {})
    <3>1. PICK j \in DOMAIN v.items : values[i][k] = v.items[j]
      BY <2>1
    <3>2. v.kind = "array"
      BY <2>1
    <3>3. /\ q.lines[i] \in Lines(q) /\ v.items[j].kind = "string"
          /\ v.items[j].str \in Values(q)
      BY <3>2, MultiCell DEF Cell
    <3>4. QED
      BY <3>1, <3>3, RowIs DEF RowFits, LineTypes
  <2>3. ASSUME q.required, values[i] = <<>> PROVE OnlyUnnamed(q, a, q.lines[i])
    <3>1. v.kind = "array" /\ q.lines[i] \in Lines(q) /\ v = Field(a, q.lines[i])
      BY <2>3, LineOf DEF Cell, MatrixMultiOk
    <3>2. DOMAIN values[i] = {}
      BY <2>3, NoneOrOne
    <3>3. \A j \in DOMAIN v.items : ~StrAnswered(v.items[j])
      BY <2>1, <3>1, <3>2
    <3>4. QED
      BY <2>3, <3>1, <3>3, MultiUnnamed
  <2>4. QED
    BY <2>1, <2>2, <2>3
<1>4. Sound(q, a, LineRows(q, values))
  BY <1>2, <1>3, LineSound
<1>5. QED
  BY <1>1, <1>4

-----------------------------------------------------------------------------
\* Every handler keeps its promise.
LEMMA HandlerSound ==
  ASSUME NEW q, DecodedQuestion(q), NEW a, DecodedAnswer(a), IsAnswered(a), Valid(q, a),
         q.type \in RegisteredTypes
  PROVE  Sound(q, a, Normalize(q, a))
<1>1. CASE q.type = "single-choice"
  BY <1>1, SingleChoiceSound DEF Valid, Normalize
<1>2. CASE q.type = "multi-choice"
  BY <1>2, MultiChoiceSound DEF Valid, Normalize
<1>3. CASE q.type = "dropdown"
  BY <1>3, DropdownSound DEF Valid, Normalize
<1>4. CASE q.type = "scale"
  BY <1>4, ScaleSound DEF Valid, Normalize
<1>5. CASE q.type = "text-input"
  BY <1>5, TextInputSound DEF Valid, Normalize
<1>6. CASE q.type = "textarea"
  BY <1>6, TextareaSound DEF Valid, Normalize
<1>7. CASE q.type = "matrix-single"
  BY <1>7, MatrixSingleSound DEF Valid, Normalize
<1>8. CASE q.type = "matrix-multi"
  BY <1>8, MatrixMultiSound DEF Valid, Normalize
<1>9. CASE q.type = "matrix-scale"
  BY <1>9, MatrixScaleSound DEF Valid, Normalize
<1>10. CASE q.type = "matrix-fill"
  BY <1>10, MatrixFillSound DEF Valid, Normalize
<1>11. CASE q.type = "matrix-slider"
  BY <1>11, MatrixSliderSound DEF Valid, Normalize
<1>12. CASE q.type = "multi-fill"
  BY <1>12, MultiFillSound DEF Valid, Normalize
<1>13. QED
  BY <1>1, <1>2, <1>3, <1>4, <1>5, <1>6, <1>7, <1>8, <1>9, <1>10, <1>11, <1>12
     DEF RegisteredTypes, LineTypes

-----------------------------------------------------------------------------
\* The rows are what the answer says.

Says(q, a, s) == \A r : r \in ToSet(s) <=> r \in Said(q, a)

LEMMA SaidIs ==
  ASSUME NEW q, NEW a
  PROVE  \A r : r \in Said(q, a) <=> \E p \in Held(a) : ~PassedOver(q, a, p) /\ r = RowOf(q, a, p)
BY DEF Said

\* The elements of the element k of a that hold something.
HeldIn(a, k) == {l \in Elements(Element(a, k)) : IsAnswered(Element(Element(a, k), l))}

LEMMA HeldAre ==
  ASSUME NEW a
  PROVE  /\ IsScalar(a) => Held(a) = {<<>>}
         /\ ~IsScalar(a) => \A p : p \in Held(a) <=>
              \/ \E k \in Elements(a) : IsScalar(Element(a, k)) /\ p = <<k>>
              \/ \E k \in Elements(a) : \E l \in HeldIn(a, k) : p = <<k, l>>
<1>1. IsScalar(a) => Elements(a) = {}
  BY DEF IsScalar, Elements
<1>2. QED
  BY <1>1 DEF Held, HeldIn

LEMMA PathIs ==
  /\ \A k : <<k>> # <<>> /\ <<k>>[1] = k /\ Len(<<k>>) = 1
  /\ \A k, l : <<k, l>> # <<>> /\ <<k, l>>[1] = k /\ <<k, l>>[2] = l /\ Len(<<k, l>>) = 2
OBVIOUS

LEMMA NoElements == \A v : ~IsAnswered(v) \/ v.kind = "string" => Elements(v) = {}
<1>1. ASSUME NEW v, ~IsAnswered(v) PROVE Elements(v) = {}
  <2>1. v.kind \in {"null", "string"}
    BY <1>1, StrIs DEF IsAnswered, Null
  <2>2. QED
    BY <2>1 DEF Elements
<1>2. ASSUME NEW v, v.kind = "string" PROVE Elements(v) = {}
  BY <1>2 DEF Elements
<1>3. QED
  BY <1>1, <1>2

LEMMA StrIsScalar == \A v : StrAnswered(v) => IsScalar(v)
BY StrIsAnswered DEF IsScalar, StrAnswered

\* A decoded string that counts as answered is a text.
LEMMA AnsweredText ==
  ASSUME NEW v, Decoded(v), IsAnswered(v), v.kind = "string"
  PROVE  StrAnswered(v)
BY DEF Decoded, IsAnswered, StrAnswered

LEMMA OneValueSaid ==
  ASSUME NEW q, NEW a, DecodedAnswer(a), IsAnswered(a), Valid(q, a),
         q.type \in {"dropdown", "scale", "text-input", "textarea"}
  PROVE  Says(q, a, Normalize(q, a))
<1>1. IsScalar(a) /\ Normalize(q, a) = <<Row(q, Empty, a)>>
  <2>1. CASE q.type = "scale"
    <3>1. a.kind = "number"
      BY <2>1 DEF Valid, ScaleOk
    <3>2. QED
      BY <2>1, <3>1 DEF Normalize, ScaleRows, IsScalar
  <2>2. CASE q.type # "scale"
    <3>1. a.kind = "string"
      BY <2>2 DEF Valid, DropdownOk, TextOk, TextareaOk
    <3>2. StrAnswered(a) /\ IsScalar(a)
      BY <3>1, AnsweredString, StrIsScalar
    <3>3. Normalize(q, a) = TextRows(q, a)
      BY <2>2 DEF Normalize, DropdownRows
    <3>4. QED
      BY <3>2, <3>3 DEF TextRows
  <2>3. QED
    BY <2>1, <2>2
<1>2. Held(a) = {<<>>}
  BY <1>1, HeldAre
<1>3. ~PassedOver(q, a, <<>>)
  BY DEF PassedOver, LineTypes
<1>4. RowOf(q, a, <<>>) = Row(q, Empty, a)
  BY DEF RowOf, LineTypes
<1>5. \A r : r \in Said(q, a) <=> r = Row(q, Empty, a)
  BY <1>2, <1>3, <1>4, SaidIs
<1>6. ToSet(Normalize(q, a)) = {Row(q, Empty, a)}
  BY <1>1, NoneOrOne DEF ToSet
<1>7. QED
  BY <1>5, <1>6 DEF Says

\* What a chosen option says: its value, and the text filled in when there is one.
Main(v) == Chosen(v).value # Empty

Filled(v) == Chosen(v).value # Empty /\ Chosen(v).text # Empty

LEMMA OptionMembers ==
  ASSUME NEW q, NEW v, NEW sub, Chosen(v).ok
  PROVE  \A r : r \in ToSet(OptionRows(q, Chosen(v), sub)) <=>
           \/ Main(v) /\ r = Row(q, Empty, Str(Chosen(v).value))
           \/ Filled(v) /\ r = Row(q, sub, Str(Chosen(v).text))
<1> DEFINE s == OptionRows(q, Chosen(v), sub)
           e == Chosen(v)
<1>0. s = OptionRows(q, e, sub) /\ e.ok
  OBVIOUS
<1> HIDE DEF s, e
<1>1. /\ e.value # Empty => 1 \in DOMAIN s
      /\ \A j \in DOMAIN s :
           \/ j = 1 /\ s[j] = Row(q, Empty, Str(e.value)) /\ e.value # Empty
           \/ /\ j = 2 /\ s[j] = Row(q, sub, Str(e.text))
              /\ e.value # Empty /\ e.text # Empty
      /\ e.value # Empty /\ e.text # Empty => 2 \in DOMAIN s
  BY <1>0, OptionRowsAre
<1>2. \A r : r \in ToSet(s) <=>
        \/ e.value # Empty /\ r = Row(q, Empty, Str(e.value))
        \/ e.value # Empty /\ e.text # Empty /\ r = Row(q, sub, Str(e.text))
  <2>1. ASSUME NEW r, r \in ToSet(s)
        PROVE  \/ e.value # Empty /\ r = Row(q, Empty, Str(e.value))
               \/ e.value # Empty /\ e.text # Empty /\ r = Row(q, sub, Str(e.text))
    BY <1>1, <2>1 DEF ToSet
  <2>2. ASSUME e.value # Empty PROVE Row(q, Empty, Str(e.value)) \in ToSet(s)
    <3>1. 1 \in DOMAIN s /\ s[1] = Row(q, Empty, Str(e.value))
      BY <1>1, <2>2
    <3>2. QED
      BY <3>1 DEF ToSet
  <2>3. ASSUME e.value # Empty, e.text # Empty PROVE Row(q, sub, Str(e.text)) \in ToSet(s)
    <3>1. 2 \in DOMAIN s /\ s[2] = Row(q, sub, Str(e.text))
      BY <1>1, <2>3
    <3>2. QED
      BY <3>1 DEF ToSet
  <2>4. QED
    BY <2>1, <2>2, <2>3
<1>3. QED
  BY <1>2 DEF s, e, Main, Filled

\* A choice that is a string.
LEMMA PlainChoice ==
  ASSUME NEW v, Decoded(v), v.kind = "string"
  PROVE  /\ IsScalar(v) <=> Main(v)
         /\ ~Filled(v) /\ v = Str(Chosen(v).value) /\ Elements(v) = {}
<1>1. v = Str(v.str) /\ Chosen(v).value = v.str /\ Chosen(v).text = Empty
  BY DEF Decoded, Chosen
<1>2. IsAnswered(v) <=> v.str # Empty
  <2>1. IsAnswered(v) => v.str # Empty
    BY AnsweredText DEF StrAnswered
  <2>2. v.str # Empty => IsAnswered(v)
    BY StrIsAnswered DEF StrAnswered
  <2>3. QED
    BY <2>1, <2>2
<1>3. QED
  BY <1>1, <1>2, NoElements DEF IsScalar, Main, Filled

\* A choice that is an object: of its fields, those that are answered and not passed
\* over are the value and the text.
LEMMA FieldsOfChoice ==
  ASSUME NEW v, \A l \in Elements(v) : Decoded(Element(v, l)), Chosen(v).ok, v.kind # "string"
  PROVE  /\ v.kind = "object" /\ ~IsScalar(v)
         /\ \A l \in Elements(v) : ~PassedOverOfChoice(v, l) => Element(v, l).kind = "string"
         /\ \A l : l \in Elements(v) /\ IsAnswered(Element(v, l)) /\ ~PassedOverOfChoice(v, l) <=>
              (l = "value" /\ Main(v)) \/ (l = "text" /\ Filled(v))
         /\ Element(v, "value") = Str(Chosen(v).value)
         /\ Filled(v) => Element(v, "text") = Str(Chosen(v).text)
<1> DEFINE value == v.fields["value"]
           text == v.fields["text"]
<1>1. Field(v, "value").kind = "string"
  BY DEF Chosen
<1>2. v.kind = "object" /\ "value" \in DOMAIN v.fields /\ Field(v, "value") = value
  BY <1>1, FieldIs
<1>3. Elements(v) = DOMAIN v.fields /\ \A l : Element(v, l) = v.fields[l]
  BY <1>2 DEF Elements, Element
<1>4. ~IsScalar(v)
  BY <1>2 DEF IsScalar
<1>5. Decoded(value) /\ value.kind = "string" /\ Chosen(v).value = value.str
  BY <1>1, <1>2, <1>3 DEF Chosen
<1>6. value = Str(Chosen(v).value)
  BY <1>5 DEF Decoded
<1>7. IsAnswered(value) <=> Main(v)
  <2>1. IsAnswered(value) => value.str # Empty
    BY <1>5, AnsweredText DEF StrAnswered
  <2>2. value.str # Empty => IsAnswered(value)
    BY <1>5, StrIsAnswered DEF StrAnswered
  <2>3. QED
    BY <1>5, <2>1, <2>2 DEF Main
<1>8. "text" \notin DOMAIN v.fields => Chosen(v).text = Empty
  <2>1. "text" \in DOMAIN v.fields \/ Field(v, "text") = Null
    BY DEF Field
  <2>2. QED
    BY <1>1, <2>1 DEF Chosen, Null
<1>9. ASSUME "text" \in DOMAIN v.fields
      PROVE  /\ Chosen(v).text = IF text.kind = "string" THEN text.str ELSE Empty
             /\ text.kind = "string" => /\ text = Str(Chosen(v).text)
                                        /\ IsAnswered(text) <=> Chosen(v).text # Empty
  <2>1. Field(v, "text") = text /\ Decoded(text)
    BY <1>2, <1>3, <1>9 DEF Field
  <2>2. Chosen(v).text = IF text.kind = "string" THEN text.str ELSE Empty
    BY <1>1, <2>1 DEF Chosen
  <2> HIDE DEF text
  <2>3. ASSUME text.kind = "string" PROVE IsAnswered(text) <=> text.str # Empty
    <3>1. IsAnswered(text) => text.str # Empty
      BY <2>1, <2>3, AnsweredText DEF StrAnswered
    <3>2. text.str # Empty => IsAnswered(text)
      BY <2>3, StrIsAnswered DEF StrAnswered
    <3>3. QED
      BY <3>1, <3>2
  <2>4. text.kind = "string" => text = Str(text.str)
    BY <2>1 DEF Decoded
  <2>5. QED
    BY <2>2, <2>3, <2>4
<1>10. ASSUME NEW l
       PROVE  PassedOverOfChoice(v, l) <=>
                \/ l \notin {"value", "text"}
                \/ l = "text" /\ (text.kind # "string" \/ ~Main(v))
  BY <1>3 DEF PassedOverOfChoice, Main
<1>11. "text" \in DOMAIN v.fields /\ text.kind = "string" <=>
         "text" \in DOMAIN v.fields /\ text.kind = "string" /\ (IsAnswered(text) <=> Chosen(v).text # Empty)
  BY <1>9
<1>12. Chosen(v).text # Empty => "text" \in DOMAIN v.fields /\ text.kind = "string"
  BY <1>8, <1>9
<1>13. \A l : l \in Elements(v) /\ IsAnswered(Element(v, l)) /\ ~PassedOverOfChoice(v, l) <=>
         (l = "value" /\ Main(v)) \/ (l = "text" /\ Filled(v))
  <2>1. "value" \in Elements(v) /\ ~PassedOverOfChoice(v, "value") /\ Element(v, "value") = value
    BY <1>2, <1>3, <1>10
  <2>2. Element(v, "text") = text
    BY <1>3
  <2>3. "text" \in Elements(v) /\ IsAnswered(text) /\ ~PassedOverOfChoice(v, "text") <=> Filled(v)
    <3>1. Filled(v) <=> Main(v) /\ Chosen(v).text # Empty
      BY DEF Main, Filled
    <3>2. ~PassedOverOfChoice(v, "text") <=> text.kind = "string" /\ Main(v)
      BY <1>10
    <3>3. "text" \in Elements(v) <=> "text" \in DOMAIN v.fields
      BY <1>3
    <3> HIDE DEF text
    <3>4. QED
      BY <1>11, <1>12, <3>1, <3>2, <3>3
  <2>4. \A l : l \notin {"value", "text"} => PassedOverOfChoice(v, l)
    BY <1>10
  <2> HIDE DEF value, text
  <2>5. QED
    BY <1>7, <2>1, <2>2, <2>3, <2>4
<1>14. \A l \in Elements(v) : ~PassedOverOfChoice(v, l) => Element(v, l).kind = "string"
  BY <1>3, <1>5, <1>10
<1>15. Filled(v) => Element(v, "text") = Str(Chosen(v).text)
  BY <1>3, <1>9, <1>12 DEF Filled
<1>16. QED
  BY <1>2, <1>3, <1>4, <1>6, <1>13, <1>14, <1>15

LEMMA SingleRowOf ==
  ASSUME NEW q, q.type = "single-choice", NEW a, NEW p
  PROVE  RowOf(q, a, p) = IF p = <<"text">> THEN Row(q, "fill", Element(a, "text"))
                          ELSE Row(q, Empty, IF p = <<>> THEN a ELSE Element(a, "value"))
BY DEF RowOf, LineTypes

LEMMA SingleChoiceSaid ==
  ASSUME NEW q, q.type = "single-choice", DecodedQuestion(q), NEW a, DecodedAnswer(a),
         IsAnswered(a), SingleChoiceOk(q, a)
  PROVE  Says(q, a, SingleChoiceRows(q, a))
<1> DEFINE e == Chosen(a)
           main == Row(q, Empty, Str(e.value))
           fill == Row(q, "fill", Str(e.text))
<1>1. Chosen(a).ok
  BY SingleChoiceIs
<1>2. \A r : r \in ToSet(SingleChoiceRows(q, a)) <=> (Main(a) /\ r = main) \/ (Filled(a) /\ r = fill)
  BY <1>1, OptionMembers DEF SingleChoiceRows
<1>3. Decoded(a) /\ \A l \in Elements(a) : Decoded(Element(a, l))
  BY DEF DecodedAnswer
<1>4. \A r : r \in Said(q, a) <=> (Main(a) /\ r = main) \/ (Filled(a) /\ r = fill)
  <2>1. CASE a.kind = "string"
    <3>1. IsScalar(a) /\ Main(a) /\ ~Filled(a) /\ a = Str(e.value)
      <4>1. IsScalar(a)
        BY <2>1 DEF IsScalar
      <4>2. QED
        BY <1>3, <2>1, <4>1, PlainChoice
    <3>2. Held(a) = {<<>>}
      BY <3>1, HeldAre
    <3>3. ~PassedOver(q, a, <<>>)
      BY DEF PassedOver, LineTypes
    <3>4. RowOf(q, a, <<>>) = Row(q, Empty, a)
      <4>1. <<>> # <<"text">>
        OBVIOUS
      <4>2. QED
        BY <4>1, SingleRowOf
    <3> HIDE DEF e
    <3>5. QED
      BY <3>1, <3>2, <3>3, <3>4, SaidIs
  <2>2. CASE a.kind # "string"
    <3>1. /\ ~IsScalar(a)
          /\ \A l \in Elements(a) : ~PassedOverOfChoice(a, l) => Element(a, l).kind = "string"
          /\ \A l : l \in Elements(a) /\ IsAnswered(Element(a, l)) /\ ~PassedOverOfChoice(a, l) <=>
               (l = "value" /\ Main(a)) \/ (l = "text" /\ Filled(a))
          /\ Element(a, "value") = Str(e.value)
          /\ Filled(a) => Element(a, "text") = Str(e.text)
      BY <1>1, <1>3, <2>2, FieldsOfChoice
    <3>2. /\ \A k : PassedOver(q, a, <<k>>) <=> PassedOverOfChoice(a, k)
          /\ \A k, l : PassedOver(q, a, <<k, l>>) <=> PassedOverOfChoice(a, k)
      BY PathIs DEF PassedOver, LineTypes
    <3>3. RowOf(q, a, <<"value">>) = Row(q, Empty, Element(a, "value"))
      <4>1. <<"value">> # <<"text">> /\ <<"value">> # <<>>
        OBVIOUS
      <4>2. QED
        BY <4>1, SingleRowOf
    <3>4. RowOf(q, a, <<"text">>) = Row(q, "fill", Element(a, "text"))
      BY SingleRowOf
    <3> HIDE DEF e, main, fill
    <3>5. ASSUME NEW r, r \in Said(q, a) PROVE (Main(a) /\ r = main) \/ (Filled(a) /\ r = fill)
      <4>1. PICK p \in Held(a) : ~PassedOver(q, a, p) /\ r = RowOf(q, a, p)
        BY <3>5, SaidIs
      <4>2. CASE \E k \in Elements(a) : IsScalar(Element(a, k)) /\ p = <<k>>
        <5>1. PICK k \in Elements(a) : IsScalar(Element(a, k)) /\ p = <<k>>
          BY <4>2
        <5>2. IsAnswered(Element(a, k)) /\ ~PassedOverOfChoice(a, k)
          BY <3>2, <4>1, <5>1 DEF IsScalar
        <5>3. (k = "value" /\ Main(a)) \/ (k = "text" /\ Filled(a))
          BY <3>1, <5>2
        <5>4. QED
          BY <3>1, <3>3, <3>4, <4>1, <5>1, <5>3 DEF main, fill
      <4>3. CASE \E k \in Elements(a) : \E l \in HeldIn(a, k) : p = <<k, l>>
        <5>1. PICK k \in Elements(a) : \E l \in HeldIn(a, k) : p = <<k, l>>
          BY <4>3
        <5>2. PICK l \in HeldIn(a, k) : p = <<k, l>>
          BY <5>1
        <5>3. Element(a, k).kind = "string"
          BY <3>1, <3>2, <4>1, <5>2
        <5>4. QED
          BY <5>2, <5>3, NoElements DEF HeldIn
      <4>4. QED
        BY <3>1, <4>2, <4>3, HeldAre
    <3>6. ASSUME NEW l, (l = "value" /\ Main(a)) \/ (l = "text" /\ Filled(a))
          PROVE  RowOf(q, a, <<l>>) \in Said(q, a)
      <4>1. l \in Elements(a) /\ IsAnswered(Element(a, l)) /\ ~PassedOverOfChoice(a, l)
        BY <3>1, <3>6
      <4>2. IsScalar(Element(a, l))
        BY <3>1, <4>1 DEF IsScalar
      <4>3. <<l>> \in Held(a)
        BY <3>1, <4>1, <4>2, HeldAre
      <4>4. QED
        BY <3>2, <4>1, <4>3, SaidIs
    <3>7. Main(a) => main \in Said(q, a)
      BY <3>1, <3>3, <3>6 DEF main
    <3>8. Filled(a) => fill \in Said(q, a)
      BY <3>1, <3>4, <3>6 DEF fill
    <3>9. QED
      BY <3>5, <3>7, <3>8
  <2>3. QED
    BY <2>1, <2>2
<1>5. QED
  BY <1>2, <1>4 DEF Says

\* What the element i of a multi-choice answer says, and the row r for it.
ElementSays(q, v, r) ==
  \/ Main(v) /\ r = Row(q, Empty, Str(Chosen(v).value))
  \/ Filled(v) /\ r = Row(q, FillKey[Chosen(v).value], Str(Chosen(v).text))

ElementHolds(q, a, i, r) ==
  \/ IsScalar(a.items[i]) /\ ~PassedOver(q, a, <<i>>) /\ r = RowOf(q, a, <<i>>)
  \/ \E l \in HeldIn(a, i) : ~PassedOver(q, a, <<i, l>>) /\ r = RowOf(q, a, <<i, l>>)

LEMMA ElementSaid ==
  ASSUME NEW q, q.type = "multi-choice", NEW a, DecodedAnswer(a), a.kind = "array",
         NEW i \in DOMAIN a.items, Chosen(a.items[i]).ok
  PROVE  \A r : ElementHolds(q, a, i, r) <=> ElementSays(q, a.items[i], r)
<1> DEFINE v == a.items[i]
           e == Chosen(v)
           main == Row(q, Empty, Str(e.value))
           fill == Row(q, FillKey[e.value], Str(e.text))
<1>1. i \in Elements(a) /\ Element(a, i) = v
  BY DEF Elements, Element
<1>2. Decoded(v) /\ \A l \in Elements(v) : Decoded(Element(v, l))
  BY <1>1 DEF DecodedAnswer
<1>3. \A l : l \in HeldIn(a, i) <=> l \in Elements(v) /\ IsAnswered(Element(v, l))
  BY <1>1 DEF HeldIn
<1>4. ~PassedOver(q, a, <<i>>) /\ RowOf(q, a, <<i>>) = main
  BY PathIs DEF PassedOver, RowOf, LineTypes
<1>5. \A l : /\ PassedOver(q, a, <<i, l>>) <=> PassedOverOfChoice(v, l)
             /\ RowOf(q, a, <<i, l>>) = IF l = "text" THEN fill ELSE main
  BY PathIs DEF PassedOver, RowOf, LineTypes
<1>6. Chosen(v).ok
  OBVIOUS
<1> DEFINE Holding(r) == \/ IsScalar(v) /\ ~PassedOver(q, a, <<i>>) /\ r = RowOf(q, a, <<i>>)
                       \/ \E l \in HeldIn(a, i) : ~PassedOver(q, a, <<i, l>>) /\ r = RowOf(q, a, <<i, l>>)
<1>7. \A r : Holding(r) <=> (Main(v) /\ r = main) \/ (Filled(v) /\ r = fill)
  <2> HIDE DEF v, main, fill
  <2>1. CASE v.kind = "string"
    <3>1. (IsScalar(v) <=> Main(v)) /\ ~Filled(v) /\ Elements(v) = {}
      BY <1>2, <2>1, PlainChoice
    <3>2. QED
      BY <1>3, <1>4, <3>1
  <2>2. CASE v.kind # "string"
    <3>1. /\ ~IsScalar(v)
          /\ \A l : l \in Elements(v) /\ IsAnswered(Element(v, l)) /\ ~PassedOverOfChoice(v, l) <=>
               (l = "value" /\ Main(v)) \/ (l = "text" /\ Filled(v))
      BY <1>2, <1>6, <2>2, FieldsOfChoice
    <3>2. \A l : l \in HeldIn(a, i) /\ ~PassedOver(q, a, <<i, l>>) <=>
            (l = "value" /\ Main(v)) \/ (l = "text" /\ Filled(v))
      BY <1>3, <1>5, <3>1
    <3>3. ASSUME NEW r PROVE Holding(r) <=> (Main(v) /\ r = main) \/ (Filled(v) /\ r = fill)
      <4>1. Holding(r) => (Main(v) /\ r = main) \/ (Filled(v) /\ r = fill)
        BY <1>5, <3>1, <3>2
      <4>2. ASSUME Main(v), r = main PROVE Holding(r)
        <5>1. "value" \in HeldIn(a, i) /\ ~PassedOver(q, a, <<i, "value">>)
          BY <3>2, <4>2
        <5>2. RowOf(q, a, <<i, "value">>) = main
          BY <1>5
        <5>3. QED
          BY <4>2, <5>1, <5>2
      <4>3. ASSUME Filled(v), r = fill PROVE Holding(r)
        <5>1. "text" \in HeldIn(a, i) /\ ~PassedOver(q, a, <<i, "text">>)
          BY <3>2, <4>3
        <5>2. RowOf(q, a, <<i, "text">>) = fill
          BY <1>5
        <5>3. QED
          BY <4>3, <5>1, <5>2
      <4>4. QED
        BY <4>1, <4>2, <4>3
    <3>4. QED
      BY <3>3
  <2>3. QED
    BY <2>1, <2>2
<1>8. QED
  BY <1>7 DEF ElementHolds, ElementSays

LEMMA MultiChoiceSaid ==
  ASSUME NEW q, q.type = "multi-choice", DecodedQuestion(q), NEW a, DecodedAnswer(a),
         MultiChoiceOk(q, a)
  PROVE  Says(q, a, MultiChoiceRows(q, a))
<1> DEFINE n == Len(a.items)
           v(i) == a.items[i]
           ss == [i \in 1..n |-> OptionRows(q, Chosen(v(i)), FillKey[Chosen(v(i)).value])]
           F == FlattenSeq(ss)
<1>1. a.kind = "array"
  BY DEF MultiChoiceOk
<1>2. /\ n \in Nat /\ DOMAIN a.items = 1..n
      /\ IsList(F) /\ \E at : Flattens(F, ss, n, at)
      /\ MultiChoiceRows(q, a) = F
  BY MultiChoiceParts
<1>3. \A i \in 1..n : Chosen(v(i)).ok
  BY MultiChoiceParts
<1>4. \A i \in 1..n : \A r : r \in ToSet(ss[i]) <=> ElementSays(q, v(i), r)
  <2>1. ASSUME NEW i \in 1..n PROVE \A r : r \in ToSet(ss[i]) <=> ElementSays(q, v(i), r)
    <3>1. ss[i] = OptionRows(q, Chosen(v(i)), FillKey[Chosen(v(i)).value])
      OBVIOUS
    <3>2. Chosen(v(i)).ok
      BY <1>3
    <3> HIDE DEF ss, v
    <3>3. QED
      BY <3>1, <3>2, OptionMembers DEF ElementSays
  <2>2. QED
    BY <2>1
<1>5. ASSUME NEW i \in 1..n PROVE \A r : ElementHolds(q, a, i, r) <=> ElementSays(q, v(i), r)
  <2>1. i \in DOMAIN a.items /\ Chosen(a.items[i]).ok
    BY <1>2, <1>3
  <2>2. QED
    BY <1>1, <2>1, ElementSaid
<1>6. ~IsScalar(a) /\ Elements(a) = 1..n /\ \A i : Element(a, i) = v(i)
  BY <1>1, <1>2 DEF IsScalar, Elements, Element
<1>7. \A i, r : ElementHolds(q, a, i, r) <=>
        \/ IsScalar(v(i)) /\ ~PassedOver(q, a, <<i>>) /\ r = RowOf(q, a, <<i>>)
        \/ \E l \in HeldIn(a, i) : ~PassedOver(q, a, <<i, l>>) /\ r = RowOf(q, a, <<i, l>>)
  BY DEF ElementHolds
<1> HIDE DEF v, n, ss, F
<1>8. ASSUME NEW r, r \in Said(q, a) PROVE \E i \in 1..n : ElementHolds(q, a, i, r)
  <2>1. PICK p \in Held(a) : ~PassedOver(q, a, p) /\ r = RowOf(q, a, p)
    BY <1>8, SaidIs
  <2>2. CASE \E k \in Elements(a) : IsScalar(Element(a, k)) /\ p = <<k>>
    <3>1. PICK k \in Elements(a) : IsScalar(Element(a, k)) /\ p = <<k>>
      BY <2>2
    <3>2. k \in 1..n /\ IsScalar(v(k))
      BY <1>6, <3>1
    <3>3. QED
      BY <1>7, <2>1, <3>1, <3>2
  <2>3. CASE \E k \in Elements(a) : \E l \in HeldIn(a, k) : p = <<k, l>>
    <3>1. PICK k \in Elements(a) : \E l \in HeldIn(a, k) : p = <<k, l>>
      BY <2>3
    <3>2. k \in 1..n
      BY <1>6
    <3>3. QED
      BY <1>7, <2>1, <3>1, <3>2
  <2>4. QED
    BY <1>6, <2>2, <2>3, HeldAre
<1>9. ASSUME NEW i \in 1..n, NEW r, ElementHolds(q, a, i, r) PROVE r \in Said(q, a)
  <2>1. i \in Elements(a) /\ Element(a, i) = v(i)
    BY <1>6
  <2>2. CASE IsScalar(v(i)) /\ ~PassedOver(q, a, <<i>>) /\ r = RowOf(q, a, <<i>>)
    <3>1. <<i>> \in Held(a)
      BY <1>6, <2>1, <2>2, HeldAre
    <3>2. QED
      BY <2>2, <3>1, SaidIs
  <2>3. CASE \E l \in HeldIn(a, i) : ~PassedOver(q, a, <<i, l>>) /\ r = RowOf(q, a, <<i, l>>)
    <3>1. PICK l \in HeldIn(a, i) : ~PassedOver(q, a, <<i, l>>) /\ r = RowOf(q, a, <<i, l>>)
      BY <2>3
    <3>2. <<i, l>> \in Held(a)
      BY <1>6, <2>1, HeldAre
    <3>3. QED
      BY <3>1, <3>2, SaidIs
  <2>4. QED
    BY <1>7, <1>9, <2>2, <2>3
<1>10. \A r : r \in ToSet(F) <=> \E i \in 1..n : r \in ToSet(ss[i])
  BY <1>2, FlattenMembers
<1>11. Says(q, a, F)
  BY <1>4, <1>5, <1>8, <1>9, <1>10 DEF Says
<1>12. QED
  BY <1>2, <1>11

\* Of the types with lines, what is found on the way p of an object.
LEMMA LinePath ==
  ASSUME NEW q, q.type \in LineTypes, NEW a
  PROVE  /\ a.kind # "object" => \A p : PassedOver(q, a, p)
         /\ a.kind = "object" => \A p :
              PassedOver(q, a, p) <=> /\ q.type \in {"matrix-single", "matrix-scale"}
                                      /\ Element(a, p[1]).kind # "string"
         /\ \A p : RowOf(q, a, p) =
              IF q.type = "matrix-multi" THEN Row(q, p[1], Element(Element(a, p[1]), p[2]))
              ELSE IF q.type = "matrix-scale" THEN Row(q, p[1], Scored(q, Element(a, p[1])))
              ELSE Row(q, p[1], Element(a, p[1]))
BY DEF PassedOver, RowOf, LineTypes

LEMMA ObjectIs ==
  ASSUME NEW a, a.kind = "object"
  PROVE  /\ ~IsScalar(a) /\ Elements(a) = Keys(a)
         /\ \A k \in Keys(a) : Element(a, k) = Field(a, k)
BY DEF IsScalar, Elements, Element, Keys, Field

LEMMA LinesAre ==
  ASSUME NEW q, NEW k \in Lines(q) PROVE \E i \in DOMAIN q.lines : q.lines[i] = k
BY DEF Lines, ToSet

LEMMA FieldDecoded ==
  ASSUME NEW a, DecodedAnswer(a), a.kind = "object", NEW k \in Keys(a)
  PROVE  Decoded(Field(a, k))
BY ObjectIs DEF DecodedAnswer

\* Cells of one value each, of lines of the question: w is what the rows say of them.
LEMMA CellsSaid ==
  ASSUME NEW q, q.type \in LineTypes \ {"matrix-multi"}, DecodedQuestion(q), NEW a,
         NEW S, NEW w, NEW values,
         values = [i \in DOMAIN q.lines |-> IF i \in S THEN <<w[i]>> ELSE <<>>],
         \A i \in DOMAIN q.lines : i \in S =>
           /\ q.lines[i] \in Keys(a) /\ IsScalar(Field(a, q.lines[i]))
           /\ ~PassedOver(q, a, <<q.lines[i]>>)
           /\ RowOf(q, a, <<q.lines[i]>>) = Row(q, q.lines[i], w[i]),
         \A k \in Keys(a) : IsScalar(Field(a, k)) /\ ~PassedOver(q, a, <<k>>) =>
           \E i \in DOMAIN q.lines : i \in S /\ q.lines[i] = k,
         \A k \in Keys(a) : \A l \in HeldIn(a, k) : PassedOver(q, a, <<k, l>>)
  PROVE  Says(q, a, LineRows(q, values))
<1> DEFINE s == LineRows(q, values)
<1>1. \A i \in DOMAIN q.lines : /\ IsList(values[i])
                                /\ DOMAIN values[i] = IF i \in S THEN {1} ELSE {}
                                /\ i \in S => values[i][1] = w[i]
  BY NoneOrOne
<1>2. \A r : r \in ToSet(s) <=> \E i \in DOMAIN q.lines : OfLine(q, values, i, r)
  <2>1. \A i \in DOMAIN q.lines : IsList(values[i])
    BY <1>1
  <2> HIDE DEF s
  <2>2. QED
    BY <2>1, LineMembers DEF s
<1> HIDE DEF s
<1>3. \A r : r \in ToSet(s) <=> \E i \in DOMAIN q.lines : i \in S /\ r = Row(q, q.lines[i], w[i])
  <2>1. ASSUME NEW r, NEW i \in DOMAIN q.lines
        PROVE  OfLine(q, values, i, r) <=> i \in S /\ r = Row(q, q.lines[i], w[i])
    BY <1>1 DEF OfLine
  <2>2. QED
    BY <1>2, <2>1
<1>4. CASE a.kind # "object"
  <2>1. \A r : r \notin Said(q, a)
    BY <1>4, LinePath, SaidIs
  <2>2. Keys(a) = {}
    BY <1>4 DEF Keys
  <2>3. QED
    BY <1>3, <2>1, <2>2 DEF Says, s
<1>5. CASE a.kind = "object"
  <2>1. ASSUME NEW r, r \in Said(q, a) PROVE r \in ToSet(s)
    <3>1. PICK p \in Held(a) : ~PassedOver(q, a, p) /\ r = RowOf(q, a, p)
      BY <2>1, SaidIs
    <3>2. CASE \E k \in Keys(a) : IsScalar(Element(a, k)) /\ p = <<k>>
      <4>1. PICK k \in Keys(a) : IsScalar(Element(a, k)) /\ p = <<k>>
        BY <3>2
      <4>2. PICK i \in DOMAIN q.lines : i \in S /\ q.lines[i] = k
        BY <1>5, <3>1, <4>1, ObjectIs
      <4>3. r = Row(q, q.lines[i], w[i])
        BY <3>1, <4>1, <4>2
      <4>4. QED
        BY <1>3, <4>2, <4>3
    <3>3. CASE \E k \in Keys(a) : \E l \in HeldIn(a, k) : p = <<k, l>>
      BY <3>1, <3>3
    <3>4. QED
      BY <1>5, <3>2, <3>3, ObjectIs, HeldAre
  <2>2. ASSUME NEW i \in DOMAIN q.lines, i \in S PROVE Row(q, q.lines[i], w[i]) \in Said(q, a)
    <3>1. /\ q.lines[i] \in Keys(a) /\ IsScalar(Field(a, q.lines[i]))
          /\ ~PassedOver(q, a, <<q.lines[i]>>)
          /\ RowOf(q, a, <<q.lines[i]>>) = Row(q, q.lines[i], w[i])
      BY <2>2
    <3>2. <<q.lines[i]>> \in Held(a)
      BY <1>5, <3>1, ObjectIs, HeldAre
    <3>3. QED
      BY <3>1, <3>2, SaidIs
  <2>3. QED
    BY <1>3, <2>1, <2>2 DEF Says, s
<1>6. QED
  BY <1>4, <1>5

\* An element that holds something is no string and is answered.
LEMMA HeldInIs ==
  ASSUME NEW a, NEW k \in Keys(a), NEW l \in HeldIn(a, k)
  PROVE  a.kind = "object" /\ IsAnswered(Field(a, k)) /\ Field(a, k).kind \notin {"string", "number"}
<1>1. a.kind = "object"
  BY DEF Keys
<1>2. Element(a, k) = Field(a, k)
  BY <1>1, ObjectIs
<1>3. l \in Elements(Field(a, k))
  BY <1>2 DEF HeldIn
<1>4. IsAnswered(Field(a, k)) /\ Field(a, k).kind # "string"
  BY <1>3, NoElements
<1>5. Field(a, k).kind # "number"
  BY <1>3 DEF Elements
<1>6. QED
  BY <1>1, <1>4, <1>5

\* The types whose cells are strings and those whose cells are columns.
LEMMA StringCellsSaid ==
  ASSUME NEW q, DecodedQuestion(q), NEW a, DecodedAnswer(a), Valid(q, a),
         q.type \in {"matrix-single", "matrix-scale", "matrix-fill", "multi-fill"}
  PROVE  Says(q, a, Normalize(q, a))
<1> DEFINE S == {i \in DOMAIN q.lines : StrAnswered(Cell(q, a, i))}
           Value(v) == IF q.type = "matrix-scale" THEN Scored(q, v) ELSE v
           w == [i \in DOMAIN q.lines |-> Value(Cell(q, a, i))]
           values == [i \in DOMAIN q.lines |-> IF i \in S THEN <<w[i]>> ELSE <<>>]
<1>1. q.type \in LineTypes \ {"matrix-multi"}
  BY DEF LineTypes
<1>2. Normalize(q, a) = LineRows(q, values)
  <2>1. CASE q.type = "matrix-scale"
    <3>1. values = [i \in DOMAIN q.lines |->
            IF StrAnswered(Cell(q, a, i)) THEN <<Scored(q, Cell(q, a, i))>> ELSE <<>>]
      BY <2>1
    <3> HIDE DEF values
    <3>2. QED
      BY <2>1, <3>1 DEF Normalize, MatrixScaleRows
  <2>2. CASE q.type # "matrix-scale"
    <3>1. values = [i \in DOMAIN q.lines |-> Kept(Cell(q, a, i))]
      BY <2>2 DEF Kept
    <3>2. Normalize(q, a) = StringRows(q, a)
      BY <2>2 DEF Normalize, MatrixSingleRows, MatrixFillRows, MultiFillRows
    <3> HIDE DEF values
    <3>3. QED
      BY <3>1, <3>2 DEF StringRows
  <2>3. QED
    BY <2>1, <2>2
<1>3. \A i \in DOMAIN q.lines : (i \in S <=> StrAnswered(Cell(q, a, i))) /\ w[i] = Value(Cell(q, a, i))
  OBVIOUS
<1>4. values = [i \in DOMAIN q.lines |-> IF i \in S THEN <<w[i]>> ELSE <<>>]
  OBVIOUS
<1> HIDE DEF S, w, values
\* a cell that counts as answered and is not passed over is a text on a line
<1>5. ASSUME NEW k \in Keys(a), IsAnswered(Field(a, k)), NEW p, p[1] = k, ~PassedOver(q, a, p)
      PROVE  Field(a, k).kind = "string" /\ k \in Lines(q)
  <2>1. a.kind = "object" /\ Element(a, k) = Field(a, k)
    BY ObjectIs DEF Keys
  <2>2. CASE q.type \in {"matrix-single", "matrix-scale"}
    <3>1. Field(a, k).kind = "string"
      BY <1>1, <1>5, <2>1, <2>2, LinePath
    <3>2. StrAnswered(Field(a, k))
      BY <1>5, <2>1, <3>1, FieldDecoded, AnsweredText
    <3>3. MatrixSingleOk(q, a)
      BY <2>2 DEF Valid, MatrixScaleOk
    <3>4. QED
      BY <3>1, <3>2, <3>3 DEF MatrixSingleOk
  <2>3. CASE q.type = "matrix-fill"
    <3>1. MatrixFillOk(q, a)
      BY <2>3 DEF Valid
    <3>2. QED
      BY <1>5, <3>1 DEF MatrixFillOk
  <2>4. CASE q.type = "multi-fill"
    <3>1. MultiFillOk(q, a)
      BY <2>4 DEF Valid
    <3>2. QED
      BY <1>5, <3>1 DEF MultiFillOk, TextOk
  <2>5. QED
    BY <2>2, <2>3, <2>4
<1>6. ASSUME NEW i \in DOMAIN q.lines, i \in S
      PROVE  /\ q.lines[i] \in Keys(a) /\ IsScalar(Field(a, q.lines[i]))
             /\ ~PassedOver(q, a, <<q.lines[i]>>)
             /\ RowOf(q, a, <<q.lines[i]>>) = Row(q, q.lines[i], w[i])
  <2> DEFINE k == q.lines[i]
  <2>1. StrAnswered(Cell(q, a, i)) /\ w[i] = Value(Cell(q, a, i)) /\ Cell(q, a, i) = Field(a, k)
    BY <1>3, <1>6 DEF Cell
  <2>2. k \in Keys(a) /\ IsScalar(Field(a, k)) /\ Field(a, k).kind = "string"
    BY <2>1, StrIsAnswered, StrIsScalar, FieldIs DEF StrAnswered
  <2>3. a.kind = "object" /\ Element(a, k) = Field(a, k)
    BY <2>2, ObjectIs DEF Keys
  <2>4. <<k>>[1] = k
    OBVIOUS
  <2> HIDE DEF k
  <2>5. ~PassedOver(q, a, <<k>>)
    BY <1>1, <2>2, <2>3, <2>4, LinePath
  <2>6. RowOf(q, a, <<k>>) = Row(q, k, w[i])
    BY <1>1, <2>1, <2>3, <2>4, LinePath
  <2>7. QED
    BY <2>2, <2>5, <2>6 DEF k
<1>7. ASSUME NEW k \in Keys(a), IsScalar(Field(a, k)), ~PassedOver(q, a, <<k>>)
      PROVE  \E i \in DOMAIN q.lines : i \in S /\ q.lines[i] = k
  <2>1. IsAnswered(Field(a, k)) /\ <<k>>[1] = k
    BY <1>7 DEF IsScalar
  <2>2. Field(a, k).kind = "string" /\ k \in Lines(q)
    BY <1>5, <1>7, <2>1
  <2>3. a.kind = "object"
    BY DEF Keys
  <2>4. StrAnswered(Field(a, k))
    BY <2>1, <2>2, <2>3, FieldDecoded, AnsweredText
  <2>5. PICK i \in DOMAIN q.lines : q.lines[i] = k
    BY <2>2, LinesAre
  <2>6. QED
    BY <1>3, <2>4, <2>5 DEF Cell
<1>8. ASSUME NEW k \in Keys(a), NEW l \in HeldIn(a, k) PROVE PassedOver(q, a, <<k, l>>)
  <2>1. <<k, l>>[1] = k
    OBVIOUS
  <2>2. IsAnswered(Field(a, k)) /\ Field(a, k).kind # "string"
    BY HeldInIs
  <2>3. QED
    BY <1>5, <2>1, <2>2
<1>9. Says(q, a, LineRows(q, values))
  BY <1>1, <1>4, <1>6, <1>7, <1>8, CellsSaid
<1>10. QED
  BY <1>2, <1>9

LEMMA MatrixSliderSaid ==
  ASSUME NEW q, q.type = "matrix-slider", DecodedQuestion(q), NEW a, MatrixSliderOk(q, a)
  PROVE  Says(q, a, MatrixSliderRows(q, a))
<1> DEFINE S == {i \in DOMAIN q.lines : Cell(q, a, i).kind = "number"}
           w == [i \in DOMAIN q.lines |-> Cell(q, a, i)]
           values == [i \in DOMAIN q.lines |->
                        IF Cell(q, a, i).kind = "number" THEN <<Cell(q, a, i)>> ELSE <<>>]
<1>1. values = [i \in DOMAIN q.lines |-> IF i \in S THEN <<w[i]>> ELSE <<>>]
  OBVIOUS
<1>2. MatrixSliderRows(q, a) = LineRows(q, values)
  BY DEF MatrixSliderRows
<1>3. \A i \in DOMAIN q.lines : (i \in S <=> Cell(q, a, i).kind = "number") /\ w[i] = Cell(q, a, i)
  OBVIOUS
<1>4. q.type \in LineTypes \ {"matrix-multi"} /\ q.type \notin {"matrix-single", "matrix-scale"}
  BY DEF LineTypes
<1>5. \A v : v.kind = "number" => v # Null /\ v.kind # "null" /\ IsScalar(v)
  BY DEF IsScalar, IsAnswered, Null, Str
<1> HIDE DEF S, w, values
<1>6. ASSUME NEW k \in Keys(a), IsAnswered(Field(a, k))
      PROVE  Field(a, k).kind = "number" /\ k \in Lines(q)
  BY <1>6 DEF MatrixSliderOk, IsAnswered
<1>7. ASSUME NEW i \in DOMAIN q.lines, i \in S
      PROVE  /\ q.lines[i] \in Keys(a) /\ IsScalar(Field(a, q.lines[i]))
             /\ ~PassedOver(q, a, <<q.lines[i]>>)
             /\ RowOf(q, a, <<q.lines[i]>>) = Row(q, q.lines[i], w[i])
  <2> DEFINE k == q.lines[i]
  <2>1. Field(a, k).kind = "number" /\ w[i] = Field(a, k)
    BY <1>3, <1>7 DEF Cell
  <2>2. k \in Keys(a) /\ IsScalar(Field(a, k))
    BY <1>5, <2>1, FieldIs
  <2>3. a.kind = "object" /\ Element(a, k) = Field(a, k)
    BY <2>2, ObjectIs DEF Keys
  <2>4. <<k>>[1] = k
    OBVIOUS
  <2> HIDE DEF k
  <2>5. ~PassedOver(q, a, <<k>>)
    BY <1>4, <2>3, LinePath
  <2>6. RowOf(q, a, <<k>>) = Row(q, k, w[i])
    <3>1. q.type # "matrix-multi" /\ q.type # "matrix-scale"
      BY <1>4
    <3>2. RowOf(q, a, <<k>>) = Row(q, <<k>>[1], Element(a, <<k>>[1]))
      BY <1>4, <3>1, LinePath
    <3>3. QED
      BY <2>1, <2>3, <2>4, <3>2
  <2>7. QED
    BY <2>2, <2>5, <2>6 DEF k
<1>8. ASSUME NEW k \in Keys(a), IsScalar(Field(a, k))
      PROVE  \E i \in DOMAIN q.lines : i \in S /\ q.lines[i] = k
  <2>1. Field(a, k).kind = "number" /\ k \in Lines(q)
    BY <1>6, <1>8 DEF IsScalar
  <2>2. PICK i \in DOMAIN q.lines : q.lines[i] = k
    BY <2>1, LinesAre
  <2>3. QED
    BY <1>3, <2>1, <2>2 DEF Cell
<1>9. ASSUME NEW k \in Keys(a), NEW l \in HeldIn(a, k) PROVE FALSE
  <2>1. IsAnswered(Field(a, k)) /\ Field(a, k).kind # "number"
    BY HeldInIs
  <2>2. QED
    BY <1>6, <2>1
<1>10. Says(q, a, LineRows(q, values))
  BY <1>1, <1>4, <1>7, <1>8, <1>9, CellsSaid
<1>11. QED
  BY <1>2, <1>10

\* What the items of a cell of matrix-multi are.
LEMMA ArrayIs ==
  ASSUME NEW v, v.kind = "array"
  PROVE  /\ ~IsScalar(v) /\ v # Null /\ Elements(v) = DOMAIN v.items
         /\ \A l : Element(v, l) = v.items[l]
BY DEF IsScalar, Elements, Element, Null

LEMMA MatrixMultiSaid ==
  ASSUME NEW q, q.type = "matrix-multi", DecodedQuestion(q), NEW a, DecodedAnswer(a),
         MatrixMultiOk(q, a)
  PROVE  Says(q, a, MatrixMultiRows(q, a))
<1> DEFINE values == MultiValues(q, a)
           s == LineRows(q, values)
<1>1. MatrixMultiRows(q, a) = s
  BY DEF MatrixMultiRows, MultiValues
<1>2. ASSUME NEW i \in DOMAIN q.lines
      PROVE  LET v == Field(a, q.lines[i])
             IN  /\ IsList(values[i])
                 /\ \A j \in DOMAIN values[i] : v.kind = "array" /\ \E l \in DOMAIN v.items :
                                     StrAnswered(v.items[l]) /\ values[i][j] = v.items[l]
                 /\ v.kind = "array" => \A l \in DOMAIN v.items :
                      StrAnswered(v.items[l]) => \E j \in DOMAIN values[i] : values[i][j] = v.items[l]
  BY MultiValuesAre DEF Cell
<1> HIDE DEF values
<1>3. \A r : r \in ToSet(s) <=> \E i \in DOMAIN q.lines : OfLine(q, values, i, r)
  <2>1. \A i \in DOMAIN q.lines : IsList(values[i])
    BY <1>2
  <2>2. QED
    BY <2>1, LineMembers
<1> HIDE DEF s
<1>4. q.type \in LineTypes /\ q.type \notin {"matrix-single", "matrix-scale"}
  BY DEF LineTypes
<1>5. ASSUME NEW r, r \in Said(q, a) PROVE r \in ToSet(s)
  <2>1. PICK p \in Held(a) : ~PassedOver(q, a, p) /\ r = RowOf(q, a, p)
    BY <1>5, SaidIs
  <2>2. a.kind = "object"
    BY <1>4, <2>1, LinePath
  <2>3. /\ ~IsScalar(a) /\ Elements(a) = Keys(a)
        /\ \A k \in Keys(a) : Element(a, k) = Field(a, k)
    BY <2>2, ObjectIs
  <2>4. \A k \in Keys(a) : Field(a, k) # Null => Field(a, k).kind = "array"
    BY DEF MatrixMultiOk, MatrixMultiCellsOk
  <2>5. ASSUME NEW k \in Keys(a), IsScalar(Field(a, k)) PROVE FALSE
    <3>1. Field(a, k) # Null
      BY <2>5 DEF IsScalar, IsAnswered
    <3>2. QED
      BY <2>4, <2>5, <3>1, ArrayIs
  <2>6. PICK k \in Keys(a) : \E l \in HeldIn(a, k) : p = <<k, l>>
    BY <2>1, <2>3, <2>5, HeldAre
  <2>7. PICK l \in HeldIn(a, k) : p = <<k, l>>
    BY <2>6
  <2> DEFINE v == Field(a, k)
  <2>8. v.kind = "array"
    BY <2>4, HeldInIs DEF IsAnswered
  <2>9. l \in DOMAIN v.items /\ IsAnswered(v.items[l]) /\ Element(Element(a, k), l) = v.items[l]
    BY <2>3, <2>8, ArrayIs DEF HeldIn
  <2>10. k \in Lines(q) /\ StrAnswered(v.items[l])
    BY <2>8, <2>9, MultiCell
  <2>11. PICK i \in DOMAIN q.lines : q.lines[i] = k
    BY <2>10, LinesAre
  <2>12. PICK j \in DOMAIN values[i] : values[i][j] = v.items[l]
    BY <1>2, <2>8, <2>9, <2>10, <2>11
  <2>13. r = Row(q, k, v.items[l])
    <3>1. p[1] = k /\ p[2] = l
      BY <2>7, PathIs
    <3>2. RowOf(q, a, p) = Row(q, p[1], Element(Element(a, p[1]), p[2]))
      BY <1>4, LinePath
    <3>3. QED
      BY <2>1, <2>9, <3>1, <3>2
  <2>14. OfLine(q, values, i, r)
    BY <2>11, <2>12, <2>13 DEF OfLine
  <2>15. QED
    BY <1>3, <2>14
<1>6. ASSUME NEW r, r \in ToSet(s) PROVE r \in Said(q, a)
  <2>1. PICK i \in DOMAIN q.lines : OfLine(q, values, i, r)
    BY <1>3, <1>6
  <2>2. PICK j \in DOMAIN values[i] : r = Row(q, q.lines[i], values[i][j])
    BY <2>1 DEF OfLine
  <2> DEFINE k == q.lines[i]
             v == Field(a, k)
  <2>3. v.kind = "array"
    BY <1>2, <2>2
  <2>4. PICK l \in DOMAIN v.items : StrAnswered(v.items[l]) /\ values[i][j] = v.items[l]
    BY <1>2, <2>2
  <2>5. k \in Keys(a)
    BY <2>3, MultiCell
  <2>6. a.kind = "object"
    BY <2>5 DEF Keys
  <2>7. /\ ~IsScalar(a) /\ k \in Elements(a) /\ Element(a, k) = v
    BY <2>5, <2>6, ObjectIs
  <2>8. Element(Element(a, k), l) = v.items[l] /\ l \in Elements(Element(a, k))
    BY <2>3, <2>7, ArrayIs
  <2>9. l \in HeldIn(a, k)
    BY <2>4, <2>8, StrIsAnswered DEF HeldIn
  <2> HIDE DEF k, v
  <2>10. <<k, l>> \in Held(a)
    BY <2>7, <2>9, HeldAre
  <2>11. ~PassedOver(q, a, <<k, l>>)
    BY <1>4, <2>6, LinePath
  <2>12. RowOf(q, a, <<k, l>>) = Row(q, k, v.items[l])
    <3>1. <<k, l>>[1] = k /\ <<k, l>>[2] = l
      BY PathIs
    <3>2. RowOf(q, a, <<k, l>>) = Row(q, <<k, l>>[1], Element(Element(a, <<k, l>>[1]), <<k, l>>[2]))
      BY <1>4, LinePath
    <3>3. QED
      BY <2>8, <3>1, <3>2
  <2>13. r = Row(q, k, v.items[l])
    BY <2>2, <2>4 DEF k
  <2>14. QED
    BY <2>10, <2>11, <2>12, <2>13, SaidIs
<1>7. QED
  BY <1>1, <1>5, <1>6 DEF Says

\* Every handler stores what it was told.
LEMMA HandlerSaid ==
  ASSUME NEW q, DecodedQuestion(q), NEW a, DecodedAnswer(a), IsAnswered(a), Valid(q, a),
         q.type \in RegisteredTypes
  PROVE  Says(q, a, Normalize(q, a))
<1>1. CASE q.type = "single-choice"
  BY <1>1, SingleChoiceSaid DEF Valid, Normalize
<1>2. CASE q.type = "multi-choice"
  BY <1>2, MultiChoiceSaid DEF Valid, Normalize
<1>3. CASE q.type \in {"dropdown", "scale", "text-input", "textarea"}
  BY <1>3, OneValueSaid
<1>4. CASE q.type \in {"matrix-single", "matrix-scale", "matrix-fill", "multi-fill"}
  BY <1>4, StringCellsSaid
<1>5. CASE q.type = "matrix-multi"
  BY <1>5, MatrixMultiSaid DEF Valid, Normalize
<1>6. CASE q.type = "matrix-slider"
  BY <1>6, MatrixSliderSaid DEF Valid, Normalize
<1>7. QED
  BY <1>1, <1>2, <1>3, <1>4, <1>5, <1>6 DEF RegisteredTypes, LineTypes

-----------------------------------------------------------------------------
\* The rows of the survey are those of its questions, one after the other: what a
\* question that is hidden, without an answer or without a handler has is nothing.
Part(i, s) ==
  LET q == case.schema.questions[i]
      a == case.answers[q.id]
  IN  IF q \in Stored THEN Sound(q, a, s) /\ Says(q, a, s)
      ELSE s = <<>> /\ (q.id \in HiddenNow \/ ~q.required \/ q.type \notin RegisteredTypes)

LEMMA SurveyRows ==
  ASSUME QInv, phase = "flattened"
  PROVE  /\ IsList(case.schema.questions)
         /\ \E ss, at : /\ Flattens(rows, ss, Len(case.schema.questions), at)
                        /\ \A i \in DOMAIN case.schema.questions : IsList(ss[i]) /\ Part(i, ss[i])
<1> DEFINE questions == case.schema.questions
           answers == case.answers
           n == Len(questions)
           Rows(q) == IF q.id \notin HiddenNow /\ IsAnswered(answers[q.id])
                      THEN Normalize(q, answers[q.id]) ELSE <<>>
           ss == [i \in 1..n |-> Rows(questions[i])]
<1>1. CaseInv /\ rows = NormalizeSurvey(case.schema, answers)
      /\ ValidateSurvey(case.schema, answers)
  BY DEF QInv, VerdictInv
<1>2. IsList(questions)
  BY <1>1, TrialsAssumption DEF CaseInv, IsList
<1>3. n \in Nat /\ DOMAIN questions = 1..n
  BY <1>2, ListIs
<1>4. rows = FlattenSeq(ss)
  BY <1>1, <1>3 DEF NormalizeSurvey, HiddenNow
<1>5. \A i \in 1..n : ss[i] = Rows(questions[i])
  OBVIOUS
<1>6. ss = [i \in 1..n |-> ss[i]]
  OBVIOUS
<1> HIDE DEF ss
<1>7. ASSUME NEW i \in 1..n PROVE IsList(ss[i]) /\ Part(i, ss[i])
  <2> DEFINE q == questions[i]
             a == answers[q.id]
  <2>1. q \in ToSet(questions)
    BY <1>3 DEF ToSet
  <2>2. DecodedQuestion(q)
    BY <1>1, <2>1, TrialsAssumption DEF CaseInv
  <2>3. DecodedAnswer(a)
    <3>1. q.id \in DOMAIN answers
      BY <1>1, <2>1, TrialsAssumption DEF CaseInv
    <3>2. QED
      BY <1>1, <3>1, TrialsAssumption DEF CaseInv
  <2>4. q.id \in HiddenNow \/ (IF IsAnswered(a) THEN Valid(q, a) ELSE ~q.required)
    BY <1>1, <2>1 DEF ValidateSurvey, HiddenNow
  <2>5. q \in Stored <=> q.id \notin HiddenNow /\ IsAnswered(a) /\ q.type \in RegisteredTypes
    BY <2>1 DEF Stored
  <2>6. CASE q \in Stored
    <3>1. ss[i] = Normalize(q, a) /\ Valid(q, a)
      BY <1>5, <2>4, <2>5, <2>6
    <3> HIDE DEF q, a
    <3>2. Sound(q, a, ss[i]) /\ Says(q, a, ss[i])
      BY <2>2, <2>3, <2>5, <2>6, <3>1, HandlerSound, HandlerSaid
    <3>3. IsList(ss[i])
      BY <3>2 DEF Sound
    <3>4. QED
      BY <2>6, <3>2, <3>3 DEF Part, q, a
  <2>7. CASE q \notin Stored
    <3>1. ss[i] = <<>>
      <4>1. CASE q.id \notin HiddenNow /\ IsAnswered(a)
        <5>1. ss[i] = Normalize(q, a) /\ q.type \notin RegisteredTypes
          BY <1>5, <2>5, <2>7, <4>1
        <5> HIDE DEF q, a
        <5>2. QED
          BY <5>1 DEF Normalize, RegisteredTypes, LineTypes
      <4>2. CASE ~(q.id \notin HiddenNow /\ IsAnswered(a))
        BY <1>5, <4>2
      <4>3. QED
        BY <4>1, <4>2
    <3>2. q.id \in HiddenNow \/ ~q.required \/ q.type \notin RegisteredTypes
      BY <2>4, <2>5, <2>7
    <3>3. QED
      BY <2>7, <3>1, <3>2, NoneOrOne DEF Part
  <2>8. QED
    BY <2>6, <2>7
<1> HIDE DEF n, Rows
<1>8. \E at : Flattens(rows, ss, n, at)
  <2>1. \A i \in 1..n : IsList(ss[i])
    BY <1>7
  <2>2. \E at : Flattens(FlattenSeq(ss), ss, n, at)
    BY <1>3, <1>6, <2>1, FlattenIs
  <2>3. QED
    BY <1>4, <2>2
<1>9. QED
  BY <1>2, <1>3, <1>7, <1>8 DEF n

\* The place of a row: the question it is of and its position among the rows of
\* that question.
Placed(k, i, j, ss, at) ==
  LET q == case.schema.questions[i]
  IN  /\ k = at[i] + j /\ rows[k] = ss[i][j]
      /\ q \in Stored /\ Sound(q, case.answers[q.id], ss[i]) /\ Says(q, case.answers[q.id], ss[i])
      /\ rows[k].qid = q.id

LEMMA EveryRowPlaced ==
  ASSUME NEW ss, NEW at, IsList(case.schema.questions),
         Flattens(rows, ss, Len(case.schema.questions), at),
         \A i \in DOMAIN case.schema.questions : IsList(ss[i]) /\ Part(i, ss[i])
  PROVE  \A k \in DOMAIN rows : \E i \in DOMAIN case.schema.questions :
           \E j \in DOMAIN ss[i] : Placed(k, i, j, ss, at)
<1> DEFINE questions == case.schema.questions
           n == Len(questions)
<1>1. n \in Nat /\ DOMAIN questions = 1..n
  BY ListIs
<1>2. ASSUME NEW k \in DOMAIN rows
      PROVE  \E i \in DOMAIN questions : \E j \in DOMAIN ss[i] : Placed(k, i, j, ss, at)
  <2>1. PICK i \in 1..n : \E j \in DOMAIN ss[i] : k = at[i] + j
    BY DEF Flattens
  <2>2. PICK j \in DOMAIN ss[i] : k = at[i] + j
    BY <2>1
  <2> DEFINE q == questions[i]
             a == case.answers[q.id]
  <2>3. rows[k] = ss[i][j]
    BY <2>2 DEF Flattens
  <2>4. ss[i] # <<>>
    BY NoneOrOne
  <2>5. q \in Stored /\ Sound(q, a, ss[i]) /\ Says(q, a, ss[i])
    BY <1>1, <2>4 DEF Part
  <2>6. rows[k].qid = q.id
    BY <2>3, <2>5 DEF Sound
  <2>7. QED
    BY <1>1, <2>2, <2>3, <2>5, <2>6 DEF Placed
<1>3. QED
  BY <1>2

\* The rows of a stored question are all there.
LEMMA RowsOfQuestion ==
  ASSUME NEW ss, NEW at, IsList(case.schema.questions),
         Flattens(rows, ss, Len(case.schema.questions), at),
         NEW i \in DOMAIN case.schema.questions,
         NEW q, q = case.schema.questions[i], NEW a, Sound(q, a, ss[i]),
         NEW j \in DOMAIN ss[i]
  PROVE  at[i] + j \in Places(q) /\ rows[at[i] + j] = ss[i][j]
<1>1. i \in 1..Len(case.schema.questions)
  BY ListIs
<1>2. at[i] + j \in DOMAIN rows /\ rows[at[i] + j] = ss[i][j]
  BY <1>1 DEF Flattens
<1>3. rows[at[i] + j].qid = q.id
  BY <1>2 DEF Sound
<1>4. QED
  BY <1>2, <1>3 DEF Places

\* Every stored value is one that a visible question of its id offers and that was
\* said there, and a fill text belongs to an option chosen in the same answer
\* (qtype/*.go, normalize.go), whatever the survey repeats or leaves empty.
THEOREM RowsFit == Spec => []RowsFitQuestion
<1>1. ASSUME QInv PROVE RowsFitQuestion
  <2>1. SUFFICES ASSUME phase = "flattened", NEW k \in DOMAIN rows
                 PROVE  \E q \in Stored :
                          /\ rows[k].qid = q.id /\ rows[k] \in Said(q, case.answers[q.id])
                          /\ RowFits(q, rows[k], {rows[l] : l \in Places(q) \cap 1..(k - 1)})
    BY DEF RowsFitQuestion
  <2> DEFINE questions == case.schema.questions
  <2>2. IsList(questions)
    BY <1>1, <2>1, SurveyRows
  <2>3. PICK ss, at : /\ Flattens(rows, ss, Len(questions), at)
                      /\ \A i \in DOMAIN questions : IsList(ss[i]) /\ Part(i, ss[i])
    BY <1>1, <2>1, SurveyRows
  <2>4. PICK i \in DOMAIN questions : \E j \in DOMAIN ss[i] : Placed(k, i, j, ss, at)
    BY <2>2, <2>3, EveryRowPlaced
  <2>5. PICK j \in DOMAIN ss[i] : Placed(k, i, j, ss, at)
    BY <2>4
  <2> DEFINE q == questions[i]
             a == case.answers[q.id]
             before == {ss[i][m] : m \in 1..(j - 1)}
             earlier == {rows[l] : l \in Places(q) \cap 1..(k - 1)}
  <2>6. /\ q \in Stored /\ Sound(q, a, ss[i]) /\ Says(q, a, ss[i])
        /\ rows[k].qid = q.id /\ rows[k] = ss[i][j] /\ k = at[i] + j
    BY <2>5 DEF Placed
  <2>7. RowFits(q, rows[k], before)
    BY <2>6 DEF Sound, Fits
  <2>8. before \subseteq earlier
    <3>1. SUFFICES ASSUME NEW m \in 1..(j - 1) PROVE ss[i][m] \in earlier
      OBVIOUS
    <3>2. DOMAIN ss[i] = 1..Len(ss[i]) /\ Len(ss[i]) \in Nat
      BY <2>3, ListIs
    <3>3. m \in DOMAIN ss[i]
      BY <3>2
    <3>4. at[i] \in Nat
      BY <2>2, <2>3, ListIs DEF Flattens
    <3>5. at[i] + m \in Places(q) /\ rows[at[i] + m] = ss[i][m]
      BY <2>2, <2>3, <2>6, <3>3, RowsOfQuestion
    <3>6. at[i] + m \in 1..(k - 1)
      BY <2>6, <3>2, <3>4
    <3>7. QED
      BY <3>5, <3>6
  <2>9. rows[k] \in Said(q, a)
    BY <2>6 DEF Says, ToSet
  <2> HIDE DEF before, earlier
  <2>10. RowFits(q, rows[k], earlier)
    BY <2>7, <2>8, RowFitsMore
  <2>11. QED
    BY <2>6, <2>9, <2>10 DEF earlier
<1>2. QED
  BY <1>1, QuestionnaireInductive, PTL

\* A required question that was visible has a row for everything it demands,
\* though [] and {} count as answers, unless all that was picked there is an option
\* whose value the survey left empty (registry.go:14).
THEOREM RequiredComplete == Spec => []RequiredIsComplete
<1>1. ASSUME QInv PROVE RequiredIsComplete
  <2>1. SUFFICES ASSUME phase = "flattened", NEW q \in ToSet(case.schema.questions),
                        q.required, q.id \notin HiddenNow, q.type \in RegisteredTypes,
                        NEW sub \in Demanded(q), ~OnlyUnnamed(q, case.answers[q.id], sub)
                 PROVE  \E k \in Places(q) : rows[k].sub = sub
    BY DEF RequiredIsComplete
  <2> DEFINE questions == case.schema.questions
             a == case.answers[q.id]
  <2>2. IsList(questions)
    BY <1>1, <2>1, SurveyRows
  <2>3. PICK ss, at : /\ Flattens(rows, ss, Len(questions), at)
                      /\ \A i \in DOMAIN questions : IsList(ss[i]) /\ Part(i, ss[i])
    BY <1>1, <2>1, SurveyRows
  <2>4. PICK i \in DOMAIN questions : q = questions[i]
    BY DEF ToSet
  <2>5. Sound(q, a, ss[i])
    BY <2>1, <2>3, <2>4 DEF Part
  <2>6. PICK j \in DOMAIN ss[i] : ss[i][j].sub = sub
    BY <2>1, <2>5 DEF Sound, Complete
  <2>7. Flattens(rows, ss, Len(questions), at)
    BY <2>3
  <2>8. at[i] + j \in Places(q) /\ rows[at[i] + j] = ss[i][j]
    BY <2>2, <2>4, <2>5, <2>7, RowsOfQuestion
  <2>9. QED
    BY <2>6, <2>8
<1>2. QED
  BY <1>1, QuestionnaireInductive, PTL

\* All that an accepted answer says is stored, each value under its line or option,
\* but for what its handler passes over (the Validate and Normalize of qtype/*.go).
THEOREM StoredInFull == Spec => []NothingDropped
<1>1. ASSUME QInv PROVE NothingDropped
  <2>1. SUFFICES ASSUME phase = "flattened", NEW q \in Stored,
                        NEW r \in Said(q, case.answers[q.id])
                 PROVE  r \in ToSet(rows)
    BY DEF NothingDropped
  <2> DEFINE questions == case.schema.questions
             a == case.answers[q.id]
  <2>2. IsList(questions)
    BY <1>1, <2>1, SurveyRows
  <2>3. PICK ss, at : /\ Flattens(rows, ss, Len(questions), at)
                      /\ \A i \in DOMAIN questions : IsList(ss[i]) /\ Part(i, ss[i])
    BY <1>1, <2>1, SurveyRows
  <2>4. PICK i \in DOMAIN questions : q = questions[i]
    BY DEF Stored, ToSet
  <2>5. Says(q, a, ss[i])
    BY <2>3, <2>4 DEF Part
  <2>6. r \in ToSet(ss[i])
    BY <2>5 DEF Says
  <2>7. Len(questions) \in Nat /\ i \in 1..Len(questions)
    BY <2>2, ListIs
  <2>8. QED
    BY <2>3, <2>6, <2>7, FlattenMembers
<1>2. QED
  BY <1>1, QuestionnaireInductive, PTL

-----------------------------------------------------------------------------
\* Rows that are equal stand for different askings of the survey: row j of question i
\* is what the survey asks for there.
Asking(i, j, ss) ==
  LET q == case.schema.questions[i]
  IN  <<i, IF q.type \in LineTypes THEN (CHOOSE line : OnLines(q, ss[i], line))[j] ELSE 0>>

LEMMA LinesChosen ==
  ASSUME NEW q, NEW s, q.type \in LineTypes, Apart(q, s)
  PROVE  OnLines(q, s, CHOOSE line : OnLines(q, s, line))
BY DEF Apart

LEMMA AskingIsOne ==
  ASSUME NEW ss, NEW at, NEW k, NEW i \in DOMAIN case.schema.questions, NEW j \in DOMAIN ss[i],
         Placed(k, i, j, ss, at)
  PROVE  Asking(i, j, ss) \in Askings(rows[k])
<1> DEFINE questions == case.schema.questions
           q == questions[i]
           line == CHOOSE line : OnLines(q, ss[i], line)
           Asked(t) == IF questions[t].type \in LineTypes
             THEN {<<t, l>> : l \in {l \in DOMAIN questions[t].lines :
                                       questions[t].lines[l] = rows[k].sub}}
             ELSE {<<t, 0>>}
<1>1. /\ q.id = rows[k].qid /\ rows[k] = ss[i][j] /\ Apart(q, ss[i])
  BY DEF Placed, Sound
<1>2. \A x : x \in Asked(i) => x \in Askings(rows[k])
  BY <1>1 DEF Askings
<1>3. CASE q.type \in LineTypes
  <2>1. OnLines(q, ss[i], line)
    BY <1>1, <1>3, LinesChosen
  <2> HIDE DEF line
  <2>2. line[j] \in DOMAIN q.lines /\ q.lines[line[j]] = rows[k].sub
    BY <1>1, <2>1 DEF OnLines
  <2>3. <<i, line[j]>> \in Asked(i)
    BY <1>3, <2>2
  <2>4. Asking(i, j, ss) = <<i, line[j]>>
    BY <1>3 DEF Asking, line
  <2> HIDE DEF Asked
  <2>5. QED
    BY <1>2, <2>3, <2>4
<1>4. CASE q.type \notin LineTypes
  <2>1. Asking(i, j, ss) = <<i, 0>> /\ <<i, 0>> \in Asked(i)
    BY <1>4 DEF Asking
  <2> HIDE DEF Asked
  <2>2. QED
    BY <1>2, <2>1
<1>5. QED
  BY <1>3, <1>4

LEMMA AskingsDiffer ==
  ASSUME NEW ss, NEW at, NEW k, NEW l, rows[k] = rows[l],
         NEW i \in DOMAIN case.schema.questions, NEW j \in DOMAIN ss[i], Placed(k, i, j, ss, at),
         NEW p \in DOMAIN case.schema.questions, NEW r \in DOMAIN ss[p], Placed(l, p, r, ss, at),
         Asking(i, j, ss) = Asking(p, r, ss)
  PROVE  k = l
<1> DEFINE q == case.schema.questions[i]
           line == CHOOSE line : OnLines(q, ss[i], line)
<1>1. i = p
  <2>1. Asking(i, j, ss)[1] = i /\ Asking(p, r, ss)[1] = p
    BY DEF Asking
  <2>2. QED
    BY <2>1
<1>2. /\ Apart(q, ss[i]) /\ rows[k] = ss[i][j] /\ rows[l] = ss[i][r]
      /\ k = at[i] + j /\ l = at[i] + r
  BY <1>1 DEF Placed, Sound
<1>3. j = r
  <2>1. CASE q.type \in LineTypes
    <3>1. OnLines(q, ss[i], line)
      BY <1>2, <2>1, LinesChosen
    <3>2. Asking(i, j, ss)[2] = line[j] /\ Asking(p, r, ss)[2] = line[r]
      BY <1>1, <2>1 DEF Asking
    <3> HIDE DEF line
    <3>3. line[j] = line[r]
      BY <3>2
    <3>4. QED
      BY <1>1, <1>2, <3>1, <3>3 DEF OnLines
  <2>2. CASE q.type \notin LineTypes
    BY <1>1, <1>2, <2>2 DEF Apart, IsInjective
  <2>3. QED
    BY <2>1, <2>2
<1>4. QED
  BY <1>2, <1>3

LEMMA ImageIsFinite ==
  ASSUME NEW S, IsFiniteSet(S), NEW f PROVE IsFiniteSet({f[x] : x \in S})
<1> DEFINE T == {f[x] : x \in S}
           g == [x \in S |-> f[x]]
<1>1. g \in Surjection(S, T)
  BY DEF Surjection
<1> HIDE DEF g, T
<1>2. IsFiniteSet(T)
  BY <1>1, FS_Surjection
<1>3. QED
  BY <1>2 DEF T

LEMMA PlacesAreFinite == ASSUME NEW s, IsList(s) PROVE \A S \in SUBSET DOMAIN s : IsFiniteSet(S)
<1>1. Len(s) \in Nat /\ DOMAIN s = 1..Len(s)
  BY ListIs
<1>2. IsFiniteSet(1..Len(s))
  BY <1>1, FS_Interval
<1>3. QED
  BY <1>1, <1>2, FS_Subset

LEMMA AskingsAreFinite ==
  ASSUME CaseInv, NEW r PROVE IsFiniteSet(Askings(r))
<1> DEFINE questions == case.schema.questions
           Asked(i) == IF questions[i].type \in LineTypes
             THEN {<<i, j>> : j \in {j \in DOMAIN questions[i].lines :
                                       questions[i].lines[j] = r.sub}}
             ELSE {<<i, 0>>}
           I == {i \in DOMAIN questions : questions[i].id = r.qid}
           asked == [i \in I |-> Asked(i)]
<1>1. IsList(questions) /\ \A q \in ToSet(questions) : IsList(q.lines)
  BY TrialsAssumption DEF CaseInv, IsList, DecodedQuestion
<1>2. ASSUME NEW i \in I PROVE IsFiniteSet(Asked(i))
  <2>1. IsList(questions[i].lines)
    BY <1>1 DEF ToSet
  <2> DEFINE J == {j \in DOMAIN questions[i].lines : questions[i].lines[j] = r.sub}
             pair == [j \in J |-> <<i, j>>]
  <2>2. IsFiniteSet(J)
    BY <2>1, PlacesAreFinite
  <2>3. {<<i, j>> : j \in J} = {pair[j] : j \in J}
    OBVIOUS
  <2> HIDE DEF pair
  <2>4. IsFiniteSet({<<i, j>> : j \in J})
    <3>1. IsFiniteSet({pair[j] : j \in J})
      BY <2>2, ImageIsFinite
    <3>2. QED
      BY <2>3, <3>1
  <2>5. IsFiniteSet({<<i, 0>>})
    BY FS_Singleton
  <2>6. QED
    BY <2>4, <2>5
<1>3. IsFiniteSet(I)
  BY <1>1, PlacesAreFinite
<1>4. Askings(r) = UNION {asked[i] : i \in I}
  BY DEF Askings
<1>5. \A i \in I : IsFiniteSet(asked[i])
  BY <1>2
<1> HIDE DEF asked, I
<1>6. IsFiniteSet({asked[i] : i \in I})
  BY <1>3, ImageIsFinite
<1>7. IsFiniteSet(UNION {asked[i] : i \in I})
  <2> DEFINE all == {asked[i] : i \in I}
  <2>1. IsFiniteSet(all) /\ \A T \in all : IsFiniteSet(T)
    BY <1>5, <1>6
  <2> HIDE DEF all
  <2>2. IsFiniteSet(UNION all)
    BY <2>1, FS_UNION
  <2>3. QED
    BY <2>2 DEF all
<1>8. QED
  BY <1>4, <1>7

\* x is what the survey asks for at the place k of the rows.
AskedAt(k, x, ss, at) ==
  \E i \in DOMAIN case.schema.questions : \E j \in DOMAIN ss[i] :
    Placed(k, i, j, ss, at) /\ x = Asking(i, j, ss)

\* No row is stored more often than the survey asks for it, so that frequencies
\* count a choice once for every question or line that offers it: Normalize trusts
\* Validate to have refused repeated options (choice.go:109-139,
\* matrix_multi.go:70-93), and neither looks for repeated questions or lines.
THEOREM CountedOnceAlways == Spec => []CountedOnce
<1>1. ASSUME QInv PROVE CountedOnce
  <2>1. SUFFICES ASSUME phase = "flattened", NEW z \in DOMAIN rows
                 PROVE  Cardinality({k \in DOMAIN rows : rows[k] = rows[z]})
                          <= Cardinality(Askings(rows[z]))
    BY DEF CountedOnce
  <2> DEFINE questions == case.schema.questions
             same == {k \in DOMAIN rows : rows[k] = rows[z]}
             asks == Askings(rows[z])
  <2>2. IsList(questions)
    BY <1>1, <2>1, SurveyRows
  <2>3. PICK ss, at : /\ Flattens(rows, ss, Len(questions), at)
                      /\ \A i \in DOMAIN questions : IsList(ss[i]) /\ Part(i, ss[i])
    BY <1>1, <2>1, SurveyRows
  <2> DEFINE f == [k \in same |-> CHOOSE x \in asks : AskedAt(k, x, ss, at)]
  <2>4. ASSUME NEW k \in same PROVE \E x \in asks : AskedAt(k, x, ss, at)
    <3>1. PICK i \in DOMAIN questions : \E j \in DOMAIN ss[i] : Placed(k, i, j, ss, at)
      BY <2>2, <2>3, EveryRowPlaced
    <3>2. PICK j \in DOMAIN ss[i] : Placed(k, i, j, ss, at)
      BY <3>1
    <3>3. Asking(i, j, ss) \in asks
      <4>1. Asking(i, j, ss) \in Askings(rows[k]) /\ rows[k] = rows[z]
        BY <3>2, AskingIsOne
      <4>2. QED
        BY <4>1
    <3>4. AskedAt(k, Asking(i, j, ss), ss, at)
      BY <3>2 DEF AskedAt
    <3> HIDE DEF asks
    <3>5. QED
      BY <3>3, <3>4
  <2>5. \A k, l \in same : rows[k] = rows[l]
    OBVIOUS
  <2>6. ASSUME NEW k \in same PROVE f[k] \in asks /\ AskedAt(k, f[k], ss, at)
    <3> HIDE DEF asks, same
    <3>1. QED
      BY <2>4
  <2> HIDE DEF f, same, asks
  <2>7. f \in [same -> asks]
    <3>1. f = [k \in same |-> f[k]]
      BY DEF f
    <3>2. QED
      BY <2>6, <3>1
  <2>8. ASSUME NEW k \in same, NEW l \in same, f[k] = f[l] PROVE k = l
    <3>1. AskedAt(k, f[k], ss, at) /\ AskedAt(l, f[k], ss, at)
      BY <2>6, <2>8
    <3>2. PICK i \in DOMAIN questions : \E j \in DOMAIN ss[i] :
            Placed(k, i, j, ss, at) /\ f[k] = Asking(i, j, ss)
      BY <3>1 DEF AskedAt
    <3>3. PICK j \in DOMAIN ss[i] : Placed(k, i, j, ss, at) /\ f[k] = Asking(i, j, ss)
      BY <3>2
    <3>4. PICK p \in DOMAIN questions : \E r \in DOMAIN ss[p] :
            Placed(l, p, r, ss, at) /\ f[k] = Asking(p, r, ss)
      BY <3>1 DEF AskedAt
    <3>5. PICK r \in DOMAIN ss[p] : Placed(l, p, r, ss, at) /\ f[k] = Asking(p, r, ss)
      BY <3>4
    <3>6. rows[k] = rows[l]
      BY <2>5
    <3>7. QED
      BY <3>3, <3>5, <3>6, AskingsDiffer
  <2>9. f \in Injection(same, asks)
    BY <2>7, <2>8 DEF Injection, IsInjective
  <2>10. IsFiniteSet(asks)
    BY <1>1, AskingsAreFinite DEF asks, QInv
  <2>11. Cardinality(same) <= Cardinality(asks)
    BY <2>9, <2>10, FS_Injection
  <2>12. QED
    BY <2>11 DEF same, asks
<1>2. QED
  BY <1>1, QuestionnaireInductive, PTL
=============================================================================
