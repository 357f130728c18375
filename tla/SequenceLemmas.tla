---------------------------- MODULE SequenceLemmas ----------------------------
(***************************************************************************)
(* Facts about numbers and sequences that the proofs about the programs of *)
(* both ends need.                                                         *)
(***************************************************************************)
EXTENDS Integers, Sequences, SequencesExt, SequenceTheorems, WellFoundedInduction, TLAPS

-----------------------------------------------------------------------------
\* A set of numbers that is not empty has a least one.
LEMMA LeastNumber ==
    ASSUME NEW T \in SUBSET Nat, T # {}
    PROVE  \E x \in T : \A y \in T : x <= y
  <1>1. PICK x \in T : \A y \in T : <<y, x>> \notin OpToRel(<, Nat)
    BY NatLessThanWellFounded, WFMin, Zenon
  <1>2. \A y \in T : ~(y < x)
    BY <1>1 DEF OpToRel
  <1> QED BY <1>2

\* It is what Min picks.
LEMMA LeastOf ==
    ASSUME NEW T \in SUBSET Nat, T # {}
    PROVE  Min(T) \in T /\ \A y \in T : Min(T) <= y
  BY LeastNumber DEF Min

\* A set of numbers that is bounded and not empty has a greatest one.
LEMMA GreatestNumber ==
    ASSUME NEW N \in Nat, NEW T \in SUBSET (0..N), T # {}
    PROVE  \E x \in T : \A y \in T : y <= x
  <1> DEFINE D == {N - x : x \in T}
  <1>1. D \in SUBSET Nat /\ D # {}
    <2>1. \A x \in T : x \in 0..N /\ N - x \in Nat
      OBVIOUS
    <2>2. D \in SUBSET Nat
      BY <2>1
    <2>3. PICK z \in T : TRUE
      OBVIOUS
    <2>4. N - z \in D
      OBVIOUS
    <2> QED BY <2>2, <2>4
  <1>2. PICK d \in D : \A e \in D : d <= e
    <2> HIDE DEF D
    <2> QED BY <1>1, LeastNumber
  <1>3. PICK x \in T : d = N - x
    BY <1>2
  <1>4. \A y \in T : N - x <= N - y
    BY <1>2, <1>3
  <1>5. \A y \in T : y <= x
    BY <1>4
  <1> QED BY <1>3, <1>5

\* A bounded set of integers that is not empty has both ends.
LEMMA EndsOf ==
    ASSUME NEW lo \in Int, NEW hi \in Int, NEW T \in SUBSET (lo..hi), T # {}
    PROVE  /\ Min(T) \in T /\ \A y \in T : Min(T) <= y
           /\ Max(T) \in T /\ \A y \in T : y <= Max(T)
  <1>1. \E x \in T : \A y \in T : x <= y
    <2> DEFINE U == {y - lo : y \in T}
    <2>1. U \in SUBSET Nat /\ U # {}
      OBVIOUS
    <2>2. PICK u \in U : \A v \in U : u <= v
      <3> HIDE DEF U
      <3> QED BY <2>1, LeastOf
    <2>3. PICK x \in T : u = x - lo
      OBVIOUS
    <2>4. \A y \in T : y - lo \in U /\ y \in Int
      OBVIOUS
    <2>5. \A y \in T : x <= y
      BY <2>2, <2>3, <2>4
    <2> QED BY <2>5
  <1>2. \E x \in T : \A y \in T : y <= x
    <2> DEFINE U == {hi - y : y \in T}
    <2>1. U \in SUBSET Nat /\ U # {}
      <3>1. \A y \in T : hi - y \in Nat
        OBVIOUS
      <3> QED BY <3>1
    <2>2. PICK u \in U : \A v \in U : u <= v
      <3> HIDE DEF U
      <3> QED BY <2>1, LeastOf
    <2>3. PICK x \in T : u = hi - x
      OBVIOUS
    <2>4. \A y \in T : hi - y \in U /\ y \in Int
      OBVIOUS
    <2>5. \A y \in T : y <= x
      <3>1. \A y \in T : hi - x <= hi - y
        BY <2>2, <2>3, <2>4
      <3>2. x \in Int /\ \A y \in T : y \in Int
        OBVIOUS
      <3> HIDE DEF U
      <3> QED BY <3>1, <3>2
    <2> QED BY <2>5
  <1>3. Max(T) \in T /\ \A y \in T : Max(T) >= y
    BY <1>2 DEF Max
  <1> QED BY <1>1, <1>3 DEF Min

\* A set of numbers that has 0, and with a number the next one up to n, has
\* them all up to n.
LEMMA Climb ==
    ASSUME NEW n \in Nat, NEW X, 0 \in X, \A i \in 0..(n - 1) : i \in X => i + 1 \in X
    PROVE  \A i \in 0..n : i \in X
  <1> SUFFICES ASSUME NEW k \in 0..n, k \notin X PROVE FALSE
    OBVIOUS
  <1> DEFINE T == {i \in 0..n : i \notin X}
  <1>1. T \in SUBSET Nat /\ T # {}
    OBVIOUS
  <1>2. PICK x \in T : \A y \in T : <<y, x>> \notin OpToRel(<, Nat)
    BY <1>1, NatLessThanWellFounded, WFMin, Zenon
  <1>3. x \in 0..n /\ x \notin X /\ x # 0
    BY <1>2
  <1>4. x - 1 \in 0..(n - 1) /\ x - 1 \in Nat /\ x \in Nat /\ x - 1 < x
    BY <1>3
  <1>5. x - 1 \notin X
    BY <1>3, <1>4
  <1>6. x - 1 \in T
    BY <1>4, <1>5
  <1>7. <<x - 1, x>> \in OpToRel(<, Nat)
    BY <1>4 DEF OpToRel
  <1> QED BY <1>2, <1>6, <1>7

-----------------------------------------------------------------------------
\* Sequences and the sets of their elements.
LEMMA RangeIs == \A s, x : x \in Range(s) <=> \E i \in DOMAIN s : s[i] = x
  BY DEF Range

\* A sequence is one of its own elements.
LEMMA SeqInRange ==
    ASSUME NEW S, NEW s \in Seq(S)
    PROVE  s \in Seq(Range(s)) /\ Range(s) \subseteq S
  <1>1. Len(s) \in Nat /\ s \in [1..Len(s) -> S] /\ DOMAIN s = 1..Len(s)
    BY LenProperties
  <1>2. s \in [1..Len(s) -> Range(s)]
    BY <1>1, RangeIs
  <1>3. s \in Seq(Range(s))
    BY <1>1, <1>2, SeqDef
  <1> QED BY <1>1, <1>3, RangeIs

(***************************************************************************)
(* Sequences that are made of others.                                      *)
(***************************************************************************)
\* FlattenSeq appends one sequence after the other.
RunOfFlatten(a, ss) ==
    /\ a[1] = ss[1]
    /\ \A i \in 2..Len(ss) : a[i] = a[i - 1] \o ss[i]
    /\ FlattenSeq(ss) = a[Len(ss)]

\* What FlattenSeq joins, it joins one after the other.
LEMMA FlattenInTurn ==
    ASSUME NEW S, NEW ss \in Seq(S), Len(ss) # 0
    PROVE  \E a : RunOfFlatten(a, ss)
  <1> DEFINE n == Len(ss)
             Solves(g, k) == g = [i \in 1..k |-> IF i = 1 THEN ss[i] ELSE g[i - 1] \o ss[i]]
             X == {k \in 0..(n - 1) : \E g : Solves(g, k + 1)}
  <1>1. n \in Nat /\ n >= 1
    BY LenProperties
  <1>2. 0 \in X
    <2> DEFINE g == [i \in 1..1 |-> ss[1]]
    <2>1. Solves(g, 0 + 1)
      OBVIOUS
    <2> HIDE DEF g, Solves
    <2> QED BY <2>1, <1>1
  <1>3. ASSUME NEW k \in 0..((n - 1) - 1), k \in X PROVE k + 1 \in X
    <2> DEFINE m == k + 1
    <2>1. PICK g : Solves(g, m)
      BY <1>3
    <2> DEFINE h == [i \in 1..(m + 1) |-> IF i = m + 1 THEN g[m] \o ss[m + 1] ELSE g[i]]
    <2>2. m \in Nat /\ m >= 1 /\ m \in 0..(n - 1)
      BY <1>1
    <2> HIDE DEF m
    <2>3. \A i \in 1..m : h[i] = g[i]
      BY <2>2
    <2>4. ASSUME NEW i \in 1..(m + 1)
          PROVE  h[i] = IF i = 1 THEN ss[i] ELSE h[i - 1] \o ss[i]
      <3>1. CASE i = 1
        BY <3>1, <2>1, <2>2, <2>3
      <3>2. CASE i \in 2..m
        <4>1. i - 1 \in 1..m /\ i \in 1..m /\ i # 1
          BY <3>2, <2>2
        <4>2. g[i] = g[i - 1] \o ss[i]
          BY <4>1, <2>1
        <4> HIDE DEF h
        <4> QED BY <4>1, <4>2, <2>3
      <3>3. CASE i = m + 1
        <4>1. h[m] = g[m] /\ i # 1 /\ i - 1 = m
          BY <3>3, <2>2, <2>3
        <4>2. h[i] = g[m] \o ss[m + 1]
          BY <3>3, <2>2
        <4> HIDE DEF h
        <4> QED BY <3>3, <4>1, <4>2
      <3> QED BY <3>1, <3>2, <3>3, <2>2
    <2>5. h = [i \in 1..(m + 1) |-> h[i]]
      OBVIOUS
    <2>6. Solves(h, m + 1)
      <3> HIDE DEF h
      <3> QED BY <2>4, <2>5
    <2> HIDE DEF h, Solves
    <2>7. \E f : Solves(f, (k + 1) + 1) /\ k + 1 \in 0..(n - 1)
      BY <2>2, <2>6 DEF m
    <2> QED BY <2>7
  <1>4. n - 1 \in X
    <2> HIDE DEF X
    <2>1. n - 1 \in 0..(n - 1) /\ n - 1 \in Nat
      BY <1>1
    <2> QED BY <1>2, <1>3, <2>1, Climb
  <1>5. PICK g : Solves(g, n)
    <2>1. \E g : Solves(g, (n - 1) + 1)
      BY <1>4
    <2>2. (n - 1) + 1 = n
      BY <1>1
    <2> HIDE DEF n, Solves
    <2> QED BY <2>1, <2>2
  <1> DEFINE a == CHOOSE a : Solves(a, n)
  <1>6. Solves(a, n)
    <2> HIDE DEF Solves
    <2> QED BY <1>5
  <1>7. FlattenSeq(ss) = a[n]
    BY <1>1 DEF FlattenSeq
  <1> HIDE DEF a
  <1>8. a[1] = ss[1]
    BY <1>1, <1>6
  <1>9. \A i \in 2..Len(ss) : a[i] = a[i - 1] \o ss[i]
    <2> TAKE i \in 2..n
    <2>1. i \in 1..n /\ i # 1
      BY <1>1
    <2> QED BY <2>1, <1>6
  <1> HIDE DEF Solves
  <1> QED BY <1>7, <1>8, <1>9 DEF RunOfFlatten

\* Its elements are those of the sequences.
LEMMA ConcatElements ==
    ASSUME NEW S, NEW s \in Seq(S), NEW t \in Seq(S)
    PROVE  s \o t \in Seq(S) /\ Range(s \o t) = Range(s) \union Range(t)
  <1>1. /\ s \o t \in Seq(S) /\ Len(s \o t) = Len(s) + Len(t)
        /\ \A i \in 1..Len(s) + Len(t) :
               (s \o t)[i] = IF i <= Len(s) THEN s[i] ELSE t[i - Len(s)]
    BY ConcatProperties
  <1>2. /\ Len(s) \in Nat /\ DOMAIN s = 1..Len(s) /\ Len(t) \in Nat /\ DOMAIN t = 1..Len(t)
        /\ DOMAIN (s \o t) = 1..(Len(s) + Len(t))
    BY <1>1, LenProperties
  <1> DEFINE u == s \o t
  <1> HIDE DEF u
  <1>3. ASSUME NEW x \in Range(u) PROVE x \in Range(s) \union Range(t)
    <2>1. PICK i \in 1..(Len(s) + Len(t)) : u[i] = x
      BY <1>2, RangeIs DEF u
    <2>2. CASE i <= Len(s)
      <3>1. i \in DOMAIN s /\ s[i] = x
        BY <2>1, <2>2, <1>1, <1>2 DEF u
      <3> QED BY <3>1, RangeIs
    <2>3. CASE ~(i <= Len(s))
      <3>1. i - Len(s) \in DOMAIN t /\ t[i - Len(s)] = x
        BY <2>1, <2>3, <1>1, <1>2 DEF u
      <3> QED BY <3>1, RangeIs
    <2> QED BY <2>2, <2>3
  <1>4. ASSUME NEW x \in Range(s) PROVE x \in Range(u)
    <2>1. PICK i \in 1..Len(s) : s[i] = x
      BY <1>2, RangeIs
    <2>2. i \in DOMAIN u /\ u[i] = x
      BY <2>1, <1>1, <1>2 DEF u
    <2> QED BY <2>2, RangeIs
  <1>5. ASSUME NEW x \in Range(t) PROVE x \in Range(u)
    <2>1. PICK i \in 1..Len(t) : t[i] = x
      BY <1>2, RangeIs
    <2>2. /\ i + Len(s) \in 1..(Len(s) + Len(t)) /\ ~(i + Len(s) <= Len(s))
          /\ (i + Len(s)) - Len(s) = i
      BY <2>1, <1>2
    <2>3. i + Len(s) \in DOMAIN u /\ u[i + Len(s)] = x
      BY <2>1, <2>2, <1>1, <1>2 DEF u
    <2> QED BY <2>3, RangeIs
  <1> QED BY <1>1, <1>3, <1>4, <1>5 DEF u

\* FlattenSeq yields the elements of its sequences.
LEMMA FlattenElements ==
    ASSUME NEW S, NEW ss \in Seq(Seq(S))
    PROVE  FlattenSeq(ss) \in Seq(S)
           /\ \A x \in Range(FlattenSeq(ss)) : \E i \in DOMAIN ss : x \in Range(ss[i])
  <1> DEFINE n == Len(ss)
  <1>1. n \in Nat /\ DOMAIN ss = 1..n /\ \A i \in 1..n : ss[i] \in Seq(S)
    BY LenProperties, ElementOfSeq
  <1>2. CASE n = 0
    <2>1. ss = <<>>
      BY <1>2, EmptySeq
    <2>2. FlattenSeq(ss) = <<>>
      BY <1>2, <2>1 DEF FlattenSeq
    <2> QED BY <2>2, RangeIs
  <1>3. CASE n # 0
    <2>1. PICK a : RunOfFlatten(a, ss)
      BY <1>3, FlattenInTurn
    <2>2. /\ a[1] = ss[1] /\ \A i \in 2..n : a[i] = a[i - 1] \o ss[i]
          /\ FlattenSeq(ss) = a[n]
      BY <2>1 DEF RunOfFlatten
    <2> DEFINE Good(i) == a[i] \in Seq(S)
                          /\ \A x \in Range(a[i]) : \E j \in DOMAIN ss : x \in Range(ss[j])
               X == {i \in 0..(n - 1) : Good(i + 1)}
    <2>3. 0 \in X
      <3>1. Good(0 + 1)
        BY <1>1, <1>3, <2>2
      <3> HIDE DEF Good
      <3> QED BY <3>1, <1>1, <1>3
    <2>4. ASSUME NEW i \in 0..((n - 1) - 1), i \in X PROVE i + 1 \in X
      <3> DEFINE m == i + 1
      <3>1. m \in 1..n /\ m + 1 \in 2..n /\ (m + 1) - 1 = m /\ m \in 0..(n - 1) /\ m + 1 \in 1..n
        BY <1>1
      <3>2. Good(m)
        BY <2>4
      <3> HIDE DEF m
      <3>3. a[m + 1] = a[m] \o ss[m + 1] /\ ss[m + 1] \in Seq(S) /\ m + 1 \in DOMAIN ss
        BY <3>1, <2>2, <1>1
      <3>4. a[m + 1] \in Seq(S) /\ Range(a[m + 1]) = Range(a[m]) \union Range(ss[m + 1])
        BY <3>2, <3>3, ConcatElements
      <3>5. Good(m + 1)
        BY <3>2, <3>3, <3>4
      <3> HIDE DEF Good
      <3>6. Good((i + 1) + 1) /\ i + 1 \in 0..(n - 1)
        BY <3>1, <3>5 DEF m
      <3> QED BY <3>6
    <2>5. n - 1 \in X
      <3> HIDE DEF X
      <3>1. n - 1 \in Nat /\ n - 1 \in 0..(n - 1)
        BY <1>1, <1>3
      <3> QED BY <2>3, <2>4, <3>1, Climb
    <2>6. Good(n)
      <3>1. (n - 1) + 1 = n
        BY <1>1
      <3>2. Good((n - 1) + 1)
        BY <2>5
      <3> HIDE DEF n, Good
      <3> QED BY <3>1, <3>2
    <2> QED BY <2>2, <2>6
  <1> QED BY <1>2, <1>3

===============================================================================
