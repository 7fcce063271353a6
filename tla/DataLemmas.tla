----------------------------- MODULE DataLemmas -----------------------------
(***************************************************************************)
(* What the proofs know of the data they share: queues that hold no        *)
(* element twice (pushing, popping, what they contain), induction over the *)
(* naturals and over finite sets, with the set of the instances in the     *)
(* place of a predicate, and sums over finite sets.                        *)
(***************************************************************************)
EXTENDS Integers, Sequences, SequencesExt, FiniteSetTheorems, WellFoundedInduction, TLAPS

-----------------------------------------------------------------------------
(* Queues. *)

\* The element pushed is the only one that comes in (std::queue::push).
LEMMA PushContains ==
    ASSUME NEW S, NEW s \in Seq(S), NEW e \in S, NEW x
    PROVE  Contains(Append(s, e), x) <=> Contains(s, x) \/ x = e
  BY DEF Contains

\* Pushing an element the queue does not hold keeps it free of repetitions.
LEMMA PushInjective ==
    ASSUME NEW S, NEW s \in Seq(S), NEW e \in S, IsInjective(s), ~Contains(s, e)
    PROVE  Append(s, e) \in Seq(S) /\ IsInjective(Append(s, e))
  <1>1. /\ Append(s, e) \in Seq(S) /\ Len(s) \in Nat
        /\ DOMAIN Append(s, e) = 1..(Len(s) + 1) /\ DOMAIN s = 1..Len(s)
        /\ Append(s, e)[Len(s) + 1] = e
        /\ \A i \in 1..Len(s) : Append(s, e)[i] = s[i]
    OBVIOUS
  <1>2. \A i \in 1..Len(s) : s[i] # e
    BY DEF Contains
  <1>3. ASSUME NEW i \in DOMAIN Append(s, e), NEW j \in DOMAIN Append(s, e),
               Append(s, e)[i] = Append(s, e)[j]
        PROVE  i = j
    <2>1. CASE i \in 1..Len(s) /\ j \in 1..Len(s)
      BY <1>1, <1>3, <2>1 DEF IsInjective
    <2>2. CASE i = Len(s) + 1 \/ j = Len(s) + 1
      BY <1>1, <1>2, <1>3, <2>2
    <2> QED BY <1>1, <2>1, <2>2
  <1>4. IsInjective(Append(s, e))
    BY <1>3, Zenon DEF IsInjective
  <1> QED BY <1>1, <1>4

\* The front of a queue that is not empty is one of its elements.
LEMMA FrontContains ==
    ASSUME NEW S, NEW s \in Seq(S), s # <<>>
    PROVE  Head(s) \in S /\ Contains(s, Head(s))
  BY DEF Contains

\* Popping takes the front out and nothing else (std::queue::pop).
LEMMA PopContains ==
    ASSUME NEW S, NEW s \in Seq(S), s # <<>>, IsInjective(s), NEW x
    PROVE  Contains(Tail(s), x) <=> Contains(s, x) /\ x # Head(s)
  <1>1. /\ Tail(s) \in Seq(S) /\ Len(Tail(s)) = Len(s) - 1
        /\ \A i \in 1..Len(Tail(s)) : Tail(s)[i] = s[i + 1]
        /\ Head(s) = s[1] /\ Len(s) \in Nat \ {0} /\ DOMAIN s = 1..Len(s)
    OBVIOUS
  <1>2. ASSUME Contains(Tail(s), x) PROVE Contains(s, x) /\ x # Head(s)
    <2>1. PICK i \in 1..Len(Tail(s)) : Tail(s)[i] = x
      BY <1>2 DEF Contains
    <2>2. i + 1 \in 1..Len(s) /\ s[i + 1] = x /\ i + 1 # 1
      BY <1>1, <2>1
    <2> QED BY <1>1, <2>2 DEF Contains, IsInjective
  <1>3. ASSUME Contains(s, x), x # Head(s) PROVE Contains(Tail(s), x)
    <2>1. PICK i \in 1..Len(s) : s[i] = x
      BY <1>3 DEF Contains
    <2>2. i - 1 \in 1..Len(Tail(s)) /\ Tail(s)[i - 1] = x
      BY <1>1, <1>3, <2>1
    <2> QED BY <2>2 DEF Contains
  <1> QED BY <1>2, <1>3

\* Popping keeps a queue free of repetitions.
LEMMA PopInjective ==
    ASSUME NEW S, NEW s \in Seq(S), s # <<>>, IsInjective(s)
    PROVE  Tail(s) \in Seq(S) /\ IsInjective(Tail(s))
  <1>1. /\ Tail(s) \in Seq(S) /\ Len(Tail(s)) = Len(s) - 1
        /\ DOMAIN Tail(s) = 1..Len(Tail(s)) /\ DOMAIN s = 1..Len(s)
        /\ Len(s) \in Nat \ {0}
        /\ \A i \in 1..Len(Tail(s)) : Tail(s)[i] = s[i + 1]
    OBVIOUS
  <1>2. ASSUME NEW i \in 1..Len(Tail(s)), NEW j \in 1..Len(Tail(s)),
               Tail(s)[i] = Tail(s)[j]
        PROVE  i = j
    <2>1. i + 1 \in DOMAIN s /\ j + 1 \in DOMAIN s /\ s[i + 1] = s[j + 1]
      BY <1>1, <1>2
    <2> QED BY <2>1 DEF IsInjective
  <1> QED BY <1>1, <1>2 DEF IsInjective

\* The elements of two queues one behind the other.
LEMMA ConcatContains ==
    ASSUME NEW S, NEW s \in Seq(S), NEW r \in Seq(S), NEW x
    PROVE  Contains(s \o r, x) <=> Contains(s, x) \/ Contains(r, x)
  <1>1. /\ Len(s) \in Nat /\ Len(r) \in Nat /\ Len(s \o r) = Len(s) + Len(r)
        /\ \A i \in 1..Len(s) : (s \o r)[i] = s[i]
        /\ \A i \in 1..Len(r) : (s \o r)[Len(s) + i] = r[i]
    OBVIOUS
  <1>2. ASSUME Contains(s, x) PROVE Contains(s \o r, x)
    BY <1>1, <1>2 DEF Contains
  <1>3. ASSUME Contains(r, x) PROVE Contains(s \o r, x)
    <2>1. PICK i \in 1..Len(r) : r[i] = x
      BY <1>3 DEF Contains
    <2>2. Len(s) + i \in 1..Len(s \o r) /\ (s \o r)[Len(s) + i] = x
      BY <1>1, <2>1
    <2> QED BY <2>2 DEF Contains
  <1>4. ASSUME Contains(s \o r, x) PROVE Contains(s, x) \/ Contains(r, x)
    <2>1. PICK i \in 1..Len(s \o r) : (s \o r)[i] = x
      BY <1>4 DEF Contains
    <2>2. CASE i <= Len(s)
      BY <1>1, <2>1, <2>2 DEF Contains
    <2>3. CASE i > Len(s)
      <3>1. i - Len(s) \in 1..Len(r) /\ Len(s) + (i - Len(s)) = i
        BY <1>1, <2>3
      <3>2. r[i - Len(s)] = x
        BY <1>1, <2>1, <3>1
      <3> QED BY <3>1, <3>2 DEF Contains
    <2> QED BY <1>1, <2>2, <2>3
  <1> QED BY <1>2, <1>3, <1>4

\* Pushing at the end of the second, popping at the front of the first.
LEMMA ConcatPush ==
    ASSUME NEW S, NEW s \in Seq(S), NEW r \in Seq(S), NEW e \in S
    PROVE  s \o Append(r, e) = Append(s \o r, e)
  OBVIOUS

LEMMA ConcatPop ==
    ASSUME NEW S, NEW s \in Seq(S), NEW r \in Seq(S), s # <<>>
    PROVE  /\ s \o r # <<>>
           /\ Head(s \o r) = Head(s)
           /\ Tail(s \o r) = Tail(s) \o r
  OBVIOUS

\* The same for the set of the elements.
LEMMA RangeContains ==
    ASSUME NEW S, NEW s \in Seq(S), NEW x
    PROVE  Contains(s, x) <=> x \in Range(s)
  <1>1. DOMAIN s = 1..Len(s)
    OBVIOUS
  <1> QED BY <1>1, Zenon DEF Contains, Range

LEMMA RangePush ==
    ASSUME NEW S, NEW s \in Seq(S), NEW e \in S
    PROVE  Range(Append(s, e)) = Range(s) \cup {e}
  <1>1. ASSUME NEW x PROVE x \in Range(Append(s, e)) <=> x \in Range(s) \/ x = e
    <2>1. Append(s, e) \in Seq(S)
      OBVIOUS
    <2>2. Contains(Append(s, e), x) <=> Contains(s, x) \/ x = e
      BY PushContains
    <2>3. Contains(Append(s, e), x) <=> x \in Range(Append(s, e))
      BY <2>1, RangeContains
    <2> QED BY <2>2, <2>3, RangeContains
  <1> QED BY <1>1, Zenon

LEMMA RangePop ==
    ASSUME NEW S, NEW s \in Seq(S), s # <<>>, IsInjective(s)
    PROVE  Head(s) \in Range(s) /\ Range(Tail(s)) = Range(s) \ {Head(s)}
  <1>1. ASSUME NEW x PROVE x \in Range(Tail(s)) <=> x \in Range(s) /\ x # Head(s)
    BY PopContains, PopInjective, RangeContains
  <1>2. Head(s) \in Range(s)
    BY FrontContains, RangeContains
  <1> QED BY <1>1, <1>2, Zenon

-----------------------------------------------------------------------------
(* Induction. *)

\* A set of naturals that is not empty has a least element.
LEMMA LeastNat ==
    ASSUME NEW S \in SUBSET Nat, S # {}
    PROVE  \E n \in S : \A m \in S : n <= m
  <1> DEFINE R == OpToRel(<, Nat)
  <1>1. IsWellFoundedOn(R, Nat)
    BY NatLessThanWellFounded
  <1>2. \A m, n \in Nat : m < n => <<m, n>> \in R
    BY DEF OpToRel
  <1> HIDE DEF R
  <1>3. PICK n \in S : \A m \in S : ~(<<m, n>> \in R)
    BY <1>1, WFMin
  <1>4. \A m \in S : m \in Nat /\ n \in Nat /\ ~(m < n)
    BY <1>2, <1>3
  <1> QED BY <1>3, <1>4

\* Induction over the naturals, over the finite subsets of a set.
LEMMA NatSetInduction ==
    ASSUME NEW P, 0 \in P, \A n \in Nat : n \in P => n + 1 \in P
    PROVE  Nat \subseteq P
  <1> SUFFICES ASSUME Nat \ P # {} PROVE FALSE
    OBVIOUS
  <1>1. PICK n \in Nat \ P : \A m \in Nat \ P : n <= m
    BY LeastNat
  <1>2. n - 1 \in Nat /\ n - 1 \in P
    BY <1>1
  <1> QED BY <1>1, <1>2

LEMMA FiniteSetInduction ==
    ASSUME NEW S, IsFiniteSet(S), NEW P, {} \in P,
           \A T \in SUBSET S, x \in S : T \in P /\ x \notin T => T \cup {x} \in P
    PROVE  SUBSET S \subseteq P
  <1> DEFINE N == {n \in Nat : \A T \in SUBSET S : Cardinality(T) = n => T \in P}
  <1>1. \A T \in SUBSET S : IsFiniteSet(T) /\ Cardinality(T) \in Nat
    BY FS_Subset, FS_CardinalityType
  <1>2. 0 \in N
    BY <1>1, FS_EmptySet
  <1>3. ASSUME NEW n \in Nat, n \in N PROVE n + 1 \in N
    <2> SUFFICES ASSUME NEW T \in SUBSET S, Cardinality(T) = n + 1 PROVE T \in P
      OBVIOUS
    <2>0. \A U \in SUBSET S : Cardinality(U) = n => U \in P
      BY <1>3
    <2> HIDE DEF N
    <2>1. PICK x : x \in T
      <3>1. Cardinality({}) = 0 /\ n + 1 # 0
        BY FS_EmptySet
      <3>2. T # {}
        BY <3>1
      <3> QED BY <3>2
    <2>2. Cardinality(T \ {x}) = n
      <3>1. Cardinality(T \ {x}) = Cardinality(T) - 1
        BY <1>1, <2>1, FS_RemoveElement
      <3> QED BY <3>1
    <2>3. T \ {x} \in P
      BY <2>0, <2>2
    <2>4. T = (T \ {x}) \cup {x}
      BY <2>1
    <2> QED BY <2>1, <2>3, <2>4
  <1> HIDE DEF N
  <1>4. Nat \subseteq N
    BY <1>2, <1>3, NatSetInduction
  <1> QED BY <1>1, <1>4 DEF N

-----------------------------------------------------------------------------
(* Sums. *)

\* The recursive function SumFunctionOnSet takes its value from.
FirstOf(s) == CHOOSE x \in s : TRUE
SumEq(g, f, S) ==
    g = [s \in SUBSET S |-> IF s = {} THEN 0 ELSE f[FirstOf(s)] + g[s \ {FirstOf(s)}]]

\* The function exists, although its definition recurs.
LEMMA SumSolution ==
    ASSUME NEW f, NEW S, IsFiniteSet(S)
    PROVE  \E g : SumEq(g, f, S) /\ SumFunctionOnSet(f, S) = g[S]
  <1> DEFINE Eq(g, s) == IF s = {} THEN 0 ELSE f[FirstOf(s)] + g[s \ {FirstOf(s)}]
             N == {n \in Nat : \E g : \A s \in SUBSET S : Cardinality(s) <= n => g[s] = Eq(g, s)}
  <1>0. \A T \in SUBSET S : IsFiniteSet(T) /\ Cardinality(T) \in Nat
    BY FS_Subset, FS_CardinalityType
  <1>1. 0 \in N
    <2> DEFINE g == [s \in SUBSET S |-> 0]
    <2>1. \A s \in SUBSET S : Cardinality(s) <= 0 => s = {}
      BY <1>0, FS_EmptySet
    <2>2. \A s \in SUBSET S : Cardinality(s) <= 0 => g[s] = Eq(g, s)
      BY <2>1
    <2> QED BY <2>2
  <1>2. ASSUME NEW n \in Nat, n \in N PROVE n + 1 \in N
    <2>1. PICK g : \A s \in SUBSET S : Cardinality(s) <= n => g[s] = Eq(g, s)
      BY <1>2
    <2> DEFINE h == [s \in SUBSET S |-> Eq(g, s)]
    <2>2. ASSUME NEW s \in SUBSET S, Cardinality(s) <= n + 1, s # {}
          PROVE  h[s] = Eq(h, s)
      <3>1. FirstOf(s) \in s
        BY <2>2 DEF FirstOf
      <3>2. Cardinality(s \ {FirstOf(s)}) <= n /\ s \ {FirstOf(s)} \in SUBSET S
        BY <1>0, <2>2, <3>1, FS_RemoveElement
      <3>3. h[s \ {FirstOf(s)}] = g[s \ {FirstOf(s)}]
        BY <2>1, <3>2
      <3> QED BY <2>2, <3>3
    <2>3. \A s \in SUBSET S : Cardinality(s) <= n + 1 => h[s] = Eq(h, s)
      BY <2>2
    <2>4. \E k : \A s \in SUBSET S : Cardinality(s) <= n + 1 => k[s] = Eq(k, s)
      <3> HIDE DEF h, Eq
      <3> QED BY <2>3, Zenon
    <2>5. n + 1 \in Nat
      OBVIOUS
    <2> HIDE DEF Eq, h
    <2> QED BY <2>4, <2>5, Zenon
  <1>3. Nat \subseteq N
    <2> HIDE DEF N
    <2> QED BY <1>1, <1>2, NatSetInduction
  <1>4. PICK g : \A s \in SUBSET S : g[s] = Eq(g, s)
    <2>1. PICK g : \A s \in SUBSET S : Cardinality(s) <= Cardinality(S) => g[s] = Eq(g, s)
      BY <1>0, <1>3
    <2> QED BY <1>0, <2>1, FS_Subset
  <1> DEFINE h == [s \in SUBSET S |-> Eq(g, s)]
  <1>5. \A s \in SUBSET S : h[s] = g[s] /\ Eq(h, s) = Eq(g, s)
    BY <1>4
  <1>6. SumEq(h, f, S)
    BY <1>5 DEF SumEq
  <1> HIDE DEF h
  <1> DEFINE c == CHOOSE k : SumEq(k, f, S)
  <1>7. SumEq(c, f, S)
    BY <1>6
  <1>8. SumFunctionOnSet(f, S) = c[S]
    BY Zenon DEF SumFunctionOnSet, FoldFunctionOnSet, MapThenFoldSet, SumEq, FirstOf
  <1> QED BY <1>7, <1>8

\* Solutions on a set and on one of its subsets agree.
LEMMA SumAgree ==
    ASSUME NEW f, NEW S, IsFiniteSet(S), NEW T \in SUBSET S,
           NEW g, SumEq(g, f, S), NEW h, SumEq(h, f, T)
    PROVE  g[T] = h[T]
  <1> DEFINE N == {n \in Nat : \A U \in SUBSET T : Cardinality(U) <= n => g[U] = h[U]}
  <1>0. \A U \in SUBSET T : IsFiniteSet(U) /\ Cardinality(U) \in Nat
    BY FS_Subset, FS_CardinalityType
  <1>1. \A U \in SUBSET T : U # {} =>
            /\ FirstOf(U) \in U
            /\ g[U] = f[FirstOf(U)] + g[U \ {FirstOf(U)}] /\ h[U] = f[FirstOf(U)] + h[U \ {FirstOf(U)}]
    BY DEF SumEq, FirstOf
  <1>2. g[{}] = h[{}]
    BY DEF SumEq
  <1>3. 0 \in N
    <2>1. \A U \in SUBSET T : Cardinality(U) <= 0 => U = {}
      BY <1>0, FS_EmptySet
    <2> QED BY <1>2, <2>1
  <1>4. ASSUME NEW n \in Nat, n \in N PROVE n + 1 \in N
    <2>0. \A U \in SUBSET T : Cardinality(U) <= n => g[U] = h[U]
      BY <1>4
    <2> SUFFICES ASSUME NEW U \in SUBSET T, Cardinality(U) <= n + 1 PROVE g[U] = h[U]
      OBVIOUS
    <2> HIDE DEF N
    <2>1. CASE U = {}
      BY <1>2, <2>1
    <2>2. CASE U # {}
      <3>1. FirstOf(U) \in U
        BY <1>1, <2>2
      <3>2. Cardinality(U \ {FirstOf(U)}) <= n /\ U \ {FirstOf(U)} \in SUBSET T
        <4>1. IsFiniteSet(U) /\ Cardinality(U) \in Nat
          BY <1>0
        <4>2. Cardinality(U \ {FirstOf(U)}) = Cardinality(U) - 1
          BY <3>1, <4>1, FS_RemoveElement
        <4> QED BY <4>1, <4>2
      <3>3. g[U \ {FirstOf(U)}] = h[U \ {FirstOf(U)}]
        BY <2>0, <3>2
      <3> QED BY <1>1, <2>2, <3>3
    <2> QED BY <2>1, <2>2
  <1> HIDE DEF N
  <1>5. Cardinality(T) \in N /\ Cardinality(T) \in Nat
    BY <1>0, <1>3, <1>4, NatSetInduction
  <1> QED BY <1>5 DEF N

\* One step of the recursion.
LEMMA SumUnfold ==
    ASSUME NEW f, NEW S, IsFiniteSet(S), S # {}
    PROVE  /\ FirstOf(S) \in S
           /\ SumFunctionOnSet(f, S) = f[FirstOf(S)] + SumFunctionOnSet(f, S \ {FirstOf(S)})
  <1>1. PICK g : SumEq(g, f, S) /\ SumFunctionOnSet(f, S) = g[S]
    BY SumSolution
  <1> DEFINE T == S \ {FirstOf(S)}
  <1>2. IsFiniteSet(T) /\ T \in SUBSET S
    BY FS_Subset
  <1>3. PICK h : SumEq(h, f, T) /\ SumFunctionOnSet(f, T) = h[T]
    BY <1>2, SumSolution
  <1>4. g[T] = h[T]
    BY <1>1, <1>2, <1>3, SumAgree
  <1>5. g[S] = f[FirstOf(S)] + g[T]
    BY <1>1 DEF SumEq
  <1> QED BY <1>1, <1>3, <1>4, <1>5 DEF FirstOf

LEMMA SumEmpty == ASSUME NEW f PROVE SumFunctionOnSet(f, {}) = 0
  <1>1. PICK g : SumEq(g, f, {}) /\ SumFunctionOnSet(f, {}) = g[{}]
    BY SumSolution, FS_EmptySet
  <1>2. g[{}] = 0
    BY <1>1 DEF SumEq
  <1> QED BY <1>1, <1>2

\* The sum is an integer, and does not depend on the order of the summands.
LEMMA SumAdd ==
    ASSUME NEW S, IsFiniteSet(S), NEW f, \A x \in S : f[x] \in Int
    PROVE  /\ \A T \in SUBSET S : SumFunctionOnSet(f, T) \in Int
           /\ \A T \in SUBSET S : \A x \in S \ T :
                  SumFunctionOnSet(f, T \cup {x}) = SumFunctionOnSet(f, T) + f[x]
  <1> DEFINE Good(T) == /\ SumFunctionOnSet(f, T) \in Int
                        /\ \A x \in S \ T : SumFunctionOnSet(f, T \cup {x})
                                                = SumFunctionOnSet(f, T) + f[x]
             N == {n \in Nat : \A T \in SUBSET S : Cardinality(T) <= n => Good(T)}
  <1>0. \A T \in SUBSET S : IsFiniteSet(T) /\ Cardinality(T) \in Nat
    BY FS_Subset, FS_CardinalityType
  <1>1. 0 \in N
    <2>1. ASSUME NEW x \in S PROVE SumFunctionOnSet(f, {} \cup {x}) = 0 + f[x]
      <3>1. {} \cup {x} = {x} /\ FirstOf({x}) = x /\ {x} \ {FirstOf({x})} = {}
        BY DEF FirstOf
      <3>2. SumFunctionOnSet(f, {x}) = f[x] + 0
        BY <1>0, <3>1, SumUnfold, SumEmpty
      <3> QED BY <3>1, <3>2
    <2>2. Good({})
      BY <2>1, SumEmpty
    <2>3. \A T \in SUBSET S : Cardinality(T) <= 0 => T = {}
      BY <1>0, FS_EmptySet
    <2> QED BY <2>2, <2>3
  <1>2. ASSUME NEW n \in Nat, n \in N PROVE n + 1 \in N
    <2>0. \A T \in SUBSET S : Cardinality(T) <= n => Good(T)
      BY <1>2
    <2> HIDE DEF N
    <2>1. ASSUME NEW T \in SUBSET S, Cardinality(T) <= n + 1 PROVE Good(T)
      <3>1. CASE T = {}
        <4>1. Cardinality(T) <= n
          BY <3>1, FS_EmptySet
        <4> QED BY <2>0, <4>1
      <3>2. CASE T # {}
        <4> DEFINE p == FirstOf(T)
                   U == T \ {p}
        <4>1. p \in T /\ SumFunctionOnSet(f, T) = f[p] + SumFunctionOnSet(f, U)
          BY <1>0, <3>2, SumUnfold
        <4>2. U \in SUBSET S /\ Cardinality(U) <= n
          <5>1. IsFiniteSet(T) /\ Cardinality(T) \in Nat
            BY <1>0
          <5>2. Cardinality(U) = Cardinality(T) - 1
            BY <4>1, <5>1, FS_RemoveElement
          <5> QED BY <2>1, <5>1, <5>2
        <4>3. Good(U)
          BY <2>0, <4>2
        <4>4. ASSUME NEW x \in S \ T
              PROVE  SumFunctionOnSet(f, T \cup {x}) = SumFunctionOnSet(f, T) + f[x]
          <5> DEFINE V == T \cup {x}
                     q == FirstOf(V)
          <5> SUFFICES SumFunctionOnSet(f, V) = SumFunctionOnSet(f, T) + f[x]
            OBVIOUS
          <5>1. /\ q \in V /\ IsFiniteSet(V) /\ V \in SUBSET S
                /\ SumFunctionOnSet(f, V) = f[q] + SumFunctionOnSet(f, V \ {q})
            BY <1>0, SumUnfold
          <5>2. CASE q = x
            <6>1. V \ {q} = T
              BY <5>2
            <6>2. SumFunctionOnSet(f, T) \in Int /\ f[x] \in Int
              BY <4>1, <4>3
            <6>3. SumFunctionOnSet(f, V \ {q}) = SumFunctionOnSet(f, T) /\ f[q] = f[x]
              BY <5>2, <6>1
            <6> HIDE DEF V, q
            <6>4. SumFunctionOnSet(f, V) = f[x] + SumFunctionOnSet(f, T)
              BY <5>1, <6>3
            <6> QED BY <6>2, <6>4
          <5>3. CASE q # x
            <6> DEFINE W == T \ {q}
            <6>1. q \in T /\ W \in SUBSET S /\ Cardinality(W) <= n
              <7>1. IsFiniteSet(T) /\ Cardinality(T) \in Nat
                BY <1>0
              <7>2. q \in T
                BY <5>1, <5>3
              <7>3. Cardinality(W) = Cardinality(T) - 1
                BY <7>1, <7>2, FS_RemoveElement
              <7> QED BY <2>1, <7>1, <7>2, <7>3
            <6>2. Good(W)
              BY <2>0, <6>1
            <6>3. V \ {q} = W \cup {x} /\ x \in S \ W /\ q \in S \ W /\ T = W \cup {q}
              BY <5>1, <5>3, <6>1
            <6>4. /\ SumFunctionOnSet(f, V \ {q}) = SumFunctionOnSet(f, W) + f[x]
                  /\ SumFunctionOnSet(f, T) = SumFunctionOnSet(f, W) + f[q]
                  /\ SumFunctionOnSet(f, W) \in Int /\ f[x] \in Int /\ f[q] \in Int
              BY <6>2, <6>3
            <6> HIDE DEF V, W, q
            <6> QED BY <5>1, <6>4
          <5> QED BY <5>2, <5>3
        <4>5. SumFunctionOnSet(f, T) \in Int
          BY <4>1, <4>3
        <4> QED BY <4>4, <4>5
      <3> QED BY <3>1, <3>2
    <2> HIDE DEF Good
    <2> QED BY <2>1 DEF N
  <1> HIDE DEF N, Good
  <1>3. \A T \in SUBSET S : Good(T)
    <2>1. ASSUME NEW T \in SUBSET S PROVE Good(T)
      <3>1. Cardinality(T) \in N /\ Cardinality(T) \in Nat
        BY <1>0, <1>1, <1>2, NatSetInduction
      <3> QED BY <3>1 DEF N
    <2> QED BY <2>1
  <1> QED BY <1>3 DEF Good

\* What the summands are outside the set does not matter.
LEMMA SumSame ==
    ASSUME NEW S, IsFiniteSet(S), NEW f, NEW h, \A x \in S : f[x] = h[x]
    PROVE  SumFunctionOnSet(f, S) = SumFunctionOnSet(h, S)
  <1>1. PICK g : SumEq(g, f, S) /\ SumFunctionOnSet(f, S) = g[S]
    BY SumSolution
  <1>2. ASSUME NEW s \in SUBSET S
        PROVE  (IF s = {} THEN 0 ELSE f[FirstOf(s)] + g[s \ {FirstOf(s)}])
             = (IF s = {} THEN 0 ELSE h[FirstOf(s)] + g[s \ {FirstOf(s)}])
    BY DEF FirstOf
  <1>3. SumEq(g, h, S)
    BY <1>1, <1>2 DEF SumEq
  <1>4. PICK k : SumEq(k, h, S) /\ SumFunctionOnSet(h, S) = k[S]
    BY SumSolution
  <1>5. g[S] = k[S]
    BY <1>3, <1>4, SumAgree
  <1> QED BY <1>1, <1>4, <1>5

\* One element is taken out.
LEMMA SumRemove ==
    ASSUME NEW S, IsFiniteSet(S), NEW f, \A x \in S : f[x] \in Int,
           NEW x \in S
    PROVE  SumFunctionOnSet(f, S \ {x}) = SumFunctionOnSet(f, S) - f[x]
  <1> DEFINE T == S \ {x}
  <1>1. T \in SUBSET S /\ x \in S \ T /\ T \cup {x} = S
    OBVIOUS
  <1>2. /\ \A U \in SUBSET S : SumFunctionOnSet(f, U) \in Int
        /\ \A U \in SUBSET S : \A y \in S \ U :
               SumFunctionOnSet(f, U \cup {y}) = SumFunctionOnSet(f, U) + f[y]
    BY SumAdd
  <1> HIDE DEF T
  <1>3. /\ SumFunctionOnSet(f, S) = SumFunctionOnSet(f, T) + f[x]
        /\ f[x] \in Int /\ SumFunctionOnSet(f, T) \in Int
    BY <1>1, <1>2
  <1>4. SumFunctionOnSet(f, T) = SumFunctionOnSet(f, S) - f[x]
    BY <1>2, <1>3
  <1> QED BY <1>4 DEF T

\* One summand changes.
LEMMA SumChange ==
    ASSUME NEW S, IsFiniteSet(S), NEW f, NEW h, NEW x \in S,
           \A y \in S : f[y] \in Int /\ h[y] \in Int /\ (y # x => f[y] = h[y])
    PROVE  SumFunctionOnSet(h, S) = SumFunctionOnSet(f, S) - f[x] + h[x]
  <1>0. IsFiniteSet(S \ {x})
    BY FS_RemoveElement
  <1>1. SumFunctionOnSet(f, S \ {x}) = SumFunctionOnSet(h, S \ {x})
    BY <1>0, SumSame
  <1>2. SumFunctionOnSet(f, S \ {x}) = SumFunctionOnSet(f, S) - f[x]
    BY SumRemove
  <1>3. SumFunctionOnSet(h, S \ {x}) = SumFunctionOnSet(h, S) - h[x]
    BY SumRemove
  <1>4. SumFunctionOnSet(f, S) \in Int /\ SumFunctionOnSet(h, S) \in Int
    BY SumAdd
  <1> QED BY <1>1, <1>2, <1>3, <1>4

\* A sum of naturals is a natural.
LEMMA SumNat ==
    ASSUME NEW S, IsFiniteSet(S), NEW f, \A x \in S : f[x] \in Nat
    PROVE  SumFunctionOnSet(f, S) \in Nat
  <1> DEFINE P == {T \in SUBSET S : SumFunctionOnSet(f, T) \in Nat}
  <1>1. {} \in P
    BY SumEmpty
  <1>2. ASSUME NEW T \in SUBSET S, NEW x \in S, T \in P, x \notin T PROVE T \cup {x} \in P
    <2>1. SumFunctionOnSet(f, T \cup {x}) = SumFunctionOnSet(f, T) + f[x]
      BY <1>2, SumAdd
    <2> QED BY <1>2, <2>1
  <1> HIDE DEF P
  <1>3. S \in P
    BY <1>1, <1>2, FiniteSetInduction
  <1> QED BY <1>3 DEF P

\* A sum whose summands change at one place only, if at any.
LEMMA SumMove ==
    ASSUME NEW S, IsFiniteSet(S), NEW f, NEW h, NEW x,
           \A y \in S : f[y] \in Int /\ h[y] \in Int /\ (y # x => f[y] = h[y])
    PROVE  /\ x \in S => SumFunctionOnSet(h, S) = SumFunctionOnSet(f, S) - f[x] + h[x]
           /\ x \notin S => SumFunctionOnSet(h, S) = SumFunctionOnSet(f, S)
           /\ SumFunctionOnSet(f, S) \in Int
  <1>1. x \in S => SumFunctionOnSet(h, S) = SumFunctionOnSet(f, S) - f[x] + h[x]
    BY SumChange
  <1>2. x \notin S => SumFunctionOnSet(h, S) = SumFunctionOnSet(f, S)
    <2>1. x \notin S => \A y \in S : f[y] = h[y]
      OBVIOUS
    <2> QED BY <2>1, SumSame
  <1>3. SumFunctionOnSet(f, S) \in Int
    BY SumAdd
  <1> QED BY <1>1, <1>2, <1>3

\* A sum of zeros.
LEMMA SumZero ==
    ASSUME NEW S, IsFiniteSet(S), NEW f, \A x \in S : f[x] = 0
    PROVE  SumFunctionOnSet(f, S) = 0
  <1> DEFINE N == {n \in Nat : \A T \in SUBSET S : Cardinality(T) <= n
                                  => SumFunctionOnSet(f, T) = 0}
  <1>1. \A T \in SUBSET S : IsFiniteSet(T) /\ Cardinality(T) \in Nat
    BY FS_Subset, FS_CardinalityType
  <1>2. 0 \in N
    BY <1>1, SumEmpty, FS_EmptySet
  <1>3. ASSUME NEW n \in Nat, n \in N PROVE n + 1 \in N
    <2>1. SUFFICES ASSUME NEW T \in SUBSET S, Cardinality(T) <= n + 1
                   PROVE  SumFunctionOnSet(f, T) = 0
      OBVIOUS
    <2>2. CASE T = {}
      BY <2>2, SumEmpty
    <2>3. CASE T # {}
      <3>1. PICK x \in T : SumFunctionOnSet(f, T) = f[x] + SumFunctionOnSet(f, T \ {x})
        BY <1>1, <2>3, SumUnfold
      <3>2. Cardinality(T \ {x}) = Cardinality(T) - 1
        BY <1>1, FS_RemoveElement
      <3>3. Cardinality(T \ {x}) <= n /\ T \ {x} \in SUBSET S
        BY <1>1, <2>1, <3>2
      <3>4. SumFunctionOnSet(f, T \ {x}) = 0
        BY <1>3, <3>3
      <3> QED BY <3>1, <3>4
    <2> QED BY <2>2, <2>3
  <1>4. Nat \subseteq N
    <2> HIDE DEF N
    <2> QED BY <1>2, <1>3, NatSetInduction
  <1> QED BY <1>1, <1>4
=============================================================================
