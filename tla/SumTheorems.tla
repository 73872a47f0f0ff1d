---------------------------- MODULE SumTheorems ----------------------------
(***************************************************************************)
(* Sums over finite sets: that the sum of the community modules, a         *)
(* recursive function that picks its elements in some order, is what one   *)
(* means by a sum.  The pages and the art cache count with it.             *)
(***************************************************************************)
EXTENDS Integers, FiniteSets, Functions, FiniteSetTheorems, TLAPS

-----------------------------------------------------------------------------
(***************************************************************************)
(* Induction, in the form of a smallest counterexample: sets instead of    *)
(* predicates, so that it can be cited for any of them.                    *)
(***************************************************************************)
\* What a finite set is mapped onto is finite, and as large when the map is
\* one to one.
LEMMA FiniteImage ==
    ASSUME NEW S, IsFiniteSet(S), NEW h, NEW K,
           \A x \in S : h[x] \in K, \A k \in K : \E x \in S : h[x] = k
    PROVE  /\ IsFiniteSet(K) /\ Cardinality(K) <= Cardinality(S)
           /\ (\A x, y \in S : h[x] = h[y] => x = y) => Cardinality(K) = Cardinality(S)
<1>1. SUFFICES ASSUME NEW f, f = [x \in S |-> h[x]]
               PROVE  /\ IsFiniteSet(K) /\ Cardinality(K) <= Cardinality(S)
                      /\ (\A x, y \in S : f[x] = f[y] => x = y) => Cardinality(K) = Cardinality(S)
  <2>1. PICK f : f = [x \in S |-> h[x]]
    OBVIOUS
  <2>2. \A x \in S : f[x] = h[x]
    BY <2>1
  <2>3. QED
    BY <2>1, <2>2, <1>1
<1>2. f \in Surjection(S, K)
  BY <1>1 DEF Surjection
<1>3. (\A x, y \in S : f[x] = f[y] => x = y) => f \in Injection(S, K)
  BY <1>1 DEF Injection, IsInjective
<1>4. QED
  BY <1>2, <1>3, FS_Surjection

\* Of a set of sets, one that has no other of them as a subset.
LEMMA SmallestSet ==
    ASSUME NEW U, IsFiniteSet(U), NEW B, B \subseteq SUBSET U, B # {}
    PROVE  \E M \in B : \A T \in SUBSET M : T # M => T \notin B
<1>1. IsWellFoundedOn(StrictSubsetOrdering(U), SUBSET U)
  BY FS_FiniteSubsetsOfFinite, FS_StrictSubsetOrderingWellFounded
<1>2. PICK M \in B : \A T \in B : <<T, M>> \notin StrictSubsetOrdering(U)
  BY <1>1, WFMin
<1>3. ASSUME NEW T \in SUBSET M, T # M, T \in B
      PROVE  FALSE
  <2>1. <<T, M>> \in StrictSubsetOrdering(U)
    BY <1>3 DEF StrictSubsetOrdering
  <2>2. QED
    BY <1>2, <1>3, <2>1
<1>4. QED
  BY <1>3

\* Induction over numbers, for a set of them.
LEMMA NatSetInduction ==
    ASSUME NEW S, 0 \in S, \A n \in Nat : n \in S => n + 1 \in S
    PROVE  \A n \in Nat : n \in S
<1> DEFINE Missing == Nat \ S
           Less == {ss \in Nat \X Nat : ss[1] < ss[2]}
<1>1. IsWellFoundedOn(Less, Nat)
  BY NatLessThanWellFounded DEF OpToRel
<1>2. SUFFICES ASSUME Missing # {} PROVE FALSE
  OBVIOUS
<1>3. Missing \subseteq Nat
  OBVIOUS
<1>4. PICK x \in Missing : \A y \in Missing : <<y, x>> \notin Less
  <2> HIDE DEF Missing, Less
  <2> QED
    BY <1>1, <1>2, <1>3, WFMin
<1>5. x # 0 /\ x - 1 \in Nat /\ x - 1 < x
  OBVIOUS
<1>6. x - 1 \in S
  BY <1>4, <1>5
<1>7. QED
  BY <1>5, <1>6

\* A set of numbers below a bound has a largest one.
LEMMA LargestNumber ==
    ASSUME NEW N \in Nat, NEW S, S \subseteq 0..N, S # {}
    PROVE  \E x \in S : \A y \in S : x >= y
<1> DEFINE Below == {N - x : x \in S}
           Less == {ss \in Nat \X Nat : ss[1] < ss[2]}
<1>1. IsWellFoundedOn(Less, Nat)
  BY NatLessThanWellFounded DEF OpToRel
<1>2. Below \subseteq Nat /\ Below # {}
  <2>1. \A x \in S : N - x \in Nat
    OBVIOUS
  <2>2. QED
    BY <2>1
<1>3. PICK d \in Below : \A c \in Below : <<c, d>> \notin Less
  <2> HIDE DEF Below, Less
  <2> QED
    BY <1>1, <1>2, WFMin
<1>4. PICK x \in S : d = N - x
  BY <1>3
<1>5. ASSUME NEW y \in S PROVE x >= y
  <2>1. N - y \in Below /\ N - y \in Nat /\ d \in Nat
    BY <1>2, <1>3
  <2>2. ~(N - y < d)
    BY <1>3, <2>1
  <2>3. QED
    BY <1>4, <2>1, <2>2
<1>6. QED
  BY <1>5

-----------------------------------------------------------------------------
(***************************************************************************)
(* The recursive function of the definition exists and is unique.          *)
(***************************************************************************)
Pick(s) == CHOOSE x \in s : TRUE

IsSumOver(it, f, D) ==
    it = [s \in D |-> IF s = {} THEN 0 ELSE f[Pick(s)] + it[s \ {Pick(s)}]]

\* The element that a fold takes next is one of those left.
LEMMA PickIsIn == ASSUME NEW s, s # {} PROVE Pick(s) \in s
  BY DEF Pick

\* The library's sum is the recursive function it is defined by.
LEMMA SumUnfolds ==
    ASSUME NEW f, NEW S
    PROVE  SumFunctionOnSet(f, S) = (CHOOSE it : IsSumOver(it, f, SUBSET S))[S]
  BY DEF SumFunctionOnSet, FoldFunctionOnSet, MapThenFoldSet, IsSumOver, Pick

\* There is such a function: a smallest set without one would be one step away
\* from a smaller set that has one.
LEMMA SumExists ==
    ASSUME NEW f, NEW U, IsFiniteSet(U)
    PROVE  \E it : IsSumOver(it, f, SUBSET U)
<1> DEFINE Upto(n) == {s \in SUBSET U : Cardinality(s) <= n}
           Good == {n \in Nat : \E it : IsSumOver(it, f, Upto(n))}
<1>0. \A s \in SUBSET U : IsFiniteSet(s) /\ Cardinality(s) \in Nat /\ Cardinality(s) <= Cardinality(U)
  BY FS_Subset, FS_CardinalityType
<1>1. 0 \in Good
  <2> DEFINE it == [s \in Upto(0) |-> 0]
  <2>1. \A s \in Upto(0) : s = {}
    BY <1>0, FS_EmptySet
  <2>2. it = [s \in Upto(0) |-> IF s = {} THEN 0 ELSE f[Pick(s)] + it[s \ {Pick(s)}]]
    BY <2>1
  <2>3. IsSumOver(it, f, Upto(0))
    BY <2>2 DEF IsSumOver
  <2>4. QED
    BY <2>3
<1>2. ASSUME NEW n \in Nat, n \in Good
      PROVE  n + 1 \in Good
  <2>1. PICK it : IsSumOver(it, f, Upto(n))
    BY <1>2
  <2> DEFINE more == [s \in Upto(n + 1) |->
                         IF s = {} THEN 0 ELSE f[Pick(s)] + it[s \ {Pick(s)}]]
  <2>2. \A s \in Upto(n + 1) : s # {} => s \ {Pick(s)} \in Upto(n)
    BY <1>0, PickIsIn, FS_RemoveElement
  <2>3. ASSUME NEW s \in Upto(n)
        PROVE  s \in Upto(n + 1) /\ it[s] = more[s]
    <3>1. s \in Upto(n + 1)
      BY <1>0
    <3>2. it[s] = IF s = {} THEN 0 ELSE f[Pick(s)] + it[s \ {Pick(s)}]
      <4> HIDE DEF Upto
      <4> QED
        BY <2>1 DEF IsSumOver
    <3>3. QED
      BY <3>1, <3>2
  <2>4. \A s \in Upto(n + 1) :
           more[s] = IF s = {} THEN 0 ELSE f[Pick(s)] + more[s \ {Pick(s)}]
    BY <2>2, <2>3
  <2>5. more = [s \in Upto(n + 1) |->
                   IF s = {} THEN 0 ELSE f[Pick(s)] + more[s \ {Pick(s)}]]
    <3> HIDE DEF Upto
    <3> QED
      BY <2>4
  <2>6. IsSumOver(more, f, Upto(n + 1))
    <3> HIDE DEF more
    <3> QED
      BY <2>5 DEF IsSumOver
  <2>7. \E i : IsSumOver(i, f, Upto(n + 1))
    <3> HIDE DEF more
    <3> QED
      BY <2>6
  <2>8. QED
    <3> HIDE DEF Upto
    <3> QED
      BY <2>7
<1>3. \A n \in Nat : n \in Good
  <2> HIDE DEF Good
  <2> QED
    BY <1>1, <1>2, NatSetInduction
<1>4. Cardinality(U) \in Nat
  BY FS_CardinalityType
<1>5. Upto(Cardinality(U)) = SUBSET U
  BY <1>0
<1>6. QED
  BY <1>3, <1>4, <1>5

\* It is determined by the terms, and not by the sets it is defined on.
LEMMA SumsAgree ==
    ASSUME NEW f, NEW g, NEW U, IsFiniteSet(U), \A x \in U : f[x] = g[x],
           NEW D, SUBSET U \subseteq D, NEW E, SUBSET U \subseteq E,
           NEW it, IsSumOver(it, f, D), NEW jt, IsSumOver(jt, g, E)
    PROVE  it[U] = jt[U]
<1> DEFINE B == {s \in SUBSET U : it[s] # jt[s]}
<1>1. SUFFICES ASSUME B # {} PROVE FALSE
  BY DEF B
<1>2. B \subseteq SUBSET U
  OBVIOUS
<1>3. PICK s \in B : \A T \in SUBSET s : T # s => T \notin B
  <2> HIDE DEF B
  <2> QED
    BY <1>1, <1>2, SmallestSet
<1>4. s \in SUBSET U /\ s \in D /\ s \in E /\ it[s] # jt[s]
  BY <1>3
<1>5. it[s] = IF s = {} THEN 0 ELSE f[Pick(s)] + it[s \ {Pick(s)}]
  BY <1>4 DEF IsSumOver
<1>6. jt[s] = IF s = {} THEN 0 ELSE g[Pick(s)] + jt[s \ {Pick(s)}]
  BY <1>4 DEF IsSumOver
<1>7. s # {}
  BY <1>4, <1>5, <1>6
<1>8. Pick(s) \in s
  BY <1>7, PickIsIn
<1>9. s \ {Pick(s)} \in SUBSET s /\ s \ {Pick(s)} # s
  BY <1>8
<1>10. s \ {Pick(s)} \notin B
  BY <1>3, <1>9
<1>11. it[s \ {Pick(s)}] = jt[s \ {Pick(s)}]
  BY <1>4, <1>10
<1>12. QED
  BY <1>4, <1>5, <1>6, <1>8, <1>11

\* So the sum is the value of one, whichever CHOOSE takes.
LEMMA SumIsTaken ==
    ASSUME NEW f, NEW S, IsFiniteSet(S)
    PROVE  \E it : IsSumOver(it, f, SUBSET S) /\ SumFunctionOnSet(f, S) = it[S]
<1> DEFINE it == CHOOSE i : IsSumOver(i, f, SUBSET S)
<1>1. IsSumOver(it, f, SUBSET S)
  BY SumExists
<1>2. QED
  BY <1>1, SumUnfolds

\* Only the values on the set count.
LEMMA SumSame ==
    ASSUME NEW f, NEW g, NEW S, IsFiniteSet(S), \A x \in S : f[x] = g[x]
    PROVE  SumFunctionOnSet(f, S) = SumFunctionOnSet(g, S)
<1>1. PICK it : IsSumOver(it, f, SUBSET S) /\ SumFunctionOnSet(f, S) = it[S]
  BY SumIsTaken
<1>2. PICK jt : IsSumOver(jt, g, SUBSET S) /\ SumFunctionOnSet(g, S) = jt[S]
  BY SumIsTaken
<1>3. SUBSET S \subseteq SUBSET S
  OBVIOUS
<1>4. it[S] = jt[S]
  BY <1>1, <1>2, <1>3, SumsAgree
<1>5. QED
  BY <1>1, <1>2, <1>4

\* The equation that the definition means.
LEMMA SumStep ==
    ASSUME NEW f, NEW S, IsFiniteSet(S)
    PROVE  SumFunctionOnSet(f, S) =
               IF S = {} THEN 0 ELSE f[Pick(S)] + SumFunctionOnSet(f, S \ {Pick(S)})
<1>1. PICK it : IsSumOver(it, f, SUBSET S) /\ SumFunctionOnSet(f, S) = it[S]
  BY SumIsTaken
<1>2. IsFiniteSet(S \ {Pick(S)})
  BY FS_RemoveElement
<1>3. PICK jt : /\ IsSumOver(jt, f, SUBSET (S \ {Pick(S)}))
                /\ SumFunctionOnSet(f, S \ {Pick(S)}) = jt[S \ {Pick(S)}]
  BY <1>2, SumIsTaken
<1>4. jt[S \ {Pick(S)}] = it[S \ {Pick(S)}]
  <2> SUFFICES ASSUME NEW T, T = S \ {Pick(S)} PROVE jt[T] = it[T]
    OBVIOUS
  <2>1. SUBSET T \subseteq SUBSET T /\ SUBSET T \subseteq SUBSET S /\ \A x \in T : f[x] = f[x]
    OBVIOUS
  <2>2. IsFiniteSet(T) /\ IsSumOver(jt, f, SUBSET T)
    BY <1>2, <1>3
  <2>3. QED
    BY <1>1, <2>1, <2>2, SumsAgree
<1>5. it[S] = IF S = {} THEN 0 ELSE f[Pick(S)] + it[S \ {Pick(S)}]
  BY <1>1 DEF IsSumOver
<1>6. QED
  BY <1>1, <1>3, <1>4, <1>5

-----------------------------------------------------------------------------
(***************************************************************************)
(* What follows from it.                                                   *)
(***************************************************************************)
LEMMA SumOverDomain == ASSUME NEW f PROVE SumFunction(f) = SumFunctionOnSet(f, DOMAIN f)
  BY DEF SumFunction

\* The empty sum.
LEMMA SumEmpty == ASSUME NEW f PROVE SumFunctionOnSet(f, {}) = 0
  BY SumStep, FS_EmptySet

\* A sum of integers is one, and any element may be taken out of it first.
LEMMA SumTakes ==
    ASSUME NEW f, NEW S, IsFiniteSet(S), \A x \in S : f[x] \in Int
    PROVE  /\ SumFunctionOnSet(f, S) \in Int
           /\ \A x \in S : SumFunctionOnSet(f, S) = f[x] + SumFunctionOnSet(f, S \ {x})
<1> DEFINE Takes(T) == /\ SumFunctionOnSet(f, T) \in Int
                       /\ \A x \in T : SumFunctionOnSet(f, T) = f[x] + SumFunctionOnSet(f, T \ {x})
           B == {T \in SUBSET S : ~Takes(T)}
<1>1. SUFFICES ASSUME B # {} PROVE FALSE
  <2> HIDE DEF Takes
  <2>1. S \in B \/ Takes(S)
    OBVIOUS
  <2>2. QED
    BY <1>1, <2>1 DEF Takes
<1>2. PICK M \in B : \A T \in SUBSET M : T # M => T \notin B
  <2>1. B \subseteq SUBSET S
    OBVIOUS
  <2> HIDE DEF B
  <2> QED
    BY <1>1, <2>1, SmallestSet
<1>3. M \in SUBSET S /\ ~Takes(M)
  <2> HIDE DEF Takes
  <2> QED
    BY <1>2
<1>4. \A x \in M : Takes(M \ {x})
  <2> HIDE DEF Takes
  <2> QED
    BY <1>2, <1>3
<1>5. IsFiniteSet(M) /\ \A x \in M : IsFiniteSet(M \ {x})
  BY <1>3, FS_Subset, FS_RemoveElement
<1>6. CASE M = {}
  BY <1>3, <1>6, SumEmpty
<1>7. CASE M # {}
  <2> SUFFICES ASSUME NEW c, c = Pick(M) PROVE FALSE
    OBVIOUS
  <2>1. c \in M /\ SumFunctionOnSet(f, M) = f[c] + SumFunctionOnSet(f, M \ {c})
    BY <1>5, <1>7, PickIsIn, SumStep
  <2>2. SumFunctionOnSet(f, M) \in Int
    BY <1>3, <1>4, <2>1
  <2>3. ASSUME NEW x \in M
        PROVE  SumFunctionOnSet(f, M) = f[x] + SumFunctionOnSet(f, M \ {x})
    <3>1. CASE x = c
      BY <2>1, <3>1
    <3>2. CASE x # c
      <4>1. SumFunctionOnSet(f, M \ {c}) = f[x] + SumFunctionOnSet(f, (M \ {c}) \ {x})
        BY <1>4, <2>1, <2>3, <3>2
      <4>2. SumFunctionOnSet(f, M \ {x}) = f[c] + SumFunctionOnSet(f, (M \ {x}) \ {c})
        BY <1>4, <2>1, <2>3, <3>2
      <4>3. (M \ {x}) \ {c} = (M \ {c}) \ {x}
        OBVIOUS
      <4>4. /\ f[x] \in Int /\ f[c] \in Int
            /\ SumFunctionOnSet(f, M \ {x}) \in Int /\ SumFunctionOnSet(f, M \ {c}) \in Int
        BY <1>3, <1>4, <2>1, <2>3
      <4>5. (SumFunctionOnSet(f, M \ {x}) = f[c] + SumFunctionOnSet(f, (M \ {c}) \ {x}))
        BY <4>2, <4>3
      <4>6. SumFunctionOnSet(f, (M \ {c}) \ {x}) \in Int
        <5>1. (M \ {c}) \ {x} \in SUBSET M /\ (M \ {c}) \ {x} # M
          BY <2>1
        <5>2. Takes((M \ {c}) \ {x})
          <6> HIDE DEF Takes
          <6> QED
            BY <1>2, <1>3, <5>1
        <5>3. QED
          BY <5>2
      <4>7. QED
        BY <2>1, <4>1, <4>4, <4>5, <4>6
    <3>3. QED
      BY <3>1, <3>2
  <2>4. QED
    BY <1>3, <2>2, <2>3
<1>8. QED
  BY <1>6, <1>7

\* Any element may be taken out first, not only the one that is picked.
LEMMA SumWithout ==
    ASSUME NEW f, NEW S, IsFiniteSet(S), \A x \in S : f[x] \in Int,
           NEW x \in S, NEW R, R = S \ {x}
    PROVE  SumFunctionOnSet(f, S) = f[x] + SumFunctionOnSet(f, R)
  BY SumTakes

\* An element more.
LEMMA SumAdds ==
    ASSUME NEW f, NEW S, IsFiniteSet(S), NEW x, x \notin S, f[x] \in Int, \A y \in S : f[y] \in Int
    PROVE  SumFunctionOnSet(f, S \union {x}) = f[x] + SumFunctionOnSet(f, S)
<1>1. IsFiniteSet(S \union {x}) /\ (S \union {x}) \ {x} = S
  BY FS_AddElement
<1>2. QED
  BY <1>1, SumTakes

\* To show something of a finite set, show it of the empty one and of one
\* element more.
LEMMA SetInduction ==
    ASSUME NEW U, IsFiniteSet(U), NEW Good, {} \in Good,
           \A T \in SUBSET U : \A x \in U \ T : T \in Good => T \union {x} \in Good
    PROVE  U \in Good
<1> DEFINE B == {T \in SUBSET U : T \notin Good}
<1>1. SUFFICES ASSUME B # {} PROVE FALSE
  OBVIOUS
<1>2. PICK M \in B : \A T \in SUBSET M : T # M => T \notin B
  <2>1. B \subseteq SUBSET U
    OBVIOUS
  <2> HIDE DEF B
  <2> QED
    BY <1>1, <2>1, SmallestSet
<1>3. M # {} /\ M \in SUBSET U /\ M \notin Good
  BY <1>2
<1>4. PICK x \in M : TRUE
  BY <1>3
<1>5. M \ {x} \in SUBSET U /\ M \ {x} # M /\ M \ {x} \in SUBSET M /\ x \in U \ (M \ {x})
  BY <1>3
<1>6. M \ {x} \in Good
  BY <1>2, <1>5
<1>7. (M \ {x}) \union {x} = M
  OBVIOUS
<1>8. (M \ {x}) \union {x} \in Good
  BY <1>5, <1>6
<1>9. QED
  BY <1>3, <1>7, <1>8

\* A sum of natural numbers is one.
LEMMA SumIsNat ==
    ASSUME NEW f, NEW S, IsFiniteSet(S), \A x \in S : f[x] \in Nat
    PROVE  SumFunctionOnSet(f, S) \in Nat
<1> DEFINE Good == {T \in SUBSET S : SumFunctionOnSet(f, T) \in Nat}
<1>1. {} \in Good
  BY SumEmpty
<1>2. ASSUME NEW T \in SUBSET S, NEW x \in S \ T, T \in Good
      PROVE  T \union {x} \in Good
  <2>1. IsFiniteSet(T) /\ f[x] \in Int /\ \A y \in T : f[y] \in Int
    BY FS_Subset
  <2>2. SumFunctionOnSet(f, T \union {x}) = f[x] + SumFunctionOnSet(f, T)
    BY <2>1, SumAdds
  <2>3. QED
    BY <1>2, <2>2
<1>3. S \in Good
  <2> HIDE DEF Good
  <2> QED
    BY <1>1, <1>2, SetInduction
<1>4. QED
  BY <1>3

\* The sum of two sets that share nothing.
LEMMA SumOfUnion ==
    ASSUME NEW f, NEW S, IsFiniteSet(S), NEW R, IsFiniteSet(R), S \intersect R = {},
           \A x \in S \union R : f[x] \in Int
    PROVE  SumFunctionOnSet(f, S \union R) = SumFunctionOnSet(f, S) + SumFunctionOnSet(f, R)
<1> DEFINE Good == {T \in SUBSET S :
                       SumFunctionOnSet(f, T \union R) = SumFunctionOnSet(f, T) + SumFunctionOnSet(f, R)}
<1>0. SumFunctionOnSet(f, R) \in Int
  BY SumTakes
<1>1. {} \in Good
  BY <1>0, SumEmpty
<1>2. ASSUME NEW T \in SUBSET S, NEW x \in S \ T, T \in Good
      PROVE  T \union {x} \in Good
  <2>1. /\ IsFiniteSet(T) /\ IsFiniteSet(T \union R) /\ f[x] \in Int
        /\ (\A y \in T : f[y] \in Int) /\ (\A y \in T \union R : f[y] \in Int)
        /\ x \notin T \union R
    BY FS_Subset, FS_Union
  <2>2. SumFunctionOnSet(f, T \union {x}) = f[x] + SumFunctionOnSet(f, T)
    BY <2>1, SumAdds
  <2>3. SumFunctionOnSet(f, (T \union R) \union {x}) = f[x] + SumFunctionOnSet(f, T \union R)
    BY <2>1, SumAdds
  <2>4. (T \union R) \union {x} = (T \union {x}) \union R
    OBVIOUS
  <2>5. SumFunctionOnSet(f, T) \in Int
    BY <2>1, SumTakes
  <2>6. SumFunctionOnSet(f, (T \union {x}) \union R) = f[x] + SumFunctionOnSet(f, T \union R)
    BY <2>3, <2>4
  <2>7. QED
    BY <1>0, <1>2, <2>1, <2>2, <2>5, <2>6
<1>3. S \in Good
  <2> HIDE DEF Good
  <2> QED
    BY <1>1, <1>2, SetInduction
<1>4. QED
  BY <1>3

\* A sum of one term.
LEMMA SumOfOne == ASSUME NEW f, NEW x, f[x] \in Int PROVE SumFunctionOnSet(f, {x}) = f[x]
<1>1. IsFiniteSet({}) /\ {} \union {x} = {x}
  BY FS_EmptySet
<1>2. SumFunctionOnSet(f, {} \union {x}) = f[x] + SumFunctionOnSet(f, {})
  BY <1>1, SumAdds
<1>3. QED
  BY <1>1, <1>2, SumEmpty

\* A sum may be made group by group.
LEMMA SumOfParts ==
    ASSUME NEW f, NEW S, IsFiniteSet(S), \A x \in S : f[x] \in Int,
           NEW K, IsFiniteSet(K), NEW part,
           \A k \in K : part[k] \subseteq S,
           \A x \in S : \E k \in K : x \in part[k],
           \A j, k \in K : j # k => part[j] \intersect part[k] = {},
           NEW g, \A k \in K : g[k] = SumFunctionOnSet(f, part[k])
    PROVE  /\ SumFunctionOnSet(f, S) = SumFunctionOnSet(g, K)
           /\ \A k \in K : g[k] \in Int
<1> DEFINE In(T) == {x \in S : \E k \in T : x \in part[k]}
           Good == {T \in SUBSET K : SumFunctionOnSet(f, In(T)) = SumFunctionOnSet(g, T)}
<1>0. \A k \in K : g[k] \in Int /\ IsFiniteSet(part[k])
  <2> SUFFICES ASSUME NEW k \in K PROVE g[k] \in Int /\ IsFiniteSet(part[k])
    OBVIOUS
  <2>1. IsFiniteSet(part[k]) /\ \A x \in part[k] : f[x] \in Int
    BY FS_Subset
  <2>2. QED
    BY <2>1, SumTakes
<1>1. {} \in Good
  <2>1. In({}) = {}
    OBVIOUS
  <2>2. QED
    BY <2>1, SumEmpty
<1>2. ASSUME NEW T \in SUBSET K, NEW k \in K \ T, T \in Good
      PROVE  T \union {k} \in Good
  <2>1. IsFiniteSet(T) /\ IsFiniteSet(In(T))
    BY FS_Subset
  <2>2. In(T \union {k}) = part[k] \union In(T) /\ part[k] \intersect In(T) = {}
    OBVIOUS
  <2>3. SumFunctionOnSet(g, T \union {k}) = g[k] + SumFunctionOnSet(g, T)
    BY <1>0, <2>1, SumAdds
  <2>4. SumFunctionOnSet(f, part[k] \union In(T))
            = SumFunctionOnSet(f, part[k]) + SumFunctionOnSet(f, In(T))
    <3>1. \A x \in part[k] \union In(T) : f[x] \in Int
      OBVIOUS
    <3> HIDE DEF In
    <3>2. QED
      BY <1>0, <2>1, <2>2, <3>1, SumOfUnion
  <2>5. SumFunctionOnSet(f, In(T)) = SumFunctionOnSet(g, T)
    BY <1>2
  <2>6. SumFunctionOnSet(f, In(T \union {k})) = SumFunctionOnSet(g, T \union {k})
    <3> HIDE DEF In
    <3> QED
      BY <2>2, <2>3, <2>4, <2>5
  <2>7. QED
    <3> HIDE DEF In
    <3> QED
      BY <2>6
<1>3. K \in Good
  <2> HIDE DEF Good
  <2> QED
    BY <1>1, <1>2, SetInduction
<1>4. In(K) = S
  OBVIOUS
<1>5. SumFunctionOnSet(f, In(K)) = SumFunctionOnSet(g, K)
  BY <1>3
<1>6. QED
  <2> HIDE DEF In
  <2> QED
    BY <1>0, <1>4, <1>5

\* The hypotheses under one name, for when there is much else about.
Parted(f, S, part, g, K) ==
    /\ IsFiniteSet(S) /\ IsFiniteSet(K)
    /\ \A x \in S : f[x] \in Int /\ \E k \in K : x \in part[k]
    /\ \A k \in K : part[k] \subseteq S /\ g[k] = SumFunctionOnSet(f, part[k])
    /\ \A j, k \in K : j # k => part[j] \intersect part[k] = {}

\* Groups that part a set have its sum together.
LEMMA SumOfParted ==
    ASSUME NEW f, NEW S, NEW part, NEW g, NEW K, Parted(f, S, part, g, K)
    PROVE  /\ SumFunctionOnSet(f, S) = SumFunctionOnSet(g, K)
           /\ \A k \in K : g[k] \in Int
  BY SumOfParts, SMTT(30) DEF Parted

\* The groups that a key makes.
LEMMA SumByKey ==
    ASSUME NEW f, NEW S, IsFiniteSet(S), \A x \in S : f[x] \in Int,
           NEW key, NEW K, IsFiniteSet(K), \A x \in S : key[x] \in K,
           NEW part, \A k \in K : \A x : x \in part[k] <=> x \in S /\ key[x] = k,
           NEW g, \A k \in K : g[k] = SumFunctionOnSet(f, part[k])
    PROVE  SumFunctionOnSet(f, S) = SumFunctionOnSet(g, K)
<1>1. \A k \in K : part[k] \subseteq S
  OBVIOUS
<1>2. \A x \in S : \E k \in K : x \in part[k]
  OBVIOUS
<1>3. \A j, k \in K : j # k => part[j] \intersect part[k] = {}
  OBVIOUS
<1>4. Parted(f, S, part, g, K)
  BY <1>1, <1>2, <1>3 DEF Parted
<1>5. QED
  BY <1>4, SumOfParted

\* Counting a thing under another name.
LEMMA SumOfImage ==
    ASSUME NEW f, NEW S, IsFiniteSet(S), \A x \in S : f[x] \in Int,
           NEW h, NEW K, NEW g,
           \A x \in S : h[x] \in K, \A k \in K : \E x \in S : h[x] = k,
           \A x, y \in S : h[x] = h[y] => x = y,
           \A x \in S : g[h[x]] = f[x]
    PROVE  /\ SumFunctionOnSet(f, S) = SumFunctionOnSet(g, K)
           /\ IsFiniteSet(K)
<1>1. IsFiniteSet(K)
  <2>1. [x \in S |-> h[x]] \in Surjection(S, K)
    BY DEF Surjection
  <2>2. QED
    BY <2>1, FS_Surjection
<1> DEFINE part == [k \in K |-> {x \in S : h[x] = k}]
<1>2. ASSUME NEW k \in K PROVE g[k] = SumFunctionOnSet(f, part[k])
  <2>1. PICK y \in S : h[y] = k
    OBVIOUS
  <2>2. part[k] = {y} /\ g[k] = f[y] /\ f[y] \in Int
    BY <2>1
  <2> HIDE DEF part
  <2>3. SumFunctionOnSet(f, {y}) = f[y]
    BY <2>2, SumOfOne
  <2>4. QED
    BY <2>2, <2>3
<1>3. /\ \A k \in K : part[k] \subseteq S
      /\ \A x \in S : \E k \in K : x \in part[k]
      /\ \A j, k \in K : j # k => part[j] \intersect part[k] = {}
  OBVIOUS
<1>4. SumFunctionOnSet(f, S) = SumFunctionOnSet(g, K)
  <2> HIDE DEF part
  <2> QED
    BY <1>1, <1>2, <1>3, SumOfParts
<1>5. QED
  BY <1>1, <1>4

\* The hypotheses under one name, for when there is much else about.
Renamed(f, S, h, g, K) ==
    /\ IsFiniteSet(S)
    /\ \A x \in S : f[x] \in Int /\ h[x] \in K /\ g[h[x]] = f[x]
    /\ \A k \in K : \E x \in S : h[x] = k
    /\ \A x, y \in S : h[x] = h[y] => x = y

\* A sum does not depend on what its terms are called.
LEMMA SumOfRenamed ==
    ASSUME NEW f, NEW S, NEW h, NEW g, NEW K, Renamed(f, S, h, g, K)
    PROVE  SumFunctionOnSet(f, S) = SumFunctionOnSet(g, K)
  BY SumOfImage DEF Renamed

\* Greater terms have a greater sum.
LEMMA SumGrows ==
    ASSUME NEW f, NEW g, NEW S, IsFiniteSet(S),
           \A x \in S : f[x] \in Int /\ g[x] \in Int /\ f[x] <= g[x]
    PROVE  /\ SumFunctionOnSet(f, S) <= SumFunctionOnSet(g, S)
           /\ (\E x \in S : f[x] < g[x]) => SumFunctionOnSet(f, S) < SumFunctionOnSet(g, S)
<1> DEFINE Good == {T \in SUBSET S :
                       /\ SumFunctionOnSet(f, T) <= SumFunctionOnSet(g, T)
                       /\ (\E x \in T : f[x] < g[x]) => SumFunctionOnSet(f, T) < SumFunctionOnSet(g, T)}
<1>1. {} \in Good
  BY SumEmpty
<1>2. ASSUME NEW T \in SUBSET S, NEW x \in S \ T, T \in Good
      PROVE  T \union {x} \in Good
  <2>1. IsFiniteSet(T)
    BY FS_Subset
  <2>2. SumFunctionOnSet(f, T \union {x}) = f[x] + SumFunctionOnSet(f, T)
    BY <2>1, SumAdds
  <2>3. SumFunctionOnSet(g, T \union {x}) = g[x] + SumFunctionOnSet(g, T)
    BY <2>1, SumAdds
  <2>4. SumFunctionOnSet(f, T) \in Int /\ SumFunctionOnSet(g, T) \in Int
    BY <2>1, SumTakes
  <2>5. QED
    BY <1>2, <2>2, <2>3, <2>4
<1>3. S \in Good
  <2> HIDE DEF Good
  <2> QED
    BY <1>1, <1>2, SetInduction
<1>4. QED
  BY <1>3

\* Fewer terms have a smaller sum.
LEMMA SumOfSubset ==
    ASSUME NEW f, NEW S, IsFiniteSet(S), NEW T, T \subseteq S, \A x \in S : f[x] \in Nat
    PROVE  SumFunctionOnSet(f, T) <= SumFunctionOnSet(f, S)
<1>1. IsFiniteSet(T) /\ IsFiniteSet(S \ T) /\ T \union (S \ T) = S /\ T \intersect (S \ T) = {}
  BY FS_Subset, FS_Difference
<1>2. SumFunctionOnSet(f, T) \in Nat /\ SumFunctionOnSet(f, S \ T) \in Nat
  BY <1>1, SumIsNat
<1>3. SumFunctionOnSet(f, T \union (S \ T)) = SumFunctionOnSet(f, T) + SumFunctionOnSet(f, S \ T)
  <2>1. \A x \in T \union (S \ T) : f[x] \in Int
    OBVIOUS
  <2>2. QED
    BY <1>1, <2>1, SumOfUnion
<1>4. SumFunctionOnSet(f, S) = SumFunctionOnSet(f, T) + SumFunctionOnSet(f, S \ T)
  BY <1>1, <1>3
<1>5. QED
  BY <1>2, <1>4

\* Counting is summing ones.
LEMMA SumOfOnes ==
    ASSUME NEW f, NEW S, IsFiniteSet(S), \A x \in S : f[x] = 1
    PROVE  SumFunctionOnSet(f, S) = Cardinality(S)
<1> DEFINE Good == {T \in SUBSET S : SumFunctionOnSet(f, T) = Cardinality(T)}
<1>1. {} \in Good
  BY SumEmpty, FS_EmptySet
<1>2. ASSUME NEW T \in SUBSET S, NEW x \in S \ T, T \in Good
      PROVE  T \union {x} \in Good
  <2>1. IsFiniteSet(T)
    BY FS_Subset
  <2>2. SumFunctionOnSet(f, T \union {x}) = f[x] + SumFunctionOnSet(f, T)
    BY <2>1, SumAdds
  <2>3. Cardinality(T \union {x}) = Cardinality(T) + 1 /\ Cardinality(T) \in Nat
    BY <2>1, FS_AddElement, FS_CardinalityType
  <2>4. QED
    BY <1>2, <2>2, <2>3
<1>3. S \in Good
  <2> HIDE DEF Good
  <2> QED
    BY <1>1, <1>2, SetInduction
<1>4. QED
  BY <1>3

\* Nothing sums to nothing.
LEMMA SumOfZeros ==
    ASSUME NEW f, NEW S, IsFiniteSet(S), \A x \in S : f[x] = 0
    PROVE  SumFunctionOnSet(f, S) = 0
<1> DEFINE Good == {T \in SUBSET S : SumFunctionOnSet(f, T) = 0}
<1>1. {} \in Good
  BY SumEmpty
<1>2. ASSUME NEW T \in SUBSET S, NEW x \in S \ T, T \in Good
      PROVE  T \union {x} \in Good
  <2>1. IsFiniteSet(T)
    BY FS_Subset
  <2>2. SumFunctionOnSet(f, T \union {x}) = f[x] + SumFunctionOnSet(f, T)
    BY <2>1, SumAdds
  <2>3. QED
    BY <1>2, <2>2
<1> HIDE DEF Good
<1>3. S \in Good
  BY <1>1, <1>2, SetInduction
<1>4. QED
  BY <1>3 DEF Good

\* A sum of natural numbers is not 0 just when one of them is not.
LEMMA SumIsPositive ==
    ASSUME NEW f, NEW S, IsFiniteSet(S), \A x \in S : f[x] \in Nat
    PROVE  SumFunctionOnSet(f, S) # 0 <=> \E x \in S : f[x] > 0
<1> DEFINE z == [x \in S |-> 0]
<1>1. \A x \in S : z[x] \in Int /\ z[x] = 0 /\ f[x] \in Int /\ z[x] <= f[x]
  OBVIOUS
<1> HIDE DEF z
<1>2. SumFunctionOnSet(z, S) = 0
  BY <1>1, SumOfZeros
<1>3. SumFunctionOnSet(f, S) \in Nat
  BY SumIsNat
<1>4. ASSUME NEW x \in S, f[x] > 0 PROVE SumFunctionOnSet(f, S) # 0
  <2>1. \E y \in S : z[y] < f[y]
    BY <1>1, <1>4
  <2>2. SumFunctionOnSet(z, S) < SumFunctionOnSet(f, S)
    BY <1>1, <2>1, SumGrows
  <2>3. QED
    BY <1>2, <1>3, <2>2
<1>5. ASSUME \A x \in S : ~(f[x] > 0) PROVE SumFunctionOnSet(f, S) = 0
  <2>1. \A x \in S : f[x] = z[x]
    BY <1>1, <1>5
  <2>2. QED
    BY <1>2, <2>1, SumSame
<1>6. QED
  BY <1>4, <1>5

\* A factor comes out of a sum.
LEMMA SumScaled ==
    ASSUME NEW f, NEW S, IsFiniteSet(S), NEW a \in Int,
           \A x \in S : f[x] \in Int, NEW h, \A x \in S : h[x] = a * f[x]
    PROVE  SumFunctionOnSet(h, S) = a * SumFunctionOnSet(f, S)
<1> DEFINE Good == {T \in SUBSET S : SumFunctionOnSet(h, T) = a * SumFunctionOnSet(f, T)}
<1>1. {} \in Good
  BY SumEmpty
<1>2. ASSUME NEW T \in SUBSET S, NEW x \in S \ T, T \in Good
      PROVE  T \union {x} \in Good
  <2>1. IsFiniteSet(T) /\ \A y \in S : h[y] \in Int
    BY FS_Subset
  <2>2. SumFunctionOnSet(h, T \union {x}) = h[x] + SumFunctionOnSet(h, T)
    BY <2>1, SumAdds
  <2>3. SumFunctionOnSet(f, T \union {x}) = f[x] + SumFunctionOnSet(f, T)
    BY <2>1, SumAdds
  <2>4. SumFunctionOnSet(f, T) \in Int
    BY <2>1, SumTakes
  <2>5. PICK i \in Int, j \in Int : i = f[x] /\ j = SumFunctionOnSet(f, T)
    BY <2>4
  <2>6. a * (i + j) = a * i + a * j
    OBVIOUS
  <2>7. QED
    BY <1>2, <2>2, <2>3, <2>5, <2>6
<1> HIDE DEF Good
<1>3. S \in Good
  BY <1>1, <1>2, SetInduction
<1>4. QED
  BY <1>3 DEF Good

\* A sum of sums.
LEMMA SumOfSums ==
    ASSUME NEW f, NEW g, NEW S, IsFiniteSet(S),
           \A x \in S : f[x] \in Int /\ g[x] \in Int, NEW h, \A x \in S : h[x] = f[x] + g[x]
    PROVE  SumFunctionOnSet(h, S) = SumFunctionOnSet(f, S) + SumFunctionOnSet(g, S)
<1> DEFINE Good == {T \in SUBSET S : SumFunctionOnSet(h, T)
                                         = SumFunctionOnSet(f, T) + SumFunctionOnSet(g, T)}
<1>1. {} \in Good
  BY SumEmpty
<1>2. ASSUME NEW T \in SUBSET S, NEW x \in S \ T, T \in Good
      PROVE  T \union {x} \in Good
  <2>1. IsFiniteSet(T) /\ \A y \in S : h[y] \in Int
    BY FS_Subset
  <2>2. SumFunctionOnSet(h, T \union {x}) = h[x] + SumFunctionOnSet(h, T)
    BY <2>1, SumAdds
  <2>3. SumFunctionOnSet(f, T \union {x}) = f[x] + SumFunctionOnSet(f, T)
    BY <2>1, SumAdds
  <2>4. SumFunctionOnSet(g, T \union {x}) = g[x] + SumFunctionOnSet(g, T)
    BY <2>1, SumAdds
  <2>5. SumFunctionOnSet(f, T) \in Int /\ SumFunctionOnSet(g, T) \in Int
    BY <2>1, SumTakes
  <2>6. QED
    BY <1>2, <2>2, <2>3, <2>4, <2>5
<1> HIDE DEF Good
<1>3. S \in Good
  BY <1>1, <1>2, SetInduction
<1>4. QED
  BY <1>3 DEF Good

\* A table of numbers: rows summed first, or columns.
Crossed(F, K, U, row, col) ==
    /\ IsFiniteSet(K) /\ IsFiniteSet(U)
    /\ \A k \in K : row[k] = SumFunctionOnSet(F[k], U) /\ \A u \in U : F[k][u] \in Int
    /\ \A u \in U : \A T \in SUBSET K : \A k \in K \ T :
           col[u][T \union {k}] = F[k][u] + col[u][T]
    /\ \A u \in U : col[u][{}] = 0

\* A table of terms sums alike by rows and by columns.
LEMMA SumCrossed ==
    ASSUME NEW F, NEW K, NEW U, NEW row, NEW col, Crossed(F, K, U, row, col)
    PROVE  SumFunctionOnSet(row, K) = SumFunctionOnSet([u \in U |-> col[u][K]], U)
<1>0. /\ IsFiniteSet(K) /\ IsFiniteSet(U)
      /\ \A k \in K : row[k] = SumFunctionOnSet(F[k], U) /\ \A u \in U : F[k][u] \in Int
      /\ \A u \in U : \A T \in SUBSET K : \A k \in K \ T :
             col[u][T \union {k}] = F[k][u] + col[u][T]
      /\ \A u \in U : col[u][{}] = 0
  BY DEF Crossed
<1> DEFINE at(T) == [u \in U |-> col[u][T]]
           Good == {T \in SUBSET K : /\ \A u \in U : at(T)[u] \in Int
                                     /\ SumFunctionOnSet(row, T) = SumFunctionOnSet(at(T), U)}
<1>1. {} \in Good
  <2>1. \A u \in U : at({})[u] = 0
    BY <1>0
  <2>2. SumFunctionOnSet(at({}), U) = 0
    <3> HIDE DEF at
    <3> QED
      BY <1>0, <2>1, SumOfZeros
  <2>3. QED
    BY <2>1, <2>2, SumEmpty
<1>2. ASSUME NEW T \in SUBSET K, NEW k \in K \ T, T \in Good
      PROVE  T \union {k} \in Good
  <2>1. PICK a, b : a = at(T) /\ b = at(T \union {k})
    OBVIOUS
  <2>2. \A u \in U : b[u] = F[k][u] + a[u] /\ F[k][u] \in Int /\ a[u] \in Int
    BY <1>0, <1>2, <2>1
  <2>3. SumFunctionOnSet(b, U) = SumFunctionOnSet(F[k], U) + SumFunctionOnSet(a, U)
    BY <1>0, <2>2, SumOfSums
  <2>4. \A j \in K : row[j] \in Int
    BY <1>0, SumTakes
  <2>5. SumFunctionOnSet(row, T \union {k}) = row[k] + SumFunctionOnSet(row, T)
    <3>1. IsFiniteSet(T) /\ (\A j \in T : row[j] \in Int) /\ row[k] \in Int /\ k \notin T
      BY <1>0, <2>4, FS_Subset
    <3>2. QED
      BY <3>1, SumAdds
  <2>6. row[k] = SumFunctionOnSet(F[k], U)
    BY <1>0
  <2>7. \A u \in U : b[u] \in Int
    BY <2>2
  <2>8. QED
    BY <1>2, <2>1, <2>3, <2>5, <2>6, <2>7
<1> HIDE DEF Good
<1>3. K \in Good
  BY <1>0, <1>1, <1>2, SetInduction
<1>4. QED
  BY <1>3 DEF Good

Swapped(F, G, K, U, row, col) ==
    /\ IsFiniteSet(K) /\ IsFiniteSet(U)
    /\ \A k \in K : row[k] = SumFunctionOnSet(F[k], U)
    /\ \A u \in U : col[u] = SumFunctionOnSet(G[u], K)
    /\ \A k \in K : \A u \in U : F[k][u] \in Int /\ G[u][k] = F[k][u]

\* The same, with a function for the columns.
LEMMA SumSwapped ==
    ASSUME NEW F, NEW G, NEW K, NEW U, NEW row, NEW col, Swapped(F, G, K, U, row, col)
    PROVE  SumFunctionOnSet(row, K) = SumFunctionOnSet(col, U)
<1>0. /\ IsFiniteSet(K) /\ IsFiniteSet(U)
      /\ \A k \in K : row[k] = SumFunctionOnSet(F[k], U)
      /\ \A u \in U : col[u] = SumFunctionOnSet(G[u], K)
      /\ \A k \in K : \A u \in U : F[k][u] \in Int /\ G[u][k] = F[k][u]
  BY DEF Swapped
<1>1. PICK c : c = [u \in U |-> [T \in SUBSET K |-> SumFunctionOnSet(G[u], T)]]
  OBVIOUS
<1>2. \A u \in U : \A T \in SUBSET K : c[u][T] = SumFunctionOnSet(G[u], T)
  BY <1>1
<1>3. \A u \in U : c[u][{}] = 0
  BY <1>2, SumEmpty
<1>4. ASSUME NEW u \in U, NEW T \in SUBSET K, NEW k \in K \ T
      PROVE  c[u][T \union {k}] = F[k][u] + c[u][T]
  <2>1. PICK g : g = G[u]
    OBVIOUS
  <2>2. IsFiniteSet(T) /\ g[k] \in Int /\ \A j \in T : g[j] \in Int
    BY <1>0, <2>1, FS_Subset
  <2>3. SumFunctionOnSet(g, T \union {k}) = g[k] + SumFunctionOnSet(g, T)
    BY <2>2, SumAdds
  <2>4. QED
    BY <1>0, <1>2, <2>1, <2>3
<1>5. Crossed(F, K, U, row, c)
  BY <1>0, <1>3, <1>4 DEF Crossed
<1>6. SumFunctionOnSet(row, K) = SumFunctionOnSet([u \in U |-> c[u][K]], U)
  BY <1>5, SumCrossed
<1>7. PICK d : d = [u \in U |-> c[u][K]]
  OBVIOUS
<1>8. \A u \in U : d[u] = col[u]
  BY <1>0, <1>2, <1>7
<1>9. SumFunctionOnSet(d, U) = SumFunctionOnSet(col, U)
  BY <1>0, <1>8, SumSame
<1>10. QED
  BY <1>6, <1>7, <1>9

\* Adding what is 0 changes nothing.
LEMMA SumOfRest ==
    ASSUME NEW f, NEW S, IsFiniteSet(S), NEW T, T \subseteq S,
           \A x \in S : f[x] \in Int, \A x \in S : x \notin T => f[x] = 0
    PROVE  SumFunctionOnSet(f, S) = SumFunctionOnSet(f, T)
<1>1. IsFiniteSet(T) /\ IsFiniteSet(S \ T) /\ T \union (S \ T) = S /\ T \intersect (S \ T) = {}
  BY FS_Subset, FS_Difference
<1>2. SumFunctionOnSet(f, T \union (S \ T)) = SumFunctionOnSet(f, T) + SumFunctionOnSet(f, S \ T)
  <2>1. \A x \in T \union (S \ T) : f[x] \in Int
    OBVIOUS
  <2>2. QED
    BY <1>1, <2>1, SumOfUnion
<1>3. SumFunctionOnSet(f, S \ T) = 0
  <2>1. PICK R : R = S \ T
    OBVIOUS
  <2>2. \A x \in R : f[x] = 0
    BY <2>1
  <2>3. QED
    BY <1>1, <2>1, <2>2, SumOfZeros
<1>4. SumFunctionOnSet(f, T) \in Int
  BY <1>1, SumTakes
<1>5. SumFunctionOnSet(f, S) = SumFunctionOnSet(f, T \union (S \ T))
  BY <1>1, Zenon
<1>6. QED
  BY <1>2, <1>3, <1>4, <1>5
=============================================================================
