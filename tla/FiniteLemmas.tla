---------------------------- MODULE FiniteLemmas ----------------------------
(***************************************************************************)
(* What the proofs about payments, reports, documents and benchmarks need  *)
(* of finite sets: sums over them, their greatest element, and their       *)
(* elements in order.                                                      *)
(*                                                                         *)
(* Sums are defined recursively.  The lemmas about them are proved without *)
(* an induction scheme: of the parts of a set for which an equation fails, *)
(* one would be the smallest.                                              *)
(***************************************************************************)
EXTENDS Integers, FiniteSets, FiniteSetsExt, Functions,
        FiniteSetTheorems, WellFoundedInduction, TLAPS

\* Among parts of a finite set there is one none of the others lies inside.
LEMMA SmallestPart ==
  ASSUME NEW S, IsFiniteSet(S), NEW T, T \subseteq SUBSET S, T # {}
  PROVE  \E A \in T : \A B \in T : B \subseteq A => B = A
<1>1. IsWellFoundedOn(StrictSubsetOrdering(S), SUBSET S)
  BY FS_StrictSubsetOrderingWellFounded, FS_FiniteSubsetsOfFinite
<1>2. \E A \in T : \A B \in T : ~ (<< B, A >> \in StrictSubsetOrdering(S))
  BY <1>1, WFMin
<1> QED BY <1>2 DEF StrictSubsetOrdering

\* A finite set has finitely many values.
LEMMA FiniteImage ==
  ASSUME NEW S, IsFiniteSet(S), NEW f
  PROVE  IsFiniteSet({f[x] : x \in S})
<1> DEFINE g == [x \in S |-> f[x]]
           T == {f[x] : x \in S}
<1>1. g \in Surjection(S, T)
  BY DEF Surjection
<1> HIDE DEF g, T
<1>2. IsFiniteSet(T)
  BY <1>1, FS_Surjection
<1> QED BY <1>2 DEF T

-----------------------------------------------------------------------------
(* Sums over finite sets *)

\* An element of a set that is not empty, always the same.
Pick(s) == CHOOSE x \in s : TRUE

\* g gives every part of S the sum of F over it, as MapThenSumSet adds it up.
SumsUp(g, F, S) ==
  g = [s \in SUBSET S |-> IF s = {} THEN 0 ELSE F[Pick(s)] + g[s \ {Pick(s)}]]

SumOver(F, S) == (CHOOSE g : SumsUp(g, F, S))[S]

LEMMA PickIsIn == \A s : s # {} => Pick(s) \in s
BY DEF Pick

\* Two sums over the same values agree, whatever larger set each is made for.
LEMMA SumsAgree ==
  ASSUME NEW F, NEW G, NEW S, NEW T, NEW g, NEW h, SumsUp(g, F, S), SumsUp(h, G, T),
         NEW E, IsFiniteSet(E), E \subseteq S, E \subseteq T, \A x \in E : F[x] = G[x]
  PROVE  g[E] = h[E]
<1> DEFINE Wrong == {A \in SUBSET E : g[A] # h[A]}
<1> SUFFICES ASSUME Wrong # {} PROVE FALSE
  OBVIOUS
<1>0. Wrong \subseteq SUBSET E /\ Wrong # {}
  OBVIOUS
<1> HIDE DEF Wrong
<1>1. PICK A \in Wrong : \A B \in Wrong : B \subseteq A => B = A
  BY <1>0, SmallestPart
<1> USE DEF Wrong
<1>2. A # {}
  BY DEF SumsUp
<1>3. Pick(A) \in A
  BY <1>2, PickIsIn
<1>4. g[A] = F[Pick(A)] + g[A \ {Pick(A)}] /\ h[A] = G[Pick(A)] + h[A \ {Pick(A)}]
  BY <1>2 DEF SumsUp
<1>5. g[A \ {Pick(A)}] = h[A \ {Pick(A)}]
  BY <1>1, <1>3
<1> QED BY <1>3, <1>4, <1>5

\* Every finite set has its sums: those of a smallest set without them can be
\* put together from those of its parts.
LEMMA SumsExist ==
  ASSUME NEW F, NEW S, IsFiniteSet(S)
  PROVE  \E g : SumsUp(g, F, S)
<1> DEFINE Wrong == {A \in SUBSET S : \A g : ~ SumsUp(g, F, A)}
<1> SUFFICES ASSUME Wrong # {} PROVE FALSE
  OBVIOUS
<1>0. Wrong \subseteq SUBSET S /\ Wrong # {}
  OBVIOUS
<1> HIDE DEF Wrong
<1>1. PICK A \in Wrong : \A B \in Wrong : B \subseteq A => B = A
  BY <1>0, SmallestPart
<1> USE DEF Wrong
<1> DEFINE Sums(B) == CHOOSE g : SumsUp(g, F, B)
           x == Pick(A)
<1>2. ASSUME NEW B \in SUBSET A, B # A
      PROVE  SumsUp(Sums(B), F, B)
  <2>1. \E g : SumsUp(g, F, B)
    BY <1>1, <1>2
  <2> QED BY <2>1
<1>3. \A B \in SUBSET A : IsFiniteSet(B)
  BY FS_Subset
<1> HIDE DEF Sums
<1>4. A # {}
  <2>1. SumsUp([s \in SUBSET {} |-> 0], F, {})
    BY DEF SumsUp
  <2> QED BY <2>1
<1>5. x \in A
  BY <1>4, PickIsIn
<1> DEFINE g == [s \in SUBSET A |-> IF s = A THEN F[x] + Sums(A \ {x})[A \ {x}] ELSE Sums(s)[s]]
<1>6. ASSUME NEW s \in SUBSET A, s # {}
      PROVE  g[s] = F[Pick(s)] + g[s \ {Pick(s)}]
  <2>1. CASE s = A
    BY <1>5, <2>1
  <2>2. CASE s # A
    <3> DEFINE y == Pick(s)
    <3>1. y \in s
      BY <1>6, PickIsIn
    <3>2. s \ {y} \in SUBSET A /\ s \ {y} # A
      BY <3>1
    <3> HIDE DEF y
    <3>5. SumsUp(Sums(s), F, s) /\ SumsUp(Sums(s \ {y}), F, s \ {y})
      BY <1>2, <2>2, <3>2
    <3> USE DEF y
    <3>3. Sums(s)[s] = F[y] + Sums(s)[s \ {y}]
      BY <1>6, <3>5 DEF SumsUp
    <3>4. Sums(s)[s \ {y}] = Sums(s \ {y})[s \ {y}]
      BY <1>3, <3>1, <3>5, SumsAgree
    <3> QED BY <2>2, <3>1, <3>3, <3>4
  <2> QED BY <2>1, <2>2
<1>7. g[{}] = 0
  <2>1. SumsUp(Sums({}), F, {})
    BY <1>2, <1>4
  <2> QED BY <1>4, <2>1 DEF SumsUp
<1>8. SumsUp(g, F, A)
  <2> DEFINE h == [s \in SUBSET A |-> IF s = {} THEN 0 ELSE F[Pick(s)] + g[s \ {Pick(s)}]]
  <2>1. \A s \in SUBSET A : g[s] = h[s]
    BY <1>6, <1>7
  <2>2. g = [s \in SUBSET A |-> g[s]]
    OBVIOUS
  <2> HIDE DEF g
  <2>3. g = h
    BY <2>1, <2>2
  <2> QED BY <2>3 DEF SumsUp
<1> HIDE DEF g
<1> QED BY <1>8

\* The sum of a finite set: nothing for the empty set, and a summand apart.
LEMMA SumOverStep ==
  ASSUME NEW F, NEW S, IsFiniteSet(S)
  PROVE  /\ SumOver(F, {}) = 0
         /\ S # {} => SumOver(F, S) = F[Pick(S)] + SumOver(F, S \ {Pick(S)})
<1> DEFINE Sums(A) == CHOOSE g : SumsUp(g, F, A)
<1>1. \A A : IsFiniteSet(A) => SumsUp(Sums(A), F, A)
  BY SumsExist
<1>2. \A A : SumOver(F, A) = Sums(A)[A]
  BY DEF SumOver
<1> HIDE DEF Sums
<1>3. SumOver(F, {}) = 0
  BY <1>1, <1>2, FS_EmptySet DEF SumsUp
<1>4. ASSUME S # {} PROVE SumOver(F, S) = F[Pick(S)] + SumOver(F, S \ {Pick(S)})
  <2>1. Pick(S) \in S /\ IsFiniteSet(S \ {Pick(S)})
    BY <1>4, PickIsIn, FS_Subset
  <2>2. Sums(S)[S] = F[Pick(S)] + Sums(S)[S \ {Pick(S)}]
    BY <1>1, <1>4 DEF SumsUp
  <2>3. Sums(S)[S \ {Pick(S)}] = Sums(S \ {Pick(S)})[S \ {Pick(S)}]
    BY <1>1, <2>1, SumsAgree
  <2> QED BY <1>2, <2>2, <2>3
<1> QED BY <1>3, <1>4

\* Sums of integers are integers, and of naturals naturals.
LEMMA SumOverType ==
  ASSUME NEW F, NEW S, IsFiniteSet(S), NEW V, V \in {Nat, Int}, \A x \in S : F[x] \in V
  PROVE  SumOver(F, S) \in V
<1> DEFINE Wrong == {A \in SUBSET S : SumOver(F, A) \notin V}
<1> SUFFICES ASSUME Wrong # {} PROVE FALSE
  OBVIOUS
<1>0. Wrong \subseteq SUBSET S /\ Wrong # {}
  OBVIOUS
<1> HIDE DEF Wrong
<1>1. PICK A \in Wrong : \A B \in Wrong : B \subseteq A => B = A
  BY <1>0, SmallestPart
<1> USE DEF Wrong
<1>2. IsFiniteSet(A)
  BY FS_Subset
<1>3. A # {}
  <2>1. SumOver(F, {}) = 0
    BY SumOverStep
  <2>2. 0 \in V
    OBVIOUS
  <2> QED BY <2>1, <2>2
<1>4. Pick(A) \in A /\ SumOver(F, A) = F[Pick(A)] + SumOver(F, A \ {Pick(A)})
  BY <1>2, <1>3, PickIsIn, SumOverStep
<1>5. SumOver(F, A \ {Pick(A)}) \in V
  BY <1>1, <1>4
<1> QED BY <1>4, <1>5

\* Any summand may be taken apart.
LEMMA SumOverRemove ==
  ASSUME NEW F, NEW S, IsFiniteSet(S), \A x \in S : F[x] \in Int
  PROVE  \A x \in S : SumOver(F, S) = F[x] + SumOver(F, S \ {x})
<1> DEFINE Wrong == {A \in SUBSET S : \E x \in A : SumOver(F, A) # F[x] + SumOver(F, A \ {x})}
<1> SUFFICES ASSUME Wrong # {} PROVE FALSE
  OBVIOUS
<1>0. Wrong \subseteq SUBSET S /\ Wrong # {}
  OBVIOUS
<1> HIDE DEF Wrong
<1>1. PICK A \in Wrong : \A B \in Wrong : B \subseteq A => B = A
  BY <1>0, SmallestPart
<1> USE DEF Wrong
<1>2. PICK x \in A : SumOver(F, A) # F[x] + SumOver(F, A \ {x})
  BY <1>1
<1> DEFINE c == Pick(A)
<1>3. \A B \in SUBSET A : IsFiniteSet(B) /\ SumOver(F, B) \in Int
  BY FS_Subset, SumOverType
<1>4. c \in A /\ SumOver(F, A) = F[c] + SumOver(F, A \ {c})
  BY <1>2, <1>3, PickIsIn, SumOverStep
<1>5. c # x
  BY <1>2, <1>4
<1>6. SumOver(F, A \ {c}) = F[x] + SumOver(F, (A \ {c}) \ {x})
  BY <1>1, <1>4, <1>5
<1>7. SumOver(F, A \ {x}) = F[c] + SumOver(F, (A \ {x}) \ {c})
  BY <1>1, <1>4, <1>5
<1>8. (A \ {c}) \ {x} = (A \ {x}) \ {c}
  OBVIOUS
<1>9. F[c] \in Int /\ F[x] \in Int /\ SumOver(F, (A \ {x}) \ {c}) \in Int
  BY <1>3, <1>4
<1> DEFINE rest == SumOver(F, (A \ {x}) \ {c})
<1>10. SumOver(F, (A \ {c}) \ {x}) = rest
  BY <1>8
<1> HIDE DEF c, rest, Wrong
<1>11. rest \in Int
  BY <1>9 DEF rest
<1>12. SumOver(F, A) = F[c] + (F[x] + rest) /\ SumOver(F, A \ {x}) = F[c] + rest
  BY <1>4, <1>6, <1>7, <1>10 DEF rest
<1> QED BY <1>2, <1>9, <1>11, <1>12

\* The sum depends on the summands alone.
LEMMA SumOverSame ==
  ASSUME NEW F, NEW G, NEW S, IsFiniteSet(S), \A x \in S : F[x] = G[x]
  PROVE  SumOver(F, S) = SumOver(G, S)
<1>1. PICK g : SumsUp(g, F, S)
  BY SumsExist
<1>2. SumsUp(CHOOSE k : SumsUp(k, F, S), F, S)
  BY <1>1
<1>3. PICK h : SumsUp(h, G, S)
  BY SumsExist
<1>4. SumsUp(CHOOSE k : SumsUp(k, G, S), G, S)
  BY <1>3
<1> QED BY <1>2, <1>4, SumsAgree DEF SumOver

\* A part has no larger sum than the whole.
LEMMA SumOverPart ==
  ASSUME NEW F, NEW T, IsFiniteSet(T), \A x \in T : F[x] \in Nat, NEW S \in SUBSET T
  PROVE  SumOver(F, S) <= SumOver(F, T)
<1> DEFINE Wrong == {A \in SUBSET T : S \subseteq A /\ ~ (SumOver(F, S) <= SumOver(F, A))}
<1> SUFFICES ASSUME Wrong # {} PROVE FALSE
  OBVIOUS
<1>0. Wrong \subseteq SUBSET T /\ Wrong # {}
  OBVIOUS
<1> HIDE DEF Wrong
<1>1. PICK A \in Wrong : \A B \in Wrong : B \subseteq A => B = A
  BY <1>0, SmallestPart
<1> USE DEF Wrong
<1>2. /\ \A B \in SUBSET T : IsFiniteSet(B) /\ SumOver(F, B) \in Nat
      /\ \A x \in T : F[x] \in Int
  <2>1. \A B \in SUBSET T : IsFiniteSet(B)
    BY FS_Subset
  <2>2. ASSUME NEW B \in SUBSET T PROVE SumOver(F, B) \in Nat
    BY <2>1, SumOverType
  <2> QED BY <2>1, <2>2
<1>3. A # S
  BY <1>2
<1>4. PICK x \in A : x \notin S
  BY <1>3
<1>5. SumOver(F, A) = F[x] + SumOver(F, A \ {x})
  BY <1>2, <1>4, SumOverRemove
<1>6. SumOver(F, S) <= SumOver(F, A \ {x})
  BY <1>1, <1>4
<1>7. SumOver(F, S) \in Nat /\ SumOver(F, A \ {x}) \in Nat /\ F[x] \in Nat
  BY <1>2, <1>4
<1>8. ~ (SumOver(F, S) <= SumOver(F, A))
  OBVIOUS
<1> HIDE DEF Wrong
<1> QED BY <1>5, <1>6, <1>7, <1>8

\* The sum over two sets that have nothing in common.
LEMMA SumOverDisjoint ==
  ASSUME NEW F, NEW S, IsFiniteSet(S), NEW T, IsFiniteSet(T), S \cap T = {},
         \A x \in S \cup T : F[x] \in Int
  PROVE  SumOver(F, S \cup T) = SumOver(F, S) + SumOver(F, T)
<1> DEFINE Wrong == {A \in SUBSET T : SumOver(F, S \cup A) # SumOver(F, S) + SumOver(F, A)}
<1> SUFFICES ASSUME Wrong # {} PROVE FALSE
  OBVIOUS
<1>0. Wrong \subseteq SUBSET T /\ Wrong # {}
  OBVIOUS
<1> HIDE DEF Wrong
<1>1. PICK A \in Wrong : \A B \in Wrong : B \subseteq A => B = A
  BY <1>0, SmallestPart
<1> USE DEF Wrong
<1>2. \A B \in SUBSET T : /\ IsFiniteSet(B) /\ IsFiniteSet(S \cup B)
                          /\ SumOver(F, B) \in Int /\ SumOver(F, S \cup B) \in Int
  <2> TAKE B \in SUBSET T
  <2>1. IsFiniteSet(B) /\ IsFiniteSet(S \cup B)
    BY FS_Subset, FS_Union
  <2> QED BY <2>1, SumOverType
<1>3. SumOver(F, S) \in Int
  BY SumOverType
<1>4. A # {}
  <2>1. SumOver(F, {}) = 0 /\ S \cup {} = S
    BY SumOverStep
  <2> QED BY <1>3, <2>1
<1>5. PICK x \in A : x \notin S
  BY <1>4
<1>6. SumOver(F, A) = F[x] + SumOver(F, A \ {x})
  BY <1>2, SumOverRemove
<1>7. SumOver(F, S \cup A) = F[x] + SumOver(F, (S \cup A) \ {x})
  BY <1>2, SumOverRemove
<1>8. (S \cup A) \ {x} = S \cup (A \ {x})
  BY <1>5
<1>9. SumOver(F, S \cup (A \ {x})) = SumOver(F, S) + SumOver(F, A \ {x})
  BY <1>1, <1>5
<1>10. F[x] \in Int /\ SumOver(F, A \ {x}) \in Int
  BY <1>2
<1>11. SumOver(F, S \cup A) # SumOver(F, S) + SumOver(F, A)
  OBVIOUS
<1> HIDE DEF Wrong
<1>12. SumOver(F, S \cup A) = F[x] + (SumOver(F, S) + SumOver(F, A \ {x}))
  BY <1>7, <1>8, <1>9, Zenon
<1> QED BY <1>3, <1>6, <1>10, <1>11, <1>12

\* Adding up ones is counting.
LEMMA SumOverOnes ==
  ASSUME NEW F, NEW S, IsFiniteSet(S), \A x \in S : F[x] = 1
  PROVE  SumOver(F, S) = Cardinality(S)
<1> DEFINE Wrong == {A \in SUBSET S : SumOver(F, A) # Cardinality(A)}
<1> SUFFICES ASSUME Wrong # {} PROVE FALSE
  OBVIOUS
<1>0. Wrong \subseteq SUBSET S /\ Wrong # {}
  OBVIOUS
<1> HIDE DEF Wrong
<1>1. PICK A \in Wrong : \A B \in Wrong : B \subseteq A => B = A
  BY <1>0, SmallestPart
<1> USE DEF Wrong
<1>2. IsFiniteSet(A)
  BY FS_Subset
<1>3. A # {}
  BY SumOverStep, FS_EmptySet
<1>4. Pick(A) \in A /\ SumOver(F, A) = F[Pick(A)] + SumOver(F, A \ {Pick(A)})
  BY <1>2, <1>3, PickIsIn, SumOverStep
<1>5. SumOver(F, A \ {Pick(A)}) = Cardinality(A \ {Pick(A)})
  BY <1>1, <1>4
<1>6. Cardinality(A \ {Pick(A)}) = Cardinality(A) - 1 /\ Cardinality(A) \in Nat
  BY <1>2, <1>4, FS_RemoveElement, FS_CardinalityType
<1>7. SumOver(F, A) # Cardinality(A) /\ F[Pick(A)] = 1
  BY <1>4
<1> HIDE DEF Wrong
<1> QED BY <1>4, <1>5, <1>6, <1>7

\* The elements of S whose key is k.
Fiber(key, S, k) == {x \in S : key[x] = k}

\* Adding up key by key is adding up all.
LEMMA SumOfFibers ==
  ASSUME NEW F, NEW S, IsFiniteSet(S), \A x \in S : F[x] \in Int,
         NEW key, NEW K, IsFiniteSet(K), \A x \in S : key[x] \in K,
         NEW G, \A k \in K : G[k] = SumOver(F, Fiber(key, S, k))
  PROVE  SumOver(G, K) = SumOver(F, S)
<1> DEFINE Over(A) == {x \in S : key[x] \in A}
           Wrong == {A \in SUBSET K : SumOver(G, A) # SumOver(F, Over(A))}
<1>s. Over(K) = S
  OBVIOUS
<1> SUFFICES ASSUME Wrong # {} PROVE FALSE
  BY <1>s
<1>0. Wrong \subseteq SUBSET K /\ Wrong # {}
  OBVIOUS
<1> HIDE DEF Wrong
<1>1. PICK A \in Wrong : \A B \in Wrong : B \subseteq A => B = A
  BY <1>0, SmallestPart
<1> USE DEF Wrong
<1>2. IsFiniteSet(A)
  BY FS_Subset
<1>3. A # {}
  <2>1. Over({}) = {} /\ SumOver(G, {}) = 0 /\ SumOver(F, {}) = 0
    BY SumOverStep, FS_EmptySet
  <2> HIDE DEF Over
  <2> QED BY <2>1
<1> DEFINE k == Pick(A)
<1>4. k \in A /\ SumOver(G, A) = G[k] + SumOver(G, A \ {k})
  BY <1>2, <1>3, PickIsIn, SumOverStep
<1>5. SumOver(G, A \ {k}) = SumOver(F, Over(A \ {k}))
  <2> HIDE DEF Over, k
  <2> QED BY <1>1, <1>4
<1>6. /\ Over(A) = Fiber(key, S, k) \cup Over(A \ {k})
      /\ Fiber(key, S, k) \cap Over(A \ {k}) = {}
  <2> HIDE DEF k
  <2> QED BY <1>4 DEF Fiber
<1>7. IsFiniteSet(Fiber(key, S, k)) /\ IsFiniteSet(Over(A \ {k}))
  <2>1. Fiber(key, S, k) \in SUBSET S /\ Over(A \ {k}) \in SUBSET S
    BY DEF Fiber
  <2> HIDE DEF Over, k
  <2> QED BY <2>1, FS_Subset
<1>8. \A x \in Fiber(key, S, k) \cup Over(A \ {k}) : F[x] \in Int
  BY DEF Fiber
<1>9. SumOver(G, A) # SumOver(F, Over(A)) /\ G[k] = SumOver(F, Fiber(key, S, k))
  <2> HIDE DEF Over, k
  <2> QED BY <1>4
<1> HIDE DEF Wrong, Over, k
<1>10. SumOver(F, Over(A)) = SumOver(F, Fiber(key, S, k)) + SumOver(F, Over(A \ {k}))
  <2> DEFINE these == Fiber(key, S, k)
             those == Over(A \ {k})
  <2>1. these \cap those = {} /\ Over(A) = these \cup those
    BY <1>6
  <2>2. IsFiniteSet(these) /\ IsFiniteSet(those) /\ \A x \in these \cup those : F[x] \in Int
    BY <1>7, <1>8
  <2> HIDE DEF these, those
  <2>3. SumOver(F, these \cup those) = SumOver(F, these) + SumOver(F, those)
    BY <2>1, <2>2, SumOverDisjoint
  <2>4. SumOver(F, Over(A)) = SumOver(F, these) + SumOver(F, those)
    BY <2>1, <2>3, Zenon
  <2> QED BY <2>4 DEF these, those
<1> QED BY <1>4, <1>5, <1>9, <1>10

-----------------------------------------------------------------------------
(* The greatest element *)

\* A finite set of numbers has a greatest element.
LEMMA MaxOfFinite ==
  ASSUME NEW S \in SUBSET Int, IsFiniteSet(S), S # {}
  PROVE  Max(S) \in S /\ \A y \in S : y <= Max(S)
<1> DEFINE Above(x) == {y \in S : y >= x}
           family == {Above(x) : x \in S}
<1>1. family \subseteq FiniteSubsetsOf(S) /\ family # {}
  <2>1. ASSUME NEW x \in S PROVE IsFiniteSet(Above(x))
    BY FS_Subset
  <2> QED BY <2>1 DEF FiniteSubsetsOf
<1>2. \E U \in family : \A V \in family : << V, U >> \notin StrictSubsetOrdering(S)
  <2> HIDE DEF family
  <2> QED BY <1>1, FS_StrictSubsetOrderingWellFounded, WFMin
<1>3. PICK x \in S : \A z \in S : << Above(z), Above(x) >> \notin StrictSubsetOrdering(S)
  BY <1>2
<1>4. \A y \in S : x >= y
  <2> SUFFICES ASSUME NEW y \in S, ~ (x >= y) PROVE FALSE
    OBVIOUS
  <2>1. Above(y) \subseteq Above(x) /\ x \in Above(x) /\ x \notin Above(y)
    <3>1. x \in Int /\ y \in Int /\ x < y
      OBVIOUS
    <3>2. \A z \in S : z \in Int /\ (z >= y => z >= x)
      BY <3>1
    <3>3. x >= x /\ ~ (x >= y)
      BY <3>1
    <3> QED BY <3>2, <3>3, Zenon
  <2>2. << Above(y), Above(x) >> \in StrictSubsetOrdering(S)
    BY <2>1 DEF StrictSubsetOrdering
  <2> QED BY <2>2, <1>3
<1> QED BY <1>4 DEF Max

-----------------------------------------------------------------------------
(* Elements in order *)

\* The elements of S, each of them once, by their ranks.
Ordered(q, rank) == \A i, k \in DOMAIN q : i < k => rank[q[i]] <= rank[q[k]]

\* What is listed once in a sequence as long as the set is all of the set.
LEMMA ListedAll ==
  ASSUME NEW S, IsFiniteSet(S), NEW q \in Injection(1 .. Cardinality(S), S)
  PROVE  q \in Surjection(1 .. Cardinality(S), S)
<1> DEFINE n == Cardinality(S)
<1>1. n \in Nat /\ IsFiniteSet(1 .. n)
  BY FS_CardinalityType, FS_Interval
<1>2. Cardinality(1 .. n) = n
  BY <1>1, FS_Interval
<1>3. Cardinality(1 .. n) = Cardinality(S) <=> q \in Surjection(1 .. n, S)
  BY FS_Injection
<1> QED BY <1>2, <1>3

\* Every finite set can be put in order: an element of the highest rank goes
\* behind all the others.
LEMMA OrderExists ==
  ASSUME NEW S, IsFiniteSet(S), NEW rank, \A x \in S : rank[x] \in Int
  PROVE  \E q \in Injection(1 .. Cardinality(S), S) : Ordered(q, rank)
<1> DEFINE InOrder(A) == \E q \in Injection(1 .. Cardinality(A), A) : Ordered(q, rank)
           Wrong == {A \in SUBSET S : ~ InOrder(A)}
<1> SUFFICES ASSUME Wrong # {} PROVE FALSE
  OBVIOUS
<1>0. Wrong \subseteq SUBSET S /\ Wrong # {}
  OBVIOUS
<1> HIDE DEF Wrong
<1>1. PICK A \in Wrong : \A B \in Wrong : B \subseteq A => B = A
  BY <1>0, SmallestPart
<1> USE DEF Wrong
<1>2. IsFiniteSet(A)
  BY FS_Subset
<1>3. A # {}
  <2>1. << >> \in Injection(1 .. 0, {})
    BY DEF Injection, IsInjective
  <2>2. Ordered(<< >>, rank)
    BY DEF Ordered
  <2>3. Cardinality({}) = 0
    BY FS_EmptySet
  <2>4. InOrder({})
    BY <2>1, <2>2, <2>3
  <2> HIDE DEF InOrder
  <2> QED BY <2>4
<1>4. PICK x \in A : \A y \in A : rank[y] <= rank[x]
  <2> DEFINE f == [y \in A |-> rank[y]]
             ranks == {rank[y] : y \in A}
  <2>1. f \in Surjection(A, ranks)
    BY DEF Surjection
  <2>2. IsFiniteSet(ranks)
    BY <1>2, <2>1, FS_Surjection
  <2>3. ranks \in SUBSET Int /\ ranks # {}
    BY <1>3
  <2> HIDE DEF f
  <2>4. Max(ranks) \in ranks /\ \A r \in ranks : r <= Max(ranks)
    <3> HIDE DEF ranks
    <3> QED BY <2>2, <2>3, MaxOfFinite
  <2> QED BY <2>4
<1> DEFINE B == A \ {x}
           n == Cardinality(B)
<1>5. IsFiniteSet(B) /\ n \in Nat /\ Cardinality(A) = n + 1
  <2>1. IsFiniteSet(B) /\ Cardinality(B) = Cardinality(A) - 1 /\ Cardinality(A) \in Nat
    BY <1>2, <1>4, FS_RemoveElement, FS_CardinalityType
  <2>2. Cardinality(B) \in Nat
    BY <2>1, FS_CardinalityType
  <2> QED BY <2>1, <2>2
<1>6. PICK q \in Injection(1 .. n, B) : Ordered(q, rank)
  <2> HIDE DEF InOrder
  <2>1. InOrder(B)
    BY <1>1
  <2> USE DEF InOrder
  <2> QED BY <2>1
<1>7. q \in [1 .. n -> B] /\ \A i, k \in 1 .. n : q[i] = q[k] => i = k
  BY <1>6 DEF Injection, IsInjective
<1> DEFINE p == [i \in 1 .. n + 1 |-> IF i = n + 1 THEN x ELSE q[i]]
<1>8. \A i \in 1 .. n + 1 : i # n + 1 => i \in 1 .. n
  BY <1>5
<1>9. p \in Injection(1 .. n + 1, A)
  <2>1. p \in [1 .. n + 1 -> A]
    BY <1>7, <1>8
  <2>2. ASSUME NEW i \in 1 .. n + 1, NEW k \in 1 .. n + 1, p[i] = p[k] PROVE i = k
    <3>1. CASE i # n + 1 /\ k # n + 1
      BY <1>7, <1>8, <2>2, <3>1
    <3>2. \A j \in 1 .. n + 1 : j # n + 1 => p[j] # x
      BY <1>7, <1>8
    <3> QED BY <2>2, <3>1, <3>2
  <2> QED BY <2>1, <2>2 DEF Injection, IsInjective
<1>10. Ordered(p, rank)
  <2> SUFFICES ASSUME NEW i \in 1 .. n + 1, NEW k \in 1 .. n + 1, i < k
               PROVE  rank[p[i]] <= rank[p[k]]
    BY DEF Ordered
  <2>0. i # n + 1 /\ i \in 1 .. n
    <3> HIDE DEF n
    <3> QED BY <1>5
  <2>1. i # n + 1 /\ i \in 1 .. n /\ q[i] \in A
    BY <1>7, <2>0
  <2>2. CASE k = n + 1
    BY <1>4, <2>1, <2>2
  <2>3. CASE k # n + 1
    <3>1. k \in 1 .. n
      BY <1>8, <2>3
    <3> QED BY <1>6, <1>7, <2>1, <2>3, <3>1 DEF Ordered
  <2> QED BY <2>2, <2>3
<1> HIDE DEF p, n
<1> QED BY <1>5, <1>9, <1>10

=============================================================================
