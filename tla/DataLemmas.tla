---------------------------- MODULE DataLemmas ----------------------------
(***************************************************************************)
(* What the proofs of several modules rest on: induction, as the least     *)
(* counterexample, and what follows by it about the sums the models are    *)
(* written with; quotients and remainders; lists; trees of paths, what     *)
(* their files weigh, and what is left of them.                            *)
(***************************************************************************)
EXTENDS Integers, Sequences, FiniteSets, SequencesExt, FiniteSetsExt,
        WellFoundedInduction, FiniteSetTheorems, SequenceTheorems, TLAPS

(* A set of natural numbers has a least one. *)
LEMMA LeastNumber ==
  ASSUME NEW S, S \subseteq Nat, S # {}
  PROVE  \E n \in S : \A k \in S : n <= k
  <1>1. PICK n \in S : \A k \in S : <<k, n>> \notin OpToRel(<, Nat)
    BY NatLessThanWellFounded, WFMin, Zenon
  <1>2. \A k \in S : ~(k < n)
    BY <1>1 DEF OpToRel
  <1> QED
    BY <1>2

(* A set that holds zero and the successor of what it holds is Nat.        *)
LEMMA InductiveSet ==
  ASSUME NEW S, 0 \in S, \A n \in Nat : n \in S => n + 1 \in S
  PROVE  Nat \subseteq S
  <1> SUFFICES ASSUME Nat \ S # {} PROVE FALSE
    OBVIOUS
  <1>1. PICK n \in Nat \ S : \A k \in Nat \ S : n <= k
    BY LeastNumber
  <1>2. n - 1 \in Nat /\ n - 1 \notin Nat \ S
    BY <1>1
  <1> QED
    BY <1>1, <1>2

(* Of some subsets of a finite set there is one that has no other in it.   *)
LEMMA MinimalSet ==
  ASSUME NEW S, IsFiniteSet(S), NEW F, F \subseteq SUBSET S, F # {}
  PROVE  \E T \in F : \A U \in F : U \subseteq T => U = T
  <1>1. IsWellFoundedOn(StrictSubsetOrdering(S), SUBSET S)
    BY FS_StrictSubsetOrderingWellFounded, FS_FiniteSubsetsOfFinite
  <1>2. PICK T \in F : \A U \in F : ~(<<U, T>> \in StrictSubsetOrdering(S))
    BY <1>1, WFMin, Zenon
  <1> QED
    BY <1>2 DEF StrictSubsetOrdering

-----------------------------------------------------------------------------
(***************************************************************************)
(* Sums.  MapThenSumSet takes the elements of a set in an order of its     *)
(* own, and is a recursive function over the subsets.                      *)
(***************************************************************************)
SumOver(f, S) == MapThenSumSet(LAMBDA x : f[x], S)

Some(s) == CHOOSE x \in s : TRUE

(* g is that function, as far as the sets D. *)
Sums(f, D, g) == g = [s \in D |-> IF s = {} THEN 0 ELSE f[Some(s)] + g[s \ {Some(s)}]]

LEMMA SumIsChosen ==
  ASSUME NEW f, NEW S
  PROVE  SumOver(f, S) = (CHOOSE g : Sums(f, SUBSET S, g))[S]
  BY Zenon DEF SumOver, MapThenSumSet, MapThenFoldSet, Sums, Some

UpTo(S, n) == {s \in SUBSET S : Cardinality(s) <= n}

LEMMA SmallerSet ==
  ASSUME NEW S, IsFiniteSet(S), NEW n \in Nat, NEW s \in UpTo(S, n + 1), s # {}
  PROVE  s \ {Some(s)} \in UpTo(S, n) /\ Some(s) \in s
  <1>1. Some(s) \in s
    BY Zenon DEF Some
  <1>2. IsFiniteSet(s)
    BY FS_Subset DEF UpTo
  <1>3. Cardinality(s \ {Some(s)}) = Cardinality(s) - 1 /\ Cardinality(s) \in Nat
    BY <1>1, <1>2, FS_RemoveElement, FS_CardinalityType
  <1> QED
    BY <1>1, <1>3 DEF UpTo

LEMMA SumsUpTo ==
  ASSUME NEW f, NEW S, IsFiniteSet(S), NEW n \in Nat
  PROVE  \E g : Sums(f, UpTo(S, n), g)
  <1> DEFINE N == {k \in Nat : \E g : Sums(f, UpTo(S, k), g)}
  <1>1. 0 \in N
    <2>1. UpTo(S, 0) = {{}}
      <3>1. \A s \in SUBSET S : IsFiniteSet(s) /\ (Cardinality(s) <= 0 => s = {})
        BY FS_Subset, FS_EmptySet, FS_CardinalityType
      <3>2. Cardinality({}) = 0
        BY FS_EmptySet
      <3> QED
        BY <3>1, <3>2 DEF UpTo
    <2>2. Sums(f, {{}}, [s \in {{}} |-> 0])
      BY DEF Sums
    <2> QED
      BY <2>1, <2>2
  <1>2. ASSUME NEW k \in Nat, k \in N PROVE k + 1 \in N
    <2>1. PICK g : Sums(f, UpTo(S, k), g)
      BY <1>2
    <2> DEFINE h == [s \in UpTo(S, k + 1) |-> IF s = {} THEN 0 ELSE f[Some(s)] + g[s \ {Some(s)}]]
    <2>2. UpTo(S, k) \subseteq UpTo(S, k + 1)
      BY FS_Subset, FS_CardinalityType DEF UpTo
    <2>3. \A s \in UpTo(S, k) : h[s] = g[s]
      BY <2>1, <2>2 DEF Sums
    <2>4. \A s \in UpTo(S, k + 1) : s # {} => s \ {Some(s)} \in UpTo(S, k)
      BY SmallerSet
    <2>5. h = [s \in UpTo(S, k + 1) |-> IF s = {} THEN 0 ELSE f[Some(s)] + h[s \ {Some(s)}]]
      BY <2>3, <2>4
    <2>6. Sums(f, UpTo(S, k + 1), h)
      BY <2>5, Zenon DEF Sums
    <2> QED
      BY <2>6
  <1> HIDE DEF N
  <1>3. Nat \subseteq N
    BY <1>1, <1>2, InductiveSet
  <1> QED
    BY <1>3 DEF N

LEMMA SumsOn ==
  ASSUME NEW f, NEW S, IsFiniteSet(S)
  PROVE  \E g : Sums(f, SUBSET S, g) /\ SumOver(f, S) = g[S]
  <1>1. UpTo(S, Cardinality(S)) = SUBSET S
    BY FS_Subset DEF UpTo
  <1> DEFINE n == Cardinality(S)
  <1>2. n \in Nat
    BY FS_CardinalityType
  <1> HIDE DEF n
  <1>3. \E g : Sums(f, UpTo(S, n), g)
    BY <1>2, SumsUpTo
  <1> QED
    BY <1>1, <1>3, SumIsChosen, Zenon DEF n

LEMMA SumsAgree ==
  ASSUME NEW f, NEW S, NEW T, NEW g, NEW h,
         IsFiniteSet(S), T \subseteq S, Sums(f, SUBSET S, g), Sums(f, SUBSET T, h)
  PROVE  g[T] = h[T]
  <1> DEFINE F == {U \in SUBSET T : g[U] # h[U]}
  <1> SUFFICES ASSUME F # {} PROVE FALSE
    OBVIOUS
  <1>1. IsFiniteSet(T)
    BY FS_Subset
  <1>0. F \subseteq SUBSET T
    OBVIOUS
  <1> HIDE DEF F
  <1>2. PICK U \in F : \A V \in F : V \subseteq U => V = U
    BY <1>0, <1>1, MinimalSet
  <1> USE DEF F
  <1>3. U # {}
    BY <1>2 DEF Sums
  <1>4. Some(U) \in U
    BY <1>3, Zenon DEF Some
  <1>5. g[U \ {Some(U)}] = h[U \ {Some(U)}]
    BY <1>2, <1>4
  <1>6. g[U] = f[Some(U)] + g[U \ {Some(U)}] /\ h[U] = f[Some(U)] + h[U \ {Some(U)}]
    BY <1>2, <1>3 DEF Sums
  <1> QED
    BY <1>2, <1>5, <1>6

LEMMA SumOfNone ==
  ASSUME NEW f
  PROVE  SumOver(f, {}) = 0
  <1>1. PICK g : Sums(f, SUBSET {}, g) /\ SumOver(f, {}) = g[{}]
    BY SumsOn, FS_EmptySet
  <1> QED
    BY <1>1 DEF Sums

LEMMA SumUnfolds ==
  ASSUME NEW f, NEW S, IsFiniteSet(S), S # {}
  PROVE  /\ Some(S) \in S
         /\ SumOver(f, S) = f[Some(S)] + SumOver(f, S \ {Some(S)})
  <1> DEFINE T == S \ {Some(S)}
  <1>1. Some(S) \in S
    BY Zenon DEF Some
  <1>2. T \in SUBSET S
    OBVIOUS
  <1>3. PICK g : Sums(f, SUBSET S, g) /\ SumOver(f, S) = g[S]
    BY SumsOn
  <1>4. g[S] = f[Some(S)] + g[T]
    BY <1>3 DEF Sums
  <1> HIDE DEF T
  <1>5. IsFiniteSet(T)
    BY <1>2, FS_Subset
  <1>6. PICK h : Sums(f, SUBSET T, h) /\ SumOver(f, T) = h[T]
    BY <1>5, SumsOn
  <1>7. g[T] = h[T]
    <2>1. T \subseteq S
      BY <1>2
    <2>2. Sums(f, SUBSET S, g)
      BY <1>3
    <2>3. Sums(f, SUBSET T, h)
      BY <1>6
    <2> QED
      BY <2>1, <2>2, <2>3, SumsAgree, ZenonT(30)
  <1> QED
    BY <1>1, <1>3, <1>4, <1>6, <1>7 DEF T

LEMMA SumIsInt ==
  ASSUME NEW f, NEW S, IsFiniteSet(S), \A x \in S : f[x] \in Int
  PROVE  SumOver(f, S) \in Int
  <1> DEFINE F == {U \in SUBSET S : SumOver(f, U) \notin Int}
  <1> SUFFICES ASSUME F # {} PROVE FALSE
    OBVIOUS
  <1>0. F \subseteq SUBSET S
    OBVIOUS
  <1> HIDE DEF F
  <1>1. PICK U \in F : \A V \in F : V \subseteq U => V = U
    BY <1>0, MinimalSet
  <1> USE DEF F
  <1>2. IsFiniteSet(U) /\ U # {}
    <2>1. SumOver(f, {}) \in Int
      BY SumOfNone
    <2> QED
      BY <1>1, <2>1, FS_Subset
  <1>3. Some(U) \in U /\ SumOver(f, U) = f[Some(U)] + SumOver(f, U \ {Some(U)})
    BY <1>2, SumUnfolds
  <1>4. SumOver(f, U \ {Some(U)}) \in Int
    BY <1>1, <1>3
  <1> QED
    BY <1>1, <1>3, <1>4

(* Whichever element is taken out first. *)
LEMMA SumTakes ==
  ASSUME NEW f, NEW S, IsFiniteSet(S), \A x \in S : f[x] \in Int, NEW a \in S
  PROVE  SumOver(f, S) = f[a] + SumOver(f, S \ {a})
  <1> DEFINE F == {U \in SUBSET S : \E x \in U : SumOver(f, U) # f[x] + SumOver(f, U \ {x})}
  <1> SUFFICES ASSUME F # {} PROVE FALSE
    OBVIOUS
  <1>0. F \subseteq SUBSET S
    OBVIOUS
  <1> HIDE DEF F
  <1>1. PICK U \in F : \A V \in F : V \subseteq U => V = U
    BY <1>0, MinimalSet
  <1> USE DEF F
  <1>2. PICK x \in U : SumOver(f, U) # f[x] + SumOver(f, U \ {x})
    BY <1>1
  <1> DEFINE y == Some(U)
  <1>3. /\ IsFiniteSet(U) /\ y \in U /\ SumOver(f, U) = f[y] + SumOver(f, U \ {y})
    BY <1>2, FS_Subset, SumUnfolds
  <1> HIDE DEF y
  <1>4. x # y
    BY <1>2, <1>3
  <1>5. SumOver(f, U \ {y}) = f[x] + SumOver(f, (U \ {y}) \ {x})
    BY <1>1, <1>3, <1>4
  <1>6. SumOver(f, U \ {x}) = f[y] + SumOver(f, (U \ {x}) \ {y})
    BY <1>1, <1>2, <1>3, <1>4
  <1>7. (U \ {y}) \ {x} = (U \ {x}) \ {y}
    OBVIOUS
  <1>8. SumOver(f, (U \ {x}) \ {y}) \in Int
    <2>1. IsFiniteSet((U \ {x}) \ {y}) /\ \A z \in (U \ {x}) \ {y} : f[z] \in Int
      BY <1>3, FS_Subset
    <2> QED
      BY <2>1, SumIsInt
  <1>9. f[x] \in Int /\ f[y] \in Int
    BY <1>2, <1>3
  <1> HIDE DEF F
  <1> DEFINE r == SumOver(f, (U \ {x}) \ {y})
  <1>10. SumOver(f, U) = f[y] + (f[x] + r) /\ SumOver(f, U \ {x}) = f[y] + r
    BY <1>3, <1>5, <1>6, <1>7
  <1> HIDE DEF r
  <1>11. f[y] + (f[x] + r) = f[x] + (f[y] + r)
    BY <1>8, <1>9 DEF r
  <1> QED
    BY <1>2, <1>10, <1>11

LEMMA SumIsOfValues ==
  ASSUME NEW f, NEW g, NEW S, IsFiniteSet(S), \A x \in S : f[x] = g[x]
  PROVE  SumOver(f, S) = SumOver(g, S)
  <1> DEFINE F == {U \in SUBSET S : SumOver(f, U) # SumOver(g, U)}
  <1> SUFFICES ASSUME F # {} PROVE FALSE
    OBVIOUS
  <1>0. F \subseteq SUBSET S
    OBVIOUS
  <1> HIDE DEF F
  <1>1. PICK U \in F : \A V \in F : V \subseteq U => V = U
    BY <1>0, MinimalSet
  <1> USE DEF F
  <1>2. IsFiniteSet(U) /\ U # {}
    BY <1>1, FS_Subset, SumOfNone
  <1>3. /\ Some(U) \in U /\ SumOver(f, U) = f[Some(U)] + SumOver(f, U \ {Some(U)})
        /\ SumOver(g, U) = g[Some(U)] + SumOver(g, U \ {Some(U)})
    BY <1>2, SumUnfolds
  <1>4. SumOver(f, U \ {Some(U)}) = SumOver(g, U \ {Some(U)})
    BY <1>1, <1>3
  <1> QED
    BY <1>1, <1>3, <1>4

(* A list without repetitions is as long as the set of its elements.       *)
LEMMA LengthIsCardinality ==
  ASSUME NEW f, NEW n \in Nat, DOMAIN f = 1..n, IsInjective(f)
  PROVE  Cardinality({f[i] : i \in 1..n}) = n
  <1> DEFINE T == {f[i] : i \in 1..n}
             h == [i \in 1..n |-> f[i]]
  <1>1. h \in Bijection(1..n, T)
    BY DEF Bijection, Injection, Surjection, IsInjective
  <1> HIDE DEF h, T
  <1>2. ExistsBijection(1..n, T)
    BY <1>1 DEF ExistsBijection
  <1> QED
    BY <1>2, FS_CountingElements, Zenon DEF T

LEMMA ImageFinite ==
  ASSUME NEW S, IsFiniteSet(S), NEW f
  PROVE  IsFiniteSet({f[x] : x \in S})
  <1> DEFINE T == {f[x] : x \in S}
             h == [x \in S |-> f[x]]
  <1>1. h \in Surjection(S, T)
    BY DEF Surjection
  <1> HIDE DEF h, T
  <1> QED
    BY <1>1, FS_Surjection DEF T

(* Sums over sets that stand in a one-to-one relation.                     *)
LEMMA SumOfImages ==
  ASSUME NEW f, NEW S, IsFiniteSet(S), NEW g, NEW b,
         \A x \in S : f[x] \in Int /\ g[b[x]] = f[x],
         \A x, y \in S : b[x] = b[y] => x = y
  PROVE  SumOver(g, {b[x] : x \in S}) = SumOver(f, S)
  <1> DEFINE Image(U) == {b[x] : x \in U}
             F == {U \in SUBSET S : SumOver(g, Image(U)) # SumOver(f, U)}
  <1> SUFFICES ASSUME F # {} PROVE FALSE
    OBVIOUS
  <1>0. F \subseteq SUBSET S
    OBVIOUS
  <1> HIDE DEF F
  <1>1. PICK U \in F : \A V \in F : V \subseteq U => V = U
    BY <1>0, MinimalSet
  <1> USE DEF F
  <1>2. IsFiniteSet(U) /\ U \in SUBSET S
    BY <1>1, FS_Subset
  <1>3. U # {}
    <2>1. Image({}) = {}
      OBVIOUS
    <2> QED
      BY <1>1, <2>1, SumOfNone
  <1> DEFINE x == Some(U)
  <1>4. x \in U /\ SumOver(f, U) = f[x] + SumOver(f, U \ {x})
    BY <1>2, <1>3, SumUnfolds
  <1> HIDE DEF x
  <1>5. SumOver(g, Image(U \ {x})) = SumOver(f, U \ {x})
    BY <1>1, <1>2, <1>4
  <1>6. Image(U \ {x}) = Image(U) \ {b[x]} /\ b[x] \in Image(U)
    BY <1>2, <1>4
  <1>7. \A y \in Image(U) : g[y] \in Int
    BY <1>2
  <1>8. IsFiniteSet(Image(U))
    BY <1>2, ImageFinite
  <1>9. g[b[x]] = f[x]
    BY <1>2, <1>4
  <1>10. SumOver(g, Image(U)) # SumOver(f, U)
    BY <1>1
  <1> HIDE DEF F, Image
  <1>11. SumOver(g, Image(U)) = g[b[x]] + SumOver(g, Image(U) \ {b[x]})
    BY <1>6, <1>7, <1>8, SumTakes
  <1> QED
    BY <1>4, <1>5, <1>6, <1>9, <1>10, <1>11

LEMMA SumGrows ==
  ASSUME NEW f, NEW S, IsFiniteSet(S), \A x \in S : f[x] \in Nat, NEW T \in SUBSET S
  PROVE  SumOver(f, T) \in Nat /\ SumOver(f, S) \in Nat /\ SumOver(f, T) <= SumOver(f, S)
  <1> DEFINE F == {U \in SUBSET S : T \subseteq U /\ ~(SumOver(f, T) <= SumOver(f, U))}
             G == {U \in SUBSET S : SumOver(f, U) \notin Nat}
  <1>1. G = {}
    <2> SUFFICES ASSUME G # {} PROVE FALSE
      OBVIOUS
    <2>0. G \subseteq SUBSET S
      OBVIOUS
    <2> HIDE DEF F, G
    <2>1. PICK U \in G : \A V \in G : V \subseteq U => V = U
      BY <2>0, MinimalSet
    <2> USE DEF F, G
    <2>2. IsFiniteSet(U) /\ U # {}
      <3>1. SumOver(f, {}) \in Nat
        BY SumOfNone
      <3> QED
        BY <2>1, <3>1, FS_Subset
    <2>3. Some(U) \in U /\ SumOver(f, U) = f[Some(U)] + SumOver(f, U \ {Some(U)})
      BY <2>2, SumUnfolds
    <2>4. SumOver(f, U \ {Some(U)}) \in Nat /\ f[Some(U)] \in Nat
      BY <2>1, <2>3
    <2> QED
      BY <2>1, <2>3, <2>4
  <1>2. F = {}
    <2> SUFFICES ASSUME F # {} PROVE FALSE
      OBVIOUS
    <2>0. F \subseteq SUBSET S
      OBVIOUS
    <2> HIDE DEF F, G
    <2>1. PICK U \in F : \A V \in F : V \subseteq U => V = U
      BY <2>0, MinimalSet
    <2> USE DEF F, G
    <2>2. IsFiniteSet(U) /\ SumOver(f, T) \in Nat
      BY <1>1, <2>1, FS_Subset
    <2>3. PICK x \in U : x \notin T
      <3>1. SumOver(f, T) <= SumOver(f, T)
        BY <2>2
      <3>2. U # T /\ T \subseteq U
        BY <2>1, <3>1
      <3> QED
        BY <3>2
    <2>4. SumOver(f, U) = f[x] + SumOver(f, U \ {x})
      BY <2>1, <2>2, <2>3, SumTakes
    <2>5. SumOver(f, T) <= SumOver(f, U \ {x})
      BY <2>1, <2>3
    <2>6. SumOver(f, U \ {x}) \in Nat /\ f[x] \in Nat
      BY <1>1, <2>1, <2>3
    <2> HIDE DEF F, G
    <2>7. SumOver(f, T) <= SumOver(f, U)
      BY <2>2, <2>4, <2>5, <2>6
    <2> QED
      BY <2>1, <2>7 DEF F
  <1> QED
    BY <1>1, <1>2

(* A set of some of the first numbers has a greatest.                      *)
LEMMA GreatestNumber ==
  ASSUME NEW n \in Nat, NEW S, S \subseteq 1..n, S # {}
  PROVE  Max(S) \in S
  <1> DEFINE T == {n - k : k \in S}
  <1>1. T \subseteq Nat /\ T # {}
    <2>1. \A k \in S : n - k \in Nat
      OBVIOUS
    <2> QED
      BY <2>1
  <1> HIDE DEF T
  <1>2. PICK m \in T : \A k \in T : m <= k
    BY <1>1, LeastNumber
  <1>3. PICK x \in S : m = n - x
    BY DEF T
  <1>4. \A y \in S : n - x <= n - y
    BY <1>2, <1>3 DEF T
  <1>5. \A y \in S : x >= y
    BY <1>4
  <1>6. \E z \in S : \A y \in S : z >= y
    BY <1>5
  <1> QED
    BY <1>6, Zenon DEF Max

(* A sum of disjoint sets, and one over the rows of a table.               *)
LEMMA SumOfDisjoint ==
  ASSUME NEW f, NEW S, NEW T, IsFiniteSet(S), IsFiniteSet(T), S \cap T = {},
         \A x \in S \cup T : f[x] \in Int
  PROVE  SumOver(f, S \cup T) = SumOver(f, S) + SumOver(f, T)
  <1> DEFINE F == {U \in SUBSET T : SumOver(f, S \cup U) # SumOver(f, S) + SumOver(f, U)}
  <1> SUFFICES ASSUME F # {} PROVE FALSE
    OBVIOUS
  <1>0. F \subseteq SUBSET T
    OBVIOUS
  <1> HIDE DEF F
  <1>1. PICK U \in F : \A V \in F : V \subseteq U => V = U
    BY <1>0, MinimalSet
  <1>2. U \in SUBSET T /\ IsFiniteSet(U)
    BY <1>0, FS_Subset
  <1>3. SumOver(f, S) \in Int /\ \A V \in SUBSET T : SumOver(f, V) \in Int
    BY FS_Subset, SumIsInt
  <1>4. U # {}
    <2>1. S \cup {} = S
      OBVIOUS
    <2>2. SumOver(f, S \cup {}) = SumOver(f, S) + SumOver(f, {})
      BY <1>3, <2>1, SumOfNone
    <2> QED
      BY <2>2 DEF F
  <1>5. PICK x \in U : TRUE
    BY <1>4
  <1>6. SumOver(f, S \cup (U \ {x})) = SumOver(f, S) + SumOver(f, U \ {x})
    BY <1>1, <1>2, <1>5 DEF F
  <1>7. SumOver(f, U) = f[x] + SumOver(f, U \ {x})
    BY <1>2, <1>5, SumTakes
  <1> DEFINE Z == S \cup U
  <1>8. IsFiniteSet(Z) /\ x \in Z /\ \A z \in Z : f[z] \in Int
    BY <1>2, <1>5, FS_Union
  <1>9. Z \ {x} = S \cup (U \ {x})
    BY <1>2, <1>5
  <1> HIDE DEF Z
  <1>10. SumOver(f, Z) = f[x] + SumOver(f, Z \ {x})
    BY <1>8, SumTakes
  <1>11. f[x] \in Int /\ SumOver(f, U \ {x}) \in Int
    BY <1>2, <1>3, <1>5
  <1>12. SumOver(f, S \cup U) = SumOver(f, S) + SumOver(f, U)
    BY <1>3, <1>6, <1>7, <1>9, <1>10, <1>11 DEF Z
  <1> QED
    BY <1>1, <1>12 DEF F

Cells(P, n) == UNION {{i} \X P[i] : i \in 1..n}

LEMMA SumOfRows ==
  ASSUME NEW n \in Nat, NEW P, \A i \in 1..n : IsFiniteSet(P[i]),
         NEW w, \A c \in Cells(P, n) : w[c] \in Nat,
         NEW s, \A i \in 1..n : s[i] = SumOver([p \in P[i] |-> w[<<i, p>>]], P[i])
  PROVE  IsFiniteSet(Cells(P, n)) /\ SumOver(w, Cells(P, n)) = SumOver(s, 1..n)
  <1> DEFINE N == {k \in Nat : k <= n =>
                     /\ IsFiniteSet(Cells(P, k))
                     /\ SumOver(w, Cells(P, k)) = SumOver(s, 1..k)
                     /\ \A i \in 1..k : s[i] \in Int}
  <1>1. 0 \in N
    <2>1. Cells(P, 0) = {} /\ 1..0 = {}
      BY DEF Cells
    <2>2. IsFiniteSet({}) /\ SumOver(w, {}) = SumOver(s, {})
      BY SumOfNone, FS_EmptySet
    <2> QED
      BY <2>1, <2>2
  <1>2. ASSUME NEW k \in Nat, k \in N PROVE k + 1 \in N
    <2> SUFFICES ASSUME k + 1 <= n
                 PROVE  /\ IsFiniteSet(Cells(P, k + 1))
                        /\ SumOver(w, Cells(P, k + 1)) = SumOver(s, 1..(k + 1))
                        /\ \A i \in 1..(k + 1) : s[i] \in Int
      OBVIOUS
    <2>1. /\ k + 1 \in 1..n /\ k + 1 \notin 1..k /\ 1..(k + 1) = (1..k) \cup {k + 1}
          /\ 1..k \subseteq 1..n
      OBVIOUS
    <2>2. /\ IsFiniteSet(Cells(P, k)) /\ SumOver(w, Cells(P, k)) = SumOver(s, 1..k)
          /\ \A i \in 1..k : s[i] \in Int
      BY <1>2
    <2> HIDE DEF N
    <2> DEFINE j == k + 1
               Q == P[j]
               row == [p \in Q |-> w[<<j, p>>]]
               b == [p \in Q |-> <<j, p>>]
    <2>3. IsFiniteSet(Q) /\ \A p \in Q : <<j, p>> \in Cells(P, n)
      BY <2>1 DEF Cells
    <2>4. \A p \in Q : w[<<j, p>>] \in Nat
      BY <2>3
    <2>5. SumOver(row, Q) \in Int
      <3>1. \A p \in Q : row[p] \in Int
        BY <2>4
      <3> HIDE DEF row, Q
      <3> QED
        BY <2>3, <3>1, SumIsInt
    <2>6. {b[p] : p \in Q} = {j} \X Q
      <3>1. \A p \in Q : b[p] = <<j, p>>
        OBVIOUS
      <3> HIDE DEF b, j, Q
      <3>2. {b[p] : p \in Q} = {<<j, p>> : p \in Q}
        BY <3>1
      <3> QED
        BY <3>2
    <2>7. SumOver(w, {b[p] : p \in Q}) = SumOver(row, Q)
      <3>1. \A p \in Q : row[p] \in Int /\ w[b[p]] = row[p]
        BY <2>4
      <3>2. \A p, q \in Q : b[p] = b[q] => p = q
        OBVIOUS
      <3> HIDE DEF row, Q, b
      <3> QED
        BY <2>3, <3>1, <3>2, SumOfImages
    <2>8. IsFiniteSet({b[p] : p \in Q})
      <3> HIDE DEF Q, b
      <3> QED
        BY <2>3, ImageFinite
    <2>9. s[j] = SumOver(row, Q)
      BY <2>1
    <2>10. Cells(P, k + 1) = Cells(P, k) \cup ({j} \X Q)
      BY <2>1 DEF Cells
    <2>11. Cells(P, k) \cap ({j} \X Q) = {}
      BY <2>1 DEF Cells
    <2>12. Cells(P, k + 1) \subseteq Cells(P, n)
      BY <2>1 DEF Cells
    <2> DEFINE R == {j} \X Q
    <2>13. IsFiniteSet(R) /\ SumOver(w, R) = s[j]
      BY <2>6, <2>7, <2>8, <2>9
    <2>14. /\ Cells(P, k + 1) = Cells(P, k) \cup R /\ Cells(P, k) \cap R = {}
           /\ \A c \in Cells(P, k) \cup R : w[c] \in Int
      BY <2>10, <2>11, <2>12
    <2>15. s[j] \in Int
      BY <2>5, <2>9
    <2> HIDE DEF R, Q, row, b
    <2>16. SumOver(w, Cells(P, k + 1)) = SumOver(w, Cells(P, k)) + s[j]
      BY <2>2, <2>13, <2>14, SumOfDisjoint
    <2>17. IsFiniteSet(Cells(P, k + 1))
      <3>1. IsFiniteSet(Cells(P, k) \cup R)
        BY <2>2, <2>13, FS_Union
      <3> QED
        BY <2>14, <3>1, Zenon
    <2> DEFINE I == 1..(k + 1)
    <2>18. IsFiniteSet(I) /\ j \in I /\ I \ {j} = 1..k /\ \A i \in I : s[i] \in Int
      <3>1. IsFiniteSet(I)
        BY FS_Interval
      <3>2. j \in I /\ I \ {j} = 1..k
        BY <2>1
      <3>3. \A i \in I : i \in 1..k \/ i = j
        OBVIOUS
      <3> HIDE DEF I, j
      <3> QED
        BY <2>2, <2>15, <3>1, <3>2, <3>3
    <2> HIDE DEF I
    <2>19. SumOver(s, I) = s[j] + SumOver(s, 1..k)
      BY <2>18, SumTakes
    <2>20. SumOver(s, 1..k) \in Int
      <3>1. IsFiniteSet(1..k)
        BY FS_Interval
      <3> QED
        BY <2>2, <3>1, SumIsInt
    <2> QED
      BY <2>2, <2>15, <2>16, <2>17, <2>18, <2>19, <2>20 DEF I
  <1> HIDE DEF N
  <1>3. Nat \subseteq N
    BY <1>1, <1>2, InductiveSet
  <1> QED
    BY <1>3 DEF N

(* The parts that make up a set weigh no less than it, and no more if they *)
(* are apart.                                                              *)
LEMMA SumOfParts ==
  ASSUME NEW C, IsFiniteSet(C), NEW z, NEW G, IsFiniteSet(G), \A x \in G : z[x] \in Nat,
         NEW P, NEW w,
         \A c \in C : P[c] \subseteq G /\ w[c] \in Nat /\ SumOver(z, P[c]) <= w[c],
         \A x \in G : \E c \in C : x \in P[c]
  PROVE  /\ SumOver(z, G) \in Nat /\ SumOver(z, G) <= SumOver(w, C)
         /\ (\A c, d \in C : c # d => P[c] \cap P[d] = {}) /\ (\A c \in C : SumOver(z, P[c]) = w[c])
            => SumOver(z, G) = SumOver(w, C)
  <1> DEFINE U(B) == UNION {P[c] : c \in B}
             Apt == /\ \A c, d \in C : c # d => P[c] \cap P[d] = {}
                    /\ \A c \in C : SumOver(z, P[c]) = w[c]
             Good(B) == /\ SumOver(z, U(B)) <= SumOver(w, B)
                        /\ Apt => SumOver(z, U(B)) = SumOver(w, B)
             F == {B \in SUBSET C : ~Good(B)}
  <1>1. ASSUME NEW S, S \subseteq G
        PROVE  IsFiniteSet(S) /\ SumOver(z, S) \in Nat
    <2>1. IsFiniteSet(S) /\ \A x \in S : z[x] \in Nat
      BY <1>1, FS_Subset
    <2>2. S \in SUBSET S
      OBVIOUS
    <2> QED
      BY <2>1, <2>2, SumGrows
  <1>2. ASSUME NEW B, B \subseteq C
        PROVE  IsFiniteSet(B) /\ SumOver(w, B) \in Nat /\ U(B) \subseteq G
    <2>1. IsFiniteSet(B) /\ \A c \in B : w[c] \in Nat
      BY <1>2, FS_Subset
    <2>2. B \in SUBSET B
      OBVIOUS
    <2>3. SumOver(w, B) \in Nat
      BY <2>1, <2>2, SumGrows
    <2> QED
      BY <1>2, <2>1, <2>3
  <1>3. F = {}
    <2> SUFFICES ASSUME F # {} PROVE FALSE
      OBVIOUS
    <2>0. F \subseteq SUBSET C
      OBVIOUS
    <2>1. PICK B \in F : \A R \in F : R \subseteq B => R = B
      <3> HIDE DEF F
      <3> QED
        BY <2>0, MinimalSet
    <2>2. B \subseteq C /\ ~Good(B)
      OBVIOUS
    <2>3. CASE B = {}
      <3>1. U({}) = {}
        OBVIOUS
      <3>2. SumOver(z, {}) = 0 /\ SumOver(w, {}) = 0
        BY SumOfNone
      <3> HIDE DEF U
      <3> QED
        BY <2>2, <2>3, <3>1, <3>2
    <2>4. CASE B # {}
      <3>1. PICK c \in B : TRUE
        BY <2>4
      <3> DEFINE R == B \ {c}  V == U(R)  Q == P[c]
      <3>2. R \subseteq C /\ R # B /\ R \subseteq B
        BY <2>2
      <3>3. Good(R)
        BY <2>1, <3>2
      <3>4. U(B) = V \cup Q
        BY <3>1
      <3>5. c \in C /\ w[c] \in Nat /\ SumOver(z, Q) <= w[c] /\ Q \subseteq G
        BY <2>2
      <3>6. /\ IsFiniteSet(B) /\ \A x \in B : w[x] \in Int
        BY <1>2, <2>2
      <3>7. SumOver(w, B) = w[c] + SumOver(w, R)
        <4> HIDE DEF U, F, V, Q
        <4> QED
          BY <3>6, SumTakes
      <3>8. SumOver(w, R) \in Nat /\ V \subseteq G
        BY <1>2, <3>2
      <3> DEFINE X == V \ Q
      <3>9. /\ IsFiniteSet(X) /\ IsFiniteSet(V) /\ IsFiniteSet(Q)
            /\ SumOver(z, X) \in Nat /\ SumOver(z, V) \in Nat /\ SumOver(z, Q) \in Nat
        BY <1>1, <3>5, <3>8
      <3>10. X \in SUBSET V /\ X \cap Q = {} /\ X \cup Q = V \cup Q
        OBVIOUS
      <3>11. SumOver(z, X) <= SumOver(z, V)
        <4>1. \A x \in V : z[x] \in Nat
          BY <3>8
        <4> HIDE DEF U, F, V, Q, X
        <4> QED
          BY <3>9, <3>10, <4>1, SumGrows
      <3>12. SumOver(z, V \cup Q) = SumOver(z, X) + SumOver(z, Q)
        <4>1. \A x \in X \cup Q : z[x] \in Int
          BY <3>5, <3>8
        <4> HIDE DEF U, F, V, Q, X
        <4>2. SumOver(z, X \cup Q) = SumOver(z, X) + SumOver(z, Q)
          BY <3>9, <3>10, <4>1, SumOfDisjoint
        <4> QED
          BY <3>10, <4>2
      <3>13. Apt => X = V /\ SumOver(z, Q) = w[c]
        <4> SUFFICES ASSUME Apt PROVE X = V /\ SumOver(z, Q) = w[c]
          OBVIOUS
        <4>1. \A d \in R : P[d] \cap Q = {}
          BY <2>2, <3>1
        <4>2. V \cap Q = {}
          BY <4>1
        <4> QED
          BY <3>5, <4>2
      <3>14. SumOver(z, V) <= SumOver(w, R) /\ (Apt => SumOver(z, V) = SumOver(w, R))
        BY <3>3
      <3>15. Good(B)
        <4> DEFINE a == SumOver(z, V)  b == SumOver(z, X)  q == SumOver(z, Q)  r == SumOver(w, R)
        <4>1. /\ SumOver(z, U(B)) = b + q /\ SumOver(w, B) = w[c] + r
              /\ a \in Nat /\ b \in Nat /\ q \in Nat /\ r \in Nat /\ w[c] \in Nat
              /\ b <= a /\ a <= r /\ q <= w[c]
              /\ Apt => b = a /\ a = r /\ q = w[c]
          BY <3>4, <3>5, <3>7, <3>8, <3>9, <3>11, <3>12, <3>13, <3>14
        <4> HIDE DEF a, b, q, r, Apt, U, F, V, Q, X, R
        <4> QED
          BY <4>1
      <3> QED
        BY <2>2, <3>15
    <2> QED
      BY <2>3, <2>4
  <1>4. Good(C)
    <2>1. C \in SUBSET C
      OBVIOUS
    <2> HIDE DEF Good
    <2> QED
      BY <1>3, <2>1
  <1>5. SumOver(z, U(C)) \in Nat
    BY <1>1, <1>2
  <1>6. G = U(C)
    OBVIOUS
  <1> QED
    BY <1>4, <1>5, <1>6

(* A sum depends on what is added up only.                                 *)
LEMMA SumOfSame ==
  ASSUME NEW f, NEW g, NEW S, IsFiniteSet(S), \A x \in S : f[x] \in Int /\ g[x] = f[x]
  PROVE  SumOver(g, S) = SumOver(f, S)
  <1> DEFINE b == [x \in S |-> x]
  <1>1. \A x \in S : f[x] \in Int /\ g[b[x]] = f[x]
    OBVIOUS
  <1>2. \A x, y \in S : b[x] = b[y] => x = y
    OBVIOUS
  <1>3. {b[x] : x \in S} = S
    OBVIOUS
  <1> HIDE DEF b
  <1>4. SumOver(g, {b[x] : x \in S}) = SumOver(f, S)
    BY <1>1, <1>2, SumOfImages
  <1> QED
    BY <1>3, <1>4

-----------------------------------------------------------------------------
(***************************************************************************)
(* Quotients and remainders, and the periods of days they make.            *)
(***************************************************************************)
LEMMA DivMod ==
  ASSUME NEW d \in Nat \ {0}, NEW a \in Nat
  PROVE  a = d * (a \div d) + (a % d) /\ a % d \in 0..(d - 1) /\ a \div d \in Nat
  <1>1. a = d * (a \div d) + (a % d)
    OBVIOUS
  <1>2. a % d \in 0..(d - 1)
    OBVIOUS
  <1>3. a \div d \in Nat
    OBVIOUS
  <1> QED
    BY <1>1, <1>2, <1>3, Zenon

LEMMA ModUnique ==
  ASSUME NEW d \in Nat \ {0}, NEW q \in Nat, NEW r \in 0..(d - 1), NEW a \in Nat, a = d * q + r
  PROVE  a % d = r
  BY SMTT(30)

LEMMA Multiples ==
  ASSUME NEW d \in Nat, NEW p \in Nat, NEW q \in Nat, p < q
  PROVE  d * p + d <= d * q
  <1>1. PICK r \in Nat : q = p + 1 + r
    <2>1. q - p - 1 \in Nat /\ q = p + 1 + (q - p - 1)
      OBVIOUS
    <2> QED
      BY <2>1
  <1>2. d * q = d * p + d + d * r
    BY <1>1
  <1>3. d * r \in Nat /\ d * p \in Nat
    OBVIOUS
  <1> QED
    BY <1>2, <1>3

(* Days between two of one period are of that period.                      *)
LEMMA DivMonotone ==
  ASSUME NEW d \in Nat \ {0}, NEW a \in Nat, NEW b \in Nat, a <= b
  PROVE  a \div d <= b \div d
  <1> DEFINE p == a \div d  q == b \div d
  <1>1. /\ a = d * p + (a % d) /\ a % d \in 0..(d - 1) /\ p \in Nat
        /\ b = d * q + (b % d) /\ b % d \in 0..(d - 1) /\ q \in Nat
    BY DivMod
  <1> DEFINE r == a % d  s == b % d
  <1>2. r \in 0..(d - 1) /\ s \in 0..(d - 1) /\ a = d * p + r /\ b = d * q + s
    BY <1>1
  <1>3. p \in Nat /\ q \in Nat
    BY <1>1
  <1> HIDE DEF p, q, r, s
  <1>4. ASSUME q < p PROVE FALSE
    <2>1. d * q + d <= d * p
      BY <1>3, <1>4, Multiples
    <2> DEFINE x == d * q  y == d * p
    <2>2. x \in Nat /\ y \in Nat
      BY <1>3
    <2>3. x + d <= y /\ a = y + r /\ b = x + s
      BY <1>2, <2>1
    <2> HIDE DEF x, y
    <2> QED
      BY <1>2, <2>2, <2>3
  <1> QED
    BY <1>3, <1>4 DEF p, q

(* Periods of d days lie within those of n times as many.                  *)
LEMMA DivWithin ==
  ASSUME NEW d \in Nat \ {0}, NEW n \in Nat \ {0}, NEW a \in Nat, NEW b \in Nat,
         a \div d = b \div d
  PROVE  a \div (n * d) = b \div (n * d)
  <1> DEFINE y == n * d
  <1>1. y \in Nat \ {0}
    OBVIOUS
  <1>2. ASSUME NEW u \in Nat, NEW v \in Nat, u \div d = v \div d, u \div y < v \div y
        PROVE  FALSE
    <2> DEFINE p == u \div y  q == v \div y  k == n * q
    <2>1. /\ u = y * p + (u % y) /\ u % y \in 0..(y - 1) /\ p \in Nat
          /\ v = y * q + (v % y) /\ v % y \in 0..(y - 1) /\ q \in Nat
      BY <1>1, DivMod
    <2>2. p < q /\ k \in Nat
      BY <1>2, <2>1
    <2> HIDE DEF y, p, q
    <2>3. y * p + y <= y * q
      BY <1>1, <2>1, <2>2, Multiples
    <2>4. u < y * q /\ y * q <= v /\ y * q \in Nat
      <3> DEFINE x == y * p  z == y * q  r == u % y  s == v % y
      <3>1. x \in Nat /\ z \in Nat
        BY <1>1, <2>1
      <3>2. u = x + r /\ v = z + s /\ r \in 0..(y - 1) /\ s \in 0..(y - 1) /\ x + y <= z
        BY <2>1, <2>3
      <3> HIDE DEF x, z, r, s
      <3>3. u < z /\ z <= v
        BY <1>1, <3>1, <3>2
      <3> QED
        BY <3>1, <3>3 DEF z
    <2>5. y * q = d * k
      BY <2>1 DEF y
    <2> DEFINE e == u \div d
    <2>6. /\ u = d * e + (u % d) /\ u % d \in 0..(d - 1) /\ e \in Nat
          /\ v = d * e + (v % d) /\ v % d \in 0..(d - 1)
      BY <1>2, DivMod
    <2> HIDE DEF k, e
    <2>7. CASE e < k
      <3>1. d * e + d <= d * k
        BY <2>2, <2>6, <2>7, Multiples
      <3> DEFINE x == d * e  z == d * k  s == v % d
      <3>2. v = x + s /\ s \in 0..(d - 1) /\ x + d <= z /\ z <= v
        BY <2>4, <2>5, <2>6, <3>1
      <3>3. x \in Nat /\ z \in Nat
        BY <2>2, <2>6
      <3> HIDE DEF x, z, s
      <3> QED
        BY <3>2, <3>3
    <2>8. CASE k <= e
      <3>1. d * k <= d * e
        <4>1. CASE k = e
          BY <2>2, <4>1
        <4>2. CASE k < e
          <5>1. d * k + d <= d * e
            BY <2>2, <2>6, <4>2, Multiples
          <5>2. d * k \in Nat /\ d * e \in Nat
            BY <2>2, <2>6
          <5> QED
            BY <5>1, <5>2
        <4> QED
          BY <2>2, <2>6, <2>8, <4>1, <4>2
      <3> DEFINE x == d * e  z == d * k  r == u % d
      <3>2. u = x + r /\ r \in 0..(d - 1) /\ z <= x /\ u < z
        BY <2>4, <2>5, <2>6, <3>1
      <3>3. x \in Nat /\ z \in Nat
        BY <2>2, <2>6
      <3> HIDE DEF x, z, r
      <3> QED
        BY <3>2, <3>3
    <2> QED
      BY <2>2, <2>6, <2>7, <2>8
  <1>3. a \div y \in Nat /\ b \div y \in Nat
    BY <1>1, DivMod
  <1> HIDE DEF y
  <1>4. a \div y = b \div y
    BY <1>2, <1>3
  <1> QED
    BY <1>4 DEF y

-----------------------------------------------------------------------------
(***************************************************************************)
(* Lists, and lists of lists made into one.                                *)
(***************************************************************************)
(* What is in a list. *)
Elems(s) == {s[i] : i \in DOMAIN s}

(* A sequence, of whatever is in it. *)
IsList(s) == s \in Seq(Elems(s))

LEMMA ListDomain ==
  ASSUME NEW s, IsList(s)
  PROVE  Len(s) \in Nat /\ DOMAIN s = 1..Len(s) /\ s = [i \in 1..Len(s) |-> s[i]]
  <1> DEFINE S == Elems(s)
  <1>1. s \in Seq(S)
    BY DEF IsList
  <1> HIDE DEF S
  <1> QED
    BY <1>1

LEMMA ListOf ==
  ASSUME NEW S, NEW s \in Seq(S)
  PROVE  IsList(s)
  <1>1. Len(s) \in Nat /\ DOMAIN s = 1..Len(s) /\ s = [i \in 1..Len(s) |-> s[i]]
    OBVIOUS
  <1> DEFINE E == Elems(s)
  <1>2. \A i \in 1..Len(s) : s[i] \in E
    BY <1>1 DEF Elems
  <1> HIDE DEF E
  <1>3. s \in Seq(E)
    BY <1>1, <1>2
  <1> QED
    BY <1>3 DEF IsList, E

LEMMA ListByIndex ==
  ASSUME NEW n \in Nat, NEW s, DOMAIN s = 1..n, s = [i \in 1..n |-> s[i]]
  PROVE  IsList(s) /\ Len(s) = n
  <1> DEFINE E == Elems(s)
  <1>1. \A i \in 1..n : s[i] \in E
    BY DEF Elems
  <1> HIDE DEF E
  <1>2. s \in Seq(E)
    BY <1>1
  <1>3. IsList(s)
    BY <1>2, ListOf
  <1> QED
    BY <1>2, <1>3

(* Two lists put together hold what each holds.                            *)
LEMMA ListsJoined ==
  ASSUME NEW s, NEW t, IsList(s), IsList(t)
  PROVE  IsList(s \o t) /\ Elems(s \o t) = Elems(s) \cup Elems(t)
  <1> DEFINE S == Elems(s) \cup Elems(t)
  <1>1. s \in Seq(Elems(s)) /\ t \in Seq(Elems(t))
    BY DEF IsList
  <1>2. s \in Seq(S) /\ t \in Seq(S)
    <2> DEFINE A == Elems(s)  B == Elems(t)
    <2>1. s \in Seq(A) /\ t \in Seq(B)
      BY <1>1
    <2> HIDE DEF A, B
    <2>2. s \in Seq(A \cup B) /\ t \in Seq(A \cup B)
      BY <2>1
    <2> QED
      BY <2>2 DEF A, B
  <1> HIDE DEF S
  <1>3. s \o t \in Seq(S)
    BY <1>2
  <1>4. IsList(s \o t)
    BY <1>3, ListOf
  <1>5. PICK m \in Nat, n \in Nat : m = Len(s) /\ n = Len(t)
    BY <1>2
  <1>6. /\ DOMAIN s = 1..m /\ DOMAIN t = 1..n /\ DOMAIN (s \o t) = 1..(m + n)
        /\ \A i \in 1..m : (s \o t)[i] = s[i]
        /\ \A i \in 1..n : (s \o t)[m + i] = t[i]
    BY <1>2, <1>5
  <1> DEFINE r == s \o t
  <1>7. ASSUME NEW x \in Elems(r) PROVE x \in Elems(s) \cup Elems(t)
    <2>1. PICK i \in 1..(m + n) : x = r[i]
      BY <1>6 DEF Elems
    <2>2. CASE i \in 1..m
      BY <1>6, <2>1, <2>2 DEF Elems
    <2>3. CASE i \notin 1..m
      <3>1. i - m \in 1..n /\ m + (i - m) = i
        BY <2>1, <2>3
      <3>2. x = t[i - m]
        BY <1>6, <2>1, <3>1
      <3> QED
        BY <1>6, <3>1, <3>2 DEF Elems
    <2> QED
      BY <2>2, <2>3
  <1>8. ASSUME NEW x \in Elems(s) PROVE x \in Elems(r)
    <2>1. PICK i \in 1..m : x = s[i]
      BY <1>6 DEF Elems
    <2>2. i \in 1..(m + n) /\ x = r[i]
      BY <1>6, <2>1
    <2> QED
      BY <1>6, <2>2 DEF Elems
  <1>9. ASSUME NEW x \in Elems(t) PROVE x \in Elems(r)
    <2>1. PICK i \in 1..n : x = t[i]
      BY <1>6 DEF Elems
    <2>2. m + i \in 1..(m + n) /\ x = r[m + i]
      BY <1>6, <2>1
    <2> QED
      BY <1>6, <2>2 DEF Elems
  <1> HIDE DEF r
  <1>10. Elems(r) = Elems(s) \cup Elems(t)
    BY <1>7, <1>8, <1>9
  <1> QED
    BY <1>4, <1>10 DEF r

(* g is the function FlattenSeq is made of, as far as the numbers D.       *)
Flattening(ss, D, g) == g = [i \in D |-> IF i = 1 THEN ss[i] ELSE g[i - 1] \o ss[i]]

(* FlattenSeq takes the last value of such a function.                     *)
LEMMA FlatIsChosen ==
  ASSUME NEW ss, Len(ss) # 0
  PROVE  FlattenSeq(ss) = (CHOOSE g : Flattening(ss, 1..Len(ss), g))[Len(ss)]
  BY Zenon DEF FlattenSeq, Flattening

(* There is one for every number of lists.                                 *)
LEMMA FlatteningUpTo ==
  ASSUME NEW ss, NEW n \in Nat
  PROVE  \E g : Flattening(ss, 1..n, g)
  <1> DEFINE N == {k \in Nat : \E g : Flattening(ss, 1..k, g)}
  <1>1. 0 \in N
    <2> DEFINE h == [i \in {} |-> {}]
    <2>1. h = [i \in {} |-> IF i = 1 THEN ss[i] ELSE h[i - 1] \o ss[i]]
      OBVIOUS
    <2> HIDE DEF h
    <2>2. 1..0 = {}
      OBVIOUS
    <2>3. Flattening(ss, 1..0, h)
      BY <2>1, <2>2 DEF Flattening
    <2> QED
      BY <2>3
  <1>2. ASSUME NEW k \in Nat, k \in N PROVE k + 1 \in N
    <2>1. PICK g : Flattening(ss, 1..k, g)
      BY <1>2
    <2> DEFINE D == 1..(k + 1)
               h == [i \in D |-> IF i = 1 THEN ss[i] ELSE g[i - 1] \o ss[i]]
    <2>2. \A i \in 1..k : i \in D /\ h[i] = g[i]
      <3>1. \A i \in 1..k : i \in D
        OBVIOUS
      <3> HIDE DEF D
      <3>2. \A i \in D : h[i] = IF i = 1 THEN ss[i] ELSE g[i - 1] \o ss[i]
        BY Zenon
      <3>3. \A i \in 1..k : g[i] = IF i = 1 THEN ss[i] ELSE g[i - 1] \o ss[i]
        BY <2>1, Zenon DEF Flattening
      <3> HIDE DEF h
      <3> QED
        BY <3>1, <3>2, <3>3, Zenon
    <2>3. \A i \in D : i # 1 => i - 1 \in 1..k
      OBVIOUS
    <2> DEFINE f == [i \in D |-> IF i = 1 THEN ss[i] ELSE h[i - 1] \o ss[i]]
    <2>4. ASSUME NEW i \in D PROVE h[i] = f[i]
      <3>1. i # 1 => h[i - 1] = g[i - 1]
        BY <2>2, <2>3
      <3> HIDE DEF D
      <3> QED
        BY <3>1, Zenon
    <2>5. h = f
      <3> HIDE DEF D
      <3> QED
        BY <2>4
    <2>6. Flattening(ss, D, h)
      BY <2>5, Zenon DEF Flattening
    <2> HIDE DEF h
    <2> QED
      BY <2>6
  <1> HIDE DEF N
  <1>3. Nat \subseteq N
    BY <1>1, <1>2, InductiveSet
  <1> QED
    BY <1>3 DEF N

(* What is flattened is a list of all that was in the lists.               *)
LEMMA Flattened ==
  ASSUME NEW ss, IsList(ss), \A i \in DOMAIN ss : IsList(ss[i])
  PROVE  /\ IsList(FlattenSeq(ss))
         /\ Elems(FlattenSeq(ss)) = UNION {Elems(ss[i]) : i \in DOMAIN ss}
  <1>1. PICK n \in Nat : n = Len(ss) /\ DOMAIN ss = 1..n
    BY ListDomain
  <1>2. CASE n = 0
    <2>1. FlattenSeq(ss) = ss
      BY <1>1, <1>2, Zenon DEF FlattenSeq
    <2>2. DOMAIN ss = {}
      BY <1>1, <1>2
    <2> QED
      BY <2>1, <2>2 DEF Elems
  <1>3. CASE n # 0
    <2>1. PICK g : /\ Flattening(ss, 1..n, g)
                   /\ FlattenSeq(ss) = g[n]
      <3>1. \E g : Flattening(ss, 1..n, g)
        BY FlatteningUpTo
      <3> QED
        BY <1>1, <1>3, <3>1, FlatIsChosen, Zenon
    <2> DEFINE All(k) == UNION {Elems(ss[i]) : i \in 1..k}
               N == {k \in Nat : k \in 1..n => IsList(g[k]) /\ Elems(g[k]) = All(k)}
    <2>2. 0 \in N
      OBVIOUS
    <2>3. ASSUME NEW k \in Nat, k \in N, k + 1 \in 1..n
          PROVE  IsList(g[k + 1]) /\ Elems(g[k + 1]) = All(k + 1)
      <3>1. g[k + 1] = IF k + 1 = 1 THEN ss[k + 1] ELSE g[(k + 1) - 1] \o ss[k + 1]
        BY <2>1, <2>3, Zenon DEF Flattening
      <3>2. IsList(ss[k + 1])
        BY <1>1, <2>3
      <3>3. CASE k = 0
        <4>1. g[k + 1] = ss[k + 1] /\ 1..(k + 1) = {k + 1}
          BY <3>1, <3>3
        <4>2. All(k + 1) = Elems(ss[k + 1])
          BY <4>1
        <4> QED
          BY <3>2, <4>1, <4>2
      <3>4. CASE k # 0
        <4>1. k \in 1..n /\ g[k + 1] = g[k] \o ss[k + 1]
          <5>1. k \in 1..n /\ (k + 1) - 1 = k /\ k + 1 # 1
            BY <2>3, <3>4
          <5> QED
            BY <3>1, <5>1, Zenon
        <4>2. IsList(g[k]) /\ Elems(g[k]) = All(k)
          BY <2>3, <4>1
        <4>3. IsList(g[k + 1]) /\ Elems(g[k + 1]) = All(k) \cup Elems(ss[k + 1])
          BY <3>2, <4>1, <4>2, ListsJoined
        <4>4. 1..(k + 1) = (1..k) \cup {k + 1}
          BY <2>3
        <4>5. All(k + 1) = All(k) \cup Elems(ss[k + 1])
          BY <4>4
        <4> QED
          BY <4>3, <4>5
      <3> QED
        BY <3>3, <3>4
    <2>4. \A k \in Nat : k \in N => k + 1 \in N
      BY <2>3
    <2> HIDE DEF N
    <2>5. Nat \subseteq N
      BY <2>2, <2>4, InductiveSet
    <2>6. IsList(g[n]) /\ Elems(g[n]) = All(n)
      BY <1>3, <2>5 DEF N
    <2> QED
      BY <1>1, <2>1, <2>6
  <1> QED
    BY <1>2, <1>3

(* A path is a prefix of itself. *)
LEMMA ListIsPrefix ==
  ASSUME NEW p, IsList(p)
  PROVE  IsPrefix(p, p)
  <1>1. Len(p) \in Nat
    BY DEF IsList
  <1> QED
    BY <1>1 DEF IsPrefix

(* Two paths that a path lies in lie in one another.                       *)
LEMMA PrefixesMeet ==
  ASSUME NEW p, NEW q, NEW x, IsList(p), IsList(q), IsList(x), IsPrefix(p, x), IsPrefix(q, x)
  PROVE  p = q \/ IsStrictPrefix(p, q) \/ IsStrictPrefix(q, p)
  <1> DEFINE D == Elems(p) \cup Elems(q) \cup Elems(x)
  <1>1. p \in Seq(D) /\ q \in Seq(D) /\ x \in Seq(D)
    BY ListDomain DEF Elems
  <1> HIDE DEF D
  <1>2. /\ Len(p) \in Nat /\ Len(q) \in Nat /\ Len(x) \in Nat
        /\ Len(p) <= Len(x) /\ SubSeq(p, 1, Len(p)) = SubSeq(x, 1, Len(p))
        /\ Len(q) <= Len(x) /\ SubSeq(q, 1, Len(q)) = SubSeq(x, 1, Len(q))
    BY <1>1 DEF IsPrefix
  <1>3. /\ \A i \in 1..Len(p) : p[i] = x[i]
        /\ \A i \in 1..Len(q) : q[i] = x[i]
    <2>1. \A i \in 1..Len(p) : SubSeq(p, 1, Len(p))[i] = p[i] /\ SubSeq(x, 1, Len(p))[i] = x[i]
      BY <1>1, <1>2
    <2>2. \A i \in 1..Len(q) : SubSeq(q, 1, Len(q))[i] = q[i] /\ SubSeq(x, 1, Len(q))[i] = x[i]
      BY <1>1, <1>2
    <2> QED
      BY <1>2, <2>1, <2>2
  <1>4. ASSUME Len(p) <= Len(q) PROVE IsPrefix(p, q)
    <2>1. SubSeq(p, 1, Len(p)) = [i \in 1..Len(p) |-> p[i]]
      BY <1>1, <1>2
    <2>2. SubSeq(q, 1, Len(p)) = [i \in 1..Len(p) |-> q[i]]
      BY <1>1, <1>2, <1>4
    <2>3. \A i \in 1..Len(p) : p[i] = q[i]
      BY <1>2, <1>3, <1>4
    <2> QED
      BY <1>4, <2>1, <2>2, <2>3 DEF IsPrefix
  <1>5. ASSUME Len(q) <= Len(p) PROVE IsPrefix(q, p)
    <2>1. SubSeq(q, 1, Len(q)) = [i \in 1..Len(q) |-> q[i]]
      BY <1>1, <1>2
    <2>2. SubSeq(p, 1, Len(q)) = [i \in 1..Len(q) |-> p[i]]
      BY <1>1, <1>2, <1>5
    <2>3. \A i \in 1..Len(q) : p[i] = q[i]
      BY <1>2, <1>3, <1>5
    <2> QED
      BY <1>5, <2>1, <2>2, <2>3 DEF IsPrefix
  <1>6. Len(p) <= Len(q) \/ Len(q) <= Len(p)
    BY <1>2
  <1> QED
    BY <1>4, <1>5, <1>6, Zenon DEF IsStrictPrefix

-----------------------------------------------------------------------------
(***************************************************************************)
(* The books of one who takes files and directories away from a tree, of   *)
(* a list that was weighed before.                                         *)
(***************************************************************************)
(* The plain files of a tree. *)
FilesOf(T) == {p \in DOMAIN T : T[p].kind = "file"}

(* The files at p and below, and what they weigh. *)
FilesAt(p, T) == {q \in FilesOf(T) : IsPrefix(p, q)}

SizesIn(T) == [q \in DOMAIN T |-> T[q].size]

Load(p, T) == SumOver(SizesIn(T), FilesAt(p, T))

(* A finite tree of paths, in which what something lies in is a directory. *)
Tidy(T) ==
  /\ IsFiniteSet(DOMAIN T)
  /\ \A p \in DOMAIN T : IsList(p) /\ T[p].size \in Nat
  /\ \A p, q \in DOMAIN T : IsStrictPrefix(p, q) => T[p].kind = "dir"

LEMMA LoadIsNat ==
  ASSUME NEW T, Tidy(T), NEW S, S \subseteq FilesOf(T)
  PROVE  /\ IsFiniteSet(S) /\ \A q \in S : SizesIn(T)[q] \in Nat
         /\ SumOver(SizesIn(T), S) \in Nat
  <1>1. S \subseteq DOMAIN T
    BY DEF FilesOf
  <1>2. IsFiniteSet(S) /\ \A q \in S : SizesIn(T)[q] \in Nat
    BY <1>1, FS_Subset DEF SizesIn, Tidy
  <1>3. S \in SUBSET S
    OBVIOUS
  <1> QED
    BY <1>2, <1>3, SumGrows

(* Of a plain file it is its size, and of a link nothing.                  *)
LEMMA LoadOfFile ==
  ASSUME NEW T, Tidy(T), NEW p \in DOMAIN T, T[p].kind # "dir"
  PROVE  /\ T[p].kind = "file" => FilesAt(p, T) = {p} /\ Load(p, T) = T[p].size
         /\ T[p].kind # "file" => FilesAt(p, T) = {} /\ Load(p, T) = 0
  <1>1. ASSUME NEW q \in FilesAt(p, T) PROVE q = p
    <2>1. IsPrefix(p, q) /\ q \in DOMAIN T
      BY DEF FilesAt, FilesOf
    <2>2. ~IsStrictPrefix(p, q)
      BY <2>1 DEF Tidy
    <2> QED
      BY <2>1, <2>2, Zenon DEF IsStrictPrefix
  <1>2. IsPrefix(p, p)
    BY ListIsPrefix DEF Tidy
  <1>3. CASE T[p].kind = "file"
    <2>1. FilesAt(p, T) = {p}
      BY <1>1, <1>2, <1>3 DEF FilesAt, FilesOf
    <2> DEFINE S == FilesAt(p, T)
    <2>2. p \in S /\ S \ {p} = {}
      BY <2>1
    <2>3. IsFiniteSet(S) /\ \A q \in S : SizesIn(T)[q] \in Int
      BY LoadIsNat DEF FilesAt
    <2> HIDE DEF S
    <2>4. SumOver(SizesIn(T), S) = SizesIn(T)[p] + SumOver(SizesIn(T), S \ {p})
      BY <2>2, <2>3, SumTakes
    <2>5. SumOver(SizesIn(T), S \ {p}) = 0
      BY <2>2, SumOfNone
    <2>6. SizesIn(T)[p] = T[p].size /\ T[p].size \in Nat
      BY DEF SizesIn, Tidy
    <2> QED
      BY <1>3, <2>1, <2>4, <2>5, <2>6 DEF S, Load
  <1>4. CASE T[p].kind # "file"
    <2>1. FilesAt(p, T) = {}
      BY <1>1, <1>4 DEF FilesAt, FilesOf
    <2> QED
      BY <1>4, <2>1, SumOfNone DEF Load
  <1> QED
    BY <1>3, <1>4

NotALink(p, T) == p \in DOMAIN T => T[p].kind # "link"

(* A size that was looked up: that of all files at p and below, but that a *)
(* link, which is not erased, has a size too.                              *)
Fits(size, p, T) ==
  size \in Nat /\ size >= Load(p, T) /\ (NotALink(p, T) => size = Load(p, T))

(* The paths of a list, target by target. *)
CellsOf(list) == UNION {{i} \X list[i].paths : i \in DOMAIN list}

Listed(p, list) == \E c \in CellsOf(list) : c[2] = p

(* p is listed, or lies in what is. *)
Under(p, list) == \E c \in CellsOf(list) : IsPrefix(c[2], p)

PathsIn(E) == {e[1] : e \in E}

Within(T2, T) == DOMAIN T2 \subseteq DOMAIN T /\ \A p \in DOMAIN T2 : T2[p] = T[p]

(* T is what is left of S: all that is gone was erased by the run or by    *)
(* others, and nothing is left in a directory that is gone.                *)
Since(S, gone, others, T) ==
  /\ Tidy(S) /\ Within(T, S)
  /\ \A q \in DOMAIN S : q \in DOMAIN T \cup PathsIn(gone) \cup PathsIn(others)
  /\ \A p \in DOMAIN S, q \in DOMAIN T : IsPrefix(p, q) => p \in DOMAIN T

(* The others have erased nothing at p or below. *)
Apart(p, others) == \A e \in others : ~IsPrefix(p, e[1])

(* w gives each listed path its share of the total: the load it had when   *)
(* the report was made, or more.                                           *)
Weighing(w, list, total, others, S) ==
  /\ IsFiniteSet(CellsOf(list)) /\ total = SumOver(w, CellsOf(list))
  /\ \A c \in CellsOf(list) :
       /\ w[c] \in Nat /\ w[c] >= Load(c[2], S)
       /\ NotALink(c[2], S) /\ Apart(c[2], others) => w[c] = Load(c[2], S)

(* What was erased was there, was listed or lay in what is, and was erased *)
(* once.                                                                   *)
Taken(list, gone, S, T) ==
  /\ IsFiniteSet(gone)
  /\ \A e \in gone :
       /\ e[1] \in DOMAIN S /\ e[1] \notin DOMAIN T /\ e[2] = S[e[1]] /\ e[2].kind # "link"
       /\ Under(e[1], list)
  /\ \A e, f \in gone : e[1] = f[1] => e = f

Balanced(list, total, gone, others, T) ==
  \E S, w : /\ Since(S, gone, others, T)
            /\ Weighing(w, list, total, others, S)
            /\ Taken(list, gone, S, T)

(* The tree goes from T to T2; what goes is in E, nothing in it is left.   *)
Follows(T2, T, E) ==
  /\ Within(T2, T)
  /\ \A q \in DOMAIN T : q \in DOMAIN T2 \cup PathsIn(E)
  /\ \A p \in DOMAIN T, q \in DOMAIN T2 : IsPrefix(p, q) => p \in DOMAIN T2

LEMMA TidyWithin ==
  ASSUME NEW T, Tidy(T), NEW T2, Within(T2, T)
  PROVE  Tidy(T2)
  <1>1. IsFiniteSet(DOMAIN T2)
    BY FS_Subset DEF Tidy, Within
  <1> QED
    BY <1>1 DEF Tidy, Within

LEMMA SinceLater ==
  ASSUME NEW S, NEW gone, NEW others, NEW T, Since(S, gone, others, T),
         NEW gone2, NEW others2, gone \subseteq gone2, others \subseteq others2,
         NEW T2, Follows(T2, T, gone2 \cup others2)
  PROVE  Since(S, gone2, others2, T2)
  <1>1. Tidy(S) /\ Within(T2, S)
    BY DEF Since, Follows, Within
  <1>2. ASSUME NEW q \in DOMAIN S
        PROVE  q \in DOMAIN T2 \cup PathsIn(gone2) \cup PathsIn(others2)
    <2>1. q \in DOMAIN T \cup PathsIn(gone) \cup PathsIn(others)
      BY DEF Since
    <2>2. q \in DOMAIN T => q \in DOMAIN T2 \cup PathsIn(gone2 \cup others2)
      BY DEF Follows
    <2>3. PathsIn(gone) \subseteq PathsIn(gone2) /\ PathsIn(others) \subseteq PathsIn(others2)
      BY DEF PathsIn
    <2>4. PathsIn(gone2 \cup others2) \subseteq PathsIn(gone2) \cup PathsIn(others2)
      BY DEF PathsIn
    <2> QED
      BY <2>1, <2>2, <2>3, <2>4
  <1>3. ASSUME NEW p \in DOMAIN S, NEW q \in DOMAIN T2, IsPrefix(p, q) PROVE p \in DOMAIN T2
    <2>1. q \in DOMAIN T
      BY DEF Follows, Within
    <2>2. p \in DOMAIN T
      BY <1>3, <2>1 DEF Since
    <2> QED
      BY <1>3, <2>2 DEF Follows
  <1> QED
    BY <1>1, <1>2, <1>3 DEF Since

(* Others may erase from the tree. *)
LEMMA BalancedLater ==
  ASSUME NEW list, NEW total, NEW gone, NEW others, NEW T, Balanced(list, total, gone, others, T),
         NEW others2, others \subseteq others2, NEW T2, Follows(T2, T, others2)
  PROVE  Balanced(list, total, gone, others2, T2)
  <1>1. PICK S, w : /\ Since(S, gone, others, T) /\ Weighing(w, list, total, others, S)
                    /\ Taken(list, gone, S, T)
    BY DEF Balanced
  <1>2. Follows(T2, T, gone \cup others2)
    <2>1. PathsIn(others2) \subseteq PathsIn(gone \cup others2)
      BY DEF PathsIn
    <2> QED
      BY <2>1 DEF Follows
  <1>3. Since(S, gone, others2, T2)
    BY <1>1, <1>2, SinceLater
  <1>4. \A p : Apart(p, others2) => Apart(p, others)
    BY DEF Apart
  <1>5. Weighing(w, list, total, others2, S)
    BY <1>1, <1>4 DEF Weighing
  <1>6. Taken(list, gone, S, T2)
    BY <1>1 DEF Taken, Follows, Within
  <1> QED
    BY <1>3, <1>5, <1>6 DEF Balanced

(* The run erases a file, or removes a directory that is empty.            *)
LEMMA BalancedErased ==
  ASSUME NEW list, NEW total, NEW gone, NEW others, NEW T, Balanced(list, total, gone, others, T),
         NEW p \in DOMAIN T, T[p].kind # "link", Under(p, list),
         NEW gone2, gone2 = gone \cup {<<p, T[p]>>},
         NEW T2, Follows(T2, T, gone2), p \notin DOMAIN T2
  PROVE  Balanced(list, total, gone2, others, T2)
  <1> DEFINE n == <<p, T[p]>>
  <1>0. n[1] = p /\ n[2] = T[p] /\ gone2 = gone \cup {n}
    OBVIOUS
  <1> HIDE DEF n
  <1>1. PICK S, w : /\ Since(S, gone, others, T) /\ Weighing(w, list, total, others, S)
                    /\ Taken(list, gone, S, T)
    BY DEF Balanced
  <1>2. gone \subseteq gone2 /\ \A e \in gone2 : e \in gone \/ e = n
    BY <1>0
  <1>3. Since(S, gone2, others, T2)
    <2>1. Follows(T2, T, gone2 \cup others)
      <3>1. PathsIn(gone2) \subseteq PathsIn(gone2 \cup others)
        BY DEF PathsIn
      <3> QED
        BY <3>1 DEF Follows
    <2> QED
      BY <1>1, <1>2, <2>1, SinceLater
  <1>4. p \in DOMAIN S /\ S[p] = T[p] /\ DOMAIN T2 \subseteq DOMAIN T
    BY <1>1 DEF Since, Within, Follows
  <1>5. IsFiniteSet(gone2)
    BY <1>0, <1>1, FS_AddElement DEF Taken
  <1>6. ASSUME NEW e \in gone2
        PROVE  /\ e[1] \in DOMAIN S /\ e[1] \notin DOMAIN T2 /\ e[2] = S[e[1]] /\ e[2].kind # "link"
               /\ Under(e[1], list)
    <2>1. CASE e \in gone
      BY <1>1, <1>4, <2>1 DEF Taken
    <2>2. CASE e = n
      BY <1>0, <1>4, <2>2
    <2> QED
      BY <1>2, <2>1, <2>2
  <1>7. ASSUME NEW e \in gone2, NEW f \in gone2, e[1] = f[1] PROVE e = f
    <2>1. \A g \in gone : g[1] # p
      BY <1>1 DEF Taken
    <2>2. e \in gone /\ f \in gone => e = f
      BY <1>1, <1>7 DEF Taken
    <2> QED
      BY <1>0, <1>2, <1>7, <2>1, <2>2
  <1>8. Taken(list, gone2, S, T2)
    BY <1>5, <1>6, <1>7 DEF Taken
  <1> QED
    BY <1>1, <1>3, <1>8 DEF Balanced

OnceEach(list) == \A i, j \in DOMAIN list : i # j => list[i].paths \cap list[j].paths = {}

PathsOf(list) == UNION {list[i].paths : i \in DOMAIN list}

(* Listed once and apart, erased, and by the run alone. *)
ErasedAlone(list, gone, others) ==
  /\ OnceEach(list)
  /\ \A p, q \in PathsOf(list) : ~IsStrictPrefix(p, q)
  /\ PathsOf(list) \subseteq PathsIn(gone)
  /\ \A p \in PathsOf(list) : Apart(p, others)

(* Of what was erased at and below a listed path nothing is left.          *)
LEMMA ErasedWhole ==
  ASSUME NEW list, NEW gone, NEW others, NEW S, NEW T,
         Since(S, gone, others, T), Taken(list, gone, S, T),
         ErasedAlone(list, gone, others), NEW p \in PathsOf(list)
  PROVE  /\ p \in DOMAIN S /\ S[p].kind # "link"
         /\ \A q \in FilesAt(p, S) : \E e \in gone : e[1] = q /\ e[2] = S[q]
  <1>1. PICK e \in gone : e[1] = p
    BY DEF ErasedAlone, PathsIn
  <1>2. p \in DOMAIN S /\ p \notin DOMAIN T /\ S[p].kind # "link"
    BY <1>1 DEF Taken
  <1>3. ASSUME NEW q \in FilesAt(p, S) PROVE \E f \in gone : f[1] = q /\ f[2] = S[q]
    <2>1. q \in DOMAIN S /\ IsPrefix(p, q)
      BY DEF FilesAt, FilesOf
    <2>2. q \notin DOMAIN T
      BY <1>2, <2>1 DEF Since
    <2>3. q \notin PathsIn(others)
      BY <2>1 DEF ErasedAlone, Apart, PathsIn
    <2>4. q \in PathsIn(gone)
      BY <2>1, <2>2, <2>3 DEF Since
    <2>5. PICK f \in gone : f[1] = q
      BY <2>4 DEF PathsIn
    <2> QED
      BY <2>5 DEF Taken
  <1> QED
    BY <1>2, <1>3

(* The files that were erased come to no more than the total, and to the   *)
(* total if each path was listed once and apart and all are gone.          *)
LEMMA BalancedSum ==
  ASSUME NEW list, NEW total, NEW gone, NEW others, NEW T, Balanced(list, total, gone, others, T),
         NEW files, files = {e \in gone : e[2].kind = "file"},
         NEW z, \A e \in files : z[e] = e[2].size
  PROVE  /\ SumOver(z, files) \in Nat /\ SumOver(z, files) <= total
         /\ ErasedAlone(list, gone, others) => SumOver(z, files) = total
  <1>1. PICK S, w : /\ Since(S, gone, others, T) /\ Weighing(w, list, total, others, S)
                    /\ Taken(list, gone, S, T)
    BY DEF Balanced
  <1>2. Tidy(S)
    BY <1>1 DEF Since
  <1> DEFINE C == CellsOf(list)
             G == PathsIn(files)
             y == SizesIn(S)
             P == [c \in C |-> G \cap FilesAt(c[2], S)]
  <1>3. ASSUME NEW e \in files PROVE e[1] \in FilesOf(S) /\ e[2] = S[e[1]] /\ Under(e[1], list)
    BY <1>1 DEF Taken, FilesOf
  <1>4. G \subseteq FilesOf(S)
    BY <1>3 DEF PathsIn
  <1>5. IsFiniteSet(G) /\ (\A x \in G : y[x] \in Nat) /\ SumOver(y, G) \in Nat
    <2> HIDE DEF G
    <2> QED
      BY <1>2, <1>4, LoadIsNat
  <1>6. SumOver(y, G) = SumOver(z, files)
    <2> DEFINE b == [e \in files |-> e[1]]
    <2>1. IsFiniteSet(files)
      BY <1>1, FS_Subset DEF Taken
    <2>2. \A e \in files : z[e] \in Int /\ y[b[e]] = z[e]
      <3> SUFFICES ASSUME NEW e \in files PROVE z[e] \in Int /\ y[b[e]] = z[e]
        OBVIOUS
      <3>1. e[1] \in DOMAIN S /\ e[2] = S[e[1]]
        BY <1>3 DEF FilesOf
      <3> QED
        BY <1>2, <3>1 DEF SizesIn, Tidy
    <2>3. \A e, f \in files : b[e] = b[f] => e = f
      BY <1>1 DEF Taken
    <2>4. {b[e] : e \in files} = G
      BY DEF PathsIn
    <2> HIDE DEF b, y, G
    <2>5. SumOver(y, {b[e] : e \in files}) = SumOver(z, files)
      BY <2>1, <2>2, <2>3, SumOfImages
    <2> QED
      BY <2>4, <2>5
  <1>7. IsFiniteSet(C) /\ total = SumOver(w, C)
    BY <1>1 DEF Weighing
  <1>8. ASSUME NEW c \in C
        PROVE  /\ P[c] = G \cap FilesAt(c[2], S) /\ w[c] \in Nat
               /\ SumOver(y, P[c]) <= Load(c[2], S) /\ Load(c[2], S) <= w[c]
    <2>1. w[c] \in Nat /\ Load(c[2], S) <= w[c]
      BY <1>1 DEF Weighing, Load
    <2> DEFINE A == FilesAt(c[2], S)
    <2>2. IsFiniteSet(A) /\ \A q \in A : y[q] \in Nat
      BY <1>2, LoadIsNat DEF FilesAt
    <2>3. P[c] = G \cap A
      OBVIOUS
    <2> HIDE DEF A, G, P, y
    <2>4. G \cap A \in SUBSET A
      OBVIOUS
    <2>5. SumOver(y, G \cap A) <= SumOver(y, A)
      BY <2>2, <2>4, SumGrows
    <2> QED
      BY <2>1, <2>3, <2>5 DEF A, Load, y
  <1>9. \A c \in C : Load(c[2], S) \in Nat /\ SumOver(y, P[c]) \in Nat
    <2> SUFFICES ASSUME NEW c \in C PROVE Load(c[2], S) \in Nat /\ SumOver(y, P[c]) \in Nat
      OBVIOUS
    <2>1. FilesAt(c[2], S) \subseteq FilesOf(S) /\ P[c] \subseteq FilesOf(S)
      BY <1>8 DEF FilesAt
    <2> HIDE DEF P
    <2> QED
      BY <1>2, <2>1, LoadIsNat DEF Load
  <1>10. \A x \in G : \E c \in C : x \in P[c]
    <2> SUFFICES ASSUME NEW x \in G PROVE \E c \in C : x \in P[c]
      OBVIOUS
    <2>1. PICK e \in files : x = e[1]
      BY DEF PathsIn
    <2>2. PICK c \in C : IsPrefix(c[2], x)
      BY <1>3, <2>1 DEF Under
    <2>3. x \in FilesAt(c[2], S)
      BY <1>3, <2>1, <2>2 DEF FilesAt
    <2>4. x \in P[c]
      BY <1>8, <2>3
    <2> HIDE DEF P, G
    <2> QED
      BY <2>4
  <1>11. ASSUME ErasedAlone(list, gone, others)
         PROVE  /\ \A c, d \in C : c # d => P[c] \cap P[d] = {}
                /\ \A c \in C : SumOver(y, P[c]) = w[c]
    <2>1. ASSUME NEW c \in C
          PROVE  \E i \in DOMAIN list : c = <<i, c[2]>> /\ c[1] = i /\ c[2] \in list[i].paths /\ c[2] \in PathsOf(list)
      <3>1. PICK i, p : i \in DOMAIN list /\ p \in list[i].paths /\ c = <<i, p>>
        BY DEF CellsOf
      <3> QED
        BY <3>1 DEF PathsOf
    <2>2. ASSUME NEW c \in C PROVE SumOver(y, P[c]) = w[c]
      <3>1. c[2] \in PathsOf(list)
        BY <2>1
      <3>2. /\ c[2] \in DOMAIN S /\ S[c[2]].kind # "link"
            /\ \A q \in FilesAt(c[2], S) : \E e \in gone : e[1] = q /\ e[2] = S[q]
        BY <1>1, <1>11, <3>1, ErasedWhole
      <3>3. FilesAt(c[2], S) \subseteq G
        <4> SUFFICES ASSUME NEW q \in FilesAt(c[2], S) PROVE q \in G
          OBVIOUS
        <4>1. PICK e \in gone : e[1] = q /\ e[2] = S[q]
          BY <3>2
        <4>2. S[q].kind = "file"
          BY DEF FilesAt, FilesOf
        <4> QED
          BY <4>1, <4>2 DEF PathsIn
      <3>4. P[c] = FilesAt(c[2], S)
        <4> HIDE DEF P, G
        <4> QED
          BY <1>8, <3>3
      <3>5. Apart(c[2], others) /\ NotALink(c[2], S)
        BY <1>11, <3>1, <3>2 DEF ErasedAlone, NotALink
      <3>6. w[c] = Load(c[2], S)
        BY <1>1, <3>5 DEF Weighing
      <3> HIDE DEF P
      <3> QED
        BY <3>4, <3>6 DEF Load
    <2>3. ASSUME NEW c \in C, NEW d \in C, NEW x \in P[c], x \in P[d] PROVE c = d
      <3>1. c[2] \in PathsOf(list) /\ d[2] \in PathsOf(list)
        BY <2>1
      <3>2. c[2] \in DOMAIN S /\ d[2] \in DOMAIN S
        BY <1>1, <1>11, <3>1, ErasedWhole
      <3>3. x \in DOMAIN S /\ IsPrefix(c[2], x) /\ IsPrefix(d[2], x)
        <4>1. x \in FilesAt(c[2], S) /\ x \in FilesAt(d[2], S)
          BY <1>8, <2>3
        <4> HIDE DEF P
        <4> QED
          BY <4>1 DEF FilesAt, FilesOf
      <3>4. IsList(x) /\ IsList(c[2]) /\ IsList(d[2])
        BY <1>2, <3>2, <3>3 DEF Tidy
      <3>5. c[2] = d[2] \/ IsStrictPrefix(c[2], d[2]) \/ IsStrictPrefix(d[2], c[2])
        <4> HIDE DEF P, C
        <4> QED
          BY <3>3, <3>4, PrefixesMeet
      <3>6. c[2] = d[2]
        BY <1>11, <3>1, <3>5 DEF ErasedAlone
      <3>7. c[1] = d[1]
        BY <1>11, <2>1, <3>6 DEF ErasedAlone, OnceEach
      <3> HIDE DEF P, C
      <3> QED
        BY <2>1, <3>6, <3>7 DEF C
    <2> HIDE DEF P, C
    <2> QED
      BY <2>2, <2>3
  <1>12. \A c \in C : P[c] \subseteq G /\ w[c] \in Nat /\ SumOver(y, P[c]) <= w[c]
    <2> HIDE DEF P, C, G, y
    <2> QED
      BY <1>8, <1>9
  <1> HIDE DEF P, C, G, y
  <1>13. /\ SumOver(y, G) <= SumOver(w, C)
         /\ (\A c, d \in C : c # d => P[c] \cap P[d] = {}) /\ (\A c \in C : SumOver(y, P[c]) = w[c])
            => SumOver(y, G) = SumOver(w, C)
    BY <1>5, <1>7, <1>10, <1>12, SumOfParts
  <1> QED
    BY <1>5, <1>6, <1>7, <1>11, <1>13

(* What was sized when the list was made, and erased from by others since. *)
LEMMA FitsSince ==
  ASSUME NEW D, NEW others, NEW T, Since(D, {}, others, T), NEW p, NEW size, Fits(size, p, D)
  PROVE  /\ size \in Nat /\ size >= Load(p, T)
         /\ NotALink(p, T) /\ Apart(p, others) => size = Load(p, T)
  <1>1. Tidy(D) /\ Within(T, D) /\ PathsIn({}) = {}
    BY DEF Since, PathsIn
  <1> DEFINE A == FilesAt(p, T)  B == FilesAt(p, D)
  <1>2. A \in SUBSET B
    BY <1>1 DEF FilesAt, FilesOf, Within
  <1>3. IsFiniteSet(B) /\ \A q \in B : SizesIn(D)[q] \in Nat
    BY <1>1, LoadIsNat DEF FilesAt
  <1>4. IsFiniteSet(A) /\ \A q \in A : SizesIn(D)[q] \in Int /\ SizesIn(T)[q] = SizesIn(D)[q]
    <2>1. A \subseteq DOMAIN T
      BY DEF FilesAt, FilesOf
    <2>2. \A q \in A : SizesIn(T)[q] = SizesIn(D)[q]
      <3> HIDE DEF A
      <3> QED
        BY <1>1, <2>1 DEF SizesIn, Within
    <2> HIDE DEF A, B
    <2> QED
      BY <1>2, <1>3, <2>2, FS_Subset
  <1>5. SumOver(SizesIn(T), A) = SumOver(SizesIn(D), A)
    <2> HIDE DEF A
    <2> QED
      BY <1>4, SumOfSame
  <1>6. /\ SumOver(SizesIn(D), A) \in Nat /\ SumOver(SizesIn(D), B) \in Nat
        /\ SumOver(SizesIn(D), A) <= SumOver(SizesIn(D), B)
    <2> HIDE DEF A, B
    <2> QED
      BY <1>2, <1>3, SumGrows
  <1>7. ASSUME NotALink(p, T), Apart(p, others) PROVE A = B /\ NotALink(p, D)
    <2>1. ASSUME NEW q \in DOMAIN D, IsPrefix(p, q) PROVE q \in DOMAIN T /\ T[q] = D[q]
      <3>1. q \notin PathsIn(others)
        BY <1>7, <2>1 DEF Apart, PathsIn
      <3> QED
        BY <1>1, <3>1 DEF Since, Within
    <2>2. A = B
      BY <1>2, <2>1 DEF FilesAt, FilesOf
    <2>3. p \in DOMAIN D => IsPrefix(p, p)
      BY <1>1, ListIsPrefix DEF Tidy
    <2> QED
      BY <1>7, <2>1, <2>2, <2>3 DEF NotALink
  <1>8. size \in Nat /\ size >= SumOver(SizesIn(D), B) /\ (NotALink(p, D) => size = SumOver(SizesIn(D), B))
    BY DEF Fits, Load
  <1>9. Load(p, T) = SumOver(SizesIn(D), A)
    BY <1>5 DEF Load
  <1> HIDE DEF A, B
  <1> QED
    BY <1>6, <1>7, <1>8, <1>9

LEMMA SinceNow ==
  ASSUME NEW T, Tidy(T), NEW others
  PROVE  Since(T, {}, others, T)
  BY DEF Since, Within
=============================================================================
