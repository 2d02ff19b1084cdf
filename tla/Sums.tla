-------------------------------- MODULE Sums --------------------------------
(***************************************************************************)
(* What MapThenSumSet of the community modules sums up, and induction over *)
(* the naturals for a set of them: both are had from the well-founded      *)
(* order of the naturals, without a predicate as a parameter.              *)
(***************************************************************************)
EXTENDS Integers, FiniteSetsExt, FiniteSetTheorems, WellFoundedInduction, TLAPS

\* A set of naturals that has 0 and every successor of a member has them all: a
\* least natural that is missing would have a predecessor that is not.
LEMMA Induction ==
    ASSUME NEW S \in SUBSET Nat, 0 \in S, \A n \in S : n + 1 \in S
    PROVE  \A n \in Nat : n \in S
<1> DEFINE T == Nat \ S
           R == {ss \in Nat \X Nat : ss[1] < ss[2]}
<1>1. SUFFICES ASSUME T # {} PROVE FALSE
    OBVIOUS
<1>2. IsWellFoundedOn(R, Nat)
    BY NatLessThanWellFounded DEF OpToRel
<1>3. PICK x \in T : \A y \in T : ~(<<y, x>> \in R)
    <2>1. T \subseteq Nat
        OBVIOUS
    <2> HIDE DEF T, R
    <2> QED
        BY <1>1, <1>2, <2>1, WFMin
<1>4. x # 0 /\ x - 1 \in Nat /\ <<x - 1, x>> \in R
    OBVIOUS
<1>5. x - 1 \notin T
    BY <1>3, <1>4
<1> QED
    BY <1>4, <1>5

\* What MapThenSumSet chooses, a set at a time.
Pick(s) == CHOOSE x \in s : TRUE
IsSum(it, f, S) ==
    it = [s \in SUBSET S |-> IF s = {} THEN 0 ELSE f[Pick(s)] + it[s \ {Pick(s)}]]
SumOver(f, S) == MapThenSumSet(LAMBDA x : f[x], S)

\* A set that is not empty has the element it is unfolded at.
LEMMA PickIsIn == \A s : s # {} => Pick(s) \in s
BY DEF Pick

\* Without one of its elements a finite set has one fewer.
LEMMA Smaller ==
    ASSUME NEW s, IsFiniteSet(s), NEW x \in s, NEW n \in Nat, Cardinality(s) = n + 1
    PROVE  IsFiniteSet(s \ {x}) /\ Cardinality(s \ {x}) = n
BY FS_RemoveElement

\* The recursive function that a sum is defined by exists: by induction over
\* the cardinality of the subsets it is defined on.
LEMMA SumExists ==
    ASSUME NEW S, IsFiniteSet(S), NEW f, \A x \in S : f[x] \in Int
    PROVE  \E it \in [SUBSET S -> Int] : IsSum(it, f, S)
<1> DEFINE Up(n) == {s \in SUBSET S : Cardinality(s) <= n}
           Sums(n, it) == \A s \in Up(n) :
               it[s] = IF s = {} THEN 0 ELSE f[Pick(s)] + it[s \ {Pick(s)}]
           G == {n \in Nat : \E it \in [SUBSET S -> Int] : Sums(n, it)}
<1>0. \A s \in SUBSET S : IsFiniteSet(s) /\ Cardinality(s) \in Nat
                          /\ Cardinality(s) <= Cardinality(S) /\ Cardinality(S) \in Nat
    BY FS_Subset, FS_CardinalityType
<1>1. 0 \in G
    <2> DEFINE it == [s \in SUBSET S |-> 0]
    <2>1. \A s \in Up(0) : s = {}
        BY <1>0, FS_EmptySet
    <2>2. it \in [SUBSET S -> Int] /\ Sums(0, it)
        BY <2>1
    <2> QED
        BY <2>2
<1>2. ASSUME NEW n \in G
      PROVE  n + 1 \in G
    <2>1. PICK it \in [SUBSET S -> Int] : Sums(n, it)
        OBVIOUS
    <2> DEFINE new == [s \in SUBSET S |-> IF s \in Up(n) THEN it[s] ELSE f[Pick(s)] + it[s \ {Pick(s)}]]
    <2>2. \A s \in SUBSET S : s # {} => Pick(s) \in S /\ s \ {Pick(s)} \in SUBSET S
        BY PickIsIn
    <2>3. \A s \in SUBSET S : s \notin Up(n) => s # {}
        BY <1>0, FS_EmptySet
    <2>4. new \in [SUBSET S -> Int]
        BY <2>2, <2>3
    <2>5. \A s \in Up(n + 1) : s # {} => s \ {Pick(s)} \in Up(n)
        <3> SUFFICES ASSUME NEW s \in Up(n + 1), s # {} PROVE s \ {Pick(s)} \in Up(n)
            OBVIOUS
        <3>1. Cardinality(s \ {Pick(s)}) = Cardinality(s) - 1
            BY <1>0, PickIsIn, FS_RemoveElement
        <3> QED
            BY <1>0, <2>2, <3>1
    <2>6. Sums(n + 1, new)
        <3> SUFFICES ASSUME NEW s \in Up(n + 1)
                     PROVE  new[s] = IF s = {} THEN 0 ELSE f[Pick(s)] + new[s \ {Pick(s)}]
            OBVIOUS
        <3>1. CASE s \in Up(n)
            <4>1. s # {} => s \ {Pick(s)} \in Up(n)
                BY <2>5
            <4>2. new[s] = it[s] /\ (s # {} => new[s \ {Pick(s)}] = it[s \ {Pick(s)}])
                BY <3>1, <4>1
            <4>3. it[s] = IF s = {} THEN 0 ELSE f[Pick(s)] + it[s \ {Pick(s)}]
                BY <2>1, <3>1
            <4> QED
                BY <4>2, <4>3
        <3>2. CASE s \notin Up(n)
            <4>1. s # {} /\ s \ {Pick(s)} \in Up(n)
                BY <2>3, <2>5, <3>2
            <4>2. new[s] = f[Pick(s)] + it[s \ {Pick(s)}] /\ new[s \ {Pick(s)}] = it[s \ {Pick(s)}]
                BY <3>2, <4>1
            <4> QED
                BY <4>1, <4>2
        <3> QED
            BY <3>1, <3>2
    <2>7. n + 1 \in Nat
        OBVIOUS
    <2> HIDE DEF new, Sums
    <2> QED
        BY <2>4, <2>6, <2>7
<1>3. Cardinality(S) \in G
    <2> HIDE DEF G
    <2>1. G \in SUBSET Nat
        BY DEF G
    <2> QED
        BY <1>0, <1>1, <1>2, <2>1, Induction, FS_CardinalityType
<1>4. PICK it \in [SUBSET S -> Int] : Sums(Cardinality(S), it)
    BY <1>3
<1>5. \A s \in SUBSET S : it[s] = IF s = {} THEN 0 ELSE f[Pick(s)] + it[s \ {Pick(s)}]
    BY <1>0, <1>4
<1>6. IsSum(it, f, S)
    BY <1>5 DEF IsSum
<1> QED
    BY <1>6

\* Two such functions agree on every set on which their summands do.
LEMMA SumsAgree ==
    ASSUME NEW S, IsFiniteSet(S), NEW f, NEW g, NEW a, NEW b, NEW D,
           IsSum(a, f, S), IsSum(b, g, D),
           NEW E \in SUBSET S, E \subseteq D, \A x \in E : f[x] = g[x]
    PROVE  a[E] = b[E]
<1> DEFINE G == {n \in Nat : \A s \in SUBSET E : Cardinality(s) = n => a[s] = b[s]}
<1>0. \A s \in SUBSET E : /\ IsFiniteSet(s) /\ Cardinality(s) \in Nat
                          /\ s \in SUBSET S /\ s \in SUBSET D
    BY FS_Subset, FS_CardinalityType
<1>1. /\ \A s \in SUBSET E : a[s] = IF s = {} THEN 0 ELSE f[Pick(s)] + a[s \ {Pick(s)}]
      /\ \A s \in SUBSET E : b[s] = IF s = {} THEN 0 ELSE g[Pick(s)] + b[s \ {Pick(s)}]
    BY <1>0 DEF IsSum
<1>2. 0 \in G
    BY <1>0, <1>1, FS_EmptySet
<1>3. ASSUME NEW n \in G
      PROVE  n + 1 \in G
    <2> SUFFICES ASSUME NEW s \in SUBSET E, Cardinality(s) = n + 1 PROVE a[s] = b[s]
        OBVIOUS
    <2>1. s # {}
        <3>1. n + 1 # 0 /\ Cardinality({}) = 0
            BY FS_EmptySet
        <3> QED
            BY <3>1, Zenon
    <2>2. Pick(s) \in s /\ s \ {Pick(s)} \in SUBSET E
        BY <2>1, PickIsIn
    <2>3. Cardinality(s \ {Pick(s)}) = n
        BY <1>0, <2>2, Smaller
    <2>4. a[s \ {Pick(s)}] = b[s \ {Pick(s)}]
        BY <2>2, <2>3
    <2>5. f[Pick(s)] = g[Pick(s)]
        BY <2>2
    <2> QED
        BY <1>1, <2>1, <2>4, <2>5
<1>4. Cardinality(E) \in G
    <2> HIDE DEF G
    <2>1. G \in SUBSET Nat
        BY DEF G
    <2> QED
        BY <1>0, <1>2, <1>3, <2>1, Induction
<1> QED
    BY <1>4

\* A sum is the value of that function at the whole set.
LEMMA SumUnfolds ==
    ASSUME NEW S, IsFiniteSet(S), NEW f, \A x \in S : f[x] \in Int
    PROVE  \E it \in [SUBSET S -> Int] : IsSum(it, f, S) /\ SumOver(f, S) = it[S]
<1> DEFINE it == CHOOSE it : it = [s \in SUBSET S |-> IF s = {} THEN 0
                                      ELSE f[Pick(s)] + it[s \ {Pick(s)}]]
<1>1. SumOver(f, S) = it[S]
    BY DEF SumOver, MapThenSumSet, MapThenFoldSet, Pick
<1>2. PICK a \in [SUBSET S -> Int] : IsSum(a, f, S)
    BY SumExists
<1>3. IsSum(it, f, S)
    BY <1>2 DEF IsSum
<1>4. \A s \in SUBSET S : s \in SUBSET S => it[s] = a[s]
    <2> HIDE DEF it
    <2> SUFFICES ASSUME NEW s \in SUBSET S PROVE it[s] = a[s]
        OBVIOUS
    <2> QED
        BY <1>2, <1>3, SumsAgree
<1>5. it \in [SUBSET S -> Int]
    <2>1. it = [s \in SUBSET S |-> IF s = {} THEN 0 ELSE f[Pick(s)] + it[s \ {Pick(s)}]]
        BY <1>3 DEF IsSum
    <2> HIDE DEF it
    <2>2. \A s \in SUBSET S : it[s] \in Int
        BY <1>2, <1>4
    <2> QED
        BY <2>1, <2>2
<1> HIDE DEF it
<1> QED
    BY <1>1, <1>3, <1>5

\* A sum may be unfolded at any element, whichever the definition picks.
LEMMA SumAdds ==
    ASSUME NEW S, IsFiniteSet(S), NEW f, \A x \in S : f[x] \in Int, NEW y \in S
    PROVE  /\ SumOver(f, S) = SumOver(f, S \ {y}) + f[y]
           /\ SumOver(f, S) \in Int /\ SumOver(f, S \ {y}) \in Int
<1>1. PICK it \in [SUBSET S -> Int] : IsSum(it, f, S) /\ SumOver(f, S) = it[S]
    BY SumUnfolds
<1>2. IsFiniteSet(S \ {y}) /\ \A x \in S \ {y} : f[x] \in Int
    BY FS_RemoveElement
<1>3. PICK less \in [SUBSET (S \ {y}) -> Int] :
         IsSum(less, f, S \ {y}) /\ SumOver(f, S \ {y}) = less[S \ {y}]
    BY <1>2, SumUnfolds
<1>4. less[S \ {y}] = it[S \ {y}]
    BY <1>1, <1>2, <1>3, SumsAgree
<1> DEFINE G == {n \in Nat : \A s \in SUBSET S : Cardinality(s) = n =>
                              \A x \in s : it[s] = it[s \ {x}] + f[x]}
<1>5. \A s \in SUBSET S : IsFiniteSet(s) /\ Cardinality(s) \in Nat
    BY FS_Subset, FS_CardinalityType
<1>6. \A s \in SUBSET S : it[s] = IF s = {} THEN 0 ELSE f[Pick(s)] + it[s \ {Pick(s)}]
    BY <1>1 DEF IsSum
<1>7. 0 \in G
    <2>1. \A s \in SUBSET S : Cardinality(s) = 0 => s = {}
        BY <1>5, FS_EmptySet
    <2> QED
        BY <2>1
<1>8. ASSUME NEW n \in G
      PROVE  n + 1 \in G
    <2> SUFFICES ASSUME NEW s \in SUBSET S, Cardinality(s) = n + 1, NEW x \in s
                 PROVE  it[s] = it[s \ {x}] + f[x]
        OBVIOUS
    <2> DEFINE p == Pick(s)
    <2>1. p \in s /\ it[s] = f[p] + it[s \ {p}]
        BY <1>6, PickIsIn
    <2>2. /\ s \ {p} \in SUBSET S /\ s \ {x} \in SUBSET S /\ (s \ {p}) \ {x} \in SUBSET S
          /\ (s \ {p}) \ {x} = (s \ {x}) \ {p}
        OBVIOUS
    <2>3. Cardinality(s \ {p}) = n /\ Cardinality(s \ {x}) = n
        BY <1>5, <2>1, Smaller
    <2> HIDE DEF p
    <2>4. f[p] \in Int /\ f[x] \in Int /\ it[s \ {p}] \in Int /\ it[(s \ {p}) \ {x}] \in Int
        BY <2>1, <2>2
    <2>5. CASE x = p
        BY <2>1, <2>4, <2>5
    <2>6. CASE x # p
        <3>1. it[s \ {p}] = it[(s \ {p}) \ {x}] + f[x]
            BY <2>2, <2>3, <2>6
        <3>2. it[s \ {x}] = it[(s \ {x}) \ {p}] + f[p]
            BY <2>1, <2>2, <2>3, <2>6
        <3>3. it[(s \ {x}) \ {p}] = it[(s \ {p}) \ {x}]
            BY <2>2, Zenon
        <3> QED
            BY <2>1, <2>4, <3>1, <3>2, <3>3
    <2> QED
        BY <2>5, <2>6
<1>9. Cardinality(S) \in G
    <2> HIDE DEF G
    <2>1. G \in SUBSET Nat
        BY DEF G
    <2> QED
        BY <1>5, <1>7, <1>8, <2>1, Induction
<1>10. it[S] = it[S \ {y}] + f[y]
    BY <1>9
<1> QED
    BY <1>1, <1>3, <1>4, <1>10

\* Nothing sums up to 0.
LEMMA SumEmpty == \A f : SumOver(f, {}) = 0
<1> SUFFICES ASSUME NEW f PROVE SumOver(f, {}) = 0
    OBVIOUS
<1>1. PICK it \in [SUBSET {} -> Int] : IsSum(it, f, {}) /\ SumOver(f, {}) = it[{}]
    BY SumUnfolds, FS_EmptySet
<1> QED
    BY <1>1 DEF IsSum

\* Sums over the same set of the same summands are the same.
LEMMA SumSame ==
    ASSUME NEW S, IsFiniteSet(S), NEW f, NEW g, \A x \in S : f[x] \in Int /\ g[x] = f[x]
    PROVE  SumOver(f, S) = SumOver(g, S)
<1>1. PICK a \in [SUBSET S -> Int] : IsSum(a, f, S) /\ SumOver(f, S) = a[S]
    BY SumUnfolds
<1>2. PICK b \in [SUBSET S -> Int] : IsSum(b, g, S) /\ SumOver(g, S) = b[S]
    BY SumUnfolds
<1> QED
    BY <1>1, <1>2, SumsAgree
=============================================================================
