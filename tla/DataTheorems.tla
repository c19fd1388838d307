---------------------------- MODULE DataTheorems ----------------------------
(***************************************************************************)
(* What the sums of the community modules compute over finite sets: the    *)
(* laws behind every total of the project (token balances, amounts in      *)
(* flight, stakes), and what Lists leaves of a list that is filtered or    *)
(* sorted.                                                                 *)
(*                                                                         *)
(* SumFunctionOnSet and MapThenSumSet are folds: a recursive function over *)
(* the subsets of a set, which picks one element at a time with CHOOSE.    *)
(* That such a function exists, and that the order of the picks does not   *)
(* matter, is shown by the smallest counterexample (WFMin), because the    *)
(* induction theorems of the library take an operator as a parameter.      *)
(***************************************************************************)
EXTENDS Integers, Functions, FiniteSetsExt, Lists, FiniteSetTheorems, WellFoundedInduction, TLAPS

(* The element a fold picks from a set. *)
Chosen(s) == CHOOSE x \in s : TRUE

(* One level of the fold: the sum of s when iter holds the smaller sums. *)
Level(f, iter, s) == IF s = {} THEN 0 ELSE f[Chosen(s)] + iter[s \ {Chosen(s)}]

(* The recursive function a fold over S applies to S. *)
FoldOver(f, S) == CHOOSE iter : iter = [s \in SUBSET S |-> Level(f, iter, s)]

(* SumFunctionOnSet, with the operators it is built from expanded. *)
LEMMA SumIsFold == \A f, S : SumFunctionOnSet(f, S) = FoldOver(f, S)[S]
BY DEF SumFunctionOnSet, FoldFunctionOnSet, MapThenFoldSet, FoldOver, Level, Chosen

(* A set of naturals has a smallest element. *)
LEMMA NatMin ==
  ASSUME NEW T \in SUBSET Nat, T # {}
  PROVE  \E n \in T : \A k \in T : n <= k
<1>1. PICK n \in T : \A k \in T : ~(<<k, n>> \in OpToRel(<, Nat))
  BY NatLessThanWellFounded, WFMin
<1>2. \A k \in T : ~(k < n)
  BY <1>1 DEF OpToRel
<1> QED
  BY <1>2

(* The recursion is well defined: for every n there is a function that     *)
(* satisfies it on the subsets of at most n elements.                      *)
LEMMA FoldDefined ==
  ASSUME NEW S, IsFiniteSet(S), NEW f
  PROVE  FoldOver(f, S) = [s \in SUBSET S |-> Level(f, FoldOver(f, S), s)]
<1> DEFINE good(g, n) == /\ g = [s \in SUBSET S |-> g[s]]
                         /\ \A s \in SUBSET S : Cardinality(s) <= n => g[s] = Level(f, g, s)
           Bad == {n \in Nat : ~\E g : good(g, n)}
<1>0. \A s \in SUBSET S : IsFiniteSet(s) /\ Cardinality(s) \in Nat
                          /\ Cardinality(s) <= Cardinality(S)
  BY FS_Subset, FS_CardinalityType
<1>1. \E g : good(g, 0)
  <2> DEFINE g == [s \in SUBSET S |-> 0]
  <2>1. \A s \in SUBSET S : Cardinality(s) <= 0 => s = {}
    BY <1>0, FS_EmptySet
  <2>2. good(g, 0)
    BY <2>1 DEF Level
  <2> QED
    BY <2>2
<1>2. ASSUME NEW n \in Nat, NEW g, good(g, n)
      PROVE  good([s \in SUBSET S |-> Level(f, g, s)], n + 1)
  <2> DEFINE h == [s \in SUBSET S |-> Level(f, g, s)]
  <2> SUFFICES ASSUME NEW s \in SUBSET S, Cardinality(s) <= n + 1
               PROVE  h[s] = Level(f, h, s)
    OBVIOUS
  <2>1. CASE s = {}
    BY <2>1 DEF Level
  <2>2. CASE s # {}
    <3> DEFINE c == Chosen(s)
    <3>1. c \in s
      BY <2>2 DEF Chosen
    <3>2. s \ {c} \in SUBSET S /\ Cardinality(s \ {c}) <= n
      BY <1>0, <3>1, FS_RemoveElement
    <3>3. h[s \ {c}] = g[s \ {c}]
      BY <1>2, <3>2
    <3> QED
      BY <3>3 DEF Level
  <2> QED
    BY <2>1, <2>2
<1>3. Bad = {}
  <2> SUFFICES ASSUME Bad # {} PROVE FALSE
    OBVIOUS
  <2>1. PICK n \in Bad : \A k \in Bad : n <= k
    BY NatMin
  <2>2. n # 0
    BY <1>1
  <2>3. n - 1 \in Nat /\ n - 1 \notin Bad
    <3>1. n \in Nat
      OBVIOUS
    <3> HIDE DEF Bad
    <3> QED
      BY <2>1, <2>2, <3>1
  <2>4. PICK g : good(g, n - 1)
    BY <2>3
  <2>5. good([s \in SUBSET S |-> Level(f, g, s)], (n - 1) + 1)
    <3> HIDE DEF good
    <3> QED
      BY <1>2, <2>3, <2>4
  <2>6. (n - 1) + 1 = n
    OBVIOUS
  <2> QED
    BY <2>5, <2>6
<1>4. PICK g : good(g, Cardinality(S))
  BY <1>0, <1>3
<1>5. g = [s \in SUBSET S |-> Level(f, g, s)]
  BY <1>0, <1>4
<1> QED
  BY <1>5 DEF FoldOver

(* One level of a sum over a finite set, with the element the fold picks. *)
LEMMA FoldLevel ==
  ASSUME NEW S, IsFiniteSet(S), NEW f, NEW s \in SUBSET S
  PROVE  /\ s = {} => FoldOver(f, S)[s] = 0
         /\ s # {} => /\ Chosen(s) \in s
                      /\ FoldOver(f, S)[s] = f[Chosen(s)] + FoldOver(f, S)[s \ {Chosen(s)}]
<1>1. FoldOver(f, S)[s] = Level(f, FoldOver(f, S), s)
  <2> DEFINE g == FoldOver(f, S)
  <2>1. g = [t \in SUBSET S |-> Level(f, g, t)]
    BY FoldDefined
  <2> HIDE DEF g
  <2>2. g[s] = Level(f, g, s)
    BY <2>1
  <2> QED
    BY <2>2 DEF g
<1>2. s # {} => Chosen(s) \in s
  BY DEF Chosen
<1> QED
  BY <1>1, <1>2 DEF Level

(* Among the subsets of a finite set with some property, one has no smaller one. *)
LEMMA SmallestSubset ==
  ASSUME NEW S, IsFiniteSet(S), NEW T \in SUBSET (SUBSET S), T # {}
  PROVE  \E s \in T : \A t \in T : ~(t \subseteq s /\ t # s)
<1>1. \A s \in SUBSET S : IsFiniteSet(s)
  BY FS_Subset
<1>2. T \subseteq FiniteSubsetsOf(S)
  BY <1>1 DEF FiniteSubsetsOf
<1>3. PICK s \in T : \A t \in T : ~(<<t, s>> \in StrictSubsetOrdering(S))
  BY <1>2, FS_StrictSubsetOrderingWellFounded, WFMin
<1> QED
  BY <1>3 DEF StrictSubsetOrdering

(* The sum only depends on the values at the elements that are summed. *)
LEMMA FoldSame ==
  ASSUME NEW S, IsFiniteSet(S), NEW U, IsFiniteSet(U), NEW f, NEW g,
         NEW s \in SUBSET (S \cap U), \A x \in s : f[x] = g[x]
  PROVE  FoldOver(f, S)[s] = FoldOver(g, U)[s]
<1> DEFINE Bad == {t \in SUBSET s : FoldOver(f, S)[t] # FoldOver(g, U)[t]}
<1> SUFFICES ASSUME Bad # {} PROVE FALSE
  OBVIOUS
<1>0. IsFiniteSet(s)
  BY FS_Subset
<1>1. PICK t \in Bad : \A u \in Bad : ~(u \subseteq t /\ u # t)
  <2>1. Bad \in SUBSET (SUBSET s)
    OBVIOUS
  <2> HIDE DEF Bad
  <2> QED
    BY <1>0, <2>1, SmallestSubset
<1>2. t \in SUBSET S /\ t \in SUBSET U /\ t \in SUBSET s
  OBVIOUS
<1>3. t # {}
  BY <1>2, FoldLevel
<1>4. Chosen(t) \in t
  BY <1>3 DEF Chosen
<1>5. t \ {Chosen(t)} \notin Bad
  BY <1>1, <1>4
<1>6. FoldOver(f, S)[t \ {Chosen(t)}] = FoldOver(g, U)[t \ {Chosen(t)}]
  BY <1>2, <1>5
<1>7. f[Chosen(t)] = g[Chosen(t)]
  BY <1>2, <1>4
<1> QED
  BY <1>2, <1>3, <1>6, <1>7, FoldLevel

(* Any element may be taken first. *)
LEMMA FoldAnyOrder ==
  ASSUME NEW S, IsFiniteSet(S), NEW f, \A x \in S : f[x] \in Int
  PROVE  \A s \in SUBSET S :
           /\ FoldOver(f, S)[s] \in Int
           /\ \A x \in s : FoldOver(f, S)[s] = f[x] + FoldOver(f, S)[s \ {x}]
<1> DEFINE F == FoldOver(f, S)
           Right(s) == F[s] \in Int /\ \A x \in s : F[s] = f[x] + F[s \ {x}]
           Bad == {s \in SUBSET S : ~Right(s)}
<1> SUFFICES ASSUME Bad # {} PROVE FALSE
  OBVIOUS
<1>1. PICK s \in Bad : \A u \in Bad : ~(u \subseteq s /\ u # s)
  <2>1. Bad \in SUBSET (SUBSET S)
    OBVIOUS
  <2> HIDE DEF Bad
  <2> QED
    BY <2>1, SmallestSubset
<1>2. s \in SUBSET S /\ ~Right(s)
  OBVIOUS
<1>3. \A u \in SUBSET s : u # s => Right(u)
  BY <1>1
<1>4. s # {}
  <2>1. F[{}] = 0
    BY FoldLevel
  <2>2. Right({})
    BY <2>1
  <2> QED
    BY <1>2, <2>2
<1> DEFINE c == Chosen(s)
<1>5. c \in s /\ F[s] = f[c] + F[s \ {c}]
  BY <1>2, <1>4, FoldLevel
<1> HIDE DEF F, c
<1>6. Right(s \ {c})
  BY <1>3, <1>5
<1>7. F[s] \in Int /\ f[c] \in Int
  BY <1>2, <1>5, <1>6
<1>8. ASSUME NEW x \in s, x # c
      PROVE  F[s] = f[x] + F[s \ {x}]
  <2>1. Right(s \ {x})
    BY <1>3, <1>8
  <2>2. (s \ {c}) \ {x} = (s \ {x}) \ {c}
    OBVIOUS
  <2>3. F[s \ {c}] = f[x] + F[(s \ {c}) \ {x}]
    BY <1>6, <1>8
  <2>4. F[s \ {x}] = f[c] + F[(s \ {x}) \ {c}]
    BY <1>5, <1>8, <2>1
  <2>5. F[(s \ {c}) \ {x}] \in Int /\ f[x] \in Int
    <3>1. (s \ {c}) \ {x} \in SUBSET s /\ (s \ {c}) \ {x} # s
      BY <1>5
    <3>2. Right((s \ {c}) \ {x})
      BY <1>3, <3>1
    <3> QED
      BY <1>2, <3>2
  <2>6. F[(s \ {x}) \ {c}] = F[(s \ {c}) \ {x}]
    BY <2>2
  <2>7. \A i, j, k \in Int : i + (j + k) = j + (i + k)
    OBVIOUS
  <2> HIDE DEF Bad
  <2> QED
    BY <1>5, <1>7, <2>3, <2>4, <2>5, <2>6, <2>7
<1> QED
  BY <1>2, <1>5, <1>7, <1>8

-----------------------------------------------------------------------------
(* The empty sum is 0. *)
LEMMA SumOfNothing == \A f : SumFunctionOnSet(f, {}) = 0
BY SumIsFold, FoldLevel, FS_EmptySet

(* A sum of integers is an integer. *)
LEMMA SumType ==
  ASSUME NEW S, IsFiniteSet(S), NEW f, \A x \in S : f[x] \in Int
  PROVE  SumFunctionOnSet(f, S) \in Int
BY SumIsFold, FoldAnyOrder

(* A sum of naturals is a natural number. *)
LEMMA SumNat ==
  ASSUME NEW S, IsFiniteSet(S), NEW f, \A x \in S : f[x] \in Nat
  PROVE  SumFunctionOnSet(f, S) \in Nat
<1> DEFINE Bad == {s \in SUBSET S : FoldOver(f, S)[s] \notin Nat}
<1> SUFFICES ASSUME Bad # {} PROVE FALSE
  BY SumIsFold
<1>1. PICK s \in Bad : \A u \in Bad : ~(u \subseteq s /\ u # s)
  <2>1. Bad \in SUBSET (SUBSET S)
    OBVIOUS
  <2> HIDE DEF Bad
  <2> QED
    BY <2>1, SmallestSubset
<1>2. s \in SUBSET S /\ FoldOver(f, S)[s] \notin Nat
  OBVIOUS
<1>3. s # {}
  <2>1. s = {} => FoldOver(f, S)[s] = 0
    BY <1>2, FoldLevel
  <2> HIDE DEF Bad
  <2> QED
    BY <1>2, <2>1
<1>4. Chosen(s) \in s /\ FoldOver(f, S)[s] = f[Chosen(s)] + FoldOver(f, S)[s \ {Chosen(s)}]
  <2> HIDE DEF Bad
  <2> QED
    BY <1>2, <1>3, FoldLevel
<1>5. FoldOver(f, S)[s \ {Chosen(s)}] \in Nat
  BY <1>1, <1>2, <1>4
<1>6. f[Chosen(s)] \in Nat
  BY <1>2, <1>4
<1> HIDE DEF Bad
<1> QED
  BY <1>2, <1>4, <1>5, <1>6

(* Functions that agree on a set have the same sum over it. *)
LEMMA SumSame ==
  ASSUME NEW S, IsFiniteSet(S), NEW f, NEW g, \A x \in S : f[x] = g[x]
  PROVE  SumFunctionOnSet(f, S) = SumFunctionOnSet(g, S)
BY SumIsFold, FoldSame

(* An element contributes its value, whatever the order of the fold. *)
LEMMA SumSplit ==
  ASSUME NEW S, IsFiniteSet(S), NEW f, \A x \in S : f[x] \in Int, NEW x \in S
  PROVE  SumFunctionOnSet(f, S) = f[x] + SumFunctionOnSet(f, S \ {x})
<1>1. FoldOver(f, S)[S] = f[x] + FoldOver(f, S)[S \ {x}]
  BY FoldAnyOrder
<1>2. IsFiniteSet(S \ {x})
  BY FS_RemoveElement
<1>3. FoldOver(f, S)[S \ {x}] = FoldOver(f, S \ {x})[S \ {x}]
  BY <1>2, FoldSame
<1> QED
  BY <1>1, <1>3, SumIsFold

(* Writing an entry of a map (new or not) moves the total by the change of *)
(* that entry.                                                             *)
LEMMA SumInsert ==
  ASSUME NEW f, IsFiniteSet(DOMAIN f), \A y \in DOMAIN f : f[y] \in Int, NEW x, NEW v \in Int,
         NEW g, g = [y \in DOMAIN f \cup {x} |-> IF y = x THEN v ELSE f[y]]
  PROVE  /\ IsFiniteSet(DOMAIN g)
         /\ SumFunction(f) \in Int
         /\ SumFunction(g) = SumFunction(f) + v - IF x \in DOMAIN f THEN f[x] ELSE 0
<1> DEFINE R == (DOMAIN f) \ {x}
<1>1. IsFiniteSet(DOMAIN g) /\ IsFiniteSet(R)
  BY FS_AddElement, FS_RemoveElement
<1>2. SumFunctionOnSet(f, R) = SumFunctionOnSet(g, R)
  BY <1>1, SumSame
<1>3. SumFunctionOnSet(g, DOMAIN g) = v + SumFunctionOnSet(g, R)
  <2>1. R = (DOMAIN g) \ {x} /\ x \in DOMAIN g /\ g[x] = v /\ \A y \in DOMAIN g : g[y] \in Int
    OBVIOUS
  <2> HIDE DEF R
  <2> QED
    BY <1>1, <2>1, SumSplit
<1>4. SumFunctionOnSet(f, R) \in Int
  BY <1>1, SumType
<1>5. CASE x \in DOMAIN f
  <2>1. SumFunctionOnSet(f, DOMAIN f) = f[x] + SumFunctionOnSet(f, R)
    BY <1>5, SumSplit
  <2> QED
    BY <1>1, <1>2, <1>3, <1>4, <1>5, <2>1 DEF SumFunction
<1>6. CASE x \notin DOMAIN f
  <2>1. R = DOMAIN f
    BY <1>6
  <2> QED
    BY <1>1, <1>2, <1>3, <1>4, <1>6, <2>1 DEF SumFunction
<1> QED
  BY <1>5, <1>6

(* Removing an entry takes its value away. *)
LEMMA SumRemove ==
  ASSUME NEW f, IsFiniteSet(DOMAIN f), \A y \in DOMAIN f : f[y] \in Int, NEW x \in DOMAIN f,
         NEW g, g = [y \in DOMAIN f \ {x} |-> f[y]]
  PROVE  /\ IsFiniteSet(DOMAIN g)
         /\ SumFunction(f) \in Int
         /\ SumFunction(g) = SumFunction(f) - f[x]
<1> DEFINE R == (DOMAIN f) \ {x}
<1>1. IsFiniteSet(R) /\ DOMAIN g = R
  BY FS_RemoveElement
<1>2. SumFunctionOnSet(f, R) = SumFunctionOnSet(g, R)
  BY <1>1, SumSame
<1>3. SumFunctionOnSet(f, DOMAIN f) = f[x] + SumFunctionOnSet(f, R)
  BY SumSplit
<1>4. SumFunctionOnSet(f, R) \in Int
  BY <1>1, SumType
<1> QED
  BY <1>1, <1>2, <1>3, <1>4 DEF SumFunction

(* A map whose values are all 0 has the total 0. *)
LEMMA SumOfZeros ==
  ASSUME NEW S, IsFiniteSet(S)
  PROVE  SumFunction([x \in S |-> 0]) = 0
<1> DEFINE f == [x \in S |-> 0]
           Bad == {s \in SUBSET S : FoldOver(f, S)[s] # 0}
<1> SUFFICES ASSUME Bad # {} PROVE FALSE
  BY SumIsFold DEF SumFunction
<1>1. PICK s \in Bad : \A u \in Bad : ~(u \subseteq s /\ u # s)
  <2>1. Bad \in SUBSET (SUBSET S)
    OBVIOUS
  <2> HIDE DEF Bad
  <2> QED
    BY <2>1, SmallestSubset
<1>2. s \in SUBSET S /\ FoldOver(f, S)[s] # 0
  OBVIOUS
<1>3. s # {}
  BY <1>2, FoldLevel
<1>4. Chosen(s) \in s /\ FoldOver(f, S)[s] = f[Chosen(s)] + FoldOver(f, S)[s \ {Chosen(s)}]
  BY <1>2, <1>3, FoldLevel
<1>5. FoldOver(f, S)[s \ {Chosen(s)}] = 0
  BY <1>1, <1>2, <1>4
<1>6. f[Chosen(s)] = 0
  BY <1>2, <1>4
<1> HIDE DEF f, Bad
<1> QED
  BY <1>2, <1>4, <1>5, <1>6

(* The same for an entry that exists already. *)
LEMMA SumExcept ==
  ASSUME NEW f, IsFiniteSet(DOMAIN f), \A y \in DOMAIN f : f[y] \in Int,
         NEW x \in DOMAIN f, NEW v \in Int
  PROVE  /\ SumFunction(f) \in Int
         /\ SumFunction([f EXCEPT ![x] = v]) = SumFunction(f) + v - f[x]
<1> DEFINE g == [f EXCEPT ![x] = v]
<1>1. g = [y \in DOMAIN f \cup {x} |-> IF y = x THEN v ELSE f[y]]
  OBVIOUS
<1> HIDE DEF g
<1>2. SumFunction(f) \in Int
      /\ SumFunction(g) = SumFunction(f) + v - IF x \in DOMAIN f THEN f[x] ELSE 0
  BY <1>1, SumInsert
<1> QED
  BY <1>2 DEF g

(* A sum over a set is the sum over one of its parts and over the rest. *)
LEMMA SumParts ==
  ASSUME NEW S, IsFiniteSet(S), NEW f, \A x \in S : f[x] \in Int, NEW T \in SUBSET S
  PROVE  SumFunctionOnSet(f, S) = SumFunctionOnSet(f, T) + SumFunctionOnSet(f, S \ T)
<1> DEFINE Bad == {s \in SUBSET S : SumFunctionOnSet(f, S) # SumFunctionOnSet(f, s) + SumFunctionOnSet(f, S \ s)}
<1> SUFFICES ASSUME Bad # {} PROVE FALSE
  OBVIOUS
<1>1. PICK s \in Bad : \A u \in Bad : ~(u \subseteq s /\ u # s)
  <2>1. Bad \in SUBSET (SUBSET S)
    OBVIOUS
  <2> HIDE DEF Bad
  <2> QED
    BY <2>1, SmallestSubset
<1>2. s \in SUBSET S /\ SumFunctionOnSet(f, S) # SumFunctionOnSet(f, s) + SumFunctionOnSet(f, S \ s)
  OBVIOUS
<1>3. \A u \in SUBSET S : IsFiniteSet(u) /\ SumFunctionOnSet(f, u) \in Int
  BY FS_Subset, SumType
<1>4. CASE s = {}
  <2>1. S \ s = S
    BY <1>4
  <2> QED
    BY <1>2, <1>3, <1>4, <2>1, SumOfNothing
<1>5. CASE s # {}
  <2>1. PICK x : x \in s
    BY <1>5
  <2>2. PICK r \in SUBSET S : r = s \ {x}
    BY <1>2
  <2>3. r \notin Bad
    BY <1>1, <2>1, <2>2
  <2>4. SumFunctionOnSet(f, S) = SumFunctionOnSet(f, r) + SumFunctionOnSet(f, S \ r)
    BY <2>3
  <2> HIDE DEF Bad
  <2>5. SumFunctionOnSet(f, s) = f[x] + SumFunctionOnSet(f, r)
    <3>1. \A y \in s : f[y] \in Int
      BY <1>2
    <3> QED
      BY <1>2, <1>3, <2>1, <2>2, <3>1, SumSplit
  <2>6. SumFunctionOnSet(f, S \ r) = f[x] + SumFunctionOnSet(f, S \ s)
    <3>1. PICK u \in SUBSET S : u = S \ r
      OBVIOUS
    <3>2. x \in u /\ u \ {x} = S \ s /\ \A y \in u : f[y] \in Int
      BY <1>2, <2>1, <2>2, <3>1
    <3>3. SumFunctionOnSet(f, u) = f[x] + SumFunctionOnSet(f, u \ {x})
      BY <1>3, <3>2, SumSplit
    <3> QED
      BY <3>1, <3>2, <3>3
  <2>7. f[x] \in Int /\ SumFunctionOnSet(f, r) \in Int /\ SumFunctionOnSet(f, S \ s) \in Int
    BY <1>2, <1>3, <2>1
  <2> QED
    BY <1>2, <2>4, <2>5, <2>6, <2>7
<1> QED
  BY <1>4, <1>5

(* A sum of nothing but zeros. *)
LEMMA SumNone ==
  ASSUME NEW S, IsFiniteSet(S), NEW f, \A x \in S : f[x] = 0
  PROVE  SumFunctionOnSet(f, S) = 0
<1>1. PICK g : g = [x \in S |-> 0]
  OBVIOUS
<1>2. SumFunction(g) = 0 /\ DOMAIN g = S /\ \A x \in S : f[x] = g[x]
  BY <1>1, SumOfZeros
<1> QED
  BY <1>2, SumSame DEF SumFunction

(* One more at one element is one more in the sums it is in. *)
LEMMA SumRaised ==
  ASSUME NEW S, IsFiniteSet(S), NEW f, \A x \in S : f[x] \in Int, NEW n,
         NEW g, g = [f EXCEPT ![n] = @ + 1], S \subseteq DOMAIN f
  PROVE  SumFunctionOnSet(g, S) = SumFunctionOnSet(f, S) + IF n \in S THEN 1 ELSE 0
<1>1. CASE n \in S
  <2>1. g[n] = f[n] + 1 /\ \A x \in S : g[x] \in Int /\ (x # n => g[x] = f[x])
    BY <1>1
  <2>2. PICK R : R = S \ {n}
    OBVIOUS
  <2>3. IsFiniteSet(R) /\ \A x \in R : g[x] = f[x] /\ f[x] \in Int
    BY <2>1, <2>2, FS_RemoveElement
  <2>4. SumFunctionOnSet(g, R) = SumFunctionOnSet(f, R) /\ SumFunctionOnSet(f, R) \in Int
    BY <2>3, SumSame, SumType
  <2>5. SumFunctionOnSet(f, S) = f[n] + SumFunctionOnSet(f, R)
    BY <1>1, <2>2, SumSplit
  <2>6. SumFunctionOnSet(g, S) = g[n] + SumFunctionOnSet(g, R)
    BY <1>1, <2>1, <2>2, SumSplit
  <2> QED
    BY <1>1, <2>1, <2>4, <2>5, <2>6
<1>2. CASE n \notin S
  <2>1. \A x \in S : g[x] = f[x]
    BY <1>2
  <2>2. SumFunctionOnSet(g, S) = SumFunctionOnSet(f, S)
    BY <2>1, SumSame
  <2>3. SumFunctionOnSet(f, S) \in Int
    BY SumType
  <2> QED
    BY <1>2, <2>2, <2>3
<1> QED
  BY <1>1, <1>2

(* The total of a map without entries and with one. *)
LEMMA SumSingle ==
  ASSUME NEW x, NEW v \in Int
  PROVE  SumFunction([y \in {x} |-> v]) = v
<1> DEFINE f == [y \in {x} |-> v]
<1>1. IsFiniteSet({x}) /\ DOMAIN f = {x} /\ f[x] = v /\ {x} \ {x} = {}
  BY FS_Singleton
<1> HIDE DEF f
<1>2. SumFunctionOnSet(f, {x}) = f[x] + SumFunctionOnSet(f, {x} \ {x})
  BY <1>1, SumSplit
<1> QED
  BY <1>1, <1>2, SumOfNothing DEF SumFunction, f

(* The total of the `amount' fields of a set of records. *)
TotalAmount(S) == MapThenSumSet(LAMBDA m : m.amount, S)

(* It is a sum like the others. *)
LEMMA TotalAmountAreSum == \A S : TotalAmount(S) = SumFunctionOnSet([m \in S |-> m.amount], S)
<1> TAKE S
<1> DEFINE f == [m \in S |-> m.amount]
           step(iter, s) == IF s = {} THEN 0 ELSE Chosen(s).amount + iter[s \ {Chosen(s)}]
<1>1. TotalAmount(S) = (CHOOSE iter : iter = [s \in SUBSET S |-> step(iter, s)])[S]
  BY DEF TotalAmount, MapThenSumSet, MapThenFoldSet, Chosen
<1>2. \A iter : \A s \in SUBSET S : step(iter, s) = Level(f, iter, s)
  BY DEF Chosen, Level
<1> HIDE DEF f
<1>3. (CHOOSE iter : iter = [s \in SUBSET S |-> step(iter, s)]) = FoldOver(f, S)
  <2> DEFINE P(iter) == iter = [s \in SUBSET S |-> step(iter, s)]
             Q(iter) == iter = [s \in SUBSET S |-> Level(f, iter, s)]
  <2>1. \A iter : [s \in SUBSET S |-> step(iter, s)] = [s \in SUBSET S |-> Level(f, iter, s)]
    <3> HIDE DEF step
    <3> QED
      BY <1>2
  <2>2. \A iter : P(iter) <=> Q(iter)
    BY <2>1
  <2> HIDE DEF P, Q
  <2>3. (CHOOSE iter : P(iter)) = (CHOOSE iter : Q(iter))
    BY <2>2
  <2> QED
    BY <2>3 DEF P, Q, FoldOver
<1> QED
  BY <1>1, <1>3, SumIsFold DEF f

(* Nothing amounts to 0. *)
LEMMA TotalAmountNone == TotalAmount({}) = 0
BY TotalAmountAreSum, SumOfNothing

(* It is an integer when every amount is. *)
LEMMA TotalAmountType ==
  ASSUME NEW S, IsFiniteSet(S), \A r \in S : r.amount \in Int
  PROVE  TotalAmount(S) \in Int
<1> DEFINE f == [r \in S |-> r.amount]
<1>1. \A r \in S : f[r] \in Int
  OBVIOUS
<1>2. TotalAmount(S) = SumFunctionOnSet(f, S)
  BY TotalAmountAreSum
<1> HIDE DEF f
<1> QED
  BY <1>1, <1>2, SumType

(* A record that is added or removed contributes its amount. *)
LEMMA TotalAmountRemove ==
  ASSUME NEW S, IsFiniteSet(S), \A r \in S : r.amount \in Int, NEW m \in S
  PROVE  /\ IsFiniteSet(S \ {m})
         /\ TotalAmount(S \ {m}) \in Int
         /\ TotalAmount(S) = TotalAmount(S \ {m}) + m.amount
<1> DEFINE f == [r \in S |-> r.amount]
           g == [r \in S \ {m} |-> r.amount]
<1>1. IsFiniteSet(S \ {m})
  BY FS_RemoveElement
<1>2. TotalAmount(S) = m.amount + SumFunctionOnSet(f, S \ {m})
  <2>1. f[m] = m.amount /\ \A r \in S : f[r] \in Int
    OBVIOUS
  <2>2. TotalAmount(S) = SumFunctionOnSet(f, S)
    BY TotalAmountAreSum
  <2> HIDE DEF f
  <2> QED
    BY <2>1, <2>2, SumSplit
<1>3. TotalAmount(S \ {m}) = SumFunctionOnSet(f, S \ {m})
  <2>1. \A r \in S \ {m} : g[r] = f[r]
    OBVIOUS
  <2>2. TotalAmount(S \ {m}) = SumFunctionOnSet(g, S \ {m})
    BY TotalAmountAreSum
  <2> HIDE DEF f, g
  <2> QED
    BY <1>1, <2>1, <2>2, SumSame
<1>4. SumFunctionOnSet(f, S \ {m}) \in Int
  <2>1. \A r \in S \ {m} : f[r] \in Int
    OBVIOUS
  <2> HIDE DEF f
  <2> QED
    BY <1>1, <2>1, SumType
<1> QED
  BY <1>1, <1>2, <1>3, <1>4

(* The same for a record that is added. *)
LEMMA TotalAmountAdd ==
  ASSUME NEW S, IsFiniteSet(S), \A r \in S : r.amount \in Int,
         NEW m, m \notin S, m.amount \in Int
  PROVE  /\ IsFiniteSet(S \cup {m})
         /\ TotalAmount(S \cup {m}) \in Int
         /\ TotalAmount(S \cup {m}) = TotalAmount(S) + m.amount
<1>1. IsFiniteSet(S \cup {m}) /\ (S \cup {m}) \ {m} = S
  BY FS_AddElement
<1>2. \A r \in S \cup {m} : r.amount \in Int
  OBVIOUS
<1>3. TotalAmount(S) \in Int /\ TotalAmount(S \cup {m}) = TotalAmount(S) + m.amount
  BY <1>1, <1>2, TotalAmountRemove
<1> QED
  BY <1>1, <1>3

-----------------------------------------------------------------------------
(* How many elements of K are not after i, in an order T of K. *)
Rank(K, T) == [i \in K |-> Cardinality({j \in K : j = i \/ <<j, i>> \in T})]

StrictOrder(K, T) ==
  /\ \A i, j, k \in K : <<i, j>> \in T /\ <<j, k>> \in T => <<i, k>> \in T
  /\ \A i \in K : <<i, i>> \notin T
  /\ \A i, j \in K : i # j => <<i, j>> \in T \/ <<j, i>> \in T

Ranked(K, T) ==
  /\ Rank(K, T) \in [K -> 1 .. Cardinality(K)]
  /\ \A i, j \in K : <<i, j>> \in T => Rank(K, T)[i] < Rank(K, T)[j]
  /\ \A n \in 1 .. Cardinality(K) : \E i \in K : Rank(K, T)[i] = n

(* The elements of a finite set that is strictly ordered have the ranks 1, *)
(* 2, ... without a gap, and a greater element has a greater rank.         *)
LEMMA Ranks ==
  ASSUME NEW K, IsFiniteSet(K), NEW T, StrictOrder(K, T)
  PROVE  Ranked(K, T)
<1> DEFINE upto(i) == {j \in K : j = i \/ <<j, i>> \in T}
<1> USE DEF StrictOrder
<1>0. PICK rank : rank = Rank(K, T)
  OBVIOUS
<1> USE <1>0
<1>1. Cardinality(K) \in Nat
  BY FS_CardinalityType
<1>2. \A i \in K : /\ IsFiniteSet(upto(i)) /\ Cardinality(upto(i)) \in 1 .. Cardinality(K)
                   /\ rank[i] = Cardinality(upto(i))
  <2> SUFFICES ASSUME NEW i \in K
               PROVE  IsFiniteSet(upto(i)) /\ Cardinality(upto(i)) \in 1 .. Cardinality(K)
    BY DEF Rank
  <2>1. upto(i) \in SUBSET K /\ i \in upto(i)
    OBVIOUS
  <2> HIDE DEF upto
  <2>2. IsFiniteSet(upto(i)) /\ Cardinality(upto(i)) <= Cardinality(K)
    BY <2>1, FS_Subset
  <2>3. Cardinality(upto(i)) \in Nat /\ Cardinality(upto(i)) # 0
    BY <2>1, <2>2, FS_CardinalityType, FS_EmptySet
  <2> QED
    BY <1>1, <2>2, <2>3
<1>3. ASSUME NEW i \in K, NEW k \in K, <<i, k>> \in T
      PROVE  rank[i] < rank[k]
  <2>1. upto(i) \in SUBSET upto(k)
    BY <1>3
  <2>2. k \in upto(k)
    OBVIOUS
  <2>3. k \notin upto(i)
    BY <1>3
  <2> HIDE DEF upto
  <2>4. Cardinality(upto(i)) <= Cardinality(upto(k)) /\ Cardinality(upto(i)) # Cardinality(upto(k))
    BY <1>2, <2>1, <2>2, <2>3, FS_Subset
  <2>5. QED
    BY <1>2, <2>4
<1>4. rank \in [K -> 1 .. Cardinality(K)]
  <2> HIDE DEF upto
  <2>1. rank = [i \in K |-> rank[i]]
    BY DEF Rank
  <2> QED
    BY <1>2, <2>1
<1>5. rank \in Injection(K, 1 .. Cardinality(K))
  <2>1. \A i, k \in K : rank[i] = rank[k] => i = k
    <3>1. SUFFICES ASSUME NEW i \in K, NEW k \in K, i # k
                   PROVE  rank[i] # rank[k]
      OBVIOUS
    <3>2. rank[i] < rank[k] \/ rank[k] < rank[i]
      BY <1>3, <3>1
    <3>3. rank[i] \in Int /\ rank[k] \in Int
      BY <1>4
    <3> HIDE DEF upto
    <3>4. QED
      BY <3>2, <3>3
  <2> QED
    BY <1>4, <2>1 DEF Injection, IsInjective
<1>6. IsFiniteSet(1 .. Cardinality(K)) /\ Cardinality(1 .. Cardinality(K)) = Cardinality(K)
  BY <1>1, FS_Interval
<1>7. rank \in Surjection(K, 1 .. Cardinality(K))
  BY <1>5, <1>6, FS_Injection
<1> QED
  BY <1>3, <1>4, <1>7 DEF Surjection, Ranked

(* nth finds the n-th of a finite set of numbers, in their order, and every *)
(* number of the set is one of them.                                       *)
LEMMA Nth ==
  ASSUME NEW K \in SUBSET Nat, IsFiniteSet(K)
  PROVE  /\ Cardinality(K) \in Nat
         /\ \A n \in 1 .. Cardinality(K) : nth(K, n) \in K
         /\ \A m, n \in 1 .. Cardinality(K) : m < n => nth(K, m) < nth(K, n)
         /\ \A i \in K : \E n \in 1 .. Cardinality(K) : nth(K, n) = i
<1> DEFINE T == {p \in K \X K : p[1] < p[2]}
           rank == Rank(K, T)
<1>1. Cardinality(K) \in Nat
  BY FS_CardinalityType
<1>2. /\ \A i, j, k \in K : <<i, j>> \in T /\ <<j, k>> \in T => <<i, k>> \in T
      /\ \A i \in K : <<i, i>> \notin T
      /\ \A i, j \in K : i # j => <<i, j>> \in T \/ <<j, i>> \in T
      /\ \A i, j \in K : <<i, j>> \in T <=> i < j
  OBVIOUS
<1>3. \A i \in K : Cardinality({j \in K : j <= i}) = rank[i]
  <2> SUFFICES ASSUME NEW i \in K
               PROVE  {j \in K : j <= i} = {j \in K : j = i \/ <<j, i>> \in T}
    BY DEF Rank
  <2>1. \A j \in K : j <= i <=> j = i \/ j < i
    OBVIOUS
  <2> HIDE DEF T
  <2> QED
    BY <1>2, <2>1
<1> HIDE DEF T
<1>4. /\ rank \in [K -> 1 .. Cardinality(K)]
      /\ \A i, j \in K : <<i, j>> \in T => rank[i] < rank[j]
      /\ \A n \in 1 .. Cardinality(K) : \E i \in K : rank[i] = n
  <2>1. StrictOrder(K, T)
    BY <1>2 DEF StrictOrder
  <2>2. PICK order : order = T
    OBVIOUS
  <2>3. StrictOrder(K, order)
    BY <2>1, <2>2
  <2>4. Ranked(K, order)
    BY <2>3, Ranks
  <2>5. QED
    BY <2>2, <2>4 DEF Ranked
<1> HIDE DEF rank
<1>10. \A i, j \in K : i < j => rank[i] < rank[j]
  BY <1>2, <1>4
<1>5. \A n \in 1 .. Cardinality(K) : nth(K, n) \in K /\ rank[nth(K, n)] = n
  <2> SUFFICES ASSUME NEW n \in 1 .. Cardinality(K)
               PROVE  nth(K, n) \in K /\ rank[nth(K, n)] = n
    OBVIOUS
  <2>1. \E i \in K : Cardinality({j \in K : j <= i}) = n
    BY <1>3, <1>4
  <2>2. nth(K, n) \in K /\ Cardinality({j \in K : j <= nth(K, n)}) = n
    BY <2>1 DEF nth
  <2> QED
    BY <1>3, <2>2
<1>6. \A i, j \in K : rank[i] < rank[j] => i < j
  <2> SUFFICES ASSUME NEW i \in K, NEW j \in K, rank[i] < rank[j]
               PROVE  i < j
    OBVIOUS
  <2>1. rank[i] \in Int /\ rank[j] \in Int /\ i \in Int /\ j \in Int
    BY <1>4
  <2>2. j < i => rank[j] < rank[i]
    BY <1>10
  <2> QED
    BY <2>1, <2>2
<1>7. \A i \in K : nth(K, rank[i]) = i
  <2> SUFFICES ASSUME NEW i \in K
               PROVE  nth(K, rank[i]) = i
    OBVIOUS
  <2>1. rank[i] \in 1 .. Cardinality(K) /\ nth(K, rank[i]) \in K /\ rank[nth(K, rank[i])] = rank[i]
    BY <1>4, <1>5
  <2>2. PICK k \in K : k = nth(K, rank[i])
    BY <2>1
  <2>3. rank[i] \in Int /\ i \in Int /\ k \in Int /\ rank[k] = rank[i]
    BY <1>4, <2>1, <2>2
  <2>4. (i < k => rank[i] < rank[k]) /\ (k < i => rank[k] < rank[i])
    BY <1>10
  <2> QED
    BY <2>2, <2>3, <2>4
<1> QED
  BY <1>1, <1>4, <1>5, <1>6, <1>7

(* What retained leaves is a list of the elements in S and of no others,   *)
(* and p says where each of them was: in the same order.                   *)
LEMMA Retained ==
  ASSUME NEW A, NEW list \in Seq(A), NEW S, NEW r, r = retained(list, S)
  PROVE  /\ r \in Seq(A)
         /\ \E p \in [DOMAIN r -> DOMAIN list] :
              /\ \A n \in DOMAIN r : r[n] = list[p[n]] /\ r[n] \in S
              /\ \A m, n \in DOMAIN r : m < n => p[m] < p[n]
              /\ \A i \in DOMAIN list : list[i] \in S => \E n \in DOMAIN r : p[n] = i
<1> DEFINE K == {i \in DOMAIN list : list[i] \in S}
           p == [n \in 1 .. Cardinality(K) |-> nth(K, n)]
<1>1. DOMAIN list = 1 .. Len(list) /\ Len(list) \in Nat /\ \A i \in DOMAIN list : list[i] \in A
  OBVIOUS
<1>2. K \in SUBSET (1 .. Len(list)) /\ K \in SUBSET Nat /\ \A i \in K : i \in DOMAIN list /\ list[i] \in S
  BY <1>1
<1>3. \A i \in DOMAIN list : list[i] \in S => i \in K
  OBVIOUS
<1>4. r = [n \in 1 .. Cardinality(K) |-> list[nth(K, n)]]
  BY DEF retained
<1> HIDE DEF K
<1>5. IsFiniteSet(K)
  <2>1. IsFiniteSet(1 .. Len(list))
    BY <1>1, FS_Interval
  <2>2. QED
    BY <1>2, <2>1, FS_Subset
<1>6. /\ Cardinality(K) \in Nat
      /\ \A n \in 1 .. Cardinality(K) : nth(K, n) \in K
      /\ \A m, n \in 1 .. Cardinality(K) : m < n => nth(K, m) < nth(K, n)
      /\ \A i \in K : \E n \in 1 .. Cardinality(K) : nth(K, n) = i
  BY <1>2, <1>5, Nth
<1>7. DOMAIN r = 1 .. Cardinality(K) /\ r \in Seq(A)
  <2>1. \A n \in 1 .. Cardinality(K) : list[nth(K, n)] \in A
    BY <1>1, <1>2, <1>6
  <2>2. QED
    BY <1>4, <1>6, <2>1
<1>8. p \in [DOMAIN r -> DOMAIN list]
  BY <1>2, <1>6, <1>7
<1>9. /\ \A n \in DOMAIN r : r[n] = list[p[n]] /\ r[n] \in S
      /\ \A m, n \in DOMAIN r : m < n => p[m] < p[n]
  BY <1>2, <1>4, <1>6, <1>7
<1>10. \A i \in DOMAIN list : list[i] \in S => \E n \in DOMAIN r : p[n] = i
  BY <1>3, <1>6, <1>7
<1> HIDE DEF p
<1> QED
  BY <1>7, <1>8, <1>9, <1>10

(* sorted has the elements of the list, each from one place, and none that *)
(* goes before an earlier one.                                             *)
LEMMA Sorted ==
  ASSUME NEW A, NEW list \in Seq(A), NEW R,
         \A a, b, c \in A : <<a, b>> \in R => <<a, c>> \in R \/ <<c, b>> \in R,
         \A a \in A : <<a, a>> \notin R,
         \A a, b \in A : <<a, b>> \in R => <<b, a>> \notin R,
         NEW r, r = sorted(list, R)
  PROVE  /\ r \in Seq(A) /\ Len(r) = Len(list)
         /\ \E p \in [DOMAIN list -> DOMAIN list] :
              /\ \A n \in DOMAIN list : r[n] = list[p[n]]
              /\ \A i \in DOMAIN list : \E n \in DOMAIN list : p[n] = i
              /\ \A m, n \in DOMAIN list : p[m] = p[n] => m = n
         /\ \A m, n \in DOMAIN list : m < n => <<r[n], r[m]>> \notin R
<1> DEFINE K == DOMAIN list
           T == {q \in K \X K : ahead(list, R, q[1], q[2])}
           rank == Rank(K, T)
           p == [n \in K |-> CHOOSE i \in K : rank[i] = n]
<1>1. K = 1 .. Len(list) /\ Len(list) \in Nat /\ \A i \in K : list[i] \in A /\ i \in Nat
  OBVIOUS
<1>2. IsFiniteSet(K) /\ Cardinality(K) = Len(list)
  BY <1>1, FS_Interval
<1>3. \A i, j \in K : <<i, j>> \in T <=> <<list[i], list[j]>> \in R \/ (i < j /\ <<list[j], list[i]>> \notin R)
  BY DEF ahead
<1>4. \A i \in K : place(list, R, i) = rank[i]
  <2> SUFFICES ASSUME NEW i \in K
               PROVE  {j \in K : j = i \/ ahead(list, R, j, i)} = {j \in K : j = i \/ <<j, i>> \in T}
    BY DEF place, Rank
  <2> QED
    OBVIOUS
<1>5. r = [n \in K |-> list[p[n]]]
  <2>1. \A n \in K : (CHOOSE i \in K : place(list, R, i) = n) = (CHOOSE i \in K : rank[i] = n)
    <3>1. PICK f : f = [i \in K |-> place(list, R, i)]
      OBVIOUS
    <3>2. f = rank
      BY <1>4, <3>1 DEF Rank
    <3>3. \A i \in K : f[i] = place(list, R, i)
      BY <3>1
    <3> HIDE DEF rank, T, K
    <3>4. SUFFICES ASSUME NEW n \in K
                   PROVE  (CHOOSE i \in K : place(list, R, i) = n) = (CHOOSE i \in K : f[i] = n)
      BY <3>2
    <3>5. \A i : i \in K /\ place(list, R, i) = n <=> i \in K /\ f[i] = n
      BY <3>3
    <3>6. QED
      BY <3>5
  <2>2. r = [n \in K |-> list[CHOOSE i \in K : place(list, R, i) = n]]
    BY DEF sorted, at_place
  <2>3. \A n \in K : p[n] = CHOOSE i \in K : rank[i] = n
    <3> HIDE DEF rank, T, K
    <3> QED
      OBVIOUS
  <2> HIDE DEF p, rank, T, K
  <2>4. \A n \in K : (CHOOSE i \in K : place(list, R, i) = n) = p[n]
    BY <2>1, <2>3
  <2> QED
    BY <2>2, <2>4
<1>6. ASSUME NEW i \in K, NEW j \in K, NEW k \in K, <<i, j>> \in T, <<j, k>> \in T
      PROVE  <<i, k>> \in T
  <2>1. list[i] \in A /\ list[j] \in A /\ list[k] \in A /\ i \in Nat /\ j \in Nat /\ k \in Nat
    BY <1>1
  <2>2. /\ <<list[i], list[j]>> \in R \/ (i < j /\ <<list[j], list[i]>> \notin R)
        /\ <<list[j], list[k]>> \in R \/ (j < k /\ <<list[k], list[j]>> \notin R)
    BY <1>3, <1>6
  <2> HIDE DEF T, K
  <2>3. <<list[i], list[k]>> \in R \/ (i < k /\ <<list[k], list[i]>> \notin R)
    BY <2>1, <2>2
  <2>4. QED
    BY <1>3, <2>3
<1>7. \A i \in K : <<i, i>> \notin T
  <2> SUFFICES ASSUME NEW i \in K
               PROVE  <<i, i>> \notin T
    OBVIOUS
  <2>1. list[i] \in A /\ ~(i < i)
    BY <1>1
  <2> HIDE DEF T, K
  <2> QED
    BY <1>3, <2>1
<1>8. \A i, j \in K : i # j => <<i, j>> \in T \/ <<j, i>> \in T
  <2> SUFFICES ASSUME NEW i \in K, NEW j \in K, i # j
               PROVE  <<i, j>> \in T \/ <<j, i>> \in T
    OBVIOUS
  <2>1. i < j \/ j < i
    BY <1>1
  <2> HIDE DEF T, K
  <2> QED
    BY <1>1, <1>3, <2>1
<1> HIDE DEF T
<1>9. /\ rank \in [K -> 1 .. Cardinality(K)]
      /\ \A i, j \in K : <<i, j>> \in T => rank[i] < rank[j]
      /\ \A n \in 1 .. Cardinality(K) : \E i \in K : rank[i] = n
  <2> HIDE DEF K
  <2>1. StrictOrder(K, T)
    BY <1>6, <1>7, <1>8 DEF StrictOrder
  <2>2. Ranked(K, T)
    BY <1>2, <2>1, Ranks
  <2> QED
    BY <2>2 DEF Ranked
<1> HIDE DEF rank
<1>10. \A n \in K : p[n] \in K /\ rank[p[n]] = n
  BY <1>1, <1>2, <1>9
<1>11. p \in [K -> K]
  BY <1>10
<1>12. \A i \in K : \E n \in K : p[n] = i
  <2> SUFFICES ASSUME NEW i \in K
               PROVE  p[rank[i]] = i /\ rank[i] \in K
    OBVIOUS
  <2>1. rank[i] \in K
    BY <1>1, <1>2, <1>9
  <2>2. p[rank[i]] \in K /\ rank[p[rank[i]]] = rank[i] /\ rank[i] \in Nat
    BY <1>1, <1>10, <2>1
  <2>3. PICK k \in K : k = p[rank[i]]
    BY <2>2
  <2> HIDE DEF p
  <2>4. rank[k] = rank[i] /\ rank[i] \in Nat
    BY <2>2, <2>3
  <2>5. <<i, k>> \notin T /\ <<k, i>> \notin T
    BY <1>9, <2>4
  <2> HIDE DEF K
  <2> QED
    BY <1>8, <2>1, <2>3, <2>5
<1>13. ASSUME NEW m \in K, NEW n \in K, m < n
       PROVE  <<r[n], r[m]>> \notin R
  <2>1. <<p[n], p[m]>> \notin T
    <3>1. rank[p[m]] = m /\ rank[p[n]] = n /\ p[m] \in K /\ p[n] \in K
      BY <1>10
    <3>2. ~(n < m)
      BY <1>1, <1>13
    <3> HIDE DEF p
    <3> QED
      BY <1>9, <3>1, <3>2
  <2>2. r[n] = list[p[n]] /\ r[m] = list[p[m]]
    BY <1>5
  <2>3. QED
    BY <1>3, <1>10, <2>1, <2>2
<1>14. r \in Seq(A) /\ Len(r) = Len(list)
  <2>1. \A n \in K : r[n] \in A
    BY <1>1, <1>5, <1>10
  <2>2. DOMAIN r = 1 .. Len(list) /\ r = [n \in 1 .. Len(list) |-> r[n]]
    BY <1>1, <1>5
  <2> HIDE DEF K, p
  <2> QED
    BY <1>1, <2>1, <2>2
<1>15. \A m, n \in K : p[m] = p[n] => m = n
  <2> HIDE DEF p, K
  <2> QED
    BY <1>10
<1> HIDE DEF p
<1> QED
  BY <1>5, <1>11, <1>12, <1>13, <1>14, <1>15
=============================================================================
