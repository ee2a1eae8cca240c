-------------------------------- MODULE Sums --------------------------------
(***************************************************************************)
(* What proofs need to know of SumFunctionOnSet(f, S), the sum of f[x] for *)
(* all x in a finite set S.  The fold behind it is a recursive function;   *)
(* the inductions are carried out with sets in place of predicates: a set  *)
(* of numbers that is not empty has a least element.                       *)
(***************************************************************************)
EXTENDS Integers, FiniteSets, Functions, FiniteSetTheorems, WellFoundedInduction, TLAPS

-----------------------------------------------------------------------------
(* Induction.                                                              *)

(* Every set of numbers but the empty one has a least element.             *)
LEMMA LeastElement ==
    ASSUME NEW N \in SUBSET Nat, N # {}
    PROVE  \E m \in N : \A n \in N : m <= n
<1>1. PICK m \in N : \A n \in N : ~(<<n, m>> \in OpToRel(<, Nat))
  BY NatLessThanWellFounded, WFMin
<1>2. \A n \in N : ~(n < m)
  BY <1>1 DEF OpToRel
<1> QED BY <1>2

(* A set of numbers with 0 that is closed under successors has them all.   *)
LEMMA NumberInduction ==
    ASSUME NEW Good \in SUBSET Nat, 0 \in Good, \A n \in Good : n + 1 \in Good
    PROVE  Good = Nat
<1> SUFFICES ASSUME Nat \ Good # {} PROVE FALSE
  OBVIOUS
<1>1. PICK m \in Nat \ Good : \A n \in Nat \ Good : m <= n
  <2>1. Nat \ Good \in SUBSET Nat
    OBVIOUS
  <2> QED BY <2>1, LeastElement
<1>2. m # 0 /\ m - 1 \in Nat
  BY <1>1
<1>3. m - 1 \in Good
  BY <1>1, <1>2
<1> QED BY <1>1, <1>2, <1>3

(* What holds of a set once it holds without any one of its elements holds *)
(* of all subsets of a finite set.                                         *)
LEMMA SubsetInduction ==
    ASSUME NEW S, IsFiniteSet(S), NEW Good,
           \A T \in SUBSET S : (\A x \in T : T \ {x} \in Good) => T \in Good
    PROVE  \A T \in SUBSET S : T \in Good
<1> SUFFICES ASSUME NEW T0 \in SUBSET S, T0 \notin Good PROVE FALSE
  OBVIOUS
<1> DEFINE Bad == {T \in SUBSET S : T \notin Good}
           N == {Cardinality(T) : T \in Bad}
<1>1. \A T \in SUBSET S : IsFiniteSet(T) /\ Cardinality(T) \in Nat
  BY FS_Subset, FS_CardinalityType
<1>2. N \in SUBSET Nat /\ N # {}
  <2>1. Cardinality(T0) \in N
    OBVIOUS
  <2> QED BY <1>1, <2>1
<1>3. PICK m \in N : \A n \in N : m <= n
  BY <1>2, LeastElement
<1>4. PICK T \in Bad : m = Cardinality(T)
  BY <1>3
<1>5. ASSUME NEW x \in T PROVE T \ {x} \in Good
  <2>1. Cardinality(T \ {x}) = Cardinality(T) - 1
    BY <1>1, <1>4, FS_RemoveElement
  <2>2. T \ {x} \notin Bad
    <3> SUFFICES ASSUME T \ {x} \in Bad PROVE FALSE
      OBVIOUS
    <3>1. Cardinality(T \ {x}) \in N
      OBVIOUS
    <3>2. m <= Cardinality(T \ {x})
      BY <1>3, <3>1
    <3> QED BY <1>1, <1>4, <2>1, <3>2
  <2> QED BY <1>4, <2>2
<1> QED BY <1>4, <1>5

-----------------------------------------------------------------------------
(* The recursive function behind a sum.                                    *)

Picked(T) == CHOOSE x \in T : TRUE

IsSum(s, f, S) ==
    s = [T \in SUBSET S |-> IF T = {} THEN 0 ELSE f[Picked(T)] + s[T \ {Picked(T)}]]

(* A sum is the value of that recursive function at the whole set.         *)
LEMMA Unfold ==
    ASSUME NEW f, NEW S
    PROVE  SumFunctionOnSet(f, S) = (CHOOSE s : IsSum(s, f, S))[S]
  BY DEF SumFunctionOnSet, FoldFunctionOnSet, MapThenFoldSet, IsSum, Picked

(* The element that is taken first is one of the set.                      *)
LEMMA PickedIn ==
    ASSUME NEW T, T # {}
    PROVE  Picked(T) \in T
  BY DEF Picked

(* It exists: for the subsets of up to n elements, by induction on n.      *)
LEMMA SumExists ==
    ASSUME NEW f, NEW S, IsFiniteSet(S)
    PROVE  \E s : IsSum(s, f, S)
<1> DEFINE Upto(n) == {T \in SUBSET S : Cardinality(T) <= n}
           Partial(s, n) ==
               s = [T \in Upto(n) |-> IF T = {} THEN 0 ELSE f[Picked(T)] + s[T \ {Picked(T)}]]
           Good == {n \in Nat : \E s : Partial(s, n)}
<1>0. /\ \A T \in SUBSET S : IsFiniteSet(T) /\ Cardinality(T) \in Nat
      /\ \A T \in SUBSET S : Cardinality(T) = 0 <=> T = {}
  BY FS_Subset, FS_CardinalityType, FS_EmptySet
<1>s. \A T \in SUBSET S : T # {} =>
         T \ {Picked(T)} \in SUBSET S /\ Cardinality(T \ {Picked(T)}) = Cardinality(T) - 1
  BY <1>0, PickedIn, FS_RemoveElement
<1>1. 0 \in Good
  <2> DEFINE s == [T \in Upto(0) |-> 0]
  <2>1. \A T \in Upto(0) : T = {}
    BY <1>0
  <2>2. Partial(s, 0)
    BY <2>1
  <2> QED BY <2>2
<1>2. ASSUME NEW n \in Good PROVE n + 1 \in Good
  <2>1. PICK s : Partial(s, n)
    OBVIOUS
  <2> DEFINE Value(T) == IF T = {} THEN 0 ELSE f[Picked(T)] + s[T \ {Picked(T)}]
             t == [T \in Upto(n + 1) |-> Value(T)]
  <2>2. \A T \in Upto(n) : T \in Upto(n + 1) /\ t[T] = s[T]
    <3> TAKE T \in Upto(n)
    <3>1. T \in Upto(n + 1)
      BY <1>0
    <3>2. s[T] = Value(T)
      BY <2>1
    <3> QED BY <3>1, <3>2
  <2>3. \A T \in Upto(n + 1) : T # {} => T \ {Picked(T)} \in Upto(n)
    BY <1>0, <1>s
  <2>4. \A T \in Upto(n + 1) :
           t[T] = IF T = {} THEN 0 ELSE f[Picked(T)] + t[T \ {Picked(T)}]
    BY <2>2, <2>3
  <2>5. Partial(t, n + 1)
    BY <2>4
  <2>6. n + 1 \in Nat
    OBVIOUS
  <2> HIDE DEF Partial, t
  <2> QED BY <2>5, <2>6
<1>3. Good = Nat
  <2> HIDE DEF Good
  <2>1. Good \in SUBSET Nat
    BY DEF Good
  <2> QED BY <1>1, <1>2, <2>1, NumberInduction
<1>4. PICK s : Partial(s, Cardinality(S))
  <2>1. Cardinality(S) \in Good
    BY <1>0, <1>3
  <2> QED BY <2>1
<1>5. Upto(Cardinality(S)) = SUBSET S
  BY FS_Subset
<1> QED BY <1>4, <1>5 DEF IsSum

(* There is only one, whichever larger set it was made for.                *)
LEMMA SumUnique ==
    ASSUME NEW f, NEW S, NEW T \in SUBSET S, IsFiniteSet(T),
           NEW s, IsSum(s, f, S), NEW t, IsSum(t, f, T)
    PROVE  \A U \in SUBSET T : s[U] = t[U]
<1> DEFINE Good == {U \in SUBSET T : s[U] = t[U]}
<1>1. ASSUME NEW U \in SUBSET T, \A x \in U : U \ {x} \in Good
      PROVE  U \in Good
  <2>1. U \in SUBSET S
    OBVIOUS
  <2>2. CASE U = {}
    BY <2>1, <2>2 DEF IsSum
  <2>3. CASE U # {}
    <3>1. s[U \ {Picked(U)}] = t[U \ {Picked(U)}]
      BY <1>1, <2>3, PickedIn
    <3>2. s[U] = f[Picked(U)] + s[U \ {Picked(U)}] /\ t[U] = f[Picked(U)] + t[U \ {Picked(U)}]
      BY <2>1, <2>3 DEF IsSum
    <3> QED BY <3>1, <3>2
  <2> QED BY <2>2, <2>3
<1>2. \A U \in SUBSET T : U \in Good
  <2> HIDE DEF Good
  <2> QED BY <1>1, SubsetInduction
<1> QED BY <1>2

-----------------------------------------------------------------------------
(* Sums.                                                                   *)

(* The empty sum.                                                          *)
LEMMA SumEmpty ==
    ASSUME NEW f
    PROVE  SumFunctionOnSet(f, {}) = 0
<1>1. PICK s : IsSum(s, f, {})
  BY SumExists, FS_EmptySet
<1>2. IsSum(CHOOSE r : IsSum(r, f, {}), f, {})
  BY <1>1
<1> DEFINE r == CHOOSE r : IsSum(r, f, {})
<1>3. r[{}] = 0
  <2>1. IsSum(r, f, {})
    BY <1>2
  <2> HIDE DEF r
  <2> QED BY <2>1 DEF IsSum
<1> QED BY <1>3, Unfold

(* The sum of a subset does not depend on the larger set.                  *)
LEMMA SumRestricted ==
    ASSUME NEW f, NEW S, NEW T \in SUBSET S, IsFiniteSet(T),
           NEW s, IsSum(s, f, S)
    PROVE  SumFunctionOnSet(f, T) = s[T]
<1>1. \E t : IsSum(t, f, T)
  BY SumExists
<1>2. PICK t : t = CHOOSE r : IsSum(r, f, T)
  OBVIOUS
<1>3. IsSum(t, f, T)
  BY <1>1, <1>2
<1>4. \A U \in SUBSET T : s[U] = t[U]
  BY <1>3, SumUnique
<1>5. SumFunctionOnSet(f, T) = t[T]
  BY <1>2, Unfold
<1> QED BY <1>4, <1>5

(* A sum is its first term and the sum of the rest.                        *)
LEMMA SumPicked ==
    ASSUME NEW f, NEW S, IsFiniteSet(S), S # {}
    PROVE  SumFunctionOnSet(f, S) = f[Picked(S)] + SumFunctionOnSet(f, S \ {Picked(S)})
<1>1. PICK s : IsSum(s, f, S)
  BY SumExists
<1>2. PICK T \in SUBSET S : T = S \ {Picked(S)}
  OBVIOUS
<1>3. IsFiniteSet(T)
  BY FS_Subset
<1>4. SumFunctionOnSet(f, S) = s[S]
  BY <1>1, SumRestricted
<1>5. SumFunctionOnSet(f, T) = s[T]
  BY <1>1, <1>3, SumRestricted
<1>6. s[S] = f[Picked(S)] + s[T]
  BY <1>1, <1>2 DEF IsSum
<1> QED BY <1>2, <1>4, <1>5, <1>6

(* A sum of integers is an integer.                                        *)
LEMMA SumType ==
    ASSUME NEW S, IsFiniteSet(S), NEW f, \A x \in S : f[x] \in Int
    PROVE  SumFunctionOnSet(f, S) \in Int
<1> DEFINE Good == {T \in SUBSET S : SumFunctionOnSet(f, T) \in Int}
<1>1. ASSUME NEW T \in SUBSET S, \A x \in T : T \ {x} \in Good
      PROVE  T \in Good
  <2>1. CASE T = {}
    BY <2>1, SumEmpty
  <2>2. CASE T # {}
    <3>1. SumFunctionOnSet(f, T) = f[Picked(T)] + SumFunctionOnSet(f, T \ {Picked(T)})
      BY <2>2, SumPicked, FS_Subset
    <3>2. SumFunctionOnSet(f, T \ {Picked(T)}) \in Int /\ f[Picked(T)] \in Int
      BY <1>1, <2>2, PickedIn
    <3> QED BY <3>1, <3>2
  <2> QED BY <2>1, <2>2
<1>2. \A T \in SUBSET S : T \in Good
  <2> HIDE DEF Good
  <2> QED BY <1>1, SubsetInduction
<1> QED BY <1>2

(* It does not matter which element is taken first.                        *)
LEMMA SumRemove ==
    ASSUME NEW S, IsFiniteSet(S), NEW f, \A x \in S : f[x] \in Int, NEW y \in S
    PROVE  SumFunctionOnSet(f, S) = f[y] + SumFunctionOnSet(f, S \ {y})
<1> DEFINE Good == {T \in SUBSET S : \A x \in T :
                       SumFunctionOnSet(f, T) = f[x] + SumFunctionOnSet(f, T \ {x})}
<1>1. ASSUME NEW T \in SUBSET S, \A x \in T : T \ {x} \in Good
      PROVE  T \in Good
  <2> SUFFICES ASSUME NEW x \in T
               PROVE  SumFunctionOnSet(f, T) = f[x] + SumFunctionOnSet(f, T \ {x})
    OBVIOUS
  <2> DEFINE c == Picked(T)
  <2>1. c \in T /\ f[c] \in Int /\ f[x] \in Int
    BY PickedIn
  <2>2. SumFunctionOnSet(f, T) = f[c] + SumFunctionOnSet(f, T \ {c})
    BY SumPicked, FS_Subset
  <2> HIDE DEF c
  <2>3. CASE x = c
    BY <2>2, <2>3
  <2>4. CASE x # c
    <3> DEFINE U == (T \ {c}) \ {x}
    <3>1. SumFunctionOnSet(f, T \ {c}) = f[x] + SumFunctionOnSet(f, U)
      BY <1>1, <2>1, <2>4
    <3>2. SumFunctionOnSet(f, T \ {x}) = f[c] + SumFunctionOnSet(f, U)
      <4>1. (T \ {x}) \ {c} = U /\ c \in T \ {x}
        BY <2>1, <2>4
      <4> HIDE DEF U
      <4> QED BY <1>1, <4>1
    <3>3. SumFunctionOnSet(f, U) \in Int
      <4>1. U \in SUBSET S
        OBVIOUS
      <4> HIDE DEF U
      <4>2. IsFiniteSet(U)
        BY <4>1, FS_Subset
      <4> QED BY <4>1, <4>2, SumType
    <3> HIDE DEF U
    <3> QED BY <2>1, <2>2, <3>1, <3>2, <3>3
  <2> QED BY <2>3, <2>4
<1>2. \A T \in SUBSET S : T \in Good
  <2> HIDE DEF Good
  <2> QED BY <1>1, SubsetInduction
<1>3. S \in Good
  BY <1>2
<1> QED BY <1>3

(* Smaller terms have a smaller sum.                                       *)
LEMMA SumMonotone ==
    ASSUME NEW S, IsFiniteSet(S), NEW f, \A x \in S : f[x] \in Int,
           NEW g, \A x \in S : g[x] \in Int, \A x \in S : f[x] <= g[x]
    PROVE  SumFunctionOnSet(f, S) <= SumFunctionOnSet(g, S)
<1> DEFINE Good == {T \in SUBSET S : SumFunctionOnSet(f, T) <= SumFunctionOnSet(g, T)}
<1>1. ASSUME NEW T \in SUBSET S, \A x \in T : T \ {x} \in Good
      PROVE  T \in Good
  <2>1. CASE T = {}
    BY <2>1, SumEmpty
  <2>2. CASE T # {}
    <3> DEFINE c == Picked(T)
               U == T \ {c}
    <3>1. /\ SumFunctionOnSet(f, T) = f[c] + SumFunctionOnSet(f, U)
          /\ SumFunctionOnSet(g, T) = g[c] + SumFunctionOnSet(g, U)
      BY <2>2, SumPicked, FS_Subset
    <3>2. c \in T /\ U \in Good /\ U \in SUBSET S
      BY <1>1, <2>2, PickedIn
    <3>3. SumFunctionOnSet(f, U) <= SumFunctionOnSet(g, U)
      BY <3>2
    <3> HIDE DEF c, U
    <3>4. SumFunctionOnSet(f, U) \in Int /\ SumFunctionOnSet(g, U) \in Int
      BY <3>2, SumType, FS_Subset
    <3>5. f[c] \in Int /\ g[c] \in Int /\ f[c] <= g[c]
      BY <3>2
    <3>6. SumFunctionOnSet(f, T) <= SumFunctionOnSet(g, T)
      BY <3>1, <3>3, <3>4, <3>5
    <3> QED BY <3>6
  <2> QED BY <2>1, <2>2
<1>2. \A T \in SUBSET S : T \in Good
  <2> HIDE DEF Good
  <2> QED BY <1>1, SubsetInduction
<1>3. S \in Good
  BY <1>2
<1> QED BY <1>3

(* The sum of a sum of two functions.                                      *)
LEMMA SumAdd ==
    ASSUME NEW S, IsFiniteSet(S), NEW f, \A x \in S : f[x] \in Int,
           NEW g, \A x \in S : g[x] \in Int,
           NEW h, \A x \in S : h[x] = f[x] + g[x]
    PROVE  SumFunctionOnSet(h, S) = SumFunctionOnSet(f, S) + SumFunctionOnSet(g, S)
<1> DEFINE Good == {T \in SUBSET S :
               SumFunctionOnSet(h, T) = SumFunctionOnSet(f, T) + SumFunctionOnSet(g, T)}
<1>1. ASSUME NEW T \in SUBSET S, \A x \in T : T \ {x} \in Good
      PROVE  T \in Good
  <2>1. CASE T = {}
    BY <2>1, SumEmpty
  <2>2. CASE T # {}
    <3> DEFINE c == Picked(T)
               U == T \ {c}
    <3>1. /\ SumFunctionOnSet(f, T) = f[c] + SumFunctionOnSet(f, U)
          /\ SumFunctionOnSet(g, T) = g[c] + SumFunctionOnSet(g, U)
          /\ SumFunctionOnSet(h, T) = h[c] + SumFunctionOnSet(h, U)
      BY <2>2, SumPicked, FS_Subset
    <3>2. c \in T /\ U \in Good /\ U \in SUBSET S
      BY <1>1, <2>2, PickedIn
    <3>3. SumFunctionOnSet(h, U) = SumFunctionOnSet(f, U) + SumFunctionOnSet(g, U)
      BY <3>2
    <3> HIDE DEF c, U
    <3>4. SumFunctionOnSet(f, U) \in Int /\ SumFunctionOnSet(g, U) \in Int
      BY <3>2, SumType, FS_Subset
    <3>5. f[c] \in Int /\ g[c] \in Int /\ h[c] = f[c] + g[c]
      BY <3>2
    <3>6. SumFunctionOnSet(h, T) = SumFunctionOnSet(f, T) + SumFunctionOnSet(g, T)
      BY <3>1, <3>3, <3>4, <3>5
    <3> QED BY <3>6
  <2> QED BY <2>1, <2>2
<1>2. \A T \in SUBSET S : T \in Good
  <2> HIDE DEF Good
  <2> QED BY <1>1, SubsetInduction
<1>3. S \in Good
  BY <1>2
<1> QED BY <1>3

(* A common factor.                                                        *)
LEMMA SumScale ==
    ASSUME NEW S, IsFiniteSet(S), NEW f, \A x \in S : f[x] \in Int,
           NEW a \in Int, NEW h, \A x \in S : h[x] = a * f[x]
    PROVE  SumFunctionOnSet(h, S) = a * SumFunctionOnSet(f, S)
<1> DEFINE Good == {T \in SUBSET S : SumFunctionOnSet(h, T) = a * SumFunctionOnSet(f, T)}
<1>1. ASSUME NEW T \in SUBSET S, \A x \in T : T \ {x} \in Good
      PROVE  T \in Good
  <2>1. CASE T = {}
    BY <2>1, SumEmpty
  <2>2. CASE T # {}
    <3> DEFINE c == Picked(T)
               U == T \ {c}
    <3>1. /\ SumFunctionOnSet(f, T) = f[c] + SumFunctionOnSet(f, U)
          /\ SumFunctionOnSet(h, T) = h[c] + SumFunctionOnSet(h, U)
      BY <2>2, SumPicked, FS_Subset
    <3>2. c \in T /\ U \in Good /\ U \in SUBSET S
      BY <1>1, <2>2, PickedIn
    <3>3. SumFunctionOnSet(h, U) = a * SumFunctionOnSet(f, U)
      BY <3>2
    <3> HIDE DEF c, U
    <3>4. SumFunctionOnSet(f, U) \in Int
      BY <3>2, SumType, FS_Subset
    <3>5. f[c] \in Int /\ h[c] = a * f[c]
      BY <3>2
    <3>6. \A p, q \in Int : a * (p + q) = a * p + a * q
      OBVIOUS
    <3>7. SumFunctionOnSet(h, T) = a * SumFunctionOnSet(f, T)
      BY <3>1, <3>3, <3>4, <3>5, <3>6
    <3> QED BY <3>7
  <2> QED BY <2>1, <2>2
<1>2. \A T \in SUBSET S : T \in Good
  <2> HIDE DEF Good
  <2> QED BY <1>1, SubsetInduction
<1>3. S \in Good
  BY <1>2
<1> QED BY <1>3

(* One term changes and the others stay.                                   *)
LEMMA SumChange ==
    ASSUME NEW S, IsFiniteSet(S), NEW f, \A x \in S : f[x] \in Int,
           NEW g, \A x \in S : g[x] \in Int,
           NEW y \in S, \A x \in S \ {y} : g[x] = f[x]
    PROVE  SumFunctionOnSet(g, S) = SumFunctionOnSet(f, S) + (g[y] - f[y])
<1> DEFINE R == S \ {y}
<1>1. IsFiniteSet(R) /\ R \in SUBSET S
  BY FS_RemoveElement
<1>2. /\ SumFunctionOnSet(f, S) = f[y] + SumFunctionOnSet(f, R)
      /\ SumFunctionOnSet(g, S) = g[y] + SumFunctionOnSet(g, R)
  BY SumRemove
<1>3. SumFunctionOnSet(f, R) \in Int /\ SumFunctionOnSet(g, R) \in Int
  BY <1>1, SumType
<1>4. SumFunctionOnSet(f, R) <= SumFunctionOnSet(g, R)
  BY <1>1, SumMonotone
<1>5. SumFunctionOnSet(g, R) <= SumFunctionOnSet(f, R)
  BY <1>1, SumMonotone
<1> HIDE DEF R
<1> QED BY <1>2, <1>3, <1>4, <1>5

=============================================================================
