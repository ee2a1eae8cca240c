---------------------------- MODULE MetricsProof ----------------------------
(***************************************************************************)
(* Proofs about FileMetrics and Scoring, the way of a file to its score.   *)
(*                                                                         *)
(* FileMetrics: a stack holds nodes none of which is above another, so     *)
(* each node of the tree is below exactly one of them, or waits no longer. *)
(* What waits no longer is what has been found, or counted: the tallies    *)
(* are those of the nodes passed, with the depths that the stack gives.    *)
(*                                                                         *)
(* Scoring: rounding, the segments of a rule, the distance from the exact  *)
(* value, and that neither a metric nor the score falls when a raw value   *)
(* grows.                                                                  *)
(***************************************************************************)
EXTENDS FileMetrics, Scoring, Sums, SequenceTheorems

-----------------------------------------------------------------------------
(* Trees.                                                                  *)

IsTree(N, p) == N \in Nat \ {0} /\ \A n \in 2..N : p[n] \in 1..(n - 1)

IsAbove(a, N, p) == a = [n \in 1..N |-> IF n = 1 THEN {} ELSE {p[n]} \cup a[p[n]]]

(* The function that gives the ancestors exists: for the first k nodes, by *)
(* induction on k.                                                         *)
LEMMA AboveExists ==
    ASSUME NEW N, NEW p, IsTree(N, p)
    PROVE  \E a : IsAbove(a, N, p)
<1> DEFINE Upto(k) == {n \in 1..N : n <= k}
           Partial(a, k) == a = [n \in Upto(k) |-> IF n = 1 THEN {} ELSE {p[n]} \cup a[p[n]]]
           Good == {k \in Nat : \E a : Partial(a, k)}
<1>0. N \in Nat /\ \A n \in 1..N : n # 1 => p[n] \in 1..(n - 1)
  BY DEF IsTree
<1>1. 0 \in Good
  <2> DEFINE a == [n \in Upto(0) |-> {}]
  <2>1. Upto(0) = {}
    BY <1>0
  <2>2. Partial(a, 0)
    BY <2>1
  <2> QED BY <2>2
<1>2. ASSUME NEW k \in Good PROVE k + 1 \in Good
  <2>1. PICK a : Partial(a, k)
    OBVIOUS
  <2> DEFINE Value(n) == IF n = 1 THEN {} ELSE {p[n]} \cup a[p[n]]
             b == [n \in Upto(k + 1) |-> Value(n)]
  <2>2. \A n \in Upto(k) : n \in Upto(k + 1) /\ b[n] = a[n]
    <3> TAKE n \in Upto(k)
    <3>1. n \in Upto(k + 1)
      BY <1>0
    <3>2. a[n] = Value(n)
      BY <2>1
    <3> QED BY <3>1, <3>2
  <2>3. \A n \in Upto(k + 1) : n # 1 => p[n] \in Upto(k)
    BY <1>0
  <2>4. \A n \in Upto(k + 1) : b[n] = IF n = 1 THEN {} ELSE {p[n]} \cup b[p[n]]
    BY <2>2, <2>3
  <2>5. Partial(b, k + 1)
    <3>1. b = [n \in Upto(k + 1) |-> b[n]]
      OBVIOUS
    <3> HIDE DEF b, Upto
    <3> QED BY <2>4, <3>1
  <2>6. k + 1 \in Nat
    OBVIOUS
  <2> HIDE DEF Partial, b
  <2> QED BY <2>5, <2>6
<1>3. Good = Nat
  <2> HIDE DEF Good
  <2>1. Good \in SUBSET Nat
    BY DEF Good
  <2> QED BY <1>1, <1>2, <2>1, NumberInduction
<1>4. PICK a : Partial(a, N)
  BY <1>0, <1>3
<1>5. Upto(N) = 1..N
  BY <1>0
<1>6. a = [n \in 1..N |-> IF n = 1 THEN {} ELSE {p[n]} \cup a[p[n]]]
  <2> HIDE DEF Upto
  <2> QED BY <1>4, <1>5
<1> QED BY <1>6 DEF IsAbove

(* What holds of a node once it holds of its parent holds of all nodes.    *)
LEMMA TreeInduction ==
    ASSUME NEW N, NEW p, IsTree(N, p), NEW Good,
           1 \in Good, \A n \in 2..N : p[n] \in Good => n \in Good
    PROVE  1..N \subseteq Good
<1> SUFFICES ASSUME NEW n0 \in 1..N, n0 \notin Good PROVE FALSE
  OBVIOUS
<1> DEFINE Bad == {n \in 1..N : n \notin Good}
<1>0. N \in Nat
  BY DEF IsTree
<1>1. PICK m \in Bad : \A n \in Bad : m <= n
  <2>1. Bad \in SUBSET Nat /\ Bad # {}
    OBVIOUS
  <2> HIDE DEF Bad
  <2> QED BY <2>1, LeastElement
<1>2. m \in 2..N /\ p[m] \in 1..(m - 1)
  BY <1>0, <1>1 DEF IsTree
<1>3. p[m] \in 1..N /\ ~(m <= p[m])
  BY <1>0, <1>2
<1>4. p[m] \in Good
  BY <1>1, <1>3
<1> QED BY <1>1, <1>2, <1>4

(* Ancestors come before a node, and theirs are its own; the root is one   *)
(* of everybody's; and the way from an ancestor begins with a child of it. *)
LEMMA AboveFacts ==
    ASSUME NEW N, NEW p, IsTree(N, p), NEW a, IsAbove(a, N, p)
    PROVE  /\ a[1] = {}
           /\ \A n \in 2..N : a[n] = {p[n]} \cup a[p[n]]
           /\ \A n \in 1..N : a[n] \subseteq 1..(n - 1)
           /\ \A n \in 1..N : \A m \in a[n] : a[m] \subseteq a[n]
           /\ \A n \in 2..N : 1 \in a[n]
           /\ \A n \in 1..N : \A x \in a[n] : \E c \in 2..N : p[c] = x /\ (c = n \/ c \in a[n])
<1>0. N \in Nat \ {0} /\ 1 \in 1..N /\ \A n \in 2..N : p[n] \in 1..(n - 1) /\ p[n] \in 1..N
  BY DEF IsTree
<1>1. a[1] = {}
  BY <1>0 DEF IsAbove
<1>2. \A n \in 2..N : a[n] = {p[n]} \cup a[p[n]]
  <2> TAKE n \in 2..N
  <2>1. n \in 1..N /\ n # 1
    BY <1>0
  <2> QED BY <2>1 DEF IsAbove
<1>3. \A n \in 1..N : a[n] \subseteq 1..(n - 1)
  <2> DEFINE Good == {n \in 1..N : a[n] \subseteq 1..(n - 1)}
  <2>1. 1 \in Good
    BY <1>0, <1>1
  <2>2. ASSUME NEW n \in 2..N, p[n] \in Good PROVE n \in Good
    <3>1. a[n] = {p[n]} \cup a[p[n]] /\ n \in 1..N /\ p[n] \in 1..(n - 1)
      BY <1>0, <1>2
    <3>2. a[p[n]] \subseteq 1..(p[n] - 1)
      BY <2>2
    <3>3. 1..(p[n] - 1) \subseteq 1..(n - 1)
      BY <3>1
    <3> QED BY <3>1, <3>2, <3>3
  <2> HIDE DEF Good
  <2>3. 1..N \subseteq Good
    BY <2>1, <2>2, TreeInduction
  <2> QED BY <2>3 DEF Good
<1>4. \A n \in 1..N : \A m \in a[n] : a[m] \subseteq a[n]
  <2> DEFINE Good == {n \in 1..N : \A m \in a[n] : a[m] \subseteq a[n]}
  <2>1. 1 \in Good
    BY <1>0, <1>1
  <2>2. ASSUME NEW n \in 2..N, p[n] \in Good PROVE n \in Good
    <3>1. a[n] = {p[n]} \cup a[p[n]] /\ n \in 1..N
      BY <1>0, <1>2
    <3>2. \A m \in a[p[n]] : a[m] \subseteq a[p[n]]
      BY <2>2
    <3> QED BY <3>1, <3>2
  <2> HIDE DEF Good
  <2>3. 1..N \subseteq Good
    BY <2>1, <2>2, TreeInduction
  <2> QED BY <2>3 DEF Good
<1>5. \A n \in 2..N : 1 \in a[n]
  <2> DEFINE Good == {n \in 1..N : n # 1 => 1 \in a[n]}
  <2>1. 1 \in Good
    BY <1>0
  <2>2. ASSUME NEW n \in 2..N, p[n] \in Good PROVE n \in Good
    <3>1. a[n] = {p[n]} \cup a[p[n]] /\ n \in 1..N
      BY <1>0, <1>2
    <3> QED BY <2>2, <3>1
  <2>3. 1..N \subseteq Good
    <3> HIDE DEF Good
    <3> QED BY <2>1, <2>2, TreeInduction
  <2> QED BY <1>0, <2>3
<1>6. \A n \in 1..N : \A x \in a[n] : \E c \in 2..N : p[c] = x /\ (c = n \/ c \in a[n])
  <2> DEFINE Good == {n \in 1..N : \A x \in a[n] : \E c \in 2..N : p[c] = x /\ (c = n \/ c \in a[n])}
  <2>1. 1 \in Good
    BY <1>0, <1>1
  <2>2. ASSUME NEW n \in 2..N, p[n] \in Good PROVE n \in Good
    <3>1. a[n] = {p[n]} \cup a[p[n]] /\ n \in 1..N
      BY <1>0, <1>2
    <3>2. ASSUME NEW x \in a[n] PROVE \E c \in 2..N : p[c] = x /\ (c = n \/ c \in a[n])
      <4>1. CASE x = p[n]
        BY <4>1
      <4>2. CASE x \in a[p[n]]
        <5>1. PICK c \in 2..N : p[c] = x /\ (c = p[n] \/ c \in a[p[n]])
          BY <2>2, <4>2
        <5> QED BY <3>1, <5>1
      <4> QED BY <3>1, <4>1, <4>2
    <3> QED BY <3>1, <3>2
  <2> HIDE DEF Good
  <2>3. 1..N \subseteq Good
    BY <2>1, <2>2, TreeInduction
  <2> QED BY <2>3 DEF Good
<1> QED BY <1>1, <1>2, <1>3, <1>4, <1>5, <1>6

(* A node is one deeper than its parent.                                   *)
LEMMA AboveCount ==
    ASSUME NEW N, NEW p, IsTree(N, p), NEW a, IsAbove(a, N, p)
    PROVE  /\ \A n \in 1..N : IsFiniteSet(a[n]) /\ Cardinality(a[n]) \in Nat
           /\ \A n \in 2..N : Cardinality(a[n]) = Cardinality(a[p[n]]) + 1
           /\ \A n \in 1..N : \A m \in a[n] : Cardinality(a[m]) < Cardinality(a[n])
<1>0. /\ N \in Nat \ {0} /\ \A n \in 2..N : p[n] \in 1..(n - 1) /\ p[n] \in 1..N /\ n \in 1..N
      /\ \A n \in 1..N : n - 1 \in Int
  BY DEF IsTree
<1>1. \A n \in 1..N : IsFiniteSet(a[n]) /\ Cardinality(a[n]) \in Nat
  <2> TAKE n \in 1..N
  <2>1. a[n] \subseteq 1..(n - 1)
    BY AboveFacts
  <2>2. IsFiniteSet(1..(n - 1))
    BY <1>0, FS_Interval
  <2> QED BY <2>1, <2>2, FS_Subset, FS_CardinalityType
<1>2. \A n \in 2..N : Cardinality(a[n]) = Cardinality(a[p[n]]) + 1
  <2> TAKE n \in 2..N
  <2>1. a[n] = a[p[n]] \cup {p[n]}
    BY AboveFacts
  <2>2. a[p[n]] \subseteq 1..(p[n] - 1) /\ IsFiniteSet(a[p[n]])
    BY <1>0, <1>1, AboveFacts
  <2>3. p[n] \notin a[p[n]]
    <3>1. p[n] \notin 1..(p[n] - 1)
      BY <1>0
    <3> QED BY <2>2, <3>1
  <2> QED BY <2>1, <2>2, <2>3, FS_AddElement
<1>3. ASSUME NEW n \in 1..N, NEW m \in a[n] PROVE Cardinality(a[m]) < Cardinality(a[n])
  <2>1. a[m] \subseteq a[n] /\ a[n] \subseteq 1..(n - 1)
    BY AboveFacts
  <2>2. m \in 1..N
    BY <1>0, <2>1
  <2>3. m \notin a[m]
    <3>1. a[m] \subseteq 1..(m - 1) /\ m \notin 1..(m - 1)
      BY <2>2, AboveFacts
    <3> QED BY <3>1
  <2>4. a[m] # a[n]
    BY <2>3
  <2>5. Cardinality(a[m]) <= Cardinality(a[n]) /\ (Cardinality(a[m]) = Cardinality(a[n]) => a[m] = a[n])
    BY <1>1, <2>1, FS_Subset
  <2> QED BY <1>1, <2>2, <2>4, <2>5
<1> QED BY <1>1, <1>2, <1>3

(* Of two ancestors of a node one is above the other.                      *)
LEMMA AboveChain ==
    ASSUME NEW N, NEW p, IsTree(N, p), NEW a, IsAbove(a, N, p)
    PROVE  \A n \in 1..N : \A x, y \in a[n] : x = y \/ x \in a[y] \/ y \in a[x]
<1> DEFINE Good == {n \in 1..N : \A x, y \in a[n] : x = y \/ x \in a[y] \/ y \in a[x]}
<1>0. N \in Nat \ {0}
  BY DEF IsTree
<1>1. 1 \in Good
  BY <1>0, AboveFacts
<1>2. ASSUME NEW n \in 2..N, p[n] \in Good PROVE n \in Good
  <2>1. a[n] = {p[n]} \cup a[p[n]] /\ n \in 1..N
    BY <1>0, AboveFacts
  <2>2. \A x, y \in a[p[n]] : x = y \/ x \in a[y] \/ y \in a[x]
    BY <1>2
  <2> QED BY <2>1, <2>2
<1> HIDE DEF Good
<1>3. 1..N \subseteq Good
  BY <1>1, <1>2, TreeInduction
<1> QED BY <1>3 DEF Good

-----------------------------------------------------------------------------
(* Fronts: nodes none of which is above another one.  What waits is what   *)
(* is in a front or below it.                                              *)

Under(N, p, n) == {c \in (1..N) \ {1} : p[c] = n}

IsFront(L, N, a) == L \in SUBSET (1..N) /\ \A x, y \in L : x \notin a[y]

Waits(L, a, x) == x \in L \/ \E y \in L : y \in a[x]

(* What a child has above it.                                              *)
LEMMA UnderFacts ==
    ASSUME NEW N, NEW p, IsTree(N, p), NEW a, IsAbove(a, N, p), NEW n \in 1..N
    PROVE  /\ Under(N, p, n) \in SUBSET (1..N)
           /\ n \notin a[n]
           /\ \A c \in Under(N, p, n) : /\ c # n /\ a[c] = {n} \cup a[n] /\ c \notin a[n]
                                        /\ Cardinality(a[c]) = Cardinality(a[n]) + 1
<1>0. N \in Nat \ {0} /\ n \in Nat /\ \A c \in 2..N : p[c] \in 1..(c - 1)
  BY DEF IsTree
<1>1. a[n] \subseteq 1..(n - 1)
  BY AboveFacts
<1>2. n \notin a[n]
  BY <1>0, <1>1
<1>3. ASSUME NEW c \in Under(N, p, n)
      PROVE  /\ c # n /\ a[c] = {n} \cup a[n] /\ c \notin a[n]
             /\ Cardinality(a[c]) = Cardinality(a[n]) + 1
  <2>1. c \in 2..N /\ p[c] = n
    BY <1>0 DEF Under
  <2>2. c > n
    BY <1>0, <2>1
  <2>3. c \notin 1..(n - 1)
    BY <1>0, <2>2
  <2>4. a[c] = {n} \cup a[n]
    BY <2>1, AboveFacts
  <2>5. Cardinality(a[c]) = Cardinality(a[n]) + 1
    BY <2>1, AboveCount
  <2> QED BY <1>0, <1>1, <2>2, <2>3, <2>4, <2>5
<1> QED BY <1>2, <1>3 DEF Under

(* A node of a front gives way to its children: it waits no longer, all    *)
(* others do as before.                                                    *)
LEMMA FrontExpand ==
    ASSUME NEW N, NEW p, IsTree(N, p), NEW a, IsAbove(a, N, p),
           NEW L, IsFront(L, N, a), NEW n \in L,
           NEW K, K = (L \ {n}) \cup Under(N, p, n)
    PROVE  /\ L \cap Under(N, p, n) = {}
           /\ IsFront(K, N, a)
           /\ \A x \in 1..N : Waits(K, a, x) <=> Waits(L, a, x) /\ x # n
<1>0. n \in 1..N /\ L \in SUBSET (1..N) /\ \A x, y \in L : x \notin a[y]
  BY DEF IsFront
<1>1. /\ Under(N, p, n) \in SUBSET (1..N)
      /\ n \notin a[n]
      /\ \A c \in Under(N, p, n) : c # n /\ a[c] = {n} \cup a[n] /\ c \notin a[n]
  BY <1>0, UnderFacts
<1>2. \A x \in 1..N : \A y \in a[x] : y \in 1..N /\ a[y] \subseteq a[x] /\ x \notin a[y] /\ x # y
  <2> TAKE x \in 1..N
  <2> TAKE y \in a[x]
  <2>1. N \in Nat /\ a[x] \subseteq 1..(x - 1) /\ a[y] \subseteq a[x]
    BY AboveFacts DEF IsTree
  <2>2. y \in 1..N /\ x # y /\ x \notin 1..(x - 1)
    BY <2>1
  <2> QED BY <2>1, <2>2
<1>3. L \cap Under(N, p, n) = {}
  BY <1>0, <1>1
<1>4. ASSUME NEW x \in K, NEW y \in K PROVE x \notin a[y]
  <2>1. CASE x \in L /\ y \in L
    BY <1>0, <2>1
  <2>2. CASE x \in L \ {n} /\ y \in Under(N, p, n)
    BY <1>0, <1>1, <2>2
  <2>3. CASE x \in Under(N, p, n) /\ y \in L
    <3> SUFFICES ASSUME x \in a[y] PROVE FALSE
      OBVIOUS
    <3>1. n \in a[x] /\ a[x] \subseteq a[y]
      BY <1>0, <1>1, <1>2, <2>3
    <3> QED BY <1>0, <2>3, <3>1
  <2>4. CASE x \in Under(N, p, n) /\ y \in Under(N, p, n)
    BY <1>1, <2>4
  <2> QED BY <2>1, <2>2, <2>3, <2>4
<1>5. ASSUME NEW x \in 1..N, Waits(K, a, x) PROVE Waits(L, a, x) /\ x # n
  <2>1. PICK y \in K : y = x \/ y \in a[x]
    BY <1>5 DEF Waits
  <2>2. CASE y \in L \ {n}
    BY <1>0, <2>1, <2>2 DEF Waits
  <2>3. CASE y \in Under(N, p, n)
    <3>1. n \in a[x]
      BY <1>1, <1>2, <2>1, <2>3
    <3> QED BY <1>1, <3>1 DEF Waits
  <2> QED BY <2>2, <2>3
<1>6. ASSUME NEW x \in 1..N, Waits(L, a, x), x # n PROVE Waits(K, a, x)
  <2>1. PICK y \in L : y = x \/ y \in a[x]
    BY <1>6 DEF Waits
  <2>2. CASE y # n
    BY <2>1, <2>2 DEF Waits
  <2>3. CASE y = n
    <3>1. PICK c \in 2..N : p[c] = n /\ (c = x \/ c \in a[x])
      BY <1>6, <2>1, <2>3, AboveFacts
    <3>2. c \in Under(N, p, n)
      BY <3>1 DEF Under, IsTree
    <3> QED BY <3>1, <3>2 DEF Waits
  <2> QED BY <2>2, <2>3
<1>7. K \in SUBSET (1..N)
  BY <1>0, <1>1
<1> QED BY <1>3, <1>4, <1>5, <1>6, <1>7 DEF IsFront

(* A node of a front is left out, with all that is below it.               *)
LEMMA FrontDrop ==
    ASSUME NEW N, NEW p, IsTree(N, p), NEW a, IsAbove(a, N, p),
           NEW L, IsFront(L, N, a), NEW n \in L, NEW K, K = L \ {n}
    PROVE  /\ IsFront(K, N, a)
           /\ \A x \in 1..N : Waits(K, a, x) <=> Waits(L, a, x) /\ x # n /\ n \notin a[x]
<1>0. n \in 1..N /\ L \in SUBSET (1..N) /\ \A x, y \in L : x \notin a[y]
  BY DEF IsFront
<1>1. ASSUME NEW x \in 1..N, Waits(K, a, x) PROVE Waits(L, a, x) /\ x # n /\ n \notin a[x]
  <2>1. PICK y \in K : y = x \/ y \in a[x]
    BY <1>1 DEF Waits
  <2>2. CASE y = x
    BY <1>0, <2>1, <2>2 DEF Waits
  <2>3. CASE y \in a[x]
    <3>1. n \in a[x] => n = y \/ n \in a[y] \/ y \in a[n]
      BY <2>3, AboveChain
    <3> QED BY <1>0, <2>1, <2>3, <3>1 DEF Waits
  <2> QED BY <2>1, <2>2, <2>3
<1>2. ASSUME NEW x \in 1..N, Waits(L, a, x), x # n, n \notin a[x] PROVE Waits(K, a, x)
  BY <1>2 DEF Waits
<1> QED BY <1>0, <1>1, <1>2 DEF IsFront

-----------------------------------------------------------------------------
(* Stacks.                                                                 *)

(* A set of nodes is finite.                                               *)
LEMMA NodesFinite ==
    ASSUME NEW N \in Nat, NEW S \in SUBSET (1..N)
    PROVE  IsFiniteSet(S) /\ Cardinality(S) \in Nat /\ \A x \in S : x \in Nat /\ x <= N
<1>1. IsFiniteSet(1..N)
  BY FS_Interval
<1>2. IsFiniteSet(S)
  BY <1>1, FS_Subset
<1> QED BY <1>2, FS_CardinalityType

(* A set of nodes has an ordered enumeration, by induction on the set.     *)
LEMMA OrderedExists ==
    ASSUME NEW N \in Nat, NEW S \in SUBSET (1..N)
    PROVE  \E s \in [1..Cardinality(S) -> S] :
               Range(s) = S /\ \A i, j \in DOMAIN s : i < j => s[i] < s[j]
<1> DEFINE Lists(T, s) == /\ s \in [1..Cardinality(T) -> T]
                          /\ \A x \in T : \E i \in 1..Cardinality(T) : s[i] = x
                          /\ \A i, j \in 1..Cardinality(T) : i < j => s[i] < s[j]
           Good == {T \in SUBSET S : \E s : Lists(T, s)}
<1>0. IsFiniteSet(S) /\ \A T \in SUBSET S : IsFiniteSet(T) /\ Cardinality(T) \in Nat
  <2>1. \A T \in SUBSET S : T \in SUBSET (1..N)
    OBVIOUS
  <2> QED BY <2>1, NodesFinite
<1>1. ASSUME NEW T \in SUBSET S, \A x \in T : T \ {x} \in Good
      PROVE  T \in Good
  <2>1. CASE T = {}
    <3>1. Cardinality(T) = 0 /\ 1..0 = {}
      BY <2>1, FS_EmptySet
    <3>2. Lists(T, [i \in 1..0 |-> i])
      BY <2>1, <3>1
    <3> QED BY <3>2
  <2>2. CASE T # {}
    <3>1. PICK m \in T : \A x \in T : x <= m
      <4> DEFINE D == {N - x : x \in T}
      <4>1. D \in SUBSET Nat /\ D # {}
        <5>1. \A x \in T : x \in Nat /\ x <= N
          BY NodesFinite
        <5>2. \A x \in T : N - x \in Nat
          BY <5>1
        <5> QED BY <2>2, <5>2
      <4>2. PICK d \in D : \A e \in D : d <= e
        BY <4>1, LeastElement
      <4>3. PICK m \in T : d = N - m
        BY <4>2
      <4>4. \A x \in T : d <= N - x
        BY <4>2
      <4>5. \A x \in T : x \in Int
        OBVIOUS
      <4>6. \A x \in T : x <= m
        BY <4>3, <4>4, <4>5
      <4> QED BY <4>6
    <3> DEFINE U == T \ {m}
               k == Cardinality(U)
    <3>2. k \in Nat /\ Cardinality(T) = k + 1
      BY <1>0, FS_RemoveElement
    <3>3. PICK s : Lists(U, s)
      BY <1>1
    <3> DEFINE r == [i \in 1..(k + 1) |-> IF i <= k THEN s[i] ELSE m]
    <3>4. \A x \in U : x \in T /\ x \in Int /\ m \in Int /\ x < m
      BY <3>1
    <3>5. s \in [1..k -> U] /\ (\A x \in U : \E i \in 1..k : s[i] = x)
          /\ \A i, j \in 1..k : i < j => s[i] < s[j]
      BY <3>3
    <3> HIDE DEF k, Lists
    <3>6. r \in [1..(k + 1) -> T] /\ (\A i \in 1..k : i \in 1..(k + 1) /\ r[i] = s[i]) /\ r[k + 1] = m
      BY <3>2, <3>4, <3>5
    <3> HIDE DEF r
    <3>7. \A x \in T : \E i \in 1..(k + 1) : r[i] = x
      BY <3>2, <3>5, <3>6
    <3>8. ASSUME NEW i \in 1..(k + 1), NEW j \in 1..(k + 1), i < j PROVE r[i] < r[j]
      <4>1. i \in 1..k
        BY <3>2, <3>8
      <4>2. CASE j \in 1..k
        BY <3>5, <3>6, <3>8, <4>1, <4>2
      <4>3. CASE j = k + 1
        BY <3>4, <3>5, <3>6, <4>1, <4>3
      <4> QED BY <3>2, <4>2, <4>3
    <3>9. Lists(T, r)
      BY <3>2, <3>6, <3>7, <3>8 DEF Lists
    <3> QED BY <3>9
  <2> QED BY <2>1, <2>2
<1>2. \A T \in SUBSET S : T \in Good
  <2> HIDE DEF Good
  <2> QED BY <1>0, <1>1, SubsetInduction
<1>3. PICK s : Lists(S, s)
  BY <1>2
<1>4. Range(s) = S /\ DOMAIN s = 1..Cardinality(S)
  BY <1>3 DEF Range
<1> QED BY <1>3, <1>4

Entries(N) == [node : 1..N, depth : Int]

(* w is t below k entries, whose nodes are S in some order o.              *)
IsPushed(w, S, d, t, k, o) ==
    /\ k \in Nat /\ o \in [1..k -> S]
    /\ Len(w) = k + Len(t)
    /\ \A i \in 1..k : w[i].node = o[i] /\ w[i].depth = d /\ w[i] = [node |-> o[i], depth |-> d]
    /\ \A i \in 1..Len(t) : w[k + i] = t[i]
    /\ \A x \in S : \E i \in 1..k : o[i] = x
    /\ \A i, j \in 1..k : o[i] = o[j] => i = j

(* Pushing S puts one entry for each of its elements on the stack.         *)
LEMMA PushShape ==
    ASSUME NEW N \in Nat, NEW S \in SUBSET (1..N), NEW d \in Int, NEW t \in Seq(Entries(N)),
           NEW w, w = Push(S, d, t)
    PROVE  w \in Seq(Entries(N)) /\ \E k, o : IsPushed(w, S, d, t, k, o)
<1>1. PICK k : k = Cardinality(S)
  OBVIOUS
<1>2. k \in Nat
  BY <1>1, NodesFinite
<1>3. PICK o : o = Ordered(S)
  OBVIOUS
<1>4. /\ o \in [1..k -> S] /\ Range(o) = S
      /\ \A i, j \in DOMAIN o : i < j => o[i] < o[j]
  <2>1. \E s \in [1..Cardinality(S) -> S] :
               Range(s) = S /\ \A i, j \in DOMAIN s : i < j => s[i] < s[j]
    BY OrderedExists
  <2> QED BY <1>1, <1>3, <2>1 DEF Ordered
<1>5. \A x \in S : \E i \in 1..k : o[i] = x
  BY <1>4 DEF Range
<1>6. \A i, j \in 1..k : o[i] = o[j] => i = j
  <2> TAKE i, j \in 1..k
  <2>1. o[i] \in Int /\ o[j] \in Int /\ i \in DOMAIN o /\ j \in DOMAIN o
    <3>1. o[i] \in S /\ o[j] \in S /\ DOMAIN o = 1..k
      BY <1>4
    <3>2. \A x \in S : x \in Int
      BY NodesFinite
    <3>3. o[i] \in Int /\ o[j] \in Int
      BY <3>1, <3>2
    <3> QED BY <3>1, <3>3
  <2>2. (i < j => o[i] < o[j]) /\ (j < i => o[j] < o[i])
    BY <1>4, <2>1
  <2> QED BY <1>2, <2>1, <2>2
<1> DEFINE f == [i \in 1..k |-> [node |-> o[i], depth |-> d]]
<1>7. w = f \o t
  BY <1>1, <1>3 DEF Push
<1>8. \A i \in 1..k : f[i] = [node |-> o[i], depth |-> d] /\ f[i] \in Entries(N)
  BY <1>4 DEF Entries
<1>9. f \in Seq(Entries(N)) /\ Len(f) = k
  BY <1>2, <1>8
<1> HIDE DEF f
<1>10. /\ f \o t \in Seq(Entries(N)) /\ Len(f \o t) = k + Len(t)
       /\ \A i \in 1..(k + Len(t)) : (f \o t)[i] = IF i <= k THEN f[i] ELSE t[i - k]
  BY <1>9, ConcatProperties
<1>11. Len(t) \in Nat
  BY LenProperties
<1>12. \A i \in 1..k : (f \o t)[i] = f[i]
  BY <1>2, <1>10, <1>11
<1>13. \A i \in 1..Len(t) : (f \o t)[k + i] = t[i]
  <2> TAKE i \in 1..Len(t)
  <2>1. k + i \in 1..(k + Len(t)) /\ ~(k + i <= k) /\ (k + i) - k = i
    BY <1>2, <1>11
  <2> QED BY <1>10, <2>1
<1>14. \A i \in 1..k : w[i] = [node |-> o[i], depth |-> d]
  BY <1>7, <1>8, <1>12
<1>15. w \in Seq(Entries(N)) /\ Len(w) = k + Len(t) /\ \A i \in 1..Len(t) : w[k + i] = t[i]
  BY <1>7, <1>10, <1>13
<1>16. \A i \in 1..k : w[i].node = o[i] /\ w[i].depth = d
  <2> TAKE i \in 1..k
  <2>1. w[i] = [node |-> o[i], depth |-> d]
    BY <1>14
  <2> QED BY <2>1
<1>17. IsPushed(w, S, d, t, k, o)
  BY <1>2, <1>4, <1>5, <1>6, <1>14, <1>15, <1>16 DEF IsPushed
<1> QED BY <1>15, <1>17

(* The entries that stand for a visit, and their nodes.                    *)
Live(w) == {i \in 1..Len(w) : w[i].depth # Leave}
Held(w) == {w[i].node : i \in Live(w)}
Apart(w) == \A i, j \in Live(w) : w[i].node = w[j].node => i = j

StackOK(w, N, a) == w \in Seq(Entries(N)) /\ Apart(w) /\ IsFront(Held(w), N, a)

ComesFrom(w, S, d, t) ==
    \A i \in 1..Len(w) : \/ \E c \in S : w[i] = [node |-> c, depth |-> d]
                         \/ \E j \in 1..Len(t) : w[i] = t[j]

(* Where the entries of a stack come from after a push.                    *)
LEMMA PushEntries ==
    ASSUME NEW N \in Nat, NEW S \in SUBSET (1..N), NEW d \in Int, NEW t \in Seq(Entries(N)),
           NEW w, w = Push(S, d, t)
    PROVE  ComesFrom(w, S, d, t)
<1>k. PICK k, o : IsPushed(w, S, d, t, k, o)
  BY PushShape
<1>1. /\ k \in Nat /\ o \in [1..k -> S]
      /\ Len(w) = k + Len(t)
      /\ \A i \in 1..k : w[i].node = o[i] /\ w[i].depth = d /\ w[i] = [node |-> o[i], depth |-> d]
      /\ \A i \in 1..Len(t) : w[k + i] = t[i]
      /\ \A x \in S : \E i \in 1..k : o[i] = x
      /\ \A i, j \in 1..k : o[i] = o[j] => i = j
  BY <1>k DEF IsPushed
<1>2. Len(t) \in Nat
  BY LenProperties
<1> SUFFICES ASSUME NEW i \in 1..Len(w)
             PROVE  \/ \E c \in S : w[i] = [node |-> c, depth |-> d]
                    \/ \E j \in 1..Len(t) : w[i] = t[j]
  BY DEF ComesFrom
<1>3. CASE i \in 1..k
  BY <1>1, <1>3
<1>4. CASE i \notin 1..k
  <2>1. i - k \in 1..Len(t) /\ k + (i - k) = i
    BY <1>1, <1>2, <1>4
  <2>2. w[i] = t[i - k]
    BY <1>1, <2>1
  <2> QED BY <2>1, <2>2
<1> QED BY <1>3, <1>4

(* A push of visits that are not on the stack.                             *)
LEMMA PushLive ==
    ASSUME NEW N \in Nat, NEW S \in SUBSET (1..N), NEW d \in Int, d # Leave,
           NEW t \in Seq(Entries(N)), Apart(t), S \cap Held(t) = {},
           NEW w, w = Push(S, d, t)
    PROVE  w \in Seq(Entries(N)) /\ Apart(w) /\ Held(w) = S \cup Held(t)
<1>k. PICK k, o : IsPushed(w, S, d, t, k, o)
  BY PushShape
<1>1. /\ k \in Nat /\ o \in [1..k -> S]
      /\ Len(w) = k + Len(t)
      /\ \A i \in 1..k : w[i].node = o[i] /\ w[i].depth = d /\ w[i] = [node |-> o[i], depth |-> d]
      /\ \A i \in 1..Len(t) : w[k + i] = t[i]
      /\ \A x \in S : \E i \in 1..k : o[i] = x
      /\ \A i, j \in 1..k : o[i] = o[j] => i = j
  BY <1>k DEF IsPushed
<1>2. Len(t) \in Nat
  BY LenProperties
<1>3. \A i \in 1..k : i \in Live(w) /\ w[i].node = o[i] /\ o[i] \in S
  <2> TAKE i \in 1..k
  <2>1. i \in 1..Len(w)
    BY <1>1, <1>2
  <2>2. w[i].node = o[i] /\ w[i].depth = d /\ o[i] \in S
    BY <1>1
  <2> QED BY <2>1, <2>2 DEF Live
<1>4. \A i \in 1..Len(t) : k + i \in 1..Len(w)
  BY <1>1, <1>2
<1>5. \A i \in Live(t) : k + i \in Live(w) /\ w[k + i].node = t[i].node
  BY <1>1, <1>4 DEF Live
<1>6. \A i \in Live(w) : i \in 1..k \/ (i - k \in Live(t) /\ w[i].node = t[i - k].node /\ i \in Int)
  <2> SUFFICES ASSUME NEW i \in Live(w), i \notin 1..k
               PROVE  i - k \in Live(t) /\ w[i].node = t[i - k].node /\ i \in Int
    OBVIOUS
  <2>1. i - k \in 1..Len(t) /\ k + (i - k) = i /\ i \in Int
    BY <1>1, <1>2 DEF Live
  <2>2. w[i] = t[i - k]
    BY <1>1, <2>1
  <2> QED BY <2>1, <2>2 DEF Live
<1>7. Held(w) = S \cup Held(t)
  <2>1. ASSUME NEW x \in Held(w) PROVE x \in S \cup Held(t)
    <3>1. PICK i \in Live(w) : x = w[i].node
      BY DEF Held
    <3> QED BY <1>3, <1>6, <3>1 DEF Held
  <2>2. ASSUME NEW x \in S PROVE x \in Held(w)
    <3>1. PICK i \in 1..k : o[i] = x
      BY <1>1
    <3> QED BY <1>3, <3>1 DEF Held
  <2>3. ASSUME NEW x \in Held(t) PROVE x \in Held(w)
    <3>1. PICK i \in Live(t) : x = t[i].node
      BY DEF Held
    <3> QED BY <1>5, <3>1 DEF Held
  <2> QED BY <2>1, <2>2, <2>3
<1>8. ASSUME NEW i \in Live(w), NEW j \in Live(w), w[i].node = w[j].node PROVE i = j
  <2>1. CASE i \in 1..k /\ j \in 1..k
    BY <1>1, <1>3, <1>8, <2>1
  <2>2. CASE i \in 1..k /\ j \notin 1..k
    <3>1. j - k \in Live(t) /\ w[j].node = t[j - k].node
      BY <1>6, <2>2
    <3> QED BY <1>3, <1>8, <2>2, <3>1 DEF Held
  <2>3. CASE i \notin 1..k /\ j \in 1..k
    <3>1. i - k \in Live(t) /\ w[i].node = t[i - k].node
      BY <1>6, <2>3
    <3> QED BY <1>3, <1>8, <2>3, <3>1 DEF Held
  <2>4. CASE i \notin 1..k /\ j \notin 1..k
    <3>1. i - k \in Live(t) /\ j - k \in Live(t) /\ i \in Int /\ j \in Int
      BY <1>6, <2>4
    <3>2. i - k = j - k
      BY <1>6, <1>8, <2>4, <3>1 DEF Apart
    <3> QED BY <1>1, <3>1, <3>2
  <2> QED BY <2>1, <2>2, <2>3, <2>4
<1> QED BY <1>7, <1>8, PushShape DEF Apart

IsEntered(w, n, t) ==
    /\ Len(w) = 1 + Len(t) /\ w[1].node = n /\ w[1].depth = Leave
    /\ \A i \in 1..Len(t) : w[1 + i] = t[i]

(* A push of the rest of a visit.                                          *)
LEMMA PushLeave ==
    ASSUME NEW N \in Nat, NEW n \in 1..N, NEW t \in Seq(Entries(N)), Apart(t),
           NEW w, w = Push({n}, Leave, t)
    PROVE  /\ w \in Seq(Entries(N)) /\ Apart(w) /\ Held(w) = Held(t)
           /\ IsEntered(w, n, t)
<1>0. {n} \in SUBSET (1..N) /\ Leave \in Int
  BY DEF Leave
<1>k. PICK k, o : IsPushed(w, {n}, Leave, t, k, o)
  BY <1>0, PushShape
<1>1. /\ k \in Nat /\ o \in [1..k -> {n}]
      /\ Len(w) = k + Len(t)
      /\ \A i \in 1..k : w[i].node = o[i] /\ w[i].depth = Leave /\ w[i] = [node |-> o[i], depth |-> Leave]
      /\ \A i \in 1..Len(t) : w[k + i] = t[i]
      /\ \A x \in {n} : \E i \in 1..k : o[i] = x
      /\ \A i, j \in 1..k : o[i] = o[j] => i = j
  BY <1>k DEF IsPushed
<1>2. Len(t) \in Nat
  BY LenProperties
<1>3. k = 1
  <2>1. k # 0
    BY <1>1
  <2>2. CASE k > 1
    <3>1. 1 \in 1..k /\ 2 \in 1..k /\ o[1] = o[2]
      BY <1>1, <2>2
    <3> QED BY <1>1, <3>1
  <2> QED BY <1>1, <2>1, <2>2
<1>4. w[1].node = n /\ w[1].depth = Leave /\ Len(w) = 1 + Len(t) /\ \A i \in 1..Len(t) : w[1 + i] = t[i]
  <2>1. 1 \in 1..k /\ o[1] = n
    BY <1>1, <1>3
  <2> QED BY <1>1, <1>3, <2>1
<1>5. \A i \in Live(t) : 1 + i \in Live(w) /\ w[1 + i].node = t[i].node
  <2> TAKE i \in Live(t)
  <2>1. i \in 1..Len(t) /\ t[i].depth # Leave
    BY DEF Live
  <2>2. 1 + i \in 1..Len(w) /\ w[1 + i] = t[i]
    <3>1. 1 + i \in 1..Len(w)
      BY <1>2, <1>4, <2>1
    <3> QED BY <1>4, <2>1, <3>1
  <2> QED BY <2>1, <2>2 DEF Live
<1>6. \A i \in Live(w) : i - 1 \in Live(t) /\ w[i].node = t[i - 1].node /\ i \in Int
  <2> TAKE i \in Live(w)
  <2>1. i \in 1..(1 + Len(t)) /\ i # 1
    BY <1>4 DEF Live
  <2>2. i - 1 \in 1..Len(t) /\ 1 + (i - 1) = i
    BY <1>2, <2>1
  <2>3. w[i] = t[i - 1]
    BY <1>4, <2>2
  <2> QED BY <2>1, <2>2, <2>3 DEF Live
<1>7. Held(w) = Held(t)
  <2>1. ASSUME NEW x \in Held(w) PROVE x \in Held(t)
    <3>1. PICK i \in Live(w) : x = w[i].node
      BY DEF Held
    <3> QED BY <1>6, <3>1 DEF Held
  <2>2. ASSUME NEW x \in Held(t) PROVE x \in Held(w)
    <3>1. PICK i \in Live(t) : x = t[i].node
      BY DEF Held
    <3> QED BY <1>5, <3>1 DEF Held
  <2> QED BY <2>1, <2>2
<1>8. ASSUME NEW i \in Live(w), NEW j \in Live(w), w[i].node = w[j].node PROVE i = j
  <2>1. i - 1 = j - 1 /\ i \in Int /\ j \in Int
    BY <1>6, <1>8 DEF Apart
  <2> QED BY <2>1
<1> QED BY <1>0, <1>4, <1>7, <1>8, PushShape DEF Apart, IsEntered

(* What is left when the top is taken off.                                 *)
LEMMA TailFacts ==
    ASSUME NEW N \in Nat, NEW w \in Seq(Entries(N)), w # << >>, Apart(w)
    PROVE  /\ Tail(w) \in Seq(Entries(N)) /\ Apart(Tail(w))
           /\ Head(w) = w[1] /\ w[1] \in Entries(N) /\ 1 \in 1..Len(w)
           /\ w[1].depth = Leave => Held(Tail(w)) = Held(w)
           /\ w[1].depth # Leave => w[1].node \in Held(w) /\ Held(Tail(w)) = Held(w) \ {w[1].node}
           /\ \A j \in 1..Len(Tail(w)) : 1 + j \in 1..Len(w) /\ Tail(w)[j] = w[1 + j]
<1>1. PICK t : t = Tail(w)
  OBVIOUS
<1>2. t \in Seq(Entries(N)) /\ Len(t) = Len(w) - 1 /\ \A i \in 1..Len(t) : t[i] = w[i + 1]
  BY <1>1, HeadTailProperties
<1>3. Len(w) \in Nat /\ Len(w) > 0 /\ Len(t) \in Nat
  BY <1>2, LenProperties, EmptySeq
<1>4. 1 \in 1..Len(w) /\ Head(w) = w[1] /\ w[1] \in Entries(N)
  BY <1>3, ElementOfSeq
<1>5. \A i \in 1..Len(t) : 1 + i \in 1..Len(w) /\ t[i] = w[1 + i]
  <2> TAKE i \in 1..Len(t)
  <2>1. 1 + i \in 1..Len(w) /\ 1 + i = i + 1
    BY <1>2, <1>3
  <2> QED BY <1>2, <2>1
<1>6. \A i \in Live(t) : 1 + i \in Live(w) /\ w[1 + i].node = t[i].node /\ i \in Nat /\ 1 + i # 1
  BY <1>5 DEF Live
<1>7. \A i \in Live(w) : i = 1 \/ (i - 1 \in Live(t) /\ w[i].node = t[i - 1].node)
  <2> SUFFICES ASSUME NEW i \in Live(w), i # 1 PROVE i - 1 \in Live(t) /\ w[i].node = t[i - 1].node
    OBVIOUS
  <2>1. i - 1 \in 1..Len(t) /\ 1 + (i - 1) = i
    BY <1>2, <1>3 DEF Live
  <2>2. w[i] = t[i - 1]
    BY <1>5, <2>1
  <2> QED BY <2>1, <2>2 DEF Live
<1>8. ASSUME NEW i \in Live(t), NEW j \in Live(t), t[i].node = t[j].node PROVE i = j
  <2>1. 1 + i = 1 + j /\ i \in Nat /\ j \in Nat
    BY <1>6, <1>8 DEF Apart
  <2> QED BY <2>1
<1>9. \A x \in Held(t) : \E i \in Live(w) : i # 1 /\ x = w[i].node
  <2> TAKE x \in Held(t)
  <2>1. PICK i \in Live(t) : x = t[i].node
    BY DEF Held
  <2> QED BY <1>6, <2>1
<1>10. ASSUME w[1].depth = Leave PROVE Held(t) = Held(w)
  <2>1. 1 \notin Live(w)
    BY <1>10 DEF Live
  <2>2. \A x \in Held(w) : x \in Held(t)
    BY <1>7, <2>1 DEF Held
  <2> QED BY <1>9, <2>2 DEF Held
<1>11. ASSUME w[1].depth # Leave PROVE w[1].node \in Held(w) /\ Held(t) = Held(w) \ {w[1].node}
  <2>1. 1 \in Live(w)
    BY <1>4, <1>11 DEF Live
  <2>2. w[1].node \in Held(w)
    BY <2>1 DEF Held
  <2>3. ASSUME NEW x \in Held(t) PROVE x \in Held(w) /\ x # w[1].node
    <3>1. PICK i \in Live(w) : i # 1 /\ x = w[i].node
      BY <1>9
    <3> QED BY <2>1, <3>1 DEF Held, Apart
  <2>4. ASSUME NEW x \in Held(w), x # w[1].node PROVE x \in Held(t)
    <3>1. PICK i \in Live(w) : x = w[i].node
      BY DEF Held
    <3> QED BY <1>7, <2>4, <3>1 DEF Held
  <2> QED BY <2>2, <2>3, <2>4
<1>12. Apart(t)
  BY <1>8 DEF Apart
<1> QED BY <1>1, <1>2, <1>4, <1>5, <1>10, <1>11, <1>12

(* A loop has n on top of its stack w, and is left with t.                 *)
IsTop(n, w, N, a) == StackOK(w, N, a) /\ w # << >> /\ Head(w).depth # Leave /\ n = Head(w).node
Drops(v, w, n, N, a) ==
    /\ Held(v) = Held(w) \ {n}
    /\ \A x \in 1..N : Waits(Held(v), a, x) <=> Waits(Held(w), a, x) /\ x # n /\ n \notin a[x]
IsRest(t, w, N) == t \in Seq(Entries(N)) /\ Apart(t) /\ Held(t) = Held(Tail(w))

(* A turn of a loop that goes on with the children of the top, below which *)
(* nothing has changed but for the rest of a visit.                        *)
LEMMA StackExpand ==
    ASSUME NEW N, NEW p, IsTree(N, p), NEW a, IsAbove(a, N, p),
           NEW w, NEW n, IsTop(n, w, N, a), NEW d \in Int, d # Leave,
           NEW t, IsRest(t, w, N),
           NEW v, v = Push(Under(N, p, n), d, t)
    PROVE  /\ n \in 1..N /\ StackOK(v, N, a)
           /\ Waits(Held(w), a, n)
           /\ \A x \in 1..N : Waits(Held(v), a, x) <=> Waits(Held(w), a, x) /\ x # n
           /\ ComesFrom(v, Under(N, p, n), d, t)
           /\ Held(v) = (Held(w) \ {n}) \cup Under(N, p, n)
<1>0. N \in Nat /\ w \in Seq(Entries(N)) /\ Apart(w) /\ IsFront(Held(w), N, a)
  BY DEF IsTree, StackOK, IsTop
<1>t. t \in Seq(Entries(N)) /\ Apart(t) /\ Held(t) = Held(Tail(w))
  BY DEF IsRest
<1>1. n \in Held(w) /\ Held(t) = Held(w) \ {n}
  BY <1>0, <1>t, TailFacts DEF IsTop
<1>2. n \in 1..N
  BY <1>0, <1>1 DEF IsFront
<1>3. PICK U : U = Under(N, p, n)
  OBVIOUS
<1>4. U \in SUBSET (1..N) /\ v = Push(U, d, t)
  BY <1>3 DEF Under
<1>5. PICK L, K : L = Held(w) /\ K = (L \ {n}) \cup Under(N, p, n)
  OBVIOUS
<1>6. IsFront(L, N, a) /\ n \in L
  BY <1>0, <1>1, <1>5
<1>7. /\ L \cap Under(N, p, n) = {} /\ IsFront(K, N, a)
      /\ \A x \in 1..N : Waits(K, a, x) <=> Waits(L, a, x) /\ x # n
  BY <1>5, <1>6, FrontExpand
<1>8. U \cap Held(t) = {}
  BY <1>1, <1>3, <1>5, <1>7
<1>9. v \in Seq(Entries(N)) /\ Apart(v) /\ Held(v) = U \cup Held(t)
  BY <1>0, <1>t, <1>4, <1>8, PushLive
<1>10. Held(v) = K
  BY <1>1, <1>3, <1>5, <1>9
<1>11. ComesFrom(v, U, d, t)
  BY <1>0, <1>t, <1>4, PushEntries
<1>12. \A x \in 1..N : Waits(Held(v), a, x) <=> Waits(Held(w), a, x) /\ x # n
  BY <1>5, <1>7, <1>10
<1>13. StackOK(v, N, a)
  BY <1>7, <1>9, <1>10 DEF StackOK
<1>14. Waits(Held(w), a, n)
  BY <1>1 DEF Waits
<1> QED BY <1>2, <1>3, <1>5, <1>10, <1>11, <1>12, <1>13, <1>14

(* A turn that leaves out what is below the top.                           *)
LEMMA StackDrop ==
    ASSUME NEW N, NEW p, IsTree(N, p), NEW a, IsAbove(a, N, p),
           NEW w, NEW n, IsTop(n, w, N, a), NEW v, v = Tail(w)
    PROVE  /\ n \in 1..N /\ StackOK(v, N, a)
           /\ Waits(Held(w), a, n)
           /\ Drops(v, w, n, N, a)
<1>0. N \in Nat /\ w \in Seq(Entries(N)) /\ Apart(w) /\ IsFront(Held(w), N, a)
  BY DEF IsTree, StackOK, IsTop
<1>1. n \in Held(w) /\ Held(v) = Held(w) \ {n} /\ v \in Seq(Entries(N)) /\ Apart(v)
  BY <1>0, TailFacts DEF IsTop
<1>2. n \in 1..N
  BY <1>0, <1>1 DEF IsFront
<1>3. /\ IsFront(Held(v), N, a)
      /\ \A x \in 1..N : Waits(Held(v), a, x) <=> Waits(Held(w), a, x) /\ x # n /\ n \notin a[x]
  BY <1>0, <1>1, FrontDrop
<1> QED BY <1>1, <1>2, <1>3 DEF StackOK, Waits, Drops

(* A stack with a single entry.                                            *)
LEMMA StackSingle ==
    ASSUME NEW N, NEW p, IsTree(N, p), NEW a, IsAbove(a, N, p),
           NEW n \in 1..N, NEW d \in Int, d # Leave,
           NEW w, w = <<[node |-> n, depth |-> d]>>
    PROVE  StackOK(w, N, a) /\ Held(w) = {n} /\ Len(w) = 1
<1>1. w \in Seq(Entries(N)) /\ Len(w) = 1 /\ w[1] = [node |-> n, depth |-> d]
  BY DEF Entries
<1>2. w[1].node = n /\ w[1].depth = d
  BY <1>1
<1>3. 1..Len(w) = {1}
  BY <1>1
<1>4. Live(w) = {1}
  BY <1>2, <1>3 DEF Live
<1>5. Held(w) = {n} /\ Apart(w)
  BY <1>2, <1>4 DEF Held, Apart
<1>6. n \notin a[n]
  BY UnderFacts
<1> QED BY <1>1, <1>5, <1>6 DEF StackOK, IsFront

(* Nothing waits for an empty stack.                                       *)
LEMMA StackEmpty ==
    ASSUME NEW N, NEW a
    PROVE  StackOK(<< >>, N, a) /\ Held(<< >>) = {}
<1> DEFINE w == << >>
<1>1. w \in Seq(Entries(N)) /\ Len(w) = 0
  OBVIOUS
<1>2. Live(w) = {}
  BY <1>1 DEF Live
<1> HIDE DEF w
<1>3. Held(w) = {} /\ Apart(w)
  BY <1>2 DEF Held, Apart
<1>4. StackOK(w, N, a) /\ Held(w) = {}
  BY <1>1, <1>3 DEF StackOK, IsFront
<1> QED BY <1>4 DEF w

-----------------------------------------------------------------------------
(* The tree of the file.                                                   *)

(* Above is the recursive function that it is defined as.                  *)
LEMMA TreeFacts ==
    ASSUME tree \in Trees
    PROVE  /\ IsTree(Len(tree.kind), tree.parent)
           /\ IsAbove(Above, Len(tree.kind), tree.parent)
<1>1. PICK N, p : N = Len(tree.kind) /\ p = tree.parent
  OBVIOUS
<1>2. IsTree(N, p)
  BY <1>1, MetricsAssumption DEF IsTree
<1>3. \E a : IsAbove(a, N, p)
  BY <1>2, AboveExists
<1>4. Above = CHOOSE a : IsAbove(a, N, p)
  BY <1>1 DEF Above, IsAbove, Nodes
<1>5. IsAbove(Above, N, p)
  BY <1>3, <1>4
<1> QED BY <1>1, <1>2, <1>5

-----------------------------------------------------------------------------
(* The search for functions.                                               *)

Wanted ==
    {f \in Functions : IF language = "typescript" THEN Cardinality(Above[f]) <= MaxNestingDepth
                       ELSE Above[f] \cap Functions = {}}

(* What has been found, and what has been found or is being counted.       *)
Found == {results[i].fn : i \in DOMAIN results}
Reached == Found \cup (IF pc = "count" THEN {fn} ELSE {})

(* The depth of an entry of walk is the node's in TypeScript; in Python no *)
(* node on it is part of a function.                                       *)
EntryOK(e) ==
    /\ e.depth \in Nat
    /\ IF language = "typescript"
       THEN e.depth = Cardinality(Above[e.node]) /\ e.depth <= MaxNestingDepth
       ELSE Above[e.node] \cap Functions = {}

WalkOK(w) == StackOK(w, Len(tree.kind), Above) /\ \A i \in 1..Len(w) : EntryOK(w[i])

(* The functions that are wanted have either been reached or wait.         *)
Splits(R, w) == /\ R \subseteq Wanted
                /\ \A f \in Wanted : f \in R <=> ~Waits(Held(w), Above, f)

SearchInv ==
    /\ tree \in Trees /\ language \in Languages
    /\ pc \in {"walk", "count", "done", "raised"}
    /\ pc = "done" => walk = << >>
    /\ WalkOK(walk)
    /\ pc # "raised" => Splits(Reached, walk)
    /\ \E S : results \in Seq(S)
    /\ IsFiniteSet(Found) /\ Cardinality(Found) = Len(results)
    /\ pc = "count" => fn \notin Found

(* What a tree fixes does not change.                                      *)
LEMMA SearchFrozen ==
    ASSUME tree' = tree, language' = language
    PROVE  /\ Above' = Above /\ Functions' = Functions /\ Wanted' = Wanted
           /\ WalkOK(walk)' <=> WalkOK(walk')
           /\ Splits(Reached, walk)' <=> Splits(Reached', walk')
<1>1. Above' = Above /\ Functions' = Functions
  BY DEF Above, Functions, Nodes
<1>2. Wanted' = Wanted
  BY <1>1 DEF Wanted
<1>3. WalkOK(walk)' <=> WalkOK(walk')
  BY <1>1 DEF WalkOK, EntryOK
<1>4. Splits(Reached, walk)' <=> Splits(Reached', walk')
  BY <1>1, <1>2 DEF Splits
<1> QED BY <1>1, <1>2, <1>3, <1>4

(* A turn of the search takes one node off what waits.  A function it      *)
(* finds is wanted; what it leaves out is not.                             *)
LEMMA SearchTurn ==
    ASSUME tree \in Trees, language \in Languages, WalkOK(walk), walk # << >>,
           NEW n, n = Head(walk).node, NEW v,
           \/ /\ v = Tail(walk)
              /\ IF language = "typescript" THEN Head(walk).depth >= MaxNestingDepth
                 ELSE n \in Functions
           \/ /\ language = "typescript" /\ ~(Head(walk).depth >= MaxNestingDepth)
              /\ v = Push(Children(n), Head(walk).depth + 1, Tail(walk))
           \/ /\ language = "python" /\ n \notin Functions
              /\ v = Push(Children(n), 0, Tail(walk))
    PROVE  /\ WalkOK(v) /\ n \in Nodes
           /\ n \in Functions => n \in Wanted
           /\ Waits(Held(walk), Above, n)
           /\ \A f \in Wanted : Waits(Held(v), Above, f) <=> Waits(Held(walk), Above, f) /\ f # n
<1>1. PICK N, p, a : N = Len(tree.kind) /\ p = tree.parent /\ a = Above
  OBVIOUS
<1>2. IsTree(N, p) /\ IsAbove(a, N, p) /\ N \in Nat /\ Nodes = 1..N
  BY <1>1, TreeFacts DEF IsTree, Nodes
<1>3. PICK w, h : w = walk /\ h = Head(w)
  OBVIOUS
<1>4. StackOK(w, N, a) /\ w # << >> /\ \A i \in 1..Len(w) : EntryOK(w[i])
  BY <1>1, <1>3 DEF WalkOK
<1>5. /\ Tail(w) \in Seq(Entries(N)) /\ Apart(Tail(w)) /\ h = w[1]
      /\ \A j \in 1..Len(Tail(w)) : 1 + j \in 1..Len(w) /\ Tail(w)[j] = w[1 + j]
      /\ 1 \in 1..Len(w)
  BY <1>2, <1>3, <1>4, TailFacts DEF StackOK
<1>6. EntryOK(h) /\ h.depth \in Nat /\ h.depth # Leave /\ n = h.node
  BY <1>3, <1>4, <1>5 DEF EntryOK, Leave
<1>7. IsTop(n, w, N, a) /\ IsRest(Tail(w), w, N)
  BY <1>3, <1>4, <1>5, <1>6 DEF IsTop, IsRest
<1>8. \A j \in 1..Len(Tail(w)) : EntryOK(Tail(w)[j])
  BY <1>4, <1>5
<1>9. MaxNestingDepth \in Nat /\ language \in {"python", "typescript"}
  BY MetricsAssumption DEF Languages
<1>10. n \in 1..N /\ Waits(Held(w), a, n)
  BY <1>2, <1>7, StackDrop
<1>u. PICK u : u = Tail(w)
  OBVIOUS
<1>d. /\ StackOK(u, N, a)
      /\ \A x \in 1..N : Waits(Held(u), a, x) <=> Waits(Held(w), a, x) /\ x # n /\ n \notin a[x]
  <2>1. StackOK(u, N, a) /\ Drops(u, w, n, N, a)
    BY <1>2, <1>7, <1>u, StackDrop
  <2> QED BY <2>1 DEF Drops
<1>11. n \in Functions => n \in Wanted
  BY <1>6, <1>9 DEF EntryOK, Wanted
<1>12. \A f \in Wanted : f \in 1..N /\ f \in Functions
  BY <1>2 DEF Wanted, Functions
<1>13. CASE /\ v = Tail(walk)
            /\ IF language = "typescript" THEN Head(walk).depth >= MaxNestingDepth
               ELSE n \in Functions
  <2>0. v = Tail(w)
    BY <1>3, <1>13
  <2>1. /\ StackOK(v, N, a)
        /\ \A x \in 1..N : Waits(Held(v), a, x) <=> Waits(Held(w), a, x) /\ x # n /\ n \notin a[x]
    BY <1>u, <1>d, <2>0
  <2>2. ASSUME NEW f \in Wanted, n \in a[f] PROVE FALSE
    <3>1. CASE language = "typescript"
      <4>1. Cardinality(a[n]) >= MaxNestingDepth /\ Cardinality(a[f]) <= MaxNestingDepth
        BY <1>1, <1>3, <1>6, <1>13, <3>1 DEF EntryOK, Wanted
      <4>2. Cardinality(a[n]) < Cardinality(a[f]) /\ Cardinality(a[n]) \in Nat /\ Cardinality(a[f]) \in Nat
        BY <1>2, <1>10, <1>12, <2>2, AboveCount
      <4> QED BY <1>9, <4>1, <4>2
    <3>2. CASE language # "typescript"
      BY <1>1, <1>13, <2>2, <3>2 DEF Wanted
    <3> QED BY <3>1, <3>2
  <2>3. \A f \in Wanted : Waits(Held(v), a, f) <=> Waits(Held(w), a, f) /\ f # n
    BY <1>12, <2>1, <2>2
  <2>4. \A i \in 1..Len(v) : EntryOK(v[i])
    BY <1>3, <1>8, <1>13
  <2> QED BY <1>1, <1>2, <1>3, <1>10, <1>11, <2>1, <2>3, <2>4 DEF WalkOK
<1>14. ASSUME NEW d \in Nat, v = Push(Children(n), d, Tail(walk)),
              \A c \in Under(N, p, n) : EntryOK([node |-> c, depth |-> d])
       PROVE  WalkOK(v) /\ \A f \in Wanted : Waits(Held(v), a, f) <=> Waits(Held(w), a, f) /\ f # n
  <2>1. v = Push(Under(N, p, n), d, Tail(w)) /\ d \in Int /\ d # Leave
    BY <1>1, <1>3, <1>14 DEF Children, Nodes, Under, Leave
  <2>2. /\ StackOK(v, N, a) /\ ComesFrom(v, Under(N, p, n), d, Tail(w))
        /\ \A x \in 1..N : Waits(Held(v), a, x) <=> Waits(Held(w), a, x) /\ x # n
    BY <1>2, <1>7, <2>1, StackExpand
  <2>3. ASSUME NEW i \in 1..Len(v) PROVE EntryOK(v[i])
    <3>1. \/ \E c \in Under(N, p, n) : v[i] = [node |-> c, depth |-> d]
          \/ \E j \in 1..Len(Tail(w)) : v[i] = Tail(w)[j]
      BY <2>2 DEF ComesFrom
    <3> QED BY <1>8, <1>14, <3>1
  <2> QED BY <1>1, <1>12, <2>2, <2>3 DEF WalkOK
<1>15. \A c \in Under(N, p, n) : a[c] = {n} \cup a[n] /\ Cardinality(a[c]) = Cardinality(a[n]) + 1
  BY <1>2, <1>10, UnderFacts
<1>16. CASE /\ language = "typescript" /\ ~(Head(walk).depth >= MaxNestingDepth)
            /\ v = Push(Children(n), Head(walk).depth + 1, Tail(walk))
  <2>1. PICK d : d = h.depth + 1
    OBVIOUS
  <2>2. d \in Nat /\ v = Push(Children(n), d, Tail(walk)) /\ d <= MaxNestingDepth
        /\ d = Cardinality(a[n]) + 1
    BY <1>1, <1>3, <1>6, <1>9, <1>16, <2>1 DEF EntryOK
  <2>3. ASSUME NEW c \in Under(N, p, n) PROVE EntryOK([node |-> c, depth |-> d])
    <3>1. Cardinality(Above[c]) = d
      BY <1>1, <1>15, <2>2
    <3> QED BY <1>16, <2>2, <3>1 DEF EntryOK
  <2> QED BY <1>1, <1>2, <1>3, <1>10, <1>11, <1>14, <2>2, <2>3
<1>17. CASE /\ language = "python" /\ n \notin Functions
            /\ v = Push(Children(n), 0, Tail(walk))
  <2>1. ASSUME NEW c \in Under(N, p, n) PROVE EntryOK([node |-> c, depth |-> 0])
    <3>1. Above[n] \cap Functions = {}
      BY <1>6, <1>17 DEF EntryOK
    <3>2. Above[c] \cap Functions = {}
      BY <1>1, <1>15, <1>17, <3>1
    <3> QED BY <1>17, <3>2 DEF EntryOK
  <2> QED BY <1>1, <1>2, <1>3, <1>10, <1>11, <1>14, <1>17, <2>1
<1> QED BY <1>13, <1>16, <1>17

(* A turn of the search, as an action: a function that is found is counted *)
(* next.                                                                   *)
LEMMA SearchStep ==
    ASSUME SearchInv, pc = "walk", walk # << >>, tree' = tree, language' = language,
           results' = results,
           NEW n, n = Head(walk).node,
           fn' = (IF n \in Functions THEN n ELSE fn),
           pc' = (IF n \in Functions THEN "count" ELSE "walk"),
           \/ /\ walk' = Tail(walk)
              /\ IF language = "typescript" THEN Head(walk).depth >= MaxNestingDepth
                 ELSE n \in Functions
           \/ /\ language = "typescript" /\ ~(Head(walk).depth >= MaxNestingDepth)
              /\ walk' = Push(Children(n), Head(walk).depth + 1, Tail(walk))
           \/ /\ language = "python" /\ n \notin Functions
              /\ walk' = Push(Children(n), 0, Tail(walk))
    PROVE  SearchInv'
<1>1. PICK v : v = walk'
  OBVIOUS
<1>2. /\ WalkOK(v) /\ n \in Nodes
      /\ n \in Functions => n \in Wanted
      /\ Waits(Held(walk), Above, n)
      /\ \A f \in Wanted : Waits(Held(v), Above, f) <=> Waits(Held(walk), Above, f) /\ f # n
  BY <1>1, SearchTurn DEF SearchInv
<1>3. WalkOK(walk)'
  BY <1>1, <1>2, SearchFrozen
<1>4. Found' = Found /\ Reached = Found
  BY DEF Found, Reached
<1>5. Reached' = IF n \in Functions THEN Found \cup {n} ELSE Found
  BY <1>4 DEF Reached
<1>6. Splits(Reached', v)
  <2>1. Found \subseteq Wanted /\ \A f \in Wanted : f \in Found <=> ~Waits(Held(walk), Above, f)
    BY <1>4 DEF SearchInv, Splits
  <2>2. \A f \in Wanted : f \in Functions
    BY DEF Wanted
  <2> QED BY <1>2, <1>5, <2>1, <2>2 DEF Splits
<1>7. Splits(Reached, walk)'
  BY <1>1, <1>6, SearchFrozen
<1>8. n \in Functions => n \notin Found
  BY <1>2, <1>4 DEF SearchInv, Splits
<1>9. pc' \in {"walk", "count", "done", "raised"} /\ (pc' = "done" => walk' = << >>) /\ (pc' = "count" => fn' \notin Found')
  BY <1>4, <1>8
<1> QED BY <1>3, <1>4, <1>7, <1>9 DEF SearchInv

(* The end of a count.                                                     *)
LEMMA SearchRecord ==
    ASSUME SearchInv, RecordFunction
    PROVE  SearchInv'
<1>1. /\ pc = "count" /\ pc' = "walk" /\ tree' = tree /\ language' = language /\ walk' = walk
      /\ \E e : results' = Append(results, e) /\ e.fn = fn
  BY DEF RecordFunction
<1>2. PICK e : results' = Append(results, e) /\ e.fn = fn
  BY <1>1
<1>3. PICK S0 : results \in Seq(S0)
  BY DEF SearchInv
<1>4. PICK S : S = S0 \cup {e}
  OBVIOUS
<1>5. results \in Seq(S) /\ e \in S
  BY <1>3, <1>4, SeqMonotonic
<1>6. /\ results' \in Seq(S) /\ Len(results') = Len(results) + 1
      /\ \A i \in 1..Len(results) : results'[i] = results[i]
      /\ results'[Len(results) + 1] = e
  BY <1>2, <1>5, AppendProperties
<1>7. /\ Len(results) \in Nat /\ DOMAIN results = 1..Len(results)
      /\ DOMAIN results' = 1..(Len(results) + 1)
  BY <1>5, <1>6, LenProperties
<1>8. Found' = Found \cup {fn}
  <2>1. ASSUME NEW f \in Found' PROVE f \in Found \cup {fn}
    <3>1. PICK i \in 1..(Len(results) + 1) : f = results'[i].fn
      BY <1>7 DEF Found
    <3>2. CASE i = Len(results) + 1
      BY <1>2, <1>6, <3>1, <3>2
    <3>3. CASE i \in 1..Len(results)
      BY <1>6, <1>7, <3>1, <3>3 DEF Found
    <3> QED BY <1>7, <3>2, <3>3
  <2>2. ASSUME NEW f \in Found PROVE f \in Found'
    <3>1. PICK i \in 1..Len(results) : f = results[i].fn
      BY <1>7 DEF Found
    <3>2. i \in 1..(Len(results) + 1) /\ f = results'[i].fn
      BY <1>6, <1>7, <3>1
    <3> QED BY <1>7, <3>2 DEF Found
  <2>3. fn \in Found'
    <3>1. Len(results) + 1 \in 1..(Len(results) + 1)
      BY <1>7
    <3> QED BY <1>2, <1>6, <1>7, <3>1 DEF Found
  <2> QED BY <2>1, <2>2, <2>3
<1>9. IsFiniteSet(Found') /\ Cardinality(Found') = Len(results')
  <2>1. IsFiniteSet(Found) /\ Cardinality(Found) = Len(results) /\ fn \notin Found
    BY <1>1 DEF SearchInv
  <2>2. PICK F : F = Found
    OBVIOUS
  <2>3. IsFiniteSet(F \cup {fn}) /\ Cardinality(F \cup {fn}) = Cardinality(F) + 1
    BY <2>1, <2>2, FS_AddElement
  <2> QED BY <1>6, <1>8, <2>1, <2>2, <2>3
<1>10. Reached' = Reached
  BY <1>1, <1>8 DEF Reached
<1>11. WalkOK(walk)' /\ Splits(Reached, walk)'
  BY <1>1, <1>10, SearchFrozen DEF SearchInv
<1> QED BY <1>1, <1>6, <1>9, <1>11 DEF SearchInv

(* A step of a count leaves the search alone.                              *)
LEMMA SearchIdle ==
    ASSUME SearchInv, UNCHANGED <<language, tree, walk, fn, results, pc>>
    PROVE  SearchInv'
<1>1. Found' = Found /\ Reached' = Reached
  BY DEF Found, Reached
<1>2. WalkOK(walk)' /\ (pc # "raised" => Splits(Reached, walk)')
  BY <1>1, SearchFrozen DEF SearchInv
<1> QED BY <1>1, <1>2 DEF SearchInv

(* A visit that raises leaves the search where it is.                      *)
LEMMA SearchFails ==
    ASSUME SearchInv, UNCHANGED <<language, tree, walk, fn, results>>, pc' = "raised"
    PROVE  SearchInv'
<1>1. Found' = Found /\ WalkOK(walk)'
  BY SearchFrozen DEF SearchInv, Found
<1> QED BY <1>1 DEF SearchInv

(* The search at its beginning: everything is below the root.              *)
LEMMA SearchBegins ==
    ASSUME AnalysisInit
    PROVE  SearchInv
<1>1. PICK N, p, a : N = Len(tree.kind) /\ p = tree.parent /\ a = Above
  OBVIOUS
<1>2. IsTree(N, p) /\ IsAbove(a, N, p) /\ N \in Nat \ {0} /\ Nodes = 1..N
  BY <1>1, TreeFacts DEF AnalysisInit, IsTree, Nodes
<1>3. 1 \in 1..N /\ 0 \in Int /\ 0 # Leave
  BY <1>2 DEF Leave
<1>4. StackOK(walk, N, a) /\ Held(walk) = {1} /\ Len(walk) = 1
  BY <1>2, <1>3, StackSingle DEF AnalysisInit
<1>5. a[1] = {} /\ \A n \in 2..N : 1 \in a[n]
  BY <1>2, AboveFacts
<1>6. Cardinality(a[1]) = 0
  BY <1>5, FS_EmptySet
<1>7. walk[1].node = 1 /\ walk[1].depth = 0
  BY DEF AnalysisInit
<1>8. EntryOK(walk[1])
  <2>1. MaxNestingDepth \in Nat
    BY MetricsAssumption
  <2>2. Above[walk[1].node] = {} /\ Cardinality(Above[walk[1].node]) = 0
    BY <1>1, <1>5, <1>6, <1>7
  <2> QED BY <1>7, <2>1, <2>2 DEF EntryOK
<1>9. \A i \in 1..Len(walk) : i = 1
  BY <1>4
<1>10. WalkOK(walk)
  BY <1>1, <1>4, <1>8, <1>9 DEF WalkOK
<1>11. results = << >> /\ pc = "walk" /\ tree \in Trees /\ language \in Languages
  BY DEF AnalysisInit
<1>12. Found = {} /\ Reached = {}
  BY <1>11 DEF Found, Reached
<1>13. \A f \in Wanted : Waits(Held(walk), a, f)
  <2> TAKE f \in Wanted
  <2>1. f \in 1..N
    BY <1>2 DEF Wanted, Functions
  <2>2. f = 1 \/ f \in 2..N
    BY <1>2, <2>1
  <2> QED BY <1>4, <1>5, <2>2 DEF Waits
<1>14. Splits(Reached, walk)
  BY <1>1, <1>12, <1>13 DEF Splits
<1>15. results \in Seq({}) /\ Len(results) = 0
  BY <1>11
<1>16. IsFiniteSet(Found) /\ Cardinality(Found) = 0
  BY <1>12, FS_EmptySet
<1> QED BY <1>10, <1>11, <1>14, <1>15, <1>16 DEF SearchInv

(* The search goes its way through every step.                             *)
THEOREM SearchHolds == AnalysisSpec => []SearchInv
<1>1. AnalysisInit => SearchInv
  BY SearchBegins
<1>2. SearchInv /\ [AnalysisNext]_analysisVars => SearchInv'
  <2> SUFFICES ASSUME SearchInv, [AnalysisNext]_analysisVars PROVE SearchInv'
    OBVIOUS
  <2>0. walk # << >> => Head(walk).node \in Nodes
    <3> SUFFICES ASSUME walk # << >> PROVE Head(walk).node \in Nodes
      OBVIOUS
    <3>1. Len(tree.kind) \in Nat /\ StackOK(walk, Len(tree.kind), Above)
      BY TreeFacts DEF SearchInv, WalkOK, IsTree
    <3>2. Head(walk) \in Entries(Len(tree.kind))
      BY <3>1, TailFacts DEF StackOK
    <3> QED BY <3>2 DEF Entries, Nodes
  <2>1. CASE WalkTs
    <3>1. PICK n : n = Head(walk).node
      OBVIOUS
    <3>2. /\ language = "typescript" /\ pc = "walk" /\ walk # << >>
          /\ walk' = IF Head(walk).depth >= MaxNestingDepth THEN Tail(walk)
                     ELSE Push(Children(n), Head(walk).depth + 1, Tail(walk))
          /\ tree' = tree /\ language' = language /\ results' = results
      BY <2>1, <3>1 DEF WalkTs
    <3>3. n \in Functions <=> tree.kind[n] = "function"
      BY <2>0, <3>1, <3>2 DEF Functions
    <3>4. /\ fn' = IF n \in Functions THEN n ELSE fn
          /\ pc' = IF n \in Functions THEN "count" ELSE "walk"
      BY <2>1, <3>1, <3>3 DEF WalkTs
    <3> QED BY <3>1, <3>2, <3>4, SearchStep
  <2>2. CASE VisitPy
    <3>1. PICK n : n = Head(walk).node
      OBVIOUS
    <3>2. /\ language = "python" /\ pc = "walk" /\ walk # << >>
          /\ walk' = IF tree.kind[n] = "function" THEN Tail(walk)
                     ELSE Push(Children(n), 0, Tail(walk))
          /\ tree' = tree /\ language' = language /\ results' = results
      BY <2>2, <3>1 DEF VisitPy
    <3>3. n \in Functions <=> tree.kind[n] = "function"
      BY <2>0, <3>1, <3>2 DEF Functions
    <3>4. /\ fn' = IF n \in Functions THEN n ELSE fn
          /\ pc' = IF n \in Functions THEN "count" ELSE "walk"
      BY <2>2, <3>1, <3>3 DEF VisitPy
    <3> QED BY <3>1, <3>2, <3>3, <3>4, SearchStep
  <2>3. CASE CountTs
    BY <2>3, SearchIdle DEF CountTs
  <2>4. CASE CountPy
    BY <2>4, SearchIdle DEF CountPy
  <2>5. CASE LeavePy
    BY <2>5, SearchIdle DEF LeavePy
  <2>6. CASE RecordFunction
    BY <2>6, SearchRecord
  <2>7. CASE Analysed
    <3>1. pc = "walk" /\ walk = << >> /\ pc' = "done" /\ UNCHANGED <<language, tree, walk, fn, results>>
      BY <2>7 DEF Analysed
    <3>2. Found' = Found /\ Reached' = Reached
      BY <3>1 DEF Found, Reached
    <3>3. WalkOK(walk)' /\ Splits(Reached, walk)'
      BY <3>1, <3>2, SearchFrozen DEF SearchInv
    <3> QED BY <3>1, <3>2, <3>3 DEF SearchInv
  <2>8. CASE RecursionFails
    <3>1. pc' = "raised" /\ UNCHANGED <<language, tree, walk, fn, results>>
      BY <2>8 DEF RecursionFails
    <3> QED BY <3>1, SearchFails
  <2>9. CASE UNCHANGED analysisVars
    BY <2>9, SearchIdle DEF analysisVars
  <2> QED BY <2>1, <2>2, <2>3, <2>4, <2>5, <2>6, <2>7, <2>8, <2>9 DEF AnalysisNext
<1> QED BY <1>1, <1>2, PTL DEF AnalysisSpec

(* FunctionsFoundOnce holds of every tree: once the stack is empty nothing *)
(* waits, so what is wanted is what has been found.                        *)
THEOREM FunctionsFoundOnceHolds == AnalysisSpec => []FunctionsFoundOnce
<1>1. SearchInv => FunctionsFoundOnce
  <2> SUFFICES ASSUME SearchInv, pc = "done"
               PROVE  Cardinality(Found) = Len(results) /\ Found = Wanted
    BY DEF FunctionsFoundOnce, Found, Wanted
  <2>1. Held(walk) = {} /\ Reached = Found
    BY StackEmpty DEF SearchInv, Reached
  <2>2. \A f \in Wanted : ~Waits(Held(walk), Above, f)
    BY <2>1 DEF Waits
  <2>3. Found = Wanted
    BY <2>1, <2>2 DEF SearchInv, Splits
  <2> QED BY <2>3 DEF SearchInv
<1> QED BY <1>1, SearchHolds, PTL

-----------------------------------------------------------------------------
(* The branches that a Python visitor is in: the entries with depth Leave  *)
(* below an entry of the stack are those around its node.                  *)

LeaveAt(w) == {j \in 1..Len(w) : w[j].depth = Leave}
Leaves(w, i) == {w[j].node : j \in {k \in LeaveAt(w) : k > i}}

LeavesOK(w, A) ==
    /\ \A i, j \in LeaveAt(w) : w[i].node = w[j].node => i = j
    /\ \A i \in Live(w) : A[w[i].node] = Leaves(w, i)

(* Visits on top of a stack.                                               *)
LEMMA LeavesPush ==
    ASSUME NEW N \in Nat, NEW S \in SUBSET (1..N), NEW d \in Int, d # Leave,
           NEW t \in Seq(Entries(N)), NEW A, LeavesOK(t, A),
           \A c \in S : A[c] = Leaves(t, 0),
           NEW v, v = Push(S, d, t)
    PROVE  LeavesOK(v, A) /\ Leaves(v, 0) = Leaves(t, 0)
<1>k. PICK k, o : IsPushed(v, S, d, t, k, o)
  BY PushShape
<1>1. /\ k \in Nat /\ o \in [1..k -> S] /\ Len(v) = k + Len(t)
      /\ \A i \in 1..k : v[i].node = o[i] /\ v[i].depth = d
      /\ \A i \in 1..Len(t) : v[k + i] = t[i]
  BY <1>k DEF IsPushed
<1>2. Len(t) \in Nat
  BY LenProperties
<1>3. \A j \in LeaveAt(v) : /\ j - k \in LeaveAt(t) /\ v[j] = t[j - k]
                            /\ j \in Nat /\ j > k
  <2> TAKE j \in LeaveAt(v)
  <2>1. j \in 1..(k + Len(t)) /\ v[j].depth = Leave
    BY <1>1 DEF LeaveAt
  <2>2. j \notin 1..k
    BY <1>1, <2>1
  <2>3. j - k \in 1..Len(t) /\ k + (j - k) = j /\ j \in Nat /\ j > k
    BY <1>1, <1>2, <2>1, <2>2
  <2>4. v[j] = t[j - k]
    BY <1>1, <2>3
  <2> QED BY <2>1, <2>3, <2>4 DEF LeaveAt
<1>4. \A j \in LeaveAt(t) : k + j \in LeaveAt(v) /\ v[k + j] = t[j] /\ j \in Nat /\ j > 0
  <2> TAKE j \in LeaveAt(t)
  <2>1. j \in 1..Len(t) /\ t[j].depth = Leave
    BY DEF LeaveAt
  <2>2. k + j \in 1..Len(v) /\ j \in Nat /\ j > 0
    BY <1>1, <1>2, <2>1
  <2> QED BY <1>1, <2>1, <2>2 DEF LeaveAt
<1>5. ASSUME NEW i \in Nat, NEW m \in Nat, \/ i <= k /\ m = 0
                                           \/ i = k + m
      PROVE  Leaves(v, i) = Leaves(t, m)
  <2>1. ASSUME NEW x \in Leaves(v, i) PROVE x \in Leaves(t, m)
    <3>1. PICK j \in LeaveAt(v) : j > i /\ x = v[j].node
      BY DEF Leaves
    <3>2. j - k \in LeaveAt(t) /\ j - k > m /\ x = t[j - k].node
      BY <1>1, <1>3, <1>5, <3>1
    <3> QED BY <3>2 DEF Leaves
  <2>2. ASSUME NEW x \in Leaves(t, m) PROVE x \in Leaves(v, i)
    <3>1. PICK j \in LeaveAt(t) : j > m /\ x = t[j].node
      BY DEF Leaves
    <3>2. k + j \in LeaveAt(v) /\ k + j > i /\ x = v[k + j].node
      BY <1>1, <1>4, <1>5, <3>1
    <3> QED BY <3>2 DEF Leaves
  <2> QED BY <2>1, <2>2
<1>6. Leaves(v, 0) = Leaves(t, 0)
  BY <1>1, <1>5
<1>7. ASSUME NEW i \in LeaveAt(v), NEW j \in LeaveAt(v), v[i].node = v[j].node PROVE i = j
  <2>1. i - k = j - k /\ i \in Nat /\ j \in Nat
    BY <1>3, <1>7 DEF LeavesOK
  <2> QED BY <1>1, <2>1
<1>8. ASSUME NEW i \in Live(v) PROVE A[v[i].node] = Leaves(v, i)
  <2>0. i \in 1..(k + Len(t)) /\ v[i].depth # Leave
    BY <1>1 DEF Live
  <2>1. CASE i \in 1..k
    <3>1. v[i].node \in S
      BY <1>1, <2>1
    <3>2. Leaves(v, i) = Leaves(t, 0)
      BY <1>1, <1>5, <2>1
    <3> QED BY <3>1, <3>2
  <2>2. CASE i \notin 1..k
    <3>1. PICK m : m = i - k
      OBVIOUS
    <3>2. m \in 1..Len(t) /\ i = k + m /\ i \in Nat /\ m \in Nat
      BY <1>1, <1>2, <2>0, <2>2, <3>1
    <3>3. v[i] = t[m]
      BY <1>1, <3>2
    <3>4. A[t[m].node] = Leaves(t, m)
      BY <2>0, <3>2, <3>3 DEF LeavesOK, Live
    <3>5. Leaves(v, i) = Leaves(t, m)
      BY <1>5, <3>2
    <3> QED BY <3>3, <3>4, <3>5
  <2> QED BY <2>1, <2>2
<1> QED BY <1>6, <1>7, <1>8 DEF LeavesOK

(* One more branch.                                                        *)
LEMMA LeavesEnter ==
    ASSUME NEW N \in Nat, NEW n \in 1..N, NEW t \in Seq(Entries(N)), Apart(t),
           NEW A, LeavesOK(t, A), n \notin Leaves(t, 0),
           NEW v, v = Push({n}, Leave, t)
    PROVE  LeavesOK(v, A) /\ Leaves(v, 0) = Leaves(t, 0) \cup {n}
<1>e. IsEntered(v, n, t)
  BY PushLeave
<1>1. /\ Len(v) = 1 + Len(t) /\ v[1].node = n /\ v[1].depth = Leave
      /\ \A i \in 1..Len(t) : v[1 + i] = t[i]
  BY <1>e DEF IsEntered
<1>2. Len(t) \in Nat
  BY LenProperties
<1>3. v[1].node = n /\ v[1].depth = Leave /\ 1 \in LeaveAt(v)
  BY <1>1, <1>2 DEF LeaveAt
<1>4. \A j \in 1..Len(v) : j = 1 \/ (j - 1 \in 1..Len(t) /\ v[j] = t[j - 1] /\ j \in Nat /\ j > 1)
  <2> SUFFICES ASSUME NEW j \in 1..Len(v), j # 1
               PROVE  j - 1 \in 1..Len(t) /\ v[j] = t[j - 1] /\ j \in Nat /\ j > 1
    OBVIOUS
  <2>1. j - 1 \in 1..Len(t) /\ 1 + (j - 1) = j /\ j \in Nat /\ j > 1
    BY <1>1, <1>2
  <2>2. v[j] = t[j - 1]
    BY <1>1, <2>1
  <2> QED BY <2>1, <2>2
<1>5. \A j \in LeaveAt(v) : j = 1 \/ (j - 1 \in LeaveAt(t) /\ v[j] = t[j - 1] /\ j \in Nat /\ j > 1)
  BY <1>4 DEF LeaveAt
<1>6. \A j \in LeaveAt(t) : 1 + j \in LeaveAt(v) /\ v[1 + j] = t[j] /\ j \in Nat /\ j > 0
  <2> TAKE j \in LeaveAt(t)
  <2>1. j \in 1..Len(t) /\ t[j].depth = Leave
    BY DEF LeaveAt
  <2>2. 1 + j \in 1..Len(v) /\ j \in Nat /\ j > 0
    BY <1>1, <1>2, <2>1
  <2> QED BY <1>1, <2>1, <2>2 DEF LeaveAt
<1>7. ASSUME NEW m \in Nat PROVE Leaves(v, 1 + m) = Leaves(t, m)
  <2>1. ASSUME NEW x \in Leaves(v, 1 + m) PROVE x \in Leaves(t, m)
    <3>1. PICK j \in LeaveAt(v) : j > 1 + m /\ x = v[j].node
      BY DEF Leaves
    <3>0. j \in Nat
      BY <1>1, <1>2 DEF LeaveAt
    <3>a. j \in Nat /\ j # 1
      BY <3>0, <3>1
    <3>b. j - 1 \in LeaveAt(t) /\ v[j] = t[j - 1]
      BY <1>5, <3>a
    <3>2. j - 1 \in LeaveAt(t) /\ j - 1 > m /\ x = t[j - 1].node
      BY <3>1, <3>a, <3>b
    <3> QED BY <3>2 DEF Leaves
  <2>2. ASSUME NEW x \in Leaves(t, m) PROVE x \in Leaves(v, 1 + m)
    <3>1. PICK j \in LeaveAt(t) : j > m /\ x = t[j].node
      BY DEF Leaves
    <3>a. 1 + j \in LeaveAt(v) /\ v[1 + j] = t[j] /\ j \in Nat
      BY <1>6
    <3>2. 1 + j \in LeaveAt(v) /\ 1 + j > 1 + m /\ x = v[1 + j].node
      BY <3>1, <3>a
    <3> QED BY <3>2 DEF Leaves
  <2> QED BY <2>1, <2>2
<1>8. Leaves(v, 0) = Leaves(t, 0) \cup {n}
  <2>1. ASSUME NEW x \in Leaves(v, 0) PROVE x \in Leaves(t, 0) \cup {n}
    <3>1. PICK j \in LeaveAt(v) : j > 0 /\ x = v[j].node
      BY DEF Leaves
    <3>2. CASE j = 1
      BY <1>3, <3>1, <3>2
    <3>3. CASE j # 1
      <4>1. j - 1 \in LeaveAt(t) /\ j - 1 > 0 /\ x = t[j - 1].node
        <5>1. j - 1 \in LeaveAt(t) /\ v[j] = t[j - 1] /\ j \in Nat /\ j > 1
          BY <1>5, <3>3
        <5> QED BY <3>1, <5>1
      <4> QED BY <4>1 DEF Leaves
    <3> QED BY <3>2, <3>3
  <2>2. ASSUME NEW x \in Leaves(t, 0) PROVE x \in Leaves(v, 0)
    <3>1. PICK j \in LeaveAt(t) : j > 0 /\ x = t[j].node
      BY DEF Leaves
    <3>a. 1 + j \in LeaveAt(v) /\ v[1 + j] = t[j] /\ j \in Nat
      BY <1>6
    <3>2. 1 + j \in LeaveAt(v) /\ 1 + j > 0 /\ x = v[1 + j].node
      BY <3>1, <3>a
    <3> QED BY <3>2 DEF Leaves
  <2>3. n \in Leaves(v, 0)
    BY <1>3 DEF Leaves
  <2> QED BY <2>1, <2>2, <2>3
<1>9. \A j \in LeaveAt(t) : t[j].node \in Leaves(t, 0)
  BY <1>6 DEF Leaves
<1>10. ASSUME NEW i \in LeaveAt(v), NEW j \in LeaveAt(v), v[i].node = v[j].node PROVE i = j
  <2>1. CASE i = 1 /\ j = 1
    BY <2>1
  <2>2. CASE i = 1 /\ j # 1
    BY <1>3, <1>5, <1>9, <1>10, <2>2
  <2>3. CASE i # 1 /\ j = 1
    BY <1>3, <1>5, <1>9, <1>10, <2>3
  <2>4. CASE i # 1 /\ j # 1
    <3>1. /\ i - 1 \in LeaveAt(t) /\ v[i] = t[i - 1] /\ i \in Nat
          /\ j - 1 \in LeaveAt(t) /\ v[j] = t[j - 1] /\ j \in Nat
      BY <1>5, <2>4
    <3>2. PICK x, y : x = i - 1 /\ y = j - 1
      OBVIOUS
    <3>3. x \in LeaveAt(t) /\ y \in LeaveAt(t) /\ t[x].node = t[y].node
      BY <1>10, <3>1, <3>2
    <3>4. x = y
      BY <3>3 DEF LeavesOK
    <3> QED BY <3>1, <3>2, <3>4
  <2> QED BY <2>1, <2>2, <2>3, <2>4
<1>11. ASSUME NEW i \in Live(v) PROVE A[v[i].node] = Leaves(v, i)
  <2>1. PICK m : m = i - 1
    OBVIOUS
  <2>2. i \in 1..Len(v) /\ v[i].depth # Leave /\ i # 1
    BY <1>3 DEF Live
  <2>3. m \in 1..Len(t) /\ v[i] = t[m] /\ i = 1 + m /\ m \in Nat
    <3>1. i - 1 \in 1..Len(t) /\ v[i] = t[i - 1] /\ i \in Nat /\ i > 1
      BY <1>4, <2>2
    <3> QED BY <2>1, <3>1
  <2>4. A[t[m].node] = Leaves(t, m)
    BY <2>2, <2>3 DEF LeavesOK, Live
  <2>5. Leaves(v, i) = Leaves(t, m)
    BY <1>7, <2>3
  <2> QED BY <2>3, <2>4, <2>5
<1> QED BY <1>8, <1>10, <1>11 DEF LeavesOK

(* The top of the stack is taken off.                                      *)
LEMMA LeavesTail ==
    ASSUME NEW N \in Nat, NEW w \in Seq(Entries(N)), w # << >>, Apart(w),
           NEW A, LeavesOK(w, A), NEW t, t = Tail(w)
    PROVE  /\ LeavesOK(t, A)
           /\ Leaves(w, 0) \in SUBSET (1..N)
           /\ w[1].depth # Leave => Leaves(w, 0) = Leaves(t, 0) /\ A[w[1].node] = Leaves(t, 0)
           /\ w[1].depth = Leave => w[1].node \in Leaves(w, 0) /\ Leaves(t, 0) = Leaves(w, 0) \ {w[1].node}
<1>1. t \in Seq(Entries(N)) /\ Len(t) = Len(w) - 1 /\ \A i \in 1..Len(t) : t[i] = w[i + 1]
  BY HeadTailProperties
<1>2. Len(t) \in Nat /\ Len(w) \in Nat /\ 1 \in 1..Len(w)
  BY <1>1, LenProperties, EmptySeq
<1>3. \A i \in 1..Len(t) : i + 1 \in 1..Len(w) /\ t[i] = w[i + 1] /\ i \in Nat
  BY <1>1, <1>2
<1>4. \A j \in LeaveAt(t) : j + 1 \in LeaveAt(w) /\ t[j] = w[j + 1] /\ j \in Nat /\ j > 0
  BY <1>3 DEF LeaveAt
<1>5. \A j \in LeaveAt(w) : j \in Nat /\ j > 0 /\ (j # 1 => j - 1 \in LeaveAt(t) /\ w[j] = t[j - 1] /\ j > 1)
  <2> TAKE j \in LeaveAt(w)
  <2>1. j \in 1..Len(w) /\ w[j].depth = Leave
    BY DEF LeaveAt
  <2>2. CASE j # 1
    <3>1. j - 1 \in 1..Len(t) /\ (j - 1) + 1 = j /\ j > 1 /\ j \in Nat
      BY <1>1, <1>2, <2>1, <2>2
    <3>2. w[j] = t[j - 1]
      BY <1>3, <3>1
    <3> QED BY <2>1, <3>1, <3>2 DEF LeaveAt
  <2> QED BY <1>2, <2>1, <2>2
<1>6. ASSUME NEW m \in Nat PROVE Leaves(t, m) = Leaves(w, m + 1)
  <2>1. ASSUME NEW x \in Leaves(t, m) PROVE x \in Leaves(w, m + 1)
    <3>1. PICK j \in LeaveAt(t) : j > m /\ x = t[j].node
      BY DEF Leaves
    <3>a. j + 1 \in LeaveAt(w) /\ t[j] = w[j + 1] /\ j \in Nat
      BY <1>4
    <3>b. j + 1 > m + 1
      BY <3>1, <3>a
    <3>2. j + 1 \in LeaveAt(w) /\ j + 1 > m + 1 /\ x = w[j + 1].node
      BY <3>1, <3>a, <3>b
    <3> QED BY <3>2 DEF Leaves
  <2>2. ASSUME NEW x \in Leaves(w, m + 1) PROVE x \in Leaves(t, m)
    <3>1. PICK j \in LeaveAt(w) : j > m + 1 /\ x = w[j].node
      BY DEF Leaves
    <3>2. j - 1 \in LeaveAt(t) /\ j - 1 > m /\ x = t[j - 1].node
      <4>1. j \in Nat /\ j # 1
        BY <1>5, <3>1
      <4>2. j - 1 \in LeaveAt(t) /\ w[j] = t[j - 1]
        BY <1>5, <4>1
      <4> QED BY <3>1, <4>1, <4>2
    <3> QED BY <3>2 DEF Leaves
  <2> QED BY <2>1, <2>2
<1>7. Leaves(t, 0) = Leaves(w, 1)
  <2>1. Leaves(t, 0) = Leaves(w, 0 + 1)
    BY <1>6
  <2> QED BY <2>1
<1>8. LeavesOK(t, A)
  <2>1. ASSUME NEW i \in LeaveAt(t), NEW j \in LeaveAt(t), t[i].node = t[j].node PROVE i = j
    <3>1. /\ i + 1 \in LeaveAt(w) /\ t[i] = w[i + 1] /\ i \in Nat
          /\ j + 1 \in LeaveAt(w) /\ t[j] = w[j + 1] /\ j \in Nat
      BY <1>4
    <3>2. PICK x, y : x = i + 1 /\ y = j + 1
      OBVIOUS
    <3>3. x \in LeaveAt(w) /\ y \in LeaveAt(w) /\ w[x].node = w[y].node
      BY <2>1, <3>1, <3>2
    <3>4. x = y
      BY <3>3 DEF LeavesOK
    <3> QED BY <3>1, <3>2, <3>4
  <2>2. ASSUME NEW i \in Live(t) PROVE A[t[i].node] = Leaves(t, i)
    <3>1. i + 1 \in Live(w) /\ t[i] = w[i + 1] /\ i \in Nat
      BY <1>3 DEF Live
    <3>2. A[w[i + 1].node] = Leaves(w, i + 1)
      BY <3>1 DEF LeavesOK
    <3>3. Leaves(t, i) = Leaves(w, i + 1)
      BY <1>6, <3>1
    <3> QED BY <3>1, <3>2, <3>3
  <2> QED BY <2>1, <2>2 DEF LeavesOK
<1>9. \A j \in LeaveAt(w) : w[j].node \in 1..N
  <2> TAKE j \in LeaveAt(w)
  <2>1. w[j] \in Entries(N)
    BY ElementOfSeq DEF LeaveAt
  <2> QED BY <2>1 DEF Entries
<1>10. Leaves(w, 0) \in SUBSET (1..N)
  BY <1>9 DEF Leaves
<1>11. ASSUME w[1].depth # Leave
       PROVE  Leaves(w, 0) = Leaves(t, 0) /\ A[w[1].node] = Leaves(t, 0)
  <2>1. 1 \in Live(w) /\ 1 \notin LeaveAt(w)
    BY <1>2, <1>11 DEF Live, LeaveAt
  <2>2. {k \in LeaveAt(w) : k > 0} = {k \in LeaveAt(w) : k > 1}
    BY <1>5, <2>1
  <2>3. Leaves(w, 0) = Leaves(w, 1)
    BY <2>2 DEF Leaves
  <2> QED BY <1>7, <2>1, <2>3 DEF LeavesOK
<1>12. ASSUME w[1].depth = Leave
       PROVE  w[1].node \in Leaves(w, 0) /\ Leaves(t, 0) = Leaves(w, 0) \ {w[1].node}
  <2>1. 1 \in LeaveAt(w)
    BY <1>2, <1>12 DEF LeaveAt
  <2>2. w[1].node \in Leaves(w, 0)
    BY <2>1 DEF Leaves
  <2>3. ASSUME NEW x \in Leaves(w, 1) PROVE x \in Leaves(w, 0) /\ x # w[1].node
    <3>1. PICK j \in LeaveAt(w) : j > 1 /\ x = w[j].node
      BY DEF Leaves
    <3>2. j # 1 /\ j > 0
      BY <1>5, <3>1
    <3> QED BY <2>1, <3>1, <3>2 DEF Leaves, LeavesOK
  <2>4. ASSUME NEW x \in Leaves(w, 0), x # w[1].node PROVE x \in Leaves(w, 1)
    <3>1. PICK j \in LeaveAt(w) : j > 0 /\ x = w[j].node
      BY DEF Leaves
    <3>2. j > 1
      BY <1>5, <2>4, <3>1
    <3> QED BY <3>1, <3>2 DEF Leaves
  <2> QED BY <1>7, <2>2, <2>3, <2>4
<1> QED BY <1>8, <1>10, <1>11, <1>12

-----------------------------------------------------------------------------
(* The counts of a set of nodes: B are branches, which weigh g, and O      *)
(* BoolOps, which weigh e.                                                 *)

IsTally(c, B, O, g, e) ==
    /\ c.cyclomatic = 1 + Cardinality(B) + SumFunctionOnSet(e, O)
    /\ c.cognitive = SumFunctionOnSet(g, B) + SumFunctionOnSet(e, O)
    /\ c.max_depth \in {0} \cup {g[x] : x \in B}
    /\ c.max_depth >= 0 /\ \A x \in B : c.max_depth >= g[x]

(* A sum with one more term.                                               *)
LEMMA SumInsert ==
    ASSUME NEW N \in Nat, NEW S \in SUBSET (1..N), NEW f \in [1..N -> Int], NEW x \in (1..N) \ S
    PROVE  /\ SumFunctionOnSet(f, S) \in Int
           /\ SumFunctionOnSet(f, S \cup {x}) = SumFunctionOnSet(f, S) + f[x]
           /\ Cardinality(S \cup {x}) = Cardinality(S) + 1 /\ Cardinality(S) \in Nat
<1>1. PICK T \in SUBSET (1..N) : T = S \cup {x}
  OBVIOUS
<1>2. IsFiniteSet(S) /\ IsFiniteSet(T) /\ Cardinality(S) \in Nat
  BY NodesFinite
<1>3. (\A y \in T : f[y] \in Int) /\ (\A y \in S : f[y] \in Int) /\ x \in T /\ T \ {x} = S
  BY <1>1
<1>4. SumFunctionOnSet(f, T) = f[x] + SumFunctionOnSet(f, T \ {x})
  BY <1>2, <1>3, SumRemove
<1>5. SumFunctionOnSet(f, S) \in Int
  BY <1>2, <1>3, SumType
<1>6. Cardinality(S \cup {x}) = Cardinality(S) + 1
  BY <1>2, FS_AddElement
<1>7. SumFunctionOnSet(f, T) = f[x] + SumFunctionOnSet(f, S)
  BY <1>3, <1>4
<1>8. SumFunctionOnSet(f, T) = SumFunctionOnSet(f, S) + f[x]
  BY <1>3, <1>5, <1>7
<1> QED BY <1>1, <1>2, <1>5, <1>6, <1>8

(* Nothing has been counted.                                               *)
LEMMA TallyEmpty ==
    ASSUME NEW g, NEW e
    PROVE  IsTally(NewCounter, {}, {}, g, e)
<1>1. Cardinality({}) = 0
  BY FS_EmptySet
<1>2. SumFunctionOnSet(g, {}) = 0 /\ SumFunctionOnSet(e, {}) = 0
  BY SumEmpty
<1>3. NewCounter.cyclomatic = 1 /\ NewCounter.cognitive = 0 /\ NewCounter.max_depth = 0
  BY DEF NewCounter
<1> QED BY <1>1, <1>2, <1>3 DEF IsTally

(* One more branch.                                                        *)
LEMMA TallyBranch ==
    ASSUME NEW N \in Nat, NEW B \in SUBSET (1..N), NEW O \in SUBSET (1..N),
           NEW g \in [1..N -> Nat], NEW e \in [1..N -> Int],
           NEW c, IsTally(c, B, O, g, e), NEW x \in (1..N) \ B,
           NEW C, C = B \cup {x},
           NEW r, r.cyclomatic = c.cyclomatic + 1, r.cognitive = c.cognitive + g[x],
           r.max_depth = IF c.max_depth < g[x] THEN g[x] ELSE c.max_depth
    PROVE  IsTally(r, C, O, g, e)
<1>0. g \in [1..N -> Int]
  OBVIOUS
<1>1. /\ SumFunctionOnSet(g, B) \in Int /\ SumFunctionOnSet(g, C) = SumFunctionOnSet(g, B) + g[x]
      /\ Cardinality(C) = Cardinality(B) + 1 /\ Cardinality(B) \in Nat
  BY <1>0, SumInsert
<1>2. SumFunctionOnSet(e, O) \in Int
  <2>1. IsFiniteSet(O)
    BY NodesFinite
  <2>2. \A y \in O : e[y] \in Int
    OBVIOUS
  <2> QED BY <2>1, <2>2, SumType
<1>3. g[x] \in Nat /\ \A y \in B : g[y] \in Nat
  OBVIOUS
<1>4. c.max_depth \in Nat
  BY <1>3 DEF IsTally
<1>5. r.max_depth \in {0} \cup {g[y] : y \in C}
  BY <1>3, <1>4 DEF IsTally
<1>6. r.max_depth >= 0 /\ \A y \in C : r.max_depth >= g[y]
  <2>1. r.max_depth >= c.max_depth /\ r.max_depth >= g[x] /\ r.max_depth \in Nat
    BY <1>3, <1>4
  <2>2. \A y \in B : r.max_depth >= g[y]
    BY <1>3, <1>4, <2>1 DEF IsTally
  <2> QED BY <2>1, <2>2
<1>7. r.cyclomatic = 1 + Cardinality(C) + SumFunctionOnSet(e, O)
  BY <1>1, <1>2 DEF IsTally
<1>8. r.cognitive = SumFunctionOnSet(g, C) + SumFunctionOnSet(e, O)
  BY <1>1, <1>2, <1>3 DEF IsTally
<1> QED BY <1>5, <1>6, <1>7, <1>8 DEF IsTally

(* One more BoolOp.                                                        *)
LEMMA TallyBoolOp ==
    ASSUME NEW N \in Nat, NEW B \in SUBSET (1..N), NEW O \in SUBSET (1..N),
           NEW g \in [1..N -> Nat], NEW e \in [1..N -> Int],
           NEW c, IsTally(c, B, O, g, e), NEW x \in (1..N) \ O,
           NEW P, P = O \cup {x},
           NEW r, r.cyclomatic = c.cyclomatic + e[x], r.cognitive = c.cognitive + e[x],
           r.max_depth = c.max_depth
    PROVE  IsTally(r, B, P, g, e)
<1>1. SumFunctionOnSet(e, O) \in Int /\ SumFunctionOnSet(e, P) = SumFunctionOnSet(e, O) + e[x]
  BY SumInsert
<1>2. SumFunctionOnSet(g, B) \in Int /\ Cardinality(B) \in Nat
  <2>1. IsFiniteSet(B) /\ Cardinality(B) \in Nat
    BY NodesFinite
  <2>2. \A y \in B : g[y] \in Int
    OBVIOUS
  <2> QED BY <2>1, <2>2, SumType
<1>3. e[x] \in Int
  OBVIOUS
<1>4. r.cyclomatic = 1 + Cardinality(B) + SumFunctionOnSet(e, P)
  BY <1>1, <1>2, <1>3 DEF IsTally
<1>5. r.cognitive = SumFunctionOnSet(g, B) + SumFunctionOnSet(e, P)
  BY <1>1, <1>2, <1>3 DEF IsTally
<1> QED BY <1>4, <1>5 DEF IsTally

(* The sum of a function that is defined on fewer points.                  *)
LEMMA SumSame ==
    ASSUME NEW N \in Nat, NEW S \in SUBSET (1..N), NEW f \in [1..N -> Int],
           NEW h, DOMAIN h = S, \A x \in S : h[x] = f[x]
    PROVE  SumFunction(h) = SumFunctionOnSet(f, S)
<1>1. IsFiniteSet(S)
  BY NodesFinite
<1>2. \A x \in S : f[x] \in Int /\ h[x] \in Int /\ f[x] <= h[x] /\ h[x] <= f[x]
  OBVIOUS
<1>3. SumFunctionOnSet(f, S) <= SumFunctionOnSet(h, S) /\ SumFunctionOnSet(h, S) <= SumFunctionOnSet(f, S)
  BY <1>1, <1>2, SumMonotone
<1>4. SumFunctionOnSet(f, S) \in Int /\ SumFunctionOnSet(h, S) \in Int
  BY <1>1, <1>2, SumType
<1>5. SumFunction(h) = SumFunctionOnSet(h, S)
  BY DEF SumFunction
<1> QED BY <1>3, <1>4, <1>5

-----------------------------------------------------------------------------
(* The nodes that belong to a function.                                    *)

Around(f, n) == {m \in Body(f) \cap Above[n] : Nests(m)}

(* Nodes that the count of f meets: what belongs to f, the functions in it *)
(* and, in Python, f itself.                                               *)
Met(f, n) == \/ f \in Above[n] /\ (n \in Body(f) \/ n \in Functions)
             \/ n = f /\ language = "python"

(* From a node to its children.                                            *)
LEMMA BodyFacts ==
    ASSUME tree \in Trees, language \in Languages, NEW f \in Functions,
           NEW N, NEW a, N = Len(tree.kind), a = Above
    PROVE  /\ f \in 1..N /\ Body(f) \subseteq 1..N /\ f \notin Body(f)
           /\ Functions \subseteq 1..N /\ Above[f] \cap Body(f) = {}
           /\ \A n \in 1..N : /\ Around(f, n) \in SUBSET (1..N) /\ n \notin Around(f, n)
                              /\ n \in Body(f) => f \in a[n]
                              /\ language = "python" /\ f \in a[n] => n \in Body(f)
           /\ language = "typescript" => Functions \cap Body(f) = {}
<1>1. PICK p : p = tree.parent
  OBVIOUS
<1>2. IsTree(N, p) /\ IsAbove(a, N, p) /\ N \in Nat /\ Nodes = 1..N
  BY <1>1, TreeFacts DEF IsTree, Nodes
<1>3. f \in 1..N /\ Body(f) \subseteq 1..N /\ Functions \subseteq 1..N
  BY <1>2 DEF Functions, Body
<1>4. \A n \in 1..N : n \notin a[n] /\ \A m \in a[n] : n \notin a[m]
  <2> TAKE n \in 1..N
  <2>1. n \notin a[n]
    BY <1>2, UnderFacts
  <2>2. \A m \in a[n] : a[m] \subseteq a[n]
    BY <1>2, AboveFacts
  <2> QED BY <2>1, <2>2
<1>5. \A n \in Body(f) : f \in a[n]
  BY DEF Body
<1>6. f \notin Body(f) /\ Above[f] \cap Body(f) = {}
  BY <1>3, <1>4, <1>5
<1>7. \A n \in 1..N : Around(f, n) \in SUBSET (1..N) /\ n \notin Around(f, n)
  BY <1>3, <1>4 DEF Around
<1>8. ASSUME NEW n \in 1..N, f \in a[n], language = "python" PROVE n \in Body(f)
  BY <1>2, <1>8 DEF Body
<1>9. ASSUME language = "typescript", NEW n \in Functions, n \in Body(f) PROVE FALSE
  <2>1. n \in Above[f] \cup {f} /\ f \in a[n] /\ n \in 1..N
    BY <1>3, <1>9 DEF Body
  <2> QED BY <1>3, <1>4, <2>1
<1> QED BY <1>3, <1>5, <1>6, <1>7, <1>8, <1>9

(* The children of a node that is looked at are met, and one of them has   *)
(* the branches around it that its parent has, and its parent if that is   *)
(* one.                                                                    *)
LEMMA BodyChildren ==
    ASSUME tree \in Trees, language \in Languages, NEW f \in Functions,
           NEW N, NEW a, NEW p, N = Len(tree.kind), a = Above, p = tree.parent,
           NEW n \in 1..N, n = f \/ n \in Body(f), NEW c \in Under(N, p, n)
    PROVE  /\ c \in 1..N /\ c # f /\ Met(f, c)
           /\ Around(f, c) = Around(f, n) \cup {m \in {n} \cap Body(f) : Nests(m)}
<1>1. IsTree(N, p) /\ IsAbove(a, N, p) /\ N \in Nat /\ Nodes = 1..N
  BY TreeFacts DEF IsTree, Nodes
<1>2. c \in 1..N /\ a[c] = {n} \cup a[n] /\ c # n /\ c \notin a[n] /\ f \in 1..N
  BY <1>1, UnderFacts DEF Under, Functions
<1>3. f \in a[c]
  BY <1>2 DEF Body
<1>4. c # f
  BY <1>1, <1>2, <1>3, UnderFacts
<1>5. c \in Body(f) \/ c \in Functions
  <2> SUFFICES ASSUME c \notin Functions PROVE c \in Body(f)
    OBVIOUS
  <2>1. CASE language # "typescript"
    BY <1>1, <1>2, <1>3, <2>1 DEF Body
  <2>2. CASE language = "typescript"
    <3>1. (a[n] \cup {n}) \cap Functions \subseteq a[f] \cup {f}
      BY <2>2 DEF Body
    <3>2. (a[c] \cup {c}) \cap Functions \subseteq a[f] \cup {f}
      BY <1>2, <3>1
    <3> QED BY <1>1, <1>2, <1>3, <3>2 DEF Body
  <2> QED BY <2>1, <2>2
<1>6. Around(f, c) = Around(f, n) \cup {m \in {n} \cap Body(f) : Nests(m)}
  BY <1>2 DEF Around
<1> QED BY <1>2, <1>3, <1>4, <1>5, <1>6 DEF Met

(* What is below a node that belongs to f: it has more branches around it, *)
(* and a nested function does not have it below it.                        *)
LEMMA BodyBelow ==
    ASSUME tree \in Trees, language \in Languages, NEW f \in Functions,
           NEW N, NEW a, N = Len(tree.kind), a = Above,
           NEW x \in Body(f), NEW n \in a[x], f \in a[n]
    PROVE  /\ Around(f, n) \subseteq Around(f, x) /\ Nesting(f, n) <= Nesting(f, x)
           /\ Nesting(f, n) \in Nat /\ Nesting(f, x) \in Nat
           /\ language = "typescript" => n \notin Functions
<1>0. PICK p : p = tree.parent
  OBVIOUS
<1>1. IsTree(N, p) /\ IsAbove(a, N, p) /\ N \in Nat /\ Nodes = 1..N
  BY <1>0, TreeFacts DEF IsTree, Nodes
<1>2. x \in 1..N /\ a[n] \subseteq a[x] /\ a[x] \subseteq 1..(x - 1)
  BY <1>1, AboveFacts DEF Body
<1>3. n \in 1..N
  BY <1>1, <1>2
<1>4. Around(f, n) \subseteq Around(f, x)
  BY <1>2 DEF Around
<1>5. IsFiniteSet(Around(f, x))
  <2>1. Around(f, x) \in SUBSET (1..N)
    BY <1>1 DEF Around, Body
  <2> QED BY <1>1, <2>1, NodesFinite
<1>6. Nesting(f, n) = Cardinality(Around(f, n)) /\ Nesting(f, x) = Cardinality(Around(f, x))
  BY DEF Nesting, Around
<1>7. Nesting(f, n) <= Nesting(f, x) /\ Nesting(f, n) \in Nat /\ Nesting(f, x) \in Nat
  BY <1>4, <1>5, <1>6, FS_Subset, FS_CardinalityType
<1>8. ASSUME language = "typescript", n \in Functions PROVE FALSE
  <2>1. n \in a[f] \cup {f}
    BY <1>8 DEF Body
  <2>2. n \notin a[n] /\ a[f] \subseteq a[n]
    BY <1>1, <1>3, AboveFacts, UnderFacts
  <2> QED BY <2>1, <2>2
<1> QED BY <1>4, <1>7, <1>8

-----------------------------------------------------------------------------
(* The count in a function.                                                *)

Weight(f) == [x \in Nodes |-> 1 + Nesting(f, x)]
Extra == [x \in Nodes |-> Operands(x) - 1]
Branches(D) == {x \in D : Nests(x)}
BoolOps(D) == {x \in D : language = "python" /\ tree.kind[x] = "logical"}

(* What is to be counted and waits no longer.                              *)
Passed(f, w) == {x \in Counted(f) : ~Waits(Held(w), Above, x)}

SamePassed(f, v, w) == Passed(f, v) = Passed(f, w)

TallyOK(f, c, D) == IsTally(c, Branches(D), BoolOps(D), Weight(f), Extra)

Counters == [cyclomatic : Int, cognitive : Int, depth : Int, max_depth : Int]

AroundMap(f) == [n \in Nodes |-> Around(f, n)]

DepthOK(f, w, c) ==
    IF language = "typescript"
    THEN \A i \in 1..Len(w) : w[i].depth = Nesting(f, w[i].node)
    ELSE LeavesOK(w, AroundMap(f)) /\ c.depth = Cardinality(Leaves(w, 0))

StackMet(f, w) == StackOK(w, Len(tree.kind), Above) /\ \A x \in Held(w) : Met(f, x)

CountOK(f, w, c) ==
    /\ f \in Functions /\ c \in Counters
    /\ StackMet(f, w)
    /\ DepthOK(f, w, c)
    /\ TallyOK(f, c, Passed(f, w))

(* Nesting as a number.                                                    *)
LEMMA NestingFacts ==
    ASSUME tree \in Trees, language \in Languages, NEW f \in Functions, NEW n \in Nodes
    PROVE  /\ Nesting(f, n) = Cardinality(Around(f, n)) /\ Nesting(f, n) \in Nat
           /\ IsFiniteSet(Around(f, n)) /\ n \notin Around(f, n)
<1>1. PICK N : N = Len(tree.kind)
  OBVIOUS
<1>2. N \in Nat /\ Nodes = 1..N
  BY <1>1, TreeFacts DEF IsTree, Nodes
<1>3. Around(f, n) \in SUBSET (1..N) /\ n \notin Around(f, n)
  BY <1>1, <1>2, BodyFacts
<1>4. IsFiniteSet(Around(f, n)) /\ Cardinality(Around(f, n)) \in Nat
  BY <1>2, <1>3, NodesFinite
<1> QED BY <1>3, <1>4 DEF Nesting, Around

(* The weights are numbers.                                                *)
LEMMA WeightFacts ==
    ASSUME tree \in Trees, language \in Languages, NEW f \in Functions
    PROVE  Weight(f) \in [Nodes -> Nat] /\ Extra \in [Nodes -> Int]
<1>1. \A n \in Nodes : 1 + Nesting(f, n) \in Nat
  BY NestingFacts
<1>2. ASSUME NEW n \in Nodes PROVE Operands(n) - 1 \in Int
  <2>1. Len(tree.kind) \in Nat /\ Children(n) \in SUBSET (1..Len(tree.kind))
    BY TreeFacts DEF IsTree, Children, Nodes
  <2>2. Cardinality(Children(n)) \in Nat
    BY <2>1, NodesFinite
  <2> QED BY <2>2 DEF Operands
<1> QED BY <1>1, <1>2 DEF Weight, Extra

(* A turn that goes on with the children.                                  *)
LEMMA CountExpand ==
    ASSUME tree \in Trees, language \in Languages, NEW f \in Functions,
           NEW N, NEW a, N = Len(tree.kind), a = Above,
           NEW w, StackMet(f, w), NEW n, IsTop(n, w, N, a), n = f \/ n \in Counted(f),
           NEW d \in Int, d # Leave, NEW t, IsRest(t, w, N),
           NEW v, v = Push(Children(n), d, t)
    PROVE  /\ StackMet(f, v) /\ n \in 1..N /\ n \notin Passed(f, w)
           /\ Passed(f, v) = Passed(f, w) \cup ({n} \cap Counted(f))
           /\ ComesFrom(v, Children(n), d, t)
<1>1. PICK p : p = tree.parent
  OBVIOUS
<1>2. IsTree(N, p) /\ IsAbove(a, N, p) /\ N \in Nat /\ Nodes = 1..N
  BY <1>1, TreeFacts DEF IsTree, Nodes
<1>3. Children(n) = Under(N, p, n)
  BY <1>1 DEF Children, Nodes, Under
<1>4. /\ n \in 1..N /\ StackOK(v, N, a) /\ Waits(Held(w), a, n)
      /\ \A x \in 1..N : Waits(Held(v), a, x) <=> Waits(Held(w), a, x) /\ x # n
      /\ ComesFrom(v, Under(N, p, n), d, t)
      /\ Held(v) = (Held(w) \ {n}) \cup Under(N, p, n)
  BY <1>2, <1>3, StackExpand
<1>5. \A c \in Under(N, p, n) : Met(f, c)
  BY <1>1, <1>4, BodyChildren DEF Counted
<1>6. StackMet(f, v)
  BY <1>4, <1>5 DEF StackMet
<1>7. \A x \in Counted(f) : x \in 1..N
  BY <1>2 DEF Counted, Body
<1>8. n \notin Passed(f, w)
  BY <1>4 DEF Passed
<1>9. Passed(f, v) = Passed(f, w) \cup ({n} \cap Counted(f))
  BY <1>4, <1>7 DEF Passed
<1> QED BY <1>3, <1>4, <1>6, <1>8, <1>9

(* A turn that leaves out a nested function, or what is nested too deeply. *)
LEMMA CountDrop ==
    ASSUME tree \in Trees, language = "typescript", NEW f \in Functions,
           NEW N, NEW a, N = Len(tree.kind), a = Above,
           NEW w, StackMet(f, w), NEW n, IsTop(n, w, N, a),
           n \in Functions \/ Nesting(f, n) >= MaxNestingDepth,
           NEW v, v = Tail(w)
    PROVE  StackMet(f, v) /\ SamePassed(f, v, w)
<1>1. PICK p : p = tree.parent
  OBVIOUS
<1>2. IsTree(N, p) /\ IsAbove(a, N, p) /\ N \in Nat /\ Nodes = 1..N /\ language \in Languages
  BY <1>1, TreeFacts DEF IsTree, Nodes, Languages
<1>3. n \in 1..N /\ StackOK(v, N, a) /\ Drops(v, w, n, N, a) /\ Held(v) = Held(w) \ {n}
  <2>1. n \in 1..N /\ StackOK(v, N, a) /\ Drops(v, w, n, N, a)
    BY <1>2, StackDrop
  <2> QED BY <2>1 DEF Drops
<1>4. StackMet(f, v)
  BY <1>3 DEF StackMet
<1>5. n \in Held(w)
  BY <1>2, TailFacts DEF IsTop, StackOK
<1>6. f \in a[n]
  BY <1>5 DEF StackMet, Met
<1>7. MaxNestingDepth \in Nat
  BY MetricsAssumption
<1>8. ASSUME NEW x \in Counted(f) PROVE x \in 1..N /\ x # n /\ n \notin a[x]
  <2>1. x \in 1..N /\ x \in Body(f) /\ Nesting(f, x) < MaxNestingDepth
    BY <1>2 DEF Counted, Body
  <2>2. Nesting(f, x) \in Nat
    BY <1>2, <2>1, NestingFacts
  <2>3. x # n
    <3>1. Functions \cap Body(f) = {}
      BY <1>2, BodyFacts
    <3> QED BY <1>7, <2>1, <2>2, <3>1
  <2>4. ASSUME n \in a[x] PROVE FALSE
    <3>1. Nesting(f, n) <= Nesting(f, x) /\ Nesting(f, n) \in Nat /\ n \notin Functions
      BY <1>2, <1>6, <2>1, <2>4, BodyBelow
    <3> QED BY <1>7, <2>1, <2>2, <3>1
  <2> QED BY <2>1, <2>3, <2>4
<1>9. Passed(f, v) = Passed(f, w)
  BY <1>3, <1>8 DEF Passed, Drops
<1> QED BY <1>4, <1>9 DEF SamePassed

(* The counts after a branch, after a BoolOp and after any other node.     *)
LEMMA VisitBranch ==
    ASSUME tree \in Trees, language \in Languages, NEW f \in Functions,
           NEW D \in SUBSET Counted(f), NEW n \in Counted(f), n \notin D,
           Nests(n), ~(language = "python" /\ tree.kind[n] = "logical"),
           NEW E, E = D \cup ({n} \cap Counted(f)), NEW c, TallyOK(f, c, D),
           NEW k, k = 1 + Nesting(f, n),
           NEW r, r.cyclomatic = c.cyclomatic + 1, r.cognitive = c.cognitive + k,
           r.max_depth = IF c.max_depth < k THEN k ELSE c.max_depth
    PROVE  TallyOK(f, r, E)
<1>1. PICK N, g, e, B, C, O : /\ N = Len(tree.kind) /\ g = Weight(f) /\ e = Extra
                              /\ B = Branches(D) /\ C = Branches(E) /\ O = BoolOps(D)
  OBVIOUS
<1>2. N \in Nat /\ Nodes = 1..N
  BY <1>1, TreeFacts DEF IsTree, Nodes
<1>3. Counted(f) \subseteq 1..N /\ n \in 1..N
  BY <1>2 DEF Counted, Body
<1>4. g \in [1..N -> Nat] /\ e \in [1..N -> Int]
  BY <1>1, <1>2, WeightFacts
<1>5. B \in SUBSET (1..N) /\ O \in SUBSET (1..N)
  BY <1>1, <1>3 DEF Branches, BoolOps
<1>6. C = B \cup {n} /\ n \notin B /\ BoolOps(E) = O
  BY <1>1 DEF Branches, BoolOps
<1>7. g[n] = k
  BY <1>1, <1>2, <1>3 DEF Weight
<1>8. IsTally(c, B, O, g, e)
  BY <1>1 DEF TallyOK
<1>9. /\ r.cyclomatic = c.cyclomatic + 1 /\ r.cognitive = c.cognitive + g[n]
      /\ r.max_depth = IF c.max_depth < g[n] THEN g[n] ELSE c.max_depth
  BY <1>7
<1>10. IsTally(r, C, O, g, e)
  BY <1>2, <1>3, <1>4, <1>5, <1>6, <1>8, <1>9, TallyBranch
<1> QED BY <1>1, <1>6, <1>10 DEF TallyOK

(* A boolean operation that is passed adds its operands but one.           *)
LEMMA VisitBoolOp ==
    ASSUME tree \in Trees, language = "python", NEW f \in Functions,
           NEW D \in SUBSET Counted(f), NEW n \in Counted(f), n \notin D,
           ~Nests(n), tree.kind[n] = "logical",
           NEW E, E = D \cup ({n} \cap Counted(f)), NEW c, TallyOK(f, c, D),
           NEW k, k = Operands(n) - 1,
           NEW r, r.cyclomatic = c.cyclomatic + k, r.cognitive = c.cognitive + k,
           r.max_depth = c.max_depth
    PROVE  TallyOK(f, r, E)
<1>1. PICK N, g, e, B, P, O : /\ N = Len(tree.kind) /\ g = Weight(f) /\ e = Extra
                              /\ B = Branches(D) /\ P = BoolOps(E) /\ O = BoolOps(D)
  OBVIOUS
<1>2. N \in Nat /\ Nodes = 1..N /\ language \in Languages
  BY <1>1, TreeFacts DEF IsTree, Nodes, Languages
<1>3. Counted(f) \subseteq 1..N /\ n \in 1..N
  BY <1>2 DEF Counted, Body
<1>4. g \in [1..N -> Nat] /\ e \in [1..N -> Int]
  BY <1>1, <1>2, WeightFacts
<1>5. B \in SUBSET (1..N) /\ O \in SUBSET (1..N)
  BY <1>1, <1>3 DEF Branches, BoolOps
<1>6. P = O \cup {n} /\ n \notin O /\ Branches(E) = B
  BY <1>1 DEF Branches, BoolOps
<1>7. e[n] = k
  BY <1>1, <1>2, <1>3 DEF Extra
<1>8. IsTally(c, B, O, g, e)
  BY <1>1 DEF TallyOK
<1>9. r.cyclomatic = c.cyclomatic + e[n] /\ r.cognitive = c.cognitive + e[n] /\ r.max_depth = c.max_depth
  BY <1>7
<1>10. IsTally(r, B, P, g, e)
  BY <1>2, <1>3, <1>4, <1>5, <1>6, <1>8, <1>9, TallyBoolOp
<1> QED BY <1>1, <1>6, <1>10 DEF TallyOK

(* Any other node that is passed adds nothing.                             *)
LEMMA VisitOther ==
    ASSUME NEW f, NEW D, NEW n,
           n \in Counted(f) => ~Nests(n) /\ ~(language = "python" /\ tree.kind[n] = "logical"),
           NEW E, E = D \cup ({n} \cap Counted(f)), NEW c, TallyOK(f, c, D),
           NEW r, r.cyclomatic = c.cyclomatic, r.cognitive = c.cognitive, r.max_depth = c.max_depth
    PROVE  TallyOK(f, r, E)
<1>1. Branches(E) = Branches(D) /\ BoolOps(E) = BoolOps(D)
  BY DEF Branches, BoolOps
<1> QED BY <1>1 DEF TallyOK, IsTally

(* The top of a stack that is not empty.                                   *)
LEMMA CountTop ==
    ASSUME tree \in Trees, NEW f, NEW w, StackMet(f, w), w # << >>,
           NEW N, NEW a, N = Len(tree.kind), a = Above,
           NEW h, h = Head(w), NEW n, n = h.node
    PROVE  /\ N \in Nat /\ Nodes = 1..N
           /\ w \in Seq(Entries(N)) /\ Apart(w) /\ h = w[1] /\ 1 \in 1..Len(w)
           /\ n \in 1..N /\ h.depth \in Int
           /\ h.depth # Leave => IsTop(n, w, N, a) /\ Met(f, n)
           /\ IsRest(Tail(w), w, N)
           /\ \A j \in 1..Len(Tail(w)) : 1 + j \in 1..Len(w) /\ Tail(w)[j] = w[1 + j]
<1>1. N \in Nat /\ Nodes = 1..N /\ StackOK(w, N, a)
  BY TreeFacts DEF IsTree, Nodes, StackMet
<1>2. /\ w \in Seq(Entries(N)) /\ Apart(w) /\ h = w[1] /\ 1 \in 1..Len(w)
      /\ Tail(w) \in Seq(Entries(N)) /\ Apart(Tail(w)) /\ w[1] \in Entries(N)
      /\ \A j \in 1..Len(Tail(w)) : 1 + j \in 1..Len(w) /\ Tail(w)[j] = w[1 + j]
      /\ w[1].depth # Leave => w[1].node \in Held(w)
  BY <1>1, TailFacts DEF StackOK
<1>3. n \in 1..N /\ h.depth \in Int
  BY <1>2 DEF Entries
<1>4. IsRest(Tail(w), w, N)
  BY <1>2 DEF IsRest
<1>5. h.depth # Leave => IsTop(n, w, N, a) /\ Met(f, n)
  BY <1>1, <1>2 DEF IsTop, StackMet
<1> QED BY <1>1, <1>2, <1>3, <1>4, <1>5

(* A turn of _count_ts_function takes n, with its depth, from w, and makes *)
(* v of it and r of the counters c.                                        *)
TsTurn(n, depth, w, c, v, r) ==
    \/ (n \in Functions \/ depth >= MaxNestingDepth) /\ v = Tail(w) /\ r = c
    \/ /\ n \notin Functions /\ ~(depth >= MaxNestingDepth)
       /\ Nests(n) /\ v = Push(Children(n), depth + 1, Tail(w))
       /\ r = [c EXCEPT !.cyclomatic = c.cyclomatic + 1,
                        !.cognitive = c.cognitive + 1 + depth,
                        !.max_depth = IF c.max_depth < depth + 1 THEN depth + 1 ELSE c.max_depth]
    \/ /\ n \notin Functions /\ ~(depth >= MaxNestingDepth)
       /\ ~Nests(n) /\ v = Push(Children(n), depth, Tail(w)) /\ r = c

(* Such a turn keeps the count right.                                      *)
LEMMA CountTsTurn ==
    ASSUME tree \in Trees, language = "typescript", NEW f, NEW w, NEW c, CountOK(f, w, c), w # << >>,
           NEW h, h = Head(w), NEW n, n = h.node, NEW v, NEW r, TsTurn(n, h.depth, w, c, v, r)
    PROVE  CountOK(f, v, r)
<1>1. PICK N, a, p : N = Len(tree.kind) /\ a = Above /\ p = tree.parent
  OBVIOUS
<1>2. f \in Functions /\ c \in Counters /\ StackMet(f, w) /\ TallyOK(f, c, Passed(f, w))
  BY DEF CountOK
<1>3. /\ N \in Nat /\ Nodes = 1..N /\ h = w[1] /\ 1 \in 1..Len(w) /\ n \in 1..N
      /\ IsRest(Tail(w), w, N)
      /\ \A j \in 1..Len(Tail(w)) : 1 + j \in 1..Len(w) /\ Tail(w)[j] = w[1 + j]
  BY <1>1, <1>2, CountTop
<1>4. \A i \in 1..Len(w) : w[i].depth = Nesting(f, w[i].node)
  BY DEF CountOK, DepthOK
<1>5. language \in Languages /\ MaxNestingDepth \in Nat
  BY MetricsAssumption DEF Languages
<1>6. h.depth = Nesting(f, n) /\ h.depth \in Nat /\ h.depth # Leave
  <2>1. h.depth = Nesting(f, n)
    BY <1>3, <1>4
  <2>2. Nesting(f, n) \in Nat
    BY <1>2, <1>3, <1>5, NestingFacts
  <2> QED BY <2>1, <2>2 DEF Leave
<1>7. IsTop(n, w, N, a) /\ Met(f, n)
  BY <1>1, <1>2, <1>6, CountTop
<1>8. \A j \in 1..Len(Tail(w)) : Tail(w)[j].depth = Nesting(f, Tail(w)[j].node)
  BY <1>3, <1>4
<1>9. CASE (n \in Functions \/ h.depth >= MaxNestingDepth) /\ v = Tail(w) /\ r = c
  <2>1. n \in Functions \/ Nesting(f, n) >= MaxNestingDepth
    BY <1>6, <1>9
  <2>2. StackMet(f, v) /\ Passed(f, v) = Passed(f, w)
    <3>1. v = Tail(w)
      BY <1>9
    <3>2. StackMet(f, v) /\ SamePassed(f, v, w)
      BY <1>1, <1>2, <1>7, <2>1, <3>1, CountDrop
    <3> QED BY <3>2 DEF SamePassed
  <2>3. DepthOK(f, v, r)
    BY <1>8, <1>9 DEF DepthOK
  <2> QED BY <1>2, <1>9, <2>2, <2>3 DEF CountOK
<1>10. ASSUME n \notin Functions, ~(h.depth >= MaxNestingDepth), NEW d \in Nat,
              d = IF Nests(n) THEN h.depth + 1 ELSE h.depth,
              v = Push(Children(n), d, Tail(w))
       PROVE  /\ n \in Counted(f) /\ StackMet(f, v) /\ n \notin Passed(f, w)
              /\ Passed(f, v) = Passed(f, w) \cup ({n} \cap Counted(f))
              /\ DepthOK(f, v, r)
  <2>1. n \in Body(f) /\ n \in Counted(f)
    <3>1. n \in Body(f)
      BY <1>7, <1>10 DEF Met
    <3>2. Nesting(f, n) < MaxNestingDepth
      BY <1>5, <1>6, <1>10
    <3> QED BY <3>1, <3>2 DEF Counted
  <2>2. d \in Int /\ d # Leave
    BY DEF Leave
  <2>3. /\ StackMet(f, v) /\ n \notin Passed(f, w)
        /\ Passed(f, v) = Passed(f, w) \cup ({n} \cap Counted(f))
        /\ ComesFrom(v, Children(n), d, Tail(w))
    BY <1>1, <1>2, <1>3, <1>5, <1>7, <1>10, <2>1, <2>2, CountExpand
  <2>4. Children(n) = Under(N, p, n)
    BY <1>1 DEF Children, Nodes, Under
  <2>5. ASSUME NEW x \in Children(n) PROVE Nesting(f, x) = d
    <3>1. x \in 1..N /\ Around(f, x) = Around(f, n) \cup {m \in {n} \cap Body(f) : Nests(m)}
      BY <1>1, <1>2, <1>3, <1>5, <2>1, <2>4, BodyChildren
    <3>2. /\ Nesting(f, n) = Cardinality(Around(f, n)) /\ IsFiniteSet(Around(f, n))
          /\ n \notin Around(f, n) /\ Nesting(f, x) = Cardinality(Around(f, x))
      BY <1>2, <1>3, <1>5, <3>1, NestingFacts
    <3>3. CASE Nests(n)
      <4>1. Around(f, x) = Around(f, n) \cup {n}
        BY <2>1, <3>1, <3>3
      <4>2. Cardinality(Around(f, x)) = Cardinality(Around(f, n)) + 1
        <5>1. PICK Q : Q = Around(f, n)
          OBVIOUS
        <5>2. Cardinality(Q \cup {n}) = Cardinality(Q) + 1
          BY <3>2, <5>1, FS_AddElement
        <5> QED BY <4>1, <5>1, <5>2
      <4> QED BY <1>6, <1>10, <3>2, <3>3, <4>2
    <3>4. CASE ~Nests(n)
      <4>1. Around(f, x) = Around(f, n)
        BY <3>1, <3>4
      <4> QED BY <1>6, <1>10, <3>2, <3>4, <4>1
    <3> QED BY <3>3, <3>4
  <2>6. ASSUME NEW i \in 1..Len(v) PROVE v[i].depth = Nesting(f, v[i].node)
    <3>1. CASE \E x \in Children(n) : v[i] = [node |-> x, depth |-> d]
      <4>1. PICK x \in Children(n) : v[i] = [node |-> x, depth |-> d]
        BY <3>1
      <4>2. v[i].node = x /\ v[i].depth = d
        BY <4>1
      <4> QED BY <2>5, <4>2
    <3>2. CASE \E j \in 1..Len(Tail(w)) : v[i] = Tail(w)[j]
      BY <1>8, <3>2
    <3> QED BY <2>3, <3>1, <3>2 DEF ComesFrom
  <2>7. DepthOK(f, v, r)
    BY <2>6 DEF DepthOK
  <2> QED BY <2>1, <2>3, <2>7
<1>11. Passed(f, w) \in SUBSET Counted(f)
  BY DEF Passed
<1>12. CASE /\ n \notin Functions /\ ~(h.depth >= MaxNestingDepth)
            /\ Nests(n) /\ v = Push(Children(n), h.depth + 1, Tail(w))
            /\ r = [c EXCEPT !.cyclomatic = c.cyclomatic + 1,
                             !.cognitive = c.cognitive + 1 + h.depth,
                             !.max_depth = IF c.max_depth < h.depth + 1
                                           THEN h.depth + 1 ELSE c.max_depth]
  <2>1. PICK k : k = h.depth + 1
    OBVIOUS
  <2>2. k \in Nat /\ k = 1 + Nesting(f, n)
    BY <1>6, <2>1
  <2>3. /\ n \in Counted(f) /\ StackMet(f, v) /\ n \notin Passed(f, w)
        /\ Passed(f, v) = Passed(f, w) \cup ({n} \cap Counted(f))
        /\ DepthOK(f, v, r)
    BY <1>10, <1>12, <2>1, <2>2
  <2>4. /\ r \in Counters /\ r.cyclomatic = c.cyclomatic + 1
        /\ r.cognitive = c.cognitive + 1 + h.depth
        /\ r.max_depth = IF c.max_depth < k THEN k ELSE c.max_depth
    <3>1. PICK x, y, z : /\ x = c.cyclomatic + 1 /\ y = c.cognitive + 1 + h.depth
                         /\ z = IF c.max_depth < k THEN k ELSE c.max_depth
      OBVIOUS
    <3>2. r = [c EXCEPT !.cyclomatic = x, !.cognitive = y, !.max_depth = z]
      BY <1>12, <2>1, <3>1
    <3>3. x \in Int /\ y \in Int /\ z \in Int
      BY <1>2, <1>6, <2>2, <3>1 DEF Counters
    <3>4. r \in Counters /\ r.cyclomatic = x /\ r.cognitive = y /\ r.max_depth = z
      BY <1>2, <3>2, <3>3 DEF Counters
    <3> QED BY <3>1, <3>4
  <2>5. r.cognitive = c.cognitive + k
    <3>1. c.cognitive \in Int
      BY <1>2 DEF Counters
    <3>2. h.depth \in Int /\ k = h.depth + 1
      BY <1>6, <2>1
    <3>3. r.cognitive = c.cognitive + 1 + h.depth
      BY <2>4
    <3>4. c.cognitive + 1 + h.depth = c.cognitive + (h.depth + 1)
      BY <3>1, <3>2
    <3> QED BY <3>2, <3>3, <3>4
  <2>6. TallyOK(f, r, Passed(f, v))
    <3>1. PICK D, E : D = Passed(f, w) /\ E = Passed(f, v)
      OBVIOUS
    <3>2. D \in SUBSET Counted(f) /\ n \notin D /\ E = D \cup ({n} \cap Counted(f)) /\ TallyOK(f, c, D)
      BY <1>2, <1>11, <2>3, <3>1
    <3>3. ~(language = "python" /\ tree.kind[n] = "logical") /\ Nests(n)
      BY <1>12
    <3>4. TallyOK(f, r, E)
      BY <1>2, <1>5, <2>2, <2>3, <2>4, <2>5, <3>2, <3>3, VisitBranch
    <3> QED BY <3>1, <3>4
  <2> QED BY <1>2, <2>3, <2>4, <2>6 DEF CountOK
<1>13. CASE /\ n \notin Functions /\ ~(h.depth >= MaxNestingDepth)
            /\ ~Nests(n) /\ v = Push(Children(n), h.depth, Tail(w)) /\ r = c
  <2>1. /\ n \in Counted(f) /\ StackMet(f, v) /\ n \notin Passed(f, w)
        /\ Passed(f, v) = Passed(f, w) \cup ({n} \cap Counted(f))
        /\ DepthOK(f, v, r)
    BY <1>6, <1>10, <1>13
  <2>2. TallyOK(f, r, Passed(f, v))
    BY <1>2, <1>13, <2>1, VisitOther
  <2> QED BY <1>2, <1>13, <2>1, <2>2 DEF CountOK
<1> QED BY <1>9, <1>12, <1>13 DEF TsTurn

(* Python has no else nodes.                                               *)
NoElse == language = "python" => \A n \in Nodes : tree.kind[n] # "else"

(* A turn of generic_visit, up to the children.                            *)
PyTurn(n, w, c, v, r) ==
    \/ /\ Branching(n)
       /\ r = [cyclomatic |-> c.cyclomatic + 1,
               cognitive |-> c.cognitive + (c.depth + 1),
               depth |-> c.depth + 1,
               max_depth |-> IF c.max_depth < c.depth + 1 THEN c.depth + 1 ELSE c.max_depth]
       /\ v = Push(Children(n), 0, Push({n}, Leave, Tail(w)))
    \/ /\ tree.kind[n] = "logical"
       /\ r = [c EXCEPT !.cyclomatic = c.cyclomatic + Operands(n) - 1,
                        !.cognitive = c.cognitive + Operands(n) - 1]
       /\ v = Push(Children(n), 0, Tail(w))
    \/ /\ ~Branching(n) /\ tree.kind[n] # "logical"
       /\ r = c /\ v = Push(Children(n), 0, Tail(w))

(* Such a turn keeps the count right.                                      *)
LEMMA CountPyTurn ==
    ASSUME tree \in Trees, language = "python", NoElse,
           NEW f, NEW w, NEW c, CountOK(f, w, c), w # << >>, Head(w).depth # Leave,
           NEW n, n = Head(w).node, NEW v, NEW r, PyTurn(n, w, c, v, r)
    PROVE  CountOK(f, v, r)
<1>1. PICK N, a, p, A, h, t : /\ N = Len(tree.kind) /\ a = Above /\ p = tree.parent
                              /\ A = AroundMap(f) /\ h = Head(w) /\ t = Tail(w)
  OBVIOUS
<1>2. f \in Functions /\ c \in Counters /\ StackMet(f, w) /\ TallyOK(f, c, Passed(f, w))
  BY DEF CountOK
<1>3. language \in Languages /\ n = h.node /\ h.depth # Leave
  BY <1>1 DEF Languages
<1>4. /\ N \in Nat /\ Nodes = 1..N /\ w \in Seq(Entries(N)) /\ Apart(w) /\ h = w[1]
      /\ n \in 1..N /\ IsRest(t, w, N) /\ IsTop(n, w, N, a) /\ Met(f, n)
  BY <1>1, <1>2, <1>3, CountTop
<1>5. t \in Seq(Entries(N)) /\ Apart(t) /\ Held(t) = Held(Tail(w))
  BY <1>4 DEF IsRest
<1>6. LeavesOK(w, A) /\ c.depth = Cardinality(Leaves(w, 0))
  BY <1>1 DEF CountOK, DepthOK
<1>7. LeavesOK(t, A) /\ Leaves(w, 0) = Leaves(t, 0) /\ A[n] = Leaves(t, 0)
  <2>1. t = Tail(w) /\ w[1].depth # Leave /\ w[1].node = n
    BY <1>1, <1>3, <1>4
  <2>2. LeavesOK(t, A)
    BY <1>4, <1>6, <2>1, LeavesTail
  <2>3. Leaves(w, 0) = Leaves(t, 0) /\ A[w[1].node] = Leaves(t, 0)
    BY <1>4, <1>6, <2>1, LeavesTail
  <2> QED BY <2>1, <2>2, <2>3
<1>8. \A x \in 1..N : A[x] = Around(f, x)
  BY <1>1, <1>4 DEF AroundMap
<1>9. /\ Nesting(f, n) = Cardinality(Around(f, n)) /\ Nesting(f, n) \in Nat
      /\ IsFiniteSet(Around(f, n)) /\ n \notin Around(f, n)
  BY <1>2, <1>3, <1>4, NestingFacts
<1>10. c.depth = Nesting(f, n) /\ Leaves(t, 0) = Around(f, n)
  BY <1>4, <1>6, <1>7, <1>8, <1>9
<1>11. \A x \in Body(f) : x \in Counted(f)
  BY DEF Counted
<1>12. n = f \/ n \in Body(f)
  BY <1>1, <1>2, <1>3, <1>4, BodyFacts DEF Met
<1>13. tree.kind[f] = "function" /\ (n = f => n \notin Counted(f))
  BY <1>1, <1>2, <1>3, BodyFacts DEF Functions, Counted
<1>14. Nests(n) <=> Branching(n)
  BY <1>4 DEF Nests, NoElse
<1>15. Children(n) = Under(N, p, n) /\ Children(n) \in SUBSET (1..N)
  BY <1>1 DEF Children, Nodes, Under
<1>16. \A x \in Children(n) : Around(f, x) = Around(f, n) \cup {m \in {n} \cap Body(f) : Nests(m)}
  BY <1>1, <1>2, <1>3, <1>4, <1>12, <1>15, BodyChildren
<1>17. Passed(f, w) \in SUBSET Counted(f)
  BY DEF Passed
<1>z. 0 \in Int /\ 0 # Leave
  BY DEF Leave
<1>18. ASSUME NEW u, IsRest(u, w, N), v = Push(Children(n), 0, u)
       PROVE  /\ StackMet(f, v) /\ n \notin Passed(f, w)
              /\ Passed(f, v) = Passed(f, w) \cup ({n} \cap Counted(f))
  <2>1. n = f \/ n \in Counted(f)
    BY <1>11, <1>12
  <2>2. StackMet(f, v)
    BY <1>1, <1>2, <1>3, <1>4, <1>18, <1>z, <2>1, CountExpand
  <2>3. n \notin Passed(f, w)
    BY <1>1, <1>2, <1>3, <1>4, <1>18, <1>z, <2>1, CountExpand
  <2>4. Passed(f, v) = Passed(f, w) \cup ({n} \cap Counted(f))
    BY <1>1, <1>2, <1>3, <1>4, <1>18, <1>z, <2>1, CountExpand
  <2> QED BY <2>2, <2>3, <2>4
<1>19. ASSUME NEW u \in Seq(Entries(N)), LeavesOK(u, A), v = Push(Children(n), 0, u),
              \A x \in Children(n) : A[x] = Leaves(u, 0), r.depth = Cardinality(Leaves(u, 0))
       PROVE  DepthOK(f, v, r)
  <2>1. LeavesOK(v, A) /\ Leaves(v, 0) = Leaves(u, 0)
    BY <1>4, <1>15, <1>19, <1>z, LeavesPush
  <2> QED BY <1>1, <1>19, <2>1 DEF DepthOK
<1>20. CASE /\ Branching(n)
            /\ r = [cyclomatic |-> c.cyclomatic + 1,
                    cognitive |-> c.cognitive + (c.depth + 1),
                    depth |-> c.depth + 1,
                    max_depth |-> IF c.max_depth < c.depth + 1 THEN c.depth + 1 ELSE c.max_depth]
            /\ v = Push(Children(n), 0, Push({n}, Leave, Tail(w)))
  <2>1. PICK u, k : u = Push({n}, Leave, t) /\ k = c.depth + 1
    OBVIOUS
  <2>2. n # f /\ n \in Body(f) /\ n \in Counted(f) /\ Nests(n)
    BY <1>11, <1>12, <1>13, <1>14, <1>20 DEF Branching
  <2>3. n \notin Leaves(t, 0)
    BY <1>9, <1>10
  <2>4. u \in Seq(Entries(N)) /\ Apart(u) /\ Held(u) = Held(t)
    BY <1>4, <1>5, <2>1, PushLeave
  <2>5. LeavesOK(u, A) /\ Leaves(u, 0) = Leaves(t, 0) \cup {n}
    BY <1>4, <1>5, <1>7, <2>1, <2>3, LeavesEnter
  <2>6. IsRest(u, w, N) /\ v = Push(Children(n), 0, u)
    BY <1>1, <1>5, <1>20, <2>1, <2>4 DEF IsRest
  <2>7. /\ StackMet(f, v) /\ n \notin Passed(f, w)
        /\ Passed(f, v) = Passed(f, w) \cup ({n} \cap Counted(f))
    BY <1>18, <2>6
  <2>8. \A x \in Children(n) : A[x] = Leaves(u, 0)
    <3> TAKE x \in Children(n)
    <3>1. Around(f, x) = Around(f, n) \cup {n}
      BY <1>16, <2>2
    <3> QED BY <1>8, <1>10, <1>15, <2>5, <3>1
  <2>9. /\ r.cyclomatic = c.cyclomatic + 1 /\ r.cognitive = c.cognitive + k
        /\ r.depth = k /\ r.max_depth = IF c.max_depth < k THEN k ELSE c.max_depth
    BY <1>20, <2>1
  <2>10. k = 1 + Nesting(f, n) /\ k \in Int
    BY <1>9, <1>10, <2>1
  <2>11. r \in Counters
    <3>1. /\ c.cyclomatic + 1 \in Int /\ c.cognitive + k \in Int
          /\ (IF c.max_depth < k THEN k ELSE c.max_depth) \in Int
      BY <1>2, <2>10 DEF Counters
    <3> QED BY <1>20, <2>1, <2>10, <3>1 DEF Counters
  <2>12. r.depth = Cardinality(Leaves(u, 0))
    <3>1. PICK Q : Q = Leaves(t, 0)
      OBVIOUS
    <3>2. IsFiniteSet(Q) /\ n \notin Q /\ Cardinality(Q) = Nesting(f, n)
      BY <1>9, <1>10, <3>1
    <3>3. Cardinality(Q \cup {n}) = Cardinality(Q) + 1
      BY <3>2, FS_AddElement
    <3>4. Leaves(u, 0) = Q \cup {n}
      BY <2>5, <3>1
    <3>5. Cardinality(Q \cup {n}) = k
      BY <1>9, <2>10, <3>2, <3>3
    <3> QED BY <2>9, <3>4, <3>5
  <2>13. DepthOK(f, v, r)
    BY <1>19, <2>4, <2>5, <2>6, <2>8, <2>12
  <2>14. TallyOK(f, r, Passed(f, v))
    <3>1. PICK D, E : D = Passed(f, w) /\ E = Passed(f, v)
      OBVIOUS
    <3>2. D \in SUBSET Counted(f) /\ n \notin D /\ E = D \cup ({n} \cap Counted(f)) /\ TallyOK(f, c, D)
      BY <1>2, <1>17, <2>7, <3>1
    <3>3. ~(language = "python" /\ tree.kind[n] = "logical")
      BY <1>20 DEF Branching
    <3>4. TallyOK(f, r, E)
      BY <1>2, <1>3, <2>2, <2>9, <2>10, <3>2, <3>3, VisitBranch
    <3> QED BY <3>1, <3>4
  <2> QED BY <1>2, <2>7, <2>11, <2>13, <2>14 DEF CountOK
<1>21. ASSUME ~Nests(n), v = Push(Children(n), 0, Tail(w)), r.depth = c.depth
       PROVE  /\ StackMet(f, v) /\ n \notin Passed(f, w)
              /\ Passed(f, v) = Passed(f, w) \cup ({n} \cap Counted(f))
              /\ DepthOK(f, v, r)
  <2>1. v = Push(Children(n), 0, t)
    BY <1>1, <1>21
  <2>2. /\ StackMet(f, v) /\ n \notin Passed(f, w)
        /\ Passed(f, v) = Passed(f, w) \cup ({n} \cap Counted(f))
    BY <1>4, <1>18, <2>1
  <2>3. \A x \in Children(n) : A[x] = Leaves(t, 0)
    <3> TAKE x \in Children(n)
    <3>1. Around(f, x) = Around(f, n)
      BY <1>16, <1>21
    <3> QED BY <1>8, <1>10, <1>15, <3>1
  <2>4. r.depth = Cardinality(Leaves(t, 0))
    BY <1>6, <1>7, <1>21
  <2>5. DepthOK(f, v, r)
    BY <1>5, <1>7, <1>19, <2>1, <2>3, <2>4
  <2> QED BY <2>2, <2>5
<1>22. CASE /\ tree.kind[n] = "logical"
            /\ r = [c EXCEPT !.cyclomatic = c.cyclomatic + Operands(n) - 1,
                             !.cognitive = c.cognitive + Operands(n) - 1]
            /\ v = Push(Children(n), 0, Tail(w))
  <2>1. ~Nests(n) /\ n # f /\ n \in Counted(f)
    BY <1>11, <1>12, <1>13, <1>14, <1>22 DEF Branching
  <2>2. PICK k, x, y : /\ k = Operands(n) - 1 /\ x = c.cyclomatic + Operands(n) - 1
                       /\ y = c.cognitive + Operands(n) - 1
    OBVIOUS
  <2>3. Operands(n) \in Int
    <3>1. Cardinality(Children(n)) \in Nat
      BY <1>4, <1>15, NodesFinite
    <3> QED BY <3>1 DEF Operands
  <2>4. x = c.cyclomatic + k /\ y = c.cognitive + k /\ x \in Int /\ y \in Int
    BY <1>2, <2>2, <2>3 DEF Counters
  <2>5. r = [c EXCEPT !.cyclomatic = x, !.cognitive = y]
    BY <1>22, <2>2
  <2>6. /\ r \in Counters /\ r.cyclomatic = x /\ r.cognitive = y
        /\ r.max_depth = c.max_depth /\ r.depth = c.depth
    BY <1>2, <2>4, <2>5 DEF Counters
  <2>7. /\ StackMet(f, v) /\ n \notin Passed(f, w)
        /\ Passed(f, v) = Passed(f, w) \cup ({n} \cap Counted(f))
        /\ DepthOK(f, v, r)
    BY <1>21, <1>22, <2>1, <2>6
  <2>8. TallyOK(f, r, Passed(f, v))
    <3>1. PICK D, E : D = Passed(f, w) /\ E = Passed(f, v)
      OBVIOUS
    <3>2. D \in SUBSET Counted(f) /\ n \notin D /\ E = D \cup ({n} \cap Counted(f)) /\ TallyOK(f, c, D)
      BY <1>2, <1>17, <2>7, <3>1
    <3>3. r.cyclomatic = c.cyclomatic + k /\ r.cognitive = c.cognitive + k /\ tree.kind[n] = "logical"
      BY <1>22, <2>4, <2>6
    <3>4. TallyOK(f, r, E)
      BY <1>2, <2>1, <2>2, <2>6, <3>2, <3>3, VisitBoolOp
    <3> QED BY <3>1, <3>4
  <2> QED BY <1>2, <2>6, <2>7, <2>8 DEF CountOK
<1>23. CASE /\ ~Branching(n) /\ tree.kind[n] # "logical"
            /\ r = c /\ v = Push(Children(n), 0, Tail(w))
  <2>1. ~Nests(n) /\ ~(language = "python" /\ tree.kind[n] = "logical")
    BY <1>14, <1>23
  <2>2. /\ StackMet(f, v) /\ n \notin Passed(f, w)
        /\ Passed(f, v) = Passed(f, w) \cup ({n} \cap Counted(f))
        /\ DepthOK(f, v, r)
    BY <1>21, <1>23, <2>1
  <2>3. TallyOK(f, r, Passed(f, v))
    BY <1>2, <1>23, <2>1, <2>2, VisitOther
  <2> QED BY <1>2, <1>23, <2>2, <2>3 DEF CountOK
<1> QED BY <1>20, <1>22, <1>23 DEF PyTurn

(* The end of a branch.                                                    *)
LEMMA CountPyLeave ==
    ASSUME tree \in Trees, language = "python",
           NEW f, NEW w, NEW c, CountOK(f, w, c), w # << >>, Head(w).depth = Leave,
           NEW v, v = Tail(w), NEW r, r = [c EXCEPT !.depth = c.depth - 1]
    PROVE  CountOK(f, v, r)
<1>1. PICK N, a, A, h, n : /\ N = Len(tree.kind) /\ a = Above /\ A = AroundMap(f)
                           /\ h = Head(w) /\ n = h.node
  OBVIOUS
<1>2. f \in Functions /\ c \in Counters /\ StackMet(f, w) /\ TallyOK(f, c, Passed(f, w))
  BY DEF CountOK
<1>3. /\ N \in Nat /\ w \in Seq(Entries(N)) /\ Apart(w) /\ h = w[1] /\ h.depth = Leave
      /\ IsRest(v, w, N) /\ IsFront(Held(w), N, a)
  BY <1>1, <1>2, CountTop DEF StackMet, StackOK
<1>4. v \in Seq(Entries(N)) /\ Apart(v) /\ Held(v) = Held(w)
  BY <1>3, TailFacts
<1>5. StackMet(f, v) /\ Passed(f, v) = Passed(f, w)
  BY <1>1, <1>2, <1>3, <1>4 DEF StackMet, StackOK, Passed
<1>6. LeavesOK(w, A) /\ c.depth = Cardinality(Leaves(w, 0))
  BY <1>1 DEF CountOK, DepthOK
<1>7. PICK Q, R : Q = Leaves(w, 0) /\ R = Leaves(v, 0)
  OBVIOUS
<1>8. LeavesOK(v, A) /\ Q \in SUBSET (1..N) /\ n \in Q /\ R = Q \ {n}
  <2>1. LeavesOK(w, A) /\ N \in Nat /\ w \in Seq(Entries(N)) /\ Apart(w)
    BY <1>3, <1>6
  <2>2. LeavesOK(v, A) /\ Leaves(w, 0) \in SUBSET (1..N)
    BY <2>1, LeavesTail
  <2>3. w[1].depth = Leave =>
            w[1].node \in Leaves(w, 0) /\ Leaves(v, 0) = Leaves(w, 0) \ {w[1].node}
    BY <2>1, LeavesTail
  <2>4. w[1].depth = Leave /\ w[1].node = n
    BY <1>1, <1>3
  <2> QED BY <1>7, <2>2, <2>3, <2>4
<1>9. IsFiniteSet(Q)
  BY <1>3, <1>8, NodesFinite
<1>10. Cardinality(R) = Cardinality(Q) - 1
  BY <1>8, <1>9, FS_RemoveElement
<1>11. /\ r \in Counters /\ r.depth = c.depth - 1 /\ r.cyclomatic = c.cyclomatic
       /\ r.cognitive = c.cognitive /\ r.max_depth = c.max_depth
  BY <1>2 DEF Counters
<1>12. DepthOK(f, v, r)
  BY <1>1, <1>6, <1>7, <1>8, <1>10, <1>11 DEF DepthOK
<1>13. TallyOK(f, r, Passed(f, v))
  BY <1>2, <1>5, <1>11 DEF TallyOK, IsTally
<1> QED BY <1>2, <1>5, <1>11, <1>12, <1>13 DEF CountOK

(* A function has no branch of its own around it.                          *)
LEMMA AroundItself ==
    ASSUME tree \in Trees, language \in Languages, NEW f \in Functions
    PROVE  Around(f, f) = {}
<1>1. Above[f] \cap Body(f) = {}
  BY BodyFacts
<1> QED BY <1>1 DEF Around

(* Before the first node nothing has been passed.                          *)
LEMMA NothingPassed ==
    ASSUME NEW f, NEW w, \A x \in Counted(f) : Waits(Held(w), Above, x)
    PROVE  TallyOK(f, NewCounter, Passed(f, w)) /\ NewCounter \in Counters
<1>1. Passed(f, w) = {}
  BY DEF Passed
<1>2. Branches({}) = {} /\ BoolOps({}) = {}
  BY DEF Branches, BoolOps
<1>3. TallyOK(f, NewCounter, {})
  BY <1>2, TallyEmpty DEF TallyOK
<1>4. NewCounter \in Counters
  BY DEF NewCounter, Counters
<1> QED BY <1>1, <1>3, <1>4

(* A count of _count_ts_function begins with the children of the function. *)
LEMMA CountTsBegins ==
    ASSUME tree \in Trees, language = "typescript", NEW f \in Functions,
           NEW v, v = Push(Children(f), 0, << >>)
    PROVE  CountOK(f, v, NewCounter)
<1>1. PICK N, a, p, w : /\ N = Len(tree.kind) /\ a = Above /\ p = tree.parent
                        /\ w = <<[node |-> f, depth |-> 0]>>
  OBVIOUS
<1>2. IsTree(N, p) /\ IsAbove(a, N, p) /\ N \in Nat /\ Nodes = 1..N /\ language \in Languages
  BY <1>1, TreeFacts DEF IsTree, Nodes, Languages
<1>3. f \in 1..N /\ 0 \in Int /\ 0 # Leave
  BY <1>2 DEF Functions, Leave
<1>4. StackOK(w, N, a) /\ Held(w) = {f}
  BY <1>1, <1>2, <1>3, StackSingle
<1>5. w # << >> /\ Head(w).node = f /\ Head(w).depth = 0 /\ Tail(w) = << >>
  BY <1>1
<1>6. IsTop(f, w, N, a)
  BY <1>3, <1>4, <1>5 DEF IsTop
<1>7. PICK t : t = << >>
  OBVIOUS
<1>8. IsRest(t, w, N) /\ Len(t) = 0
  BY <1>5, <1>7, StackEmpty DEF IsRest, StackOK
<1>9. Children(f) = Under(N, p, f) /\ v = Push(Under(N, p, f), 0, t)
  BY <1>1, <1>7 DEF Children, Nodes, Under
<1>10. StackOK(v, N, a)
  BY <1>2, <1>3, <1>6, <1>8, <1>9, StackExpand
<1>11. ComesFrom(v, Under(N, p, f), 0, t)
  BY <1>2, <1>3, <1>6, <1>8, <1>9, StackExpand
<1>12. \A x \in 1..N : Waits(Held(v), a, x) <=> Waits(Held(w), a, x) /\ x # f
  BY <1>2, <1>3, <1>6, <1>8, <1>9, StackExpand
<1>13. ASSUME NEW x \in Under(N, p, f) PROVE Met(f, x) /\ Nesting(f, x) = 0
  <2>1. x \in 1..N /\ Met(f, x) /\ Around(f, x) = Around(f, f) \cup {m \in {f} \cap Body(f) : Nests(m)}
    BY <1>1, <1>2, <1>3, <1>13, BodyChildren
  <2>2. f \notin Body(f) /\ Around(f, f) = {}
    BY <1>1, <1>2, BodyFacts, AroundItself
  <2>3. Around(f, x) = {}
    BY <2>1, <2>2
  <2>4. Nesting(f, x) = Cardinality({})
    BY <2>3 DEF Nesting, Around
  <2> QED BY <2>1, <2>4, FS_EmptySet
<1>14. \A x \in Held(v) : \E i \in 1..Len(v) : x = v[i].node
  BY DEF Held, Live
<1>15. ASSUME NEW i \in 1..Len(v) PROVE v[i].node \in Under(N, p, f) /\ v[i].depth = 0
  <2>1. \E x \in Under(N, p, f) : v[i] = [node |-> x, depth |-> 0]
    BY <1>8, <1>11 DEF ComesFrom
  <2> QED BY <2>1
<1>16. StackMet(f, v)
  BY <1>1, <1>10, <1>13, <1>14, <1>15 DEF StackMet
<1>17. DepthOK(f, v, NewCounter)
  BY <1>13, <1>15 DEF DepthOK
<1>18. ASSUME NEW x \in Counted(f) PROVE Waits(Held(v), a, x)
  <2>1. x \in 1..N /\ f \in a[x]
    BY <1>1, <1>2 DEF Counted, Body
  <2>2. x # f
    BY <1>2, <1>3, <2>1, UnderFacts
  <2>3. Waits(Held(w), a, x)
    BY <1>4, <2>1 DEF Waits
  <2> QED BY <1>12, <2>1, <2>2, <2>3
<1>19. TallyOK(f, NewCounter, Passed(f, v)) /\ NewCounter \in Counters
  BY <1>1, <1>18, NothingPassed
<1> QED BY <1>16, <1>17, <1>19 DEF CountOK

(* The visitor of a function begins with the function itself.              *)
StartsWith(v, f) == v = Push({f}, 0, << >>)

(* Such a beginning is right: no branch is around the function.            *)
LEMMA CountPyBegins ==
    ASSUME tree \in Trees, language = "python", NEW f \in Functions,
           NEW v, StartsWith(v, f)
    PROVE  CountOK(f, v, NewCounter)
<1>1. PICK N, a, p, A, t : /\ N = Len(tree.kind) /\ a = Above /\ p = tree.parent
                           /\ A = AroundMap(f) /\ t = << >>
  OBVIOUS
<1>2. IsTree(N, p) /\ IsAbove(a, N, p) /\ N \in Nat /\ Nodes = 1..N /\ language \in Languages
  BY <1>1, TreeFacts DEF IsTree, Nodes, Languages
<1>3. f \in 1..N /\ 0 \in Int /\ 0 # Leave /\ {f} \in SUBSET (1..N)
  BY <1>2 DEF Functions, Leave
<1>4. t \in Seq(Entries(N)) /\ Apart(t) /\ Held(t) = {} /\ Len(t) = 0
  BY <1>1, StackEmpty DEF StackOK
<1>s. PICK S, d : S = {f} /\ d = 0
  OBVIOUS
<1>n. N \in Nat
  BY <1>2
<1>t. t \in Seq(Entries(N)) /\ Apart(t)
  BY <1>4
<1>5. S \in SUBSET (1..N) /\ d \in Int /\ d # Leave
  BY <1>3, <1>s
<1>p. v = Push(S, d, t)
  BY <1>1, <1>s DEF StartsWith
<1>d. S \cap Held(t) = {}
  BY <1>4
<1>6. v \in Seq(Entries(N)) /\ Apart(v) /\ Held(v) = S \cup Held(t)
  BY <1>n, <1>t, <1>5, <1>p, <1>d, PushLive
<1>7. Held(v) = {f}
  BY <1>4, <1>6, <1>s
<1>8. f \notin a[f]
  BY <1>2, <1>3, UnderFacts
<1>9. StackMet(f, v)
  BY <1>1, <1>3, <1>6, <1>7, <1>8 DEF StackMet, StackOK, IsFront, Met
<1>10. LeaveAt(t) = {} /\ Live(t) = {}
  BY <1>4 DEF LeaveAt, Live
<1>11. LeavesOK(t, A) /\ Leaves(t, 0) = {}
  BY <1>10 DEF LeavesOK, Leaves
<1>12. A[f] = {}
  BY <1>1, <1>2, <1>3, AroundItself DEF AroundMap
<1>13. LeavesOK(v, A) /\ Leaves(v, 0) = Leaves(t, 0)
  <2>1. \A x \in S : A[x] = Leaves(t, 0)
    BY <1>11, <1>12, <1>s
  <2>2. LeavesOK(t, A)
    BY <1>11
  <2> QED BY <1>n, <1>t, <1>5, <1>p, <2>1, <2>2, LeavesPush
<1>14. NewCounter.depth = 0 /\ Cardinality(Leaves(v, 0)) = 0
  BY <1>11, <1>13, FS_EmptySet DEF NewCounter
<1>15. DepthOK(f, v, NewCounter)
  BY <1>1, <1>13, <1>14 DEF DepthOK
<1>16. \A x \in Counted(f) : Waits(Held(v), Above, x)
  BY <1>7 DEF Waits, Counted, Body
<1>17. TallyOK(f, NewCounter, Passed(f, v)) /\ NewCounter \in Counters
  BY <1>16, NothingPassed
<1> QED BY <1>9, <1>15, <1>17 DEF CountOK

(* At the end of a count everything has been passed.                       *)
LEMMA CountEnds ==
    ASSUME tree \in Trees, language \in Languages, NEW f, NEW c, CountOK(f, << >>, c)
    PROVE  Expected(f) = [fn |-> f, cyclomatic |-> c.cyclomatic, cognitive |-> c.cognitive,
                          nesting_depth |-> c.max_depth]
<1>1. PICK N, B, O, g, e : /\ N = Len(tree.kind) /\ g = Weight(f) /\ e = Extra
                           /\ B = Branches(Counted(f)) /\ O = BoolOps(Counted(f))
  OBVIOUS
<1>2. N \in Nat /\ Nodes = 1..N /\ f \in Functions
  BY <1>1, TreeFacts DEF IsTree, Nodes, CountOK
<1>3. Passed(f, << >>) = Counted(f)
  BY StackEmpty DEF Passed, Waits
<1>4. IsTally(c, B, O, g, e)
  BY <1>1, <1>3 DEF CountOK, TallyOK
<1>5. B \in SUBSET (1..N) /\ O \in SUBSET (1..N)
  BY <1>1, <1>2 DEF Branches, BoolOps, Counted, Body
<1>6. g \in [1..N -> Nat] /\ e \in [1..N -> Int] /\ g \in [1..N -> Int]
  BY <1>1, <1>2, WeightFacts
<1>7. (\A x \in B : g[x] = 1 + Nesting(f, x)) /\ (\A x \in O : e[x] = Operands(x) - 1)
  BY <1>1, <1>2, <1>5 DEF Weight, Extra
<1>8. SumFunction([n \in O |-> Operands(n) - 1]) = SumFunctionOnSet(e, O)
  <2>1. PICK h : h = [n \in O |-> Operands(n) - 1]
    OBVIOUS
  <2>2. DOMAIN h = O /\ \A x \in O : h[x] = e[x]
    BY <1>7, <2>1
  <2>3. SumFunction(h) = SumFunctionOnSet(e, O)
    BY <1>2, <1>5, <1>6, <2>2, SumSame
  <2> QED BY <2>1, <2>3
<1>9. SumFunction([n \in B |-> 1 + Nesting(f, n)]) = SumFunctionOnSet(g, B)
  <2>1. PICK h : h = [n \in B |-> 1 + Nesting(f, n)]
    OBVIOUS
  <2>2. DOMAIN h = B /\ \A x \in B : h[x] = g[x]
    BY <1>7, <2>1
  <2>3. SumFunction(h) = SumFunctionOnSet(g, B)
    BY <1>2, <1>5, <1>6, <2>2, SumSame
  <2> QED BY <2>1, <2>3
<1>10. Max({0} \cup {1 + Nesting(f, n) : n \in B}) = c.max_depth
  <2>1. PICK S : S = {0} \cup {1 + Nesting(f, n) : n \in B}
    OBVIOUS
  <2>2. S = {0} \cup {g[x] : x \in B}
    BY <1>7, <2>1
  <2>3. c.max_depth \in S /\ \A y \in S : c.max_depth >= y
    BY <1>4, <2>2 DEF IsTally
  <2>4. \A y \in S : y \in Int
    BY <1>5, <1>6, <2>2
  <2>5. Max(S) \in S /\ \A y \in S : Max(S) >= y
    BY <2>3 DEF Max
  <2>6. Max(S) = c.max_depth
    BY <2>3, <2>4, <2>5
  <2> QED BY <2>1, <2>6
<1>11. B = {n \in Counted(f) : Nests(n)} /\ O = {n \in Counted(f) : language = "python" /\ tree.kind[n] = "logical"}
  BY <1>1 DEF Branches, BoolOps
<1>12. Expected(f) = [fn |-> f,
             cyclomatic |-> 1 + Cardinality(B) + SumFunction([n \in O |-> Operands(n) - 1]),
             cognitive |-> SumFunction([n \in B |-> 1 + Nesting(f, n)]) + SumFunction([n \in O |-> Operands(n) - 1]),
             nesting_depth |-> Max({0} \cup {1 + Nesting(f, n) : n \in B})]
  BY <1>11 DEF Expected
<1>13. /\ c.cyclomatic = 1 + Cardinality(B) + SumFunctionOnSet(e, O)
       /\ c.cognitive = SumFunctionOnSet(g, B) + SumFunctionOnSet(e, O)
  BY <1>4 DEF IsTally
<1> QED BY <1>8, <1>9, <1>10, <1>12, <1>13

-----------------------------------------------------------------------------
(* The count and its results.                                              *)

(* Where operators are read rightly, a count under way is right about what *)
(* it has passed, and a result is right.                                   *)
ResultsOK == \A i \in DOMAIN results : results[i] = Expected(results[i].fn)

CountInv ==
    /\ NoElse
    /\ pc = "walk" => counter = NewCounter
    /\ misread = {} => (pc = "count" => CountOK(fn, inside, counter)) /\ ResultsOK

(* What a tree fixes of the counts does not change.                        *)
LEMMA CountFrozen ==
    ASSUME tree' = tree, language' = language
    PROVE  /\ NoElse' <=> NoElse
           /\ CountOK(fn, inside, counter)' <=> CountOK(fn', inside', counter')
           /\ \A f : Expected(f)' = Expected(f)
<1>1. Above' = Above /\ Functions' = Functions /\ Nodes' = Nodes
  BY DEF Above, Functions, Nodes
<1>2. \A n : (Children(n)' = Children(n)) /\ (Operands(n)' = Operands(n))
  BY <1>1 DEF Children, Operands
<1>3. \A n : Nests(n)' <=> Nests(n)
  BY <1>2 DEF Nests, IsElseIf, Branching
<1>4. \A f : Body(f)' = Body(f)
  BY <1>1 DEF Body
<1>5. \A f, n : Nesting(f, n)' = Nesting(f, n)
  BY <1>1, <1>3, <1>4 DEF Nesting
<1>6. \A f : Counted(f)' = Counted(f)
  BY <1>4, <1>5 DEF Counted
<1>7. NoElse' <=> NoElse
  BY <1>1 DEF NoElse
<1>8. \A f : Expected(f)' = Expected(f)
  BY <1>2, <1>3, <1>5, <1>6 DEF Expected
<1>9. \A f, n : (Around(f, n)' = Around(f, n)) /\ (Met(f, n)' <=> Met(f, n))
  BY <1>1, <1>3, <1>4 DEF Around, Met
<1>10. \A f : (Weight(f)' = Weight(f)) /\ (AroundMap(f)' = AroundMap(f))
  BY <1>1, <1>5, <1>9 DEF Weight, AroundMap
<1>11. Extra' = Extra /\ \A D : (Branches(D)' = Branches(D)) /\ (BoolOps(D)' = BoolOps(D))
  BY <1>1, <1>2, <1>3 DEF Extra, Branches, BoolOps
<1>12. Passed(fn, inside)' = Passed(fn', inside')
  BY <1>1, <1>6 DEF Passed
<1>13. TallyOK(fn, counter, Passed(fn, inside))' <=> TallyOK(fn', counter', Passed(fn', inside'))
  BY <1>10, <1>11, <1>12 DEF TallyOK
<1>14. StackMet(fn, inside)' <=> StackMet(fn', inside')
  BY <1>1, <1>9 DEF StackMet
<1>15. DepthOK(fn, inside, counter)' <=> DepthOK(fn', inside', counter')
  BY <1>5, <1>10 DEF DepthOK
<1>16. CountOK(fn, inside, counter)' <=> CountOK(fn', inside', counter')
  BY <1>1, <1>13, <1>14, <1>15 DEF CountOK
<1> QED BY <1>7, <1>8, <1>16

(* A step between counts: the search, or its end, changes no result, and   *)
(* begins a count with new counters.                                       *)
LEMMA CountAfterSearch ==
    ASSUME CountInv, tree' = tree, language' = language, misread' = misread,
           results' = results, counter' = counter, pc = "walk",
           pc' = "count" => CountOK(fn', inside', NewCounter)
    PROVE  CountInv'
<1>1. NoElse' /\ counter' = NewCounter
  BY CountFrozen DEF CountInv
<1>2. pc' = "count" => CountOK(fn, inside, counter)'
  BY <1>1, CountFrozen DEF CountInv
<1>3. ResultsOK => ResultsOK'
  BY CountFrozen DEF ResultsOK
<1> QED BY <1>1, <1>2, <1>3 DEF CountInv

(* A step to where no count is under way: results are kept.                *)
LEMMA CountStops ==
    ASSUME CountInv, tree' = tree, language' = language, misread' = misread,
           results' = results, pc' \notin {"walk", "count"}
    PROVE  CountInv'
<1>1. NoElse'
  BY CountFrozen DEF CountInv
<1>2. ResultsOK => ResultsOK'
  BY CountFrozen DEF ResultsOK
<1> QED BY <1>1, <1>2 DEF CountInv

(* A step of a count.                                                      *)
LEMMA CountGoesOn ==
    ASSUME CountInv, UNCHANGED <<language, tree, misread, fn, results, pc>>, pc = "count",
           misread = {} => CountOK(fn, inside', counter')
    PROVE  CountInv'
<1>1. NoElse'
  BY CountFrozen DEF CountInv
<1>2. misread' = {} => CountOK(fn, inside, counter)'
  BY CountFrozen
<1>3. ResultsOK => ResultsOK'
  BY CountFrozen DEF ResultsOK
<1> QED BY <1>1, <1>2, <1>3 DEF CountInv

(* The end of a count: its result is the one that is expected.             *)
LEMMA CountRecord ==
    ASSUME SearchInv, CountInv, RecordFunction
    PROVE  CountInv'
<1>1. PICK e : e = [fn |-> fn, cyclomatic |-> counter.cyclomatic,
                    cognitive |-> counter.cognitive, nesting_depth |-> counter.max_depth]
  OBVIOUS
<1>2. /\ pc = "count" /\ inside = << >> /\ pc' = "walk" /\ counter' = NewCounter
      /\ tree' = tree /\ language' = language /\ misread' = misread
      /\ results' = Append(results, e)
  BY <1>1 DEF RecordFunction
<1>3. NoElse'
  BY <1>2, CountFrozen DEF CountInv
<1>4. ASSUME misread = {} PROVE ResultsOK'
  <2>1. CountOK(fn, << >>, counter) /\ ResultsOK
    BY <1>2, <1>4 DEF CountInv
  <2>2. Expected(fn) = e
    BY <1>1, <2>1, CountEnds DEF SearchInv
  <2>3. e.fn = fn
    BY <1>1
  <2>4. PICK S0 : results \in Seq(S0)
    BY DEF SearchInv
  <2>5. PICK S : S = S0 \cup {e}
    OBVIOUS
  <2>6. results \in Seq(S) /\ e \in S
    BY <2>4, <2>5, SeqMonotonic
  <2>7. /\ results' \in Seq(S) /\ Len(results') = Len(results) + 1
        /\ \A i \in 1..Len(results) : results'[i] = results[i]
        /\ results'[Len(results) + 1] = e
    BY <1>2, <2>6, AppendProperties
  <2>8. /\ Len(results) \in Nat /\ DOMAIN results = 1..Len(results)
        /\ DOMAIN results' = 1..(Len(results) + 1)
    BY <2>6, <2>7, LenProperties
  <2>9. ASSUME NEW i \in DOMAIN results' PROVE results'[i] = Expected(results'[i].fn)
    <3>1. CASE i = Len(results) + 1
      BY <2>2, <2>3, <2>7, <3>1
    <3>2. CASE i \in 1..Len(results)
      BY <2>1, <2>7, <2>8, <3>2 DEF ResultsOK
    <3> QED BY <2>8, <3>1, <3>2
  <2>10. \A f : Expected(f)' = Expected(f)
    BY <1>2, CountFrozen
  <2> QED BY <2>9, <2>10 DEF ResultsOK
<1> QED BY <1>2, <1>3, <1>4 DEF CountInv

(* A turn of the loop in a TypeScript function, as an action.              *)
LEMMA CountTsStep ==
    ASSUME SearchInv, CountInv, CountTs, misread = {}
    PROVE  CountOK(fn, inside', counter')
<1>1. PICK h, n, v, r : h = Head(inside) /\ n = h.node /\ v = inside' /\ r = counter'
  OBVIOUS
<1>2. /\ tree \in Trees /\ language = "typescript" /\ pc = "count" /\ inside # << >>
      /\ CountOK(fn, inside, counter)
  BY DEF SearchInv, CountInv, CountTs
<1>3. n \in Nodes
  <2>1. StackMet(fn, inside)
    BY <1>2 DEF CountOK
  <2> QED BY <1>1, <1>2, <2>1, CountTop
<1>4. n \in Functions <=> tree.kind[n] = "function"
  BY <1>3 DEF Functions
<1>5. IsBranchTs(n) <=> Nests(n)
  BY <1>2 DEF IsBranchTs, Nests, IsElseIf, ReadsLogical
<1>6. TsTurn(n, h.depth, inside, counter, v, r)
  BY <1>1, <1>4, <1>5 DEF CountTs, TsTurn
<1>7. CountOK(fn, v, r)
  BY <1>1, <1>2, <1>6, CountTsTurn
<1> QED BY <1>1, <1>7

(* A turn of generic_visit, as an action.                                  *)
LEMMA CountPyStep ==
    ASSUME SearchInv, CountInv, CountPy, misread = {}
    PROVE  CountOK(fn, inside', counter')
<1>1. PICK n, v, r : n = Head(inside).node /\ v = inside' /\ r = counter'
  OBVIOUS
<1>2. /\ tree \in Trees /\ language = "python" /\ NoElse /\ pc = "count" /\ inside # << >>
      /\ Head(inside).depth # Leave /\ CountOK(fn, inside, counter)
  BY DEF SearchInv, CountInv, CountPy
<1>3. PyTurn(n, inside, counter, v, r)
  BY <1>1 DEF CountPy, PyTurn
<1>4. CountOK(fn, v, r)
  BY <1>1, <1>2, <1>3, CountPyTurn
<1> QED BY <1>1, <1>4

(* Every count is right about what it has passed, in every reachable state *)
(* of a text whose operators are read rightly.                             *)
THEOREM CountHolds == AnalysisSpec => []CountInv
<1>1. AnalysisInit => CountInv
  BY DEF AnalysisInit, CountInv, NoElse, ResultsOK
<1>2. SearchInv /\ CountInv /\ [AnalysisNext]_analysisVars => CountInv'
  <2> SUFFICES ASSUME SearchInv, CountInv, [AnalysisNext]_analysisVars PROVE CountInv'
    OBVIOUS
  <2>0. tree \in Trees /\ language \in Languages
    BY DEF SearchInv
  <2>n. walk # << >> => Head(walk).node \in Nodes
    <3> SUFFICES ASSUME walk # << >> PROVE Head(walk).node \in Nodes
      OBVIOUS
    <3>1. Len(tree.kind) \in Nat /\ StackOK(walk, Len(tree.kind), Above)
      BY TreeFacts DEF SearchInv, WalkOK, IsTree
    <3>2. Head(walk) \in Entries(Len(tree.kind))
      BY <3>1, TailFacts DEF StackOK
    <3> QED BY <3>2 DEF Entries, Nodes
  <2>1. CASE WalkTs
    <3>1. PICK n, v : n = Head(walk).node /\ v = inside'
      OBVIOUS
    <3>2. /\ language = "typescript" /\ pc = "walk" /\ n \in Nodes
          /\ tree' = tree /\ language' = language /\ misread' = misread
          /\ results' = results /\ counter' = counter
      BY <2>1, <2>n, <3>1 DEF WalkTs
    <3>3. ASSUME pc' = "count"
          PROVE  fn' = n /\ n \in Functions /\ v = Push(Children(n), 0, << >>)
      BY <2>1, <3>1, <3>2, <3>3 DEF WalkTs, Functions
    <3>4. ASSUME pc' = "count" PROVE CountOK(n, v, NewCounter)
      BY <2>0, <3>2, <3>3, <3>4, CountTsBegins
    <3>5. pc' = "count" => CountOK(fn', inside', NewCounter)
      BY <3>1, <3>3, <3>4
    <3> QED BY <3>2, <3>5, CountAfterSearch
  <2>2. CASE VisitPy
    <3>1. PICK n, v : n = Head(walk).node /\ v = inside'
      OBVIOUS
    <3>2. /\ language = "python" /\ pc = "walk" /\ n \in Nodes
          /\ tree' = tree /\ language' = language /\ misread' = misread
          /\ results' = results /\ counter' = counter
      BY <2>2, <2>n, <3>1 DEF VisitPy
    <3>3. ASSUME pc' = "count"
          PROVE  fn' = n /\ n \in Functions /\ StartsWith(v, n)
      BY <2>2, <3>1, <3>2, <3>3 DEF VisitPy, Functions, StartsWith
    <3>4. ASSUME pc' = "count" PROVE CountOK(n, v, NewCounter)
      BY <2>0, <3>2, <3>3, <3>4, CountPyBegins
    <3>5. pc' = "count" => CountOK(fn', inside', NewCounter)
      BY <3>1, <3>3, <3>4
    <3> QED BY <3>2, <3>5, CountAfterSearch
  <2>3. CASE CountTs
    <3>1. UNCHANGED <<language, tree, misread, fn, results, pc>> /\ pc = "count"
      BY <2>3 DEF CountTs
    <3>2. misread = {} => CountOK(fn, inside', counter')
      BY <2>3, CountTsStep
    <3> QED BY <3>1, <3>2, CountGoesOn
  <2>4. CASE CountPy
    <3>1. UNCHANGED <<language, tree, misread, fn, results, pc>> /\ pc = "count"
      BY <2>4 DEF CountPy
    <3>2. misread = {} => CountOK(fn, inside', counter')
      BY <2>4, CountPyStep
    <3> QED BY <3>1, <3>2, CountGoesOn
  <2>5. CASE LeavePy
    <3>1. UNCHANGED <<language, tree, misread, fn, results, pc>> /\ pc = "count"
      BY <2>5 DEF LeavePy
    <3>2. ASSUME misread = {} PROVE CountOK(fn, inside', counter')
      <4>1. PICK v, r : v = inside' /\ r = counter'
        OBVIOUS
      <4>2. /\ CountOK(fn, inside, counter) /\ language = "python" /\ inside # << >>
            /\ Head(inside).depth = Leave
        BY <2>5, <3>1, <3>2 DEF LeavePy, CountInv
      <4>3. v = Tail(inside) /\ r = [counter EXCEPT !.depth = counter.depth - 1]
        BY <2>5, <4>1 DEF LeavePy
      <4>4. CountOK(fn, v, r)
        BY <2>0, <4>2, <4>3, CountPyLeave
      <4> QED BY <4>1, <4>4
    <3> QED BY <3>1, <3>2, CountGoesOn
  <2>6. CASE RecordFunction
    BY <2>6, CountRecord
  <2>7. CASE Analysed
    <3>1. /\ pc = "walk" /\ pc' # "count"
          /\ tree' = tree /\ language' = language /\ misread' = misread
          /\ results' = results /\ counter' = counter
      BY <2>7 DEF Analysed
    <3> QED BY <3>1, CountAfterSearch
  <2>8. CASE RecursionFails
    <3>1. /\ pc' = "raised" /\ tree' = tree /\ language' = language
          /\ misread' = misread /\ results' = results
      BY <2>8 DEF RecursionFails
    <3> QED BY <3>1, CountStops
  <2>9. CASE UNCHANGED analysisVars
    <3>1. UNCHANGED <<language, tree, misread, fn, inside, counter, results, pc>>
      BY <2>9 DEF analysisVars
    <3>2. CASE pc = "count"
      BY <3>1, <3>2, CountGoesOn DEF CountInv
    <3>3. CASE pc = "walk"
      BY <3>1, <3>3, CountAfterSearch
    <3>4. CASE pc \notin {"walk", "count"}
      BY <3>1, <3>4, CountStops
    <3> QED BY <3>2, <3>3, <3>4
  <2> QED BY <2>1, <2>2, <2>3, <2>4, <2>5, <2>6, <2>7, <2>8, <2>9 DEF AnalysisNext
<1> QED BY <1>1, <1>2, SearchHolds, PTL DEF AnalysisSpec

(* CountsMatchDefinition holds of every tree: at the end of a count        *)
(* nothing waits, so what was passed is all that there is to count.        *)
THEOREM CountsMatchDefinitionHolds == AnalysisSpec => []CountsMatchDefinition
<1>1. CountInv => CountsMatchDefinition
  BY DEF CountInv, ResultsOK, CountsMatchDefinition
<1> QED BY <1>1, CountHolds, PTL

-----------------------------------------------------------------------------
(* Rounding.                                                               *)

(* What \div and % are.                                                    *)
LEMMA Division ==
    ASSUME NEW a \in Int, NEW b \in Nat \ {0}
    PROVE  /\ a \div b \in Int /\ a % b \in 0..(b - 1)
           /\ a = b * (a \div b) + (a % b)
  OBVIOUS

(* ... and that nothing else is.                                           *)
LEMMA DivisionUnique ==
    ASSUME NEW b \in Nat \ {0}, NEW q \in Int, NEW p \in Int,
           NEW r \in 0..(b - 1), NEW s \in 0..(b - 1), b * q + r = b * p + s
    PROVE  q = p /\ r = s
<1>1. CASE q < p
  <2>1. q + 1 <= p
    BY <1>1
  <2>2. \A k \in Int : q + 1 <= k => b * (q + 1) <= b * k
    OBVIOUS
  <2>3. b * (q + 1) = b * q + b /\ b * q \in Int /\ b * p \in Int
    OBVIOUS
  <2> QED BY <2>1, <2>2, <2>3
<1>2. CASE p < q
  <2>1. p + 1 <= q
    BY <1>2
  <2>2. \A k \in Int : p + 1 <= k => b * (p + 1) <= b * k
    OBVIOUS
  <2>3. b * (p + 1) = b * p + b /\ b * q \in Int /\ b * p \in Int
    OBVIOUS
  <2> QED BY <2>1, <2>2, <2>3
<1>3. CASE q = p
  <2>1. b * q \in Int
    OBVIOUS
  <2> QED BY <1>3, <2>1
<1> QED BY <1>1, <1>2, <1>3

(* A rounded quotient is an integer at most a half from the quotient.      *)
LEMMA RoundNear ==
    ASSUME NEW a \in Int, NEW b \in Nat \ {0}
    PROVE  /\ RoundHalfEven(a, b) \in Int
           /\ 2 * a - b <= 2 * (b * RoundHalfEven(a, b))
           /\ 2 * (b * RoundHalfEven(a, b)) <= 2 * a + b
<1> DEFINE q == a \div b
           s == a % b
           R == RoundHalfEven(a, b)
<1>1. q \in Int /\ s \in 0..(b - 1) /\ a = b * q + s
  BY Division
<1>2. \/ R = q /\ ~(2 * s > b)
      \/ R = q + 1 /\ (2 * s > b \/ 2 * s = b)
  BY DEF RoundHalfEven
<1> HIDE DEF q, s, R
<1>3. b * (q + 1) = b * q + b /\ b * q \in Int
  BY <1>1
<1>4. CASE R = q /\ ~(2 * s > b)
  BY <1>1, <1>3, <1>4 DEF R
<1>5. CASE R = q + 1 /\ (2 * s > b \/ 2 * s = b)
  <2>1. b * R = b * q + b /\ R \in Int
    BY <1>1, <1>3, <1>5
  <2>2. 2 * s >= b
    BY <1>1, <1>5
  <2>3. 2 * a - b <= 2 * (b * R) /\ 2 * (b * R) <= 2 * a + b
    BY <1>1, <1>3, <2>1, <2>2
  <2> QED BY <2>1, <2>3 DEF R
<1> QED BY <1>2, <1>4, <1>5

(* Rounding keeps the order.                                               *)
LEMMA RoundMonotone ==
    ASSUME NEW a \in Int, NEW c \in Int, NEW b \in Nat \ {0}, a <= c
    PROVE  RoundHalfEven(a, b) <= RoundHalfEven(c, b)
<1> DEFINE R == RoundHalfEven(a, b)
           S == RoundHalfEven(c, b)
<1>1. R \in Int /\ 2 * (b * R) <= 2 * a + b
  BY RoundNear
<1>2. S \in Int /\ 2 * c - b <= 2 * (b * S)
  BY RoundNear
<1>3. a = c => R = S
  OBVIOUS
<1> HIDE DEF R, S
<1>4. CASE S < R
  <2>1. S + 1 <= R
    BY <1>1, <1>2, <1>4
  <2>2. b * (S + 1) <= b * R
    <3>1. \A x, y \in Int : x <= y => b * x <= b * y
      OBVIOUS
    <3>2. S + 1 \in Int
      BY <1>2
    <3> QED BY <1>1, <2>1, <3>1, <3>2
  <2>3. b * (S + 1) = b * S + b /\ b * S \in Int /\ b * R \in Int
    BY <1>1, <1>2
  <2>4. a = c
    BY <1>1, <1>2, <2>2, <2>3
  <2> QED BY <1>1, <1>3, <1>4, <2>4
<1>5. CASE R <= S
  BY <1>5 DEF R, S
<1> QED BY <1>1, <1>2, <1>4, <1>5

(* A whole quotient is its own rounding.                                   *)
LEMMA RoundWhole ==
    ASSUME NEW k \in Int, NEW b \in Nat \ {0}
    PROVE  RoundHalfEven(k * b, b) = k
<1> DEFINE R == RoundHalfEven(k * b, b)
<1>1. k * b \in Int
  OBVIOUS
<1>2. R \in Int /\ 2 * (k * b) - b <= 2 * (b * R) /\ 2 * (b * R) <= 2 * (k * b) + b
  BY <1>1, RoundNear
<1> HIDE DEF R
<1>3. k * b = b * k /\ b * (R + 1) = b * R + b /\ b * (k + 1) = b * k + b
      /\ b * k \in Int /\ b * R \in Int
  BY <1>2
<1>4. \A x, y \in Int : x <= y => b * x <= b * y
  OBVIOUS
<1>5. ~(R + 1 <= k)
  <2> SUFFICES ASSUME R + 1 <= k PROVE FALSE
    OBVIOUS
  <2>1. b * (R + 1) <= b * k
    BY <1>2, <1>4
  <2> QED BY <1>2, <1>3, <2>1
<1>6. ~(k + 1 <= R)
  <2> SUFFICES ASSUME k + 1 <= R PROVE FALSE
    OBVIOUS
  <2>1. b * (k + 1) <= b * R
    BY <1>2, <1>4
  <2> QED BY <1>2, <1>3, <2>1
<1>7. R = k
  BY <1>2, <1>5, <1>6
<1> QED BY <1>7 DEF R

(* A fraction may be reduced before it is rounded.                         *)
LEMMA RoundReduced ==
    ASSUME NEW a \in Int, NEW b \in Nat \ {0}, NEW p \in Nat \ {0}
    PROVE  RoundHalfEven(p * a, p * b) = RoundHalfEven(a, b)
<1> DEFINE q == a \div b
           s == a % b
           P == p * a
           B == p * b
<1>1. q \in Int /\ s \in 0..(b - 1) /\ a = b * q + s
  BY Division
<1>2. P \in Int /\ B \in Nat \ {0}
  <2>1. \A x \in Nat \ {0} : p * x \in Nat \ {0}
    OBVIOUS
  <2> QED BY <2>1
<1>3. P \div B \in Int /\ P % B \in 0..(B - 1) /\ P = B * (P \div B) + (P % B)
  <2> HIDE DEF P, B
  <2> QED BY <1>2, Division
<1>4. p * s \in 0..(B - 1) /\ P = B * q + p * s
  <2> HIDE DEF q, s
  <2>1. s + 1 <= b /\ 0 <= s /\ s \in Int
    BY <1>1
  <2>2. p * s \in Int /\ 0 <= p * s
    BY <2>1
  <2>3. p * (s + 1) <= p * b
    <3>1. \A x, y \in Int : x <= y => p * x <= p * y
      OBVIOUS
    <3> QED BY <2>1, <3>1
  <2>4. p * (s + 1) = p * s + p
    BY <2>1
  <2>5. p * a = (p * b) * q + p * s
    <3>1. \A x, y \in Int : p * (b * x + y) = (p * b) * x + p * y
      OBVIOUS
    <3> QED BY <1>1, <2>1, <3>1
  <2> QED BY <1>2, <2>2, <2>3, <2>4, <2>5
<1>5. P \div B = q /\ P % B = p * s
  <2> HIDE DEF P, B, q, s
  <2> DEFINE u == P \div B
             w == P % B
             z == p * s
  <2>1. u \in Int /\ w \in 0..(B - 1) /\ B * u + w = B * q + z /\ z \in 0..(B - 1)
    BY <1>3, <1>4
  <2> HIDE DEF u, w, z
  <2>2. u = q /\ w = z
    BY <1>1, <1>2, <2>1, DivisionUnique
  <2> QED BY <2>2 DEF u, w, z
<1>6. /\ 2 * (p * s) > p * b <=> 2 * s > b
      /\ 2 * (p * s) = p * b <=> 2 * s = b
  <2> HIDE DEF s
  <2> DEFINE t == 2 * s
  <2>1. 2 * (p * s) = p * t /\ t \in Int
    BY <1>1
  <2>2. \A x, y \in Int : x < y => p * x < p * y
    OBVIOUS
  <2> HIDE DEF t
  <2>3. CASE t < b
    <3>1. p * t < p * b /\ p * t \in Int /\ p * b \in Int
      BY <2>1, <2>2, <2>3
    <3> QED BY <2>1, <2>3, <3>1 DEF t
  <2>4. CASE b < t
    <3>1. p * b < p * t /\ p * t \in Int /\ p * b \in Int
      BY <2>1, <2>2, <2>4
    <3> QED BY <2>1, <2>4, <3>1 DEF t
  <2>5. CASE t = b
    BY <2>1, <2>5 DEF t
  <2> QED BY <2>1, <2>3, <2>4, <2>5
<1> QED BY <1>5, <1>6 DEF RoundHalfEven

-----------------------------------------------------------------------------
(* The segments of a rule.                                                 *)

(* What a rule is, in the form the proofs use it.                          *)
LEMMA RuleFacts ==
    ASSUME NEW r \in Rules
    PROVE  /\ Len(r.cuts) \in Nat \ {0} /\ Len(r.normalised) = Len(r.cuts) + 1
           /\ \A i \in 1..Len(r.cuts) : r.cuts[i] \in Int
           /\ \A i \in 1..(Len(r.cuts) + 1) : r.normalised[i] \in Int
           /\ \A i, j \in 1..Len(r.cuts) : i <= j => r.cuts[i] <= r.cuts[j]
<1> DEFINE c == r.cuts
           d == r.normalised
<1>1. /\ c \in Seq(Int) /\ d \in Seq(Int) /\ Len(c) >= 1 /\ Len(d) = Len(c) + 1
      /\ Sorted(c)
  BY ScoringAssumption
<1> HIDE DEF c, d
<1>2. Len(c) \in Nat \ {0}
  BY <1>1
<1>3. /\ \A i \in 1..Len(c) : c[i] \in Int
      /\ \A i \in 1..(Len(c) + 1) : d[i] \in Int
  BY <1>1
<1>4. \A i, j \in 1..Len(c) : i <= j => c[i] <= c[j]
  BY <1>1 DEF Sorted
<1> QED BY <1>1, <1>2, <1>3, <1>4 DEF c, d

(* And of one whose values do not fall.                                    *)
LEMMA RisingFacts ==
    ASSUME NEW r \in Rules, Rising(r)
    PROVE  \A i, j \in 1..(Len(r.cuts) + 1) : i <= j => r.normalised[i] <= r.normalised[j]
<1>1. Len(r.normalised) = Len(r.cuts) + 1
  BY RuleFacts
<1> QED BY <1>1 DEF Rising, Sorted

(* Fine, Whole, Scale and Prec are positive.                               *)
LEMMA ScaleFacts ==
    /\ Fine \in Nat \ {0} /\ Whole \in Nat \ {0} /\ Scale \in Nat \ {0} /\ Prec \in Nat \ {0}
    /\ Prec * Fine \in Nat \ {0}
<1>1. Fine \in Nat \ {0} /\ Whole \in Nat \ {0} /\ Scale \in Nat \ {0} /\ Prec \in Nat \ {0}
  BY ScoringAssumption
<1>2. \A x, y \in Nat \ {0} : x * y \in Nat \ {0}
  OBVIOUS
<1> QED BY <1>1, <1>2

(* Between the first and the last cut, the loop over the cuts finds the    *)
(* two neighbours of the value, and they are apart.                        *)
LEMMA SegmentFacts ==
    ASSUME NEW r \in Rules, NEW v \in Int, v > r.cuts[1], v <= r.cuts[Len(r.cuts)]
    PROVE  /\ Segment(r, v) \in 2..Len(r.cuts)
           /\ r.cuts[Segment(r, v) - 1] < v
           /\ v <= r.cuts[Segment(r, v)]
<1> DEFINE n == Len(r.cuts)
           T == {i \in 1..n : v <= r.cuts[i]}
           s == Segment(r, v)
<1>1. n \in Nat \ {0} /\ \A i \in 1..n : r.cuts[i] \in Int
  BY RuleFacts
<1>2. T \in SUBSET Nat /\ n \in T
  BY <1>1
<1>3. \E x \in T : \A y \in T : x <= y
  <2> HIDE DEF T
  <2> QED BY <1>2, LeastElement
<1>4. s = CHOOSE x \in T : \A y \in T : x <= y
  BY DEF Segment, Min
<1>5. s \in T /\ \A y \in T : s <= y
  <2> HIDE DEF T, s
  <2> QED BY <1>3, <1>4
<1> HIDE DEF s
<1>6. s \in 1..n /\ v <= r.cuts[s]
  BY <1>5
<1>7. s # 1
  BY <1>1, <1>6
<1>8. s - 1 \in 1..n /\ s - 1 \notin T
  BY <1>1, <1>5, <1>6, <1>7
<1>9. r.cuts[s - 1] < v
  BY <1>1, <1>8
<1> QED BY <1>6, <1>7, <1>9, <1>1 DEF s

(* The value before it is rounded, a number of Prec * Fine-ths.            *)
Position(r, v) ==
    LET i == Segment(r, v)
    IN  RoundHalfEven((v - r.cuts[i - 1]) * Prec, r.cuts[i] - r.cuts[i - 1])

Interpolated(r, v) ==
    LET n == Len(r.cuts)
        i == Segment(r, v)
    IN  IF v > r.cuts[n] THEN Prec * r.normalised[n + 1]
        ELSE IF v <= r.cuts[1] THEN Prec * r.normalised[1]
        ELSE Prec * r.normalised[i - 1] + Position(r, v) * (r.normalised[i] - r.normalised[i - 1])

(* The index of the segment: 1 up to the first cut, one more than there    *)
(* are cuts above the last.                                                *)
Piece(r, v) ==
    IF v > r.cuts[Len(r.cuts)] THEN Len(r.cuts) + 1
    ELSE IF v <= r.cuts[1] THEN 1
    ELSE Segment(r, v)

(* A position is a part of its segment.                                    *)
LEMMA PositionFacts ==
    ASSUME NEW r \in Rules, NEW v \in Int, v > r.cuts[1], v <= r.cuts[Len(r.cuts)]
    PROVE  Position(r, v) \in 0..Prec
<1> DEFINE i == Segment(r, v)
           d == v - r.cuts[i - 1]
           span == r.cuts[i] - r.cuts[i - 1]
<1>1. d \in Int /\ 0 < d /\ d <= span /\ span \in Nat \ {0}
  <2>1. i \in 2..Len(r.cuts) /\ r.cuts[i - 1] < v /\ v <= r.cuts[i]
    BY SegmentFacts
  <2>2. Len(r.cuts) \in Nat /\ \A j \in 1..Len(r.cuts) : r.cuts[j] \in Int
    BY RuleFacts
  <2> HIDE DEF i
  <2>3. r.cuts[i - 1] \in Int /\ r.cuts[i] \in Int
    BY <2>1, <2>2
  <2> QED BY <2>1, <2>3
<1>2. Position(r, v) = RoundHalfEven(d * Prec, span)
  BY DEF Position
<1> HIDE DEF d, span, i
<1>3. 0 * span \in Int /\ Prec * span \in Int /\ d * Prec \in Int
      /\ 0 * span <= d * Prec /\ d * Prec <= Prec * span
  <2>1. \A x, y \in Int : x <= y => x * Prec <= y * Prec
    BY ScaleFacts
  <2>2. 0 * Prec <= d * Prec /\ d * Prec <= span * Prec
    BY <1>1, <2>1
  <2>3. Prec \in Int /\ d \in Int /\ span \in Int
    BY <1>1, ScaleFacts
  <2>4. \A x, y \in Int : x * y = y * x /\ x * y \in Int
    OBVIOUS
  <2>5. 0 * Prec = 0 /\ 0 * span = 0
    BY <2>3
  <2> QED BY <2>2, <2>3, <2>4, <2>5
<1>4. RoundHalfEven(0 * span, span) <= RoundHalfEven(d * Prec, span)
  BY <1>1, <1>3, RoundMonotone
<1>5. RoundHalfEven(d * Prec, span) <= RoundHalfEven(Prec * span, span)
  BY <1>1, <1>3, RoundMonotone
<1>6. RoundHalfEven(0 * span, span) = 0 /\ RoundHalfEven(Prec * span, span) = Prec
  <2>1. 0 \in Int /\ Prec \in Int
    BY ScaleFacts
  <2> QED BY ONLY <1>1, <2>1, RoundWhole
<1>7. RoundHalfEven(d * Prec, span) \in Int
  BY <1>1, <1>3, RoundNear
<1> QED BY <1>2, <1>4, <1>5, <1>6, <1>7, ScaleFacts

(* An interpolated value is an integer, and at both ends the rule's own.   *)
LEMMA InterpolatedType ==
    ASSUME NEW r \in Rules, NEW v \in Int
    PROVE  /\ Piece(r, v) \in 1..(Len(r.cuts) + 1)
           /\ Interpolated(r, v) \in Int
           /\ Piece(r, v) = 1 => Interpolated(r, v) = Prec * r.normalised[1]
           /\ Piece(r, v) = Len(r.cuts) + 1 => Interpolated(r, v) = Prec * r.normalised[Len(r.cuts) + 1]
<1> DEFINE n == Len(r.cuts)
<1>0. n \in Nat \ {0} /\ \A j \in 1..(n + 1) : r.normalised[j] \in Int
  BY RuleFacts
<1>1. CASE v > r.cuts[n]
  <2>1. Piece(r, v) = n + 1 /\ Interpolated(r, v) = Prec * r.normalised[n + 1]
    BY <1>1 DEF Piece, Interpolated
  <2>2. r.normalised[n + 1] \in Int
    <3> HIDE DEF n
    <3> QED BY <1>0
  <2>3. Prec * r.normalised[n + 1] \in Int
    BY <2>2, ScaleFacts
  <2> QED BY <1>0, <2>1, <2>3
<1>2. CASE ~(v > r.cuts[n]) /\ v <= r.cuts[1]
  <2>1. Piece(r, v) = 1 /\ Interpolated(r, v) = Prec * r.normalised[1]
    BY <1>2 DEF Piece, Interpolated
  <2>2. n \in Nat \ {0} /\ Prec * r.normalised[1] \in Int
    BY RuleFacts, ScaleFacts
  <2> QED BY <2>1, <2>2
<1>3. CASE ~(v > r.cuts[n]) /\ ~(v <= r.cuts[1])
  <2> DEFINE i == Segment(r, v)
             a == r.normalised[i - 1]
             b == r.normalised[i]
             p == Position(r, v)
  <2>0. v <= r.cuts[n] /\ v > r.cuts[1]
    BY <1>3, RuleFacts
  <2>1. Piece(r, v) = i /\ Interpolated(r, v) = Prec * a + p * (b - a)
    BY <1>3 DEF Piece, Interpolated
  <2>2. p \in Int
    BY <2>0, PositionFacts
  <2>3. i \in 2..n
    BY <2>0, SegmentFacts
  <2>4. a \in Int /\ b \in Int
    <3> HIDE DEF n, i
    <3>2. i - 1 \in 1..(n + 1) /\ i \in 1..(n + 1)
      BY <1>0, <2>3
    <3> QED BY <1>0, <3>2
  <2> HIDE DEF i, a, b, p
  <2>5. Prec * a + p * (b - a) \in Int
    BY <2>2, <2>4, ScaleFacts
  <2> QED BY <1>0, <2>1, <2>3, <2>5
<1> QED BY <1>1, <1>2, <1>3

(* It lies between the normalised values of its segment if they do not     *)
(* fall.                                                                   *)
LEMMA InterpolatedBetween ==
    ASSUME NEW r \in Rules, Rising(r), NEW v \in Int
    PROVE  /\ Piece(r, v) \in 1..(Len(r.cuts) + 1)
           /\ Interpolated(r, v) \in Int
           /\ Piece(r, v) <= Len(r.cuts) => Interpolated(r, v) <= Prec * r.normalised[Piece(r, v)]
           /\ Piece(r, v) >= 2 => Prec * r.normalised[Piece(r, v) - 1] <= Interpolated(r, v)
           /\ Piece(r, v) = 1 => Interpolated(r, v) = Prec * r.normalised[1]
           /\ Piece(r, v) = Len(r.cuts) + 1 => Interpolated(r, v) = Prec * r.normalised[Len(r.cuts) + 1]
<1> DEFINE n == Len(r.cuts)
<1>0. \A x, y \in Int : x <= y => Prec * x <= Prec * y
  BY ScaleFacts
<1>1. CASE v > r.cuts[n]
  <2>1. Piece(r, v) = n + 1 /\ Interpolated(r, v) = Prec * r.normalised[n + 1]
    BY <1>1 DEF Piece, Interpolated
  <2>2. /\ n \in Nat \ {0} /\ r.normalised[n] \in Int /\ r.normalised[n + 1] \in Int
        /\ r.normalised[n] <= r.normalised[n + 1]
    <3>1. /\ n \in Nat \ {0} /\ \A j \in 1..(n + 1) : r.normalised[j] \in Int
          /\ \A j, k \in 1..(n + 1) : j <= k => r.normalised[j] <= r.normalised[k]
      BY RuleFacts, RisingFacts
    <3> HIDE DEF n
    <3>2. n \in 1..(n + 1) /\ n + 1 \in 1..(n + 1) /\ n <= n + 1
      BY <3>1
    <3> QED BY <3>1, <3>2
  <2>3. Prec * r.normalised[n] <= Prec * r.normalised[n + 1] /\ Prec * r.normalised[n + 1] \in Int
    <3>1. PICK x, y \in Int : x = r.normalised[n] /\ y = r.normalised[n + 1]
      BY <2>2
    <3>2. x <= y
      BY <2>2, <3>1
    <3>3. Prec * x <= Prec * y
      BY <1>0, <3>2
    <3>4. Prec * y \in Int
      BY ScaleFacts
    <3> QED BY <3>1, <3>3, <3>4
  <2> QED BY <2>1, <2>2, <2>3
<1>2. CASE ~(v > r.cuts[n]) /\ v <= r.cuts[1]
  <2>1. Piece(r, v) = 1 /\ Interpolated(r, v) = Prec * r.normalised[1]
    BY <1>2 DEF Piece, Interpolated
  <2>2. n \in Nat \ {0} /\ Prec * r.normalised[1] \in Int
    BY RuleFacts, ScaleFacts
  <2> QED BY <2>1, <2>2
<1>3. CASE ~(v > r.cuts[n]) /\ ~(v <= r.cuts[1])
  <2> DEFINE i == Segment(r, v)
             a == r.normalised[i - 1]
             b == r.normalised[i]
             p == Position(r, v)
  <2>0. v <= r.cuts[n] /\ v > r.cuts[1] /\ n \in Nat \ {0}
    BY <1>3, RuleFacts
  <2>1. Piece(r, v) = i /\ Interpolated(r, v) = Prec * a + p * (b - a)
    BY <1>3 DEF Piece, Interpolated
  <2>2. p \in 0..Prec
    BY <2>0, PositionFacts
  <2>3. i \in 2..n
    BY <2>0, SegmentFacts
  <2>4. a \in Int /\ b \in Int /\ a <= b
    <3>1. /\ \A j \in 1..(n + 1) : r.normalised[j] \in Int
          /\ \A j, k \in 1..(n + 1) : j <= k => r.normalised[j] <= r.normalised[k]
      BY RuleFacts, RisingFacts
    <3> HIDE DEF n, i
    <3>2. i - 1 \in 1..(n + 1) /\ i \in 1..(n + 1) /\ i - 1 <= i
      BY <2>0, <2>3
    <3> QED BY <3>1, <3>2
  <2> HIDE DEF i, a, b, p
  <2>5. Prec * a + p * (b - a) \in Int /\ Prec * a <= Prec * a + p * (b - a)
        /\ Prec * a + p * (b - a) <= Prec * b
    <3> DEFINE t == b - a
    <3>1. t \in Nat /\ p \in Nat /\ p <= Prec
      BY <2>2, <2>4, ScaleFacts
    <3>2. Prec * b = Prec * a + Prec * t
      BY <2>4, ScaleFacts
    <3> HIDE DEF t
    <3>3. \A x, y \in Int : x <= y => x * t <= y * t
      BY <3>1
    <3>4. 0 * t <= p * t /\ p * t <= Prec * t
      BY <3>1, <3>3, ScaleFacts
    <3>5. 0 * t = 0 /\ p * t \in Int /\ Prec * t \in Int /\ Prec * a \in Int
      BY <2>4, <3>1, ScaleFacts
    <3>6. Prec * a + p * t \in Int /\ Prec * a <= Prec * a + p * t /\ Prec * a + p * t <= Prec * b
      BY <3>2, <3>4, <3>5
    <3> QED BY <3>6 DEF t
  <2> QED BY <2>0, <2>1, <2>3, <2>5 DEF a, b
<1> QED BY <1>1, <1>2, <1>3

(* normalise_metric is the rounding of the interpolated value.             *)
LEMMA NormaliseRounds ==
    ASSUME NEW r \in Rules, NEW v \in Int
    PROVE  NormaliseMetric(r, v) = RoundHalfEven(Interpolated(r, v) * Scale, Prec * Fine)
<1> DEFINE n == Len(r.cuts)
<1>0. \A x \in Int : RoundHalfEven((Prec * x) * Scale, Prec * Fine) = RoundHalfEven(x * Scale, Fine)
  <2> TAKE x \in Int
  <2>1. (Prec * x) * Scale = Prec * (x * Scale) /\ x * Scale \in Int
    BY ScaleFacts
  <2>2. PICK y, k, b : y = x * Scale /\ k = Prec /\ b = Fine
    OBVIOUS
  <2>3. y \in Int /\ k \in Nat \ {0} /\ b \in Nat \ {0}
    BY <2>1, <2>2, ScaleFacts
  <2>4. RoundHalfEven(k * y, k * b) = RoundHalfEven(y, b)
    BY <2>3, RoundReduced
  <2> QED BY <2>1, <2>2, <2>4
<1>f. n \in Nat \ {0} /\ \A j \in 1..(n + 1) : r.normalised[j] \in Int
  BY RuleFacts
<1>1. CASE v > r.cuts[n]
  <2>1. Interpolated(r, v) = Prec * r.normalised[n + 1]
    BY <1>1 DEF Interpolated
  <2>2. NormaliseMetric(r, v) = RoundHalfEven(r.normalised[n + 1] * Scale, Fine)
    BY <1>1 DEF NormaliseMetric
  <2>3. r.normalised[n + 1] \in Int
    <3> HIDE DEF n
    <3> QED BY <1>f
  <2> QED BY <1>0, <2>1, <2>2, <2>3
<1>2. CASE ~(v > r.cuts[n]) /\ v <= r.cuts[1]
  <2>1. Interpolated(r, v) = Prec * r.normalised[1]
    BY <1>2 DEF Interpolated
  <2>2. NormaliseMetric(r, v) = RoundHalfEven(r.normalised[1] * Scale, Fine)
    BY <1>2 DEF NormaliseMetric
  <2>3. r.normalised[1] \in Int
    BY <1>f
  <2> QED BY <1>0, <2>1, <2>2, <2>3
<1>3. CASE ~(v > r.cuts[n]) /\ ~(v <= r.cuts[1])
  <2> DEFINE i == Segment(r, v)
             a == r.normalised[i - 1]
  <2>0. v <= r.cuts[n] /\ v > r.cuts[1]
    BY <1>3, RuleFacts
  <2>1. i \in 2..n
    BY <2>0, SegmentFacts
  <2>2. a \in Int
    <3> HIDE DEF i, n
    <3> QED BY <1>f, <2>1
  <2>3. Prec * a = a * Prec
    BY <2>2, ScaleFacts
  <2> QED BY <1>3, <2>3 DEF Interpolated, Position, NormaliseMetric
<1> QED BY <1>1, <1>2, <1>3

(* A larger value is in the same segment or a later one.                   *)
LEMMA PieceMonotone ==
    ASSUME NEW r \in Rules, NEW v \in Int, NEW w \in Int, v <= w
    PROVE  Piece(r, v) <= Piece(r, w)
<1> DEFINE n == Len(r.cuts)
           c(i) == r.cuts[i]
           I == Piece(r, v)
           J == Piece(r, w)
<1>1. /\ n \in Nat \ {0} /\ \A k \in 1..n : c(k) \in Int
      /\ \A k, l \in 1..n : k <= l => c(k) <= c(l)
  BY RuleFacts
<1>2. I \in 1..(n + 1) /\ J \in 1..(n + 1)
  BY InterpolatedType
<1>3. I >= 2 => c(I - 1) < v
  <2>1. CASE v > r.cuts[n]
    BY <2>1, <1>1 DEF Piece
  <2>2. CASE ~(v > r.cuts[n]) /\ v <= r.cuts[1]
    BY <2>2 DEF Piece
  <2>3. CASE ~(v > r.cuts[n]) /\ ~(v <= r.cuts[1])
    <3>1. v <= r.cuts[n] /\ v > r.cuts[1]
      BY <1>1, <2>3
    <3> QED BY <2>3, <3>1, SegmentFacts DEF Piece
  <2> QED BY <2>1, <2>2, <2>3
<1>4. J <= n => w <= c(J)
  <2>1. CASE w > r.cuts[n]
    BY <2>1, <1>1 DEF Piece
  <2>2. CASE ~(w > r.cuts[n]) /\ w <= r.cuts[1]
    BY <2>2 DEF Piece
  <2>3. CASE ~(w > r.cuts[n]) /\ ~(w <= r.cuts[1])
    <3>1. w <= r.cuts[n] /\ w > r.cuts[1]
      BY <1>1, <2>3
    <3> QED BY <2>3, <3>1, SegmentFacts DEF Piece
  <2> QED BY <2>1, <2>2, <2>3
<1> HIDE DEF n, c, I, J
<1>5. CASE J < I
  <2>1. J <= I - 1 /\ J \in 1..n /\ I - 1 \in 1..n /\ I >= 2 /\ J <= n
    BY <1>1, <1>2, <1>5
  <2>2. c(J) <= c(I - 1) /\ c(J) \in Int /\ c(I - 1) \in Int
    BY <1>1, <2>1
  <2>3. c(I - 1) < v /\ w <= c(J)
    BY <1>3, <1>4, <2>1
  <2> QED BY <2>2, <2>3
<1>6. CASE I <= J
  BY <1>6 DEF I, J
<1> QED BY <1>2, <1>5, <1>6

(* Interpolation keeps the order: within a segment because a position does *)
(* not fall, and from one segment to a later one because the normalised    *)
(* values do not.                                                          *)
LEMMA InterpolatedMonotone ==
    ASSUME NEW r \in Rules, Rising(r), NEW v \in Int, NEW w \in Int, v <= w
    PROVE  Interpolated(r, v) <= Interpolated(r, w)
<1> DEFINE n == Len(r.cuts)
           d(i) == r.normalised[i]
           I == Piece(r, v)
           J == Piece(r, w)
           X == Interpolated(r, v)
           Y == Interpolated(r, w)
<1>1. /\ n \in Nat \ {0} /\ \A k \in 1..(n + 1) : d(k) \in Int
      /\ \A k, l \in 1..(n + 1) : k <= l => d(k) <= d(l)
  BY RuleFacts, RisingFacts
<1>2. /\ I \in 1..(n + 1) /\ X \in Int /\ (I <= n => X <= Prec * d(I))
      /\ (I = 1 => X = Prec * d(1)) /\ (I = n + 1 => X = Prec * d(n + 1))
  BY InterpolatedBetween
<1>3. /\ J \in 1..(n + 1) /\ Y \in Int /\ (J >= 2 => Prec * d(J - 1) <= Y)
      /\ (J = 1 => Y = Prec * d(1)) /\ (J = n + 1 => Y = Prec * d(n + 1))
  BY InterpolatedBetween
<1>4. I <= J
  BY PieceMonotone
<1>5. CASE I < J
  <2> HIDE DEF n, d, I, J, X, Y
  <2>1. I <= n /\ J >= 2 /\ I \in 1..(n + 1) /\ J - 1 \in 1..(n + 1) /\ I <= J - 1
    BY <1>1, <1>2, <1>3, <1>5
  <2>2. d(I) <= d(J - 1) /\ d(I) \in Int /\ d(J - 1) \in Int
    BY <1>1, <2>1
  <2>3. \A x, y \in Int : x <= y => Prec * x <= Prec * y
    BY ScaleFacts
  <2>4. Prec * d(I) <= Prec * d(J - 1) /\ Prec * d(I) \in Int /\ Prec * d(J - 1) \in Int
    BY <2>2, <2>3, ScaleFacts
  <2>5. X <= Y
    BY <1>2, <1>3, <2>1, <2>4
  <2> QED BY <2>5 DEF X, Y
<1>6. CASE I = J /\ (I = 1 \/ I = n + 1)
  <2> HIDE DEF n, d, I, J
  <2>1. X = Y
    BY <1>2, <1>3, <1>6
  <2> QED BY <1>2, <2>1
<1>7. CASE I = J /\ I # 1 /\ I # n + 1
  <2> DEFINE lo == r.cuts[I - 1]
             span == r.cuts[I] - r.cuts[I - 1]
             p == RoundHalfEven((v - lo) * Prec, span)
             q == RoundHalfEven((w - lo) * Prec, span)
             rise == d(I) - d(I - 1)
  <2>1. /\ ~(v > r.cuts[n]) /\ ~(v <= r.cuts[1]) /\ I = Segment(r, v)
        /\ ~(w > r.cuts[n]) /\ ~(w <= r.cuts[1]) /\ J = Segment(r, w)
    BY <1>7 DEF Piece
  <2>2. /\ X = Prec * d(I - 1) + p * rise
        /\ Y = Prec * d(I - 1) + q * rise
    <3>1. /\ X = Prec * d(I - 1) + Position(r, v) * rise
          /\ Y = Prec * d(J - 1) + Position(r, w) * (d(J) - d(J - 1))
      BY <2>1 DEF Interpolated
    <3>2. Position(r, v) = p /\ Position(r, w) = q
      <4> HIDE DEF I, J
      <4> QED BY <1>7, <2>1 DEF Position
    <3> HIDE DEF I, J, X, Y, d, p, q
    <3> QED BY <1>7, <3>1, <3>2
  <2>3. lo \in Int /\ span \in Nat \ {0}
    <3>1. v <= r.cuts[n] /\ v > r.cuts[1]
      BY <1>1, <2>1, RuleFacts
    <3>2. I \in 2..n /\ r.cuts[I - 1] < v /\ v <= r.cuts[I]
      BY <2>1, <3>1, SegmentFacts
    <3>3. \A k \in 1..n : r.cuts[k] \in Int
      BY RuleFacts
    <3> HIDE DEF n, I
    <3>4. r.cuts[I - 1] \in Int /\ r.cuts[I] \in Int
      BY <1>1, <3>2, <3>3
    <3> QED BY <3>2, <3>4
  <2>4. rise \in Nat /\ d(I - 1) \in Int
    <3> HIDE DEF n, I, d
    <3>1. I \in 1..(n + 1) /\ I - 1 \in 1..(n + 1) /\ I - 1 <= I
      BY <1>1, <1>2, <1>7
    <3>2. d(I) \in Int /\ d(I - 1) \in Int /\ d(I - 1) <= d(I)
      BY <1>1, <3>1
    <3> QED BY <3>2
  <2> HIDE DEF n, d, I, J, X, Y, lo, span, rise
  <2>5. p \in Int /\ q \in Int /\ p <= q
    <3> DEFINE x == (v - lo) * Prec
               y == (w - lo) * Prec
    <3>1. \A k, l \in Int : k <= l => k * Prec <= l * Prec
      BY ScaleFacts
    <3>2. x \in Int /\ y \in Int /\ x <= y
      <4>1. v - lo \in Int /\ w - lo \in Int /\ v - lo <= w - lo
        BY <2>3
      <4> QED BY <3>1, <4>1, ScaleFacts
    <3>3. p = RoundHalfEven(x, span) /\ q = RoundHalfEven(y, span)
      OBVIOUS
    <3> HIDE DEF x, y, p, q
    <3> QED BY <2>3, <3>2, <3>3, RoundMonotone, RoundNear
  <2> HIDE DEF p, q
  <2>6. p * rise <= q * rise /\ p * rise \in Int /\ q * rise \in Int
    <3>1. \A k, l \in Int : k <= l => k * rise <= l * rise
      BY <2>4
    <3> QED BY <2>4, <2>5, <3>1
  <2>7. X <= Y
    <3>1. Prec * d(I - 1) \in Int
      BY <2>4, ScaleFacts
    <3> QED BY <2>2, <2>6, <3>1
  <2> QED BY <2>7 DEF X, Y
<1> QED
  <2> HIDE DEF I, J, n
  <2> QED BY <1>1, <1>2, <1>3, <1>4, <1>5, <1>6, <1>7

(* normalise_metric returns an integer.                                    *)
LEMMA NormaliseType ==
    ASSUME NEW r \in Rules, NEW v \in Int
    PROVE  NormaliseMetric(r, v) \in Int
<1> DEFINE X == Interpolated(r, v)
<1>1. X \in Int /\ NormaliseMetric(r, v) = RoundHalfEven(X * Scale, Prec * Fine)
  BY InterpolatedType, NormaliseRounds
<1> HIDE DEF X
<1>2. X * Scale \in Int
  BY <1>1, ScaleFacts
<1> QED BY <1>1, <1>2, ScaleFacts, RoundNear

(* It keeps the order, whatever the rounding does.                   *)
LEMMA NormaliseMonotone ==
    ASSUME NEW r \in Rules, Rising(r), NEW v \in Int, NEW w \in Int, v <= w
    PROVE  NormaliseMetric(r, v) <= NormaliseMetric(r, w)
<1> DEFINE X == Interpolated(r, v)
           Y == Interpolated(r, w)
<1>1. X \in Int /\ Y \in Int /\ X <= Y
  BY InterpolatedType, InterpolatedMonotone
<1>2. /\ NormaliseMetric(r, v) = RoundHalfEven(X * Scale, Prec * Fine)
      /\ NormaliseMetric(r, w) = RoundHalfEven(Y * Scale, Prec * Fine)
  BY NormaliseRounds
<1> HIDE DEF X, Y
<1>3. X * Scale \in Int /\ Y * Scale \in Int /\ X * Scale <= Y * Scale
  BY <1>1, ScaleFacts
<1> QED BY <1>2, <1>3, ScaleFacts, RoundNear, RoundMonotone

-----------------------------------------------------------------------------
(* The distance from the exact value.                                      *)

(* The error bound, in plain numbers: the value N is the rounding of an    *)
(* interpolated one whose position p is itself a rounding, where the rule  *)
(* rises.                                                                  *)
LEMMA ErrorBoundRising ==
    ASSUME NEW N \in Int, NEW a \in Int, NEW rise \in Nat,
           NEW d \in Int, NEW p \in Int, NEW span \in Nat \ {0},
           NEW P \in Nat \ {0}, NEW F \in Nat \ {0}, NEW S \in Nat \ {0},
           2 * (d * P) - span <= 2 * (span * p), 2 * (span * p) <= 2 * (d * P) + span,
           2 * ((P * a + p * rise) * S) - P * F <= 2 * ((P * F) * N),
           2 * ((P * F) * N) <= 2 * ((P * a + p * rise) * S) + P * F
    PROVE  LET e == N * F * span - (a * span + rise * d) * S
           IN  2 * P * AbsVal(e) <= (P * F + rise * S) * span
<1> DEFINE e == N * F * span - (a * span + rise * d) * S
           g == 2 * ((P * F) * N) - 2 * ((P * a + p * rise) * S)
           h == 2 * (span * p) - 2 * (d * P)
<1>1. e \in Int /\ g \in Int /\ h \in Int
  OBVIOUS
<1>2. 2 * P * e = span * g + (S * rise) * h
  OBVIOUS
<1>3. -(P * F) <= g /\ g <= P * F /\ P * F \in Nat
  <2> DEFINE u == (P * F) * N
             w == (P * a + p * rise) * S
             z == P * F
  <2>1. u \in Int /\ w \in Int /\ z \in Nat
    OBVIOUS
  <2>2. 2 * w - z <= 2 * u /\ 2 * u <= 2 * w + z /\ g = 2 * u - 2 * w
    OBVIOUS
  <2> HIDE DEF u, w, z, g
  <2>3. -z <= g /\ g <= z
    BY <2>1, <2>2
  <2> QED BY <2>1, <2>3 DEF z
<1>4. -span <= h /\ h <= span
  <2> DEFINE u == span * p
             w == d * P
  <2>1. u \in Int /\ w \in Int
    OBVIOUS
  <2>2. 2 * w - span <= 2 * u /\ 2 * u <= 2 * w + span /\ h = 2 * u - 2 * w
    OBVIOUS
  <2> HIDE DEF u, w, h
  <2> QED BY <2>1, <2>2
<1> HIDE DEF e, g, h
<1>5. -(span * (P * F)) <= span * g /\ span * g <= span * (P * F)
  <2> DEFINE z == P * F
  <2>1. z \in Nat /\ -z <= g /\ g <= z
    BY <1>3
  <2> HIDE DEF z
  <2>2. -(span * z) <= span * g /\ span * g <= span * z
    <3>1. \A x, y \in Int : x <= y => span * x <= span * y
      OBVIOUS
    <3>2. span * (-z) = -(span * z) /\ -z \in Int
      BY <2>1
    <3> QED BY <1>1, <2>1, <3>1, <3>2
  <2> QED BY <2>2 DEF z
<1>6. -((S * rise) * span) <= (S * rise) * h /\ (S * rise) * h <= (S * rise) * span
  <2> DEFINE z == S * rise
  <2>1. z \in Nat
    OBVIOUS
  <2> HIDE DEF z
  <2>2. -(z * span) <= z * h /\ z * h <= z * span
    <3>1. \A x, y \in Int : x <= y => z * x <= z * y
      BY <2>1
    <3>2. z * (-span) = -(z * span) /\ -span \in Int
      BY <2>1
    <3> QED BY <1>1, <1>4, <3>1, <3>2
  <2> QED BY <2>2 DEF z
<1>8. (P * F + rise * S) * span = span * (P * F) + (S * rise) * span
  OBVIOUS
<1>9. /\ -((P * F + rise * S) * span) <= 2 * P * e
      /\ 2 * P * e <= (P * F + rise * S) * span
  <2> DEFINE A == span * (P * F)
             B == (S * rise) * span
             G == span * g
             H == (S * rise) * h
  <2>1. A \in Int /\ B \in Int /\ G \in Int /\ H \in Int
    BY <1>1
  <2>2. -A <= G /\ G <= A /\ -B <= H /\ H <= B
    BY <1>5, <1>6
  <2>3. 2 * P * e = G + H /\ (P * F + rise * S) * span = A + B
    BY <1>2, <1>8
  <2> HIDE DEF A, B, G, H
  <2>4. -(A + B) <= G + H /\ G + H <= A + B
    BY <2>1, <2>2
  <2> QED BY <2>3, <2>4
<1>10. 2 * P * (-e) = -(2 * P * e)
  BY <1>1
<1>11. 2 * P * AbsVal(e) <= (P * F + rise * S) * span
  <2> DEFINE K == (P * F + rise * S) * span
             M == 2 * P * e
  <2>1. K \in Int /\ M \in Int
    BY <1>1
  <2>2. -K <= M /\ M <= K
    BY <1>9
  <2>3. 2 * P * AbsVal(e) = M \/ 2 * P * AbsVal(e) = -M
    BY <1>10 DEF AbsVal
  <2> HIDE DEF K, M
  <2>4. 2 * P * AbsVal(e) <= K
    BY <2>1, <2>2, <2>3
  <2> QED BY <2>4 DEF K
<1> QED BY <1>11 DEF e

(* Where it falls, the same holds of the numbers with their signs turned.  *)
LEMMA ErrorBound ==
    ASSUME NEW N \in Int, NEW a \in Int, NEW rise \in Int,
           NEW d \in Int, NEW p \in Int, NEW span \in Nat \ {0},
           NEW P \in Nat \ {0}, NEW F \in Nat \ {0}, NEW S \in Nat \ {0},
           2 * (d * P) - span <= 2 * (span * p), 2 * (span * p) <= 2 * (d * P) + span,
           2 * ((P * a + p * rise) * S) - P * F <= 2 * ((P * F) * N),
           2 * ((P * F) * N) <= 2 * ((P * a + p * rise) * S) + P * F
    PROVE  LET e == N * F * span - (a * span + rise * d) * S
           IN  2 * P * AbsVal(e) <= (P * F + AbsVal(rise) * S) * span
<1> DEFINE e == N * F * span - (a * span + rise * d) * S
<1>1. CASE rise \in Nat
  <2>1. 2 * P * AbsVal(e) <= (P * F + rise * S) * span
    BY <1>1, ErrorBoundRising
  <2>2. AbsVal(rise) = rise
    BY <1>1 DEF AbsVal
  <2> QED BY <2>1, <2>2
<1>2. CASE rise \notin Nat
  <2> DEFINE x == (P * a + p * rise) * S
             y == (P * F) * N
             z == P * F
  <2>1. PICK M, b, q : M = -N /\ b = -a /\ q = -rise
    OBVIOUS
  <2>2. M \in Int /\ b \in Int /\ q \in Nat /\ AbsVal(rise) = q
    BY <1>2, <2>1 DEF AbsVal
  <2>3. (P * b + p * q) * S = -x /\ (P * F) * M = -y /\ x \in Int /\ y \in Int /\ z \in Int
    BY <2>1
  <2>4. 2 * x - z <= 2 * y /\ 2 * y <= 2 * x + z
    OBVIOUS
  <2>5. 2 * ((P * b + p * q) * S) - P * F <= 2 * ((P * F) * M)
        /\ 2 * ((P * F) * M) <= 2 * ((P * b + p * q) * S) + P * F
    <3> HIDE DEF x, y
    <3>1. 2 * (-x) - z <= 2 * (-y) /\ 2 * (-y) <= 2 * (-x) + z
      <4> HIDE DEF z
      <4> QED BY <2>3, <2>4
    <3> QED BY <2>3, <3>1
  <2> DEFINE g == M * F * span - (b * span + q * d) * S
  <2>6. 2 * P * AbsVal(g) <= (P * F + q * S) * span
    BY <2>2, <2>5, ErrorBoundRising
  <2>7. g = -e /\ e \in Int
    BY <2>1
  <2>8. AbsVal(g) = AbsVal(e)
    <3> HIDE DEF g, e
    <3> QED BY <2>7 DEF AbsVal
  <2> HIDE DEF g, e
  <2>9. 2 * P * AbsVal(e) <= (P * F + AbsVal(rise) * S) * span
    BY <2>2, <2>6, <2>8
  <2> QED BY <2>9 DEF e
<1> QED BY <1>1, <1>2

(* The same where the rule is flat, and only the last rounding counts.     *)
LEMMA FlatBound ==
    ASSUME NEW N \in Int, NEW a \in Int,
           NEW P \in Nat \ {0}, NEW F \in Nat \ {0}, NEW S \in Nat \ {0},
           2 * ((P * a) * S) - P * F <= 2 * ((P * F) * N),
           2 * ((P * F) * N) <= 2 * ((P * a) * S) + P * F
    PROVE  2 * P * AbsVal(N * F * 1 - a * S) <= (P * F + AbsVal(0) * S) * 1
<1> DEFINE e == N * F * 1 - a * S
           M == 2 * P * e
           u == (P * F) * N
           w == (P * a) * S
           z == P * F
<1>1. e \in Int /\ u \in Int /\ w \in Int /\ z \in Nat
  OBVIOUS
<1>2. 2 * w - z <= 2 * u /\ 2 * u <= 2 * w + z
  OBVIOUS
<1>3. M = 2 * u - 2 * w
  OBVIOUS
<1>4. 2 * P * (-e) = -M
  BY <1>1
<1>5. 2 * P * AbsVal(e) = M \/ 2 * P * AbsVal(e) = -M
  <2> HIDE DEF e, M
  <2> QED BY <1>4 DEF AbsVal, M
<1>6. (P * F + AbsVal(0) * S) * 1 = z
  <2>1. AbsVal(0) = 0
    BY DEF AbsVal
  <2> QED BY <2>1
<1> HIDE DEF M, u, w, z, e
<1>7. 2 * P * AbsVal(e) <= z
  BY <1>1, <1>2, <1>3, <1>5
<1> QED BY <1>6, <1>7 DEF e

(* Which case of Reference applies.                                        *)
LEMMA ReferenceCases ==
    ASSUME NEW r \in Rules, NEW v \in Int
    PROVE  LET n == Len(r.cuts)
               i == Segment(r, v)
           IN  /\ v > r.cuts[n] => Reference(r, v) = [num |-> r.normalised[n + 1], den |-> 1, rise |-> 0]
               /\ v <= r.cuts[1] => Reference(r, v) = [num |-> r.normalised[1], den |-> 1, rise |-> 0]
               /\ v > r.cuts[1] /\ v <= r.cuts[n] =>
                     Reference(r, v) = [num |-> r.normalised[i - 1] * (r.cuts[i] - v)
                                                  + r.normalised[i] * (v - r.cuts[i - 1]),
                                        den |-> r.cuts[i] - r.cuts[i - 1],
                                        rise |-> r.normalised[i] - r.normalised[i - 1]]
<1> DEFINE n == Len(r.cuts)
           i == Segment(r, v)
           below == {k \in 1..n : r.cuts[k] < v}
<1>1. /\ n \in Nat \ {0} /\ \A k \in 1..n : r.cuts[k] \in Int
      /\ \A k, l \in 1..n : k <= l => r.cuts[k] <= r.cuts[l]
  BY RuleFacts
<1>2. 1 \in 1..n /\ n \in 1..n
  BY <1>1
<1>3. ASSUME v > r.cuts[n]
      PROVE  Reference(r, v) = [num |-> r.normalised[n + 1], den |-> 1, rise |-> 0]
  <2>1. \A k \in 1..n : r.cuts[k] < v
    <3> TAKE k \in 1..n
    <3>1. r.cuts[k] <= r.cuts[n] /\ r.cuts[k] \in Int /\ r.cuts[n] \in Int
      BY <1>1, <1>2
    <3> QED BY <1>3, <3>1
  <2>2. below = 1..n /\ below # {}
    BY <1>2, <2>1
  <2> QED BY <2>2 DEF Reference
<1>4. ASSUME v <= r.cuts[1]
      PROVE  Reference(r, v) = [num |-> r.normalised[1], den |-> 1, rise |-> 0]
  <2>1. \A k \in 1..n : ~(r.cuts[k] < v)
    <3> TAKE k \in 1..n
    <3>1. r.cuts[1] <= r.cuts[k] /\ r.cuts[k] \in Int /\ r.cuts[1] \in Int
      BY <1>1, <1>2
    <3> QED BY <1>4, <3>1
  <2>2. below = {}
    BY <2>1
  <2> QED BY <2>2 DEF Reference
<1>5. ASSUME v > r.cuts[1], v <= r.cuts[n]
      PROVE  Reference(r, v) = [num |-> r.normalised[i - 1] * (r.cuts[i] - v)
                                          + r.normalised[i] * (v - r.cuts[i - 1]),
                                den |-> r.cuts[i] - r.cuts[i - 1],
                                rise |-> r.normalised[i] - r.normalised[i - 1]]
  <2>1. i \in 2..n /\ r.cuts[i - 1] < v /\ v <= r.cuts[i]
    BY <1>5, SegmentFacts
  <2>2. i - 1 \in below /\ i - 1 \in Int
    <3> HIDE DEF i, n
    <3> QED BY <1>1, <2>1
  <2>3. \A k \in below : i - 1 >= k
    <3> SUFFICES ASSUME NEW k \in 1..n, r.cuts[k] < v, k >= i PROVE FALSE
      BY <1>1, <2>1
    <3> HIDE DEF i, n
    <3>1. i \in 1..n /\ i <= k
      BY <2>1
    <3>2. r.cuts[i] <= r.cuts[k] /\ r.cuts[i] \in Int /\ r.cuts[k] \in Int
      BY <1>1, <3>1
    <3> QED BY <2>1, <3>2
  <2>4. Max(below) = i - 1
    <3> DEFINE m == Max(below)
    <3>1. m = CHOOSE x \in below : \A y \in below : x >= y
      BY DEF Max
    <3>2. \A k \in below : k \in Int
      OBVIOUS
    <3> HIDE DEF below, i, m
    <3>3. m \in below /\ \A y \in below : m >= y
      BY <2>2, <2>3, <3>1
    <3>4. m = i - 1
      BY <2>2, <2>3, <3>2, <3>3
    <3> QED BY <3>4 DEF m
  <2>5. below # {} /\ below # 1..n
    <3>1. n \notin below
      BY <1>1, <1>2, <1>5
    <3> QED BY <1>2, <2>2, <3>1
  <2>6. (i - 1) + 1 = i
    BY <2>1
  <2>7. Reference(r, v) = LET j == Max(below)
                          IN  [num |-> r.normalised[j] * (r.cuts[j + 1] - v)
                                         + r.normalised[j + 1] * (v - r.cuts[j]),
                               den |-> r.cuts[j + 1] - r.cuts[j],
                               rise |-> r.normalised[j + 1] - r.normalised[j]]
    BY <2>5 DEF Reference
  <2> HIDE DEF i, below
  <2> QED BY <2>4, <2>6, <2>7
<1> QED BY <1>3, <1>4, <1>5

(* normalise_metric is near the exact value for every rule and value.      *)
LEMMA NormaliseNear ==
    ASSUME NEW r \in Rules, NEW v \in Int
    PROVE  LET ref == Reference(r, v)
           IN  2 * Prec * AbsVal(NormaliseMetric(r, v) * Fine * ref.den - ref.num * Scale)
                 <= (Prec * Fine + AbsVal(ref.rise) * Scale) * ref.den
<1> DEFINE n == Len(r.cuts)
           N == NormaliseMetric(r, v)
           X == Interpolated(r, v)
           ref == Reference(r, v)
<1>1. /\ n \in Nat \ {0} /\ Len(r.normalised) = n + 1
      /\ \A k \in 1..(n + 1) : r.normalised[k] \in Int
  BY RuleFacts
<1>2. 1 \in 1..(n + 1) /\ n + 1 \in 1..(n + 1) /\ 1 <= n + 1
  <2> HIDE DEF n
  <2> QED BY <1>1
<1>4. /\ N \in Int
      /\ 2 * (X * Scale) - Prec * Fine <= 2 * ((Prec * Fine) * N)
      /\ 2 * ((Prec * Fine) * N) <= 2 * (X * Scale) + Prec * Fine
  <2>1. X \in Int /\ N = RoundHalfEven(X * Scale, Prec * Fine)
    BY InterpolatedType, NormaliseRounds
  <2> HIDE DEF X, N
  <2>2. X * Scale \in Int
    BY <2>1, ScaleFacts
  <2> QED BY <2>1, <2>2, ScaleFacts, RoundNear
<1>5. ASSUME NEW a \in Int, X = Prec * a, ref = [num |-> a, den |-> 1, rise |-> 0]
      PROVE  2 * Prec * AbsVal(N * Fine * ref.den - ref.num * Scale)
               <= (Prec * Fine + AbsVal(ref.rise) * Scale) * ref.den
  <2> HIDE DEF n, N, X, ref
  <2>1. 2 * Prec * AbsVal(N * Fine * 1 - a * Scale) <= (Prec * Fine + AbsVal(0) * Scale) * 1
    BY <1>4, <1>5, ScaleFacts, FlatBound
  <2>2. ref.num = a /\ ref.den = 1 /\ ref.rise = 0
    BY <1>5
  <2> QED BY <2>1, <2>2
<1>6. CASE v > r.cuts[n]
  <2>1. X = Prec * r.normalised[n + 1]
    BY <1>6 DEF Interpolated
  <2>2. ref = [num |-> r.normalised[n + 1], den |-> 1, rise |-> 0]
    BY <1>6, ReferenceCases
  <2>3. r.normalised[n + 1] \in Int
    BY <1>1, <1>2
  <2> HIDE DEF X, ref, N
  <2>4. 2 * Prec * AbsVal(N * Fine * ref.den - ref.num * Scale)
          <= (Prec * Fine + AbsVal(ref.rise) * Scale) * ref.den
    BY <1>5, <2>1, <2>2, <2>3
  <2> QED BY <1>1, <2>4 DEF N, ref
<1>7. CASE ~(v > r.cuts[n]) /\ v <= r.cuts[1]
  <2>1. X = Prec * r.normalised[1]
    BY <1>7 DEF Interpolated
  <2>2. ref = [num |-> r.normalised[1], den |-> 1, rise |-> 0]
    BY <1>7, ReferenceCases
  <2>3. r.normalised[1] \in Int
    BY <1>1, <1>2
  <2> HIDE DEF X, ref, N
  <2>4. 2 * Prec * AbsVal(N * Fine * ref.den - ref.num * Scale)
          <= (Prec * Fine + AbsVal(ref.rise) * Scale) * ref.den
    BY <1>5, <2>1, <2>2, <2>3
  <2> QED BY <1>1, <2>4 DEF N, ref
<1>8. CASE ~(v > r.cuts[n]) /\ ~(v <= r.cuts[1])
  <2> DEFINE i == Segment(r, v)
             a == r.normalised[i - 1]
             b == r.normalised[i]
             rise == b - a
             lo == r.cuts[i - 1]
             hi == r.cuts[i]
             d == v - lo
             span == hi - lo
             p == Position(r, v)
  <2>1. v <= r.cuts[n] /\ v > r.cuts[1]
    BY <1>8, RuleFacts
  <2>2. X = Prec * a + p * rise
    BY <1>8 DEF Interpolated
  <2>3. ref = [num |-> a * (hi - v) + b * d, den |-> span, rise |-> rise]
    BY <2>1, ReferenceCases
  <2>4. i \in 2..n /\ lo < v /\ v <= hi
    BY <2>1, SegmentFacts
  <2>5. lo \in Int /\ hi \in Int
    <3>1. \A k \in 1..n : r.cuts[k] \in Int
      BY RuleFacts
    <3> HIDE DEF i, n
    <3>2. i \in 1..n /\ i - 1 \in 1..n
      BY <1>1, <2>4
    <3> QED BY <3>1, <3>2
  <2>6. a \in Int /\ b \in Int /\ rise \in Int
    <3> HIDE DEF i, n
    <3>1. i \in 1..(n + 1) /\ i - 1 \in 1..(n + 1)
      BY <1>1, <2>4
    <3> QED BY <1>1, <3>1
  <2>7. p = RoundHalfEven(d * Prec, span)
    BY DEF Position
  <2> HIDE DEF n, N, X, ref, i, a, b, lo, hi, p
  <2>8. d \in Int /\ span \in Nat \ {0} /\ hi - v = span - d
    BY <2>4, <2>5
  <2>9. a * (hi - v) + b * d = a * span + rise * d
    BY <2>5, <2>6
  <2> HIDE DEF rise, d, span
  <2>10. /\ p \in Int
         /\ 2 * (d * Prec) - span <= 2 * (span * p)
         /\ 2 * (span * p) <= 2 * (d * Prec) + span
    <3>1. d * Prec \in Int
      BY <2>8, ScaleFacts
    <3> QED BY <2>7, <2>8, <3>1, RoundNear
  <2>11. /\ 2 * ((Prec * a + p * rise) * Scale) - Prec * Fine <= 2 * ((Prec * Fine) * N)
         /\ 2 * ((Prec * Fine) * N) <= 2 * ((Prec * a + p * rise) * Scale) + Prec * Fine
    BY <1>4, <2>2
  <2>12. LET e == N * Fine * span - (a * span + rise * d) * Scale
         IN  2 * Prec * AbsVal(e) <= (Prec * Fine + AbsVal(rise) * Scale) * span
    BY <1>4, <2>6, <2>8, <2>10, <2>11, ScaleFacts, ErrorBound
  <2>13. 2 * Prec * AbsVal(N * Fine * ref.den - ref.num * Scale)
          <= (Prec * Fine + AbsVal(ref.rise) * Scale) * ref.den
    <3>1. ref.num = a * span + rise * d /\ ref.den = span /\ ref.rise = rise
      BY <2>3, <2>9
    <3> QED BY <2>12, <3>1
  <2> QED BY <1>1, <2>13 DEF N, ref
<1> QED BY <1>6, <1>7, <1>8

(* No value leaves the range of a rule that does not fall.                 *)
LEMMA NormaliseRange ==
    ASSUME NEW r \in Rules, Rising(r), NEW v \in Int
    PROVE  LET lo == RoundHalfEven(r.normalised[1] * Scale, Fine)
               hi == RoundHalfEven(r.normalised[Len(r.normalised)] * Scale, Fine)
           IN  NormaliseMetric(r, v) \in lo..hi
<1> DEFINE n == Len(r.cuts)
           lo == RoundHalfEven(r.normalised[1] * Scale, Fine)
           hi == RoundHalfEven(r.normalised[n + 1] * Scale, Fine)
<1>1. /\ n \in Nat \ {0} /\ r.cuts[1] \in Int /\ r.cuts[n] \in Int /\ r.cuts[1] <= r.cuts[n]
      /\ Len(r.normalised) = n + 1
  BY RuleFacts
<1>2. PICK u \in Int : u <= v /\ u <= r.cuts[1]
  <2>1. CASE v <= r.cuts[1]
    BY <1>1, <2>1
  <2>2. CASE r.cuts[1] <= v
    BY <1>1, <2>2
  <2> QED BY <1>1, <2>1, <2>2
<1>3. PICK w \in Int : v <= w /\ w > r.cuts[n]
  <2>1. CASE v > r.cuts[n]
    BY <2>1
  <2>2. CASE v <= r.cuts[n]
    <3>1. r.cuts[n] + 1 \in Int /\ v <= r.cuts[n] + 1 /\ r.cuts[n] + 1 > r.cuts[n]
      BY <1>1, <2>2
    <3> QED BY <3>1
  <2> QED BY <1>1, <2>1, <2>2
<1>4. NormaliseMetric(r, u) = lo
  <2>1. ~(u > r.cuts[n])
    BY <1>1, <1>2
  <2> QED BY <1>2, <2>1 DEF NormaliseMetric
<1>5. NormaliseMetric(r, w) = hi
  BY <1>3 DEF NormaliseMetric
<1>6. /\ NormaliseMetric(r, u) <= NormaliseMetric(r, v) /\ NormaliseMetric(r, v) <= NormaliseMetric(r, w)
      /\ NormaliseMetric(r, u) \in Int /\ NormaliseMetric(r, v) \in Int /\ NormaliseMetric(r, w) \in Int
  BY <1>2, <1>3, NormaliseMonotone, NormaliseType
<1> HIDE DEF lo, hi, n
<1>7. NormaliseMetric(r, v) \in lo..hi
  BY <1>4, <1>5, <1>6
<1> QED BY <1>1, <1>7 DEF lo, hi, n

-----------------------------------------------------------------------------
(* The weighted sum.                                                       *)

Weighted(w, f) == RoundHalfEven(SumFunction([m \in Metrics |-> f[m] * w[m]]), Whole)

(* The score is an integer.                                                *)
LEMMA WeightedType ==
    ASSUME NEW w \in Weights, NEW f, \A m \in Metrics : f[m] \in Int
    PROVE  Weighted(w, f) \in Int
<1> DEFINE F == [m \in Metrics |-> f[m] * w[m]]
           A == SumFunctionOnSet(F, Metrics)
<1>1. IsFiniteSet(Metrics) /\ \A m \in Metrics : w[m] \in Int
  BY ScoringAssumption
<1>2. \A m \in Metrics : F[m] \in Int
  BY <1>1
<1>3. Weighted(w, f) = RoundHalfEven(A, Whole)
  BY DEF Weighted, SumFunction
<1> HIDE DEF F
<1>4. A \in Int
  BY <1>1, <1>2, SumType
<1> HIDE DEF A
<1> QED BY <1>3, <1>4, ScaleFacts, RoundNear

(* Larger values have a larger score, if no weight is negative.            *)
LEMMA WeightedMonotone ==
    ASSUME NEW w \in Weights, \A m \in Metrics : w[m] >= 0,
           NEW f, \A m \in Metrics : f[m] \in Int,
           NEW g, \A m \in Metrics : g[m] \in Int, \A m \in Metrics : f[m] <= g[m]
    PROVE  Weighted(w, f) <= Weighted(w, g)
<1> DEFINE F == [m \in Metrics |-> f[m] * w[m]]
           G == [m \in Metrics |-> g[m] * w[m]]
           A == SumFunctionOnSet(F, Metrics)
           B == SumFunctionOnSet(G, Metrics)
<1>1. IsFiniteSet(Metrics) /\ \A m \in Metrics : w[m] \in Nat
  <2>1. \A m \in Metrics : w[m] \in Int
    BY ScoringAssumption
  <2> QED BY <2>1, ScoringAssumption
<1>2. ASSUME NEW m \in Metrics
      PROVE  F[m] \in Int /\ G[m] \in Int /\ F[m] <= G[m]
  <2>1. f[m] \in Int /\ g[m] \in Int /\ f[m] <= g[m] /\ w[m] \in Nat
    BY <1>1
  <2>2. \A x, y \in Int, k \in Nat : x <= y => x * k <= y * k
    OBVIOUS
  <2>3. \A x \in Int, k \in Nat : x * k \in Int
    OBVIOUS
  <2>4. F[m] = f[m] * w[m] /\ G[m] = g[m] * w[m]
    OBVIOUS
  <2> QED BY <2>1, <2>2, <2>3, <2>4
<1>3. Weighted(w, f) = RoundHalfEven(A, Whole) /\ Weighted(w, g) = RoundHalfEven(B, Whole)
  BY DEF Weighted, SumFunction
<1> HIDE DEF F, G
<1>4. A \in Int /\ B \in Int /\ A <= B
  BY <1>1, <1>2, SumType, SumMonotone
<1> HIDE DEF A, B
<1> QED BY <1>3, <1>4, ScaleFacts, RoundNear, RoundMonotone

(* If all values are the same the score is that value, since the weights   *)
(* add up to a whole.                                                      *)
LEMMA WeightedEqual ==
    ASSUME NEW w \in Weights, NEW k \in Int
    PROVE  Weighted(w, [m \in Metrics |-> k]) = k
<1> DEFINE f == [m \in Metrics |-> k]
           F == [m \in Metrics |-> f[m] * w[m]]
<1>1. IsFiniteSet(Metrics) /\ \A m \in Metrics : w[m] \in Int
  BY ScoringAssumption
<1>2. SumFunctionOnSet(w, Metrics) = Whole
  BY ScoringAssumption
<1>3. \A m \in Metrics : F[m] = k * w[m] /\ w[m] \in Int
  BY <1>1
<1>4. Weighted(w, f) = RoundHalfEven(SumFunctionOnSet(F, Metrics), Whole)
  BY DEF Weighted, SumFunction
<1> HIDE DEF F, f
<1>5. SumFunctionOnSet(F, Metrics) = k * Whole
  BY <1>1, <1>2, <1>3, SumScale
<1>6. RoundHalfEven(k * Whole, Whole) = k
  BY ScaleFacts, RoundWhole
<1> QED BY <1>4, <1>5, <1>6 DEF f

(* A finite set of values has a least and a greatest one.                  *)
LEMMA Extremes ==
    ASSUME NEW S, IsFiniteSet(S), S # {}, NEW f, \A x \in S : f[x] \in Int
    PROVE  /\ Min({f[x] : x \in S}) \in Int /\ Max({f[x] : x \in S}) \in Int
           /\ \A x \in S : Min({f[y] : y \in S}) <= f[x] /\ f[x] <= Max({f[y] : y \in S})
<1> DEFINE Good == {T \in SUBSET S : T # {} => /\ \E y \in T : \A x \in T : f[y] <= f[x]
                                               /\ \E y \in T : \A x \in T : f[x] <= f[y]}
           V == {f[x] : x \in S}
<1>1. ASSUME NEW T \in SUBSET S, \A x \in T : T \ {x} \in Good
      PROVE  T \in Good
  <2> SUFFICES ASSUME NEW z \in T
               PROVE  /\ \E y \in T : \A x \in T : f[y] <= f[x]
                      /\ \E y \in T : \A x \in T : f[x] <= f[y]
    OBVIOUS
  <2>0. \A x \in T : f[x] \in Int
    OBVIOUS
  <2>1. CASE T \ {z} = {}
    <3>1. \A x \in T : x = z
      BY <2>1
    <3> QED BY <2>0, <3>1
  <2>2. CASE T \ {z} # {}
    <3>1. /\ \E y \in T \ {z} : \A x \in T \ {z} : f[y] <= f[x]
          /\ \E y \in T \ {z} : \A x \in T \ {z} : f[x] <= f[y]
      BY <1>1, <2>2
    <3> HIDE DEF Good
    <3>2. PICK a \in T \ {z} : \A x \in T \ {z} : f[a] <= f[x]
      BY <3>1
    <3>3. PICK b \in T \ {z} : \A x \in T \ {z} : f[x] <= f[b]
      BY <3>1
    <3>4. \E y \in T : \A x \in T : f[y] <= f[x]
      <4>1. CASE f[a] <= f[z]
        BY <2>0, <3>2, <4>1
      <4>2. CASE f[z] <= f[a]
        <5>1. \A x \in T : f[z] <= f[x]
          BY <2>0, <3>2, <4>2
        <5> QED BY <5>1
      <4> QED BY <2>0, <4>1, <4>2
    <3>5. \E y \in T : \A x \in T : f[x] <= f[y]
      <4>1. CASE f[z] <= f[b]
        BY <2>0, <3>3, <4>1
      <4>2. CASE f[b] <= f[z]
        <5>1. \A x \in T : f[x] <= f[z]
          BY <2>0, <3>3, <4>2
        <5> QED BY <5>1
      <4> QED BY <2>0, <4>1, <4>2
    <3> QED BY <3>4, <3>5
  <2> QED BY <2>1, <2>2
<1>2. S \in Good
  <2> HIDE DEF Good
  <2>1. \A T \in SUBSET S : T \in Good
    BY <1>1, SubsetInduction
  <2> QED BY <2>1
<1>3. /\ \E x \in V : \A y \in V : x <= y
      /\ \E x \in V : \A y \in V : x >= y
  <2>1. PICK a \in S : \A x \in S : f[a] <= f[x]
    BY <1>2
  <2>2. PICK b \in S : \A x \in S : f[x] <= f[b]
    BY <1>2
  <2> HIDE DEF Good
  <2>3. f[a] \in V /\ \A y \in V : f[a] <= y
    BY <2>1
  <2>4. f[b] \in V /\ \A y \in V : f[b] >= y
    BY <2>2
  <2> QED BY <2>3, <2>4
<1>4. /\ Min(V) \in V /\ \A y \in V : Min(V) <= y
      /\ Max(V) \in V /\ \A y \in V : Max(V) >= y
  <2> HIDE DEF V
  <2> QED BY <1>3 DEF Min, Max
<1>5. V \subseteq Int /\ \A x \in S : f[x] \in V
  OBVIOUS
<1> HIDE DEF V
<1>6. \A x \in S : Min(V) <= f[x] /\ f[x] <= Max(V)
  <2> TAKE x \in S
  <2>1. f[x] \in V /\ f[x] \in Int /\ Max(V) \in Int
    BY <1>4, <1>5
  <2> QED BY <1>4, <2>1
<1> QED BY <1>4, <1>5, <1>6 DEF V

-----------------------------------------------------------------------------
(* The specification.                                                      *)

(* What is kept is what was computed from the raw values.                  *)
ScoreInv ==
    /\ normalisation \in Normalisations /\ weights \in Weights
    /\ raw \in [Metrics -> 0..MaxRaw]
    /\ normalised = [m \in Metrics |-> NormaliseMetric(normalisation[m], raw[m])]
    /\ score = WeightedScore(normalised)

(* ScoreInv holds initially and every step keeps it.                       *)
THEOREM ScoreInvHolds == Spec => []ScoreInv
<1>1. Init => ScoreInv
  <2> SUFFICES ASSUME Init PROVE ScoreInv
    OBVIOUS
  <2>1. raw \in [Metrics -> 0..MaxRaw] /\ \A m \in Metrics : raw[m] = 0
    BY ScoringAssumption DEF Init
  <2>2. normalised = [m \in Metrics |-> NormaliseMetric(normalisation[m], raw[m])]
    BY <2>1 DEF Init
  <2> QED BY <2>1, <2>2 DEF Init, ScoreInv
<1>2. ScoreInv /\ [Next]_vars => ScoreInv'
  <2> SUFFICES ASSUME ScoreInv, [Next]_vars PROVE ScoreInv'
    OBVIOUS
  <2>1. CASE UNCHANGED vars
    BY <2>1 DEF ScoreInv, vars, WeightedScore
  <2>2. ASSUME NEW m \in Metrics, ScoreAgain(m) PROVE ScoreInv'
    <3>1. raw' \in [Metrics -> 0..MaxRaw]
      BY <2>2, ScoringAssumption DEF ScoreInv, ScoreAgain
    <3> QED BY <2>2, <3>1 DEF ScoreInv, ScoreAgain, WeightedScore
  <2> QED BY <2>1, <2>2 DEF Next
<1> QED BY <1>1, <1>2, PTL DEF Spec

(* The raw values are integers, and so are the normalised ones.            *)
LEMMA ScoreFacts ==
    ASSUME ScoreInv
    PROVE  /\ \A m \in Metrics : /\ normalisation[m] \in Rules /\ raw[m] \in Int
                                 /\ normalised[m] = NormaliseMetric(normalisation[m], raw[m])
           /\ \A m \in Metrics : normalised[m] \in Int
           /\ score = Weighted(weights, normalised)
<1>1. \A m \in Metrics : /\ normalisation[m] \in Rules /\ raw[m] \in Int
                         /\ normalised[m] = NormaliseMetric(normalisation[m], raw[m])
  <2>1. normalisation \in [Metrics -> Rules]
    BY ScoringAssumption DEF ScoreInv
  <2> QED BY <2>1, ScoringAssumption DEF ScoreInv
<1>2. ASSUME NEW m \in Metrics PROVE normalised[m] \in Int
  BY <1>1, NormaliseType
<1> QED BY <1>1, <1>2 DEF ScoreInv, WeightedScore, Weighted

(* The type invariant: integers, and within the range of a rule that does  *)
(* not fall.                                                               *)
THEOREM ScoringTypes == Spec => []TypeOK
<1>1. ScoreInv => TypeOK
  <2> SUFFICES ASSUME ScoreInv PROVE TypeOK
    OBVIOUS
  <2>1. ASSUME NEW m \in Metrics, Rising(normalisation[m])
        PROVE  LET r == normalisation[m]
               IN  normalised[m] \in RoundHalfEven(r.normalised[1] * Scale, Fine) ..
                                       RoundHalfEven(r.normalised[Len(r.normalised)] * Scale, Fine)
    <3>1. PICK r, v : r = normalisation[m] /\ v = raw[m]
      OBVIOUS
    <3>2. r \in Rules /\ v \in Int /\ normalised[m] = NormaliseMetric(r, v) /\ Rising(r)
      BY <2>1, <3>1, ScoreFacts
    <3> QED BY <3>1, <3>2, NormaliseRange
  <2>2. normalised \in [Metrics -> Int]
    BY ScoreFacts DEF ScoreInv
  <2>3. score \in Int
    BY ScoreFacts, WeightedType DEF ScoreInv
  <2> QED BY <2>1, <2>2, <2>3 DEF ScoreInv, TypeOK
<1> QED BY <1>1, ScoreInvHolds, PTL

(* Every normalised value is near the exact one of its metric's rule, for  *)
(* every rule, however many cuts it has, whether or not they coincide and  *)
(* whether its values rise or fall.                                        *)
THEOREM NearReferenceHolds == Spec => []NearReference
<1>1. ScoreInv => NearReference
  <2> SUFFICES ASSUME ScoreInv, NEW m \in Metrics
               PROVE  LET ref == Reference(normalisation[m], raw[m])
                      IN  2 * Prec * AbsVal(normalised[m] * Fine * ref.den - ref.num * Scale)
                            <= (Prec * Fine + AbsVal(ref.rise) * Scale) * ref.den
    BY DEF NearReference
  <2>1. PICK r, v : r = normalisation[m] /\ v = raw[m]
    OBVIOUS
  <2>2. r \in Rules /\ v \in Int /\ normalised[m] = NormaliseMetric(r, v)
    BY <2>1, ScoreFacts
  <2> QED BY <2>1, <2>2, NormaliseNear
<1> QED BY <1>1, ScoreInvHolds, PTL

(* The score lies between the least and the greatest normalised value, if  *)
(* no weight is negative, for any rules.                                   *)
THEOREM ScoreBetweenMetricsHolds == Spec => []ScoreBetweenMetrics
<1>1. ScoreInv => ScoreBetweenMetrics
  <2> SUFFICES ASSUME ScoreInv, NoNegativeWeight
               PROVE  /\ score >= Min({normalised[m] : m \in Metrics})
                      /\ score <= Max({normalised[m] : m \in Metrics})
    BY DEF ScoreBetweenMetrics
  <2>1. PICK f : f = normalised
    OBVIOUS
  <2>2. PICK w \in Weights : w = weights
    BY DEF ScoreInv
  <2>3. (\A m \in Metrics : f[m] \in Int) /\ score = Weighted(w, f)
        /\ (\A m \in Metrics : w[m] >= 0)
    BY <2>1, <2>2, ScoreFacts DEF NoNegativeWeight
  <2>4. IsFiniteSet(Metrics) /\ Metrics # {}
    BY ScoringAssumption
  <2> DEFINE lo == Min({f[m] : m \in Metrics})
             hi == Max({f[m] : m \in Metrics})
             L == [m \in Metrics |-> lo]
             H == [m \in Metrics |-> hi]
  <2>5. lo \in Int /\ hi \in Int /\ \A m \in Metrics : lo <= f[m] /\ f[m] <= hi
    BY <2>3, <2>4, Extremes
  <2> HIDE DEF lo, hi
  <2>6. Weighted(w, L) = lo /\ Weighted(w, H) = hi
    BY <2>5, WeightedEqual
  <2>7. \A m \in Metrics : L[m] = lo /\ H[m] = hi
    OBVIOUS
  <2> HIDE DEF L, H
  <2>8. /\ \A m \in Metrics : L[m] \in Int /\ H[m] \in Int
        /\ \A m \in Metrics : L[m] <= f[m] /\ f[m] <= H[m]
    BY <2>5, <2>7
  <2>9. Weighted(w, L) <= Weighted(w, f) /\ Weighted(w, f) <= Weighted(w, H)
    BY <2>3, <2>8, WeightedMonotone
  <2>10. Weighted(w, f) \in Int
    BY <2>3, WeightedType
  <2>11. score >= lo /\ score <= hi
    BY <2>3, <2>5, <2>6, <2>9, <2>10
  <2> QED BY <2>1, <2>11 DEF lo, hi
<1> QED BY <1>1, ScoreInvHolds, PTL

(* Growing raw values never lower a normalised value whose rule does not   *)
(* fall, nor the score if no rule falls and no weight is negative.         *)
THEOREM NeverFallsHolds == Spec => NeverFalls
<1> DEFINE B == \A m \in Metrics : Rising(normalisation[m])
           A == /\ \A m \in Metrics : Rising(normalisation[m]) => normalised'[m] >= normalised[m]
                /\ NoNegativeWeight /\ B => score' >= score
<1>1. ScoreInv /\ ScoreInv' /\ [Next]_vars => [A]_vars
  <2> SUFFICES ASSUME ScoreInv, ScoreInv', NEW k \in Metrics, ScoreAgain(k) PROVE A
    BY DEF Next
  <2>1. PICK f, g, w : f = normalised /\ g = normalised' /\ w = weights
    OBVIOUS
  <2>2. /\ w \in Weights /\ weights' = w /\ normalisation' = normalisation
        /\ score = Weighted(w, f) /\ score' = Weighted(w, g)
    BY <2>1 DEF ScoreInv, ScoreAgain, WeightedScore, Weighted
  <2>3. ASSUME NEW m \in Metrics
        PROVE  f[m] \in Int /\ g[m] \in Int /\ (Rising(normalisation[m]) => f[m] <= g[m])
    <3>1. PICK r, v, u : r = normalisation[m] /\ v = raw[m] /\ u = raw'[m]
      OBVIOUS
    <3>2. v \in Int /\ u \in Int /\ v <= u
      BY <3>1, ScoringAssumption DEF ScoreInv, ScoreAgain
    <3>3. f[m] = NormaliseMetric(r, v) /\ g[m] = NormaliseMetric(r, u)
      BY <2>1, <2>2, <3>1 DEF ScoreInv
    <3>4. r \in Rules
      BY <3>1, ScoreFacts
    <3>5. Rising(r) => NormaliseMetric(r, v) <= NormaliseMetric(r, u)
      BY <3>2, <3>4, NormaliseMonotone
    <3>6. NormaliseMetric(r, v) \in Int /\ NormaliseMetric(r, u) \in Int
      BY <3>2, <3>4, NormaliseType
    <3> QED BY <3>1, <3>3, <3>5, <3>6
  <2>4. Weighted(w, f) \in Int /\ Weighted(w, g) \in Int
    BY <2>2, <2>3, WeightedType
  <2>5. ASSUME NoNegativeWeight, B PROVE Weighted(w, f) <= Weighted(w, g)
    <3>1. \A m \in Metrics : f[m] <= g[m]
      BY <2>3, <2>5
    <3>2. \A m \in Metrics : w[m] >= 0
      BY <2>1, <2>5 DEF NoNegativeWeight
    <3>3. \A m \in Metrics : f[m] \in Int /\ g[m] \in Int
      BY <2>3
    <3> QED BY <2>2, <3>1, <3>2, <3>3, WeightedMonotone
  <2> QED BY <2>1, <2>2, <2>3, <2>4, <2>5
<1> QED BY <1>1, ScoreInvHolds, PTL DEF Spec, NeverFalls

=============================================================================
