------------------------------ MODULE JitProofs ------------------------------
(***************************************************************************)
(* TLAPS proofs about the algorithms of the compiler and of its map from   *)
(* addresses to compilation units, for methods and trees of every size:    *)
(*                                                                         *)
(*   - RadixTree: what the nodes and counts of the tree are after any      *)
(*     calls, and that radix_tree_lookup_prev finds the preceding key;     *)
(*   - ControlFlow: analyze_control_flow makes the flow graph of the code; *)
(*   - LiveIntervals: the iteration of analyze_live_sets ends with the     *)
(*     exact live sets, and the intervals cover the lives of the variables;*)
(*   - PriorityQueue: inserting into a heap and removing its top;          *)
(*   - RegisterAllocation: the linear scan goes through the positions in   *)
(*     order.                                                              *)
(*                                                                         *)
(* What the recursive functions of the models compute is shown by          *)
(* induction over the numbers of rounds, in the form of sets:              *)
(* SetInduction.                                                           *)
(***************************************************************************)
EXTENDS RegisterAllocation, RadixTree, FiniteSetTheorems, SequenceTheorems,
        WellFoundedInduction, TLAPS

-----------------------------------------------------------------------------
(* Induction, largest elements and iteration                               *)

\* A set of numbers with 0 and the successor of each of its members is Nat.
LEMMA SetInduction ==
  ASSUME NEW S, 0 \in S, \A n \in Nat : n \in S => n + 1 \in S
  PROVE  \A n \in Nat : n \in S
  <1>. SUFFICES ASSUME NEW b \in Nat, b \notin S PROVE FALSE
    OBVIOUS
  <1>. DEFINE T == Nat \ S
  <1>1. PICK x \in T : \A y \in T : ~(<<y, x>> \in OpToRel(<, Nat))
    <2>1. T \subseteq Nat /\ T # {}
      OBVIOUS
    <2>. HIDE DEF T
    <2>. QED
      BY <2>1, NatLessThanWellFounded, WFMin
  <1>2. \A y \in Nat : y < x => y \in S
    BY <1>1 DEF OpToRel
  <1>3. x # 0 /\ x - 1 \in Nat /\ x - 1 < x /\ (x - 1) + 1 = x
    OBVIOUS
  <1>. QED
    BY <1>2, <1>3

\* Induction downwards: what holds at b and, with every number, at the one
\* below, holds from a to b.
LEMMA DownInduction ==
  ASSUME NEW S, NEW a \in Int, NEW b \in Int, b \in S,
         \A n \in a .. b - 1 : n + 1 \in S => n \in S
  PROVE  \A n \in a .. b : n \in S
  <1>. DEFINE T == {d \in Nat : b - d >= a => b - d \in S}
  <1>1. 0 \in T
    OBVIOUS
  <1>2. ASSUME NEW d \in Nat, d \in T PROVE d + 1 \in T
    <2>1. CASE b - (d + 1) >= a
      <3>1. b - (d + 1) \in a .. b - 1 /\ (b - (d + 1)) + 1 = b - d /\ b - d >= a
        BY <2>1
      <3>2. b - d \in S
        BY <1>2, <3>1
      <3>. QED
        BY <3>1, <3>2
    <2>. QED
      BY <2>1
  <1>. HIDE DEF T
  <1>3. \A d \in Nat : d \in T
    BY <1>1, <1>2, SetInduction
  <1>4. ASSUME NEW n \in a .. b PROVE n \in S
    <2>1. b - n \in Nat /\ b - (b - n) = n
      OBVIOUS
    <2>. QED
      BY <1>3, <2>1 DEF T
  <1>. QED
    BY <1>4

\* A set of integers with an upper bound has a largest element.
LEMMA MaxOfBounded ==
  ASSUME NEW S \in SUBSET Int, S # {}, NEW b \in Int, \A x \in S : x <= b
  PROVE  Max(S) \in S /\ \A x \in S : x <= Max(S)
  <1>. DEFINE T == {d \in Nat : b - d \in S}
  <1>1. PICK d \in T : \A e \in T : ~(<<e, d>> \in OpToRel(<, Nat))
    <2>1. PICK x \in S : TRUE
      OBVIOUS
    <2>2. b - x \in Nat /\ b - (b - x) = x
      OBVIOUS
    <2>3. T \subseteq Nat /\ T # {}
      BY <2>2
    <2>. HIDE DEF T
    <2>. QED
      BY <2>3, NatLessThanWellFounded, WFMin
  <1>2. \A x \in S : x <= b - d
    <2>. SUFFICES ASSUME NEW x \in S, x > b - d PROVE FALSE
      OBVIOUS
    <2>1. b - x \in Nat /\ b - (b - x) = x /\ b - x < d
      OBVIOUS
    <2>. QED
      BY <1>1, <2>1 DEF OpToRel
  <1>3. \E x \in S : \A y \in S : x >= y
    BY <1>2
  <1>. QED
    BY <1>3 DEF Max

\* A function applied again and again: the prefixes exist, and so does the
\* function of all numbers.
LEMMA Iteration ==
  ASSUME NEW X
  PROVE  \A x \in X : \A g \in [X -> X] :
           \E f \in [Nat -> X] : f[0] = x /\ \A n \in Nat : f[n + 1] = g[f[n]]
  <1>. SUFFICES ASSUME NEW x0 \in X, NEW g \in [X -> X]
                PROVE  \E f \in [Nat -> X] : f[0] = x0 /\ \A n \in Nat : f[n + 1] = g[f[n]]
    OBVIOUS
  <1>. DEFINE H(n) == {h \in [0 .. n -> X] :
                         h[0] = x0 /\ \A i \in 0 .. n - 1 : h[i + 1] = g[h[i]]}
              S == {n \in Nat : H(n) # {}}
  <1>1. \A n \in Nat : n \in S
    <2>1. 0 \in S
      <3>1. [i \in 0 .. 0 |-> x0] \in H(0)
        OBVIOUS
      <3>. QED
        BY <3>1
    <2>2. ASSUME NEW n \in Nat, n \in S PROVE n + 1 \in S
      <3>1. PICK h \in H(n) : TRUE
        BY <2>2
      <3>. DEFINE k == [i \in 0 .. n + 1 |-> IF i = n + 1 THEN g[h[n]] ELSE h[i]]
      <3>2. h \in [0 .. n -> X] /\ n \in 0 .. n
        OBVIOUS
      <3>3. k \in [0 .. n + 1 -> X]
        BY <3>2
      <3>4. k[0] = x0
        BY <3>2
      <3>5. ASSUME NEW i \in 0 .. (n + 1) - 1 PROVE k[i + 1] = g[k[i]]
        <4>1. CASE i = n
          BY <4>1
        <4>2. CASE i # n
          <5>1. i \in 0 .. n - 1 /\ i + 1 \in 0 .. n /\ i + 1 # n + 1
            BY <4>2
          <5>. QED
            BY <5>1
        <4>. QED
          BY <4>1, <4>2
      <3>. HIDE DEF k
      <3>. QED
        BY <3>3, <3>4, <3>5
    <2>. HIDE DEF S
    <2>. QED
      BY <2>1, <2>2, SetInduction
  <1>2. ASSUME NEW n \in Nat, NEW m \in Nat, n <= m, NEW h \in H(n), NEW k \in H(m)
        PROVE  h[n] = k[n]
    <2>. DEFINE T == {i \in Nat : i <= n => h[i] = k[i]}
    <2>1. 0 \in T
      OBVIOUS
    <2>2. ASSUME NEW i \in Nat, i \in T PROVE i + 1 \in T
      <3>. SUFFICES ASSUME i + 1 <= n PROVE h[i + 1] = k[i + 1]
        OBVIOUS
      <3>1. i \in 0 .. n - 1 /\ i \in 0 .. m - 1 /\ h[i] = k[i]
        BY <1>2, <2>2
      <3>. QED
        BY <3>1
    <2>. HIDE DEF T
    <2>3. n \in T
      BY <2>1, <2>2, SetInduction
    <2>. QED
      BY <2>3 DEF T
  <1>. DEFINE pick(n) == CHOOSE h \in H(n) : TRUE
              f == [n \in Nat |-> pick(n)[n]]
  <1>3. \A n \in Nat : pick(n) \in H(n)
    <2>1. \A n \in Nat : H(n) # {}
      BY <1>1
    <2>. HIDE DEF H
    <2>. QED
      BY <2>1
  <1>. HIDE DEF pick
  <1>4. f \in [Nat -> X] /\ f[0] = x0
    <2>1. ASSUME NEW n \in Nat PROVE pick(n)[n] \in X
      BY <1>3
    <2>2. pick(0)[0] = x0
      BY <1>3
    <2>. QED
      BY <2>1, <2>2
  <1>5. ASSUME NEW n \in Nat PROVE f[n + 1] = g[f[n]]
    <2>1. pick(n + 1) \in H(n + 1) /\ n \in 0 .. (n + 1) - 1 /\ pick(n) \in H(n)
      BY <1>3
    <2>2. pick(n + 1)[n + 1] = g[pick(n + 1)[n]]
      BY <2>1
    <2>3. pick(n)[n] = pick(n + 1)[n]
      <3>. HIDE DEF H
      <3>. QED
        BY <2>1, <1>2
    <2>. QED
      BY <2>2, <2>3
  <1>. HIDE DEF f, H
  <1>. QED
    BY <1>4, <1>5

\* g maps X to itself, and f[n] is what n applications of g make of x.
Maps(g, X) == g \in [X -> X]
Iterates(f, g, x, X) ==
  f \in [Nat -> X] /\ f[0] = x /\ \A n \in Nat : f[n + 1] = g[f[n]]

\* The same, for one start and one function
LEMMA IterationFrom ==
  ASSUME NEW X, NEW x, NEW g, x \in X, Maps(g, X)
  PROVE  \E f : Iterates(f, g, x, X)
  BY Iteration DEF Maps, Iterates

\* g takes the members of G[n - 1] to those of G[n]; f is defined by recursion
\* with g and has one of G[n] at n.
Steps(N, x, G, g) ==
  /\ N \in Nat /\ x \in G[0]
  /\ \A n \in 1 .. N : \A y \in G[n - 1] : g[<<n, y>>] \in G[n]
Recurs(f, N, x, G, g) ==
  /\ DOMAIN f = 0 .. N /\ f = [n \in 0 .. N |-> f[n]]
  /\ f[0] = x /\ \A n \in 1 .. N : f[n] = g[<<n, f[n - 1]>>]
  /\ \A n \in 0 .. N : f[n] \in G[n]

\* A function that is defined by recursion over numbers exists.
LEMMA Recursion ==
  ASSUME NEW N, NEW X, NEW x, NEW G, NEW g,
         G \in [0 .. N -> SUBSET X], Steps(N, x, G, g)
  PROVE  \E f : Recurs(f, N, x, G, g)
  <1>0. /\ N \in Nat /\ x \in G[0]
        /\ \A n \in 1 .. N : \A y \in G[n - 1] : g[<<n, y>>] \in G[n]
    BY DEF Steps
  <1>. USE <1>0
  <1>. DEFINE P == {p \in Nat \X X : p[1] <= N => p[2] \in G[p[1]]}
              h == [p \in P |-> IF p[1] + 1 <= N THEN <<p[1] + 1, g[<<p[1] + 1, p[2]>>]>>
                                ELSE <<N + 1, p[2]>>]
  <1>1. ASSUME NEW p \in P PROVE h[p] \in P
    <2>1. p \in Nat \X X /\ p = <<p[1], p[2]>> /\ p[1] \in Nat /\ p[2] \in X
      OBVIOUS
    <2>2. CASE p[1] + 1 <= N
      <3>. DEFINE m == p[1] + 1
      <3>1. m \in 1 .. N /\ m - 1 = p[1] /\ p[1] \in 0 .. N /\ m \in 0 .. N /\ m \in Nat
        BY <2>1, <2>2
      <3>2. p[2] \in G[m - 1]
        BY <3>1
      <3>3. g[<<m, p[2]>>] \in G[m] /\ G[m] \in SUBSET X
        BY <3>1, <3>2
      <3>4. h[p] = <<m, g[<<m, p[2]>>]>>
        BY <2>2
      <3>. HIDE DEF h, m
      <3>. QED
        BY <3>1, <3>3, <3>4
    <2>3. CASE ~(p[1] + 1 <= N)
      <3>1. h[p] = <<N + 1, p[2]>>
        BY <2>3
      <3>. QED
        BY <2>1, <3>1
    <2>. QED
      BY <2>2, <2>3
  <1>2. h \in [P -> P]
    BY <1>1
  <1>3. <<0, x>> \in P
    <2>1. 0 \in 0 .. N /\ G[0] \in SUBSET X
      OBVIOUS
    <2>. QED
      BY <2>1
  <1>4. PICK f \in [Nat -> P] : f[0] = <<0, x>> /\ \A n \in Nat : f[n + 1] = h[f[n]]
    <2>1. Maps(h, P)
      BY <1>2 DEF Maps
    <2>. DEFINE z == <<0, x>>
    <2>2. z \in P
      BY <1>3
    <2>. HIDE DEF P, h, z
    <2>3. \E f : Iterates(f, h, z, P)
      BY <2>1, <2>2, IterationFrom
    <2>. QED
      BY <2>3 DEF z, Iterates
  <1>5. \A n \in Nat : f[n] \in P
    BY <1>4
  <1>. DEFINE T == {n \in Nat : n <= N => f[n][1] = n}
  <1>6. \A n \in Nat : n \in T
    <2>1. 0 \in T
      BY <1>4
    <2>2. ASSUME NEW n \in Nat, n \in T PROVE n + 1 \in T
      <3>. SUFFICES ASSUME n + 1 <= N PROVE f[n + 1][1] = n + 1
        OBVIOUS
      <3>1. f[n][1] = n
        BY <2>2
      <3>2. f[n + 1] = <<f[n][1] + 1, g[<<f[n][1] + 1, f[n][2]>>]>>
        BY <1>4, <1>5, <3>1
      <3>. QED
        BY <3>1, <3>2
    <2>. HIDE DEF T
    <2>. QED
      BY <2>1, <2>2, SetInduction
  <1>7. ASSUME NEW n \in 0 .. N PROVE f[n] \in P /\ f[n][1] = n
    <2>1. n \in Nat /\ n <= N
      OBVIOUS
    <2>2. n \in T
      BY <1>6, <2>1
    <2>3. f[n] \in P
      BY <1>5, <2>1
    <2>. QED
      BY <2>1, <2>2, <2>3
  <1>. DEFINE e == [n \in 0 .. N |-> f[n][2]]
  <1>8. ASSUME NEW n \in 0 .. N PROVE e[n] \in G[n] /\ e[n] \in X
    <2>1. f[n] \in Nat \X X /\ f[n][1] <= N /\ (f[n][1] <= N => f[n][2] \in G[f[n][1]]) /\ f[n][1] = n
      BY <1>7
    <2>. QED
      BY <2>1
  <1>9. e[0] = x
    BY <1>4
  <1>10. ASSUME NEW n \in 1 .. N PROVE e[n] = g[<<n, e[n - 1]>>]
    <2>1. n - 1 \in 0 .. N /\ n - 1 \in Nat /\ (n - 1) + 1 = n /\ n <= N /\ n \in 0 .. N
      OBVIOUS
    <2>2. f[n - 1] \in P /\ f[n - 1][1] = n - 1
      BY <1>7, <2>1
    <2>3. f[n] = h[f[n - 1]]
      BY <1>4, <2>1
    <2>4. f[n] = <<n, g[<<n, f[n - 1][2]>>]>>
      BY <2>1, <2>2, <2>3
    <2>5. f[n][2] = g[<<n, f[n - 1][2]>>]
      BY <2>4
    <2>6. e[n] = f[n][2] /\ e[n - 1] = f[n - 1][2]
      BY <2>1
    <2>. QED
      BY <2>5, <2>6
  <1>12. DOMAIN e = 0 .. N /\ e = [n \in 0 .. N |-> e[n]]
    OBVIOUS
  <1>. HIDE DEF e
  <1>13. Recurs(e, N, x, G, g)
    BY <1>8, <1>9, <1>10, <1>12 DEF Recurs
  <1>. QED
    BY <1>13

\* The same for any function that satisfies the equations
LEMMA RecursionStays ==
  ASSUME NEW N \in Nat, NEW f, NEW G,
         f[0] \in G[0], \A n \in 1 .. N : f[n - 1] \in G[n - 1] => f[n] \in G[n]
  PROVE  \A n \in 0 .. N : f[n] \in G[n]
  <1>. DEFINE T == {n \in Nat : n <= N => f[n] \in G[n]}
  <1>1. 0 \in T
    OBVIOUS
  <1>2. ASSUME NEW n \in Nat, n \in T PROVE n + 1 \in T
    <2>. SUFFICES ASSUME n + 1 <= N PROVE f[n + 1] \in G[n + 1]
      OBVIOUS
    <2>1. n + 1 \in 1 .. N /\ (n + 1) - 1 = n
      OBVIOUS
    <2>. QED
      BY <1>2, <2>1
  <1>. HIDE DEF T
  <1>3. \A n \in Nat : n \in T
    BY <1>1, <1>2, SetInduction
  <1>. QED
    BY <1>3 DEF T

-----------------------------------------------------------------------------
(* Powers of two, quotients and the bits of a key                          *)

\* The equations of Pow2, which is the function that they define
LEMMA Pow2Rec ==
  /\ Pow2 \in [Nat -> Nat \ {0}] /\ Pow2[0] = 1
  /\ \A n \in Nat : Pow2[n + 1] = 2 * Pow2[n]
  <1>. DEFINE P == Nat \ {0}
              g == [x \in P |-> 2 * x]
              Eq(h) == h = [n \in Nat |-> IF n = 0 THEN 1 ELSE 2 * h[n - 1]]
  <1>1. g \in [P -> P] /\ 1 \in P
    OBVIOUS
  <1>2. PICK f \in [Nat -> P] : f[0] = 1 /\ \A n \in Nat : f[n + 1] = g[f[n]]
    <2>. HIDE DEF g, P
    <2>1. \A x \in P : \A h \in [P -> P] :
            \E f \in [Nat -> P] : f[0] = x /\ \A n \in Nat : f[n + 1] = h[f[n]]
      BY Iteration
    <2>. QED
      BY <1>1, <2>1
  <1>3. \A n \in Nat : f[n + 1] = 2 * f[n]
    BY <1>2
  <1>4. Eq(f)
    <2>1. ASSUME NEW n \in Nat, n # 0 PROVE f[n] = 2 * f[n - 1]
      <3>1. n - 1 \in Nat /\ (n - 1) + 1 = n
        BY <2>1
      <3>. QED
        BY <1>3, <3>1
    <2>. QED
      BY <1>2, <2>1
  <1>5. Eq(Pow2)
    <2>1. Pow2 = CHOOSE h : Eq(h)
      BY DEF Pow2
    <2>. HIDE DEF Eq
    <2>. QED
      BY <1>4, <2>1
  <1>6. \A n \in Nat : Pow2[n] = IF n = 0 THEN 1 ELSE 2 * Pow2[n - 1]
    BY <1>5
  <1>. DEFINE S == {n \in Nat : Pow2[n] = f[n]}
  <1>7. \A n \in Nat : n \in S
    <2>1. 0 \in S
      BY <1>6, <1>2
    <2>2. ASSUME NEW n \in Nat, n \in S PROVE n + 1 \in S
      BY <1>6, <1>3, <2>2
    <2>. HIDE DEF S
    <2>. QED
      BY <2>1, <2>2, SetInduction
  <1>8. Pow2 = f
    BY <1>5, <1>7
  <1>. QED
    BY <1>2, <1>3, <1>8

\* The power of a sum
LEMMA Pow2Sum ==
  ASSUME NEW a \in Nat, NEW b \in Nat
  PROVE  Pow2[a + b] = Pow2[a] * Pow2[b]
  <1>. DEFINE S == {n \in Nat : Pow2[a + n] = Pow2[a] * Pow2[n]}
  <1>1. 0 \in S
    BY Pow2Rec
  <1>2. ASSUME NEW n \in Nat, n \in S PROVE n + 1 \in S
    <2>1. Pow2[a + (n + 1)] = 2 * Pow2[a + n]
      <3>1. a + (n + 1) = (a + n) + 1 /\ a + n \in Nat
        OBVIOUS
      <3>. QED
        BY <3>1, Pow2Rec
    <2>2. Pow2[n + 1] = 2 * Pow2[n] /\ Pow2[a] \in Nat /\ Pow2[n] \in Nat
      BY Pow2Rec
    <2>. QED
      BY <1>2, <2>1, <2>2
  <1>. HIDE DEF S
  <1>3. b \in S
    BY <1>1, <1>2, SetInduction
  <1>. QED
    BY <1>3 DEF S

\* A quotient is where a multiple of the divisor fits below.
LEMMA Quotient ==
  ASSUME NEW k \in Nat, NEW w \in Nat \ {0}
  PROVE  /\ k \div w \in Nat
         /\ w * (k \div w) <= k /\ k < w * ((k \div w) + 1)
  OBVIOUS

\* ... and the only such number.
LEMMA QuotientUnique ==
  ASSUME NEW k \in Nat, NEW w \in Nat \ {0}, NEW q \in Nat,
         w * q <= k, k < w * (q + 1)
  PROVE  k \div w = q
  <1>. DEFINE p == k \div w
  <1>1. p \in Nat /\ w * p <= k /\ k < w * (p + 1)
    BY Quotient
  <1>. HIDE DEF p
  <1>2. w * p < w * (q + 1) /\ w * q < w * (p + 1)
    BY <1>1
  <1>3. p < q + 1 /\ q < p + 1
    BY <1>1, <1>2
  <1>. QED
    BY <1>1, <1>3 DEF p

\* What is left over is a digit.
LEMMA Remainder ==
  ASSUME NEW k \in Nat, NEW w \in Nat \ {0}
  PROVE  k % w \in 0 .. w - 1 /\ k = w * (k \div w) + (k % w)
  OBVIOUS

\* Quotients grow with the dividend.
LEMMA QuotientMonotonic ==
  ASSUME NEW j \in Nat, NEW k \in Nat, j <= k, NEW w \in Nat \ {0}
  PROVE  j \div w <= k \div w
  <1>. DEFINE p == j \div w
              q == k \div w
  <1>1. p \in Nat /\ w * p <= j /\ q \in Nat /\ k < w * (q + 1)
    BY Quotient
  <1>. HIDE DEF p, q
  <1>2. w * p < w * (q + 1)
    BY <1>1
  <1>3. p < q + 1
    BY <1>1, <1>2
  <1>. QED
    BY <1>1, <1>3 DEF p, q

\* Two shifts are one.
LEMMA QuotientTwice ==
  ASSUME NEW k \in Nat, NEW v \in Nat \ {0}, NEW w \in Nat \ {0}
  PROVE  v * w \in Nat \ {0} /\ (k \div w) \div v = k \div (v * w)
  <1>. DEFINE p == k \div w
              q == p \div v
  <1>1. p \in Nat /\ w * p <= k /\ k < w * (p + 1)
    BY Quotient
  <1>. HIDE DEF p
  <1>2. q \in Nat /\ v * q <= p /\ p < v * (q + 1)
    BY <1>1, Quotient
  <1>. HIDE DEF q
  <1>3. v * w \in Nat \ {0}
    OBVIOUS
  <1>4. w * (v * q) <= w * p /\ w * (p + 1) <= w * (v * (q + 1))
    BY <1>1, <1>2
  <1>5. (v * w) * q <= k /\ k < (v * w) * (q + 1)
    BY <1>1, <1>2, <1>4
  <1>6. k \div (v * w) = q
    BY <1>2, <1>3, <1>5, QuotientUnique
  <1>. QED
    BY <1>3, <1>6 DEF q, p

\* The bits of a key that name the node of a level on the way to it
Bits(key, level) == key \div Width(level)

\* A node has SlotCount times the keys of its children.
LEMMA WidthOK ==
  /\ SlotCount \in Nat \ {0}
  /\ \A l \in 0 .. LevelCount : Width(l) \in Nat \ {0}
  /\ Width(LevelCount) = 1
  /\ \A l \in 0 .. LevelCount - 1 : Width(l) = SlotCount * Width(l + 1)
  <1>. BitsPerLevel \in Nat /\ LevelCount \in Nat \ {0}
    BY RadixTreeAssumption
  <1>1. SlotCount \in Nat \ {0}
    BY Pow2Rec DEF SlotCount
  <1>2. \A l \in 0 .. LevelCount : BitsPerLevel * (LevelCount - l) \in Nat
    OBVIOUS
  <1>3. \A l \in 0 .. LevelCount : Width(l) \in Nat \ {0}
    BY <1>2, Pow2Rec DEF Width
  <1>4. Width(LevelCount) = 1
    <2>1. BitsPerLevel * (LevelCount - LevelCount) = 0
      OBVIOUS
    <2>. QED
      BY <2>1, Pow2Rec DEF Width
  <1>5. ASSUME NEW l \in 0 .. LevelCount - 1 PROVE Width(l) = SlotCount * Width(l + 1)
    <2>1. LevelCount - (l + 1) \in Nat /\ BitsPerLevel * (LevelCount - (l + 1)) \in Nat
      BY <1>2
    <2>2. BitsPerLevel * (LevelCount - l) =
            BitsPerLevel + BitsPerLevel * (LevelCount - (l + 1))
      OBVIOUS
    <2>. QED
      BY <2>1, <2>2, Pow2Sum DEF Width, SlotCount
  <1>. QED
    BY <1>1, <1>3, <1>4, <1>5

\* Keys are numbers, and there is at least one.
LEMMA KeysAreNumbers == AllKeys \subseteq Nat /\ 0 .. 0 \subseteq AllKeys
  BY WidthOK, RadixTreeAssumption DEF AllKeys

\* The name of the root and of the slots of the leaves
LEMMA BitsEnds ==
  ASSUME NEW k \in AllKeys
  PROVE  /\ \A l \in 0 .. LevelCount : Bits(k, l) \in Nat
         /\ Bits(k, 0) = 0 /\ Bits(k, LevelCount) = k
  <1>1. k \in Nat /\ k < Width(0) /\ Width(0) \in Nat \ {0}
    BY WidthOK, RadixTreeAssumption DEF AllKeys
  <1>2. \A l \in 0 .. LevelCount : Bits(k, l) \in Nat
    BY <1>1, WidthOK, Quotient DEF Bits
  <1>3. Bits(k, 0) = 0
    BY <1>1, QuotientUnique DEF Bits
  <1>4. Bits(k, LevelCount) = k
    BY <1>1, WidthOK, QuotientUnique DEF Bits
  <1>. QED
    BY <1>2, <1>3, <1>4

\* The slot of a node on the way to a key is the one that get_index says.
LEMMA BitsSplit ==
  ASSUME NEW k \in AllKeys, NEW l \in 0 .. LevelCount - 1
  PROVE  /\ get_index(k, l) \in 0 .. SlotCount - 1
         /\ Bits(k, l + 1) = SlotCount * Bits(k, l) + get_index(k, l)
         /\ Bits(k, l) = Bits(k, l + 1) \div SlotCount
  <1>. DEFINE p == Bits(k, l + 1)
  <1>1. k \in Nat /\ p \in Nat /\ SlotCount \in Nat \ {0} /\ Width(l + 1) \in Nat \ {0}
    BY BitsEnds, WidthOK, KeysAreNumbers, RadixTreeAssumption
  <1>2. get_index(k, l) = p % SlotCount
    BY DEF get_index, Bits
  <1>3. Bits(k, l) = p \div SlotCount
    <2>1. Width(l) = SlotCount * Width(l + 1)
      BY WidthOK
    <2>. QED
      BY <1>1, <2>1, QuotientTwice DEF Bits
  <1>. HIDE DEF p
  <1>4. p % SlotCount \in 0 .. SlotCount - 1 /\ p = SlotCount * (p \div SlotCount) + (p % SlotCount)
    BY <1>1, Remainder
  <1>5. p = SlotCount * Bits(k, l) + get_index(k, l)
    BY <1>2, <1>3, <1>4
  <1>. QED
    BY <1>2, <1>3, <1>4, <1>5 DEF p

\* The bits of a level grow with the key.
LEMMA BitsMonotonic ==
  ASSUME NEW j \in AllKeys, NEW k \in AllKeys, j <= k, NEW l \in 0 .. LevelCount
  PROVE  Bits(j, l) <= Bits(k, l)
  BY QuotientMonotonic, KeysAreNumbers, WidthOK DEF Bits

\* Keys that share a node share the nodes above it.
LEMMA BitsAbove ==
  ASSUME NEW j \in AllKeys, NEW k \in AllKeys, NEW m \in 0 .. LevelCount,
         Bits(j, m) = Bits(k, m)
  PROVE  \A l \in 0 .. m : Bits(j, l) = Bits(k, l)
  <1>. DEFINE S == {l \in Int : Bits(j, l) = Bits(k, l)}
  <1>. LevelCount \in Nat
    BY RadixTreeAssumption
  <1>1. m \in S
    OBVIOUS
  <1>2. ASSUME NEW l \in 0 .. m - 1, l + 1 \in S PROVE l \in S
    <2>1. l \in 0 .. LevelCount - 1 /\ l \in 0 .. LevelCount
      OBVIOUS
    <2>. QED
      BY <1>2, <2>1, BitsSplit
  <1>. HIDE DEF S
  <1>3. \A l \in 0 .. m : l \in S
    BY <1>1, <1>2, DownInduction
  <1>. QED
    BY <1>3 DEF S

\* What is below a slot of a node is below the node.
LEMMA BitsJoin ==
  ASSUME NEW k \in AllKeys, NEW l \in 0 .. LevelCount - 1, NEW p \in Nat,
         NEW i \in 0 .. SlotCount - 1, Bits(k, l + 1) = SlotCount * p + i
  PROVE  Bits(k, l) = p /\ get_index(k, l) = i
  <1>. DEFINE q == Bits(k, l + 1)
  <1>1. SlotCount \in Nat \ {0} /\ q \in Nat
    BY WidthOK, BitsEnds, RadixTreeAssumption
  <1>2. q = SlotCount * p + i /\ Bits(k, l) = q \div SlotCount
    BY BitsSplit
  <1>. HIDE DEF q
  <1>3. SlotCount * p <= q /\ q < SlotCount * (p + 1)
    BY <1>1, <1>2
  <1>4. q \div SlotCount = p
    BY <1>1, <1>3, QuotientUnique
  <1>5. SlotCount * p + i = SlotCount * p + get_index(k, l)
    BY <1>2, <1>4, BitsSplit DEF q
  <1>6. SlotCount * p \in Nat /\ get_index(k, l) \in Nat /\ i \in Nat
    BY <1>1, BitsSplit
  <1>. QED
    BY <1>2, <1>4, <1>5, <1>6

\* Of two keys below a node the smaller one is not to the right.
LEMMA IndexMonotonic ==
  ASSUME NEW j \in AllKeys, NEW k \in AllKeys, j <= k, NEW l \in 0 .. LevelCount - 1,
         Bits(j, l) = Bits(k, l)
  PROVE  get_index(j, l) <= get_index(k, l)
  <1>1. l + 1 \in 0 .. LevelCount /\ l \in 0 .. LevelCount
    BY RadixTreeAssumption
  <1>2. Bits(j, l + 1) <= Bits(k, l + 1)
    BY <1>1, BitsMonotonic
  <1>3. SlotCount * Bits(k, l) + get_index(j, l) <= SlotCount * Bits(k, l) + get_index(k, l)
    BY <1>2, BitsSplit
  <1>4. SlotCount * Bits(k, l) \in Nat /\ get_index(j, l) \in Nat /\ get_index(k, l) \in Nat
    BY <1>1, BitsSplit, BitsEnds, WidthOK
  <1>. QED
    BY <1>3, <1>4

\* Every slot of a leaf belongs to a key.
LEMMA SlotsAreKeys ==
  ASSUME NEW k \in AllKeys, NEW i \in 0 .. SlotCount - 1
  PROVE  SlotCount * Bits(k, LevelCount - 1) + i \in AllKeys
  <1>. DEFINE p == Bits(k, LevelCount - 1)
              e == BitsPerLevel * (LevelCount - 1)
              w == Pow2[e]
  <1>0. BitsPerLevel \in Nat /\ LevelCount \in Nat \ {0} /\ e \in Nat
    BY RadixTreeAssumption
  <1>1. SlotCount \in Nat \ {0} /\ p \in Nat /\ w \in Nat \ {0} /\ k \in Nat /\ Width(0) \in Nat
    <2>1. w \in Nat \ {0}
      <3>. HIDE DEF e
      <3>. QED
        BY <1>0, Pow2Rec
    <2>2. SlotCount \in Nat \ {0} /\ p \in Nat /\ k \in Nat /\ Width(0) \in Nat
      <3>1. LevelCount - 1 \in 0 .. LevelCount /\ 0 \in 0 .. LevelCount
        BY <1>0
      <3>. QED
        BY <3>1, WidthOK, BitsEnds, KeysAreNumbers
    <2>. QED
      BY <2>1, <2>2
  <1>2. Width(0) = SlotCount * w
    <2>1. BitsPerLevel * (LevelCount - 0) = BitsPerLevel + e
      BY <1>0
    <2>. HIDE DEF e
    <2>. QED
      BY <1>0, <2>1, Pow2Sum DEF Width, SlotCount
  <1>3. SlotCount * p <= k
    <2>1. Width(LevelCount - 1) = SlotCount
      <3>1. LevelCount - 1 \in 0 .. LevelCount - 1 /\ (LevelCount - 1) + 1 = LevelCount
        BY <1>0
      <3>2. Width(LevelCount - 1) = SlotCount * Width((LevelCount - 1) + 1)
        BY <3>1, WidthOK
      <3>. QED
        BY <3>1, <3>2, WidthOK
    <2>. QED
      BY <1>1, <2>1, Quotient DEF Bits
  <1>4. k < SlotCount * w
    <2>. HIDE DEF w
    <2>. QED
      BY <1>1, <1>2 DEF AllKeys
  <1>. HIDE DEF p, w
  <1>5. p < w
    BY <1>1, <1>3, <1>4
  <1>6. SlotCount * (p + 1) <= SlotCount * w
    BY <1>1, <1>5
  <1>7. SlotCount * p + i \in Nat /\ SlotCount * p + i < SlotCount * w
    BY <1>1, <1>6
  <1>. QED
    BY <1>1, <1>2, <1>7 DEF AllKeys, p

-----------------------------------------------------------------------------
(* The inductive invariant                                                 *)

Mapped == {k \in AllKeys : map[k] # NoValue}

\* A mapped key is below the node of these bits.
Has(level, bits) == \E k \in Mapped : Bits(k, level) = bits

\* The slots of a node that have mapped keys below them
Used(n) == {i \in 0 .. SlotCount - 1 : Has(n[1] + 1, SlotCount * n[2] + i)}

\* The nodes are the root and the ones on the way to mapped keys.
NodesAreWays ==
  nodes = {Root} \cup {Path(k, l) : k \in Mapped, l \in 1 .. LevelCount - 1}

\* Only a leaf with overwritten keys has a count that is too large.
Overcounted(n) == \E k \in over : Leaf(k) = n

CountsAreUsed ==
  \A n \in nodes :
    /\ count[n] >= Cardinality(Used(n))
    /\ ~Overcounted(n) => count[n] = Cardinality(Used(n))

TreeInv ==
  /\ map \in [AllKeys -> Values \cup {NoValue}]
  /\ slot = map
  /\ over \subseteq Mapped
  /\ NodesAreWays
  /\ count \in [nodes -> Nat]
  /\ CountsAreUsed

-----------------------------------------------------------------------------
(* What the invariant says of a node                                       *)

\* The levels of the tree, and those one below
LEMMA LevelsAreNumbers ==
  /\ LevelCount \in Nat \ {0} /\ SlotCount \in Nat \ {0}
  /\ 0 \in 0 .. LevelCount - 1 /\ LevelCount - 1 \in 0 .. LevelCount - 1
  /\ \A l \in 0 .. LevelCount - 1 :
       l \in Nat /\ l \in 0 .. LevelCount /\ l + 1 \in 0 .. LevelCount
  BY RadixTreeAssumption, WidthOK

\* The slots of a node are finitely many.
LEMMA UsedIsFinite ==
  ASSUME NEW n
  PROVE  IsFiniteSet(Used(n)) /\ Cardinality(Used(n)) \in Nat
  <1>1. Used(n) \subseteq 0 .. SlotCount - 1
    BY DEF Used
  <1>2. IsFiniteSet(0 .. SlotCount - 1)
    BY FS_Interval, LevelsAreNumbers
  <1>3. IsFiniteSet(Used(n))
    BY <1>1, <1>2, FS_Subset
  <1>. QED
    BY <1>3, FS_CardinalityType

\* The way to a key starts at the root, and goes on in the slots that get_index
\* names.
LEMMA PathSteps ==
  ASSUME NEW k \in AllKeys
  PROVE  /\ Path(k, 0) = Root
         /\ \A l \in 0 .. LevelCount - 1 :
              /\ Path(k, l + 1) = Child(Path(k, l), get_index(k, l))
              /\ Parent(Path(k, l + 1)) = Path(k, l)
  <1>1. Path(k, 0) = Root
    BY BitsEnds DEF Path, Root, Bits
  <1>2. ASSUME NEW l \in 0 .. LevelCount - 1
        PROVE  /\ Path(k, l + 1) = Child(Path(k, l), get_index(k, l))
               /\ Parent(Path(k, l + 1)) = Path(k, l)
    <2>1. Path(k, l + 1) = <<l + 1, Bits(k, l + 1)>> /\ Path(k, l) = <<l, Bits(k, l)>>
      BY DEF Path, Bits
    <2>2. Bits(k, l + 1) = SlotCount * Bits(k, l) + get_index(k, l)
      BY BitsSplit
    <2>3. Bits(k, l) = Bits(k, l + 1) \div SlotCount /\ (l + 1) - 1 = l
      BY BitsSplit
    <2>. QED
      BY <2>1, <2>2, <2>3 DEF Child, Parent
  <1>. QED
    BY <1>1, <1>2

\* The nodes, told by the keys below them
LEMMA NodesHave ==
  ASSUME NodesAreWays
  PROVE  /\ Root \in nodes
         /\ \A l \in 1 .. LevelCount - 1 : \A p : <<l, p>> \in nodes <=> Has(l, p)
         /\ \A k \in Mapped : \A l \in 0 .. LevelCount - 1 : Path(k, l) \in nodes
         /\ \A n \in nodes : \E k \in AllKeys : \E l \in 0 .. LevelCount - 1 : n = Path(k, l)
  <1>1. Root \in nodes
    BY DEF NodesAreWays
  <1>2. ASSUME NEW l \in 1 .. LevelCount - 1, NEW p
        PROVE  <<l, p>> \in nodes <=> Has(l, p)
    <2>1. <<l, p>> # Root
      BY DEF Root
    <2>2. ASSUME <<l, p>> \in nodes PROVE Has(l, p)
      <3>1. PICK k \in Mapped, m \in 1 .. LevelCount - 1 : <<l, p>> = Path(k, m)
        BY <2>1, <2>2 DEF NodesAreWays
      <3>. QED
        BY <3>1 DEF Has, Path, Bits
    <2>3. ASSUME Has(l, p) PROVE <<l, p>> \in nodes
      <3>1. PICK k \in Mapped : Bits(k, l) = p
        BY <2>3 DEF Has
      <3>2. Path(k, l) = <<l, p>>
        BY <3>1 DEF Path, Bits
      <3>. QED
        BY <3>2 DEF NodesAreWays
    <2>. QED
      BY <2>2, <2>3
  <1>3. ASSUME NEW k \in Mapped, NEW l \in 0 .. LevelCount - 1 PROVE Path(k, l) \in nodes
    <2>1. CASE l = 0
      BY <2>1, <1>1, PathSteps DEF Mapped
    <2>2. CASE l # 0
      BY <2>2, LevelsAreNumbers DEF NodesAreWays
    <2>. QED
      BY <2>1, <2>2
  <1>4. ASSUME NEW n \in nodes
        PROVE  \E k \in AllKeys : \E l \in 0 .. LevelCount - 1 : n = Path(k, l)
    <2>1. CASE n = Root
      BY <2>1, PathSteps, KeysAreNumbers, LevelsAreNumbers
    <2>2. CASE n # Root
      <3>1. PICK k \in Mapped, l \in 1 .. LevelCount - 1 : n = Path(k, l)
        BY <2>2 DEF NodesAreWays
      <3>2. k \in AllKeys /\ l \in 0 .. LevelCount - 1
        BY LevelsAreNumbers DEF Mapped
      <3>. QED
        BY <3>1, <3>2
    <2>. QED
      BY <2>1, <2>2
  <1>. QED
    BY <1>1, <1>2, <1>3, <1>4

\* What is used of a node of the way to a key
LEMMA UsedOf ==
  ASSUME NEW k \in AllKeys, NEW l \in 0 .. LevelCount - 1
  PROVE  /\ Used(Path(k, l)) =
              {i \in 0 .. SlotCount - 1 : Has(l + 1, SlotCount * Bits(k, l) + i)}
         /\ get_index(k, l) \in Used(Path(k, l)) <=> Has(l + 1, Bits(k, l + 1))
         /\ \A m \in Mapped : Bits(m, l) = Bits(k, l) => get_index(m, l) \in Used(Path(k, l))
         /\ \A i \in Used(Path(k, l)) :
              \E m \in Mapped : Bits(m, l) = Bits(k, l) /\ get_index(m, l) = i
  <1>1. Path(k, l)[1] = l /\ Path(k, l)[2] = Bits(k, l)
    BY DEF Path, Bits
  <1>2. Used(Path(k, l)) =
          {i \in 0 .. SlotCount - 1 : Has(l + 1, SlotCount * Bits(k, l) + i)}
    BY <1>1 DEF Used
  <1>3. get_index(k, l) \in Used(Path(k, l)) <=> Has(l + 1, Bits(k, l + 1))
    BY <1>2, BitsSplit
  <1>4. ASSUME NEW m \in Mapped, Bits(m, l) = Bits(k, l)
        PROVE  get_index(m, l) \in Used(Path(k, l))
    <2>1. m \in AllKeys
      BY DEF Mapped
    <2>2. Bits(m, l + 1) = SlotCount * Bits(k, l) + get_index(m, l)
      BY <1>4, <2>1, BitsSplit
    <2>3. Has(l + 1, SlotCount * Bits(k, l) + get_index(m, l))
      BY <2>2 DEF Has
    <2>. QED
      BY <1>2, <2>1, <2>3, BitsSplit
  <1>5. ASSUME NEW i \in Used(Path(k, l))
        PROVE  \E m \in Mapped : Bits(m, l) = Bits(k, l) /\ get_index(m, l) = i
    <2>1. i \in 0 .. SlotCount - 1
      BY <1>2
    <2>2. PICK m \in Mapped : Bits(m, l + 1) = SlotCount * Bits(k, l) + i
      BY <1>2 DEF Has
    <2>3. m \in AllKeys /\ Bits(k, l) \in Nat
      BY BitsEnds, LevelsAreNumbers DEF Mapped
    <2>. QED
      BY <2>1, <2>2, <2>3, BitsJoin
  <1>. QED
    BY <1>2, <1>3, <1>4, <1>5

\* In the empty tree nothing is used.
LEMMA TreeStart ==
  ASSUME TreeInit
  PROVE  TreeInv
  <1>1. Mapped = {} /\ slot = map /\ map \in [AllKeys -> Values \cup {NoValue}]
    BY DEF TreeInit, Mapped
  <1>2. Used(Root) = {}
    BY <1>1 DEF Used, Has
  <1>3. Cardinality({}) = 0
    BY FS_EmptySet
  <1>. QED
    BY <1>1, <1>2, <1>3 DEF TreeInit, TreeInv, NodesAreWays, CountsAreUsed

-----------------------------------------------------------------------------
(* radix_tree_insert                                                       *)

\* After an insertion the key is below the nodes on the way to it.
LEMMA InsertHas ==
  ASSUME TreeInv, NEW key \in AllKeys, NEW value \in Values, radix_tree_insert(key, value)
  PROVE  /\ Mapped' = Mapped \cup {key}
         /\ \A l, p : Has(l, p)' <=> Has(l, p) \/ p = Bits(key, l)
  <1>1. map' = [map EXCEPT ![key] = value] /\ value # NoValue
    BY RadixTreeAssumption DEF radix_tree_insert
  <1>2. Mapped' = Mapped \cup {key}
    BY <1>1 DEF TreeInv, Mapped
  <1>. QED
    BY <1>2 DEF Has

\* An insertion fills in one slot of every node on its way, and no others.
LEMMA InsertUsed ==
  ASSUME TreeInv, NEW key \in AllKeys, NEW value \in Values, radix_tree_insert(key, value),
         NEW k \in AllKeys, NEW l \in 0 .. LevelCount - 1
  PROVE  /\ Bits(k, l) = Bits(key, l) =>
              Used(Path(k, l))' = Used(Path(k, l)) \cup {get_index(key, l)}
         /\ Bits(k, l) # Bits(key, l) => Used(Path(k, l))' = Used(Path(k, l))
  <1>1. Path(k, l)[1] = l /\ Path(k, l)[2] = Bits(k, l)
    BY DEF Path, Bits
  <1>2. Used(Path(k, l))' =
          {i \in 0 .. SlotCount - 1 : Has(l + 1, SlotCount * Bits(k, l) + i)'}
    BY <1>1 DEF Used
  <1>3. \A i \in 0 .. SlotCount - 1 :
          SlotCount * Bits(k, l) + i = Bits(key, l + 1)
            <=> Bits(k, l) = Bits(key, l) /\ i = get_index(key, l)
    <2>. SUFFICES ASSUME NEW i \in 0 .. SlotCount - 1
                  PROVE  SlotCount * Bits(k, l) + i = Bits(key, l + 1)
                           <=> Bits(k, l) = Bits(key, l) /\ i = get_index(key, l)
      OBVIOUS
    <2>1. Bits(k, l) \in Nat
      BY BitsEnds, LevelsAreNumbers
    <2>. QED
      BY <2>1, BitsJoin, BitsSplit
  <1>4. \A i \in 0 .. SlotCount - 1 :
          Has(l + 1, SlotCount * Bits(k, l) + i)' <=>
            \/ Has(l + 1, SlotCount * Bits(k, l) + i)
            \/ Bits(k, l) = Bits(key, l) /\ i = get_index(key, l)
    BY <1>3, InsertHas
  <1>5. Used(Path(k, l)) =
          {i \in 0 .. SlotCount - 1 : Has(l + 1, SlotCount * Bits(k, l) + i)}
    BY UsedOf
  <1>6. get_index(key, l) \in 0 .. SlotCount - 1
    BY BitsSplit
  <1>. HIDE DEF Has
  <1>. QED
    BY <1>2, <1>4, <1>5, <1>6

\* The nodes that are allocated
LEMMA InsertNodes ==
  ASSUME TreeInv, NEW key \in AllKeys, NEW value \in Values, radix_tree_insert(key, value)
  PROVE  /\ NodesAreWays'
         /\ nodes' = nodes \cup {Path(key, l) : l \in 0 .. LevelCount - 1}
         /\ Leaf(key) \in nodes'
  <1>1. nodes' = nodes \cup Inner(key)
    BY DEF radix_tree_insert, Missing
  <1>2. Mapped' = Mapped \cup {key}
    BY InsertHas
  <1>3. NodesAreWays'
    <2>1. NodesAreWays' <=>
            nodes' = {Root} \cup {Path(k, l) : k \in Mapped', l \in 1 .. LevelCount - 1}
      BY DEF NodesAreWays, Path, Width, Root
    <2>. QED
      BY <1>1, <1>2, <2>1 DEF TreeInv, NodesAreWays, Inner
  <1>4. nodes' = nodes \cup {Path(key, l) : l \in 0 .. LevelCount - 1}
    <2>1. Path(key, 0) = Root /\ Root \in nodes
      BY PathSteps, NodesHave DEF TreeInv
    <2>2. 0 .. LevelCount - 1 = {0} \cup 1 .. LevelCount - 1
      BY LevelsAreNumbers
    <2>. QED
      BY <1>1, <2>1, <2>2 DEF Inner
  <1>. QED
    BY <1>3, <1>4, LevelsAreNumbers DEF Leaf

\* The counts after an insertion
LEMMA InsertCounts ==
  ASSUME TreeInv, NEW key \in AllKeys, NEW value \in Values, radix_tree_insert(key, value),
         NEW n \in nodes'
  PROVE  count'[n] = (IF n \in nodes THEN count[n] ELSE 0)
                       + (IF n = Leaf(key) \/ \E m \in Missing(key) : Parent(m) = n
                            THEN 1 ELSE 0)
  <1>. DEFINE old == IF n \in nodes THEN count[n] ELSE 0
              hung == \E m \in Missing(key) : Parent(m) = n
  <1>1. count' = [CountWith(Missing(key)) EXCEPT ![Leaf(key)] = @ + 1]
        /\ nodes' = nodes \cup Missing(key) /\ Leaf(key) \in nodes'
    BY InsertNodes DEF radix_tree_insert
  <1>2. CountWith(Missing(key))[n] = old + (IF hung THEN 1 ELSE 0)
        /\ DOMAIN CountWith(Missing(key)) = nodes'
    BY <1>1 DEF CountWith
  <1>3. old \in Nat
    BY DEF TreeInv
  <1>4. n = Leaf(key) => ~hung
    <2>. SUFFICES ASSUME n = Leaf(key), NEW m \in Missing(key), Parent(m) = n PROVE FALSE
      OBVIOUS
    <2>1. PICK l \in 1 .. LevelCount - 1 : m = Path(key, l)
      BY DEF Missing, Inner
    <2>2. Parent(m)[1] = l - 1 /\ n[1] = LevelCount - 1
      BY <2>1 DEF Parent, Path, Leaf
    <2>. QED
      BY <2>1, <2>2, LevelsAreNumbers
  <1>. HIDE DEF old, hung
  <1>5. count'[n] = old + (IF n = Leaf(key) \/ hung THEN 1 ELSE 0)
    <2>1. CASE n = Leaf(key)
      <3>1. CountWith(Missing(key))[n] = old
        BY <1>2, <1>3, <1>4, <2>1
      <3>. QED
        BY <1>1, <1>2, <2>1, <3>1
    <2>2. CASE n # Leaf(key)
      BY <1>1, <1>2, <2>2
    <2>. QED
      BY <2>1, <2>2
  <1>. QED
    BY <1>5 DEF old, hung

\* An insertion counts a slot exactly when it fills it, but for the slot of a
\* key that it overwrites.
LEMMA InsertCountsUsed ==
  ASSUME TreeInv, NEW key \in AllKeys, NEW value \in Values, radix_tree_insert(key, value)
  PROVE  CountsAreUsed' /\ count' \in [nodes' -> Nat]
  <1>. DEFINE old(n) == IF n \in nodes THEN count[n] ELSE 0
              hung(n) == \E m \in Missing(key) : Parent(m) = n
  <1>1. \A n \in nodes' : old(n) \in Nat
    BY DEF TreeInv
  <1>2. \A n \in nodes' :
          count'[n] = old(n) + (IF n = Leaf(key) \/ hung(n) THEN 1 ELSE 0)
    BY InsertCounts
  <1>3. count' \in [nodes' -> Nat]
    <2>1. count' = [n \in nodes' |-> count'[n]]
      BY DEF radix_tree_insert, CountWith
    <2>2. \A n \in nodes' : count'[n] \in Nat
      <3>. HIDE DEF old, hung
      <3>. QED
        BY <1>1, <1>2
    <2>. QED
      BY <2>1, <2>2
  <1>4. over \subseteq over' /\ (map[key] = NoValue => over' = over)
        /\ (map[key] # NoValue => key \in over')
    BY DEF radix_tree_insert
  <1>5. \A n \in nodes' : Overcounted(n) => Overcounted(n)'
    BY <1>4 DEF Overcounted, Leaf, Path, Width
  <1>6. ASSUME NEW n \in nodes'
        PROVE  /\ count'[n] >= Cardinality(Used(n)')
               /\ ~Overcounted(n)' => count'[n] = Cardinality(Used(n)')
    <2>1. PICK k \in AllKeys, l \in 0 .. LevelCount - 1 : n = Path(k, l)
      <3>1. CASE n \in nodes
        BY <3>1, NodesHave DEF TreeInv
      <3>2. CASE n \notin nodes
        BY <3>2, InsertNodes
      <3>. QED
        BY <3>1, <3>2
    <2>2. /\ old(n) >= Cardinality(Used(n))
          /\ ~Overcounted(n) => old(n) = Cardinality(Used(n))
      <3>1. CASE n \in nodes
        BY <3>1 DEF TreeInv, CountsAreUsed
      <3>2. CASE n \notin nodes
        <4>1. l \in 1 .. LevelCount - 1
          BY <2>1, <3>2, NodesHave, PathSteps, LevelsAreNumbers DEF TreeInv
        <4>2. ~Has(l, Bits(k, l))
          BY <2>1, <3>2, <4>1, NodesHave DEF TreeInv, Path, Bits
        <4>3. Used(n) = {}
          BY <2>1, <4>2, UsedOf DEF Has
        <4>. QED
          BY <3>2, <4>3, FS_EmptySet
      <3>. QED
        BY <3>1, <3>2
    <2>3. old(n) \in Nat /\ IsFiniteSet(Used(n)) /\ Cardinality(Used(n)) \in Nat
      BY <1>1, UsedIsFinite
    <2>4. CASE Bits(k, l) # Bits(key, l)
      <3>1. Used(n)' = Used(n)
        BY <2>1, <2>4, InsertUsed
      <3>2. n # Leaf(key) /\ ~hung(n)
        <4>1. n # Leaf(key)
          BY <2>1, <2>4, LevelsAreNumbers DEF Leaf, Path, Bits
        <4>2. ASSUME NEW m \in Missing(key), Parent(m) = n PROVE FALSE
          <5>1. PICK j \in 1 .. LevelCount - 1 : m = Path(key, j)
            BY DEF Missing, Inner
          <5>2. j - 1 \in 0 .. LevelCount - 1 /\ (j - 1) + 1 = j
            BY LevelsAreNumbers
          <5>3. Parent(m) = Path(key, j - 1)
            BY <5>1, <5>2, PathSteps
          <5>. QED
            BY <2>1, <2>4, <4>2, <5>3 DEF Path, Bits
        <4>. QED
          BY <4>1, <4>2
      <3>3. count'[n] = old(n)
        <4>. HIDE DEF old, hung
        <4>. QED
          BY <1>2, <2>3, <3>2
      <3>. HIDE DEF old, hung
      <3>. QED
        BY <1>5, <2>2, <3>1, <3>3
    <2>5. CASE Bits(k, l) = Bits(key, l)
      <3>1. n = Path(key, l)
        BY <2>1, <2>5 DEF Path, Bits
      <3>2. Used(n)' = Used(n) \cup {get_index(key, l)}
        BY <2>1, <2>5, InsertUsed
      <3>3. get_index(key, l) \in Used(n) <=> Has(l + 1, Bits(key, l + 1))
        BY <3>1, UsedOf
      <3>4. Cardinality(Used(n)') = IF get_index(key, l) \in Used(n)
                                      THEN Cardinality(Used(n)) ELSE Cardinality(Used(n)) + 1
        <4>1. CASE get_index(key, l) \in Used(n)
          <5>1. Used(n)' = Used(n)
            BY <3>2, <4>1
          <5>. QED
            BY <4>1, <5>1
        <4>2. CASE get_index(key, l) \notin Used(n)
          BY <2>3, <3>2, <4>2, FS_AddElement
        <4>. QED
          BY <4>1, <4>2
      <3>5. CASE l < LevelCount - 1
        <4>1. n # Leaf(key)
          BY <3>1, <3>5, LevelsAreNumbers DEF Leaf, Path
        <4>2. l + 1 \in 1 .. LevelCount - 1
          BY <3>5, LevelsAreNumbers
        <4>3. hung(n) <=> ~Has(l + 1, Bits(key, l + 1))
          <5>1. Path(key, l + 1) \in nodes <=> Has(l + 1, Bits(key, l + 1))
            BY <4>2, NodesHave DEF TreeInv, Path, Bits
          <5>2. Path(key, l + 1) \in Inner(key)
            BY <4>2 DEF Inner
          <5>3. Parent(Path(key, l + 1)) = n
            BY <3>1, PathSteps
          <5>4. ASSUME NEW m \in Missing(key), Parent(m) = n PROVE m = Path(key, l + 1)
            <6>1. PICK j \in 1 .. LevelCount - 1 : m = Path(key, j)
              BY DEF Missing, Inner
            <6>2. Parent(m)[1] = j - 1 /\ n[1] = l
              BY <3>1, <6>1 DEF Parent, Path
            <6>. QED
              BY <5>4, <6>1, <6>2, LevelsAreNumbers
          <5>. QED
            BY <5>1, <5>2, <5>3, <5>4 DEF Missing
        <4>4. count'[n] = old(n) + (IF get_index(key, l) \in Used(n) THEN 0 ELSE 1)
          <5>1. hung(n) <=> get_index(key, l) \notin Used(n)
            BY <3>3, <4>3
          <5>. HIDE DEF old, hung
          <5>. QED
            BY <1>2, <2>3, <4>1, <5>1
        <4>. HIDE DEF old, hung
        <4>. QED
          BY <1>5, <2>2, <2>3, <3>4, <4>4
      <3>6. CASE l = LevelCount - 1
        <4>1. n = Leaf(key)
          BY <3>1, <3>6 DEF Leaf
        <4>2. count'[n] = old(n) + 1
          <5>. HIDE DEF old, hung
          <5>. QED
            BY <1>2, <4>1
        <4>3. get_index(key, l) \in Used(n) <=> map[key] # NoValue
          <5>1. l + 1 = LevelCount
            BY <3>6, LevelsAreNumbers
          <5>2. Has(LevelCount, Bits(key, LevelCount)) <=> key \in Mapped
            BY BitsEnds DEF Has, Mapped
          <5>. QED
            BY <3>3, <5>1, <5>2 DEF Mapped
        <4>4. CASE map[key] = NoValue
          <5>. HIDE DEF old, hung
          <5>. QED
            BY <1>5, <2>2, <2>3, <3>4, <4>2, <4>3, <4>4
        <4>5. CASE map[key] # NoValue
          <5>1. Overcounted(n)'
            BY <1>4, <4>1, <4>5 DEF Overcounted, Leaf, Path, Width
          <5>. HIDE DEF old, hung
          <5>. QED
            BY <2>2, <2>3, <3>4, <4>2, <4>3, <4>5, <5>1
        <4>. QED
          BY <4>4, <4>5
      <3>. QED
        BY <3>5, <3>6, LevelsAreNumbers
    <2>. QED
      BY <2>4, <2>5
  <1>7. CountsAreUsed' <=>
          \A n \in nodes' : /\ count'[n] >= Cardinality(Used(n)')
                            /\ ~Overcounted(n)' => count'[n] = Cardinality(Used(n)')
    BY DEF CountsAreUsed
  <1>. QED
    BY <1>3, <1>6, <1>7

\* An insertion keeps the invariant.
LEMMA InsertKeeps ==
  ASSUME TreeInv, NEW key \in AllKeys, NEW value \in Values, radix_tree_insert(key, value)
  PROVE  TreeInv'
  <1>1. map' \in [AllKeys -> Values \cup {NoValue}] /\ slot' = map'
    BY DEF TreeInv, radix_tree_insert, AllKeys
  <1>2. over' \subseteq Mapped'
    BY InsertHas DEF TreeInv, radix_tree_insert
  <1>. QED
    BY <1>1, <1>2, InsertNodes, InsertCountsUsed DEF TreeInv, AllKeys, Width

\* When the first allocation fails nothing has changed.
LEMMA InsertFailsKeeps ==
  ASSUME TreeInv, NEW key \in AllKeys, InsertFails(key, 0)
  PROVE  UNCHANGED treeVars
  <1>. DEFINE below(n) == {m \in Missing(key) : m[1] < n[1]}
              new == {n \in Missing(key) : Cardinality(below(n)) < 0}
  <1>1. nodes' = nodes \cup new /\ count' = CountWith(new) /\ UNCHANGED <<slot, map, over>>
    BY DEF InsertFails
  <1>2. new = {}
    <2>1. IsFiniteSet(Inner(key))
      <3>1. IsFiniteSet(1 .. LevelCount - 1)
        BY FS_Interval, LevelsAreNumbers
      <3>. DEFINE f == [l \in 1 .. LevelCount - 1 |-> Path(key, l)]
      <3>2. Inner(key) = {f[l] : l \in 1 .. LevelCount - 1}
        BY DEF Inner
      <3>3. f \in Surjection(1 .. LevelCount - 1, Inner(key))
        BY <3>2 DEF Surjection
      <3>. HIDE DEF f
      <3>. QED
        BY <3>1, <3>3, FS_Surjection
    <2>2. ASSUME NEW n PROVE Cardinality(below(n)) \in Nat
      <3>1. below(n) \subseteq Inner(key)
        BY DEF Missing
      <3>. HIDE DEF below
      <3>2. IsFiniteSet(below(n))
        BY <2>1, <3>1, FS_Subset
      <3>. QED
        BY <3>2, FS_CardinalityType
    <2>. HIDE DEF below
    <2>. QED
      BY <2>2
  <1>. HIDE DEF new
  <1>3. CountWith(new) = count
    <2>1. CountWith(new) = [n \in nodes |-> count[n]]
      <3>1. \A n \in nodes : count[n] + 0 = count[n]
        BY DEF TreeInv
      <3>. QED
        BY <1>2, <3>1 DEF CountWith
    <2>. QED
      BY <2>1 DEF TreeInv
  <1>. QED
    BY <1>1, <1>2, <1>3 DEF treeVars

-----------------------------------------------------------------------------
(* radix_tree_remove                                                       *)

\* A slot is used by a key, and by others if it is counted twice.
LEMMA OneElement ==
  ASSUME NEW S, IsFiniteSet(S), NEW x \in S
  PROVE  /\ Cardinality(S) \in Nat /\ Cardinality(S) >= 1
         /\ Cardinality(S \ {x}) = Cardinality(S) - 1 /\ IsFiniteSet(S \ {x})
         /\ Cardinality(S) = 1 <=> S = {x}
  <1>1. Cardinality(S) \in Nat /\ IsFiniteSet(S \ {x}) /\ Cardinality(S \ {x}) = Cardinality(S) - 1
    BY FS_RemoveElement, FS_CardinalityType
  <1>2. Cardinality(S \ {x}) \in Nat
    BY <1>1, FS_CardinalityType
  <1>3. Cardinality(S \ {x}) = 0 <=> S \ {x} = {}
    BY <1>1, FS_EmptySet
  <1>. QED
    BY <1>1, <1>2, <1>3

\* The level that is kept is a level, and the nodes below it hold one slot each.
LEMMA KeptLevel ==
  ASSUME NEW key
  PROVE  /\ Kept(key) \in 0 .. LevelCount - 1
         /\ Kept(key) = 0 \/ count[Path(key, Kept(key))] # 1
         /\ \A l \in Kept(key) + 1 .. LevelCount - 1 : count[Path(key, l)] = 1
  <1>. DEFINE S == {l \in 0 .. LevelCount - 1 : l = 0 \/ count[Path(key, l)] # 1}
  <1>1. S \in SUBSET Int /\ 0 \in S /\ \A l \in S : l <= LevelCount - 1
    BY LevelsAreNumbers
  <1>2. Kept(key) = Max(S)
    BY DEF Kept
  <1>3. LevelCount - 1 \in Int
    BY LevelsAreNumbers
  <1>4. Max(S) \in S /\ \A l \in S : l <= Max(S)
    <2>. HIDE DEF S
    <2>. QED
      BY <1>1, <1>3, MaxOfBounded
  <1>. HIDE DEF Kept
  <1>. QED
    BY <1>2, <1>4

\* Below the level that is kept there is no other key.
LEMMA OnlyKeyBelow ==
  ASSUME TreeInv, NEW key \in Mapped
  PROVE  \A l \in Kept(key) + 1 .. LevelCount : \A m \in Mapped : Bits(m, l) = Bits(key, l) => m = key
  <1>. DEFINE S == {l \in Int : \A m \in Mapped : Bits(m, l) = Bits(key, l) => m = key}
  <1>0. Kept(key) \in 0 .. LevelCount - 1 /\ key \in AllKeys /\ Mapped \subseteq AllKeys
    BY KeptLevel DEF Mapped
  <1>1. LevelCount \in S
    BY <1>0, BitsEnds, LevelsAreNumbers
  <1>2. ASSUME NEW l \in Kept(key) + 1 .. LevelCount - 1, l + 1 \in S PROVE l \in S
    <2>1. l \in 0 .. LevelCount - 1
      BY <1>0, LevelsAreNumbers
    <2>2. count[Path(key, l)] = 1 /\ Path(key, l) \in nodes
      BY <2>1, KeptLevel, NodesHave DEF TreeInv
    <2>3. get_index(key, l) \in Used(Path(key, l))
      BY <1>0, <2>1, UsedOf
    <2>4. Cardinality(Used(Path(key, l))) <= 1
      BY <2>2 DEF TreeInv, CountsAreUsed
    <2>5. Used(Path(key, l)) = {get_index(key, l)}
      <3>. DEFINE U == Used(Path(key, l))
      <3>1. IsFiniteSet(U)
        BY UsedIsFinite
      <3>. HIDE DEF U
      <3>2. Cardinality(U) \in Nat /\ Cardinality(U) >= 1
            /\ (Cardinality(U) = 1 <=> U = {get_index(key, l)})
        BY <2>3, <3>1, OneElement DEF U
      <3>3. Cardinality(U) <= 1
        BY <2>4 DEF U
      <3>. QED
        BY <3>2, <3>3 DEF U
    <2>6. ASSUME NEW m \in Mapped, Bits(m, l) = Bits(key, l) PROVE m = key
      <3>1. get_index(m, l) = get_index(key, l)
        BY <1>0, <2>1, <2>5, <2>6, UsedOf
      <3>2. Bits(m, l + 1) = Bits(key, l + 1)
        BY <1>0, <2>1, <2>6, <3>1, BitsSplit
      <3>. QED
        BY <1>2, <3>2
    <2>. QED
      BY <2>1, <2>6
  <1>. HIDE DEF S
  <1>3. \A l \in Kept(key) + 1 .. LevelCount : l \in S
    BY SMTT(30), <1>0, <1>1, <1>2, DownInduction, LevelsAreNumbers
  <1>. QED
    BY <1>3 DEF S

\* The node that is kept is the root or on the way to another key.
LEMMA OtherKeyBelow ==
  ASSUME TreeInv, NEW key \in Mapped, key \notin over, Kept(key) # 0
  PROVE  \E m \in Mapped \ {key} : Bits(m, Kept(key)) = Bits(key, Kept(key))
  <1>. DEFINE l == Kept(key)
              n == Path(key, l)
  <1>1. l \in 0 .. LevelCount - 1 /\ key \in AllKeys /\ count[n] # 1
    BY KeptLevel DEF Mapped
  <1>. HIDE DEF l
  <1>2. n \in nodes
    BY <1>1, NodesHave DEF TreeInv
  <1>3. get_index(key, l) \in Used(n)
    BY <1>1, UsedOf
  <1>4. CASE Overcounted(n)
    <2>1. PICK k \in over : Leaf(k) = n
      BY <1>4 DEF Overcounted
    <2>2. l = LevelCount - 1 /\ Bits(k, l) = Bits(key, l)
      BY <2>1 DEF Leaf, Path, Bits
    <2>3. k \in Mapped \ {key}
      BY DEF TreeInv
    <2>. QED
      BY <2>2, <2>3 DEF l
  <1>5. CASE ~Overcounted(n)
    <2>1. Cardinality(Used(n)) # 1
      BY <1>1, <1>2, <1>5 DEF TreeInv, CountsAreUsed
    <2>2. Used(n) # {get_index(key, l)}
      BY <1>3, <2>1, OneElement, UsedIsFinite
    <2>3. PICK i \in Used(n) : i # get_index(key, l)
      BY <1>3, <2>2
    <2>4. PICK m \in Mapped : Bits(m, l) = Bits(key, l) /\ get_index(m, l) = i
      BY <1>1, UsedOf
    <2>. QED
      BY <2>3, <2>4 DEF l
  <1>. QED
    BY <1>4, <1>5

\* The nodes that free_slot frees are on no way but those through the slot that
\* it clears in the node that is kept.
LEMMA Freed ==
  ASSUME NEW key \in AllKeys, NEW k \in AllKeys, NEW l \in 0 .. LevelCount - 1
  PROVE  Path(k, l) \in {Path(j, i) : j \in Unhooked(key), i \in Kept(key) + 1 .. LevelCount - 1}
           <=> l > Kept(key) /\ Bits(k, Kept(key) + 1) = Bits(key, Kept(key) + 1)
  <1>. DEFINE K == Kept(key)
              gone == {Path(j, i) : j \in Unhooked(key), i \in K + 1 .. LevelCount - 1}
  <1>1. K \in 0 .. LevelCount - 1
    BY KeptLevel
  <1>2. ASSUME Path(k, l) \in gone PROVE l > K /\ Bits(k, K + 1) = Bits(key, K + 1)
    <2>1. PICK j \in Unhooked(key), i \in K + 1 .. LevelCount - 1 : Path(k, l) = Path(j, i)
      BY <1>2
    <2>2. l = i /\ Bits(k, l) = Bits(j, l)
      BY <2>1 DEF Path, Bits
    <2>3. j \in AllKeys /\ Bits(j, K + 1) = Bits(key, K + 1)
      BY DEF Unhooked, Path, Bits
    <2>4. K + 1 \in 0 .. l /\ l \in 0 .. LevelCount
      BY <1>1, <2>1, <2>2, LevelsAreNumbers
    <2>5. Bits(k, K + 1) = Bits(j, K + 1)
      BY <2>2, <2>3, <2>4, BitsAbove
    <2>. QED
      BY <1>1, <2>3, <2>4, <2>5
  <1>3. ASSUME l > K, Bits(k, K + 1) = Bits(key, K + 1) PROVE Path(k, l) \in gone
    <2>1. l \in K + 1 .. LevelCount - 1 /\ K < LevelCount - 1
      BY <1>1, <1>3, LevelsAreNumbers
    <2>2. k \in Unhooked(key)
      BY <1>3, <2>1 DEF Unhooked, Path, Bits
    <2>. QED
      BY <2>1, <2>2
  <1>. QED
    BY <1>2, <1>3

\* After a removal the key is below no node; the nodes that were kept have
\* others.
LEMMA RemoveHas ==
  ASSUME TreeInv, NEW key \in Mapped, key \notin over, map' = [map EXCEPT ![key] = NoValue]
  PROVE  /\ Mapped' = Mapped \ {key}
         /\ \A l \in 1 .. LevelCount : \A p :
              Has(l, p)' <=> Has(l, p) /\ ~(l > Kept(key) /\ p = Bits(key, l))
  <1>0. key \in AllKeys /\ Kept(key) \in 0 .. LevelCount - 1 /\ Mapped \subseteq AllKeys
    BY KeptLevel DEF Mapped
  <1>1. Mapped' = Mapped \ {key}
    BY DEF TreeInv, Mapped
  <1>2. ASSUME NEW l \in 1 .. LevelCount, NEW p
        PROVE  Has(l, p)' <=> Has(l, p) /\ ~(l > Kept(key) /\ p = Bits(key, l))
    <2>1. Has(l, p)' <=> \E m \in Mapped \ {key} : Bits(m, l) = p
      BY <1>1 DEF Has
    <2>2. ASSUME NEW m \in Mapped \ {key}, Bits(m, l) = p, l > Kept(key), p = Bits(key, l)
          PROVE  FALSE
      <3>1. l \in Kept(key) + 1 .. LevelCount
        BY <1>0, <2>2, LevelsAreNumbers
      <3>. QED
        BY <2>2, <3>1, OnlyKeyBelow
    <2>3. ASSUME p = Bits(key, l), ~(l > Kept(key))
          PROVE  \E m \in Mapped \ {key} : Bits(m, l) = p
      <3>1. Kept(key) # 0 /\ Kept(key) \in 0 .. LevelCount /\ l \in 0 .. Kept(key)
        BY <1>0, <2>3, LevelsAreNumbers
      <3>2. PICK m \in Mapped \ {key} : Bits(m, Kept(key)) = Bits(key, Kept(key))
        BY <3>1, OtherKeyBelow
      <3>3. Bits(m, l) = Bits(key, l)
        BY <1>0, <3>1, <3>2, BitsAbove
      <3>. QED
        BY <2>3, <3>3
    <2>. QED
      BY <2>1, <2>2, <2>3 DEF Has
  <1>. QED
    BY <1>1, <1>2

\* A removal empties a slot of the node that is kept, and no other slot of the
\* nodes that remain.
LEMMA RemoveUsed ==
  ASSUME TreeInv, NEW key \in Mapped, key \notin over, map' = [map EXCEPT ![key] = NoValue],
         NEW k \in AllKeys, NEW l \in 0 .. LevelCount - 1,
         ~(l > Kept(key) /\ Bits(k, Kept(key) + 1) = Bits(key, Kept(key) + 1))
  PROVE  Used(Path(k, l))' =
           IF Path(k, l) = Path(key, Kept(key))
             THEN Used(Path(k, l)) \ {get_index(key, Kept(key))}
             ELSE Used(Path(k, l))
  <1>. DEFINE K == Kept(key)
  <1>0. key \in AllKeys /\ K \in 0 .. LevelCount - 1 /\ l + 1 \in 1 .. LevelCount
    BY KeptLevel, LevelsAreNumbers DEF Mapped
  <1>1. Path(k, l)[1] = l /\ Path(k, l)[2] = Bits(k, l)
    BY DEF Path, Bits
  <1>2. Used(Path(k, l))' =
          {i \in 0 .. SlotCount - 1 : Has(l + 1, SlotCount * Bits(k, l) + i)'}
    BY <1>1 DEF Used
  <1>3. ASSUME NEW i \in 0 .. SlotCount - 1
        PROVE  (l + 1 > K /\ SlotCount * Bits(k, l) + i = Bits(key, l + 1))
                 <=> Path(k, l) = Path(key, K) /\ i = get_index(key, K)
    <2>1. SlotCount * Bits(k, l) + i = Bits(key, l + 1)
            <=> Bits(k, l) = Bits(key, l) /\ i = get_index(key, l)
      <3>1. Bits(k, l) \in Nat
        BY BitsEnds, LevelsAreNumbers
      <3>. QED
        BY <1>0, <3>1, BitsJoin, BitsSplit
    <2>2. Path(k, l) = Path(key, K) <=> l = K /\ Bits(k, l) = Bits(key, l)
      BY DEF Path, Bits
    <2>3. ASSUME l > K, Bits(k, l) = Bits(key, l) PROVE FALSE
      <3>1. K + 1 \in 0 .. l /\ l \in 0 .. LevelCount
        BY <1>0, <2>3, LevelsAreNumbers
      <3>2. Bits(k, K + 1) = Bits(key, K + 1)
        BY <1>0, <2>3, <3>1, BitsAbove
      <3>. QED
        BY <2>3, <3>2
    <2>. HIDE DEF K
    <2>4. l + 1 > K <=> l > K \/ l = K
      BY <1>0
    <2>. QED
      BY <2>1, <2>2, <2>3, <2>4
  <1>4. \A i \in 0 .. SlotCount - 1 :
          Has(l + 1, SlotCount * Bits(k, l) + i)' <=>
            /\ Has(l + 1, SlotCount * Bits(k, l) + i)
            /\ ~(Path(k, l) = Path(key, K) /\ i = get_index(key, K))
    BY <1>0, <1>3, RemoveHas
  <1>5. Used(Path(k, l)) =
          {i \in 0 .. SlotCount - 1 : Has(l + 1, SlotCount * Bits(k, l) + i)}
    BY UsedOf
  <1>. QED
    BY <1>2, <1>4, <1>5

\* free_slot frees exactly the nodes that are on no other way.
LEMMA RemoveNodes ==
  ASSUME TreeInv, NEW key \in Mapped, key \notin over,
         map' = [map EXCEPT ![key] = NoValue], free_slot(key)
  PROVE  NodesAreWays' /\ slot' = map'
  <1>. DEFINE K == Kept(key)
              gone == {Path(k, l) : k \in Unhooked(key), l \in K + 1 .. LevelCount - 1}
  <1>0. key \in AllKeys /\ K \in 0 .. LevelCount - 1 /\ Mapped \subseteq AllKeys
    BY KeptLevel DEF Mapped
  <1>1. /\ nodes' = nodes \ gone
        /\ slot' = [k \in AllKeys |-> IF k \in {key} \cup Unhooked(key) THEN NoValue ELSE slot[k]]
    BY DEF free_slot
  <1>2. Mapped' = Mapped \ {key}
    BY RemoveHas
  <1>3. \A k \in AllKeys : \A l \in 0 .. LevelCount - 1 :
          Path(k, l) \in gone <=> l > K /\ Bits(k, K + 1) = Bits(key, K + 1)
    BY <1>0, Freed
  <1>4. ASSUME NEW m \in Mapped, K < LevelCount - 1, Bits(m, K + 1) = Bits(key, K + 1)
        PROVE  m = key
    <2>1. K + 1 \in K + 1 .. LevelCount
      BY <1>0, LevelsAreNumbers
    <2>. QED
      BY <1>4, <2>1, OnlyKeyBelow
  <1>5. slot' = map'
    <2>1. ASSUME NEW k \in Unhooked(key) PROVE k = key \/ map[k] = NoValue
      <3>1. k \in AllKeys /\ K < LevelCount - 1 /\ Bits(k, K + 1) = Bits(key, K + 1)
        BY DEF Unhooked, Path, Bits
      <3>. QED
        BY <1>4, <3>1 DEF Mapped
    <2>2. map' = [k \in AllKeys |-> IF k = key THEN NoValue ELSE map[k]]
      BY DEF TreeInv
    <2>3. slot = map
      BY DEF TreeInv
    <2>. QED
      BY <1>1, <2>1, <2>2, <2>3
  <1>. HIDE DEF gone, K
  <1>6. Root \in nodes'
    <2>1. Root \in nodes /\ Root = Path(key, 0) /\ ~(0 > K)
      BY <1>0, NodesHave, PathSteps DEF TreeInv
    <2>. QED
      BY <1>0, <1>1, <1>3, <2>1, LevelsAreNumbers
  <1>7. ASSUME NEW m \in Mapped \ {key}, NEW l \in 1 .. LevelCount - 1
        PROVE  Path(m, l) \in nodes'
    <2>1. l \in 0 .. LevelCount - 1
      BY LevelsAreNumbers
    <2>2. Path(m, l) \in nodes
      BY <2>1, NodesHave DEF TreeInv
    <2>3. ~(l > K /\ Bits(m, K + 1) = Bits(key, K + 1))
      <3>1. l > K => K < LevelCount - 1
        BY <1>0, <2>1, LevelsAreNumbers
      <3>. QED
        BY <1>4, <3>1
    <2>. QED
      BY <1>0, <1>1, <1>3, <2>1, <2>2, <2>3
  <1>8. ASSUME NEW n \in nodes', n # Root
        PROVE  \E m \in Mapped \ {key} : \E l \in 1 .. LevelCount - 1 : n = Path(m, l)
    <2>1. PICK m \in Mapped, l \in 1 .. LevelCount - 1 : n = Path(m, l)
      BY <1>1, <1>8 DEF TreeInv, NodesAreWays
    <2>2. l \in 0 .. LevelCount - 1 /\ l \in 1 .. LevelCount
      BY LevelsAreNumbers
    <2>3. ~(l > K /\ Bits(m, K + 1) = Bits(key, K + 1))
      BY <1>0, <1>1, <1>3, <2>1, <2>2
    <2>4. Has(l, Bits(m, l))
      BY DEF Has
    <2>5. Has(l, Bits(m, l))'
      <3>1. ~(l > K /\ Bits(m, l) = Bits(key, l))
        <4>. SUFFICES ASSUME l > K, Bits(m, l) = Bits(key, l) PROVE FALSE
          OBVIOUS
        <4>1. K + 1 \in 0 .. l /\ l \in 0 .. LevelCount
          BY <1>0, <2>2, LevelsAreNumbers
        <4>2. Bits(m, K + 1) = Bits(key, K + 1)
          BY <1>0, <4>1, BitsAbove
        <4>. QED
          BY <2>3, <4>2
      <3>. QED
        BY <2>2, <2>4, <3>1, RemoveHas DEF K
    <2>6. PICK j \in Mapped \ {key} : Bits(j, l) = Bits(m, l)
      BY <1>2, <2>5 DEF Has
    <2>7. n = Path(j, l)
      BY <2>1, <2>6 DEF Path, Bits
    <2>. QED
      BY <2>7
  <1>9. NodesAreWays' <=>
          nodes' = {Root} \cup {Path(m, l) : m \in Mapped', l \in 1 .. LevelCount - 1}
    BY DEF NodesAreWays, Path, Width, Root
  <1>10. nodes' = {Root} \cup {Path(m, l) : m \in Mapped \ {key}, l \in 1 .. LevelCount - 1}
    BY <1>6, <1>7, <1>8
  <1>. QED
    BY <1>2, <1>5, <1>9, <1>10

\* free_slot takes the cleared slot out of the count of its node.
LEMMA RemoveCounts ==
  ASSUME TreeInv, NEW key \in Mapped, key \notin over, over' = over,
         map' = [map EXCEPT ![key] = NoValue], free_slot(key)
  PROVE  count' \in [nodes' -> Nat] /\ CountsAreUsed'
  <1>. DEFINE K == Kept(key)
              top == Path(key, K)
              gone == {Path(k, l) : k \in Unhooked(key), l \in K + 1 .. LevelCount - 1}
  <1>0. key \in AllKeys /\ K \in 0 .. LevelCount - 1
    BY KeptLevel DEF Mapped
  <1>1. /\ nodes' = nodes \ gone
        /\ count' = [n \in nodes' |-> IF n = top THEN count[n] - 1 ELSE count[n]]
    BY DEF free_slot
  <1>2. get_index(key, K) \in Used(top) /\ top \in nodes
    BY <1>0, UsedOf, NodesHave DEF TreeInv
  <1>3. ASSUME NEW n \in nodes'
        PROVE  /\ count'[n] \in Nat
               /\ count'[n] >= Cardinality(Used(n)')
               /\ ~Overcounted(n)' => count'[n] = Cardinality(Used(n)')
    <2>1. n \in nodes /\ n \notin gone
      BY <1>1
    <2>2. PICK k \in AllKeys, l \in 0 .. LevelCount - 1 : n = Path(k, l)
      BY <2>1, NodesHave DEF TreeInv
    <2>3. Used(n)' = IF n = top THEN Used(n) \ {get_index(key, K)} ELSE Used(n)
      <3>1. ~(l > K /\ Bits(k, K + 1) = Bits(key, K + 1))
        BY <1>0, <2>1, <2>2, Freed
      <3>2. Used(Path(k, l))' = IF Path(k, l) = top THEN Used(Path(k, l)) \ {get_index(key, K)}
                                                   ELSE Used(Path(k, l))
        BY <1>0, <3>1, RemoveUsed
      <3>. QED
        BY <2>2, <3>2
    <2>4. Overcounted(n)' <=> Overcounted(n)
      BY DEF Overcounted, Leaf, Path, Width
    <2>5. /\ count[n] \in Nat /\ count[n] >= Cardinality(Used(n))
          /\ ~Overcounted(n) => count[n] = Cardinality(Used(n))
      BY <2>1 DEF TreeInv, CountsAreUsed
    <2>6. IsFiniteSet(Used(n)) /\ Cardinality(Used(n)) \in Nat
      BY UsedIsFinite
    <2>. HIDE DEF K, top, gone
    <2>7. CASE n = top
      <3>1. Cardinality(Used(n)) >= 1 /\ Cardinality(Used(n)') = Cardinality(Used(n)) - 1
        BY <1>2, <2>3, <2>6, <2>7, OneElement
      <3>2. count'[n] = count[n] - 1
        BY <1>1, <2>7
      <3>. QED
        BY <2>4, <2>5, <2>6, <3>1, <3>2
    <2>8. CASE n # top
      BY <1>1, <2>3, <2>4, <2>5, <2>8
    <2>. QED
      BY <2>7, <2>8
  <1>4. CountsAreUsed' <=>
          \A n \in nodes' : /\ count'[n] >= Cardinality(Used(n)')
                            /\ ~Overcounted(n)' => count'[n] = Cardinality(Used(n)')
    BY DEF CountsAreUsed
  <1>5. count' \in [nodes' -> Nat]
    <2>1. count' = [n \in nodes' |-> count'[n]]
      BY <1>1
    <2>. QED
      BY <1>3, <2>1
  <1>. QED
    BY <1>3, <1>4, <1>5

\* Callers remove keys that they inserted once, or keys without a leaf.
LEMMA RemoveKeeps ==
  ASSUME TreeInv, ~RemoveAny, NEW key \in AllKeys, radix_tree_remove(key)
  PROVE  TreeInv'
  <1>1. CASE Leaf(key) \notin nodes
    <2>1. key \notin Mapped
      BY <1>1, NodesHave, LevelsAreNumbers DEF TreeInv, Leaf
    <2>2. map' = map /\ over' = over
      BY <2>1 DEF TreeInv, radix_tree_remove, Mapped
    <2>3. UNCHANGED <<nodes, count, slot, map, over>>
      BY <1>1, <2>2 DEF radix_tree_remove
    <2>. QED
      BY <2>3 DEF TreeInv, Mapped, NodesAreWays, CountsAreUsed, Overcounted, Used, Has
  <1>2. CASE Leaf(key) \in nodes
    <2>1. key \in Mapped /\ key \notin over /\ free_slot(key)
          /\ map' = [map EXCEPT ![key] = NoValue] /\ over' = over
      BY <1>2 DEF radix_tree_remove, Mapped
    <2>2. NodesAreWays' /\ slot' = map' /\ count' \in [nodes' -> Nat] /\ CountsAreUsed'
      BY <2>1, RemoveNodes, RemoveCounts
    <2>3. over' \subseteq Mapped'
      BY <2>1, RemoveHas DEF TreeInv
    <2>4. map' \in [AllKeys -> Values \cup {NoValue}]
      BY <2>1 DEF TreeInv
    <2>. QED
      BY <2>2, <2>3, <2>4 DEF TreeInv, AllKeys, Width
  <1>. QED
    BY <1>1, <1>2

\* Every step keeps the invariant.
LEMMA TreeStep ==
  ASSUME TreeInv, FailAfter \subseteq {0}, ~RemoveAny, [TreeNext]_treeVars
  PROVE  TreeInv'
  <1>0. Keys \subseteq AllKeys
    BY RadixTreeAssumption
  <1>1. ASSUME UNCHANGED treeVars PROVE TreeInv'
    BY <1>1 DEF treeVars, TreeInv, Mapped, NodesAreWays, CountsAreUsed, Overcounted, Used, Has
  <1>2. ASSUME NEW key \in Keys, NEW value \in Values, radix_tree_insert(key, value) PROVE TreeInv'
    BY <1>0, <1>2, InsertKeeps
  <1>3. ASSUME NEW key \in Keys, NEW done \in FailAfter, InsertFails(key, done) PROVE TreeInv'
    <2>1. done = 0
      OBVIOUS
    <2>. QED
      BY <1>0, <1>1, <1>3, <2>1, InsertFailsKeeps
  <1>4. ASSUME NEW key \in Keys, radix_tree_remove(key) PROVE TreeInv'
    BY <1>0, <1>4, RemoveKeeps
  <1>. QED
    BY <1>1, <1>2, <1>3, <1>4 DEF TreeNext

-----------------------------------------------------------------------------
(* radix_tree_lookup and radix_tree_lookup_prev                            *)

\* The slots that are not NULL are the ones with mapped keys below them.
LEMMA FilledIsUsed ==
  ASSUME TreeInv, NEW k \in AllKeys, NEW l \in 0 .. LevelCount - 1
  PROVE  Filled(Path(k, l)) = Used(Path(k, l))
  <1>1. Path(k, l)[1] = l /\ Path(k, l)[2] = Bits(k, l)
    BY DEF Path, Bits
  <1>2. \A i : Child(Path(k, l), i) = <<l + 1, SlotCount * Bits(k, l) + i>>
    BY <1>1 DEF Child
  <1>3. Used(Path(k, l)) =
          {i \in 0 .. SlotCount - 1 : Has(l + 1, SlotCount * Bits(k, l) + i)}
    BY UsedOf
  <1>4. CASE l = LevelCount - 1
    <2>1. ASSUME NEW i \in 0 .. SlotCount - 1
          PROVE  slot[Child(Path(k, l), i)[2]] # NoValue <=> Has(l + 1, SlotCount * Bits(k, l) + i)
      <3>1. l + 1 = LevelCount
        BY <1>4, LevelsAreNumbers
      <3>2. SlotCount * Bits(k, l) + i \in AllKeys
        BY <1>4, SlotsAreKeys
      <3>3. \A m \in Mapped : Bits(m, LevelCount) = m
        BY BitsEnds DEF Mapped
      <3>4. Has(l + 1, SlotCount * Bits(k, l) + i) <=> SlotCount * Bits(k, l) + i \in Mapped
        BY <3>1, <3>3 DEF Has
      <3>5. Child(Path(k, l), i)[2] = SlotCount * Bits(k, l) + i
        BY <1>2
      <3>. QED
        BY <3>2, <3>4, <3>5 DEF Mapped, TreeInv
    <2>. QED
      BY <1>1, <1>3, <1>4, <2>1 DEF Filled
  <1>5. CASE l # LevelCount - 1
    <2>1. l + 1 \in 1 .. LevelCount - 1
      BY <1>5, LevelsAreNumbers
    <2>2. \A i : Child(Path(k, l), i) \in nodes <=> Has(l + 1, SlotCount * Bits(k, l) + i)
      BY <1>2, <2>1, NodesHave DEF TreeInv
    <2>. QED
      BY <1>1, <1>3, <1>5, <2>2 DEF Filled
  <1>. QED
    BY <1>4, <1>5

\* radix_tree_lookup finds what is mapped.
LEMMA LookupIsMap ==
  ASSUME TreeInv, NEW key \in AllKeys
  PROVE  radix_tree_lookup(key) = map[key]
  <1>1. CASE Missing(key) = {}
    BY <1>1 DEF radix_tree_lookup, TreeInv
  <1>2. CASE Missing(key) # {}
    <2>1. PICK l \in 1 .. LevelCount - 1 : Path(key, l) \notin nodes
      BY <1>2 DEF Missing, Inner
    <2>2. l \in 0 .. LevelCount - 1
      BY LevelsAreNumbers
    <2>3. key \notin Mapped
      BY <2>1, <2>2, NodesHave DEF TreeInv
    <2>. QED
      BY <1>2, <2>3 DEF radix_tree_lookup, Mapped
  <1>. QED
    BY <1>1, <1>2

\* A nonempty set of slots or of keys has a largest member.
LEMMA MaxOfSlots ==
  ASSUME NEW S \in SUBSET (0 .. SlotCount - 1), S # {}
  PROVE  Max(S) \in S /\ \A i \in S : i <= Max(S)
  <1>1. S \in SUBSET Int /\ SlotCount - 1 \in Int /\ \A i \in S : i <= SlotCount - 1
    BY LevelsAreNumbers
  <1>. QED
    BY <1>1, MaxOfBounded

\* radix_tree_last on the way down: in every round it takes the slot of the
\* largest key.
LEMMA DownToLargest ==
  ASSUME TreeInv, NEW M \in Mapped, NEW l \in 0 .. LevelCount - 1,
         \A m \in Mapped : Bits(m, l) = Bits(M, l) => m <= M
  PROVE  Down(Path(M, l)) = Path(M, l + 1)
  <1>0. M \in AllKeys /\ Mapped \subseteq AllKeys
    BY DEF Mapped
  <1>. DEFINE U == Used(Path(M, l))
              i == get_index(M, l)
  <1>1. Filled(Path(M, l)) = U
    BY <1>0, FilledIsUsed
  <1>2. i \in U /\ U \in SUBSET (0 .. SlotCount - 1)
    BY <1>0, UsedOf
  <1>3. ASSUME NEW j \in U PROVE j <= i
    <2>1. PICK m \in Mapped : Bits(m, l) = Bits(M, l) /\ get_index(m, l) = j
      BY <1>0, UsedOf
    <2>. QED
      BY <1>0, <2>1, IndexMonotonic
  <1>. HIDE DEF U, i
  <1>4. Max(U) \in U /\ \A j \in U : j <= Max(U)
    BY <1>2, MaxOfSlots
  <1>5. Max(U) = i
    <2>. DEFINE x == Max(U)
    <2>1. x \in U /\ i <= x /\ x <= i
      BY <1>2, <1>3, <1>4
    <2>2. \A j \in U : j \in Int
      BY <1>2
    <2>. HIDE DEF x
    <2>3. x = i
      BY <1>2, <2>1, <2>2
    <2>. QED
      BY <2>3 DEF x
  <1>6. Path(M, l + 1) = Child(Path(M, l), i)
    BY <1>0, PathSteps DEF i
  <1>. QED
    BY <1>1, <1>2, <1>5, <1>6 DEF Down

\* A function on pairs, applied again and again
LEMMA PairIteration ==
  \A x \in Nat \X Nat : \A g \in [Nat \X Nat -> Nat \X Nat] :
    \E f \in [Nat -> Nat \X Nat] : f[0] = x /\ \A n \in Nat : f[n + 1] = g[f[n]]
  <1>. DEFINE Pairs == Nat \X Nat
  <1>1. \A x \in Pairs : \A g \in [Pairs -> Pairs] :
          \E f \in [Nat -> Pairs] : f[0] = x /\ \A n \in Nat : f[n + 1] = g[f[n]]
    <2>. HIDE DEF Pairs
    <2>. QED
      BY Iteration
  <1>. QED
    BY <1>1, Zenon

\* The rounds of radix_tree_last, one after the other
LEMMA LastRounds ==
  ASSUME NEW n \in Nat \X Nat
  PROVE  LET after[rounds \in Nat] == IF rounds = 0 THEN n ELSE Down(after[rounds - 1])
         IN  after[0] = n /\ \A r \in Nat : after[r + 1] = Down(after[r])
  <1>. DEFINE Pairs == Nat \X Nat
              g == [x \in Pairs |-> Down(x)]
              Eq(h) == h = [r \in Nat |-> IF r = 0 THEN n ELSE Down(h[r - 1])]
              after[rounds \in Nat] == IF rounds = 0 THEN n ELSE Down(after[rounds - 1])
  <1>1. ASSUME NEW x \in Pairs PROVE Down(x) \in Pairs
    <2>1. CASE Filled(x) = {}
      BY <2>1 DEF Down
    <2>2. CASE Filled(x) # {}
      <3>1. Filled(x) \in SUBSET (0 .. SlotCount - 1)
        BY DEF Filled
      <3>2. Max(Filled(x)) \in Filled(x)
        BY <2>2, <3>1, MaxOfSlots
      <3>3. Max(Filled(x)) \in Nat /\ SlotCount \in Nat
        BY <3>1, <3>2, LevelsAreNumbers
      <3>4. x[1] + 1 \in Nat /\ SlotCount * x[2] + Max(Filled(x)) \in Nat
        BY <3>3
      <3>. QED
        BY <2>2, <3>4 DEF Down, Child
    <2>. QED
      BY <2>1, <2>2
  <1>2. g \in [Pairs -> Pairs] /\ n \in Pairs
    BY <1>1
  <1>3. PICK f \in [Nat -> Pairs] : f[0] = n /\ \A r \in Nat : f[r + 1] = g[f[r]]
    <2>1. \A x \in Pairs : \A h \in [Pairs -> Pairs] :
            \E f \in [Nat -> Pairs] : f[0] = x /\ \A r \in Nat : f[r + 1] = h[f[r]]
      BY PairIteration
    <2>. HIDE DEF g, Pairs
    <2>. QED
      BY <1>2, <2>1
  <1>. HIDE DEF Pairs
  <1>4. \A r \in Nat : f[r + 1] = Down(f[r])
    BY <1>3
  <1>5. Eq(f)
    <2>1. ASSUME NEW r \in Nat, r # 0 PROVE f[r] = Down(f[r - 1])
      <3>1. r - 1 \in Nat /\ (r - 1) + 1 = r
        BY <2>1
      <3>. QED
        BY <1>4, <3>1
    <2>. QED
      BY <1>3, <2>1
  <1>6. Eq(after)
    <2>1. after = CHOOSE h : Eq(h)
      OBVIOUS
    <2>. HIDE DEF Eq, after
    <2>. QED
      BY <1>5, <2>1
  <1>. HIDE DEF after
  <1>7. after[0] = n /\ \A r \in Nat : after[r + 1] = Down(after[r])
    <2>1. after[0] = n
      BY <1>6
    <2>2. ASSUME NEW r \in Nat PROVE after[r + 1] = Down(after[r])
      <3>1. r + 1 \in Nat /\ r + 1 # 0 /\ (r + 1) - 1 = r
        OBVIOUS
      <3>. QED
        BY <1>6, <3>1
    <2>. QED
      BY <2>1, <2>2
  <1>. QED
    BY <1>7 DEF after

\* radix_tree_last returns the value of the largest key below a node.
LEMMA LastIsLargest ==
  ASSUME TreeInv, NEW M \in Mapped, NEW l \in 0 .. LevelCount,
         \A m \in Mapped : Bits(m, l) = Bits(M, l) => m <= M
  PROVE  radix_tree_last(Path(M, l)) = map[M]
  <1>. DEFINE n == Path(M, l)
              after[rounds \in Nat] == IF rounds = 0 THEN n ELSE Down(after[rounds - 1])
              S == {r \in Nat : l + r <= LevelCount => after[r] = Path(M, l + r)}
  <1>0. M \in AllKeys /\ Mapped \subseteq AllKeys /\ LevelCount \in Nat /\ l \in Nat
    BY LevelsAreNumbers DEF Mapped
  <1>1. n \in Nat \X Nat
    BY <1>0, BitsEnds DEF Path, Bits
  <1>2. after[0] = n /\ \A r \in Nat : after[r + 1] = Down(after[r])
    <2>. HIDE DEF n
    <2>. QED
      BY <1>1, LastRounds
  <1>. HIDE DEF after
  <1>3. 0 \in S
    BY <1>0, <1>2
  <1>4. ASSUME NEW r \in Nat, r \in S PROVE r + 1 \in S
    <2>. SUFFICES ASSUME l + (r + 1) <= LevelCount PROVE after[r + 1] = Path(M, l + (r + 1))
      OBVIOUS
    <2>1. l + r \in 0 .. LevelCount - 1 /\ l \in 0 .. l + r /\ l + r \in 0 .. LevelCount
          /\ l + (r + 1) = (l + r) + 1
      BY <1>0
    <2>2. after[r] = Path(M, l + r)
      BY <1>0, <1>4, <2>1
    <2>3. \A m \in Mapped : Bits(m, l + r) = Bits(M, l + r) => m <= M
      BY <1>0, <2>1, BitsAbove
    <2>4. Down(Path(M, l + r)) = Path(M, (l + r) + 1)
      BY <2>1, <2>3, DownToLargest
    <2>. QED
      BY <1>2, <2>1, <2>2, <2>4
  <1>5. \A r \in Nat : r \in S
    <2>. HIDE DEF S
    <2>. QED
      BY <1>3, <1>4, SetInduction
  <1>6. after[LevelCount - l] = Path(M, LevelCount)
    <2>1. LevelCount - l \in Nat /\ l + (LevelCount - l) = LevelCount
      BY <1>0
    <2>. QED
      BY <1>0, <1>5, <2>1
  <1>7. n[1] = l /\ Path(M, LevelCount)[1] = LevelCount /\ Path(M, LevelCount)[2] = M
    BY <1>0, BitsEnds DEF Path, Bits
  <1>8. radix_tree_last(n) = LET end == after[LevelCount - n[1]]
                  IN  IF end[1] < LevelCount THEN NoValue ELSE slot[end[2]]
    BY DEF radix_tree_last, after
  <1>. HIDE DEF n
  <1>9. radix_tree_last(n) = slot[M]
    BY <1>0, <1>6, <1>7, <1>8
  <1>. QED
    BY <1>9 DEF n, TreeInv

\* Keys up to a key that share the node of a level with it
NoneUpTo(key, level) == \A m \in Mapped : m <= key => Bits(m, level) # Bits(key, level)

\* What the climb of radix_tree_previous skips has no slot to the left: a level
\* whose node counts one slot has the slot of the way only.
LEMMA SkippedHasNoLower ==
  ASSUME TreeInv, NEW key \in AllKeys, NEW l \in 0 .. LevelCount - 1,
         Path(key, l) \in nodes, Has(l + 1, Bits(key, l + 1)), count[Path(key, l)] = 1
  PROVE  Lower(key, l) = {}
  <1>. DEFINE U == Used(Path(key, l))
              i == get_index(key, l)
  <1>1. i \in U /\ IsFiniteSet(U) /\ Filled(Path(key, l)) = U
    BY UsedOf, UsedIsFinite, FilledIsUsed
  <1>2. Cardinality(U) <= 1
    BY DEF TreeInv, CountsAreUsed
  <1>3. i \in Nat
    BY BitsSplit
  <1>4. Lower(key, l) = {j \in U : j < i}
    BY <1>1 DEF Lower
  <1>. HIDE DEF U, i
  <1>5. Cardinality(U) \in Nat /\ Cardinality(U) >= 1 /\ (Cardinality(U) = 1 <=> U = {i})
    BY <1>1, OneElement
  <1>6. U = {i}
    BY <1>2, <1>5
  <1>. QED
    BY <1>3, <1>4, <1>6

\* A level without slots to the left: what holds below its node on the way
\* holds for the node.
LEMMA NoneUpToAbove ==
  ASSUME TreeInv, NEW key \in AllKeys, NEW l \in 0 .. LevelCount - 1,
         Lower(key, l) = {}, NoneUpTo(key, l + 1)
  PROVE  NoneUpTo(key, l)
  <1>. SUFFICES ASSUME NEW m \in Mapped, m <= key, Bits(m, l) = Bits(key, l) PROVE FALSE
    BY DEF NoneUpTo
  <1>1. m \in AllKeys
    BY DEF Mapped
  <1>2. get_index(m, l) \in Filled(Path(key, l))
    BY UsedOf, FilledIsUsed
  <1>3. get_index(m, l) <= get_index(key, l)
    BY <1>1, IndexMonotonic
  <1>4. ~(get_index(m, l) < get_index(key, l))
    BY <1>2 DEF Lower
  <1>5. get_index(m, l) = get_index(key, l)
    BY <1>1, <1>3, <1>4, BitsSplit
  <1>6. Bits(m, l + 1) = Bits(key, l + 1)
    BY <1>1, <1>5, BitsSplit
  <1>. QED
    BY <1>6 DEF NoneUpTo

\* Where the nodes on the way to a key end
LEMMA WayEnds ==
  ASSUME TreeInv, NEW key \in AllKeys, map[key] = NoValue,
         NEW start, start = Max({l \in 0 .. LevelCount - 1 : Path(key, l) \in nodes})
  PROVE  /\ start \in 0 .. LevelCount - 1
         /\ \A l \in 0 .. start : Path(key, l) \in nodes
         /\ \A l \in 1 .. start : Has(l, Bits(key, l))
         /\ NoneUpTo(key, start + 1)
  <1>. DEFINE S == {l \in 0 .. LevelCount - 1 : Path(key, l) \in nodes}
  <1>1. Root \in nodes /\ Path(key, 0) = Root
    BY NodesHave, PathSteps DEF TreeInv
  <1>2. S \in SUBSET Int /\ S # {} /\ LevelCount - 1 \in Int /\ \A l \in S : l <= LevelCount - 1
    BY <1>1, LevelsAreNumbers
  <1>3. start \in S /\ \A l \in S : l <= start
    <2>. HIDE DEF S
    <2>1. Max(S) \in S /\ \A l \in S : l <= Max(S)
      BY <1>2, MaxOfBounded
    <2>. QED
      BY <2>1 DEF S
  <1>4. start \in 0 .. LevelCount - 1
    BY <1>3
  <1>5. ASSUME NEW l \in 1 .. start PROVE Has(l, Bits(key, l))
    <2>1. start \in 1 .. LevelCount - 1 /\ l \in 0 .. start /\ start \in 0 .. LevelCount
      BY <1>4, LevelsAreNumbers
    <2>2. Path(key, start) = <<start, Bits(key, start)>>
      BY DEF Path, Bits
    <2>3. Has(start, Bits(key, start))
      BY <1>3, <2>1, <2>2, NodesHave DEF TreeInv
    <2>4. PICK m \in Mapped : Bits(m, start) = Bits(key, start)
      BY <2>3 DEF Has
    <2>5. Bits(m, l) = Bits(key, l)
      BY <2>1, <2>4, BitsAbove DEF Mapped
    <2>. QED
      BY <2>5 DEF Has
  <1>6. ASSUME NEW l \in 0 .. start PROVE Path(key, l) \in nodes
    <2>1. CASE l = 0
      BY <1>1, <2>1
    <2>2. CASE l # 0
      <3>1. l \in 1 .. start /\ l \in 1 .. LevelCount - 1
        BY <1>4, <2>2, LevelsAreNumbers
      <3>2. Path(key, l) = <<l, Bits(key, l)>>
        BY DEF Path, Bits
      <3>. QED
        BY <1>5, <3>1, <3>2, NodesHave DEF TreeInv
    <2>. QED
      BY <2>1, <2>2
  <1>7. ASSUME NEW m \in Mapped, Bits(m, start + 1) = Bits(key, start + 1) PROVE FALSE
    <2>0. m \in AllKeys
      BY DEF Mapped
    <2>1. CASE start = LevelCount - 1
      <3>1. start + 1 = LevelCount
        BY <2>1, LevelsAreNumbers
      <3>2. m = key
        BY <1>7, <2>0, <3>1, BitsEnds
      <3>. QED
        BY <3>2 DEF Mapped
    <2>2. CASE start # LevelCount - 1
      <3>1. start + 1 \in 0 .. LevelCount - 1 /\ ~(start + 1 <= start)
        BY <1>4, <2>2, LevelsAreNumbers
      <3>2. Path(m, start + 1) \in nodes
        BY <3>1, NodesHave DEF TreeInv
      <3>3. Path(m, start + 1) = Path(key, start + 1)
        BY <1>7 DEF Path, Bits
      <3>. QED
        BY <1>3, <3>1, <3>2, <3>3
    <2>. QED
      BY <2>1, <2>2
  <1>. QED
    BY <1>4, <1>5, <1>6, <1>7 DEF NoneUpTo

\* The slot that radix_tree_previous finds leads to the key that precedes.
LEMMA FoundPrecedes ==
  ASSUME TreeInv, NEW key \in AllKeys, NEW f \in 0 .. LevelCount - 1,
         Lower(key, f) # {}, NoneUpTo(key, f + 1)
  PROVE  \E M \in Mapped :
           /\ M <= key /\ \A m \in Mapped : m <= key => m <= M
           /\ radix_tree_last(Child(Path(key, f), Max(Lower(key, f)))) = map[M]
  <1>. DEFINE i == Max(Lower(key, f))
  <1>0. Mapped \subseteq AllKeys /\ AllKeys \subseteq Nat
    BY KeysAreNumbers DEF Mapped
  <1>1. /\ i \in Used(Path(key, f)) /\ i < get_index(key, f)
        /\ \A j \in Used(Path(key, f)) : j < get_index(key, f) => j <= i
    <2>1. Lower(key, f) = {j \in Used(Path(key, f)) : j < get_index(key, f)}
      BY FilledIsUsed DEF Lower
    <2>2. Lower(key, f) \in SUBSET (0 .. SlotCount - 1)
      BY <2>1 DEF Used
    <2>3. i \in Lower(key, f) /\ \A j \in Lower(key, f) : j <= i
      BY <2>2, MaxOfSlots
    <2>. HIDE DEF i
    <2>. QED
      BY <2>1, <2>3
  <1>. HIDE DEF i
  <1>2. PICK m0 \in Mapped : Bits(m0, f) = Bits(key, f) /\ get_index(m0, f) = i
    BY <1>1, UsedOf
  <1>3. f + 1 \in 0 .. LevelCount /\ f \in 0 .. f + 1 /\ f \in 0 .. LevelCount
    BY LevelsAreNumbers
  <1>. DEFINE T == {m \in Mapped : Bits(m, f + 1) = Bits(m0, f + 1)}
              M == Max(T)
  <1>4. M \in T /\ \A m \in T : m <= M
    <2>0. \A m \in Mapped : m \in Int
      BY <1>0
    <2>1. T \in SUBSET Int /\ m0 \in T
      BY <2>0
    <2>2. \A m \in T : m <= Width(0) - 1
      BY DEF Mapped, AllKeys
    <2>3. Width(0) - 1 \in Int
      BY WidthOK, LevelsAreNumbers
    <2>. HIDE DEF T
    <2>. QED
      BY <2>1, <2>2, <2>3, MaxOfBounded
  <1>. HIDE DEF M
  <1>5. M \in Mapped /\ M \in AllKeys /\ Bits(M, f + 1) = Bits(m0, f + 1)
    BY <1>0, <1>4
  <1>6. Bits(M, f) = Bits(key, f) /\ get_index(M, f) = i
    <2>1. Bits(M, f) = Bits(m0, f)
      BY <1>0, <1>3, <1>5, BitsAbove
    <2>2. i \in 0 .. SlotCount - 1 /\ Bits(m0, f) \in Nat
      BY <1>0, <1>2, <1>3, BitsSplit, BitsEnds
    <2>3. Bits(M, f + 1) = SlotCount * Bits(m0, f) + i
      BY <1>0, <1>2, <1>5, BitsSplit
    <2>. QED
      BY <1>2, <1>5, <2>1, <2>2, <2>3, BitsJoin
  <1>7. i \in Int /\ get_index(key, f) \in Int
    BY <1>5, <1>6, BitsSplit
  <1>8. M <= key
    <2>. SUFFICES ASSUME ~(M <= key) PROVE FALSE
      OBVIOUS
    <2>1. key <= M
      BY <1>0, <1>5
    <2>2. get_index(key, f) <= get_index(M, f)
      BY <1>5, <1>6, <2>1, IndexMonotonic
    <2>. QED
      BY <1>1, <1>6, <1>7, <2>2
  <1>9. ASSUME NEW m \in Mapped, m <= key PROVE m <= M
    <2>. SUFFICES ASSUME ~(m <= M) PROVE FALSE
      OBVIOUS
    <2>0. m \in AllKeys /\ m \in Nat /\ M <= m
      BY <1>0, <1>5
    <2>1. Bits(M, f) <= Bits(m, f) /\ Bits(m, f) <= Bits(key, f)
      BY <1>3, <1>5, <1>9, <2>0, BitsMonotonic
    <2>2. Bits(m, f) = Bits(key, f)
      BY <1>3, <1>6, <2>0, <2>1, BitsEnds
    <2>3. get_index(M, f) <= get_index(m, f) /\ get_index(m, f) <= get_index(key, f)
      BY <1>5, <1>6, <1>9, <2>0, <2>2, IndexMonotonic
    <2>4. get_index(m, f) # get_index(key, f)
      <3>1. Bits(m, f + 1) # Bits(key, f + 1)
        BY <1>9 DEF NoneUpTo
      <3>. QED
        BY <2>0, <2>2, <3>1, BitsSplit
    <2>5. get_index(m, f) \in Int
      BY <2>0, BitsSplit
    <2>6. get_index(m, f) = i
      <3>1. get_index(m, f) \in Used(Path(key, f))
        BY <2>2, UsedOf
      <3>2. get_index(m, f) < get_index(key, f)
        BY <1>7, <2>3, <2>4, <2>5
      <3>3. get_index(m, f) <= i
        BY <1>1, <3>1, <3>2
      <3>. QED
        BY <1>6, <1>7, <2>3, <2>5, <3>3
    <2>7. Bits(m, f + 1) = Bits(M, f + 1)
      BY <1>5, <1>6, <2>0, <2>2, <2>6, BitsSplit
    <2>. QED
      BY <1>4, <1>5, <2>7
  <1>10. Child(Path(key, f), i) = Path(M, f + 1)
    <2>1. Path(M, f) = Path(key, f)
      BY <1>6 DEF Path, Bits
    <2>. QED
      BY <1>5, <1>6, <2>1, PathSteps
  <1>11. radix_tree_last(Path(M, f + 1)) = map[M]
    <2>1. \A m \in Mapped : Bits(m, f + 1) = Bits(M, f + 1) => m <= M
      BY <1>4, <1>5
    <2>. QED
      BY <1>3, <1>5, <2>1, LastIsLargest
  <1>. QED
    BY <1>5, <1>8, <1>9, <1>10, <1>11 DEF i

\* radix_tree_lookup_prev, in a tree of the invariant
LEMMA LookupPrevHolds ==
  ASSUME TreeInv
  PROVE  LookupPrevExact
  <1>. SUFFICES ASSUME NEW key \in AllKeys
                PROVE  radix_tree_lookup_prev(key) = LET before == {k \in 0 .. key : map[k] # NoValue}
                                         IN  IF before = {} THEN NoValue ELSE map[Max(before)]
    BY DEF LookupPrevExact
  <1>. DEFINE before == {k \in 0 .. key : map[k] # NoValue}
  <1>0. Mapped \subseteq AllKeys /\ AllKeys \subseteq Nat
    BY KeysAreNumbers DEF Mapped
  <1>1. before = {k \in Mapped : k <= key}
    <2>1. Width(0) \in Nat
      BY WidthOK, LevelsAreNumbers
    <2>2. 0 .. key = {k \in AllKeys : k <= key}
      BY <1>0, <2>1 DEF AllKeys
    <2>. QED
      BY <2>2 DEF Mapped
  <1>2. ASSUME NEW M \in Mapped, M <= key, \A m \in Mapped : m <= key => m <= M
        PROVE  before # {} /\ Max(before) = M
    <2>1. before \in SUBSET Int /\ M \in before /\ key \in Int /\ \A k \in before : k <= key
      BY <1>0, <1>1, <1>2
    <2>2. Max(before) \in before /\ \A k \in before : k <= Max(before)
      <3>. HIDE DEF before
      <3>. QED
        BY <2>1, MaxOfBounded
    <2>. DEFINE x == Max(before)
    <2>3. x \in before /\ M <= x
      BY <2>1, <2>2
    <2>. HIDE DEF x
    <2>4. x \in Int /\ M \in Int /\ x <= M
      BY <1>0, <1>1, <1>2, <2>3
    <2>5. x = M
      BY <2>3, <2>4
    <2>. QED
      BY <2>1, <2>5 DEF x
  <1>. HIDE DEF before
  <1>3. CASE map[key] # NoValue
    <2>1. key \in Mapped /\ key <= key
      BY <1>0, <1>3 DEF Mapped
    <2>2. before # {} /\ Max(before) = key
      BY <1>2, <2>1
    <2>. QED
      BY <1>3, <2>2, LookupIsMap DEF radix_tree_lookup_prev, before
  <1>4. CASE map[key] = NoValue
    <2>. DEFINE start == Max({l \in 0 .. LevelCount - 1 : Path(key, l) \in nodes})
                found == {l \in {start} \cup Climb(key, start) : Lower(key, l) # {}}
    <2>1. /\ start \in 0 .. LevelCount - 1
          /\ \A l \in 0 .. start : Path(key, l) \in nodes
          /\ \A l \in 1 .. start : Has(l, Bits(key, l))
          /\ NoneUpTo(key, start + 1)
      BY <1>4, WayEnds
    <2>2. radix_tree_lookup_prev(key) = IF found = {} THEN NoValue
                            ELSE radix_tree_last(Child(Path(key, Max(found)), Max(Lower(key, Max(found)))))
      BY <1>4, LookupIsMap DEF radix_tree_lookup_prev, radix_tree_previous
    <2>. HIDE DEF start
    <2>3. found = {l \in 0 .. start : Lower(key, l) # {}}
      <3>1. ASSUME NEW l \in 0 .. start, l # start, count[Path(key, l)] = 1
            PROVE  Lower(key, l) = {}
        <4>1. l \in 0 .. LevelCount - 1 /\ l + 1 \in 1 .. start
          BY <2>1, <3>1, LevelsAreNumbers
        <4>. QED
          BY <2>1, <3>1, <4>1, SkippedHasNoLower
      <3>2. {start} \cup Climb(key, start)
              = {l \in 0 .. start : l = start \/ count[Path(key, l)] # 1}
        BY <2>1 DEF Climb
      <3>. QED
        BY <3>1, <3>2
    <2>. HIDE DEF found
    <2>. DEFINE S == {l \in Int : NoneUpTo(key, l)}
    <2>4. ASSUME NEW a \in 0 .. LevelCount, a <= start + 1, \A l \in a .. start : l \notin found
          PROVE  NoneUpTo(key, a)
      <3>1. start + 1 \in S /\ a \in Int /\ start + 1 \in Int
        BY <2>1
      <3>2. ASSUME NEW l \in a .. (start + 1) - 1, l + 1 \in S PROVE l \in S
        <4>1. l \in a .. start /\ l \in 0 .. start /\ l \in 0 .. LevelCount - 1
          BY <2>1, LevelsAreNumbers
        <4>2. Lower(key, l) = {}
          BY <2>3, <2>4, <4>1
        <4>3. NoneUpTo(key, l)
          BY <3>2, <4>1, <4>2, NoneUpToAbove
        <4>. QED
          BY <4>1, <4>3
      <3>. HIDE DEF S
      <3>3. \A l \in a .. start + 1 : l \in S
        BY <3>1, <3>2, DownInduction
      <3>4. a \in a .. start + 1
        BY <2>1, <2>4
      <3>. QED
        BY <3>3, <3>4 DEF S
    <2>5. CASE found = {}
      <3>1. NoneUpTo(key, 0)
        BY <2>1, <2>4, <2>5, LevelsAreNumbers
      <3>2. before = {}
        <4>1. \A m \in Mapped : Bits(m, 0) = 0 /\ Bits(key, 0) = 0
          BY <1>0, BitsEnds
        <4>. QED
          BY <1>1, <3>1, <4>1 DEF NoneUpTo
      <3>. QED
        BY <2>2, <2>5, <3>2 DEF before
    <2>6. CASE found # {}
      <3>. DEFINE f == Max(found)
      <3>1. f \in found /\ \A l \in found : l <= f
        <4>1. found \in SUBSET Int /\ start \in Int /\ \A l \in found : l <= start
          BY <2>1, <2>3
        <4>. QED
          BY <2>6, <4>1, MaxOfBounded
      <3>. HIDE DEF f
      <3>2. f \in 0 .. start /\ Lower(key, f) # {}
        BY <2>3, <3>1
      <3>3. f \in 0 .. LevelCount - 1 /\ f + 1 \in 0 .. LevelCount /\ f + 1 <= start + 1
        BY <2>1, <3>2, LevelsAreNumbers
      <3>4. NoneUpTo(key, f + 1)
        <4>1. \A l \in f + 1 .. start : l \notin found
          BY <3>1, <3>3
        <4>. QED
          BY <2>4, <3>3, <4>1
      <3>5. PICK M \in Mapped :
               /\ M <= key /\ \A m \in Mapped : m <= key => m <= M
               /\ radix_tree_last(Child(Path(key, f), Max(Lower(key, f)))) = map[M]
        BY <3>2, <3>3, <3>4, FoundPrecedes
      <3>6. before # {} /\ Max(before) = M
        BY <1>2, <3>5
      <3>. QED
        BY <2>2, <2>6, <3>5, <3>6 DEF before, f
    <2>. QED
      BY <2>5, <2>6
  <1>. QED
    BY <1>3, <1>4

\* The types: every node but the root hangs in its parent.
LEMMA TreeTypes ==
  ASSUME TreeInv
  PROVE  TreeTypeOK
  <1>0. Mapped \subseteq AllKeys
    BY DEF Mapped
  <1>1. nodes \subseteq {Root} \cup UNION {Inner(k) : k \in AllKeys}
    BY <1>0 DEF TreeInv, NodesAreWays, Inner
  <1>2. ASSUME NEW n \in nodes, n # Root PROVE Parent(n) \in nodes
    <2>1. PICK m \in Mapped, l \in 1 .. LevelCount - 1 : n = Path(m, l)
      BY <1>2 DEF TreeInv, NodesAreWays
    <2>2. l - 1 \in 0 .. LevelCount - 1 /\ (l - 1) + 1 = l
      BY LevelsAreNumbers
    <2>3. Parent(n) = Path(m, l - 1)
      BY <1>0, <2>1, <2>2, PathSteps
    <2>. QED
      BY <2>2, <2>3, NodesHave DEF TreeInv
  <1>. QED
    BY <1>0, <1>1, <1>2 DEF TreeTypeOK, TreeInv

-----------------------------------------------------------------------------
\* The nodes of the tree are the root and those on the ways to mapped keys,
\* the slots hold what is mapped, and a count is the number of slots in use
\* but in leaves with overwritten keys: for every size of nodes and keys, as
\* long as an allocation that fails is the first of its insertion and callers
\* remove only keys that they inserted once.
THEOREM TreeInvariant ==
  ASSUME FailAfter \subseteq {0}, ~RemoveAny
  PROVE  TreeSpec => [](TreeTypeOK /\ TreeInv)
  <1>1. TreeInit => TreeInv
    BY TreeStart
  <1>2. TreeInv /\ [TreeNext]_treeVars => TreeInv'
    BY TreeStep
  <1>3. TreeInv => TreeTypeOK
    BY TreeTypes
  <1>. QED
    BY <1>1, <1>2, <1>3, PTL DEF TreeSpec

\* radix_tree_lookup_prev finds the value of the key or of the preceding one.
THEOREM LookupPrevIsExact ==
  ASSUME FailAfter \subseteq {0}, ~RemoveAny
  PROVE  TreeSpec => []LookupPrevExact
  <1>1. TreeInv => LookupPrevExact
    BY LookupPrevHolds
  <1>. QED
    BY <1>1, TreeInvariant, PTL

-----------------------------------------------------------------------------
(* Sequences                                                               *)

\* What InsertAt makes
LEMMA InsertAtOK ==
  ASSUME NEW S, NEW s \in Seq(S), NEW i \in 1 .. Len(s) + 1, NEW e \in S
  PROVE  /\ InsertAt(s, i, e) \in Seq(S)
         /\ Len(InsertAt(s, i, e)) = Len(s) + 1
         /\ \A j \in 1 .. Len(s) + 1 :
              InsertAt(s, i, e)[j] = IF j < i THEN s[j] ELSE IF j = i THEN e ELSE s[j - 1]
  <1>. DEFINE a == SubSeq(s, 1, i - 1)
              b == SubSeq(s, i, Len(s))
              ae == a \o <<e>>
  <1>0. Len(s) \in Nat /\ i \in Nat /\ i - 1 \in Nat /\ \A j \in 1 .. Len(s) : s[j] \in S
    BY LenProperties, ElementOfSeq
  <1>1. a \in Seq(S) /\ Len(a) = i - 1 /\ \A j \in 1 .. i - 1 : a[j] = s[j]
    <2>1. \A j \in 1 .. i - 1 : s[j] \in S
      BY <1>0
    <2>2. /\ a \in Seq(S) /\ Len(a) = IF 1 <= i - 1 THEN (i - 1) - 1 + 1 ELSE 0
          /\ \A j \in 1 .. (i - 1) - 1 + 1 : a[j] = s[1 + j - 1]
      BY <1>0, <2>1, SubSeqProperties
    <2>. QED
      BY <1>0, <2>2
  <1>2. /\ b \in Seq(S) /\ Len(b) = Len(s) - i + 1
        /\ \A j \in 1 .. Len(s) - i + 1 : b[j] = s[i + j - 1]
    <2>1. \A j \in i .. Len(s) : s[j] \in S
      BY <1>0
    <2>2. /\ b \in Seq(S) /\ Len(b) = IF i <= Len(s) THEN Len(s) - i + 1 ELSE 0
          /\ \A j \in 1 .. Len(s) - i + 1 : b[j] = s[i + j - 1]
      BY <1>0, <2>1, SubSeqProperties
    <2>. QED
      BY <1>0, <2>2
  <1>3. <<e>> \in Seq(S) /\ Len(<<e>>) = 1 /\ <<e>>[1] = e
    OBVIOUS
  <1>4. ae \in Seq(S) /\ Len(ae) = i /\ \A j \in 1 .. i : ae[j] = IF j < i THEN s[j] ELSE e
    <2>1. /\ ae \in Seq(S) /\ Len(ae) = Len(a) + Len(<<e>>)
          /\ \A j \in 1 .. Len(a) + Len(<<e>>) :
               ae[j] = IF j <= Len(a) THEN a[j] ELSE <<e>>[j - Len(a)]
      <3>. HIDE DEF a
      <3>. QED
        BY <1>1, <1>3, ConcatProperties
    <2>. HIDE DEF a, ae
    <2>. QED
      BY SMTT(30), <1>0, <1>1, <1>3, <2>1
  <1>5. /\ ae \o b \in Seq(S) /\ Len(ae \o b) = Len(ae) + Len(b)
        /\ \A j \in 1 .. Len(ae) + Len(b) :
             (ae \o b)[j] = IF j <= Len(ae) THEN ae[j] ELSE b[j - Len(ae)]
    <2>. HIDE DEF ae, b
    <2>. QED
      BY <1>2, <1>4, ConcatProperties
  <1>6. InsertAt(s, i, e) = ae \o b
    BY DEF InsertAt
  <1>. HIDE DEF a, b, ae
  <1>7. Len(ae) + Len(b) = Len(s) + 1
    BY <1>0, <1>2, <1>4
  <1>8. ASSUME NEW j \in 1 .. Len(s) + 1
        PROVE  (ae \o b)[j] = IF j < i THEN s[j] ELSE IF j = i THEN e ELSE s[j - 1]
    <2>1. CASE j <= i
      BY <1>0, <1>4, <1>5, <1>7, <2>1
    <2>2. CASE ~(j <= i)
      <3>1. (ae \o b)[j] = b[j - i]
        BY <1>0, <1>4, <1>5, <1>7, <2>2
      <3>2. j - i \in 1 .. Len(s) - i + 1 /\ i + (j - i) - 1 = j - 1
        BY <1>0, <2>2
      <3>. QED
        BY <1>0, <1>2, <2>2, <3>1, <3>2
    <2>. QED
      BY <2>1, <2>2
  <1>. QED
    BY <1>5, <1>6, <1>7, <1>8

-----------------------------------------------------------------------------
(* Basic blocks                                                            *)

\* The values that basic blocks have
Blocks == [start : Nat, end : Nat, succ : Seq(Nat), target : Nat]

\* The code of a method: it ends with a return and its branches stay inside.
IsMethod(c) ==
  /\ c \in Seq(Instructions) /\ c # <<>>
  /\ c[Len(c)].op = "return"
  /\ \A i \in 1 .. Len(c) : IsBranch(c[i]) => c[i].target \in 1 .. Len(c)

\* The blocks are the code, cut into pieces.
Tiles(c, b) ==
  /\ b \in Seq(Blocks) /\ b # <<>>
  /\ b[1].start = 1 /\ b[Len(b)].end = Len(c) + 1
  /\ \A k \in 1 .. Len(b) :
       b[k].start < b[k].end /\ (k < Len(b) => b[k].end = b[k + 1].start)

\* Where the blocks begin
Starts(b) == {b[k].start : k \in 1 .. Len(b)}

\* The branch and the successors of a block are those of its last instruction,
\* apart from the target.
Labelled(c, bb) ==
  LET last == c[bb.end - 1]
  IN  /\ bb.target = IF IsBranch(last) THEN last.target ELSE 0
      /\ bb.succ = IF last.op \in {"goto", "return"} THEN <<>> ELSE <<bb.end>>

\* Numbers and elements of a sequence of blocks
LEMMA BlocksOK ==
  ASSUME NEW c, NEW b, Tiles(c, b)
  PROVE  /\ Len(b) \in Nat /\ Len(b) >= 1 /\ DOMAIN b = 1 .. Len(b)
         /\ \A k \in 1 .. Len(b) : b[k] \in Blocks
         /\ \A k \in 1 .. Len(b) : b[k].start \in Nat /\ b[k].end \in Nat
  <1>1. b \in Seq(Blocks) /\ b # <<>>
    BY DEF Tiles
  <1>2. Len(b) \in Nat /\ Len(b) >= 1 /\ DOMAIN b = 1 .. Len(b)
    BY <1>1, EmptySeq, LenProperties
  <1>3. \A k \in 1 .. Len(b) : b[k] \in Blocks
    BY <1>1, ElementOfSeq
  <1>. QED
    BY <1>2, <1>3 DEF Blocks

\* The blocks are in order.
LEMMA BlocksInOrder ==
  ASSUME NEW c, NEW b, Tiles(c, b), NEW j \in 1 .. Len(b), NEW k \in 1 .. Len(b), j < k
  PROVE  b[j].end <= b[k].start
  <1>. DEFINE T == {n \in Nat : j + 1 + n <= Len(b) => b[j].end <= b[j + 1 + n].start}
  <1>0. Len(b) \in Nat /\ b[j].end \in Nat /\ j \in Int /\ (j < Len(b) => b[j].end = b[j + 1].start)
    <2>1. j < Len(b) => b[j].end = b[j + 1].start
      BY DEF Tiles
    <2>. QED
      BY <2>1, BlocksOK
  <1>1. 0 \in T
    <2>1. ASSUME j + 1 + 0 <= Len(b) PROVE b[j].end <= b[j + 1 + 0].start
      <3>1. j < Len(b) /\ j + 1 + 0 = j + 1
        BY <1>0, <2>1
      <3>. QED
        BY <1>0, <3>1
    <2>. QED
      BY <2>1
  <1>2. ASSUME NEW n \in Nat, n \in T PROVE n + 1 \in T
    <2>. SUFFICES ASSUME j + 1 + (n + 1) <= Len(b)
                  PROVE  b[j].end <= b[j + 1 + (n + 1)].start
      OBVIOUS
    <2>. DEFINE m == j + 1 + n
    <2>1. m \in 1 .. Len(b) /\ m + 1 \in 1 .. Len(b) /\ m < Len(b) /\ j + 1 + (n + 1) = m + 1
      BY BlocksOK
    <2>2. b[j].end <= b[m].start
      BY <1>2, <2>1
    <2>3. b[m].start < b[m].end /\ b[m].end = b[m + 1].start
      BY <2>1 DEF Tiles
    <2>4. b[m].start \in Nat /\ b[m].end \in Nat /\ b[j].end \in Nat
      BY <2>1, BlocksOK
    <2>. HIDE DEF m
    <2>5. b[j].end <= b[m + 1].start
      BY <2>2, <2>3, <2>4
    <2>. QED
      BY <2>1, <2>5
  <1>. HIDE DEF T
  <1>3. k - (j + 1) \in T
    <2>1. k - (j + 1) \in Nat
      BY BlocksOK
    <2>. QED
      BY <1>1, <1>2, <2>1, SetInduction
  <1>. QED
    BY <1>3, BlocksOK DEF T

\* Starts and ends are in the code.
LEMMA BlocksInside ==
  ASSUME NEW c, NEW b, Tiles(c, b), Len(c) \in Nat, NEW k \in 1 .. Len(b)
  PROVE  /\ b[k].start \in 1 .. Len(c) /\ b[k].end \in 2 .. Len(c) + 1
         /\ b[k].end - 1 \in 1 .. Len(c)
         /\ b[k].end = IF k = Len(b) THEN Len(c) + 1 ELSE b[k + 1].start
  <1>1. b[k].start >= 1
    <2>1. CASE k = 1
      BY <2>1, BlocksOK DEF Tiles
    <2>2. CASE k # 1
      <3>1. 1 \in 1 .. Len(b) /\ 1 < k
        BY <2>2, BlocksOK
      <3>2. b[1].end <= b[k].start /\ b[1].start < b[1].end /\ b[1].start = 1
        BY <3>1, BlocksInOrder DEF Tiles
      <3>. QED
        BY <3>1, <3>2, BlocksOK
    <2>. QED
      BY <2>1, <2>2
  <1>2. b[k].end <= Len(c) + 1
    <2>1. CASE k = Len(b)
      BY <2>1, BlocksOK DEF Tiles
    <2>2. CASE k # Len(b)
      <3>1. Len(b) \in 1 .. Len(b) /\ k < Len(b)
        BY <2>2, BlocksOK
      <3>2. /\ b[k].end <= b[Len(b)].start /\ b[Len(b)].start < b[Len(b)].end
            /\ b[Len(b)].end = Len(c) + 1
        BY <3>1, BlocksInOrder DEF Tiles
      <3>. QED
        BY <3>1, <3>2, BlocksOK
    <2>. QED
      BY <2>1, <2>2
  <1>3. b[k].start < b[k].end /\ (k < Len(b) => b[k].end = b[k + 1].start)
    BY DEF Tiles
  <1>4. b[Len(b)].end = Len(c) + 1
    BY DEF Tiles
  <1>. QED
    BY <1>1, <1>2, <1>3, <1>4, BlocksOK

\* The starts of blocks are where blocks start: none is inside a block.
LEMMA NoStartInside ==
  ASSUME NEW c, NEW b, Tiles(c, b), NEW k \in 1 .. Len(b), NEW o \in Starts(b),
         b[k].start <= o, o < b[k].end
  PROVE  o = b[k].start
  <1>1. PICK j \in 1 .. Len(b) : o = b[j].start
    BY DEF Starts
  <1>2. b[j].start < b[j].end /\ b[k].start < b[k].end
    BY DEF Tiles
  <1>3. CASE j < k
    <2>1. b[j].end <= b[k].start
      BY <1>3, BlocksInOrder
    <2>. QED
      BY <1>1, <1>2, <2>1, BlocksOK
  <1>4. CASE k < j
    <2>1. b[k].end <= b[j].start
      BY <1>4, BlocksInOrder
    <2>. QED
      BY <1>1, <2>1, BlocksOK
  <1>. QED
    BY <1>1, <1>3, <1>4

\* find_bb finds the block of an offset.
LEMMA FindBbFinds ==
  ASSUME NEW c, NEW b, Tiles(c, b), Len(c) \in Nat, NEW o \in 1 .. Len(c)
  PROVE  /\ FindBb(b, o) \in 1 .. Len(b)
         /\ b[FindBb(b, o)].start <= o /\ o < b[FindBb(b, o)].end
  <1>1. ASSUME \A k \in 1 .. Len(b) : ~(b[k].start <= o /\ o < b[k].end) PROVE FALSE
    <2>. DEFINE S == {n \in Nat : n + 1 <= Len(b) => b[n + 1].end <= o}
    <2>1. 0 \in S
      <3>1. 1 \in 1 .. Len(b) /\ b[1].start = 1
        BY BlocksOK DEF Tiles
      <3>. QED
        BY <1>1, <3>1, BlocksOK
    <2>2. ASSUME NEW n \in Nat, n \in S PROVE n + 1 \in S
      <3>. SUFFICES ASSUME (n + 1) + 1 <= Len(b) PROVE b[(n + 1) + 1].end <= o
        OBVIOUS
      <3>1. n + 1 \in 1 .. Len(b) /\ (n + 1) + 1 \in 1 .. Len(b) /\ n + 1 < Len(b)
        BY BlocksOK
      <3>2. b[n + 1].end <= o /\ b[n + 1].end = b[(n + 1) + 1].start
        BY <2>2, <3>1 DEF Tiles
      <3>. QED
        BY <1>1, <3>1, <3>2, BlocksOK
    <2>. HIDE DEF S
    <2>3. Len(b) - 1 \in S
      <3>1. Len(b) - 1 \in Nat
        BY BlocksOK
      <3>2. \A n \in Nat : n \in S
        BY <2>1, <2>2, SetInduction
      <3>. QED
        BY <3>1, <3>2
    <2>4. b[Len(b)].end <= o
      BY <2>3, BlocksOK DEF S
    <2>. QED
      BY <2>4 DEF Tiles
  <1>2. PICK k \in DOMAIN b : b[k].start <= o /\ o < b[k].end
    BY <1>1, BlocksOK
  <1>3. /\ FindBb(b, o) \in DOMAIN b
        /\ b[FindBb(b, o)].start <= o /\ o < b[FindBb(b, o)].end
    BY <1>2 DEF FindBb
  <1>. QED
    BY <1>3, BlocksOK

\* What bb_split makes of the blocks
LEMMA BbSplitOK ==
  ASSUME NEW c, NEW b, Tiles(c, b), Len(c) \in Nat, NEW k \in 1 .. Len(b), NEW o \in Nat,
         b[k].start < o, o < b[k].end
  PROVE  LET d == BbSplit(b, k, o)
         IN  /\ Tiles(c, d) /\ Len(d) = Len(b) + 1
             /\ Starts(d) = Starts(b) \cup {o}
             /\ \A j \in 1 .. Len(b) + 1 :
                  d[j] = IF j < k THEN b[j]
                         ELSE IF j = k THEN BasicBlock(b[k].start, o, <<>>, 0)
                         ELSE IF j = k + 1 THEN [b[k] EXCEPT !.start = o] ELSE b[j - 1]
  <1>. DEFINE upper == BasicBlock(b[k].start, o, <<>>, 0)
              lower == [b[k] EXCEPT !.start = o]
              e == [b EXCEPT ![k] = upper]
              d == BbSplit(b, k, o)
  <1>0. /\ b \in Seq(Blocks) /\ b[k] \in Blocks /\ Len(b) \in Nat
        /\ \A j \in 1 .. Len(b) : b[j] \in Blocks /\ b[j].start \in Nat /\ b[j].end \in Nat
    BY BlocksOK DEF Tiles
  <1>1. /\ upper \in Blocks /\ upper.start = b[k].start /\ upper.end = o
        /\ lower \in Blocks /\ lower.start = o /\ lower.end = b[k].end
    <2>1. <<>> \in Seq(Nat) /\ 0 \in Nat /\ b[k].start \in Nat
      BY <1>0, EmptySeq
    <2>2. upper \in Blocks /\ upper.start = b[k].start /\ upper.end = o
      BY <2>1 DEF Blocks, BasicBlock
    <2>3. lower \in Blocks /\ lower.start = o /\ lower.end = b[k].end
      BY <1>0 DEF Blocks
    <2>. QED
      BY <2>2, <2>3
  <1>. HIDE DEF upper, lower
  <1>3. /\ e \in Seq(Blocks) /\ Len(e) = Len(b)
        /\ \A j \in 1 .. Len(b) : e[j] = IF j = k THEN upper ELSE b[j]
    BY <1>0, <1>1, ExceptSeq
  <1>. HIDE DEF e
  <1>4. d = InsertAt(e, k + 1, lower)
    BY DEF BbSplit, upper, lower, e
  <1>5. k + 1 \in 1 .. Len(e) + 1
    BY <1>0, <1>3
  <1>6. /\ d \in Seq(Blocks) /\ Len(d) = Len(b) + 1
        /\ \A j \in 1 .. Len(b) + 1 :
             d[j] = IF j < k + 1 THEN e[j] ELSE IF j = k + 1 THEN lower ELSE e[j - 1]
    <2>. HIDE DEF d
    <2>. DEFINE i == k + 1
    <2>1. i \in 1 .. Len(e) + 1
      BY <1>5
    <2>. HIDE DEF i
    <2>2. /\ InsertAt(e, i, lower) \in Seq(Blocks)
          /\ Len(InsertAt(e, i, lower)) = Len(e) + 1
          /\ \A j \in 1 .. Len(e) + 1 :
               InsertAt(e, i, lower)[j] =
                 IF j < i THEN e[j] ELSE IF j = i THEN lower ELSE e[j - 1]
      <3>1. e \in Seq(Blocks) /\ lower \in Blocks
        BY <1>1, <1>3
      <3>2. InsertAt(e, i, lower) \in Seq(Blocks)
        BY <2>1, <3>1, InsertAtOK
      <3>3. Len(InsertAt(e, i, lower)) = Len(e) + 1
        BY <2>1, <3>1, InsertAtOK
      <3>4. ASSUME NEW j \in 1 .. Len(e) + 1
            PROVE  InsertAt(e, i, lower)[j] =
                     IF j < i THEN e[j] ELSE IF j = i THEN lower ELSE e[j - 1]
        BY <2>1, <3>1, InsertAtOK
      <3>. QED
        BY <3>2, <3>3, <3>4
    <2>3. d = InsertAt(e, i, lower) /\ Len(e) = Len(b)
      BY <1>3, <1>4 DEF i
    <2>4. /\ d \in Seq(Blocks) /\ Len(d) = Len(b) + 1
          /\ \A j \in 1 .. Len(b) + 1 :
               d[j] = IF j < i THEN e[j] ELSE IF j = i THEN lower ELSE e[j - 1]
      BY <2>2, <2>3
    <2>. QED
      BY <2>4 DEF i
  <1>. HIDE DEF d
  <1>7. ASSUME NEW j \in 1 .. Len(b) + 1
        PROVE  d[j] = IF j < k THEN b[j] ELSE IF j = k THEN upper
                      ELSE IF j = k + 1 THEN lower ELSE b[j - 1]
    <2>1. CASE j < k
      <3>1. j \in 1 .. Len(b) /\ j < k + 1 /\ j # k
        BY <1>0, <2>1
      <3>. QED
        BY <1>3, <1>6, <2>1, <3>1
    <2>2. CASE j = k
      BY <1>0, <1>3, <1>6, <2>2
    <2>3. CASE j = k + 1
      BY <1>0, <1>6, <2>3
    <2>4. CASE j > k + 1
      <3>1. j - 1 \in 1 .. Len(b) /\ j - 1 # k /\ ~(j < k + 1) /\ j # k + 1 /\ ~(j < k) /\ j # k
        BY <1>0, <2>4
      <3>. QED
        BY SMTT(30), <1>3, <1>6, <3>1
    <2>. QED
      BY <1>0, <2>1, <2>2, <2>3, <2>4
  <1>8. Tiles(c, d)
    <2>1. d \in Seq(Blocks) /\ d # <<>>
      BY <1>0, <1>6
    <2>2. d[1].start = 1
      <3>1. 1 \in 1 .. Len(b) + 1 /\ b[1].start = 1
        BY <1>0 DEF Tiles
      <3>. QED
        BY <1>0, <1>1, <1>7, <3>1
    <2>3. d[Len(d)].end = Len(c) + 1
      <3>1. Len(b) + 1 \in 1 .. Len(b) + 1 /\ b[Len(b)].end = Len(c) + 1
        BY <1>0 DEF Tiles
      <3>. QED
        BY <1>0, <1>1, <1>6, <1>7, <3>1
    <2>4. ASSUME NEW j \in 1 .. Len(d)
          PROVE  d[j].start < d[j].end /\ (j < Len(d) => d[j].end = d[j + 1].start)
      <3>0. j \in 1 .. Len(b) + 1
        BY <1>6
      <3>1. CASE j < k
        <4>1. j \in 1 .. Len(b) /\ j < Len(b) /\ j + 1 \in 1 .. Len(b) + 1 /\ j + 1 <= k
          BY <1>0, <3>1
        <4>2. b[j].start < b[j].end /\ b[j].end = b[j + 1].start
          BY <4>1 DEF Tiles
        <4>3. d[j] = b[j]
          BY <1>7, <3>0, <3>1
        <4>4. d[j + 1].start = b[j + 1].start
          <5>1. CASE j + 1 < k
            BY <1>7, <4>1, <5>1
          <5>2. CASE j + 1 = k
            <6>1. ~(j + 1 < k)
              BY <1>0, <5>2
            <6>2. d[j + 1] = upper
              BY <1>7, <4>1, <5>2, <6>1
            <6>. QED
              BY <1>1, <5>2, <6>2
          <5>. QED
            BY <1>0, <4>1, <5>1, <5>2
        <4>. QED
          BY <4>2, <4>3, <4>4
      <3>2. CASE j = k
        <4>1. k + 1 \in 1 .. Len(b) + 1
          BY <1>0
        <4>. QED
          <5>1. d[k] = upper
            BY <1>0, <1>7, <3>0, <3>2
          <5>2. d[k + 1] = lower
            BY <1>0, <1>7, <4>1
          <5>. QED
            BY <1>1, <3>2, <5>1, <5>2
      <3>3. CASE j = k + 1
        <4>1. d[j] = lower
          BY <1>0, <1>7, <3>0, <3>3
        <4>2. ASSUME j < Len(d) PROVE b[k].end = b[k + 1].start /\ d[j + 1] = b[k + 1]
          <5>1. k < Len(b) /\ j + 1 \in 1 .. Len(b) + 1 /\ ~(j + 1 < k) /\ j + 1 # k
                /\ j + 1 # k + 1 /\ (j + 1) - 1 = k + 1
            BY <1>0, <1>6, <3>3, <4>2
          <5>. QED
            BY <1>7, <5>1 DEF Tiles
        <4>. QED
          BY <1>1, <4>1, <4>2
      <3>4. CASE j > k + 1
        <4>1. j - 1 \in 1 .. Len(b)
          BY <1>0, <3>0, <3>4
        <4>2. d[j] = b[j - 1]
          BY <1>0, <1>7, <3>0, <3>4
        <4>3. ASSUME j < Len(d) PROVE b[j - 1].end = b[j].start /\ d[j + 1] = b[j]
          <5>1. j - 1 < Len(b) /\ (j - 1) + 1 = j /\ (j + 1) - 1 = j /\ j + 1 \in 1 .. Len(b) + 1
                /\ ~(j + 1 < k) /\ j + 1 # k /\ j + 1 # k + 1
            BY <1>0, <1>6, <3>0, <3>4, <4>3
          <5>. QED
            BY SMTT(30), <1>7, <4>1, <5>1 DEF Tiles
        <4>4. b[j - 1].start < b[j - 1].end
          BY <4>1 DEF Tiles
        <4>. QED
          BY <4>2, <4>3, <4>4
      <3>. QED
        BY <1>0, <3>0, <3>1, <3>2, <3>3, <3>4
    <2>. QED
      BY <2>1, <2>2, <2>3, <2>4 DEF Tiles
  <1>9. Starts(d) = Starts(b) \cup {o}
    <2>1. ASSUME NEW j \in 1 .. Len(b) + 1 PROVE d[j].start \in Starts(b) \cup {o}
      <3>1. CASE j <= k
        <4>1. j \in 1 .. Len(b)
          BY <1>0, <3>1
        <4>2. d[j].start = b[j].start
          BY <1>0, <1>1, <1>7, <3>1
        <4>. QED
          BY <4>1, <4>2 DEF Starts
      <3>2. CASE j = k + 1
        BY <1>0, <1>1, <1>7, <3>2
      <3>3. CASE j > k + 1
        <4>1. j - 1 \in 1 .. Len(b) /\ ~(j < k) /\ j # k /\ j # k + 1
          BY <1>0, <3>3
        <4>2. d[j] = b[j - 1]
          BY <1>7, <4>1
        <4>. QED
          BY <4>1, <4>2 DEF Starts
      <3>. QED
        BY <1>0, <3>1, <3>2, <3>3
    <2>2. ASSUME NEW j \in 1 .. Len(b) PROVE b[j].start \in Starts(d)
      <3>1. CASE j <= k
        <4>1. j \in 1 .. Len(b) + 1
          BY <1>0
        <4>2. d[j].start = b[j].start
          BY <1>0, <1>1, <1>7, <3>1, <4>1
        <4>. QED
          BY <1>6, <4>1, <4>2 DEF Starts
      <3>2. CASE j > k
        <4>1. j + 1 \in 1 .. Len(b) + 1 /\ d[j + 1] = b[j]
          <5>1. j + 1 \in 1 .. Len(b) + 1 /\ ~(j + 1 < k) /\ j + 1 # k /\ j + 1 # k + 1
                /\ (j + 1) - 1 = j
            BY <1>0, <3>2
          <5>. QED
            BY <1>7, <5>1
        <4>. QED
          BY <1>6, <4>1 DEF Starts
      <3>. QED
        BY <1>0, <3>1, <3>2
    <2>3. o \in Starts(d)
      <3>1. k + 1 \in 1 .. Len(b) + 1 /\ d[k + 1].start = o
        BY <1>0, <1>1, <1>7
      <3>. QED
        BY <1>6, <3>1 DEF Starts
    <2>4. Starts(d) \subseteq Starts(b) \cup {o}
      BY <1>6, <2>1 DEF Starts
    <2>5. Starts(b) \subseteq Starts(d)
      BY <2>2 DEF Starts
    <2>. QED
      BY <2>3, <2>4, <2>5
  <1>. QED
    BY <1>6, <1>7, <1>8, <1>9 DEF d, upper, lower

\* Successors and targets do not matter for the pieces.
LEMMA Relabel ==
  ASSUME NEW c, NEW b, Tiles(c, b), NEW d \in Seq(Blocks), Len(d) = Len(b),
         \A j \in 1 .. Len(b) : d[j].start = b[j].start /\ d[j].end = b[j].end
  PROVE  Tiles(c, d) /\ Starts(d) = Starts(b)
  <1>1. Len(b) \in Nat /\ Len(b) >= 1
    BY BlocksOK
  <1>2. d # <<>>
    BY <1>1
  <1>3. 1 \in 1 .. Len(b) /\ Len(b) \in 1 .. Len(b)
    BY <1>1
  <1>4. d[1].start = 1 /\ d[Len(d)].end = Len(c) + 1
    BY <1>3 DEF Tiles
  <1>5. ASSUME NEW j \in 1 .. Len(d)
        PROVE  d[j].start < d[j].end /\ (j < Len(d) => d[j].end = d[j + 1].start)
    <2>1. j < Len(d) => j + 1 \in 1 .. Len(b)
      BY <1>1
    <2>. QED
      BY <2>1 DEF Tiles
  <1>. QED
    BY <1>2, <1>4, <1>5 DEF Tiles, Starts

-----------------------------------------------------------------------------
(* split_after_branches                                                    *)

\* Where the first n instructions end blocks
Cuts(c, n) ==
  {1} \cup {i + 1 : i \in {j \in 1 .. n : EndsBasicBlock(c[j]) /\ j < Len(c)}}

\* The blocks after n rounds of split_after_branches: the last one is still to
\* be cut.
AfterBranches(c, n, b) ==
  /\ Tiles(c, b) /\ Starts(b) = Cuts(c, n)
  /\ b[Len(b)].succ = <<>> /\ b[Len(b)].target = 0
  /\ \A k \in 1 .. Len(b) - 1 : Labelled(c, b[k])

\* The instructions of a method
LEMMA MethodOK ==
  ASSUME NEW c, IsMethod(c)
  PROVE  /\ Len(c) \in Nat /\ Len(c) >= 1 /\ DOMAIN c = 1 .. Len(c)
         /\ \A i \in 1 .. Len(c) :
              /\ c[i] \in Instructions /\ c[i].target \in Nat
              /\ c[i].in \subseteq Vregs /\ c[i].out \subseteq Vregs
  <1>1. c \in Seq(Instructions) /\ c # <<>>
    BY DEF IsMethod
  <1>2. Len(c) \in Nat /\ Len(c) >= 1 /\ DOMAIN c = 1 .. Len(c)
    BY <1>1, EmptySeq, LenProperties
  <1>3. \A i \in 1 .. Len(c) : c[i] \in Instructions
    BY <1>1, ElementOfSeq
  <1>. QED
    BY <1>2, <1>3 DEF Instructions

\* The entry block
LEMMA AfterNoBranch ==
  ASSUME NEW c, IsMethod(c)
  PROVE  AfterBranches(c, 0, <<BasicBlock(1, Len(c) + 1, <<>>, 0)>>)
  <1>. DEFINE bb == BasicBlock(1, Len(c) + 1, <<>>, 0)
              b == <<bb>>
  <1>1. bb \in Blocks /\ bb.start = 1 /\ bb.end = Len(c) + 1 /\ bb.succ = <<>> /\ bb.target = 0
    <2>1. <<>> \in Seq(Nat) /\ Len(c) + 1 \in Nat
      BY EmptySeq, MethodOK
    <2>. QED
      BY <2>1 DEF Blocks, BasicBlock
  <1>. HIDE DEF bb
  <1>2. b \in Seq(Blocks) /\ Len(b) = 1 /\ b[1] = bb /\ b # <<>>
    BY <1>1
  <1>. HIDE DEF b
  <1>3. Tiles(c, b)
    BY <1>1, <1>2, MethodOK DEF Tiles
  <1>4. Starts(b) = {1}
    BY <1>1, <1>2 DEF Starts
  <1>5. Cuts(c, 0) = {1}
    BY DEF Cuts
  <1>6. \A k \in 1 .. Len(b) - 1 : Labelled(c, b[k])
    BY <1>2
  <1>. QED
    BY <1>1, <1>2, <1>3, <1>4, <1>5, <1>6 DEF AfterBranches, b, bb

\* One more place where a block may end
LEMMA CutsGrow ==
  ASSUME NEW c, IsMethod(c), NEW n \in 1 .. Len(c)
  PROVE  /\ EndsBasicBlock(c[n]) /\ n < Len(c) => Cuts(c, n) = Cuts(c, n - 1) \cup {n + 1}
         /\ ~(EndsBasicBlock(c[n]) /\ n < Len(c)) => Cuts(c, n) = Cuts(c, n - 1)
         /\ \A o \in Cuts(c, n - 1) : o \in Nat /\ o <= n
  <1>. DEFINE E(m) == {j \in 1 .. m : EndsBasicBlock(c[j]) /\ j < Len(c)}
  <1>0. n \in Nat /\ Len(c) \in Nat
    BY MethodOK
  <1>1. EndsBasicBlock(c[n]) /\ n < Len(c) => E(n) = E(n - 1) \cup {n}
    BY <1>0
  <1>2. ~(EndsBasicBlock(c[n]) /\ n < Len(c)) => E(n) = E(n - 1)
    BY <1>0
  <1>3. \A m : Cuts(c, m) = {1} \cup {i + 1 : i \in E(m)}
    BY DEF Cuts
  <1>4. \A i \in E(n - 1) : i + 1 \in Nat /\ i + 1 <= n
    BY <1>0
  <1>. HIDE DEF E
  <1>5. EndsBasicBlock(c[n]) /\ n < Len(c) => Cuts(c, n) = Cuts(c, n - 1) \cup {n + 1}
    BY <1>1, <1>3
  <1>6. ~(EndsBasicBlock(c[n]) /\ n < Len(c)) => Cuts(c, n) = Cuts(c, n - 1)
    BY <1>2, <1>3
  <1>7. \A o \in Cuts(c, n - 1) : o \in Nat /\ o <= n
    BY <1>0, <1>3, <1>4
  <1>. QED
    BY <1>5, <1>6, <1>7

\* A round of split_after_branches
LEMMA SplitAfterOK ==
  ASSUME NEW c, IsMethod(c), NEW n \in 1 .. Len(c), NEW b, AfterBranches(c, n - 1, b)
  PROVE  AfterBranches(c, n, SplitAfter(c, b, n))
  <1>. DEFINE k == Len(b)
              next == n + 1
              cut == BbSplit(b, k, next)
              linked == IF c[n].op = "if" THEN BbAddSuccessor(cut, k, next) ELSE cut
              d == SplitAfter(c, b, n)
              insn == c[n]
  <1>0. /\ Tiles(c, b) /\ Starts(b) = Cuts(c, n - 1) /\ Len(c) \in Nat /\ n \in Nat
        /\ b[k].succ = <<>> /\ b[k].target = 0 /\ k \in 1 .. Len(b) /\ k \in Nat
        /\ b[k].end = Len(c) + 1 /\ b[k] \in Blocks /\ b[k].start \in Nat
        /\ insn \in Instructions /\ insn.target \in Nat
    BY MethodOK, BlocksOK DEF AfterBranches, Tiles
  <1>1. CASE ~(EndsBasicBlock(insn) /\ n < Len(c))
    <2>1. n = Len(c) => ~IsBranch(insn) /\ insn.op # "if"
      BY DEF IsMethod, IsBranch
    <2>2. n # Len(c) => ~EndsBasicBlock(insn)
      BY <1>0, <1>1
    <2>3. n = Len(c) => next = b[k].end
      BY <1>0
    <2>4. d = b
      <3>1. CASE n = Len(c)
        BY <2>1, <2>3, <3>1 DEF SplitAfter
      <3>2. CASE n # Len(c)
        BY <2>2, <3>2 DEF SplitAfter, EndsBasicBlock
      <3>. QED
        BY <3>1, <3>2
    <2>5. Cuts(c, n) = Cuts(c, n - 1)
      BY <1>1, CutsGrow
    <2>. HIDE DEF d
    <2>. QED
      BY <2>4, <2>5 DEF AfterBranches, d
  <1>2. CASE EndsBasicBlock(insn) /\ n < Len(c)
    <2>1. b[k].start < next /\ next < b[k].end /\ next \in Nat /\ next # b[k].end
      <3>1. b[k].start \in Starts(b)
        BY <1>0 DEF Starts
      <3>2. b[k].start <= n
        BY <1>0, <3>1, CutsGrow
      <3>. QED
        BY <1>0, <1>2, <3>2
    <2>2. /\ Tiles(c, cut) /\ Len(cut) = k + 1 /\ Starts(cut) = Starts(b) \cup {next}
          /\ \A j \in 1 .. k + 1 :
               cut[j] = IF j < k THEN b[j]
                        ELSE IF j = k THEN BasicBlock(b[k].start, next, <<>>, 0)
                        ELSE IF j = k + 1 THEN [b[k] EXCEPT !.start = next] ELSE b[j - 1]
      <3>1. /\ Tiles(c, b) /\ k \in 1 .. Len(b) /\ Len(c) \in Nat /\ next \in Nat
            /\ b[k].start < next /\ next < b[k].end
        BY <1>0, <2>1
      <3>2. Len(b) = k
        OBVIOUS
      <3>. HIDE DEF k, next
      <3>3. LET e == BbSplit(b, k, next)
            IN  /\ Tiles(c, e) /\ Len(e) = Len(b) + 1
                /\ Starts(e) = Starts(b) \cup {next}
                /\ \A j \in 1 .. Len(b) + 1 :
                     e[j] = IF j < k THEN b[j]
                            ELSE IF j = k THEN BasicBlock(b[k].start, next, <<>>, 0)
                            ELSE IF j = k + 1 THEN [b[k] EXCEPT !.start = next] ELSE b[j - 1]
        BY <3>1, BbSplitOK
      <3>. QED
        BY <3>2, <3>3
    <2>3. d = IF IsBranch(insn) THEN [linked EXCEPT ![k].target = insn.target] ELSE linked
      BY <1>2, <2>1 DEF SplitAfter
    <2>4. /\ cut \in Seq(Blocks) /\ k \in 1 .. Len(cut) /\ cut[k] \in Blocks
          /\ cut[k] = BasicBlock(b[k].start, next, <<>>, 0)
      <3>1. k \in 1 .. k + 1 /\ ~(k < k)
        BY <1>0
      <3>. HIDE DEF cut, k
      <3>2. cut \in Seq(Blocks) /\ \A j \in 1 .. Len(cut) : cut[j] \in Blocks
        BY <2>2, BlocksOK DEF Tiles
      <3>. QED
        BY <2>2, <3>1, <3>2
    <2>. HIDE DEF cut, d, next
    <2>. DEFINE succ == IF insn.op = "if" THEN <<next>> ELSE <<>>
                target == IF IsBranch(insn) THEN insn.target ELSE 0
                bb == BasicBlock(b[k].start, next, succ, target)
    <2>5. bb \in Blocks /\ bb.start = b[k].start /\ bb.end = next
          /\ bb.succ = succ /\ bb.target = target
      <3>1. succ \in Seq(Nat) /\ target \in Nat
        BY <1>0, <2>1
      <3>. HIDE DEF succ, target
      <3>. QED
        BY <1>0, <2>1, <3>1 DEF Blocks, BasicBlock
    <2>6. d = [cut EXCEPT ![k] = bb]
      <3>1. linked = [cut EXCEPT ![k] = BasicBlock(b[k].start, next, succ, 0)]
        <4>1. CASE insn.op = "if"
          <5>1. linked = [cut EXCEPT ![k].succ = Append(@, next)]
            BY <4>1 DEF BbAddSuccessor
          <5>2. linked = [cut EXCEPT ![k] = [cut[k] EXCEPT !.succ = Append(cut[k].succ, next)]]
            BY <5>1
          <5>3. Append(<<>>, next) = <<next>>
            OBVIOUS
          <5>4. [cut[k] EXCEPT !.succ = Append(cut[k].succ, next)]
                  = BasicBlock(b[k].start, next, <<next>>, 0)
            BY <2>4, <5>3 DEF BasicBlock
          <5>. QED
            BY <4>1, <5>2, <5>4
        <4>2. CASE insn.op # "if"
          <5>1. linked = cut
            BY <4>2
          <5>2. cut = [cut EXCEPT ![k] = cut[k]]
            BY <2>4
          <5>. QED
            BY <2>4, <4>2, <5>1, <5>2
        <4>. QED
          BY <4>1, <4>2
      <3>. HIDE DEF linked, succ
      <3>2. CASE IsBranch(insn)
        <4>1. d = [linked EXCEPT ![k] = [linked[k] EXCEPT !.target = insn.target]]
          BY <2>3, <3>2
        <4>2. linked[k] = BasicBlock(b[k].start, next, succ, 0)
          BY <2>4, <3>1
        <4>3. [linked[k] EXCEPT !.target = insn.target] = bb
          BY <3>2, <4>2 DEF BasicBlock
        <4>. QED
          BY <3>1, <4>1, <4>3
      <3>3. CASE ~IsBranch(insn)
        BY <2>3, <3>1, <3>3
      <3>. QED
        BY <3>2, <3>3
    <2>. HIDE DEF bb, succ, target
    <2>7. /\ d \in Seq(Blocks) /\ Len(d) = Len(cut)
          /\ \A j \in 1 .. Len(cut) : d[j] = IF j = k THEN bb ELSE cut[j]
      BY <2>4, <2>5, <2>6, ExceptSeq
    <2>8. Tiles(c, d) /\ Starts(d) = Starts(cut)
      <3>1. cut[k].start = b[k].start /\ cut[k].end = next
        BY <2>4 DEF BasicBlock
      <3>2. \A j \in 1 .. Len(cut) : d[j].start = cut[j].start /\ d[j].end = cut[j].end
        BY <2>5, <2>7, <3>1
      <3>. QED
        BY <2>2, <2>7, <3>2, Relabel
    <2>9. Starts(d) = Cuts(c, n)
      <3>1. Cuts(c, n) = Cuts(c, n - 1) \cup {n + 1}
        BY <1>2, CutsGrow
      <3>. QED
        BY <1>0, <2>2, <2>8, <3>1 DEF next
    <2>10. d[Len(d)].succ = <<>> /\ d[Len(d)].target = 0
      <3>1. Len(d) = k + 1 /\ k + 1 \in 1 .. k + 1 /\ k + 1 # k /\ ~(k + 1 < k)
        BY <1>0, <2>2, <2>7
      <3>2. d[k + 1] = [b[k] EXCEPT !.start = next]
        BY <2>2, <2>7, <3>1
      <3>3. d[k + 1].succ = b[k].succ /\ d[k + 1].target = b[k].target
        BY <1>0, <3>2 DEF Blocks
      <3>. QED
        BY <1>0, <3>1, <3>3
    <2>11. ASSUME NEW j \in 1 .. Len(d) - 1 PROVE Labelled(c, d[j])
      <3>0. j \in 1 .. k /\ j \in 1 .. Len(cut)
        BY <1>0, <2>2, <2>7
      <3>1. CASE j = k
        <4>1. d[j] = bb
          BY <2>7, <3>0, <3>1
        <4>2. next - 1 = n
          BY <1>0 DEF next
        <4>3. insn.op \in {"if", "goto", "return"}
          BY <1>2 DEF EndsBasicBlock, IsBranch
        <4>4. succ = IF insn.op \in {"goto", "return"} THEN <<>> ELSE <<next>>
          BY <4>3 DEF succ
        <4>. QED
          BY <2>5, <4>1, <4>2, <4>4 DEF Labelled, target
      <3>2. CASE j # k
        <4>1. j < k /\ j \in 1 .. Len(b) - 1
          BY <1>0, <3>0, <3>2
        <4>2. d[j] = b[j]
          BY <2>2, <2>7, <3>0, <3>2, <4>1
        <4>. QED
          BY <4>1, <4>2 DEF AfterBranches
      <3>. QED
        BY <3>1, <3>2
    <2>12. AfterBranches(c, n, d)
      BY <2>8, <2>9, <2>10, <2>11 DEF AfterBranches
    <2>. QED
      BY <2>12 DEF d
  <1>. QED
    BY <1>1, <1>2

\* split_after_branches cuts the code behind every branch and return.
LEMMA SplitAfterBranchesOK ==
  ASSUME NEW c, IsMethod(c)
  PROVE  AfterBranches(c, Len(c), SplitAfterBranches(c))
  <1>. DEFINE N == Len(c)
              x == <<BasicBlock(1, Len(c) + 1, <<>>, 0)>>
              G == [n \in 0 .. N |-> {b \in Seq(Blocks) : AfterBranches(c, n, b)}]
              g == [p \in (1 .. N) \X Seq(Blocks) |-> SplitAfter(c, p[2], p[1])]
              Eq(h) == h = [offset \in 0 .. Len(c) |->
                              IF offset = 0 THEN x ELSE SplitAfter(c, h[offset - 1], offset)]
              after[offset \in 0 .. Len(c)] ==
                IF offset = 0 THEN <<BasicBlock(1, Len(c) + 1, <<>>, 0)>>
                ELSE SplitAfter(c, after[offset - 1], offset)
  <1>0. N \in Nat
    BY MethodOK
  <1>1. x \in G[0]
    <2>1. AfterBranches(c, 0, x)
      BY AfterNoBranch
    <2>2. x \in Seq(Blocks)
      BY <2>1 DEF AfterBranches, Tiles
    <2>. HIDE DEF x
    <2>. QED
      BY <1>0, <2>1, <2>2
  <1>2. ASSUME NEW n \in 1 .. N, NEW b \in G[n - 1] PROVE SplitAfter(c, b, n) \in G[n]
    <2>1. n - 1 \in 0 .. N /\ n \in 0 .. N
      BY <1>0
    <2>2. AfterBranches(c, n - 1, b)
      BY <2>1
    <2>3. AfterBranches(c, n, SplitAfter(c, b, n))
      BY <2>2, SplitAfterOK
    <2>4. SplitAfter(c, b, n) \in Seq(Blocks)
      BY <2>3 DEF AfterBranches, Tiles
    <2>. QED
      BY <2>1, <2>3, <2>4
  <1>3. PICK f : Recurs(f, N, x, G, g)
    <2>1. G \in [0 .. N -> SUBSET Seq(Blocks)]
      OBVIOUS
    <2>2. ASSUME NEW n \in 1 .. N, NEW b \in G[n - 1] PROVE g[<<n, b>>] \in G[n]
      <3>1. n - 1 \in 0 .. N
        BY <1>0
      <3>2. b \in Seq(Blocks)
        BY <3>1
      <3>3. g[<<n, b>>] = SplitAfter(c, b, n)
        BY <3>2
      <3>. QED
        BY <1>2, <3>3
    <2>. HIDE DEF G, g, x, N
    <2>3. Steps(N, x, G, g)
      BY <1>0, <1>1, <2>2 DEF Steps
    <2>. QED
      BY <2>1, <2>3, Recursion
  <1>4. Eq(f)
    <2>1. ASSUME NEW n \in 1 .. N PROVE f[n] = SplitAfter(c, f[n - 1], n)
      <3>1. n - 1 \in 0 .. N
        BY <1>0
      <3>2. f[n] = g[<<n, f[n - 1]>>] /\ f[n - 1] \in G[n - 1]
        <4>. HIDE DEF G, g, N, x
        <4>. QED
          BY <1>3, <3>1 DEF Recurs
      <3>3. f[n - 1] \in Seq(Blocks)
        BY <3>1, <3>2
      <3>. QED
        BY <3>2, <3>3
    <2>2. f[0] = x /\ f = [n \in 0 .. N |-> f[n]]
      <3>. HIDE DEF G, g, N, x
      <3>. QED
        BY <1>3 DEF Recurs
    <2>3. \A n \in 0 .. N : n = 0 \/ n \in 1 .. N
      BY <1>0
    <2>. HIDE DEF x, G, g
    <2>. QED
      BY <2>1, <2>2, <2>3
  <1>5. Eq(after)
    <2>1. after = CHOOSE h : Eq(h)
      OBVIOUS
    <2>. HIDE DEF Eq, after
    <2>. QED
      BY <1>4, <2>1
  <1>. HIDE DEF after
  <1>6. after[0] = x /\ \A n \in 1 .. N : after[n] = SplitAfter(c, after[n - 1], n)
    <2>. HIDE DEF x
    <2>1. after[0] = x
      BY <1>0, <1>5
    <2>2. ASSUME NEW n \in 1 .. N PROVE after[n] = SplitAfter(c, after[n - 1], n)
      <3>1. n \in 0 .. Len(c) /\ n # 0
        BY <1>0
      <3>. QED
        BY <1>5, <3>1
    <2>. QED
      BY <2>1, <2>2
  <1>7. after[N] \in G[N]
    <2>1. \A n \in 1 .. N : after[n - 1] \in G[n - 1] => after[n] \in G[n]
      BY <1>2, <1>6
    <2>2. after[0] \in G[0]
      BY <1>1, <1>6
    <2>3. N \in 0 .. N
      BY <1>0
    <2>. HIDE DEF G, N
    <2>4. \A n \in 0 .. N : after[n] \in G[n]
      BY <1>0, <2>1, <2>2, RecursionStays
    <2>. QED
      BY <2>3, <2>4
  <1>8. SplitAfterBranches(c) = after[N]
    BY DEF SplitAfterBranches, after
  <1>. QED
    BY <1>0, <1>7, <1>8

-----------------------------------------------------------------------------
(* split_at_branch_targets                                                 *)

\* The blocks after n rounds of split_at_branch_targets
AfterTargets(c, n, b) ==
  /\ Tiles(c, b)
  /\ Starts(b) = Cuts(c, Len(c)) \cup {t \in BranchTargets(c) : t <= n}
  /\ \A k \in 1 .. Len(b) : Labelled(c, b[k])

\* Branches go to instructions.
LEMMA TargetsInside ==
  ASSUME NEW c, IsMethod(c)
  PROVE  BranchTargets(c) \subseteq 1 .. Len(c)
  BY MethodOK DEF IsMethod, BranchTargets

\* The last block ends with the return, so that nothing is to be added to it.
LEMMA AfterNoTarget ==
  ASSUME NEW c, IsMethod(c), NEW b, AfterBranches(c, Len(c), b)
  PROVE  AfterTargets(c, 0, b)
  <1>1. {t \in BranchTargets(c) : t <= 0} = {}
    BY TargetsInside, MethodOK
  <1>2. ASSUME NEW k \in 1 .. Len(b) PROVE Labelled(c, b[k])
    <2>0. Tiles(c, b) /\ Len(b) \in Nat
      BY BlocksOK DEF AfterBranches
    <2>1. CASE k = Len(b)
      <3>1. b[k].end - 1 = Len(c)
        BY <2>0, <2>1, MethodOK DEF Tiles
      <3>2. c[Len(c)].op = "return" /\ ~IsBranch(c[Len(c)])
        BY DEF IsMethod, IsBranch
      <3>. QED
        BY <2>1, <3>1, <3>2 DEF AfterBranches, Labelled
    <2>2. CASE k # Len(b)
      <3>1. k \in 1 .. Len(b) - 1
        BY <2>0, <2>2
      <3>. QED
        BY <3>1 DEF AfterBranches
    <2>. QED
      BY <2>1, <2>2
  <1>. QED
    BY <1>1, <1>2 DEF AfterBranches, AfterTargets

\* A round of split_at_branch_targets
LEMMA SplitAtOK ==
  ASSUME NEW c, IsMethod(c), NEW n \in 1 .. Len(c), NEW b, AfterTargets(c, n - 1, b)
  PROVE  AfterTargets(c, n, SplitAt(c, b, n))
  <1>. DEFINE k == FindBb(b, n)
              cut == BbSplit(b, k, n)
              d == SplitAt(c, b, n)
              T(m) == {t \in BranchTargets(c) : t <= m}
  <1>0. /\ Tiles(c, b) /\ Len(c) \in Nat /\ n \in Nat
        /\ Starts(b) = Cuts(c, Len(c)) \cup T(n - 1)
        /\ \A j \in 1 .. Len(b) : Labelled(c, b[j])
    BY MethodOK DEF AfterTargets
  <1>1. k \in 1 .. Len(b) /\ b[k].start <= n /\ n < b[k].end
    BY <1>0, FindBbFinds
  <1>2. /\ b[k] \in Blocks /\ b[k].start \in Nat /\ b[k].end \in Nat /\ k \in Nat
        /\ Len(b) \in Nat /\ b \in Seq(Blocks)
    BY <1>0, <1>1, BlocksOK DEF Tiles
  <1>3. \A t \in BranchTargets(c) : t \in Nat
    BY <1>0, TargetsInside
  <1>4. T(n) = IF n \in BranchTargets(c) THEN T(n - 1) \cup {n} ELSE T(n - 1)
    BY <1>0, <1>3
  <1>. HIDE DEF T, k
  <1>5. CASE n \notin BranchTargets(c)
    <2>1. d = b
      BY <1>5 DEF SplitAt
    <2>. QED
      BY <1>0, <1>4, <1>5, <2>1 DEF AfterTargets, T
  <1>6. CASE n \in BranchTargets(c) /\ b[k].start = n
    <2>1. d = b
      BY <1>6 DEF SplitAt, k
    <2>2. n \in Starts(b)
      BY <1>1, <1>6 DEF Starts
    <2>3. Starts(b) = Cuts(c, Len(c)) \cup T(n)
      BY <1>0, <1>4, <1>6, <2>2
    <2>. QED
      BY <1>0, <2>1, <2>3 DEF AfterTargets, T
  <1>7. CASE n \in BranchTargets(c) /\ b[k].start # n
    <2>0. b[k].start < n
      BY <1>0, <1>1, <1>2, <1>7
    <2>1. d = BbAddSuccessor(cut, k, n)
      BY <1>7 DEF SplitAt, k
    <2>2. /\ Tiles(c, cut) /\ Len(cut) = Len(b) + 1 /\ Starts(cut) = Starts(b) \cup {n}
          /\ \A j \in 1 .. Len(b) + 1 :
               cut[j] = IF j < k THEN b[j]
                        ELSE IF j = k THEN BasicBlock(b[k].start, n, <<>>, 0)
                        ELSE IF j = k + 1 THEN [b[k] EXCEPT !.start = n] ELSE b[j - 1]
      BY <1>0, <1>1, <2>0, BbSplitOK
    <2>. HIDE DEF cut, d
    <2>3. /\ cut \in Seq(Blocks) /\ k \in 1 .. Len(cut)
          /\ cut[k] = BasicBlock(b[k].start, n, <<>>, 0)
      BY <1>1, <1>2, <2>2 DEF Tiles
    <2>. DEFINE bb == BasicBlock(b[k].start, n, <<n>>, 0)
    <2>4. bb \in Blocks /\ bb.start = b[k].start /\ bb.end = n /\ bb.succ = <<n>> /\ bb.target = 0
      <3>1. <<n>> \in Seq(Nat)
        BY <1>0
      <3>. QED
        BY <1>0, <1>2, <3>1 DEF Blocks, BasicBlock
    <2>5. d = [cut EXCEPT ![k] = bb]
      <3>1. d = [cut EXCEPT ![k] = [cut[k] EXCEPT !.succ = Append(cut[k].succ, n)]]
        BY <2>1 DEF BbAddSuccessor
      <3>2. Append(<<>>, n) = <<n>>
        OBVIOUS
      <3>3. [cut[k] EXCEPT !.succ = Append(cut[k].succ, n)] = bb
        BY <2>3, <3>2 DEF BasicBlock
      <3>. QED
        BY <3>1, <3>3
    <2>. HIDE DEF bb
    <2>6. /\ d \in Seq(Blocks) /\ Len(d) = Len(cut)
          /\ \A j \in 1 .. Len(cut) : d[j] = IF j = k THEN bb ELSE cut[j]
      BY <2>3, <2>4, <2>5, ExceptSeq
    <2>7. Tiles(c, d) /\ Starts(d) = Starts(cut)
      <3>1. cut[k].start = b[k].start /\ cut[k].end = n
        BY <2>3 DEF BasicBlock
      <3>2. \A j \in 1 .. Len(cut) : d[j].start = cut[j].start /\ d[j].end = cut[j].end
        BY <2>4, <2>6, <3>1
      <3>. QED
        BY <2>2, <2>6, <3>2, Relabel
    <2>8. Starts(d) = Cuts(c, Len(c)) \cup T(n)
      BY <1>0, <1>4, <1>7, <2>2, <2>7
    <2>9. Labelled(c, bb)
      <3>1. n - 1 \in 1 .. Len(c) /\ n - 1 < Len(c) /\ (n - 1) + 1 = n
        <4>1. b[k].start \in 1 .. Len(c)
          BY <1>0, <1>1, BlocksInside
        <4>. QED
          BY <1>0, <2>0, <4>1
      <3>2. ASSUME EndsBasicBlock(c[n - 1]) PROVE FALSE
        <4>1. n \in Cuts(c, Len(c))
          BY <3>1, <3>2 DEF Cuts
        <4>2. n \in Starts(b)
          BY <1>0, <4>1
        <4>3. n = b[k].start
          BY <1>0, <1>1, <4>2, NoStartInside
        <4>. QED
          BY <1>7, <4>3
      <3>3. ~IsBranch(c[n - 1]) /\ c[n - 1].op \notin {"goto", "return"}
        BY <3>2 DEF EndsBasicBlock, IsBranch
      <3>. QED
        BY <2>4, <3>3 DEF Labelled
    <2>10. ASSUME NEW j \in 1 .. Len(d) PROVE Labelled(c, d[j])
      <3>0. j \in 1 .. Len(b) + 1 /\ j \in Nat
        BY <1>2, <2>2, <2>6
      <3>1. CASE j = k
        BY <2>2, <2>6, <2>9, <3>0, <3>1
      <3>2. CASE j < k
        <4>1. d[j] = b[j] /\ j \in 1 .. Len(b)
          BY <1>1, <1>2, <2>2, <2>6, <3>0, <3>2
        <4>. QED
          BY <1>0, <4>1
      <3>3. CASE j = k + 1
        <4>1. d[j] = [b[k] EXCEPT !.start = n]
          BY <1>2, <2>2, <2>6, <3>0, <3>3
        <4>2. d[j].end = b[k].end /\ d[j].succ = b[k].succ /\ d[j].target = b[k].target
          BY <1>2, <4>1 DEF Blocks
        <4>3. Labelled(c, b[k])
          BY <1>0, <1>1
        <4>. QED
          BY <4>2, <4>3 DEF Labelled
      <3>4. CASE j > k + 1
        <4>0. j - 1 \in 1 .. Len(b) /\ ~(j < k) /\ j # k /\ j # k + 1
          BY <1>1, <1>2, <3>0, <3>4
        <4>1. d[j] = b[j - 1] /\ j - 1 \in 1 .. Len(b)
          BY <2>2, <2>6, <3>0, <4>0
        <4>. QED
          BY <1>0, <4>1
      <3>. QED
        BY <1>2, <3>0, <3>1, <3>2, <3>3, <3>4
    <2>11. AfterTargets(c, n, d)
      BY <2>7, <2>8, <2>10 DEF AfterTargets, T
    <2>. QED
      BY <2>11 DEF d
  <1>. QED
    BY <1>5, <1>6, <1>7

\* split_at_branch_targets cuts the code before every target as well.
LEMMA SplitAtBranchTargetsOK ==
  ASSUME NEW c, IsMethod(c), NEW x, AfterTargets(c, 0, x)
  PROVE  AfterTargets(c, Len(c), SplitAtBranchTargets(c, x))
  <1>. DEFINE N == Len(c)
              G == [n \in 0 .. N |-> {b \in Seq(Blocks) : AfterTargets(c, n, b)}]
              g == [p \in (1 .. N) \X Seq(Blocks) |-> SplitAt(c, p[2], p[1])]
              Eq(h) == h = [offset \in 0 .. Len(c) |->
                              IF offset = 0 THEN x ELSE SplitAt(c, h[offset - 1], offset)]
              after[offset \in 0 .. Len(c)] ==
                IF offset = 0 THEN x ELSE SplitAt(c, after[offset - 1], offset)
  <1>0. N \in Nat
    BY MethodOK
  <1>1. x \in G[0]
    <2>1. x \in Seq(Blocks)
      BY DEF AfterTargets, Tiles
    <2>. QED
      BY <1>0, <2>1
  <1>2. ASSUME NEW n \in 1 .. N, NEW b \in G[n - 1] PROVE SplitAt(c, b, n) \in G[n]
    <2>1. n - 1 \in 0 .. N /\ n \in 0 .. N
      BY <1>0
    <2>2. AfterTargets(c, n - 1, b)
      BY <2>1
    <2>3. AfterTargets(c, n, SplitAt(c, b, n))
      BY <2>2, SplitAtOK
    <2>4. SplitAt(c, b, n) \in Seq(Blocks)
      BY <2>3 DEF AfterTargets, Tiles
    <2>. QED
      BY <2>1, <2>3, <2>4
  <1>3. PICK f : Recurs(f, N, x, G, g)
    <2>1. G \in [0 .. N -> SUBSET Seq(Blocks)]
      OBVIOUS
    <2>2. ASSUME NEW n \in 1 .. N, NEW b \in G[n - 1] PROVE g[<<n, b>>] \in G[n]
      <3>1. n - 1 \in 0 .. N
        BY <1>0
      <3>2. b \in Seq(Blocks)
        BY <3>1
      <3>3. g[<<n, b>>] = SplitAt(c, b, n)
        BY <3>2
      <3>. QED
        BY <1>2, <3>3
    <2>. HIDE DEF G, g, N
    <2>3. Steps(N, x, G, g)
      BY <1>0, <1>1, <2>2 DEF Steps
    <2>. QED
      BY <2>1, <2>3, Recursion
  <1>4. Eq(f)
    <2>1. ASSUME NEW n \in 1 .. N PROVE f[n] = SplitAt(c, f[n - 1], n)
      <3>1. n - 1 \in 0 .. N
        BY <1>0
      <3>2. f[n] = g[<<n, f[n - 1]>>] /\ f[n - 1] \in G[n - 1]
        <4>. HIDE DEF G, g, N
        <4>. QED
          BY <1>3, <3>1 DEF Recurs
      <3>3. f[n - 1] \in Seq(Blocks)
        BY <3>1, <3>2
      <3>. QED
        BY <3>2, <3>3
    <2>2. f[0] = x /\ f = [n \in 0 .. N |-> f[n]]
      <3>. HIDE DEF G, g, N
      <3>. QED
        BY <1>3 DEF Recurs
    <2>3. \A n \in 0 .. N : n = 0 \/ n \in 1 .. N
      BY <1>0
    <2>. HIDE DEF G, g
    <2>. QED
      BY <2>1, <2>2, <2>3
  <1>5. Eq(after)
    <2>1. after = CHOOSE h : Eq(h)
      OBVIOUS
    <2>. HIDE DEF Eq, after
    <2>. QED
      BY <1>4, <2>1
  <1>. HIDE DEF after
  <1>6. after[0] = x /\ \A n \in 1 .. N : after[n] = SplitAt(c, after[n - 1], n)
    <2>1. after[0] = x
      BY <1>0, <1>5
    <2>2. ASSUME NEW n \in 1 .. N PROVE after[n] = SplitAt(c, after[n - 1], n)
      <3>1. n \in 0 .. Len(c) /\ n # 0
        BY <1>0
      <3>. QED
        BY <1>5, <3>1
    <2>. QED
      BY <2>1, <2>2
  <1>7. after[N] \in G[N]
    <2>1. \A n \in 1 .. N : after[n - 1] \in G[n - 1] => after[n] \in G[n]
      BY <1>2, <1>6
    <2>2. after[0] \in G[0]
      BY <1>1, <1>6
    <2>3. N \in 0 .. N
      BY <1>0
    <2>. HIDE DEF G, N
    <2>4. \A n \in 0 .. N : after[n] \in G[n]
      BY <1>0, <2>1, <2>2, RecursionStays
    <2>. QED
      BY <2>3, <2>4
  <1>8. SplitAtBranchTargets(c, x) = after[N]
    BY DEF SplitAtBranchTargets, after
  <1>. QED
    BY <1>0, <1>7, <1>8

-----------------------------------------------------------------------------
(* update_branch_successors                                                *)

\* The successors of a block, with the target of its branch
LEMMA Successors ==
  ASSUME NEW bb \in Blocks, NEW o \in Nat, bb.succ = <<>> \/ bb.succ = <<o>>
  PROVE  LET s == IF bb.target = 0 \/ Contains(bb.succ, bb.target) THEN bb.succ
                  ELSE Append(bb.succ, bb.target)
         IN  /\ s \in Seq(Nat) /\ IsInjective(s)
             /\ ToSet(s) = (IF bb.succ = <<>> THEN {} ELSE {o})
                           \cup (IF bb.target = 0 THEN {} ELSE {bb.target})
  <1>. DEFINE t == bb.target
              s == IF t = 0 \/ Contains(bb.succ, t) THEN bb.succ ELSE Append(bb.succ, t)
  <1>0. t \in Nat
    BY DEF Blocks
  <1>. HIDE DEF t
  <1>1. CASE bb.succ = <<>>
    <2>1. ~Contains(<<>>, t)
      BY DEF Contains
    <2>2. CASE t = 0
      <3>1. s = <<>>
        BY <1>1, <2>2
      <3>2. <<>> \in Seq(Nat) /\ ToSet(<<>>) = {} /\ IsInjective(<<>>)
        BY DEF ToSet, IsInjective
      <3>. QED
        BY <1>1, <2>2, <3>1, <3>2 DEF t
    <2>3. CASE t # 0
      <3>1. s = <<t>>
        BY <1>1, <2>1, <2>3
      <3>2. <<t>> \in Seq(Nat) /\ ToSet(<<t>>) = {t} /\ IsInjective(<<t>>)
        BY <1>0 DEF ToSet, IsInjective
      <3>. QED
        BY <1>1, <2>3, <3>1, <3>2 DEF t
    <2>. QED
      BY <2>2, <2>3
  <1>2. CASE bb.succ = <<o>>
    <2>0. <<o>> # <<>>
      OBVIOUS
    <2>1. Contains(<<o>>, t) <=> t = o
      BY DEF Contains
    <2>2. CASE t = 0 \/ t = o
      <3>1. s = <<o>>
        BY <1>2, <2>1, <2>2
      <3>2. <<o>> \in Seq(Nat) /\ ToSet(<<o>>) = {o} /\ IsInjective(<<o>>)
        BY DEF ToSet, IsInjective
      <3>. QED
        BY <1>2, <2>0, <2>2, <3>1, <3>2 DEF t
    <2>3. CASE t # 0 /\ t # o
      <3>0. s = Append(<<o>>, t)
        BY <1>2, <2>1, <2>3
      <3>. HIDE DEF s
      <3>1. s \in Seq(Nat) /\ Len(s) = 2 /\ s[1] = o /\ s[2] = t
        BY <1>0, <3>0
      <3>2. DOMAIN s = {1, 2}
        BY <3>1
      <3>3. ToSet(s) = {o, t} /\ IsInjective(s)
        BY <2>3, <3>1, <3>2 DEF ToSet, IsInjective
      <3>. QED
        BY <1>2, <2>0, <2>3, <3>1, <3>3 DEF s, t
    <2>. QED
      BY <2>2, <2>3
  <1>. QED
    BY <1>1, <1>2

\* The blocks that are cut and labelled are a flow graph once the targets are
\* among the successors.
LEMMA UpdateBranchSuccessorsOK ==
  ASSUME NEW c, IsMethod(c), NEW b, AfterTargets(c, Len(c), b)
  PROVE  /\ Tiles(c, UpdateBranchSuccessors(b))
         /\ IsFlowGraph(c, UpdateBranchSuccessors(b))
  <1>. DEFINE d == UpdateBranchSuccessors(b)
  <1>0. /\ Tiles(c, b) /\ b \in Seq(Blocks) /\ Len(b) \in Nat /\ DOMAIN b = 1 .. Len(b)
        /\ Len(c) \in Nat /\ DOMAIN c = 1 .. Len(c)
        /\ \A k \in 1 .. Len(b) : b[k] \in Blocks
    BY MethodOK, BlocksOK DEF AfterTargets, Tiles
  <1>1. ASSUME NEW k \in 1 .. Len(b)
        PROVE  /\ d[k] \in Blocks /\ d[k].start = b[k].start /\ d[k].end = b[k].end
               /\ IsInjective(d[k].succ)
               /\ ToSet(d[k].succ) = NextOffsets(c, b[k].end - 1)
    <2>. DEFINE bb == b[k]
                last == c[bb.end - 1]
                s == IF bb.target = 0 \/ Contains(bb.succ, bb.target) THEN bb.succ
                     ELSE Append(bb.succ, bb.target)
    <2>1. d[k] = IF bb.target = 0 \/ Contains(bb.succ, bb.target) THEN bb
                 ELSE [bb EXCEPT !.succ = Append(bb.succ, bb.target)]
      BY <1>0 DEF UpdateBranchSuccessors
    <2>2. bb \in Blocks /\ bb.end \in Nat
      BY <1>0 DEF Blocks
    <2>3. d[k].start = bb.start /\ d[k].end = bb.end /\ d[k].target = bb.target /\ d[k].succ = s
      BY <2>1, <2>2 DEF Blocks
    <2>4. /\ bb.target = IF IsBranch(last) THEN last.target ELSE 0
          /\ bb.succ = IF last.op \in {"goto", "return"} THEN <<>> ELSE <<bb.end>>
      BY DEF AfterTargets, Labelled
    <2>5. bb.end - 1 \in 1 .. Len(c) /\ (bb.end - 1) + 1 = bb.end
      BY <1>0, <2>2, BlocksInside
    <2>6. IsBranch(last) => last.target # 0
      BY <1>0, <2>5 DEF IsMethod
    <2>7. (bb.succ = <<>>) <=> (last.op \in {"goto", "return"})
      BY <2>4
    <2>. HIDE DEF bb
    <2>8. /\ s \in Seq(Nat) /\ IsInjective(s)
          /\ ToSet(s) = (IF bb.succ = <<>> THEN {} ELSE {bb.end})
                        \cup (IF bb.target = 0 THEN {} ELSE {bb.target})
      BY <2>2, <2>4, Successors
    <2>. HIDE DEF s
    <2>9. NextOffsets(c, bb.end - 1)
            = (IF IsBranch(last) THEN {last.target} ELSE {}) \cup
              (IF last.op \in {"goto", "return"} THEN {} ELSE {bb.end})
      BY <2>5 DEF NextOffsets
    <2>10. (IF bb.target = 0 THEN {} ELSE {bb.target})
             = IF IsBranch(last) THEN {last.target} ELSE {}
      BY <2>4, <2>6
    <2>11. ToSet(s) = NextOffsets(c, bb.end - 1)
      BY <2>7, <2>8, <2>9, <2>10
    <2>12. d[k] \in Blocks
      <3>. HIDE DEF d
      <3>1. bb.target = 0 \/ Contains(bb.succ, bb.target) => d[k] \in Blocks
        BY <2>1, <2>2
      <3>2. ~(bb.target = 0 \/ Contains(bb.succ, bb.target)) => d[k] \in Blocks
        <4>1. SUFFICES ASSUME ~(bb.target = 0 \/ Contains(bb.succ, bb.target))
                       PROVE  d[k] \in Blocks
          OBVIOUS
        <4>2. d[k] = [bb EXCEPT !.succ = s]
          BY <2>1, <4>1 DEF s
        <4>. QED
          BY <2>2, <2>8, <4>2 DEF Blocks
      <3>. QED
        BY <3>1, <3>2
    <2>. QED
      BY <2>3, <2>8, <2>11, <2>12 DEF bb
  <1>2. d \in Seq(Blocks) /\ Len(d) = Len(b) /\ DOMAIN d = 1 .. Len(b)
    <2>1. d = [k \in 1 .. Len(b) |-> d[k]]
      BY <1>0 DEF UpdateBranchSuccessors
    <2>. HIDE DEF d
    <2>2. d \in Seq(Blocks)
      BY <1>0, <1>1, <2>1, IsASeq
    <2>. QED
      BY <1>0, <2>1, <2>2
  <1>. HIDE DEF d
  <1>3. Tiles(c, d) /\ Starts(d) = Starts(b)
    BY <1>0, <1>1, <1>2, Relabel
  <1>4. Starts(b) = Leaders(c)
    <2>1. {t \in BranchTargets(c) : t <= Len(c)} = BranchTargets(c)
      BY <1>0, TargetsInside
    <2>. QED
      BY <1>0, <2>1 DEF AfterTargets, Cuts, Leaders
  <1>5. {d[k].start : k \in DOMAIN d} = Leaders(c)
    BY <1>2, <1>3, <1>4 DEF Starts
  <1>6. ASSUME NEW k \in DOMAIN d
        PROVE  /\ d[k].start < d[k].end
               /\ d[k].end = IF k = Len(d) THEN Len(c) + 1 ELSE d[k + 1].start
               /\ ToSet(d[k].succ) = NextOffsets(c, d[k].end - 1)
               /\ IsInjective(d[k].succ)
    <2>1. k \in 1 .. Len(d)
      BY <1>2
    <2>2. d[k].end = IF k = Len(d) THEN Len(c) + 1 ELSE d[k + 1].start
      BY <1>0, <1>3, <2>1, BlocksInside
    <2>3. d[k].start < d[k].end
      BY <1>3, <2>1 DEF Tiles
    <2>. QED
      BY <1>1, <1>2, <2>1, <2>2, <2>3
  <1>7. Tiles(c, d) /\ IsFlowGraph(c, d)
    BY <1>3, <1>5, <1>6 DEF IsFlowGraph
  <1>. QED
    BY <1>7 DEF d

\* analyze_control_flow makes the flow graph of every method.
THEOREM AnalyzeControlFlowIsExact ==
  ASSUME NEW c, IsMethod(c)
  PROVE  Tiles(c, AnalyzeControlFlow(c)) /\ IsFlowGraph(c, AnalyzeControlFlow(c))
  <1>1. AfterBranches(c, Len(c), SplitAfterBranches(c))
    BY SplitAfterBranchesOK
  <1>2. AfterTargets(c, 0, SplitAfterBranches(c))
    BY <1>1, AfterNoTarget
  <1>3. AfterTargets(c, Len(c), SplitAtBranchTargets(c, SplitAfterBranches(c)))
    BY <1>2, SplitAtBranchTargetsOK
  <1>. QED
    BY <1>3, UpdateBranchSuccessorsOK DEF AnalyzeControlFlow

-----------------------------------------------------------------------------
(* The flow graph of every method that is selected                         *)

\* The instructions that are selected, then a method, then its flow graph
CodeInv ==
  /\ phase = "select" =>
       /\ code \in Seq(Instructions)
       /\ \A i \in 1 .. Len(code) : IsBranch(code[i]) => code[i].target \in 1 .. MaxCode
  /\ phase \in {"flow", "liveness", "ranges", "intervals"} => IsMethod(code)
  /\ phase \in {"liveness", "ranges", "intervals"} =>
       Tiles(code, bbs) /\ IsFlowGraph(code, bbs)

\* What the steps from the allocator on leave alone
Later ==
  /\ UNCHANGED <<code, bbs>>
  /\ phase \in {"intervals", "allocate", "run", "done", "assert"}
  /\ phase' \in {"allocate", "run", "done", "assert"}

\* At first the code is the prologue.
LEMMA CodeInit ==
  ASSUME Init
  PROVE  CodeInv
  <1>1. phase = "select" /\ code = Prologue
    BY DEF Init
  <1>2. Prologue \in Seq(Instructions)
    BY MethodAssumption
  <1>3. \A i \in 1 .. Len(Prologue) : ~IsBranch(Prologue[i])
    <2>1. DOMAIN Prologue = 1 .. Len(Prologue)
      BY <1>2, LenProperties
    <2>2. \A i \in 1 .. Len(Prologue) : Prologue[i] \in ToSet(Prologue)
      BY <2>1 DEF ToSet
    <2>. QED
      BY <2>2, MethodAssumption DEF EndsBasicBlock
  <1>. QED
    BY <1>1, <1>2, <1>3 DEF CodeInv

\* One more instruction
LEMMA CodeAppend ==
  ASSUME NEW c \in Seq(Instructions), NEW insn \in Instructions, NEW max \in Nat,
         \A i \in 1 .. Len(c) : IsBranch(c[i]) => c[i].target \in 1 .. max,
         IsBranch(insn) => insn.target \in 1 .. max
  PROVE  /\ Append(c, insn) \in Seq(Instructions) /\ Len(Append(c, insn)) = Len(c) + 1
         /\ Append(c, insn)[Len(c) + 1] = insn
         /\ \A i \in 1 .. Len(Append(c, insn)) :
              IsBranch(Append(c, insn)[i]) => Append(c, insn)[i].target \in 1 .. max
  <1>1. /\ Append(c, insn) \in Seq(Instructions) /\ Len(Append(c, insn)) = Len(c) + 1
        /\ \A i \in 1 .. Len(c) : Append(c, insn)[i] = c[i]
        /\ Append(c, insn)[Len(c) + 1] = insn
    BY AppendProperties
  <1>2. Len(c) \in Nat
    BY LenProperties
  <1>. QED
    BY <1>1, <1>2

\* Select with an instruction or a branch
LEMMA CodeSelect ==
  ASSUME CodeInv, NEW insn \in Instructions, Select(insn),
         IsBranch(insn) => insn.target \in 1 .. MaxCode
  PROVE  CodeInv'
  <1>1. phase = "select" /\ phase' = "select" /\ code' = Append(code, insn)
    BY DEF Select
  <1>2. /\ code \in Seq(Instructions) /\ MaxCode \in Nat
        /\ \A i \in 1 .. Len(code) : IsBranch(code[i]) => code[i].target \in 1 .. MaxCode
    BY <1>1, MethodAssumption DEF CodeInv
  <1>3. /\ Append(code, insn) \in Seq(Instructions)
        /\ \A i \in 1 .. Len(Append(code, insn)) :
             IsBranch(Append(code, insn)[i]) => Append(code, insn)[i].target \in 1 .. MaxCode
    BY <1>2, CodeAppend
  <1>. QED
    BY <1>1, <1>3 DEF CodeInv

\* The return makes a method of the instructions.
LEMMA CodeReturn ==
  ASSUME CodeInv, SelectReturn
  PROVE  CodeInv'
  <1>. DEFINE insn == Insn("return", 0, {}, {})
              d == Append(code, insn)
  <1>1. /\ phase = "select" /\ phase' = "flow" /\ code' = d
        /\ \A t \in BranchTargets(code) : t <= Len(code) + 1
    BY DEF SelectReturn
  <1>2. /\ code \in Seq(Instructions) /\ MaxCode \in Nat
        /\ \A i \in 1 .. Len(code) : IsBranch(code[i]) => code[i].target \in 1 .. MaxCode
    BY <1>1, MethodAssumption DEF CodeInv
  <1>3. insn \in Instructions /\ ~IsBranch(insn) /\ insn.op = "return"
    <2>2. insn.op = "return" /\ ~IsBranch(insn)
      BY DEF Insn, IsBranch
    <2>3. insn \in Instructions
      BY DEF Insn, Instructions, Ops
    <2>. QED
      BY <2>2, <2>3
  <1>4. Len(code) \in Nat /\ DOMAIN code = 1 .. Len(code)
    BY <1>2, LenProperties
  <1>5. \A i \in 1 .. Len(code) : IsBranch(code[i]) => code[i].target \in 1 .. Len(code) + 1
    <2>1. \A i \in 1 .. Len(code) : IsBranch(code[i]) => code[i].target \in BranchTargets(code)
      BY <1>4 DEF BranchTargets
    <2>. QED
      BY <1>1, <1>2, <1>4, <2>1
  <1>. HIDE DEF insn
  <1>6. /\ d \in Seq(Instructions) /\ Len(d) = Len(code) + 1 /\ d[Len(code) + 1] = insn
        /\ \A i \in 1 .. Len(d) : IsBranch(d[i]) => d[i].target \in 1 .. Len(code) + 1
    <2>1. Len(code) + 1 \in Nat
      BY <1>4
    <2>. QED
      BY <1>2, <1>3, <1>5, <2>1, CodeAppend
  <1>. HIDE DEF d
  <1>7. d # <<>>
    BY <1>4, <1>6
  <1>8. IsMethod(d)
    BY <1>3, <1>6, <1>7 DEF IsMethod
  <1>. QED
    BY <1>1, <1>8 DEF CodeInv

\* The passes from the allocator on work on the same code.
LEMMA LaterSteps ==
  ASSUME StartAllocation \/ AllocateRegister \/ InsertSpillReloadInsns \/ Execute
         \/ MoveValue \/ TakeBranch \/ FallThrough \/ Return \/ Done
  PROVE  Later
  <1>1. ASSUME StartAllocation PROVE Later
    BY <1>1, Zenon DEF StartAllocation, Later
  <1>2. ASSUME AllocateRegister PROVE Later
    BY <1>2, Zenon DEF AllocateRegister, Later
  <1>3. ASSUME InsertSpillReloadInsns PROVE Later
    BY <1>3, Zenon DEF InsertSpillReloadInsns, Later
  <1>4. ASSUME Execute PROVE Later
    BY <1>4, Zenon DEF Execute, Running, passes, Later
  <1>5. ASSUME MoveValue PROVE Later
    BY <1>5, Zenon DEF MoveValue, Running, passes, Later
  <1>6. ASSUME TakeBranch PROVE Later
    BY <1>6, Zenon DEF TakeBranch, Running, passes, Later
  <1>7. ASSUME FallThrough PROVE Later
    BY <1>7, Zenon DEF FallThrough, Running, passes, Later
  <1>8. ASSUME Return PROVE Later
    BY <1>8, Zenon DEF Return, Running, passes, Later
  <1>9. ASSUME Done PROVE Later
    BY <1>9, Zenon DEF Done, vars, Later
  <1>. QED
    BY <1>1, <1>2, <1>3, <1>4, <1>5, <1>6, <1>7, <1>8, <1>9

\* Every step keeps the invariant.
LEMMA CodeStep ==
  ASSUME CodeInv, [Next]_vars
  PROVE  CodeInv'
  <1>1. ASSUME NEW insn \in Insns, Select(insn) PROVE CodeInv'
    <2>1. insn \in Instructions /\ ~IsBranch(insn)
      BY MethodAssumption DEF EndsBasicBlock
    <2>. QED
      BY <1>1, <2>1, CodeSelect
  <1>2. ASSUME NEW op \in Branches, NEW target \in 1 .. MaxCode, SelectBranch(op, target)
        PROVE  CodeInv'
    <2>. DEFINE insn == Insn(op, target, {}, {})
    <2>1. op \in Ops /\ target \in Nat
      BY MethodAssumption DEF Ops
    <2>2. insn \in Instructions /\ insn.target = target
      BY <2>1 DEF Insn, Instructions
    <2>3. Select(insn)
      BY <1>2 DEF SelectBranch
    <2>. HIDE DEF insn
    <2>. QED
      BY <2>2, <2>3, CodeSelect
  <1>3. ASSUME SelectReturn PROVE CodeInv'
    BY <1>3, CodeReturn
  <1>4. ASSUME BuildBlocks PROVE CodeInv'
    <2>1. /\ phase = "flow" /\ phase' = "liveness" /\ code' = code
          /\ bbs' = AnalyzeControlFlow(code)
      BY <1>4 DEF BuildBlocks
    <2>2. IsMethod(code)
      BY <2>1 DEF CodeInv
    <2>3. Tiles(code, bbs') /\ IsFlowGraph(code, bbs')
      BY <2>1, <2>2, AnalyzeControlFlowIsExact
    <2>. QED
      BY <2>1, <2>2, <2>3 DEF CodeInv
  <1>5. ASSUME AnalyzeLiveSets PROVE CodeInv'
    <2>1. /\ phase = "liveness" /\ phase' \in {"liveness", "ranges"}
          /\ code' = code /\ bbs' = bbs
      BY <1>5 DEF AnalyzeLiveSets
    <2>. QED
      BY <2>1 DEF CodeInv
  <1>6. ASSUME BuildIntervals PROVE CodeInv'
    <2>1. phase = "ranges" /\ phase' = "intervals" /\ code' = code /\ bbs' = bbs
      BY <1>6 DEF BuildIntervals
    <2>. QED
      BY <2>1 DEF CodeInv
  <1>7. ASSUME Later PROVE CodeInv'
    BY <1>7 DEF CodeInv, Later
  <1>8. ASSUME UNCHANGED vars PROVE CodeInv'
    BY <1>8 DEF CodeInv, vars
  <1>. QED
    BY <1>1, <1>2, <1>3, <1>4, <1>5, <1>6, <1>7, <1>8, LaterSteps DEF Next

\* The instructions are a method once they are selected, and analyze_control_flow
\* cuts it into its basic blocks.
THEOREM FlowGraphsAreExact == Spec => []FlowGraphExact
  <1>1. Init => CodeInv
    BY CodeInit
  <1>2. CodeInv /\ [Next]_vars => CodeInv'
    BY CodeStep
  <1>3. CodeInv => FlowGraphExact
    BY DEF CodeInv, FlowGraphExact
  <1>. QED
    BY <1>1, <1>2, <1>3, PTL DEF Spec

-----------------------------------------------------------------------------
(* Where a variable is live                                                *)

\* More offsets to go on to, more offsets that are live
LEMMA LiveGrows ==
  ASSUME NEW c, NEW v, NEW S, NEW T, S \subseteq T
  PROVE  LiveOneBefore(c, v, S) \subseteq LiveOneBefore(c, v, T)
  BY DEF LiveOneBefore

\* The rounds of LiveBefore
Rounds(c, v, w) ==
  /\ w[0] = {} /\ \A n \in 0 .. Len(c) : w[n] \in SUBSET (1 .. Len(c))
  /\ \A n \in 1 .. Len(c) : w[n] = LiveOneBefore(c, v, w[n - 1])

\* LiveBefore is what the last round finds.
LEMMA LiveRounds ==
  ASSUME NEW c, IsMethod(c), NEW v
  PROVE  \E w : Rounds(c, v, w) /\ LiveBefore(c, v) = w[Len(c)]
  <1>. DEFINE N == Len(c)
              X == SUBSET (1 .. N)
              x == {}
              G == [n \in 0 .. N |-> X]
              g == [p \in (1 .. N) \X X |-> LiveOneBefore(c, v, p[2])]
              Eq(h) == h = [n \in 0 .. Len(c) |->
                              IF n = 0 THEN {} ELSE LiveOneBefore(c, v, h[n - 1])]
              within[n \in 0 .. Len(c)] ==
                IF n = 0 THEN {} ELSE LiveOneBefore(c, v, within[n - 1])
  <1>0. N \in Nat /\ DOMAIN c = 1 .. N
    BY MethodOK
  <1>1. \A S : LiveOneBefore(c, v, S) \in X
    BY <1>0 DEF LiveOneBefore
  <1>2. PICK f : Recurs(f, N, x, G, g)
    <2>1. G \in [0 .. N -> SUBSET X]
      OBVIOUS
    <2>2. ASSUME NEW n \in 1 .. N, NEW S \in G[n - 1] PROVE g[<<n, S>>] \in G[n]
      <3>1. n - 1 \in 0 .. N /\ n \in 0 .. N
        BY <1>0
      <3>2. S \in X
        BY <3>1
      <3>3. g[<<n, S>>] = LiveOneBefore(c, v, S)
        BY <3>2
      <3>4. G[n] = X
        BY <3>1
      <3>. HIDE DEF G, g, X
      <3>. QED
        BY <1>1, <3>3, <3>4
    <2>3. x \in G[0]
      BY <1>0
    <2>. HIDE DEF G, g, x, N, X
    <2>4. Steps(N, x, G, g)
      BY <1>0, <2>2, <2>3 DEF Steps
    <2>. QED
      BY <2>1, <2>4, Recursion
  <1>3. Eq(f)
    <2>1. ASSUME NEW n \in 1 .. N PROVE f[n] = LiveOneBefore(c, v, f[n - 1])
      <3>1. n - 1 \in 0 .. N
        BY <1>0
      <3>2. f[n] = g[<<n, f[n - 1]>>] /\ f[n - 1] \in G[n - 1]
        <4>. HIDE DEF G, g, N, x
        <4>. QED
          BY <1>2, <3>1 DEF Recurs
      <3>3. f[n - 1] \in X
        BY <3>1, <3>2
      <3>. QED
        BY <3>2, <3>3
    <2>2. f[0] = {} /\ f = [n \in 0 .. N |-> f[n]]
      <3>. HIDE DEF G, g, N
      <3>. QED
        BY <1>2 DEF Recurs
    <2>3. \A n \in 0 .. N : n = 0 \/ n \in 1 .. N
      BY <1>0
    <2>. HIDE DEF G, g
    <2>. QED
      BY <2>1, <2>2, <2>3
  <1>4. Eq(within)
    <2>1. within = CHOOSE h : Eq(h)
      OBVIOUS
    <2>. HIDE DEF Eq, within
    <2>. QED
      BY <1>3, <2>1
  <1>. HIDE DEF within
  <1>5. within[0] = {} /\ \A n \in 1 .. N : within[n] = LiveOneBefore(c, v, within[n - 1])
    <2>1. within[0] = {}
      BY <1>0, <1>4
    <2>2. ASSUME NEW n \in 1 .. N PROVE within[n] = LiveOneBefore(c, v, within[n - 1])
      <3>1. n \in 0 .. Len(c) /\ n # 0
        BY <1>0
      <3>. QED
        BY <1>4, <3>1
    <2>. QED
      BY <2>1, <2>2
  <1>6. \A n \in 0 .. N : within[n] \in SUBSET (1 .. N)
    <2>1. \A n \in 0 .. N : n = 0 \/ n \in 1 .. N
      BY <1>0
    <2>. QED
      BY <1>1, <1>5, <2>1
  <1>7. Rounds(c, v, within)
    BY <1>5, <1>6 DEF Rounds
  <1>8. LiveBefore(c, v) = within[Len(c)]
    BY DEF LiveBefore, within
  <1>. QED
    BY <1>7, <1>8

\* Every round finds at least what the one before found.
LEMMA RoundsGrow ==
  ASSUME NEW c, Len(c) \in Nat, NEW v, NEW w, Rounds(c, v, w), NEW n \in 1 .. Len(c)
  PROVE  w[n - 1] \subseteq w[n]
  <1>. DEFINE T == {m \in Nat : m + 1 <= Len(c) => w[m] \subseteq w[m + 1]}
  <1>1. 0 \in T
    BY DEF Rounds
  <1>2. ASSUME NEW m \in Nat, m \in T PROVE m + 1 \in T
    <2>. SUFFICES ASSUME (m + 1) + 1 <= Len(c) PROVE w[m + 1] \subseteq w[(m + 1) + 1]
      OBVIOUS
    <2>1. /\ m + 1 \in 1 .. Len(c) /\ (m + 1) + 1 \in 1 .. Len(c)
          /\ (m + 1) - 1 = m /\ ((m + 1) + 1) - 1 = m + 1
      OBVIOUS
    <2>2. w[m] \subseteq w[m + 1]
      BY <1>2, <2>1
    <2>3. w[m + 1] = LiveOneBefore(c, v, w[m])
      BY <2>1 DEF Rounds
    <2>4. w[(m + 1) + 1] = LiveOneBefore(c, v, w[m + 1])
      BY <2>1 DEF Rounds
    <2>. QED
      BY <2>2, <2>3, <2>4, LiveGrows
  <1>. HIDE DEF T
  <1>3. \A m \in Nat : m \in T
    BY <1>1, <1>2, SetInduction
  <1>4. n - 1 \in Nat /\ (n - 1) + 1 = n
    OBVIOUS
  <1>. QED
    BY <1>3, <1>4 DEF T

\* There are enough rounds: each one finds another offset or all are found.
LEMMA RoundsEnd ==
  ASSUME NEW c, IsMethod(c), NEW v, NEW w, Rounds(c, v, w)
  PROVE  LiveOneBefore(c, v, w[Len(c)]) \subseteq w[Len(c)]
  <1>. DEFINE N == Len(c)
              F(S) == LiveOneBefore(c, v, S)
              T == {m \in Nat : m <= N => F(w[m]) \subseteq w[m] \/ Cardinality(w[m]) >= m}
  <1>0. N \in Nat /\ DOMAIN c = 1 .. N
    BY MethodOK
  <1>1. \A m \in 0 .. N : w[m] \in SUBSET (1 .. N)
    BY DEF Rounds
  <1>2. IsFiniteSet(1 .. N) /\ Cardinality(1 .. N) = N
    <2>1. 1 \in Int /\ N \in Int
      BY <1>0
    <2>. HIDE DEF N
    <2>2. IsFiniteSet(1 .. N) /\ Cardinality(1 .. N) = IF 1 > N THEN 0 ELSE N - 1 + 1
      BY <2>1, FS_Interval
    <2>. QED
      BY <1>0, <2>2
  <1>3. \A m \in 0 .. N : IsFiniteSet(w[m]) /\ Cardinality(w[m]) \in Nat
    BY <1>1, <1>2, FS_Subset, FS_CardinalityType
  <1>4. 0 \in T
    BY <1>0, <1>3
  <1>5. ASSUME NEW m \in Nat, m \in T PROVE m + 1 \in T
    <2>. SUFFICES ASSUME m + 1 <= N
                  PROVE  F(w[m + 1]) \subseteq w[m + 1] \/ Cardinality(w[m + 1]) >= m + 1
      OBVIOUS
    <2>1. m + 1 \in 1 .. N /\ (m + 1) - 1 = m /\ m \in 0 .. N /\ m + 1 \in 0 .. N
      BY <1>0
    <2>2. w[m + 1] = F(w[m])
      BY <2>1 DEF Rounds
    <2>3. w[m] \subseteq w[m + 1]
      BY <1>0, <2>1, RoundsGrow
    <2>4. CASE w[m + 1] = w[m]
      BY <2>2, <2>4
    <2>5. CASE w[m + 1] # w[m]
      <3>1. ~(F(w[m]) \subseteq w[m])
        BY <2>2, <2>3, <2>5
      <3>2. Cardinality(w[m]) >= m
        BY <1>5, <2>1, <3>1
      <3>3. Cardinality(w[m]) <= Cardinality(w[m + 1])
        BY <1>3, <2>1, <2>3, FS_Subset
      <3>4. Cardinality(w[m]) # Cardinality(w[m + 1])
        BY <1>3, <2>1, <2>3, <2>5, FS_Subset
      <3>. QED
        BY <1>3, <2>1, <3>2, <3>3, <3>4
    <2>. QED
      BY <2>4, <2>5
  <1>. HIDE DEF T
  <1>6. \A m \in Nat : m \in T
    BY <1>4, <1>5, SetInduction
  <1>7. F(w[N]) \subseteq w[N] \/ Cardinality(w[N]) >= N
    BY <1>0, <1>6 DEF T
  <1>8. ASSUME Cardinality(w[N]) >= N PROVE F(w[N]) \subseteq w[N]
    <2>1. w[N] \subseteq 1 .. N /\ Cardinality(w[N]) \in Nat
      BY <1>0, <1>1, <1>3
    <2>2. Cardinality(w[N]) <= Cardinality(1 .. N)
      BY <1>2, <2>1, FS_Subset
    <2>3. Cardinality(w[N]) = Cardinality(1 .. N)
      BY <1>0, <1>2, <1>8, <2>1, <2>2
    <2>4. w[N] = 1 .. N
      BY <1>2, <2>1, <2>3, FS_Subset
    <2>. QED
      BY <1>0, <2>4 DEF LiveOneBefore
  <1>. QED
    BY <1>7, <1>8

\* LiveBefore is the least set that its rule keeps.
LEMMA LiveBeforeClosed ==
  ASSUME NEW c, IsMethod(c), NEW v
  PROVE  /\ LiveBefore(c, v) \subseteq 1 .. Len(c)
         /\ LiveOneBefore(c, v, LiveBefore(c, v)) = LiveBefore(c, v)
  <1>1. PICK w : Rounds(c, v, w) /\ LiveBefore(c, v) = w[Len(c)]
    BY LiveRounds
  <1>2. Len(c) \in Nat /\ Len(c) >= 1
    BY MethodOK
  <1>3. Len(c) \in 1 .. Len(c) /\ Len(c) \in 0 .. Len(c)
    BY <1>2
  <1>4. w[Len(c)] \subseteq 1 .. Len(c) /\ w[Len(c)] = LiveOneBefore(c, v, w[Len(c) - 1])
    BY <1>1, <1>3 DEF Rounds
  <1>5. w[Len(c) - 1] \subseteq w[Len(c)]
    BY <1>1, <1>2, <1>3, RoundsGrow
  <1>6. LiveOneBefore(c, v, w[Len(c) - 1]) \subseteq LiveOneBefore(c, v, w[Len(c)])
    BY <1>5, LiveGrows
  <1>7. LiveOneBefore(c, v, w[Len(c)]) \subseteq w[Len(c)]
    BY <1>1, RoundsEnd
  <1>8. LiveOneBefore(c, v, w[Len(c)]) = w[Len(c)]
    BY <1>4, <1>6, <1>7
  <1>. QED
    BY <1>1, <1>4, <1>8

\* LiveBefore is in every set of offsets that is closed like this.
LEMMA LiveBeforeLeast ==
  ASSUME NEW c, IsMethod(c), NEW v, NEW S, LiveOneBefore(c, v, S) \subseteq S
  PROVE  LiveBefore(c, v) \subseteq S
  <1>1. PICK w : Rounds(c, v, w) /\ LiveBefore(c, v) = w[Len(c)]
    BY LiveRounds
  <1>2. Len(c) \in Nat
    BY MethodOK
  <1>. DEFINE T == {m \in Nat : m <= Len(c) => w[m] \subseteq S}
  <1>3. 0 \in T
    BY <1>1 DEF Rounds
  <1>4. ASSUME NEW m \in Nat, m \in T PROVE m + 1 \in T
    <2>. SUFFICES ASSUME m + 1 <= Len(c) PROVE w[m + 1] \subseteq S
      OBVIOUS
    <2>1. m + 1 \in 1 .. Len(c) /\ (m + 1) - 1 = m
      BY <1>2
    <2>2. w[m + 1] = LiveOneBefore(c, v, w[m])
      BY <1>1, <2>1 DEF Rounds
    <2>3. w[m] \subseteq S
      BY <1>2, <1>4, <2>1
    <2>. QED
      BY <2>2, <2>3, LiveGrows
  <1>. HIDE DEF T
  <1>5. \A m \in Nat : m \in T
    BY SMTT(30), <1>3, <1>4, SetInduction
  <1>. QED
    BY <1>1, <1>2, <1>5 DEF T

-----------------------------------------------------------------------------
(* The ways through a block                                                *)

\* The flow graph of a method
Graph(c, b) == IsMethod(c) /\ Tiles(c, b) /\ IsFlowGraph(c, b)

\* Numbers of a flow graph
LEMMA GraphOK ==
  ASSUME NEW c, NEW b, Graph(c, b)
  PROVE  /\ IsMethod(c) /\ Tiles(c, b) /\ Len(c) \in Nat /\ Len(b) \in Nat /\ Len(b) >= 1
         /\ DOMAIN c = 1 .. Len(c) /\ DOMAIN b = 1 .. Len(b) /\ Starts(b) = Leaders(c)
         /\ \A k \in 1 .. Len(b) :
              /\ b[k].start \in 1 .. Len(c) /\ b[k].end \in 2 .. Len(c) + 1
              /\ b[k].start < b[k].end
              /\ b[k].end = IF k = Len(b) THEN Len(c) + 1 ELSE b[k + 1].start
              /\ ToSet(b[k].succ) = NextOffsets(c, b[k].end - 1)
  <1>1. IsMethod(c) /\ Tiles(c, b) /\ IsFlowGraph(c, b)
    BY DEF Graph
  <1>2. /\ Len(c) \in Nat /\ DOMAIN c = 1 .. Len(c)
    BY <1>1, MethodOK
  <1>3. Len(b) \in Nat /\ Len(b) >= 1 /\ DOMAIN b = 1 .. Len(b)
    BY <1>1, BlocksOK
  <1>4. \A k \in 1 .. Len(b) :
          /\ b[k].start \in 1 .. Len(c) /\ b[k].end \in 2 .. Len(c) + 1
          /\ b[k].end = IF k = Len(b) THEN Len(c) + 1 ELSE b[k + 1].start
    BY <1>1, <1>2, BlocksInside
  <1>5. Starts(b) = Leaders(c)
    BY <1>1, <1>3 DEF IsFlowGraph, Starts
  <1>6. \A k \in 1 .. Len(b) :
          b[k].start < b[k].end /\ ToSet(b[k].succ) = NextOffsets(c, b[k].end - 1)
    BY <1>1, <1>3 DEF IsFlowGraph
  <1>. QED
    BY <1>1, <1>2, <1>3, <1>4, <1>5, <1>6

\* Control goes from an instruction to the next inside a block.
LEMMA StraightLine ==
  ASSUME NEW c, NEW b, Graph(c, b), NEW k \in 1 .. Len(b), NEW i \in b[k].start .. b[k].end - 2
  PROVE  NextOffsets(c, i) = {i + 1}
  <1>1. b[k].start \in 1 .. Len(c) /\ b[k].end \in 2 .. Len(c) + 1 /\ Len(c) \in Nat
    BY GraphOK
  <1>2. /\ i \in 1 .. Len(c) /\ i < Len(c) /\ i + 1 \in Nat
        /\ b[k].start <= i + 1 /\ i + 1 < b[k].end /\ i + 1 # b[k].start
    BY SMTT(30), <1>1
  <1>3. ASSUME EndsBasicBlock(c[i]) PROVE FALSE
    <2>1. i + 1 \in Leaders(c)
      BY <1>2, <1>3, GraphOK DEF Leaders
    <2>2. i + 1 \in Starts(b) /\ Tiles(c, b)
      BY <2>1, GraphOK
    <2>. QED
      BY <1>2, <2>2, NoStartInside
  <1>4. ~IsBranch(c[i]) /\ c[i].op \notin {"goto", "return"}
    BY <1>3 DEF EndsBasicBlock, IsBranch
  <1>. QED
    BY <1>4 DEF NextOffsets

\* The successors of a block are starts of blocks.
LEMMA SuccessorStarts ==
  ASSUME NEW c, NEW b, Graph(c, b), NEW k \in 1 .. Len(b),
         NEW s \in NextOffsets(c, b[k].end - 1)
  PROVE  s \in 1 .. Len(c) /\ FindBb(b, s) \in 1 .. Len(b) /\ b[FindBb(b, s)].start = s
  <1>. DEFINE e == b[k].end - 1
  <1>1. e \in 1 .. Len(c) /\ e + 1 = b[k].end /\ Len(c) \in Nat /\ Tiles(c, b)
    BY GraphOK
  <1>2. s \in Starts(b)
    <2>1. CASE IsBranch(c[e]) /\ s = c[e].target
      <3>1. s \in BranchTargets(c)
        BY <1>1, <2>1, GraphOK DEF BranchTargets
      <3>. QED
        BY <3>1, GraphOK DEF Leaders
    <2>2. CASE c[e].op \notin {"goto", "return"} /\ s = e + 1
      <3>1. k # Len(b)
        <4>1. c[Len(c)].op = "return"
          BY GraphOK DEF IsMethod
        <4>2. SUFFICES ASSUME k = Len(b) PROVE FALSE
          OBVIOUS
        <4>3. e = Len(c)
          BY <1>1, <4>2, GraphOK
        <4>. QED
          BY <2>2, <4>1, <4>3
      <3>2. s = b[k + 1].start /\ k + 1 \in 1 .. Len(b)
        BY <1>1, <2>2, <3>1, GraphOK
      <3>. QED
        BY <3>2 DEF Starts
    <2>. QED
      BY <2>1, <2>2 DEF NextOffsets
  <1>3. s \in 1 .. Len(c)
    BY <1>2, GraphOK DEF Starts
  <1>4. /\ FindBb(b, s) \in 1 .. Len(b)
        /\ b[FindBb(b, s)].start <= s /\ s < b[FindBb(b, s)].end
    BY <1>1, <1>3, FindBbFinds
  <1>5. s = b[FindBb(b, s)].start
    BY <1>1, <1>2, <1>4, NoStartInside
  <1>. QED
    BY <1>3, <1>4, <1>5

\* What is live, instruction by instruction
LEMMA LiveRule ==
  ASSUME NEW c, IsMethod(c), NEW v, NEW i \in 1 .. Len(c)
  PROVE  i \in LiveBefore(c, v) <=>
           \/ v \in c[i].in
           \/ v \notin c[i].out /\ NextOffsets(c, i) \cap LiveBefore(c, v) # {}
  <1>1. LiveOneBefore(c, v, LiveBefore(c, v)) = LiveBefore(c, v)
    BY LiveBeforeClosed
  <1>2. i \in LiveOneBefore(c, v, LiveBefore(c, v)) <=>
           \/ v \in c[i].in
           \/ v \notin c[i].out /\ NextOffsets(c, i) \cap LiveBefore(c, v) # {}
    BY MethodOK DEF LiveOneBefore
  <1>. QED
    BY <1>1, <1>2

\* A variable that is live in a block is live before as long as it is not
\* written.
LEMMA LiveBack ==
  ASSUME NEW c, NEW b, Graph(c, b), NEW k \in 1 .. Len(b), NEW v,
         NEW m \in b[k].start .. b[k].end - 1, m \in LiveBefore(c, v),
         NEW i \in b[k].start .. m, \A j \in i .. m - 1 : v \notin c[j].out
  PROVE  i \in LiveBefore(c, v)
  <1>0. b[k].start \in 1 .. Len(c) /\ b[k].end \in 2 .. Len(c) + 1 /\ Len(c) \in Nat /\ IsMethod(c)
    BY GraphOK
  <1>1. i \in Int /\ m \in Int /\ i \in i .. m
    BY <1>0
  <1>2. ASSUME NEW j \in i .. m - 1, j + 1 \in LiveBefore(c, v) PROVE j \in LiveBefore(c, v)
    <2>1. j \in b[k].start .. b[k].end - 2 /\ j \in 1 .. Len(c)
      BY SMTT(30), <1>0
    <2>2. NextOffsets(c, j) = {j + 1}
      BY <2>1, StraightLine
    <2>. QED
      BY <1>0, <1>2, <2>1, <2>2, LiveRule
  <1>. DEFINE S == LiveBefore(c, v)
  <1>. HIDE DEF S
  <1>3. \A j \in i .. m : j \in S
    BY <1>1, <1>2, DownInduction DEF S
  <1>. QED
    BY <1>1, <1>3 DEF S

-----------------------------------------------------------------------------
(* analyze_live_sets                                                       *)

\* The values that live_in_set and live_out_set have
LiveSet == [in : SUBSET Vregs, out : SUBSET Vregs]

\* The variables that are live before a block and behind it
NeededIn(c, bb) == {v \in Vregs : bb.start \in LiveBefore(c, v)}
NeededOut(c, bb) ==
  {v \in Vregs : NextOffsets(c, bb.end - 1) \cap LiveBefore(c, v) # {}}

\* The live sets hold nothing else.
LiveSound(c, b, l) ==
  /\ l \in [1 .. Len(b) -> LiveSet]
  /\ \A k \in 1 .. Len(b) :
       l[k].in \subseteq NeededIn(c, b[k]) /\ l[k].out \subseteq NeededOut(c, b[k])

\* A variable that is used in a block or live behind it is live before it
\* unless it is written on the way.
LEMMA NeededBefore ==
  ASSUME NEW c, NEW b, Graph(c, b), NEW k \in 1 .. Len(b)
  PROVE  /\ UseSet(c, b[k]) \subseteq NeededIn(c, b[k])
         /\ NeededOut(c, b[k]) \ DefSet(c, b[k]) \subseteq NeededIn(c, b[k])
  <1>0. /\ b[k].start \in 1 .. Len(c) /\ b[k].end \in 2 .. Len(c) + 1 /\ Len(c) \in Nat
        /\ IsMethod(c) /\ b[k].start < b[k].end
    BY GraphOK
  <1>1. ASSUME NEW v \in UseSet(c, b[k]) PROVE v \in NeededIn(c, b[k])
    <2>1. PICK i \in Offsets(b[k]) :
            v \in c[i].in /\ \A j \in b[k].start .. i - 1 : v \notin c[j].out
      BY DEF UseSet
    <2>2. i \in b[k].start .. b[k].end - 1 /\ i \in 1 .. Len(c) /\ b[k].start \in b[k].start .. i
      BY <1>0 DEF Offsets
    <2>3. i \in LiveBefore(c, v)
      BY <1>0, <2>1, <2>2, LiveRule
    <2>4. b[k].start \in LiveBefore(c, v)
      BY <2>1, <2>2, <2>3, LiveBack
    <2>. QED
      BY <2>4 DEF UseSet, NeededIn
  <1>2. ASSUME NEW v \in NeededOut(c, b[k]), v \notin DefSet(c, b[k])
        PROVE  v \in NeededIn(c, b[k])
    <2>. DEFINE e == b[k].end - 1
    <2>1. e \in b[k].start .. b[k].end - 1 /\ e \in 1 .. Len(c) /\ b[k].start \in b[k].start .. e
      BY <1>0
    <2>2. \A j \in b[k].start .. e : v \notin c[j].out
      BY <1>2 DEF DefSet, Offsets
    <2>3. NextOffsets(c, e) \cap LiveBefore(c, v) # {}
      BY DEF NeededOut
    <2>. HIDE DEF e
    <2>4. v \notin c[e].out
      BY <2>1, <2>2
    <2>5. e \in LiveBefore(c, v)
      BY <1>0, <2>1, <2>3, <2>4, LiveRule
    <2>6. \A j \in b[k].start .. e - 1 : v \notin c[j].out
      BY <1>0, <2>1, <2>2
    <2>7. b[k].start \in LiveBefore(c, v)
      BY <2>1, <2>5, <2>6, LiveBack
    <2>. QED
      BY <2>7 DEF NeededOut, NeededIn
  <1>. QED
    BY <1>1, <1>2

\* The live sets in the middle of a visit, when live_in_set is new
Entered(c, b, l, k) ==
  [l EXCEPT ![k].in = (l[k].out \ DefSet(c, b[k])) \cup UseSet(c, b[k])]

\* What a visit leaves: d, by way of e
VisitParts(c, b, l, k, e, d) ==
  /\ e[k].in = (l[k].out \ DefSet(c, b[k])) \cup UseSet(c, b[k])
  /\ e[k].out = l[k].out /\ e[k] = [in |-> e[k].in, out |-> e[k].out]
  /\ \A j \in 1 .. Len(b) : j # k => e[j] = l[j]
  /\ DOMAIN e = 1 .. Len(b) /\ e = [j \in 1 .. Len(b) |-> e[j]]
  /\ d[k].in = e[k].in
  /\ d[k].out = UNION {e[FindBb(b, s)].in : s \in ToSet(b[k].succ)}
  /\ \A j \in 1 .. Len(b) : j # k => d[j] = l[j]
  /\ DOMAIN d = 1 .. Len(b) /\ d[k] = [in |-> d[k].in, out |-> d[k].out]
  /\ d = [j \in 1 .. Len(b) |-> d[j]]

\* A visit of analyze_live_sets writes live_in_set, then live_out_set.
LEMMA VisitBlockIs ==
  ASSUME NEW c, NEW b, NEW l, NEW k \in 1 .. Len(b), l \in [1 .. Len(b) -> LiveSet]
  PROVE  VisitParts(c, b, l, k, Entered(c, b, l, k), VisitBlock(c, b, l, k))
  <1>. DEFINE e == Entered(c, b, l, k)
              d == VisitBlock(c, b, l, k)
              o == UNION {e[FindBb(b, s)].in : s \in ToSet(b[k].succ)}
  <1>1. l[k] \in LiveSet /\ DOMAIN l = 1 .. Len(b)
    OBVIOUS
  <1>2. l[k] = [in |-> l[k].in, out |-> l[k].out]
    BY <1>1 DEF LiveSet
  <1>3. /\ e[k].in = (l[k].out \ DefSet(c, b[k])) \cup UseSet(c, b[k])
        /\ e[k].out = l[k].out /\ e[k] = [in |-> e[k].in, out |-> e[k].out]
        /\ \A j \in 1 .. Len(b) : j # k => e[j] = l[j]
        /\ DOMAIN e = 1 .. Len(b) /\ e = [j \in 1 .. Len(b) |-> e[j]]
    BY <1>1, <1>2 DEF Entered
  <1>4. d = [e EXCEPT ![k].out = o]
    BY DEF Entered, VisitBlock
  <1>. HIDE DEF o, e, d
  <1>5. /\ d[k].in = e[k].in /\ d[k].out = o
        /\ \A j \in 1 .. Len(b) : j # k => d[j] = l[j]
        /\ DOMAIN d = 1 .. Len(b) /\ d[k] = [in |-> d[k].in, out |-> d[k].out]
        /\ d = [j \in 1 .. Len(b) |-> d[j]]
    BY <1>3, <1>4
  <1>. QED
    <2>1. VisitParts(c, b, l, k, e, d)
      BY <1>3, <1>5 DEF o, VisitParts
    <2>. QED
      BY <2>1 DEF e, d

\* A visit of a block adds nothing that is not live.
LEMMA VisitBlockSound ==
  ASSUME NEW c, NEW b, Graph(c, b), NEW l, LiveSound(c, b, l), NEW k \in 1 .. Len(b)
  PROVE  LiveSound(c, b, VisitBlock(c, b, l, k))
  <1>. DEFINE d == VisitBlock(c, b, l, k)
              e == Entered(c, b, l, k)
  <1>0. /\ l \in [1 .. Len(b) -> LiveSet] /\ \A j \in 1 .. Len(b) : l[j] \in LiveSet
        /\ \A j \in 1 .. Len(b) : l[j].in \subseteq NeededIn(c, b[j])
        /\ \A j \in 1 .. Len(b) : l[j].out \subseteq NeededOut(c, b[j])
    BY DEF LiveSound
  <1>1. VisitParts(c, b, l, k, e, d)
    BY <1>0, VisitBlockIs
  <1>. HIDE DEF d, e
  <1>. USE DEF VisitParts
  <1>2. /\ d[k].in \subseteq NeededIn(c, b[k])
        /\ \A j \in 1 .. Len(b) : e[j].in \subseteq NeededIn(c, b[j])
    BY <1>0, <1>1, NeededBefore
  <1>3. ASSUME NEW v \in d[k].out PROVE v \in NeededOut(c, b[k])
    <2>1. PICK s \in ToSet(b[k].succ) : v \in e[FindBb(b, s)].in
      BY <1>1
    <2>2. s \in NextOffsets(c, b[k].end - 1)
      BY <2>1, GraphOK
    <2>3. FindBb(b, s) \in 1 .. Len(b) /\ b[FindBb(b, s)].start = s
      BY <2>2, SuccessorStarts
    <2>4. v \in NeededIn(c, b[FindBb(b, s)])
      BY <1>2, <2>1, <2>3
    <2>5. v \in Vregs /\ s \in LiveBefore(c, v)
      BY <2>3, <2>4 DEF NeededIn
    <2>. QED
      BY <2>2, <2>5 DEF NeededOut
  <1>4. d[k] \in LiveSet
    <2>1. d[k].in \subseteq Vregs /\ d[k].out \subseteq Vregs
      BY <1>2, <1>3 DEF NeededIn, NeededOut
    <2>. QED
      BY <1>1, <2>1 DEF LiveSet
  <1>5. d \in [1 .. Len(b) -> LiveSet]
    BY <1>0, <1>1, <1>4
  <1>6. \A j \in 1 .. Len(b) :
          d[j].in \subseteq NeededIn(c, b[j]) /\ d[j].out \subseteq NeededOut(c, b[j])
    BY <1>0, <1>1, <1>2, <1>3
  <1>7. LiveSound(c, b, d)
    BY <1>5, <1>6 DEF LiveSound
  <1>. QED
    BY <1>7 DEF d

\* The visits of a round of analyze_live_sets, from the last block to the first
Visits(c, b, l, w) ==
  /\ w[0] = l /\ \A n \in 0 .. Len(b) : LiveSound(c, b, w[n])
  /\ \A n \in 1 .. Len(b) : w[n] = VisitBlock(c, b, w[n - 1], Len(b) + 1 - n)

\* LivePass is what the last visit leaves.
LEMMA LivePassVisits ==
  ASSUME NEW c, NEW b, Graph(c, b), NEW l, LiveSound(c, b, l)
  PROVE  \E w : Visits(c, b, l, w) /\ LivePass(c, b, l) = w[Len(b)]
  <1>. DEFINE N == Len(b)
              X == [1 .. N -> LiveSet]
              Visit(s, n) == VisitBlock(c, b, s, Len(b) + 1 - n)
              G == [n \in 0 .. N |-> {s \in X : LiveSound(c, b, s)}]
              g == [p \in (1 .. N) \X X |-> Visit(p[2], p[1])]
              Eq(h) == h = [n \in 0 .. Len(b) |-> IF n = 0 THEN l ELSE Visit(h[n - 1], n)]
              after[n \in 0 .. Len(b)] ==
                IF n = 0 THEN l ELSE VisitBlock(c, b, after[n - 1], Len(b) + 1 - n)
  <1>0. N \in Nat
    BY GraphOK
  <1>1. l \in G[0]
    BY <1>0 DEF LiveSound
  <1>2. ASSUME NEW n \in 1 .. N, NEW s \in G[n - 1] PROVE Visit(s, n) \in G[n]
    <2>1. n - 1 \in 0 .. N /\ n \in 0 .. N /\ Len(b) + 1 - n \in 1 .. Len(b)
      BY <1>0
    <2>2. LiveSound(c, b, s)
      BY <2>1
    <2>3. LiveSound(c, b, Visit(s, n))
      BY <2>1, <2>2, VisitBlockSound
    <2>. HIDE DEF Visit
    <2>4. Visit(s, n) \in X
      BY <2>3 DEF LiveSound
    <2>. QED
      BY <2>1, <2>3, <2>4
  <1>. HIDE DEF Visit
  <1>3. PICK f : Recurs(f, N, l, G, g)
    <2>1. G \in [0 .. N -> SUBSET X]
      OBVIOUS
    <2>2. ASSUME NEW n \in 1 .. N, NEW s \in G[n - 1] PROVE g[<<n, s>>] \in G[n]
      <3>1. n - 1 \in 0 .. N
        BY <1>0
      <3>2. s \in X
        BY <3>1
      <3>3. g[<<n, s>>] = Visit(s, n)
        BY <3>2
      <3>. QED
        BY <1>2, <3>3
    <2>. HIDE DEF G, g, N, X
    <2>3. Steps(N, l, G, g)
      BY <1>0, <1>1, <2>2 DEF Steps
    <2>. QED
      BY <2>1, <2>3, Recursion
  <1>4. Eq(f)
    <2>1. ASSUME NEW n \in 1 .. N PROVE f[n] = Visit(f[n - 1], n)
      <3>1. n - 1 \in 0 .. N
        BY <1>0
      <3>2. f[n] = g[<<n, f[n - 1]>>] /\ f[n - 1] \in G[n - 1]
        <4>. HIDE DEF G, g, N
        <4>. QED
          BY <1>3, <3>1 DEF Recurs
      <3>3. f[n - 1] \in X
        BY <3>1, <3>2
      <3>. QED
        BY <3>2, <3>3
    <2>2. f[0] = l /\ f = [n \in 0 .. N |-> f[n]]
      <3>. HIDE DEF G, g, N
      <3>. QED
        BY <1>3 DEF Recurs
    <2>3. \A n \in 0 .. N : n = 0 \/ n \in 1 .. N
      BY <1>0
    <2>. HIDE DEF G, g
    <2>. QED
      BY <2>1, <2>2, <2>3
  <1>5. Eq(after)
    <2>1. after = CHOOSE h : Eq(h)
      BY DEF Visit
    <2>. HIDE DEF Eq, after
    <2>. QED
      BY <1>4, <2>1
  <1>. HIDE DEF after
  <1>6. after[0] = l /\ \A n \in 1 .. N : after[n] = Visit(after[n - 1], n)
    <2>1. after[0] = l
      BY <1>0, <1>5
    <2>2. ASSUME NEW n \in 1 .. N PROVE after[n] = Visit(after[n - 1], n)
      <3>1. n \in 0 .. Len(b) /\ n # 0
        BY <1>0
      <3>. QED
        BY <1>5, <3>1
    <2>. QED
      BY <2>1, <2>2
  <1>7. \A n \in 0 .. N : after[n] \in G[n]
    <2>1. \A n \in 1 .. N : after[n - 1] \in G[n - 1] => after[n] \in G[n]
      BY <1>2, <1>6
    <2>2. after[0] \in G[0]
      BY <1>1, <1>6
    <2>. HIDE DEF G, N
    <2>. QED
      BY <1>0, <2>1, <2>2, RecursionStays
  <1>8. Visits(c, b, l, after)
    BY <1>6, <1>7 DEF Visits, Visit
  <1>9. LivePass(c, b, l) = after[Len(b)]
    BY DEF LivePass, after
  <1>. QED
    BY <1>8, <1>9

\* A round of analyze_live_sets adds nothing that is not live.
LEMMA LivePassSound ==
  ASSUME NEW c, NEW b, Graph(c, b), NEW l, LiveSound(c, b, l)
  PROVE  LiveSound(c, b, LivePass(c, b, l))
  <1>1. PICK w : Visits(c, b, l, w) /\ LivePass(c, b, l) = w[Len(b)]
    BY LivePassVisits
  <1>2. Len(b) \in 0 .. Len(b)
    BY GraphOK
  <1>. QED
    BY <1>1, <1>2 DEF Visits

\* A visit changes one block.
LEMMA VisitChangesOne ==
  ASSUME NEW c, NEW b, NEW l, LiveSound(c, b, l), NEW k \in 1 .. Len(b),
         NEW j \in 1 .. Len(b), j # k
  PROVE  VisitBlock(c, b, l, k)[j] = l[j]
  <1>1. l \in [1 .. Len(b) -> LiveSet]
    BY DEF LiveSound
  <1>2. VisitParts(c, b, l, k, Entered(c, b, l, k), VisitBlock(c, b, l, k))
    BY <1>1, VisitBlockIs
  <1>. QED
    BY <1>2 DEF VisitParts

\* When a round changes nothing, no visit does.
LEMMA NoVisitChanges ==
  ASSUME NEW c, NEW b, Graph(c, b), NEW l, LiveSound(c, b, l), LivePass(c, b, l) = l,
         NEW k \in 1 .. Len(b)
  PROVE  VisitBlock(c, b, l, k) = l
  <1>. DEFINE N == Len(b)
  <1>0. N \in Nat
    BY GraphOK
  <1>1. PICK w : Visits(c, b, l, w) /\ LivePass(c, b, l) = w[N]
    BY LivePassVisits
  <1>2. /\ w[0] = l /\ w[N] = l /\ \A n \in 0 .. N : LiveSound(c, b, w[n])
        /\ \A n \in 1 .. N : w[n] = VisitBlock(c, b, w[n - 1], N + 1 - n)
    BY <1>1 DEF Visits
  <1>3. ASSUME NEW n \in 0 .. N - 1, NEW j \in 1 .. N, j # N - n
        PROVE  w[n + 1][j] = w[n][j]
    <2>1. n + 1 \in 1 .. N /\ (n + 1) - 1 = n /\ N + 1 - (n + 1) = N - n /\ N - n \in 1 .. N
      BY <1>0
    <2>2. w[n + 1] = VisitBlock(c, b, w[n], N - n) /\ LiveSound(c, b, w[n])
      <3>1. w[n + 1] = VisitBlock(c, b, w[(n + 1) - 1], N + 1 - (n + 1))
        BY <1>2, <2>1
      <3>2. n \in 0 .. N
        BY <1>0
      <3>. QED
        BY <1>2, <2>1, <3>1, <3>2
    <2>. QED
      BY <1>3, <2>1, <2>2, VisitChangesOne
  <1>. DEFINE A == {n \in Nat : n <= N => \A j \in 1 .. N : j <= N - n => w[n][j] = l[j]}
  <1>4. 0 \in A
    BY <1>2
  <1>5. ASSUME NEW n \in Nat, n \in A PROVE n + 1 \in A
    <2>. SUFFICES ASSUME n + 1 <= N, NEW j \in 1 .. N, j <= N - (n + 1)
                  PROVE  w[n + 1][j] = l[j]
      OBVIOUS
    <2>1. n \in 0 .. N - 1 /\ j # N - n /\ j <= N - n /\ n <= N
      BY <1>0
    <2>2. w[n][j] = l[j]
      BY <1>5, <2>1
    <2>. QED
      BY <1>3, <2>1, <2>2
  <1>. HIDE DEF A
  <1>6. \A n \in Nat : n \in A
    BY <1>4, <1>5, SetInduction
  <1>. DEFINE B == {n \in Nat : n <= N => \A j \in 1 .. N : j > N - n => w[n][j] = l[j]}
  <1>7. N \in B
    BY <1>0, <1>2
  <1>8. ASSUME NEW n \in 0 .. N - 1, n + 1 \in B PROVE n \in B
    <2>. SUFFICES ASSUME NEW j \in 1 .. N, j > N - n PROVE w[n][j] = l[j]
      BY <1>0
    <2>1. j # N - n /\ j > N - (n + 1) /\ n + 1 <= N
      BY <1>0
    <2>2. w[n + 1][j] = l[j]
      BY <1>8, <2>1
    <2>. QED
      BY <1>3, <2>1, <2>2
  <1>. HIDE DEF B
  <1>9. \A n \in 0 .. N : n \in B
    <2>1. 0 \in Int /\ N \in Int
      BY <1>0
    <2>. HIDE DEF N
    <2>. QED
      BY <1>7, <1>8, <2>1, DownInduction
  <1>10. ASSUME NEW n \in 0 .. N PROVE w[n] = l
    <2>1. n \in A /\ n \in B /\ n \in Nat /\ n <= N
      BY <1>0, <1>6, <1>9
    <2>2. ASSUME NEW j \in 1 .. N PROVE w[n][j] = l[j]
      BY <1>0, <2>1 DEF A, B
    <2>3. l \in [1 .. N -> LiveSet] /\ w[n] \in [1 .. N -> LiveSet]
      BY <1>2 DEF LiveSound
    <2>. QED
      BY <2>2, <2>3
  <1>11. /\ N + 1 - k \in 1 .. N /\ N + 1 - k \in 0 .. N /\ (N + 1 - k) - 1 \in 0 .. N
         /\ N + 1 - (N + 1 - k) = k
    BY <1>0
  <1>12. w[N + 1 - k] = VisitBlock(c, b, w[(N + 1 - k) - 1], k)
    BY <1>2, <1>11
  <1>. QED
    BY <1>10, <1>11, <1>12

\* What the live sets say of an offset: a use comes before a write in the rest
\* of its block, or the variable is live behind the block and not written.
LocallyLive(c, b, l, v, k, i) ==
  \/ \E m \in i .. b[k].end - 1 : v \in c[m].in /\ \A j \in i .. m - 1 : v \notin c[j].out
  \/ v \in l[k].out /\ \A j \in i .. b[k].end - 1 : v \notin c[j].out

\* At the start of a block that is its live_in_set.
LEMMA LocallyLiveIn ==
  ASSUME NEW c, NEW b, Graph(c, b), NEW l, LiveSound(c, b, l), NEW v \in Vregs,
         NEW k \in 1 .. Len(b), VisitBlock(c, b, l, k) = l
  PROVE  /\ LocallyLive(c, b, l, v, k, b[k].start) <=> v \in l[k].in
         /\ l[k].out = UNION {l[FindBb(b, s)].in : s \in ToSet(b[k].succ)}
  <1>1. /\ l[k].in = (l[k].out \ DefSet(c, b[k])) \cup UseSet(c, b[k])
        /\ l[k].out = UNION {l[FindBb(b, s)].in : s \in ToSet(b[k].succ)}
    <2>. DEFINE d == VisitBlock(c, b, l, k)
                e == Entered(c, b, l, k)
    <2>0. l \in [1 .. Len(b) -> LiveSet]
      BY DEF LiveSound
    <2>1. VisitParts(c, b, l, k, e, d)
      BY <2>0, VisitBlockIs
    <2>2. d = l
      OBVIOUS
    <2>. HIDE DEF d, e
    <2>3. l[k] = [in |-> l[k].in, out |-> l[k].out]
      BY <2>0 DEF LiveSet
    <2>4. e[k].in = l[k].in /\ e[k].out = l[k].out /\ e[k] = [in |-> e[k].in, out |-> e[k].out]
      BY <2>1, <2>2 DEF VisitParts
    <2>5. e[k] = l[k]
      BY <2>3, <2>4
    <2>6. \A j \in 1 .. Len(b) : e[j] = l[j]
      BY <2>1, <2>5 DEF VisitParts
    <2>7. e = l
      BY <2>0, <2>1, <2>6 DEF VisitParts
    <2>. QED
      BY SMTT(30), <2>1, <2>2, <2>7 DEF VisitParts
  <1>2. v \in UseSet(c, b[k]) <=>
          \E m \in b[k].start .. b[k].end - 1 :
            v \in c[m].in /\ \A j \in b[k].start .. m - 1 : v \notin c[j].out
    BY DEF UseSet, Offsets
  <1>3. v \in DefSet(c, b[k]) <=> \E j \in b[k].start .. b[k].end - 1 : v \in c[j].out
    BY DEF DefSet, Offsets
  <1>4. LocallyLive(c, b, l, v, k, b[k].start) <=> v \in l[k].in
    BY <1>1, <1>2, <1>3 DEF LocallyLive
  <1>. QED
    BY <1>1, <1>4

\* A fixpoint of analyze_live_sets leaves out nothing that is live.
LEMMA LiveSetsComplete ==
  ASSUME NEW c, NEW b, Graph(c, b), NEW l, LiveSound(c, b, l), NEW v \in Vregs,
         \A k \in 1 .. Len(b) : VisitBlock(c, b, l, k) = l
  PROVE  \A k \in 1 .. Len(b) :
           /\ b[k].start \in LiveBefore(c, v) => v \in l[k].in
           /\ NextOffsets(c, b[k].end - 1) \cap LiveBefore(c, v) # {} => v \in l[k].out
  <1>. DEFINE S == {i \in 1 .. Len(c) : LocallyLive(c, b, l, v, FindBb(b, i), i)}
  <1>0. Len(c) \in Nat /\ Tiles(c, b) /\ IsMethod(c) /\ Len(b) \in Nat
    BY GraphOK
  <1>1. ASSUME NEW k \in 1 .. Len(b), NEW i \in b[k].start .. b[k].end - 1
        PROVE  FindBb(b, i) = k /\ i \in 1 .. Len(c)
    <2>1. i \in 1 .. Len(c) /\ b[k].start <= i /\ i < b[k].end /\ i \in Nat
      BY <1>0, GraphOK
    <2>. DEFINE f == FindBb(b, i)
    <2>2. f \in 1 .. Len(b) /\ b[f].start <= i /\ i < b[f].end
      BY <1>0, <2>1, FindBbFinds
    <2>. HIDE DEF f
    <2>3. ~(f < k)
      <3>1. SUFFICES ASSUME f < k PROVE FALSE
        OBVIOUS
      <3>2. b[f].end <= b[k].start
        BY <1>0, <2>2, <3>1, BlocksInOrder
      <3>. QED
        BY <2>1, <2>2, <3>2, GraphOK
    <2>4. ~(k < f)
      <3>1. SUFFICES ASSUME k < f PROVE FALSE
        OBVIOUS
      <3>2. b[k].end <= b[f].start
        BY <1>0, <2>2, <3>1, BlocksInOrder
      <3>. QED
        BY <2>1, <2>2, <3>2, GraphOK
    <2>5. f = k
      BY <1>0, <2>2, <2>3, <2>4
    <2>. QED
      BY <2>1, <2>5 DEF f
  <1>2. ASSUME NEW k \in 1 .. Len(b), NEW s \in NextOffsets(c, b[k].end - 1), s \in S
        PROVE  v \in l[k].out
    <2>1. FindBb(b, s) \in 1 .. Len(b) /\ b[FindBb(b, s)].start = s
      BY SuccessorStarts
    <2>2. LocallyLive(c, b, l, v, FindBb(b, s), s)
      BY <1>2
    <2>3. v \in l[FindBb(b, s)].in
      BY <2>1, <2>2, LocallyLiveIn
    <2>4. l[k].out = UNION {l[FindBb(b, t)].in : t \in ToSet(b[k].succ)}
      BY LocallyLiveIn
    <2>5. s \in ToSet(b[k].succ)
      BY GraphOK
    <2>. QED
      BY <2>3, <2>4, <2>5
  <1>3. ASSUME NEW i \in LiveOneBefore(c, v, S) PROVE i \in S
    <2>. DEFINE k == FindBb(b, i)
                e == b[k].end - 1
    <2>1. /\ i \in 1 .. Len(c)
          /\ v \in c[i].in \/ (v \notin c[i].out /\ NextOffsets(c, i) \cap S # {})
      BY <1>3, GraphOK DEF LiveOneBefore
    <2>2. k \in 1 .. Len(b) /\ b[k].start <= i /\ i < b[k].end
      BY <1>0, <2>1, FindBbFinds
    <2>. HIDE DEF k, S
    <2>3. b[k].start \in Nat /\ b[k].end \in Nat /\ i \in Nat /\ e \in Int /\ i <= e
      BY <2>1, <2>2, GraphOK
    <2>4. CASE v \in c[i].in
      <3>1. i \in i .. e /\ \A j \in i .. i - 1 : v \notin c[j].out
        BY <2>3
      <3>2. LocallyLive(c, b, l, v, k, i)
        BY <2>4, <3>1 DEF LocallyLive
      <3>. QED
        BY <2>1, <3>2 DEF S, k
    <2>5. CASE v \notin c[i].out /\ NextOffsets(c, i) \cap S # {}
      <3>1. PICK s \in NextOffsets(c, i) : s \in S
        BY <2>5
      <3>2. CASE i = e
        <4>1. v \in l[k].out
          BY <1>2, <2>2, <3>1, <3>2
        <4>2. \A j \in i .. e : j = i
          BY <2>3, <3>2
        <4>3. LocallyLive(c, b, l, v, k, i)
          BY <2>5, <4>1, <4>2 DEF LocallyLive
        <4>. QED
          BY <2>1, <4>3 DEF S, k
      <3>3. CASE i # e
        <4>1. i \in b[k].start .. b[k].end - 2 /\ i + 1 \in b[k].start .. b[k].end - 1
          BY <2>2, <2>3, <3>3
        <4>2. NextOffsets(c, i) = {i + 1}
          BY <2>2, <4>1, StraightLine
        <4>3. FindBb(b, i + 1) = k
          BY <1>1, <2>2, <4>1
        <4>4. LocallyLive(c, b, l, v, k, i + 1)
          BY <3>1, <4>2, <4>3 DEF S
        <4>5. CASE \E m \in i + 1 .. e : v \in c[m].in /\ \A j \in i + 1 .. m - 1 : v \notin c[j].out
          <5>1. PICK m \in i + 1 .. e :
                  v \in c[m].in /\ \A j \in i + 1 .. m - 1 : v \notin c[j].out
            BY <4>5
          <5>2. m \in i .. e /\ \A j \in i .. m - 1 : j = i \/ j \in i + 1 .. m - 1
            BY <2>3
          <5>3. \A j \in i .. m - 1 : v \notin c[j].out
            BY <2>5, <5>1, <5>2
          <5>4. LocallyLive(c, b, l, v, k, i)
            BY <5>1, <5>2, <5>3 DEF LocallyLive
          <5>. QED
            BY <2>1, <5>4 DEF S, k
        <4>6. CASE v \in l[k].out /\ \A j \in i + 1 .. e : v \notin c[j].out
          <5>1. \A j \in i .. e : j = i \/ j \in i + 1 .. e
            BY <2>3
          <5>2. LocallyLive(c, b, l, v, k, i)
            BY <2>5, <4>6, <5>1 DEF LocallyLive
          <5>. QED
            BY <2>1, <5>2 DEF S, k
        <4>. QED
          BY <4>4, <4>5, <4>6 DEF LocallyLive
      <3>. QED
        BY <3>2, <3>3
    <2>. QED
      BY <2>1, <2>4, <2>5
  <1>4. LiveBefore(c, v) \subseteq S
    <2>. HIDE DEF S
    <2>. QED
      BY <1>0, <1>3, LiveBeforeLeast
  <1>5. ASSUME NEW k \in 1 .. Len(b), b[k].start \in LiveBefore(c, v) PROVE v \in l[k].in
    <2>1. b[k].start \in b[k].start .. b[k].end - 1
      BY GraphOK
    <2>2. FindBb(b, b[k].start) = k
      BY <1>1, <2>1
    <2>3. LocallyLive(c, b, l, v, k, b[k].start)
      BY <1>4, <1>5, <2>2
    <2>. QED
      BY <2>3, LocallyLiveIn
  <1>. QED
    BY <1>2, <1>4, <1>5

\* When analyze_live_sets ends, the live sets are exact.
LEMMA LiveSetsAreExact ==
  ASSUME NEW c, NEW b, Graph(c, b), NEW l, LiveSound(c, b, l), LivePass(c, b, l) = l
  PROVE  LiveSetsExact(c, b, l)
  <1>1. \A k \in 1 .. Len(b) : VisitBlock(c, b, l, k) = l
    BY NoVisitChanges
  <1>2. ASSUME NEW v \in Vregs, NEW k \in 1 .. Len(b)
        PROVE  /\ v \in l[k].in <=> b[k].start \in LiveBefore(c, v)
               /\ v \in l[k].out <=> NextOffsets(c, b[k].end - 1) \cap LiveBefore(c, v) # {}
    <2>1. v \in l[k].in => b[k].start \in LiveBefore(c, v)
      BY DEF LiveSound, NeededIn
    <2>2. v \in l[k].out => NextOffsets(c, b[k].end - 1) \cap LiveBefore(c, v) # {}
      BY DEF LiveSound, NeededOut
    <2>3. /\ b[k].start \in LiveBefore(c, v) => v \in l[k].in
          /\ NextOffsets(c, b[k].end - 1) \cap LiveBefore(c, v) # {} => v \in l[k].out
      BY <1>1, LiveSetsComplete
    <2>. QED
      BY <2>1, <2>2, <2>3
  <1>3. DOMAIN b = 1 .. Len(b)
    BY GraphOK
  <1>. QED
    BY <1>2, <1>3 DEF LiveSetsExact

-----------------------------------------------------------------------------
(* Ranges and intervals                                                    *)

\* The values that ranges and intervals have
Ranges == [start : Nat, end : Nat]
Intervals ==
  [var : Nat, ranges : Seq(Ranges), expired : Seq(Ranges), uses : SUBSET SUBSET Nat,
   fixed : BOOLEAN, reg : Nat, spill : BOOLEAN, reload : BOOLEAN,
   parent : Nat, next : Nat, prev : Nat]

\* RangesInOrder and IntervalCovers, for the ranges alone
InOrder(rs) ==
  \A k \in 1 .. Len(rs) :
    rs[k].start < rs[k].end /\ (k > 1 => rs[k - 1].end < rs[k].start)
Covered(rs, p) == \E k \in 1 .. Len(rs) : InRange(rs[k], p)

\* d has one more range than rs, in front.
InFront(rs, d, s, e) ==
  /\ d \in Seq(Ranges) /\ Len(d) = Len(rs) + 1 /\ d[1] = LiveRange(s, e)
  /\ \A j \in 2 .. Len(rs) + 1 : d[j] = rs[j - 1]
\* d has the ranges of rs, but the first one starts at s.
First(rs, d, s) ==
  /\ d \in Seq(Ranges) /\ Len(d) = Len(rs) /\ rs # <<>>
  /\ d[1] = LiveRange(s, rs[1].end)
  /\ \A j \in 2 .. Len(rs) : d[j] = rs[j]
\* Only the ranges of an interval are changed.
Same(it, d) ==
  /\ d \in Intervals /\ d.var = it.var /\ d.fixed = it.fixed /\ d.reg = it.reg

\* Numbers of a list of ranges
LEMMA RangesOK ==
  ASSUME NEW rs \in Seq(Ranges)
  PROVE  /\ Len(rs) \in Nat /\ DOMAIN rs = 1 .. Len(rs) /\ (rs # <<>> <=> Len(rs) >= 1)
         /\ \A k \in 1 .. Len(rs) : rs[k] \in Ranges /\ rs[k].start \in Nat /\ rs[k].end \in Nat
  <1>1. Len(rs) \in Nat /\ DOMAIN rs = 1 .. Len(rs)
    BY LenProperties
  <1>2. rs # <<>> <=> Len(rs) >= 1
    BY <1>1, EmptySeq
  <1>3. \A k \in 1 .. Len(rs) : rs[k] \in Ranges
    BY ElementOfSeq
  <1>. QED
    BY <1>1, <1>2, <1>3 DEF Ranges

\* The first range starts first.
LEMMA FirstStart ==
  ASSUME NEW rs \in Seq(Ranges), InOrder(rs), NEW k \in 1 .. Len(rs)
  PROVE  rs[1].start <= rs[k].start
  <1>. DEFINE T == {n \in Nat : n + 1 <= Len(rs) => rs[1].start <= rs[n + 1].start}
  <1>1. 0 \in T
    BY RangesOK
  <1>2. ASSUME NEW n \in Nat, n \in T PROVE n + 1 \in T
    <2>. SUFFICES ASSUME (n + 1) + 1 <= Len(rs) PROVE rs[1].start <= rs[(n + 1) + 1].start
      OBVIOUS
    <2>1. /\ n + 1 \in 1 .. Len(rs) /\ (n + 1) + 1 \in 1 .. Len(rs) /\ 1 \in 1 .. Len(rs)
          /\ ((n + 1) + 1) - 1 = n + 1 /\ (n + 1) + 1 > 1
      BY RangesOK
    <2>2. rs[n + 1].start < rs[n + 1].end
      BY <2>1 DEF InOrder
    <2>3. rs[n + 1].end < rs[(n + 1) + 1].start
      BY <2>1 DEF InOrder
    <2>4. rs[1].start <= rs[n + 1].start
      BY <1>2, <2>1
    <2>5. /\ rs[1].start \in Nat /\ rs[n + 1].start \in Nat /\ rs[n + 1].end \in Nat
          /\ rs[(n + 1) + 1].start \in Nat
      BY <2>1, RangesOK
    <2>. QED
      BY <2>2, <2>3, <2>4, <2>5
  <1>. HIDE DEF T
  <1>3. \A n \in Nat : n \in T
    BY <1>1, <1>2, SetInduction
  <1>4. k - 1 \in Nat /\ (k - 1) + 1 = k /\ k <= Len(rs)
    BY RangesOK
  <1>. QED
    BY <1>3, <1>4 DEF T

\* A range in front of all others
LEMMA FrontOK ==
  ASSUME NEW rs \in Seq(Ranges), InOrder(rs), NEW s \in Nat, NEW e \in Nat, s < e,
         rs = <<>> \/ e < rs[1].start, NEW d, InFront(rs, d, s, e)
  PROVE  /\ d \in Seq(Ranges) /\ InOrder(d) /\ d # <<>> /\ d[1].start = s /\ d[1].end = e
         /\ \A p : Covered(rs, p) => Covered(d, p)
         /\ \A p \in s .. e - 1 : Covered(d, p)
  <1>0. /\ Len(rs) \in Nat /\ d \in Seq(Ranges) /\ Len(d) = Len(rs) + 1
        /\ d[1].start = s /\ d[1].end = e
        /\ \A j \in 2 .. Len(rs) + 1 : d[j] = rs[j - 1]
    BY RangesOK DEF InFront, LiveRange
  <1>1. d # <<>> /\ 1 \in 1 .. Len(d)
    BY <1>0, RangesOK
  <1>2. ASSUME NEW k \in 1 .. Len(d)
        PROVE  d[k].start < d[k].end /\ (k > 1 => d[k - 1].end < d[k].start)
    <2>1. CASE k = 1
      BY <1>0, <2>1
    <2>2. CASE k # 1
      <3>1. k \in 2 .. Len(rs) + 1 /\ k - 1 \in 1 .. Len(rs) /\ k \in Nat
        BY <1>0, <2>2
      <3>2. d[k] = rs[k - 1] /\ rs[k - 1].start < rs[k - 1].end
        BY <1>0, <3>1 DEF InOrder
      <3>3. CASE k = 2
        <4>1. rs # <<>> /\ k - 1 = 1
          BY <3>1, <3>3, RangesOK
        <4>. QED
          BY <1>0, <3>2, <4>1
      <3>4. CASE k # 2
        <4>1. k - 1 \in 2 .. Len(rs) + 1 /\ k - 1 > 1
          BY <1>0, <3>1, <3>4
        <4>2. d[k - 1] = rs[(k - 1) - 1]
          BY <1>0, <4>1
        <4>3. rs[(k - 1) - 1].end < rs[k - 1].start
          BY <3>1, <4>1 DEF InOrder
        <4>. QED
          BY <3>2, <4>2, <4>3
      <3>. QED
        BY <3>3, <3>4
    <2>. QED
      BY <2>1, <2>2
  <1>3. ASSUME NEW p, Covered(rs, p) PROVE Covered(d, p)
    <2>1. PICK k \in 1 .. Len(rs) : InRange(rs[k], p)
      BY <1>3 DEF Covered
    <2>2. k + 1 \in 1 .. Len(d) /\ k + 1 \in 2 .. Len(rs) + 1 /\ (k + 1) - 1 = k
      BY <1>0
    <2>3. d[k + 1] = rs[k]
      BY <1>0, <2>2
    <2>. QED
      BY <2>1, <2>2, <2>3 DEF Covered
  <1>4. ASSUME NEW p \in s .. e - 1 PROVE Covered(d, p)
    BY <1>0, <1>1 DEF Covered, InRange
  <1>5. InOrder(d)
    BY <1>2 DEF InOrder
  <1>. QED
    BY <1>0, <1>1, <1>3, <1>4, <1>5

\* Another start of the first range
LEMMA FirstOK ==
  ASSUME NEW rs \in Seq(Ranges), InOrder(rs), NEW s \in Nat, NEW d, First(rs, d, s),
         s < rs[1].end
  PROVE  /\ d \in Seq(Ranges) /\ InOrder(d) /\ d # <<>>
         /\ d[1].start = s /\ d[1].end = rs[1].end
         /\ \A p \in Nat : p >= s /\ Covered(rs, p) => Covered(d, p)
         /\ \A p \in s .. rs[1].end - 1 : Covered(d, p)
  <1>0. /\ Len(rs) \in Nat /\ d \in Seq(Ranges) /\ Len(d) = Len(rs) /\ Len(rs) >= 1
        /\ d[1].start = s /\ d[1].end = rs[1].end /\ rs[1].end \in Nat
        /\ \A j \in 2 .. Len(rs) : d[j] = rs[j]
    BY RangesOK DEF First, LiveRange
  <1>1. d # <<>> /\ 1 \in 1 .. Len(d)
    BY <1>0, RangesOK
  <1>2. ASSUME NEW k \in 1 .. Len(d)
        PROVE  d[k].start < d[k].end /\ (k > 1 => d[k - 1].end < d[k].start)
    <2>1. CASE k = 1
      BY <1>0, <2>1
    <2>2. CASE k # 1
      <3>1. k \in 2 .. Len(rs) /\ k - 1 \in 1 .. Len(rs) /\ k \in Nat /\ k > 1 /\ k \in 1 .. Len(rs)
        BY <1>0, <2>2
      <3>2. d[k] = rs[k] /\ rs[k].start < rs[k].end /\ rs[k - 1].end < rs[k].start
        BY <1>0, <3>1 DEF InOrder
      <3>3. d[k - 1].end = rs[k - 1].end
        <4>1. CASE k = 2
          BY <1>0, <4>1
        <4>2. CASE k # 2
          <5>1. k - 1 \in 2 .. Len(rs)
            BY <1>0, <3>1, <4>2
          <5>. QED
            BY <1>0, <5>1
        <4>. QED
          BY <4>1, <4>2
      <3>. QED
        BY <3>2, <3>3
    <2>. QED
      BY <2>1, <2>2
  <1>3. ASSUME NEW p \in Nat, p >= s, Covered(rs, p) PROVE Covered(d, p)
    <2>1. PICK k \in 1 .. Len(rs) : InRange(rs[k], p)
      BY <1>3 DEF Covered
    <2>2. CASE k = 1
      <3>1. p < d[1].end /\ d[1].start <= p
        BY <1>0, <1>3, <2>1, <2>2 DEF InRange
      <3>. QED
        BY <1>1, <3>1 DEF Covered, InRange
    <2>3. CASE k # 1
      <3>1. k \in 2 .. Len(rs) /\ k \in 1 .. Len(d)
        BY <1>0, <2>3
      <3>2. d[k] = rs[k]
        BY <1>0, <3>1
      <3>. QED
        BY <2>1, <3>1, <3>2 DEF Covered
    <2>. QED
      BY <2>2, <2>3
  <1>4. ASSUME NEW p \in s .. rs[1].end - 1 PROVE Covered(d, p)
    BY <1>0, <1>1 DEF Covered, InRange
  <1>5. InOrder(d)
    BY <1>2 DEF InOrder
  <1>. QED
    BY <1>0, <1>1, <1>3, <1>4, <1>5

\* Other ranges for an interval
LEMMA OtherRanges ==
  ASSUME NEW it \in Intervals, NEW d \in Seq(Ranges)
  PROVE  Same(it, [it EXCEPT !.ranges = d]) /\ [it EXCEPT !.ranges = d].ranges = d
  BY DEF Same, Intervals

\* Mininum and maximum of two numbers
LEMMA MinMaxOfTwo ==
  ASSUME NEW a \in Nat, NEW b \in Nat, a <= b
  PROVE  Min({a, b}) = a /\ Max({a, b}) = b /\ Min({b, a}) = a /\ Max({b, a}) = b
  BY DEF Min, Max

\* interval_add_range, when nothing is touched
LEMMA AddFront ==
  ASSUME NEW it \in Intervals, InOrder(it.ranges), NEW s \in Nat, NEW e \in Nat, s < e,
         it.ranges = <<>> \/ e < it.ranges[1].start
  PROVE  LET d == IntervalAddRange(it, s, e)
         IN  Same(it, d) /\ InFront(it.ranges, d.ranges, s, e)
  <1>. DEFINE rs == it.ranges
              touch == {k \in DOMAIN rs : rs[k].start <= e /\ s <= rs[k].end}
              after == {k \in DOMAIN rs : s <= rs[k].start}
              place == IF after = {} THEN Len(rs) + 1 ELSE Min(after)
              d == InsertAt(rs, place, LiveRange(s, e))
  <1>0. rs \in Seq(Ranges)
    BY DEF Intervals
  <1>. HIDE DEF rs
  <1>1. /\ Len(rs) \in Nat /\ DOMAIN rs = 1 .. Len(rs) /\ (rs # <<>> <=> Len(rs) >= 1)
        /\ \A k \in 1 .. Len(rs) : rs[k].start \in Nat /\ rs[k].end \in Nat
    BY <1>0, RangesOK
  <1>2. ASSUME NEW k \in 1 .. Len(rs) PROVE e < rs[k].start
    <2>1. rs # <<>> /\ 1 \in 1 .. Len(rs)
      BY <1>1
    <2>2. e < rs[1].start
      BY <2>1 DEF rs
    <2>3. rs[1].start <= rs[k].start
      BY <1>0, FirstStart DEF rs
    <2>. QED
      BY <1>1, <2>1, <2>2, <2>3
  <1>3. touch = {}
    BY <1>1, <1>2
  <1>4. place = 1
    <2>1. after = 1 .. Len(rs)
      BY <1>1, <1>2
    <2>2. CASE Len(rs) = 0
      BY <2>1, <2>2
    <2>3. CASE Len(rs) # 0
      <3>1. 1 \in 1 .. Len(rs) /\ \A k \in 1 .. Len(rs) : 1 <= k
        BY <1>1, <2>3
      <3>2. Min(1 .. Len(rs)) = 1
        BY <3>1 DEF Min
      <3>. QED
        BY <2>1, <3>1, <3>2
    <2>. QED
      BY <2>2, <2>3
  <1>5. IntervalAddRange(it, s, e) = [it EXCEPT !.ranges = d]
    <2>1. IntervalAddRange(it, s, e) =
            [it EXCEPT !.ranges =
               IF touch # {} THEN IF touch = {} THEN rs
                                  ELSE [rs EXCEPT ![Min(touch)] =
                                          LiveRange(Min({s, @.start}), Max({e, @.end}))]
               ELSE d]
      BY DEF IntervalAddRange, rs
    <2>. HIDE DEF touch, d
    <2>. QED
      BY <1>3, <2>1
  <1>6. LiveRange(s, e) \in Ranges
    BY DEF LiveRange, Ranges
  <1>7. InFront(rs, d, s, e)
    <2>1. 1 \in 1 .. Len(rs) + 1
      BY <1>1
    <2>2. d = InsertAt(rs, 1, LiveRange(s, e))
      BY <1>4
    <2>. HIDE DEF d
    <2>3. /\ d \in Seq(Ranges) /\ Len(d) = Len(rs) + 1
          /\ \A j \in 1 .. Len(rs) + 1 :
               d[j] = IF j < 1 THEN rs[j] ELSE IF j = 1 THEN LiveRange(s, e) ELSE rs[j - 1]
      <3>. DEFINE r == LiveRange(s, e)
                  i == 1
      <3>1. r \in Ranges /\ i \in 1 .. Len(rs) + 1 /\ d = InsertAt(rs, i, r)
        BY <1>6, <2>1, <2>2
      <3>. HIDE DEF r, i, touch, after, place
      <3>2. /\ InsertAt(rs, i, r) \in Seq(Ranges)
            /\ Len(InsertAt(rs, i, r)) = Len(rs) + 1
            /\ \A j \in 1 .. Len(rs) + 1 :
                 InsertAt(rs, i, r)[j] = IF j < i THEN rs[j] ELSE IF j = i THEN r ELSE rs[j - 1]
        BY SMTT(60), <1>0, <3>1, InsertAtOK
      <3>3. /\ d \in Seq(Ranges) /\ Len(d) = Len(rs) + 1
            /\ \A j \in 1 .. Len(rs) + 1 :
                 d[j] = IF j < i THEN rs[j] ELSE IF j = i THEN r ELSE rs[j - 1]
        BY <3>1, <3>2
      <3>. QED
        BY <3>3 DEF r, i
    <2>4. d[1] = LiveRange(s, e)
      BY <2>1, <2>3
    <2>5. ASSUME NEW j \in 2 .. Len(rs) + 1 PROVE d[j] = rs[j - 1]
      <3>1. j \in 1 .. Len(rs) + 1 /\ ~(j < 1) /\ j # 1
        BY <1>1
      <3>. QED
        BY <2>3, <3>1
    <2>. QED
      BY <2>3, <2>4, <2>5 DEF InFront
  <1>8. d \in Seq(Ranges)
    BY <1>7 DEF InFront
  <1>. HIDE DEF d
  <1>. QED
    BY <1>5, <1>7, <1>8, OtherRanges DEF rs

\* interval_add_range, when the first range is touched and ends behind
LEMMA AddFirst ==
  ASSUME NEW it \in Intervals, it.ranges # <<>>, NEW s \in Nat, NEW e \in Nat,
         s <= it.ranges[1].start, it.ranges[1].start <= e, e <= it.ranges[1].end
  PROVE  LET d == IntervalAddRange(it, s, e)
         IN  Same(it, d) /\ First(it.ranges, d.ranges, s)
  <1>. DEFINE rs == it.ranges
              touch == {k \in DOMAIN rs : rs[k].start <= e /\ s <= rs[k].end}
              x == LiveRange(Min({s, rs[1].start}), Max({e, rs[1].end}))
              d == [rs EXCEPT ![1] = x]
              after == {k \in DOMAIN rs : s <= rs[k].start}
              place == IF after = {} THEN Len(rs) + 1 ELSE Min(after)
              other == InsertAt(rs, place, LiveRange(s, e))
  <1>0. rs \in Seq(Ranges)
    BY DEF Intervals
  <1>. HIDE DEF rs
  <1>1. /\ Len(rs) \in Nat /\ DOMAIN rs = 1 .. Len(rs) /\ Len(rs) >= 1 /\ 1 \in 1 .. Len(rs)
        /\ rs[1].start \in Nat /\ rs[1].end \in Nat
        /\ s <= rs[1].start /\ rs[1].start <= e /\ e <= rs[1].end
    BY <1>0, RangesOK DEF rs
  <1>2. Min(touch) = 1 /\ touch # {}
    <2>1. 1 \in touch /\ \A k \in touch : 1 <= k
      BY <1>1
    <2>. HIDE DEF touch
    <2>2. \A k \in touch : (\A y \in touch : k <= y) => k = 1
      <3>1. touch \subseteq Nat
        BY <1>1 DEF touch
      <3>2. ASSUME NEW k \in touch, \A y \in touch : k <= y PROVE k = 1
        <4>1. k <= 1 /\ 1 <= k /\ k \in Nat
          BY <2>1, <3>1, <3>2
        <4>. QED
          BY <4>1
      <3>. QED
        BY <3>2
    <2>. QED
      BY <2>1, <2>2 DEF Min
  <1>3. x = LiveRange(s, rs[1].end)
    <2>1. Min({s, rs[1].start}) = s
      BY <1>1, MinMaxOfTwo
    <2>2. Max({e, rs[1].end}) = rs[1].end
      BY <1>1, MinMaxOfTwo
    <2>. QED
      BY <2>1, <2>2
  <1>4. IntervalAddRange(it, s, e) = [it EXCEPT !.ranges = d]
    <2>1. IntervalAddRange(it, s, e) =
            [it EXCEPT !.ranges =
               IF touch # {} THEN IF touch = {} THEN rs
                                  ELSE [rs EXCEPT ![Min(touch)] =
                                          LiveRange(Min({s, @.start}), Max({e, @.end}))]
               ELSE other]
      BY DEF IntervalAddRange, rs
    <2>. HIDE DEF touch, other
    <2>2. IntervalAddRange(it, s, e) =
            [it EXCEPT !.ranges = [rs EXCEPT ![Min(touch)] =
               LiveRange(Min({s, rs[Min(touch)].start}), Max({e, rs[Min(touch)].end}))]]
      BY <1>2, <2>1
    <2>. QED
      BY <1>2, <2>2
  <1>5. x \in Ranges
    BY <1>1, <1>3 DEF LiveRange, Ranges
  <1>. HIDE DEF x, touch, other
  <1>6. d \in Seq(Ranges) /\ Len(d) = Len(rs) /\ \A j \in 1 .. Len(rs) : d[j] = IF j = 1 THEN x ELSE rs[j]
    BY <1>0, <1>1, <1>5, ExceptSeq
  <1>. HIDE DEF d
  <1>7. First(rs, d, s)
    <2>1. d[1] = x
      BY <1>1, <1>6
    <2>2. ASSUME NEW j \in 2 .. Len(rs) PROVE d[j] = rs[j]
      <3>1. j \in 1 .. Len(rs) /\ j # 1
        BY <1>1
      <3>. QED
        BY <1>6, <3>1
    <2>3. rs # <<>>
      BY DEF rs
    <2>. QED
      BY <1>3, <1>6, <2>1, <2>2, <2>3 DEF First
  <1>. QED
    BY <1>4, <1>6, <1>7, OtherRanges DEF rs

-----------------------------------------------------------------------------
(* update_live_ranges                                                      *)

\* The first range begins at the block start and goes up to cur.
Open(rs, P, cur) == rs # <<>> /\ rs[1].start = P /\ rs[1].end >= cur

\* The ranges when all from cur on is done: they are behind cur, or the first
\* one is open.
Shape(rs, P, cur) == rs = <<>> \/ rs[1].start >= cur \/ Open(rs, P, cur)

\* The parts of CoversLife for one instruction
LifeAt(c, v, rs, i) ==
  /\ i \in LiveBefore(c, v) => Covered(rs, LirPos(i))
  /\ v \in c[i].out \/ NextOffsets(c, i) \cap LiveBefore(c, v) # {}
       => Covered(rs, LirPos(i) + 1)

\* A write begins the first range.
LEMMA DefineAtOK ==
  ASSUME NEW it \in Intervals, InOrder(it.ranges), NEW P \in Nat, NEW pos \in Nat, P <= pos,
         NEW bb, EndInsn(bb) \in Nat, pos + 2 <= EndInsn(bb), Shape(it.ranges, P, pos + 2)
  PROVE  LET d == DefineAt(it, pos + 1, bb)
         IN  /\ Same(it, d) /\ InOrder(d.ranges)
             /\ d.ranges # <<>> /\ d.ranges[1].start = pos + 1
             /\ \A p \in Nat : p >= pos + 1 /\ Covered(it.ranges, p) => Covered(d.ranges, p)
             /\ Covered(d.ranges, pos + 1)
  <1>. DEFINE rs == it.ranges
              d == DefineAt(it, pos + 1, bb)
              e == EndInsn(bb)
              s == pos + 1
  <1>0. rs \in Seq(Ranges) /\ s \in Nat /\ e \in Nat /\ s < e
    BY DEF Intervals
  <1>1. CASE rs = <<>>
    <2>1. d = IntervalAddRange(it, s, e)
      BY <1>1 DEF DefineAt
    <2>. HIDE DEF s, e, d
    <2>2. Same(it, d) /\ InFront(it.ranges, d.ranges, s, e)
      BY <1>0, <1>1, <2>1, AddFront
    <2>. HIDE DEF rs
    <2>3. /\ InOrder(d.ranges) /\ d.ranges # <<>> /\ d.ranges[1].start = s
          /\ \A p : Covered(rs, p) => Covered(d.ranges, p)
          /\ \A p \in s .. e - 1 : Covered(d.ranges, p)
      <3>1. InOrder(rs) /\ InFront(rs, d.ranges, s, e)
        BY <2>2 DEF rs
      <3>2. rs = <<>> \/ e < rs[1].start
        BY <1>1
      <3>3. /\ d.ranges \in Seq(Ranges) /\ InOrder(d.ranges) /\ d.ranges # <<>>
            /\ d.ranges[1].start = s /\ d.ranges[1].end = e
            /\ \A p : Covered(rs, p) => Covered(d.ranges, p)
            /\ \A p \in s .. e - 1 : Covered(d.ranges, p)
        BY <1>0, <3>1, <3>2, FrontOK
      <3>. QED
        BY <3>3
    <2>4. s \in s .. e - 1
      BY <1>0
    <2>. QED
      BY <2>2, <2>3, <2>4 DEF d, s, rs
  <1>2. CASE rs # <<>>
    <2>. DEFINE x == [rs[1] EXCEPT !.start = s]
                ds == [rs EXCEPT ![1] = x]
    <2>1. d = [it EXCEPT !.ranges = ds]
      BY <1>2 DEF DefineAt
    <2>. HIDE DEF d, rs
    <2>2. /\ Len(rs) \in Nat /\ 1 \in 1 .. Len(rs) /\ rs[1] \in Ranges
          /\ rs[1].start \in Nat /\ rs[1].end \in Nat /\ rs[1].start < rs[1].end
      <3>1. Len(rs) \in Nat /\ 1 \in 1 .. Len(rs)
        BY <1>0, <1>2, RangesOK
      <3>2. InOrder(rs)
        BY DEF rs
      <3>. QED
        BY <1>0, <3>1, <3>2, RangesOK DEF InOrder
    <2>3. x = LiveRange(s, rs[1].end) /\ x \in Ranges
      <3>. DEFINE r == rs[1]
      <3>1. r \in Ranges /\ r.end \in Nat
        BY <2>2
      <3>. HIDE DEF r, s
      <3>2. [r EXCEPT !.start = s] = LiveRange(s, r.end) /\ LiveRange(s, r.end) \in Ranges
        BY <1>0, <3>1 DEF LiveRange, Ranges
      <3>. QED
        BY <3>2 DEF r
    <2>. HIDE DEF x
    <2>4. ds \in Seq(Ranges) /\ Len(ds) = Len(rs) /\ \A j \in 1 .. Len(rs) : ds[j] = IF j = 1 THEN x ELSE rs[j]
      BY <1>0, <2>2, <2>3, ExceptSeq
    <2>. HIDE DEF ds
    <2>5. First(rs, ds, s)
      <3>1. ds[1] = x
        BY <2>2, <2>4
      <3>2. ASSUME NEW j \in 2 .. Len(rs) PROVE ds[j] = rs[j]
        <4>1. j \in 1 .. Len(rs) /\ j # 1
          BY <2>2
        <4>. QED
          BY <2>4, <4>1
      <3>. QED
        BY <1>2, <2>3, <2>4, <3>1, <3>2 DEF First
    <2>6. s < rs[1].end
      <3>1. rs[1].start >= pos + 2 \/ rs[1].end >= pos + 2
        BY <1>2 DEF Shape, Open, rs
      <3>. QED
        BY <2>2, <3>1
    <2>7. InOrder(rs)
      BY DEF rs
    <2>. HIDE DEF s
    <2>8. /\ InOrder(ds) /\ ds # <<>> /\ ds[1].start = s
          /\ \A p \in Nat : p >= s /\ Covered(rs, p) => Covered(ds, p)
          /\ \A p \in s .. rs[1].end - 1 : Covered(ds, p)
      BY <1>0, <2>5, <2>6, <2>7, FirstOK
    <2>9. s \in s .. rs[1].end - 1
      BY <1>0, <2>2, <2>6
    <2>10. Same(it, d) /\ d.ranges = ds
      BY <2>1, <2>4, OtherRanges
    <2>. QED
      BY <2>8, <2>9, <2>10 DEF d, s, rs
  <1>. QED
    BY <1>1, <1>2

\* A range from the block start on, up to e, is added: the first range is open.
LEMMA AddOpen ==
  ASSUME NEW it \in Intervals, InOrder(it.ranges), NEW P \in Nat, NEW e \in Nat, P < e,
         \/ Shape(it.ranges, P, e + 1)
         \/ it.ranges # <<>> /\ it.ranges[1].start = e
  PROVE  LET d == IntervalAddRange(it, P, e)
         IN  /\ Same(it, d) /\ InOrder(d.ranges) /\ Open(d.ranges, P, e)
             /\ \A p \in Nat : Covered(it.ranges, p) => Covered(d.ranges, p)
             /\ \A p \in P .. e - 1 : Covered(d.ranges, p)
  <1>. DEFINE rs == it.ranges
              d == IntervalAddRange(it, P, e)
  <1>0. rs \in Seq(Ranges) /\ InOrder(rs)
    BY DEF Intervals
  <1>1. CASE rs = <<>> \/ e < rs[1].start
    <2>1. Same(it, d) /\ InFront(rs, d.ranges, P, e)
      BY <1>1, AddFront
    <2>. HIDE DEF d, rs
    <2>2. /\ InOrder(d.ranges) /\ d.ranges # <<>> /\ d.ranges[1].start = P /\ d.ranges[1].end = e
          /\ \A p : Covered(rs, p) => Covered(d.ranges, p)
          /\ \A p \in P .. e - 1 : Covered(d.ranges, p)
      BY <1>0, <1>1, <2>1, FrontOK
    <2>. QED
      BY <2>1, <2>2 DEF d, rs, Open
  <1>2. CASE rs # <<>> /\ ~(e < rs[1].start)
    <2>1. /\ rs[1].start \in Nat /\ rs[1].end \in Nat /\ rs[1].start < rs[1].end
          /\ 1 \in 1 .. Len(rs)
      <3>1. 1 \in 1 .. Len(rs)
        BY <1>0, <1>2, RangesOK
      <3>. QED
        BY <1>0, <3>1, RangesOK DEF InOrder
    <2>2. P <= rs[1].start /\ rs[1].start <= e /\ e <= rs[1].end
      BY <1>2, <2>1 DEF Shape, Open
    <2>3. Same(it, d) /\ First(rs, d.ranges, P)
      BY <1>2, <2>2, AddFirst
    <2>4. P < rs[1].end
      BY <2>1, <2>2
    <2>. HIDE DEF d, rs
    <2>5. /\ InOrder(d.ranges) /\ d.ranges # <<>>
          /\ d.ranges[1].start = P /\ d.ranges[1].end = rs[1].end
          /\ \A p \in Nat : p >= P /\ Covered(rs, p) => Covered(d.ranges, p)
          /\ \A p \in P .. rs[1].end - 1 : Covered(d.ranges, p)
      BY <1>0, <2>3, <2>4, FirstOK
    <2>6. ASSUME NEW p \in Nat, Covered(rs, p) PROVE p >= P
      <3>1. PICK k \in 1 .. Len(rs) : InRange(rs[k], p)
        BY <2>6 DEF Covered
      <3>2. rs[1].start <= rs[k].start /\ rs[k].start \in Nat
        BY <1>0, RangesOK, FirstStart
      <3>. QED
        BY <2>1, <2>2, <3>1, <3>2 DEF InRange
    <2>7. \A p \in P .. e - 1 : p \in P .. rs[1].end - 1
      BY <2>1, <2>2
    <2>8. Open(d.ranges, P, e)
      BY <2>2, <2>5 DEF Open
    <2>. QED
      BY <2>3, <2>5, <2>6, <2>7, <2>8 DEF d, rs
  <1>. QED
    BY <1>1, <1>2

\* A range in front of all others, for a register that a call clobbers
LEMMA AddClobber ==
  ASSUME NEW it \in Intervals, InOrder(it.ranges), NEW pos \in Nat,
         it.ranges = <<>> \/ it.ranges[1].start > pos + 2
  PROVE  LET d == IntervalAddRange(it, pos + 1, pos + 2)
         IN  Same(it, d) /\ InOrder(d.ranges) /\ d.ranges[1].start = pos + 1
  <1>. DEFINE rs == it.ranges
              s == pos + 1
              e == pos + 2
              d == IntervalAddRange(it, s, e)
  <1>0. rs \in Seq(Ranges) /\ InOrder(rs) /\ s \in Nat /\ e \in Nat /\ s < e
    BY DEF Intervals
  <1>1. rs = <<>> \/ e < rs[1].start
    <2>1. CASE rs = <<>>
      BY <2>1
    <2>2. CASE rs # <<>>
      <3>1. rs[1].start > e /\ 1 \in 1 .. Len(rs)
        BY <1>0, <2>2, RangesOK
      <3>2. rs[1].start \in Nat
        BY <1>0, <3>1, RangesOK
      <3>. QED
        BY <1>0, <3>1, <3>2
    <2>. QED
      BY <2>1, <2>2
  <1>. HIDE DEF s, e
  <1>2. Same(it, d) /\ InFront(rs, d.ranges, s, e)
    BY <1>0, <1>1, AddFront
  <1>. HIDE DEF d, rs
  <1>3. InOrder(d.ranges) /\ d.ranges[1].start = s
    BY <1>0, <1>1, <1>2, FrontOK
  <1>. QED
    BY <1>2, <1>3 DEF d, s, e

\* The interval of a variable when the instructions of a block from o on, and
\* all blocks behind it, are done
VregInv(c, bb, v, it, o) ==
  /\ it \in Intervals /\ it.var = v /\ ~it.fixed /\ InOrder(it.ranges)
  /\ Shape(it.ranges, StartInsn(bb), LirPos(o))
  /\ \A i \in o .. Len(c) : LifeAt(c, v, it.ranges, i)
  /\ o > bb.start /\ NextOffsets(c, o - 1) \cap LiveBefore(c, v) # {}
       => Open(it.ranges, StartInsn(bb), LirPos(o))

\* The fixed interval of a register
FixedInv(it, o) ==
  /\ it \in Intervals /\ it.fixed /\ InOrder(it.ranges)
  /\ it.ranges = <<>> \/ it.ranges[1].start > LirPos(o)

\* An open range covers what is between its ends.
LEMMA OpenCovers ==
  ASSUME NEW rs \in Seq(Ranges), NEW P \in Nat, NEW cur \in Nat, Open(rs, P, cur),
         NEW p \in Nat, P <= p, p < cur
  PROVE  Covered(rs, p)
  <1>1. rs # <<>> /\ rs[1].start = P /\ rs[1].end >= cur
    BY DEF Open
  <1>2. 1 \in 1 .. Len(rs)
    BY <1>1, RangesOK
  <1>3. rs[1].end \in Nat
    BY <1>2, RangesOK
  <1>4. InRange(rs[1], p)
    BY <1>1, <1>3 DEF InRange
  <1>. QED
    BY <1>2, <1>4 DEF Covered

\* Positions of an instruction in its block
LEMMA Positions ==
  ASSUME NEW c, NEW b, Graph(c, b), NEW k \in 1 .. Len(b), NEW i \in b[k].start .. b[k].end - 1
  PROVE  /\ i \in 1 .. Len(c) /\ LirPos(i) \in Nat /\ LirPos(i + 1) = LirPos(i) + 2
         /\ StartInsn(b[k]) \in Nat /\ EndInsn(b[k]) \in Nat
         /\ StartInsn(b[k]) <= LirPos(i) /\ LirPos(i) + 2 <= EndInsn(b[k])
  <1>1. b[k].start \in 1 .. Len(c) /\ b[k].end \in 2 .. Len(c) + 1 /\ Len(c) \in Nat
    BY GraphOK
  <1>2. i \in Nat /\ b[k].start <= i /\ i + 1 <= b[k].end /\ i \in 1 .. Len(c)
    BY SMTT(30), <1>1
  <1>3. LirPos(i) \in Nat /\ LirPos(i + 1) = LirPos(i) + 2
    BY <1>2 DEF LirPos
  <1>4. StartInsn(b[k]) \in Nat /\ EndInsn(b[k]) \in Nat
    BY SMTT(30), <1>1 DEF LirPos, StartInsn, EndInsn
  <1>5. StartInsn(b[k]) <= LirPos(i)
    BY <1>1, <1>2 DEF LirPos, StartInsn
  <1>6. LirPos(i) + 2 <= EndInsn(b[k])
    BY <1>1, <1>2 DEF LirPos, EndInsn
  <1>. QED
    BY <1>2, <1>3, <1>4, <1>5, <1>6

\* The outputs of an instruction: what is known of the interval then
LEMMA DefineStep ==
  ASSUME NEW c, NEW b, Graph(c, b), NEW k \in 1 .. Len(b), NEW v \in Vregs,
         NEW i \in b[k].start .. b[k].end - 1, NEW it, VregInv(c, b[k], v, it, i + 1)
  PROVE  LET pos == LirPos(i)
             d == IF v \in c[i].out THEN DefineAt(it, pos + 1, b[k]) ELSE it
         IN  /\ Same(it, d) /\ InOrder(d.ranges)
             /\ \/ Shape(d.ranges, StartInsn(b[k]), pos + 2)
                \/ d.ranges # <<>> /\ d.ranges[1].start = pos + 1
             /\ \A p \in Nat : p >= pos + 1 /\ Covered(it.ranges, p) => Covered(d.ranges, p)
             /\ v \in c[i].out \/ NextOffsets(c, i) \cap LiveBefore(c, v) # {}
                  => Covered(d.ranges, pos + 1)
             /\ v \notin c[i].out /\ NextOffsets(c, i) \cap LiveBefore(c, v) # {}
                  => Open(d.ranges, StartInsn(b[k]), pos + 2)
  <1>. DEFINE pos == LirPos(i)
              bb == b[k]
              P == StartInsn(bb)
              goesOn == NextOffsets(c, i) \cap LiveBefore(c, v) # {}
              d == IF v \in c[i].out THEN DefineAt(it, pos + 1, bb) ELSE it
  <1>0. /\ pos \in Nat /\ P \in Nat /\ P <= pos /\ LirPos(i + 1) = pos + 2
        /\ EndInsn(bb) \in Nat /\ pos + 2 <= EndInsn(bb)
    BY Positions
  <1>1. /\ it \in Intervals /\ InOrder(it.ranges) /\ Shape(it.ranges, P, pos + 2)
        /\ it.ranges \in Seq(Ranges)
    BY <1>0 DEF VregInv, Intervals
  <1>2. goesOn => Open(it.ranges, P, pos + 2)
    <2>1. i + 1 > bb.start /\ (i + 1) - 1 = i
      BY SMTT(30), GraphOK
    <2>. QED
      BY <1>0, <2>1 DEF VregInv
  <1>. HIDE DEF pos, P, bb, goesOn
  <1>3. CASE v \in c[i].out
    <2>1. d = DefineAt(it, pos + 1, bb)
      BY <1>3
    <2>. HIDE DEF d
    <2>2. /\ Same(it, d) /\ InOrder(d.ranges)
          /\ d.ranges # <<>> /\ d.ranges[1].start = pos + 1
          /\ \A p \in Nat : p >= pos + 1 /\ Covered(it.ranges, p) => Covered(d.ranges, p)
          /\ Covered(d.ranges, pos + 1)
      BY <1>0, <1>1, <2>1, DefineAtOK
    <2>. QED
      BY <1>3, <2>2 DEF d, pos, bb
  <1>4. CASE v \notin c[i].out
    <2>1. d = it
      BY <1>4
    <2>2. Same(it, d)
      BY <1>1, <2>1 DEF Same
    <2>3. goesOn => Covered(it.ranges, pos + 1)
      <3>1. pos + 1 \in Nat /\ P <= pos + 1 /\ pos + 1 < pos + 2 /\ pos + 2 \in Nat
        BY <1>0
      <3>. QED
        BY <1>0, <1>1, <1>2, <3>1, OpenCovers
    <2>. HIDE DEF d
    <2>. QED
      BY <1>1, <1>2, <1>4, <2>1, <2>2, <2>3 DEF d, pos, P, bb, goesOn
  <1>. QED
    BY <1>3, <1>4

\* An instruction of a block, for the interval of a variable
LEMMA VregStep ==
  ASSUME NEW c, NEW b, Graph(c, b), NEW k \in 1 .. Len(b), NEW v \in Vregs,
         NEW i \in b[k].start .. b[k].end - 1, NEW it, VregInv(c, b[k], v, it, i + 1)
  PROVE  LET pos == LirPos(i)
             d == IF v \in c[i].out THEN DefineAt(it, pos + 1, b[k]) ELSE it
         IN  VregInv(c, b[k], v, IF v \in c[i].in
                                   THEN IntervalAddRange(d, StartInsn(b[k]), pos + 1)
                                   ELSE d, i)
  <1>. DEFINE pos == LirPos(i)
              bb == b[k]
              P == StartInsn(bb)
              goesOn == NextOffsets(c, i) \cap LiveBefore(c, v) # {}
              d == IF v \in c[i].out THEN DefineAt(it, pos + 1, bb) ELSE it
              u == IF v \in c[i].in THEN IntervalAddRange(d, P, pos + 1) ELSE d
  <1>0. /\ pos \in Nat /\ P \in Nat /\ P <= pos /\ LirPos(i + 1) = pos + 2
        /\ i \in 1 .. Len(c) /\ IsMethod(c) /\ Len(c) \in Nat
        /\ bb.start \in 1 .. Len(c) /\ bb.end \in 2 .. Len(c) + 1
    <2>1. pos \in Nat /\ P \in Nat /\ P <= pos /\ LirPos(i + 1) = pos + 2 /\ i \in 1 .. Len(c)
      BY Positions
    <2>2. /\ IsMethod(c) /\ Len(c) \in Nat
          /\ bb.start \in 1 .. Len(c) /\ bb.end \in 2 .. Len(c) + 1
      BY GraphOK
    <2>. QED
      BY <2>1, <2>2
  <1>1. /\ it \in Intervals /\ it.var = v /\ ~it.fixed
        /\ \A j \in i + 1 .. Len(c) : LifeAt(c, v, it.ranges, j)
    BY DEF VregInv
  <1>2. /\ Same(it, d) /\ InOrder(d.ranges)
        /\ \/ Shape(d.ranges, P, pos + 2)
           \/ d.ranges # <<>> /\ d.ranges[1].start = pos + 1
        /\ \A p \in Nat : p >= pos + 1 /\ Covered(it.ranges, p) => Covered(d.ranges, p)
        /\ v \in c[i].out \/ goesOn => Covered(d.ranges, pos + 1)
        /\ v \notin c[i].out /\ goesOn => Open(d.ranges, P, pos + 2)
    BY DefineStep
  <1>. HIDE DEF d, P, pos, goesOn
  <1>3. d \in Intervals /\ d.var = v /\ ~d.fixed /\ d.ranges \in Seq(Ranges)
    BY <1>1, <1>2 DEF Same, Intervals
  <1>4. i \in LiveBefore(c, v) <=> v \in c[i].in \/ (v \notin c[i].out /\ goesOn)
    BY <1>0, LiveRule DEF goesOn
  <1>5. /\ u \in Intervals /\ u.var = v /\ ~u.fixed /\ InOrder(u.ranges)
        /\ Shape(u.ranges, P, pos)
        /\ \A p \in Nat : p >= pos + 1 /\ Covered(it.ranges, p) => Covered(u.ranges, p)
        /\ v \in c[i].out \/ goesOn => Covered(u.ranges, pos + 1)
        /\ i \in LiveBefore(c, v) => Open(u.ranges, P, pos) /\ Covered(u.ranges, pos)
    <2>1. CASE v \in c[i].in
      <3>1. u = IntervalAddRange(d, P, pos + 1)
        BY <2>1
      <3>. HIDE DEF u
      <3>2. pos + 1 \in Nat /\ P < pos + 1 /\ (pos + 1) + 1 = pos + 2 /\ pos \in P .. (pos + 1) - 1
        BY <1>0
      <3>3. /\ Same(d, u) /\ InOrder(u.ranges) /\ Open(u.ranges, P, pos + 1)
            /\ \A p \in Nat : Covered(d.ranges, p) => Covered(u.ranges, p)
            /\ \A p \in P .. (pos + 1) - 1 : Covered(u.ranges, p)
        <4>. DEFINE e == pos + 1
        <4>1. /\ e \in Nat /\ P < e /\ P \in Nat /\ d \in Intervals /\ InOrder(d.ranges)
              /\ \/ Shape(d.ranges, P, e + 1)
                 \/ d.ranges # <<>> /\ d.ranges[1].start = e
          BY <1>0, <1>2, <1>3, <3>2
        <4>. HIDE DEF e
        <4>2. LET x == IntervalAddRange(d, P, e)
              IN  /\ Same(d, x) /\ InOrder(x.ranges) /\ Open(x.ranges, P, e)
                  /\ \A p \in Nat : Covered(d.ranges, p) => Covered(x.ranges, p)
                  /\ \A p \in P .. e - 1 : Covered(x.ranges, p)
          BY <4>1, AddOpen
        <4>. QED
          BY <3>1, <4>2 DEF e
      <3>4. u \in Intervals /\ u.var = v /\ ~u.fixed /\ u.ranges \in Seq(Ranges)
        BY <1>3, <3>3 DEF Same, Intervals
      <3>5. Open(u.ranges, P, pos)
        <4>1. u.ranges # <<>> /\ u.ranges[1].end >= pos + 1 /\ u.ranges[1].start = P
          BY <3>3 DEF Open
        <4>2. u.ranges[1].end \in Nat
          BY <3>4, <4>1, RangesOK
        <4>. QED
          BY <1>0, <4>1, <4>2 DEF Open
      <3>. QED
        BY <1>2, <3>2, <3>3, <3>4, <3>5 DEF Shape
    <2>2. CASE v \notin c[i].in
      <3>1. u = d
        BY <2>2
      <3>. HIDE DEF u
      <3>2. Shape(d.ranges, P, pos)
        <4>1. CASE d.ranges = <<>>
          BY <4>1 DEF Shape
        <4>2. CASE d.ranges # <<>>
          <5>1. 1 \in 1 .. Len(d.ranges)
            BY <1>3, <4>2, RangesOK
          <5>2. d.ranges[1].start \in Nat /\ d.ranges[1].end \in Nat
            BY <1>3, <5>1, RangesOK
          <5>3. \/ d.ranges[1].start >= pos + 2 \/ d.ranges[1].start = pos + 1
                \/ d.ranges[1].start = P /\ d.ranges[1].end >= pos + 2
            BY <1>2, <4>2 DEF Shape, Open
          <5>4. \/ d.ranges[1].start >= pos
                \/ d.ranges[1].start = P /\ d.ranges[1].end >= pos
            <6>. DEFINE x == d.ranges[1].start
                        y == d.ranges[1].end
            <6>1. /\ x \in Nat /\ y \in Nat /\ pos \in Nat
                  /\ (x >= pos + 2 \/ x = pos + 1 \/ (x = P /\ y >= pos + 2))
              BY <1>0, <5>2, <5>3
            <6>. HIDE DEF x, y
            <6>2. x >= pos \/ (x = P /\ y >= pos)
              BY <6>1
            <6>. QED
              BY <6>2 DEF x, y
          <5>. QED
            BY <4>2, <5>4 DEF Shape, Open
        <4>. QED
          BY <4>1, <4>2
      <3>3. ASSUME i \in LiveBefore(c, v) PROVE Open(d.ranges, P, pos) /\ Covered(d.ranges, pos)
        <4>1. Open(d.ranges, P, pos + 2)
          BY <1>2, <1>4, <2>2, <3>3
        <4>2. pos + 2 \in Nat /\ pos < pos + 2
          BY <1>0
        <4>3. Covered(d.ranges, pos)
          BY <1>0, <1>3, <4>1, <4>2, OpenCovers
        <4>4. d.ranges # <<>> /\ d.ranges[1].end >= pos + 2 /\ d.ranges[1].start = P
          BY <4>1 DEF Open
        <4>5. d.ranges[1].end \in Nat
          BY <1>3, <4>4, RangesOK
        <4>. QED
          BY <1>0, <4>3, <4>4, <4>5 DEF Open
      <3>. QED
        BY <1>2, <1>3, <3>1, <3>2, <3>3
    <2>. QED
      BY <2>1, <2>2
  <1>. HIDE DEF u
  <1>6. ASSUME NEW j \in i .. Len(c) PROVE LifeAt(c, v, u.ranges, j)
    <2>1. CASE j = i
      <3>1. /\ i \in LiveBefore(c, v) => Covered(u.ranges, pos)
            /\ v \in c[i].out \/ goesOn => Covered(u.ranges, pos + 1)
        BY <1>5
      <3>. QED
        BY <2>1, <3>1 DEF LifeAt, goesOn, pos
    <2>2. CASE j # i
      <3>1. j \in i + 1 .. Len(c)
        BY <1>0, <2>2
      <3>2. /\ LirPos(j) \in Nat /\ LirPos(j) >= pos + 1
            /\ LirPos(j) + 1 \in Nat /\ LirPos(j) + 1 >= pos + 1
        <4>1. i \in Nat /\ j \in Nat /\ i >= 1 /\ j >= i + 1
          BY <1>0, <3>1
        <4>2. pos = 2 * (i - 1) /\ LirPos(j) = 2 * (j - 1)
          BY DEF LirPos, pos
        <4>. QED
          BY <4>1, <4>2
      <3>3. LifeAt(c, v, it.ranges, j)
        BY <1>1, <3>1
      <3>. QED
        BY <1>5, <3>2, <3>3 DEF LifeAt
    <2>. QED
      BY <2>1, <2>2
  <1>7. ASSUME i > bb.start, NextOffsets(c, i - 1) \cap LiveBefore(c, v) # {}
        PROVE  Open(u.ranges, P, pos)
    <2>1. i - 1 \in bb.start .. bb.end - 2 /\ (i - 1) + 1 = i
      BY <1>0, <1>7
    <2>2. NextOffsets(c, i - 1) = {i}
      BY <2>1, StraightLine
    <2>. QED
      BY <1>5, <1>7, <2>2
  <1>8. VregInv(c, bb, v, u, i)
    BY <1>5, <1>6, <1>7 DEF VregInv, P, pos
  <1>. QED
    BY <1>8 DEF u, d, P, pos

\* An instruction of a block, for the interval of a register
LEMMA FixedStep ==
  ASSUME NEW i \in Nat \ {0}, NEW it, FixedInv(it, i + 1)
  PROVE  FixedInv(it, i) /\ FixedInv(IntervalAddRange(it, LirPos(i) + 1, LirPos(i) + 2), i)
  <1>. DEFINE pos == LirPos(i)
              d == IntervalAddRange(it, pos + 1, pos + 2)
  <1>0. pos \in Nat /\ LirPos(i + 1) = pos + 2
    BY DEF LirPos
  <1>1. /\ it \in Intervals /\ it.fixed /\ InOrder(it.ranges) /\ it.ranges \in Seq(Ranges)
        /\ it.ranges = <<>> \/ it.ranges[1].start > pos + 2
    BY <1>0 DEF FixedInv, Intervals
  <1>2. Same(it, d) /\ InOrder(d.ranges) /\ d.ranges[1].start = pos + 1
    <2>. HIDE DEF pos
    <2>. QED
      BY <1>0, <1>1, AddClobber
  <1>3. it.ranges # <<>> => it.ranges[1].start > pos
    <2>1. SUFFICES ASSUME it.ranges # <<>> PROVE it.ranges[1].start > pos
      OBVIOUS
    <2>2. it.ranges[1].start \in Nat
      BY <1>1, <2>1, RangesOK
    <2>. HIDE DEF pos
    <2>. QED
      BY <1>0, <1>1, <2>1, <2>2
  <1>4. FixedInv(it, i)
    BY <1>1, <1>3 DEF FixedInv
  <1>5. FixedInv(d, i)
    <2>. HIDE DEF d
    <2>1. d \in Intervals /\ d.fixed
      BY <1>1, <1>2 DEF Same
    <2>2. d.ranges[1].start > pos
      <3>. HIDE DEF pos
      <3>. QED
        BY <1>0, <1>2
    <2>. QED
      BY <1>2, <2>1, <2>2 DEF FixedInv
  <1>. QED
    BY <1>4, <1>5

\* The intervals that there are before any is split
Numbers == 1 .. NrVregs + NrRegisters

\* All intervals, at an instruction of a block
BlockInv(c, bb, its0, o) ==
  /\ its0 \in [Numbers -> Intervals]
  /\ \A v \in Vregs : VregInv(c, bb, v, its0[v], o)
  /\ \A r \in Numbers \ Vregs : FixedInv(its0[r], o)

\* An instruction of a block
LEMMA BlockStep ==
  ASSUME NEW c, NEW b, Graph(c, b), NEW k \in 1 .. Len(b),
         NEW i \in b[k].start .. b[k].end - 1, NEW s, BlockInv(c, b[k], s, i + 1)
  PROVE  BlockInv(c, b[k], UpdateRanges(s, b[k], c[i], LirPos(i)), i)
  <1>. DEFINE pos == LirPos(i)
              bb == b[k]
              d == UpdateRanges(s, bb, c[i], pos)
              Def(n) == IF n \in c[i].out THEN DefineAt(s[n], pos + 1, bb) ELSE s[n]
              Use(n) == IF n \in c[i].in THEN IntervalAddRange(Def(n), StartInsn(bb), pos + 1)
                        ELSE Def(n)
              Clob(n) == IF c[i].op = "call" /\ s[n].fixed /\ s[n].reg \in CallerSave
                         THEN IntervalAddRange(Use(n), pos + 1, pos + 2) ELSE Use(n)
  <1>0. /\ s \in [Numbers -> Intervals] /\ Vregs \subseteq Numbers
        /\ \A v \in Vregs : VregInv(c, bb, v, s[v], i + 1)
        /\ \A r \in Numbers \ Vregs : FixedInv(s[r], i + 1)
    BY SizesAssumption DEF BlockInv, Numbers, Vregs
  <1>1. i \in 1 .. Len(c) /\ i \in Nat \ {0} /\ c[i].in \subseteq Vregs /\ c[i].out \subseteq Vregs
    <2>1. i \in 1 .. Len(c) /\ IsMethod(c) /\ Len(c) \in Nat
      BY Positions, GraphOK
    <2>. QED
      BY <2>1, MethodOK
  <1>2. d = [n \in Numbers |-> Clob(n)]
    BY <1>0 DEF UpdateRanges
  <1>3. ASSUME NEW v \in Vregs PROVE VregInv(c, bb, v, d[v], i) /\ d[v] \in Intervals
    <2>1. ~s[v].fixed
      BY <1>0 DEF VregInv
    <2>2. d[v] = Use(v)
      <3>. HIDE DEF Use, d
      <3>. QED
        BY <1>0, <1>2, <2>1
    <2>3. VregInv(c, bb, v, Use(v), i)
      BY <1>0, VregStep
    <2>. HIDE DEF Use, d
    <2>. QED
      BY <2>2, <2>3 DEF VregInv
  <1>4. ASSUME NEW r \in Numbers \ Vregs PROVE FixedInv(d[r], i) /\ d[r] \in Intervals
    <2>1. Use(r) = s[r]
      BY <1>1
    <2>2. d[r] = s[r] \/ d[r] = IntervalAddRange(s[r], pos + 1, pos + 2)
      <3>. HIDE DEF Use, d
      <3>. QED
        BY <1>2, <2>1
    <2>3. FixedInv(s[r], i) /\ FixedInv(IntervalAddRange(s[r], pos + 1, pos + 2), i)
      BY <1>0, <1>1, FixedStep
    <2>. HIDE DEF d
    <2>. QED
      BY <2>2, <2>3 DEF FixedInv
  <1>5. d \in [Numbers -> Intervals]
    <2>1. \A n \in Numbers : d[n] \in Intervals
      BY <1>3, <1>4
    <2>2. d = [n \in Numbers |-> d[n]]
      <3>. HIDE DEF Clob
      <3>. QED
        BY <1>2
    <2>. HIDE DEF d
    <2>. QED
      BY <2>1, <2>2
  <1>. HIDE DEF d
  <1>6. BlockInv(c, bb, d, i)
    BY <1>3, <1>4, <1>5 DEF BlockInv
  <1>. QED
    BY <1>6 DEF d

\* All intervals, when the blocks from offset o on are done
BetweenInv(c, its0, o) ==
  /\ its0 \in [Numbers -> Intervals]
  /\ \A v \in Vregs :
       /\ its0[v].var = v /\ ~its0[v].fixed /\ InOrder(its0[v].ranges)
       /\ its0[v].ranges = <<>> \/ its0[v].ranges[1].start >= LirPos(o)
       /\ \A i \in o .. Len(c) : LifeAt(c, v, its0[v].ranges, i)
  /\ \A r \in Numbers \ Vregs : FixedInv(its0[r], o)

\* live_out_set holds what is live behind the block.
LiveOutOK(c, bb, out0) ==
  /\ out0 \subseteq Vregs
  /\ \A v \in Vregs :
       NextOffsets(c, bb.end - 1) \cap LiveBefore(c, v) # {} => v \in out0

\* At first the variables of live_out_set are live in all of the block.
LEMMA LiveOutStep ==
  ASSUME NEW c, NEW b, Graph(c, b), NEW k \in 1 .. Len(b), NEW o, LiveOutOK(c, b[k], o),
         NEW s, BetweenInv(c, s, b[k].end)
  PROVE  BlockInv(c, b[k], AddLiveOut(s, b[k], o), b[k].end)
  <1>. DEFINE bb == b[k]
              P == StartInsn(bb)
              E == EndInsn(bb)
              d == AddLiveOut(s, bb, o)
  <1>0. /\ P \in Nat /\ E \in Nat /\ P < E /\ E = LirPos(bb.end)
        /\ bb.end \in Nat /\ Len(c) \in Nat /\ bb.end > bb.start
    <2>1. bb.start \in 1 .. Len(c) /\ bb.end \in 2 .. Len(c) + 1 /\ bb.start < bb.end /\ Len(c) \in Nat
      BY GraphOK
    <2>. QED
      BY SMTT(30), <2>1 DEF StartInsn, EndInsn, LirPos
  <1>1. /\ s \in [Numbers -> Intervals] /\ Vregs \subseteq Numbers /\ o \subseteq Vregs
        /\ \A r \in Numbers \ Vregs : FixedInv(s[r], bb.end)
    BY SizesAssumption DEF BetweenInv, Numbers, Vregs, LiveOutOK
  <1>2. d = [n \in Numbers |-> IF n \in o THEN IntervalAddRange(s[n], P, E) ELSE s[n]]
    BY <1>1 DEF AddLiveOut
  <1>. HIDE DEF d, P, E, bb
  <1>3. ASSUME NEW v \in Vregs PROVE VregInv(c, bb, v, d[v], bb.end) /\ d[v] \in Intervals
    <2>. DEFINE it == s[v]
                rs == it.ranges
    <2>1. /\ it \in Intervals /\ it.var = v /\ ~it.fixed /\ InOrder(it.ranges)
          /\ it.ranges = <<>> \/ it.ranges[1].start >= E
          /\ \A i \in bb.end .. Len(c) : LifeAt(c, v, it.ranges, i)
      BY <1>0, <1>1 DEF BetweenInv, bb
    <2>2. rs \in Seq(Ranges)
      BY <2>1 DEF Intervals
    <2>3. CASE v \in o
      <3>1. d[v] = IntervalAddRange(it, P, E)
        BY <1>1, <1>2, <2>3
      <3>2. Shape(rs, P, E + 1) \/ (rs # <<>> /\ rs[1].start = E)
        <4>1. CASE rs = <<>>
          BY <4>1 DEF Shape
        <4>2. CASE rs # <<>>
          <5>1. rs[1].start \in Nat /\ rs[1].start >= E
            BY <2>1, <2>2, <4>2, RangesOK
          <5>. HIDE DEF rs
          <5>2. rs[1].start = E \/ rs[1].start >= E + 1
            BY <1>0, <5>1
          <5>. QED
            BY <4>2, <5>2 DEF Shape
        <4>. QED
          BY <4>1, <4>2
      <3>. DEFINE u == d[v]
      <3>3. /\ Same(it, u) /\ InOrder(u.ranges) /\ Open(u.ranges, P, E)
            /\ \A p \in Nat : Covered(it.ranges, p) => Covered(u.ranges, p)
        <4>. HIDE DEF it
        <4>1. LET x == IntervalAddRange(it, P, E)
              IN  /\ Same(it, x) /\ InOrder(x.ranges) /\ Open(x.ranges, P, E)
                  /\ \A p \in Nat : Covered(it.ranges, p) => Covered(x.ranges, p)
                  /\ \A p \in P .. E - 1 : Covered(x.ranges, p)
          BY <1>0, <2>1, <3>2, AddOpen
        <4>. QED
          BY <3>1, <4>1
      <3>. HIDE DEF u, it
      <3>4. u \in Intervals /\ u.var = v /\ ~u.fixed
        BY <2>1, <3>3 DEF Same
      <3>5. ASSUME NEW j \in bb.end .. Len(c) PROVE LifeAt(c, v, u.ranges, j)
        <4>1. LirPos(j) \in Nat /\ LirPos(j) + 1 \in Nat
          <5>1. j \in Nat /\ j >= 1
            <6>1. bb.end >= 1
              BY GraphOK DEF bb
            <6>. QED
              BY <1>0, <6>1
          <5>. QED
            BY <5>1 DEF LirPos
        <4>. QED
          BY <2>1, <3>3, <4>1 DEF LifeAt
      <3>6. VregInv(c, bb, v, u, bb.end)
        BY <1>0, <3>3, <3>4, <3>5 DEF VregInv, Shape, P
      <3>. QED
        BY <3>4, <3>6 DEF u
    <2>4. CASE v \notin o
      <3>1. d[v] = it
        BY <1>1, <1>2, <2>4
      <3>2. NextOffsets(c, bb.end - 1) \cap LiveBefore(c, v) = {}
        BY <2>4 DEF LiveOutOK, bb
      <3>3. Shape(rs, P, E)
        BY <2>1 DEF Shape
      <3>. HIDE DEF it
      <3>. QED
        BY <1>0, <2>1, <3>1, <3>2, <3>3 DEF VregInv, P
    <2>. QED
      BY <2>3, <2>4
  <1>4. ASSUME NEW r \in Numbers \ Vregs PROVE FixedInv(d[r], bb.end) /\ d[r] \in Intervals
    <2>1. d[r] = s[r]
      BY <1>1, <1>2
    <2>. QED
      BY <1>1, <2>1 DEF FixedInv
  <1>5. d \in [Numbers -> Intervals]
    <2>1. \A n \in Numbers : d[n] \in Intervals
      BY <1>3, <1>4
    <2>2. d = [n \in Numbers |-> d[n]]
      BY <1>2
    <2>. QED
      BY <2>1, <2>2
  <1>6. BlockInv(c, bb, d, bb.end)
    BY <1>3, <1>4, <1>5 DEF BlockInv
  <1>. QED
    BY <1>6 DEF d, bb

\* A block
LEMMA UpdateBlockOK ==
  ASSUME NEW c, NEW b, Graph(c, b), NEW k \in 1 .. Len(b), NEW o, LiveOutOK(c, b[k], o),
         NEW s, BetweenInv(c, s, b[k].end)
  PROVE  BetweenInv(c, UpdateBlock(c, b[k], o, s), b[k].start)
  <1>. DEFINE bb == b[k]
              N == bb.end - bb.start
              X == [Numbers -> Intervals]
              x == AddLiveOut(s, bb, o)
              Step(t, n) == UpdateRanges(t, bb, c[bb.end - n], LirPos(bb.end - n))
              G == [n \in 0 .. N |-> {t \in X : BlockInv(c, bb, t, bb.end - n)}]
              g == [p \in (1 .. N) \X X |-> Step(p[2], p[1])]
              Eq(h) == h = [n \in 0 .. bb.end - bb.start |->
                              IF n = 0 THEN x ELSE Step(h[n - 1], n)]
              after[n \in 0 .. bb.end - bb.start] ==
                IF n = 0 THEN AddLiveOut(s, bb, o)
                ELSE UpdateRanges(after[n - 1], bb, c[bb.end - n], LirPos(bb.end - n))
  <1>0. N \in Nat /\ bb.start \in Nat /\ bb.end \in Nat /\ bb.start <= bb.end
    BY GraphOK
  <1>1. x \in G[0]
    <2>0. BlockInv(c, bb, x, bb.end)
      BY LiveOutStep
    <2>1. BlockInv(c, bb, x, bb.end) /\ bb.end - 0 = bb.end
      BY <1>0, <2>0
    <2>2. x \in X
      BY <2>1 DEF BlockInv
    <2>. HIDE DEF x
    <2>. QED
      BY <1>0, <2>1, <2>2
  <1>2. ASSUME NEW n \in 1 .. N, NEW t \in G[n - 1] PROVE Step(t, n) \in G[n]
    <2>1. /\ n - 1 \in 0 .. N /\ n \in 0 .. N /\ bb.end - n \in bb.start .. bb.end - 1
          /\ bb.end - (n - 1) = (bb.end - n) + 1
      BY SMTT(30), <1>0
    <2>2. BlockInv(c, bb, t, (bb.end - n) + 1)
      BY <2>1
    <2>3. BlockInv(c, bb, Step(t, n), bb.end - n)
      BY <2>1, <2>2, BlockStep
    <2>. HIDE DEF Step
    <2>4. Step(t, n) \in X
      BY <2>3 DEF BlockInv
    <2>. QED
      BY <2>1, <2>3, <2>4
  <1>. HIDE DEF Step
  <1>3. PICK f : Recurs(f, N, x, G, g)
    <2>1. G \in [0 .. N -> SUBSET X]
      OBVIOUS
    <2>2. ASSUME NEW n \in 1 .. N, NEW t \in G[n - 1] PROVE g[<<n, t>>] \in G[n]
      <3>1. n - 1 \in 0 .. N
        BY <1>0
      <3>2. t \in X
        BY <3>1
      <3>3. g[<<n, t>>] = Step(t, n)
        BY <3>2
      <3>. QED
        BY <1>2, <3>3
    <2>. HIDE DEF G, g, x, N, X
    <2>3. Steps(N, x, G, g)
      BY <1>0, <1>1, <2>2 DEF Steps
    <2>. QED
      BY <2>1, <2>3, Recursion
  <1>4. Eq(f)
    <2>1. ASSUME NEW n \in 1 .. N PROVE f[n] = Step(f[n - 1], n)
      <3>1. n - 1 \in 0 .. N
        BY <1>0
      <3>2. f[n] = g[<<n, f[n - 1]>>] /\ f[n - 1] \in G[n - 1]
        <4>. HIDE DEF G, g, N, x
        <4>. QED
          BY <1>3, <3>1 DEF Recurs
      <3>3. f[n - 1] \in X
        BY <3>1, <3>2
      <3>. QED
        BY <3>2, <3>3
    <2>2. f[0] = x /\ f = [n \in 0 .. N |-> f[n]]
      <3>. HIDE DEF G, g, N, x
      <3>. QED
        BY <1>3 DEF Recurs
    <2>3. \A n \in 0 .. N : n = 0 \/ n \in 1 .. N
      BY <1>0
    <2>. HIDE DEF x, G, g
    <2>. QED
      BY <2>1, <2>2, <2>3
  <1>5. Eq(after)
    <2>1. after = CHOOSE h : Eq(h)
      BY DEF Step
    <2>. HIDE DEF Eq, after
    <2>. QED
      BY <1>4, <2>1
  <1>. HIDE DEF after
  <1>6. after[0] = x /\ \A n \in 1 .. N : after[n] = Step(after[n - 1], n)
    <2>. HIDE DEF x
    <2>1. after[0] = x
      BY <1>0, <1>5
    <2>2. ASSUME NEW n \in 1 .. N PROVE after[n] = Step(after[n - 1], n)
      <3>1. n \in 0 .. N /\ n # 0
        BY <1>0
      <3>. QED
        BY <1>5, <3>1
    <2>. QED
      BY <2>1, <2>2
  <1>7. after[N] \in G[N]
    <2>1. \A n \in 1 .. N : after[n - 1] \in G[n - 1] => after[n] \in G[n]
      BY <1>2, <1>6
    <2>2. after[0] \in G[0]
      BY <1>1, <1>6
    <2>3. N \in 0 .. N
      BY <1>0
    <2>. HIDE DEF G, N
    <2>4. \A n \in 0 .. N : after[n] \in G[n]
      BY <1>0, <2>1, <2>2, RecursionStays
    <2>. QED
      BY <2>3, <2>4
  <1>8. UpdateBlock(c, bb, o, s) = after[N]
    BY DEF UpdateBlock, after
  <1>. DEFINE d == after[N]
  <1>9. BlockInv(c, bb, d, bb.start)
    <2>1. bb.end - N = bb.start /\ N \in 0 .. N
      BY <1>0
    <2>. QED
      BY <1>7, <2>1
  <1>. HIDE DEF d, after
  <1>10. BetweenInv(c, d, bb.start)
    <2>. HIDE DEF bb
    <2>1. ASSUME NEW v \in Vregs
          PROVE  d[v].ranges = <<>> \/ d[v].ranges[1].start >= LirPos(bb.start)
      <3>. DEFINE rs == d[v].ranges
      <3>1. Shape(rs, LirPos(bb.start), LirPos(bb.start))
        BY <1>9 DEF BlockInv, VregInv, StartInsn
      <3>2. LirPos(bb.start) \in Int
        BY <1>0 DEF LirPos
      <3>. HIDE DEF rs
      <3>3. rs = <<>> \/ rs[1].start >= LirPos(bb.start)
        BY <3>1, <3>2 DEF Shape, Open
      <3>. QED
        BY <3>3 DEF rs
    <2>. QED
      BY <1>9, <2>1 DEF BlockInv, VregInv, BetweenInv
  <1>. QED
    BY <1>8, <1>10 DEF d

\* The intervals as instruction selection leaves them have no ranges.
LEMMA FreshIntervalsOK ==
  ASSUME NEW c, IsMethod(c)
  PROVE  BetweenInv(c, FreshIntervals(c), Len(c) + 1)
  <1>. DEFINE d == FreshIntervals(c)
              Uses(i) == {LirPositions(c[o], o, i) :
                            o \in {p \in DOMAIN c : i \in c[p].in \cup c[p].out}}
  <1>0. Len(c) \in Nat /\ DOMAIN c = 1 .. Len(c) /\ NrVregs \in Nat /\ NrRegisters \in Nat
    BY MethodOK, SizesAssumption
  <1>1. \A i \in Nat, r \in Nat, f \in BOOLEAN : AllocInterval(i, f, r) \in Intervals
    <2>1. <<>> \in Seq(Ranges)
      OBVIOUS
    <2>. QED
      BY <2>1 DEF AllocInterval, Intervals, NULL
  <1>2. ASSUME NEW v \in Vregs
        PROVE  d[v] \in Intervals /\ d[v].var = v /\ ~d[v].fixed /\ d[v].ranges = <<>>
    <2>1. v \in Numbers /\ v \in Nat /\ ~(v > NrVregs)
      BY <1>0 DEF Vregs, Numbers
    <2>2. d[v] = [AllocInterval(v, FALSE, NULL) EXCEPT !.uses = Uses(v)]
      BY <2>1 DEF FreshIntervals, Numbers
    <2>3. Uses(v) \in SUBSET SUBSET Nat
      <3>1. \A p \in 1 .. Len(c) : LirPositions(c[p], p, v) \in SUBSET Nat
        <4>1. \A p \in 1 .. Len(c) : LirPos(p) \in Nat /\ LirPos(p) + 1 \in Nat
          BY <1>0 DEF LirPos
        <4>. QED
          BY <4>1 DEF LirPositions
      <3>. QED
        BY <1>0, <3>1
    <2>. HIDE DEF Uses, d
    <2>4. /\ AllocInterval(v, FALSE, NULL) \in Intervals
          /\ AllocInterval(v, FALSE, NULL).var = v
          /\ AllocInterval(v, FALSE, NULL).fixed = FALSE
          /\ AllocInterval(v, FALSE, NULL).ranges = <<>>
      <3>1. NULL \in Nat
        BY DEF NULL
      <3>2. AllocInterval(v, FALSE, NULL) \in Intervals
        BY <1>1, <2>1, <3>1
      <3>. QED
        BY <3>2 DEF AllocInterval
    <2>. DEFINE a == AllocInterval(v, FALSE, NULL)
    <2>. HIDE DEF a
    <2>5. d[v] = [a EXCEPT !.uses = Uses(v)] /\ a \in Intervals
      BY <2>2, <2>4 DEF a
    <2>6. /\ d[v] \in Intervals /\ d[v].var = a.var /\ d[v].fixed = a.fixed
          /\ d[v].ranges = a.ranges
      BY <2>3, <2>5 DEF Intervals
    <2>. QED
      BY <2>4, <2>6 DEF a
  <1>3. ASSUME NEW r \in Numbers \ Vregs PROVE FixedInv(d[r], Len(c) + 1) /\ d[r] \in Intervals
    <2>1. r \in Nat /\ r > NrVregs /\ r - NrVregs \in Nat /\ r \in 1 .. NrVregs + NrRegisters
      BY <1>0 DEF Vregs, Numbers
    <2>2. d[r] = AllocInterval(r, TRUE, r - NrVregs)
      BY <2>1 DEF FreshIntervals
    <2>. DEFINE n == r - NrVregs
    <2>3. n \in Nat
      BY <2>1
    <2>. HIDE DEF n, d
    <2>4. AllocInterval(r, TRUE, n) \in Intervals
      BY <1>1, <2>1, <2>3
    <2>5. AllocInterval(r, TRUE, n).fixed = TRUE /\ AllocInterval(r, TRUE, n).ranges = <<>>
      BY DEF AllocInterval
    <2>6. InOrder(<<>>)
      BY DEF InOrder
    <2>. QED
      BY <2>2, <2>4, <2>5, <2>6 DEF FixedInv, n
  <1>4. d \in [Numbers -> Intervals]
    <2>1. d = [n \in Numbers |-> d[n]]
      BY DEF FreshIntervals, Numbers
    <2>2. \A n \in Numbers : d[n] \in Intervals
      BY <1>2, <1>3
    <2>. HIDE DEF d
    <2>. QED
      BY <2>1, <2>2
  <1>. HIDE DEF d
  <1>5. InOrder(<<>>) /\ Len(c) + 1 .. Len(c) = {}
    BY <1>0 DEF InOrder
  <1>6. BetweenInv(c, d, Len(c) + 1)
    BY <1>2, <1>3, <1>4, <1>5 DEF BetweenInv
  <1>. QED
    BY <1>6 DEF d

\* update_live_ranges goes through all blocks.
LEMMA UpdateLiveRangesOK ==
  ASSUME NEW c, NEW b, Graph(c, b), NEW l,
         \A k \in 1 .. Len(b) : LiveOutOK(c, b[k], l[k].out)
  PROVE  BetweenInv(c, UpdateLiveRanges(c, b, l, FreshIntervals(c)), 1)
  <1>. DEFINE N == Len(b)
              X == [Numbers -> Intervals]
              x == FreshIntervals(c)
              From(n) == IF n = 0 THEN Len(c) + 1 ELSE b[N + 1 - n].start
              Step(t, n) == UpdateBlock(c, b[Len(b) + 1 - n], l[Len(b) + 1 - n].out, t)
              G == [n \in 0 .. N |-> {t \in X : BetweenInv(c, t, From(n))}]
              g == [p \in (1 .. N) \X X |-> Step(p[2], p[1])]
              Eq(h) == h = [n \in 0 .. Len(b) |-> IF n = 0 THEN x ELSE Step(h[n - 1], n)]
              after[n \in 0 .. Len(b)] ==
                IF n = 0 THEN FreshIntervals(c)
                ELSE UpdateBlock(c, b[Len(b) + 1 - n], l[Len(b) + 1 - n].out, after[n - 1])
  <1>0. N \in Nat /\ N >= 1 /\ IsMethod(c)
    BY GraphOK
  <1>1. x \in G[0]
    <2>1. BetweenInv(c, x, From(0))
      BY <1>0, FreshIntervalsOK
    <2>2. x \in X
      BY <2>1 DEF BetweenInv
    <2>. HIDE DEF x, From
    <2>. QED
      BY <1>0, <2>1, <2>2
  <1>2. ASSUME NEW n \in 1 .. N, NEW t \in G[n - 1] PROVE Step(t, n) \in G[n]
    <2>. DEFINE k == N + 1 - n
    <2>1. n - 1 \in 0 .. N /\ n \in 0 .. N /\ k \in 1 .. Len(b)
      BY <1>0
    <2>2. BetweenInv(c, t, From(n - 1))
      BY <2>1
    <2>3. From(n - 1) = b[k].end
      <3>1. b[k].end = IF k = Len(b) THEN Len(c) + 1 ELSE b[k + 1].start
        BY <2>1, GraphOK
      <3>2. CASE n = 1
        BY <1>0, <3>1, <3>2
      <3>3. CASE n # 1
        <4>1. n - 1 # 0 /\ N + 1 - (n - 1) = k + 1 /\ k # Len(b)
          BY <1>0, <3>3
        <4>. QED
          BY <3>1, <4>1
      <3>. QED
        BY <3>2, <3>3
    <2>4. From(n) = b[k].start
      BY <1>0
    <2>. HIDE DEF k
    <2>5. BetweenInv(c, UpdateBlock(c, b[k], l[k].out, t), b[k].start)
      <3>1. LiveOutOK(c, b[k], l[k].out)
        BY <2>1
      <3>. HIDE DEF From
      <3>2. BetweenInv(c, t, b[k].end)
        BY <2>2, <2>3
      <3>. QED
        BY <2>1, <3>1, <3>2, UpdateBlockOK
    <2>6. BetweenInv(c, Step(t, n), From(n))
      BY <2>4, <2>5 DEF k
    <2>. HIDE DEF Step, From
    <2>7. Step(t, n) \in X
      BY <2>6 DEF BetweenInv
    <2>. QED
      BY <2>1, <2>6, <2>7
  <1>. HIDE DEF Step
  <1>3. PICK f : Recurs(f, N, x, G, g)
    <2>1. G \in [0 .. N -> SUBSET X]
      OBVIOUS
    <2>2. ASSUME NEW n \in 1 .. N, NEW t \in G[n - 1] PROVE g[<<n, t>>] \in G[n]
      <3>1. n - 1 \in 0 .. N
        BY <1>0
      <3>2. t \in X
        BY <3>1
      <3>3. g[<<n, t>>] = Step(t, n)
        BY <3>2
      <3>. QED
        BY <1>2, <3>3
    <2>. HIDE DEF G, g, x, N, X
    <2>3. Steps(N, x, G, g)
      BY <1>0, <1>1, <2>2 DEF Steps
    <2>. QED
      BY <2>1, <2>3, Recursion
  <1>4. Eq(f)
    <2>1. ASSUME NEW n \in 1 .. N PROVE f[n] = Step(f[n - 1], n)
      <3>1. n - 1 \in 0 .. N
        BY <1>0
      <3>2. f[n] = g[<<n, f[n - 1]>>] /\ f[n - 1] \in G[n - 1]
        <4>. HIDE DEF G, g, N, x
        <4>. QED
          BY <1>3, <3>1 DEF Recurs
      <3>3. f[n - 1] \in X
        BY <3>1, <3>2
      <3>. QED
        BY <3>2, <3>3
    <2>2. f[0] = x /\ f = [n \in 0 .. N |-> f[n]]
      <3>. HIDE DEF G, g, N, x
      <3>. QED
        BY <1>3 DEF Recurs
    <2>3. \A n \in 0 .. N : n = 0 \/ n \in 1 .. N
      BY <1>0
    <2>. HIDE DEF x, G, g
    <2>. QED
      BY <2>1, <2>2, <2>3
  <1>5. Eq(after)
    <2>1. after = CHOOSE h : Eq(h)
      BY DEF Step
    <2>. HIDE DEF Eq, after
    <2>. QED
      BY <1>4, <2>1
  <1>. HIDE DEF after
  <1>6. after[0] = x /\ \A n \in 1 .. N : after[n] = Step(after[n - 1], n)
    <2>. HIDE DEF x
    <2>1. after[0] = x
      BY <1>0, <1>5
    <2>2. ASSUME NEW n \in 1 .. N PROVE after[n] = Step(after[n - 1], n)
      <3>1. n \in 0 .. N /\ n # 0
        BY <1>0
      <3>. QED
        BY <1>5, <3>1
    <2>. QED
      BY <2>1, <2>2
  <1>7. after[N] \in G[N]
    <2>1. \A n \in 1 .. N : after[n - 1] \in G[n - 1] => after[n] \in G[n]
      BY <1>2, <1>6
    <2>2. after[0] \in G[0]
      BY <1>1, <1>6
    <2>3. N \in 0 .. N
      BY <1>0
    <2>. HIDE DEF G, N
    <2>4. \A n \in 0 .. N : after[n] \in G[n]
      BY <1>0, <2>1, <2>2, RecursionStays
    <2>. QED
      BY <2>3, <2>4
  <1>8. UpdateLiveRanges(c, b, l, FreshIntervals(c)) = after[N]
    BY DEF UpdateLiveRanges, after
  <1>9. From(N) = 1
    <2>1. b[1].start = 1
      BY GraphOK DEF Tiles
    <2>. QED
      BY <1>0, <2>1
  <1>10. BetweenInv(c, after[N], 1)
    <2>1. N \in 0 .. N
      BY <1>0
    <2>. HIDE DEF From
    <2>. QED
      BY <1>7, <1>9, <2>1
  <1>. QED
    BY <1>8, <1>10

\* The intervals that are built have their ranges in order and cover the lives
\* of their variables.
LEMMA IntervalsCoverLives ==
  ASSUME NEW c, IsMethod(c), NEW s, BetweenInv(c, s, 1)
  PROVE  /\ \A i \in DOMAIN s : RangesInOrder(s[i])
         /\ \A v \in Vregs : CoversLife(c, s[v])
  <1>0. s \in [Numbers -> Intervals] /\ DOMAIN s = Numbers /\ Vregs \subseteq Numbers
    BY SizesAssumption DEF BetweenInv, Numbers, Vregs
  <1>1. \A i \in Numbers : s[i].ranges \in Seq(Ranges)
    BY <1>0 DEF Intervals
  <1>2. \A i \in Numbers : DOMAIN s[i].ranges = 1 .. Len(s[i].ranges)
    BY <1>1, RangesOK
  <1>3. ASSUME NEW i \in Numbers PROVE RangesInOrder(s[i])
    <2>1. InOrder(s[i].ranges)
      BY DEF BetweenInv, FixedInv
    <2>. QED
      BY <1>2, <2>1 DEF InOrder, RangesInOrder
  <1>4. ASSUME NEW v \in Vregs PROVE CoversLife(c, s[v])
    <2>1. s[v].var = v /\ \A i \in 1 .. Len(c) : LifeAt(c, v, s[v].ranges, i)
      BY DEF BetweenInv
    <2>2. \A p : Covered(s[v].ranges, p) => IntervalCovers(s[v], p)
      BY <1>0, <1>2 DEF Covered, IntervalCovers
    <2>3. DOMAIN c = 1 .. Len(c)
      BY MethodOK
    <2>. QED
      BY <2>1, <2>2, <2>3 DEF LifeAt, CoversLife
  <1>. QED
    BY <1>0, <1>3, <1>4

-----------------------------------------------------------------------------
(* Liveness of every method that is selected                               *)

\* What is known of the live sets and the intervals
LiveInv ==
  /\ phase \in {"liveness", "ranges"} => LiveSound(code, bbs, live)
  /\ phase = "ranges" => LiveSetsExact(code, bbs, live)
  /\ phase = "intervals" => BetweenInv(code, its, 1)
  /\ LivesAreCovered

\* The passes after those on intervals do not matter.
LEMMA LiveStep ==
  ASSUME CodeInv, LiveInv, [Next]_vars
  PROVE  LiveInv'
  <1>1. ASSUME NEW insn, Select(insn) PROVE LiveInv'
    BY <1>1 DEF Select, LiveInv, LivesAreCovered
  <1>2. ASSUME NEW op, NEW target, SelectBranch(op, target) PROVE LiveInv'
    BY <1>1, <1>2 DEF SelectBranch
  <1>3. ASSUME SelectReturn PROVE LiveInv'
    BY <1>3 DEF SelectReturn, LiveInv, LivesAreCovered
  <1>4. ASSUME BuildBlocks PROVE LiveInv'
    <2>1. /\ phase = "flow" /\ phase' = "liveness" /\ code' = code
          /\ bbs' = AnalyzeControlFlow(code)
          /\ live' = [k \in DOMAIN bbs' |-> [in |-> {}, out |-> {}]]
      BY <1>4 DEF BuildBlocks
    <2>2. IsMethod(code)
      BY <2>1 DEF CodeInv
    <2>3. Tiles(code, bbs')
      BY <2>1, <2>2, AnalyzeControlFlowIsExact
    <2>. DEFINE b == bbs'
                l == live'
    <2>4. DOMAIN b = 1 .. Len(b)
      <3>. HIDE DEF b
      <3>. QED
        BY <2>3, BlocksOK DEF b
    <2>5. l = [k \in 1 .. Len(b) |-> [in |-> {}, out |-> {}]]
      BY <2>1, <2>4
    <2>. HIDE DEF b, l
    <2>6. LiveSound(code, b, l)
      BY <2>5 DEF LiveSound, LiveSet
    <2>. QED
      BY <2>1, <2>6 DEF LiveInv, LivesAreCovered, b, l
  <1>5. ASSUME AnalyzeLiveSets PROVE LiveInv'
    <2>1. /\ phase = "liveness" /\ code' = code /\ bbs' = bbs
          /\ live' = LivePass(code, bbs, live)
          /\ phase' = IF live' = live THEN "ranges" ELSE "liveness"
      BY <1>5 DEF AnalyzeLiveSets
    <2>2. Graph(code, bbs) /\ LiveSound(code, bbs, live)
      BY <2>1 DEF CodeInv, LiveInv, Graph
    <2>3. LiveSound(code, bbs, live')
      BY <2>1, <2>2, LivePassSound
    <2>4. live' = live => LiveSetsExact(code, bbs, live)
      BY <2>1, <2>2, LiveSetsAreExact
    <2>5. phase' = "ranges" => live' = live
      BY <2>1
    <2>6. phase' # "intervals"
      BY <2>1
    <2>. QED
      BY <2>1, <2>3, <2>4, <2>5, <2>6 DEF LiveInv, LivesAreCovered
  <1>6. ASSUME BuildIntervals PROVE LiveInv'
    <2>1. /\ phase = "ranges" /\ phase' = "intervals" /\ code' = code /\ bbs' = bbs
          /\ live' = live /\ its' = UpdateLiveRanges(code, bbs, live, FreshIntervals(code))
      BY <1>6 DEF BuildIntervals
    <2>2. Graph(code, bbs) /\ LiveSound(code, bbs, live) /\ LiveSetsExact(code, bbs, live)
      BY <2>1 DEF CodeInv, LiveInv, Graph
    <2>3. ASSUME NEW k \in 1 .. Len(bbs) PROVE LiveOutOK(code, bbs[k], live[k].out)
      <3>1. live[k] \in LiveSet
        BY <2>2 DEF LiveSound
      <3>2. DOMAIN bbs = 1 .. Len(bbs)
        BY <2>2, GraphOK
      <3>3. \A v \in Vregs : v \in live[k].out <=>
              NextOffsets(code, bbs[k].end - 1) \cap LiveBefore(code, v) # {}
        BY <2>2, <3>2 DEF LiveSetsExact
      <3>4. live[k].out \subseteq Vregs
        BY <3>1 DEF LiveSet
      <3>. QED
        BY <3>3, <3>4 DEF LiveOutOK
    <2>4. BetweenInv(code, its', 1)
      BY <2>1, <2>2, <2>3, UpdateLiveRangesOK
    <2>5. IsMethod(code)
      BY <2>2 DEF Graph
    <2>. DEFINE s == its'
    <2>6. /\ \A i \in DOMAIN s : RangesInOrder(s[i])
          /\ \A v \in Vregs : CoversLife(code, s[v])
      <3>1. BetweenInv(code, s, 1)
        BY <2>4
      <3>. HIDE DEF s
      <3>. QED
        BY <2>5, <3>1, IntervalsCoverLives
    <2>. QED
      BY <2>1, <2>2, <2>4, <2>6 DEF LiveInv, LivesAreCovered
  <1>7. ASSUME Later PROVE LiveInv'
    BY <1>7 DEF LiveInv, LivesAreCovered, Later
  <1>8. ASSUME UNCHANGED vars PROVE LiveInv'
    BY <1>8 DEF LiveInv, LivesAreCovered, vars
  <1>. QED
    BY <1>1, <1>2, <1>3, <1>4, <1>5, <1>6, <1>7, <1>8, LaterSteps DEF Next

\* analyze_liveness ends with the variables that are live and no others, and the
\* intervals that are built from them cover every life.
THEOREM LivesAreCoveredAlways == Spec => []LivesAreCovered
  <1>1. Init => CodeInv
    BY CodeInit
  <1>2. Init => LiveInv
    BY DEF Init, LiveInv, LivesAreCovered
  <1>3. CodeInv /\ [Next]_vars => CodeInv'
    BY CodeStep
  <1>4. CodeInv /\ LiveInv /\ [Next]_vars => LiveInv'
    BY LiveStep
  <1>5. LiveInv => LivesAreCovered
    BY DEF LiveInv
  <1>. QED
    BY <1>1, <1>2, <1>3, <1>4, <1>5, PTL DEF Spec

-----------------------------------------------------------------------------
(* The priority queue                                                      *)

\* The values that the nodes of a queue have, for values V
Elements(V) == [key : Int, value : V]

\* The elements outside of the hole
Others(D, n, i) == {D[j] : j \in (1 .. n) \ {i}}

\* The order of a heap, apart from the hole
HeapAround(D, n, i) ==
  /\ \A j \in 2 .. n : j # i /\ j \div 2 # i => D[j \div 2].key <= D[j].key
  /\ i > 1 => \A j \in 2 .. n : j \div 2 = i => D[i \div 2].key <= D[j].key

\* D with x at i
With(D, i, x) == [D EXCEPT ![i] = x]

\* The place above
LEMMA Half ==
  ASSUME NEW j \in Nat, j >= 1
  PROVE  /\ j \div 2 \in Nat /\ j \div 2 < j
         /\ 2 * (j \div 2) <= j /\ j <= 2 * (j \div 2) + 1
         /\ j >= 2 => j \div 2 >= 1
  OBVIOUS

\* Numbers of a queue
LEMMA QueueOK ==
  ASSUME NEW V, NEW D \in Seq(Elements(V))
  PROVE  /\ Len(D) \in Nat /\ DOMAIN D = 1 .. Len(D)
         /\ \A j \in 1 .. Len(D) : D[j] \in Elements(V) /\ D[j].key \in Int
  <1>1. Len(D) \in Nat /\ DOMAIN D = 1 .. Len(D)
    BY LenProperties
  <1>2. \A j \in 1 .. Len(D) : D[j] \in Elements(V)
    BY ElementOfSeq
  <1>. QED
    BY <1>1, <1>2 DEF Elements

\* The element at p is moved into the hole: e is the queue then.
Moves(V, D, n, i, p, e) ==
  /\ D \in Seq(Elements(V)) /\ n = Len(D) /\ i \in 1 .. n /\ p \in 1 .. n
  /\ p # i /\ e = With(D, i, D[p])

\* e is D apart from x at i.
Differs(V, D, n, i, x, e) ==
  /\ e \in Seq(Elements(V)) /\ Len(e) = n
  /\ e[i] = x /\ \A j \in 1 .. n : j # i => e[j] = D[j]

\* The hole is at p then.
LEMMA MoveHole ==
  ASSUME NEW V, NEW D, NEW n, NEW i, NEW p, NEW e, Moves(V, D, n, i, p, e)
  PROVE  Differs(V, D, n, i, D[p], e) /\ Others(e, n, p) = Others(D, n, i)
  <1>. USE DEF Moves
  <1>0. D[p] \in Elements(V) /\ n \in Nat
    BY QueueOK
  <1>1. /\ e \in Seq(Elements(V)) /\ Len(e) = n
        /\ \A j \in 1 .. n : e[j] = IF j = i THEN D[p] ELSE D[j]
    BY <1>0, ExceptSeq DEF With
  <1>2. e[i] = D[p] /\ \A j \in 1 .. n : j # i => e[j] = D[j]
    BY <1>1
  <1>3. Others(e, n, p) \subseteq Others(D, n, i)
    <2>. SUFFICES ASSUME NEW j \in (1 .. n) \ {p} PROVE \E k \in (1 .. n) \ {i} : e[j] = D[k]
      BY DEF Others
    <2>1. CASE j = i
      BY <1>2, <2>1
    <2>2. CASE j # i
      BY <1>2, <2>2
    <2>. QED
      BY <2>1, <2>2
  <1>4. Others(D, n, i) \subseteq Others(e, n, p)
    <2>. SUFFICES ASSUME NEW j \in (1 .. n) \ {i} PROVE \E k \in (1 .. n) \ {p} : D[j] = e[k]
      BY DEF Others
    <2>1. CASE j = p
      BY <1>2, <2>1
    <2>2. CASE j # p
      BY <1>2, <2>2
    <2>. QED
      BY <2>1, <2>2
  <1>. QED
    BY <1>1, <1>2, <1>3, <1>4 DEF Differs

\* The hole is filled with an element that is in order with the places next
\* to it.
Fills(V, D, n, i, x, e) ==
  /\ D \in Seq(Elements(V)) /\ n = Len(D) /\ i \in 1 .. n
  /\ x \in Elements(V) /\ e = With(D, i, x)
  /\ HeapAround(D, n, i) /\ (i > 1 => D[i \div 2].key <= x.key)
  /\ \A j \in 2 .. n : j \div 2 = i => x.key <= D[j].key

\* The order is that of a heap then.
LEMMA FillHole ==
  ASSUME NEW V, NEW D, NEW n, NEW i, NEW x, NEW e, Fills(V, D, n, i, x, e)
  PROVE  Differs(V, D, n, i, x, e) /\ IsHeap(e)
  <1>. USE DEF Fills
  <1>0. n \in Nat
    BY QueueOK
  <1>1. /\ e \in Seq(Elements(V)) /\ Len(e) = n
        /\ \A j \in 1 .. n : e[j] = IF j = i THEN x ELSE D[j]
    BY ExceptSeq DEF With
  <1>2. e[i] = x /\ \A j \in 1 .. n : j # i => e[j] = D[j]
    BY <1>1
  <1>3. ASSUME NEW j \in 2 .. n PROVE e[j \div 2].key <= e[j].key
    <2>. DEFINE p == j \div 2
    <2>1. p \in 1 .. n /\ p < j /\ j \in 1 .. n
      BY <1>0, Half
    <2>2. p = j \div 2
      OBVIOUS
    <2>. HIDE DEF p
    <2>3. CASE j = i
      BY <1>2, <2>1, <2>2, <2>3
    <2>4. CASE p = i
      BY <1>2, <2>1, <2>2, <2>4
    <2>5. CASE j # i /\ p # i
      <3>1. D[p].key <= D[j].key
        BY <2>2, <2>5 DEF HeapAround
      <3>. QED
        BY <1>2, <2>1, <2>2, <2>5, <3>1
    <2>. QED
      BY <2>3, <2>4, <2>5
  <1>4. IsHeap(e)
    BY <1>1, <1>3 DEF IsHeap
  <1>. QED
    BY <1>1, <1>2, <1>4 DEF Differs

-----------------------------------------------------------------------------
(* pqueue_insert                                                           *)

\* The queue and the hole after r rounds: the loop is at its end, or the hole
\* has risen with every round.
UpAt(V, d, key, r, D, i) ==
  /\ D \in Seq(Elements(V)) /\ Len(D) = Len(d) + 1 /\ i \in 1 .. Len(d) + 1
  /\ i + r <= Len(d) + 1 \/ i = 1 \/ D[i \div 2].key <= key
  /\ HeapAround(D, Len(d) + 1, i)
  /\ \A j \in 2 .. Len(d) + 1 : j \div 2 = i => key <= D[j].key
  /\ Others(D, Len(d) + 1, i) = ToSet(d)

\* What a loop works on
HoleStates(V) == [data : Seq(Elements(V)), i : Nat]

\* A larger parent moves down.
LEMMA UpMoves ==
  ASSUME NEW V, NEW d \in Seq(Elements(V)), NEW key \in Int, NEW r \in Nat, NEW D, NEW i,
         UpAt(V, d, key, r, D, i), i > 1, D[i \div 2].key > key,
         NEW e, e = With(D, i, D[i \div 2])
  PROVE  UpAt(V, d, key, r + 1, e, i \div 2)
  <1>. DEFINE n == Len(d) + 1
              p == i \div 2
  <1>0. Len(d) \in Nat
    BY QueueOK
  <1>1. /\ D \in Seq(Elements(V)) /\ Len(D) = n /\ i \in 1 .. n /\ i + r <= n
        /\ HeapAround(D, n, i) /\ Others(D, n, i) = ToSet(d)
        /\ \A j \in 2 .. n : j \div 2 = i => key <= D[j].key
    <2>1. D \in Seq(Elements(V)) /\ Len(D) = n /\ i \in 1 .. n
      BY DEF UpAt
    <2>2. p \in 1 .. n
      BY <1>0, <2>1, Half
    <2>3. D[p].key \in Int
      BY <2>1, <2>2, QueueOK
    <2>4. i + r <= n
      BY <1>0, <2>1, <2>3 DEF UpAt
    <2>. QED
      BY <2>1, <2>4 DEF UpAt
  <1>2. p \in 1 .. n /\ p < i /\ n \in Nat /\ i \in Nat /\ n = Len(d) + 1
    BY <1>0, <1>1, Half
  <1>3. p = i \div 2
    OBVIOUS
  <1>. HIDE DEF n, p
  <1>4. /\ e \in Seq(Elements(V)) /\ Len(e) = n
        /\ e[i] = D[p] /\ \A j \in 1 .. n : j # i => e[j] = D[j]
        /\ Others(e, n, p) = Others(D, n, i)
    <2>1. Moves(V, D, n, i, p, e)
      BY <1>1, <1>2, <1>3 DEF Moves
    <2>2. Differs(V, D, n, i, D[p], e) /\ Others(e, n, p) = Others(D, n, i)
      BY <2>1, MoveHole
    <2>. QED
      BY <2>2 DEF Differs
  <1>5. \A j \in 1 .. n : D[j].key \in Int
    BY <1>1, QueueOK
  <1>6. ASSUME NEW j \in 2 .. n, j # p, j \div 2 # p PROVE e[j \div 2].key <= e[j].key
    <2>. DEFINE q == j \div 2
    <2>1. q \in 1 .. n /\ j \in 1 .. n /\ q = j \div 2
      BY <1>2, Half
    <2>2. j # i /\ q # p
      BY <1>3, <1>6
    <2>. HIDE DEF q
    <2>3. CASE q = i
      <3>1. D[p].key <= D[j].key
        BY <1>1, <1>3, <2>1, <2>3 DEF HeapAround
      <3>. QED
        BY <1>4, <2>1, <2>2, <2>3, <3>1
    <2>4. CASE q # i
      <3>1. D[q].key <= D[j].key
        BY <1>1, <2>1, <2>2, <2>4 DEF HeapAround
      <3>. QED
        BY <1>4, <2>1, <2>2, <2>4, <3>1
    <2>. QED
      BY <2>3, <2>4
  <1>7. ASSUME NEW j \in 2 .. n, j \div 2 = p PROVE key <= e[j].key /\ D[p].key <= e[j].key
    <2>0. j \in 1 .. n /\ D[p].key > key
      BY <1>2, <1>3
    <2>1. CASE j = i
      BY <1>2, <1>4, <1>5, <2>0, <2>1
    <2>2. CASE j # i
      <3>1. D[p].key <= D[j].key
        BY SMTT(30), <1>1, <1>2, <1>7, <2>2 DEF HeapAround
      <3>2. e[j] = D[j]
        BY <1>4, <2>0, <2>2
      <3>3. D[p].key \in Int /\ D[j].key \in Int
        BY <1>2, <1>5, <2>0
      <3>. QED
        BY <2>0, <3>1, <3>2, <3>3
    <2>. QED
      BY <2>1, <2>2
  <1>8. ASSUME p > 1, NEW j \in 2 .. n, j \div 2 = p PROVE e[p \div 2].key <= e[j].key
    <2>1. p \div 2 \in 1 .. n /\ p \div 2 < p /\ p \in 2 .. n /\ p \div 2 # i /\ j \in 1 .. n
      BY <1>2, <1>8, Half
    <2>2. D[p \div 2].key <= D[p].key
      <3>1. p # i
        BY <1>2
      <3>2. \A m \in 2 .. n : m # i /\ m \div 2 # i => D[m \div 2].key <= D[m].key
        BY <1>1 DEF HeapAround
      <3>. QED
        BY <2>1, <3>1, <3>2
    <2>3. e[p \div 2] = D[p \div 2]
      BY <1>4, <2>1
    <2>4. D[p].key <= e[j].key
      BY <1>7, <1>8
    <2>5. D[p \div 2].key \in Int /\ D[p].key \in Int
      BY <1>2, <1>5, <2>1
    <2>6. e[j].key \in Int
      BY <1>4, <2>1, QueueOK
    <2>. QED
      BY <2>2, <2>3, <2>4, <2>5, <2>6
  <1>9. HeapAround(e, n, p)
    BY <1>6, <1>8 DEF HeapAround
  <1>10. p + (r + 1) <= n
    BY <1>1, <1>2
  <1>. QED
    BY <1>1, <1>2, <1>3, <1>4, <1>7, <1>9, <1>10 DEF UpAt

\* A round of the loop
LEMMA UpRoundOK ==
  ASSUME NEW V, NEW d \in Seq(Elements(V)), NEW key \in Int, NEW r \in Nat,
         NEW s \in HoleStates(V), UpAt(V, d, key, r, s.data, s.i)
  PROVE  /\ UpRound(s, key) \in HoleStates(V)
         /\ UpAt(V, d, key, r + 1, UpRound(s, key).data, UpRound(s, key).i)
  <1>. DEFINE p == s.i \div 2
              e == With(s.data, s.i, s.data[s.i \div 2])
  <1>0. /\ Len(d) \in Nat /\ s.i \in 1 .. Len(d) + 1
        /\ s.data \in Seq(Elements(V)) /\ Len(s.data) = Len(d) + 1
    BY QueueOK DEF UpAt
  <1>1. CASE s.i > 1 /\ s.data[s.i \div 2].key > key
    <2>1. p \in 1 .. Len(d) + 1 /\ p \in Nat
      BY <1>0, <1>1, Half
    <2>2. s.data[p].key \in Int
      BY <1>0, <2>1, QueueOK
    <2>3. UpRound(s, key) = [data |-> e, i |-> p]
      BY <1>1, <2>2 DEF UpRound, pqueue_compare, With
    <2>. HIDE DEF e
    <2>4. UpAt(V, d, key, r + 1, e, s.i \div 2)
      BY <1>1, UpMoves DEF e
    <2>5. e \in Seq(Elements(V))
      BY <2>4 DEF UpAt
    <2>. QED
      BY <2>1, <2>3, <2>4, <2>5 DEF HoleStates
  <1>2. CASE ~(s.i > 1 /\ s.data[s.i \div 2].key > key)
    <2>1. s.i = 1 \/ s.data[s.i \div 2].key <= key
      <3>1. CASE s.i > 1
        <4>1. p \in 1 .. Len(d) + 1
          BY <1>0, <3>1, Half
        <4>2. s.data[p].key \in Int
          BY <1>0, <4>1, QueueOK
        <4>. QED
          BY <1>2, <3>1, <4>2
      <3>. QED
        BY <1>0, <3>1
    <2>2. UpRound(s, key) = s
      <3>1. CASE s.i > 1
        <4>1. p \in 1 .. Len(d) + 1
          BY <1>0, <3>1, Half
        <4>2. s.data[p].key \in Int
          BY <1>0, <4>1, QueueOK
        <4>. QED
          BY <1>2, <3>1, <4>2 DEF UpRound, pqueue_compare
      <3>2. CASE ~(s.i > 1)
        BY <3>2 DEF UpRound
      <3>. QED
        BY <3>1, <3>2
    <2>3. UpAt(V, d, key, r + 1, s.data, s.i)
      BY <2>1 DEF UpAt
    <2>. QED
      BY <2>2, <2>3
  <1>. QED
    BY <1>1, <1>2

\* The queue with its new element behind the others
LEMMA UpStarts ==
  ASSUME NEW V, NEW d \in Seq(Elements(V)), IsHeap(d), NEW key \in Int, NEW value \in V
  PROVE  UpAt(V, d, key, 0, Append(d, Node(key, value)), Len(d) + 1)
  <1>. DEFINE x == Node(key, value)
              n == Len(d) + 1
              D == Append(d, x)
  <1>0. Len(d) \in Nat /\ DOMAIN d = 1 .. Len(d)
    BY QueueOK
  <1>1. x \in Elements(V)
    BY DEF Node, Elements
  <1>. HIDE DEF x
  <1>2. /\ D \in Seq(Elements(V)) /\ Len(D) = Len(d) + 1
        /\ \A i \in 1 .. Len(d) : D[i] = d[i]
    BY <1>1, AppendProperties
  <1>. HIDE DEF D
  <1>3. ASSUME NEW j \in 2 .. n PROVE j \div 2 # n /\ j \div 2 \in 1 .. Len(d)
    BY <1>0, Half
  <1>4. HeapAround(D, n, n)
    <2>1. ASSUME NEW j \in 2 .. n, j # n PROVE D[j \div 2].key <= D[j].key
      <3>1. j \in 2 .. Len(d) /\ j \in 1 .. Len(d)
        BY <1>0, <2>1
      <3>2. d[j \div 2].key <= d[j].key
        BY <3>1 DEF IsHeap
      <3>. QED
        BY <1>2, <1>3, <3>1, <3>2
    <2>. QED
      BY <1>3, <2>1 DEF HeapAround
  <1>5. Others(D, n, n) = ToSet(d)
    <2>1. (1 .. n) \ {n} = 1 .. Len(d)
      BY <1>0
    <2>2. Others(D, n, n) = {D[j] : j \in 1 .. Len(d)}
      BY <2>1 DEF Others
    <2>. HIDE DEF n
    <2>3. {D[j] : j \in 1 .. Len(d)} = {d[j] : j \in 1 .. Len(d)}
      BY <1>2
    <2>4. ToSet(d) = {d[j] : j \in 1 .. Len(d)}
      BY <1>0 DEF ToSet
    <2>. QED
      BY <2>2, <2>3, <2>4
  <1>6. n \in 1 .. Len(d) + 1 /\ n + 0 <= Len(d) + 1
    BY <1>0
  <1>7. UpAt(V, d, key, 0, D, n)
    BY <1>2, <1>3, <1>4, <1>5, <1>6 DEF UpAt
  <1>. QED
    BY <1>7 DEF D, x

\* The loop has ended, and the new element is put into the hole.
LEMMA UpEnds ==
  ASSUME NEW V, NEW d \in Seq(Elements(V)), NEW key \in Int, NEW value \in V,
         NEW D, NEW i, UpAt(V, d, key, Len(d), D, i),
         NEW e, e = With(D, i, Node(key, value))
  PROVE  /\ e \in Seq(Elements(V)) /\ Len(e) = Len(d) + 1 /\ IsHeap(e)
         /\ ToSet(e) = ToSet(d) \cup {Node(key, value)}
  <1>. DEFINE x == Node(key, value)
              n == Len(d) + 1
  <1>0. Len(d) \in Nat
    BY QueueOK
  <1>1. x \in Elements(V) /\ x.key = key
    BY DEF Node, Elements
  <1>2. /\ D \in Seq(Elements(V)) /\ n = Len(D) /\ i \in 1 .. n
        /\ HeapAround(D, n, i) /\ Others(D, n, i) = ToSet(d)
        /\ \A j \in 2 .. n : j \div 2 = i => x.key <= D[j].key
    BY <1>1 DEF UpAt
  <1>3. i > 1 => D[i \div 2].key <= x.key
    BY <1>0, <1>1, <1>2 DEF UpAt
  <1>4. e = With(D, i, x)
    OBVIOUS
  <1>. HIDE DEF x, n
  <1>5. /\ e \in Seq(Elements(V)) /\ Len(e) = n /\ IsHeap(e)
        /\ e[i] = x /\ \A j \in 1 .. n : j # i => e[j] = D[j]
    <2>1. Fills(V, D, n, i, x, e)
      BY <1>1, <1>2, <1>3, <1>4 DEF Fills
    <2>2. Differs(V, D, n, i, x, e) /\ IsHeap(e)
      BY <2>1, FillHole
    <2>. QED
      BY <2>2 DEF Differs
  <1>6. ToSet(e) = Others(D, n, i) \cup {x}
    <2>1. ToSet(e) = {e[j] : j \in 1 .. n}
      BY <1>5, QueueOK DEF ToSet
    <2>2. {e[j] : j \in 1 .. n} = Others(D, n, i) \cup {x}
      BY <1>2, <1>5 DEF Others
    <2>. QED
      BY <2>1, <2>2
  <1>. QED
    BY <1>2, <1>5, <1>6 DEF n, x

\* pqueue_insert
LEMMA InsertOK ==
  ASSUME NEW V, NEW d \in Seq(Elements(V)), IsHeap(d), NEW key \in Int, NEW value \in V
  PROVE  LET e == pqueue_insert(d, key, value)
         IN  /\ e \in Seq(Elements(V)) /\ Len(e) = Len(d) + 1 /\ IsHeap(e)
             /\ ToSet(e) = ToSet(d) \cup {Node(key, value)}
  <1>. DEFINE N == Len(d)
              x == [data |-> Append(d, Node(key, value)), i |-> Len(d) + 1]
              X == HoleStates(V)
              Good(n, s) == UpAt(V, d, key, n, s.data, s.i)
              G == [n \in 0 .. N |-> {s \in X : Good(n, s)}]
              g == [p \in (1 .. N) \X X |-> UpRound(p[2], key)]
              Eq(h) == h = [n \in 0 .. Len(d) |-> IF n = 0 THEN x ELSE UpRound(h[n - 1], key)]
              after[n \in 0 .. Len(d)] ==
                IF n = 0
                THEN [data |-> Append(d, Node(key, value)), i |-> Len(d) + 1]
                ELSE UpRound(after[n - 1], key)
  <1>0. N \in Nat
    BY QueueOK
  <1>1. x \in X /\ Good(0, x)
    <2>1. UpAt(V, d, key, 0, x.data, x.i)
      BY UpStarts
    <2>2. x.data \in Seq(Elements(V)) /\ x.i \in Nat
      BY <1>0, <2>1 DEF UpAt
    <2>. QED
      BY <2>1, <2>2 DEF HoleStates
  <1>2. ASSUME NEW n \in 1 .. N, NEW s \in X, Good(n - 1, s)
        PROVE  UpRound(s, key) \in X /\ Good(n, UpRound(s, key))
    <2>1. n - 1 \in Nat /\ (n - 1) + 1 = n
      BY <1>0
    <2>. QED
      BY <1>2, <2>1, UpRoundOK
  <1>. HIDE DEF X, Good, x
  <1>3. ASSUME NEW n \in 1 .. N, NEW s \in G[n - 1]
        PROVE  s \in X /\ UpRound(s, key) \in G[n]
    <2>1. n - 1 \in 0 .. N /\ n \in 0 .. N
      BY <1>0
    <2>2. s \in X /\ Good(n - 1, s)
      BY <2>1
    <2>3. UpRound(s, key) \in X /\ Good(n, UpRound(s, key))
      BY <1>2, <2>2
    <2>. QED
      BY <2>1, <2>2, <2>3
  <1>4. x \in G[0]
    BY <1>0, <1>1
  <1>5. PICK f : Recurs(f, N, x, G, g)
    <2>1. G \in [0 .. N -> SUBSET X]
      OBVIOUS
    <2>2. ASSUME NEW n \in 1 .. N, NEW s \in G[n - 1] PROVE g[<<n, s>>] \in G[n]
      <3>1. g[<<n, s>>] = UpRound(s, key)
        BY <1>3
      <3>. QED
        BY <1>3, <3>1
    <2>. HIDE DEF G, g, N
    <2>3. Steps(N, x, G, g)
      BY <1>0, <1>4, <2>2 DEF Steps
    <2>. QED
      BY <2>1, <2>3, Recursion
  <1>6. Eq(f)
    <2>1. ASSUME NEW n \in 1 .. N PROVE f[n] = UpRound(f[n - 1], key)
      <3>1. n - 1 \in 0 .. N
        BY <1>0
      <3>2. f[n] = g[<<n, f[n - 1]>>] /\ f[n - 1] \in G[n - 1]
        <4>. HIDE DEF G, g, N
        <4>. QED
          BY <1>5, <3>1 DEF Recurs
      <3>3. f[n - 1] \in X
        BY <3>1, <3>2
      <3>. QED
        BY <3>2, <3>3
    <2>2. f[0] = x /\ f = [n \in 0 .. N |-> f[n]]
      <3>. HIDE DEF G, g, N
      <3>. QED
        BY <1>5 DEF Recurs
    <2>3. \A n \in 0 .. N : n = 0 \/ n \in 1 .. N
      BY <1>0
    <2>. HIDE DEF G, g
    <2>. QED
      BY <2>1, <2>2, <2>3
  <1>7. Eq(after)
    <2>1. after = CHOOSE h : Eq(h)
      BY DEF x
    <2>. HIDE DEF Eq, after
    <2>. QED
      BY <1>6, <2>1
  <1>. HIDE DEF after
  <1>8. after[0] = x /\ \A n \in 1 .. N : after[n] = UpRound(after[n - 1], key)
    <2>1. after[0] = x
      BY <1>0, <1>7
    <2>2. ASSUME NEW n \in 1 .. N PROVE after[n] = UpRound(after[n - 1], key)
      <3>1. n \in 0 .. Len(d) /\ n # 0
        BY <1>0
      <3>. QED
        BY <1>7, <3>1
    <2>. QED
      BY <2>1, <2>2
  <1>9. after[N] \in X /\ Good(N, after[N])
    <2>1. \A n \in 1 .. N : after[n - 1] \in G[n - 1] => after[n] \in G[n]
      BY <1>3, <1>8
    <2>2. after[0] \in G[0]
      BY <1>4, <1>8
    <2>3. \A n \in 0 .. N : after[n] \in G[n]
      <3>. HIDE DEF G, N
      <3>. QED
        BY <1>0, <2>1, <2>2, RecursionStays
    <2>4. N \in 0 .. N
      BY <1>0
    <2>. HIDE DEF N
    <2>5. after[N] \in G[N]
      BY <2>3, <2>4
    <2>. QED
      BY <2>4, <2>5
  <1>. DEFINE s == after[Len(d)]
              e == With(s.data, s.i, Node(key, value))
  <1>10. pqueue_insert(d, key, value) = e
    BY DEF pqueue_insert, after, With
  <1>11. UpAt(V, d, key, Len(d), s.data, s.i)
    BY <1>9 DEF Good
  <1>. HIDE DEF s, e
  <1>12. /\ e \in Seq(Elements(V)) /\ Len(e) = Len(d) + 1 /\ IsHeap(e)
         /\ ToSet(e) = ToSet(d) \cup {Node(key, value)}
    BY <1>11, UpEnds DEF e
  <1>. QED
    BY <1>10, <1>12

-----------------------------------------------------------------------------
(* pqueue_remove_top                                                       *)

\* The queue and the hole after r rounds: the loop is at its end, or the hole
\* has sunk with every round.  The last element is what goes into the hole.
DownAt(V, d, r, D, i) ==
  /\ D \in Seq(Elements(V)) /\ Len(D) = Len(d) /\ i \in 1 .. Len(d)
  /\ D[Len(d)] = d[Len(d)]
  /\ i > r \/ \A j \in 2 .. Len(d) : j \div 2 = i => d[Len(d)].key < D[j].key
  /\ HeapAround(D, Len(d), i)
  /\ i > 1 => D[i \div 2].key <= d[Len(d)].key
  /\ Others(D, Len(d), i) = Others(d, Len(d), 1)

\* The places that have a child
LEMMA HasChild ==
  ASSUME NEW n \in Nat, NEW i \in Nat
  PROVE  i <= n \div 2 <=> 2 * i <= n
  OBVIOUS

\* The smaller child
SmallerChild(D, n, i) ==
  IF 2 * i < n /\ D[2 * i + 1].key < D[2 * i].key THEN 2 * i + 1 ELSE 2 * i

\* No child of i is smaller than c.
NoSmaller(D, n, i, c) == \A j \in 2 .. n : j \div 2 = i => D[c].key <= D[j].key

\* It is a child, and no child is smaller.
LEMMA SmallerChildOK ==
  ASSUME NEW V, NEW D \in Seq(Elements(V)), NEW n, n = Len(D), NEW i \in 1 .. n, i <= n \div 2
  PROVE  LET c == SmallerChild(D, n, i)
         IN  /\ c \in 2 .. n /\ c \div 2 = i /\ c > i
             /\ NoSmaller(D, n, i, c)
  <1>0. n \in Nat /\ \A j \in 1 .. n : D[j].key \in Int
    BY QueueOK
  <1>1. 2 * i <= n /\ i \in Nat /\ i >= 1
    BY <1>0, Half
  <1>2. (2 * i) \div 2 = i /\ (2 * i + 1) \div 2 = i
    BY <1>1
  <1>3. ASSUME NEW j \in 2 .. n, j \div 2 = i PROVE j = 2 * i \/ j = 2 * i + 1
    BY <1>0, <1>3, Half
  <1>4. CASE 2 * i < n /\ D[2 * i + 1].key < D[2 * i].key
    <2>1. 2 * i + 1 \in 1 .. n /\ 2 * i \in 1 .. n /\ 2 * i + 1 \in 2 .. n
      BY <1>0, <1>1, <1>4
    <2>2. D[2 * i + 1].key \in Int /\ D[2 * i].key \in Int
      BY <1>0, <2>1
    <2>3. SmallerChild(D, n, i) = 2 * i + 1
      BY <1>4 DEF SmallerChild
    <2>4. ASSUME NEW j \in 2 .. n, j \div 2 = i PROVE D[2 * i + 1].key <= D[j].key
      <3>1. CASE j = 2 * i
        BY <1>4, <2>2, <3>1
      <3>2. CASE j = 2 * i + 1
        BY <2>2, <3>2
      <3>. QED
        BY <1>3, <2>4, <3>1, <3>2
    <2>5. 2 * i + 1 > i
      BY <1>1
    <2>. QED
      BY <1>2, <2>1, <2>3, <2>4, <2>5 DEF NoSmaller
  <1>5. CASE ~(2 * i < n /\ D[2 * i + 1].key < D[2 * i].key)
    <2>1. 2 * i \in 1 .. n /\ 2 * i \in 2 .. n /\ 2 * i > i
      BY <1>0, <1>1
    <2>2. SmallerChild(D, n, i) = 2 * i
      BY <1>5 DEF SmallerChild
    <2>3. ASSUME NEW j \in 2 .. n, j \div 2 = i PROVE D[2 * i].key <= D[j].key
      <3>1. CASE j = 2 * i
        BY <1>0, <2>1, <3>1
      <3>2. CASE j = 2 * i + 1
        <4>1. 2 * i < n /\ 2 * i + 1 \in 1 .. n
          BY <1>0, <1>1, <2>3, <3>2
        <4>2. D[2 * i].key \in Int /\ D[2 * i + 1].key \in Int
          BY <1>0, <2>1, <4>1
        <4>. QED
          BY <1>5, <3>2, <4>1, <4>2
      <3>. QED
        BY <1>3, <2>3, <3>1, <3>2
    <2>. QED
      BY <1>2, <2>1, <2>2, <2>3 DEF NoSmaller
  <1>. QED
    BY <1>4, <1>5

\* The smaller child moves up.
LEMMA DownMoves ==
  ASSUME NEW V, NEW d \in Seq(Elements(V)), Len(d) >= 1, NEW r \in Nat, NEW D, NEW i,
         DownAt(V, d, r, D, i), NEW c \in 2 .. Len(d), c \div 2 = i, c > i,
         NoSmaller(D, Len(d), i, c),
         D[c].key <= d[Len(d)].key, NEW e, e = With(D, i, D[c])
  PROVE  DownAt(V, d, r + 1, e, c)
  <1>. DEFINE n == Len(d)
              x == d[Len(d)]
  <1>0. n \in Nat /\ n >= 1 /\ x.key \in Int
    BY QueueOK
  <1>1. /\ D \in Seq(Elements(V)) /\ Len(D) = n /\ i \in 1 .. n /\ D[n] = x
        /\ HeapAround(D, n, i) /\ Others(D, n, i) = Others(d, n, 1)
        /\ i > r \/ \A j \in 2 .. n : j \div 2 = i => x.key < D[j].key
    BY DEF DownAt
  <1>2. /\ c \in 2 .. n /\ c \in 1 .. n /\ D[c].key <= x.key
        /\ \A j \in 2 .. n : j \div 2 = i => D[c].key <= D[j].key
    BY <1>0 DEF NoSmaller
  <1>. HIDE DEF n, x
  <1>3. \A j \in 1 .. n : D[j].key \in Int
    BY <1>1, QueueOK
  <1>4. c > r + 1
    <2>1. D[c].key \in Int
      BY <1>2, <1>3
    <2>2. i > r
      BY <1>0, <1>1, <1>2, <2>1
    <2>. QED
      BY <1>1, <1>2, <2>2
  <1>5. /\ e \in Seq(Elements(V)) /\ Len(e) = n
        /\ e[i] = D[c] /\ \A j \in 1 .. n : j # i => e[j] = D[j]
        /\ Others(e, n, c) = Others(D, n, i)
    <2>1. c # i /\ n = Len(D)
      BY <1>0, <1>1, <1>2
    <2>2. Moves(V, D, n, i, c, e)
      BY <1>1, <1>2, <2>1 DEF Moves
    <2>3. Differs(V, D, n, i, D[c], e) /\ Others(e, n, c) = Others(D, n, i)
      BY <2>2, MoveHole
    <2>. QED
      BY <2>3 DEF Differs
  <1>6. e[n] = x
    <2>1. i # n /\ n \in 1 .. n
      BY <1>0, <1>1, <1>2
    <2>. QED
      BY <1>1, <1>5, <2>1
  <1>7. ASSUME NEW j \in 2 .. n, j # c, j \div 2 # c PROVE e[j \div 2].key <= e[j].key
    <2>. DEFINE q == j \div 2
    <2>1. q \in 1 .. n /\ j \in 1 .. n /\ q = j \div 2 /\ q < j
      BY <1>0, Half
    <2>. HIDE DEF q
    <2>2. CASE q = i
      <3>1. D[c].key <= D[j].key /\ j # i
        BY <1>2, <2>1, <2>2
      <3>. QED
        BY <1>5, <2>1, <2>2, <3>1
    <2>3. CASE j = i
      <3>1. \A m \in 2 .. n : m \div 2 = i => D[i \div 2].key <= D[m].key
        BY <1>1, <2>3 DEF HeapAround
      <3>2. D[q].key <= D[c].key
        BY <1>2, <2>1, <2>3, <3>1
      <3>. QED
        BY <1>5, <2>1, <2>3, <3>2
    <2>4. CASE q # i /\ j # i
      <3>1. D[q].key <= D[j].key
        BY <1>1, <2>1, <2>4 DEF HeapAround
      <3>. QED
        BY <1>5, <2>1, <2>4, <3>1
    <2>. QED
      BY <2>2, <2>3, <2>4
  <1>8. ASSUME NEW j \in 2 .. n, j \div 2 = c PROVE e[c \div 2].key <= e[j].key
    <2>1. j # i /\ j \in 1 .. n /\ c # i
      BY <1>0, <1>1, <1>2, <1>8, Half
    <2>2. D[c].key <= D[j].key
      <3>1. \A m \in 2 .. n : m # i /\ m \div 2 # i => D[m \div 2].key <= D[m].key
        BY <1>1 DEF HeapAround
      <3>. QED
        BY <1>8, <2>1, <3>1
    <2>. QED
      BY <1>5, <2>1, <2>2
  <1>9. HeapAround(e, n, c)
    BY <1>7, <1>8 DEF HeapAround
  <1>10. e[c \div 2].key <= x.key
    BY <1>2, <1>5
  <1>. QED
    BY <1>1, <1>2, <1>4, <1>5, <1>6, <1>9, <1>10 DEF DownAt, n, x

\* A round of the loop
LEMMA DownRoundOK ==
  ASSUME NEW V, NEW d \in Seq(Elements(V)), Len(d) >= 1, NEW r \in Nat,
         NEW s \in HoleStates(V), DownAt(V, d, r, s.data, s.i)
  PROVE  /\ DownRound(s, Len(d)) \in HoleStates(V)
         /\ DownAt(V, d, r + 1, DownRound(s, Len(d)).data, DownRound(s, Len(d)).i)
  <1>. DEFINE n == Len(d)
              D == s.data
              i == s.i
              c == SmallerChild(D, n, i)
              e == With(D, i, D[c])
  <1>0. /\ n \in Nat /\ n >= 1 /\ d[n].key \in Int
        /\ D \in Seq(Elements(V)) /\ n = Len(D) /\ i \in 1 .. n /\ D[n] = d[n]
    BY QueueOK DEF DownAt
  <1>1. \A j \in 1 .. n : D[j].key \in Int
    BY <1>0, QueueOK
  <1>2. CASE ~(i <= n \div 2)
    <2>1. DownRound(s, n) = s
      BY <1>2 DEF DownRound
    <2>2. ASSUME NEW j \in 2 .. n, j \div 2 = i PROVE FALSE
      <3>1. i \in Nat /\ j \in Nat /\ j <= n /\ j >= 1
        BY <1>0
      <3>2. ~(2 * i <= n)
        BY <1>0, <1>2, <3>1, HasChild
      <3>3. 2 * (j \div 2) <= j
        BY <3>1, Half
      <3>. HIDE DEF n, i
      <3>. QED
        BY <1>0, <2>2, <3>1, <3>2, <3>3
    <2>3. DownAt(V, d, r + 1, D, i)
      BY <2>2 DEF DownAt
    <2>. QED
      BY <2>1, <2>3
  <1>3. CASE i <= n \div 2
    <2>1. /\ c \in 2 .. n /\ c \div 2 = i /\ c > i
          /\ NoSmaller(D, n, i, c)
      BY <1>0, <1>3, SmallerChildOK
    <2>2. 2 * i <= n /\ i \in Nat /\ i >= 1
      <3>1. i \in Nat /\ i >= 1
        BY <1>0
      <3>. QED
        BY <1>0, <1>3, <3>1, HasChild
    <2>3. D[2 * i].key \in Int /\ D[c].key \in Int /\ D[n].key \in Int
      <3>1. 2 * i \in 1 .. n /\ c \in 1 .. n /\ n \in 1 .. n
        BY <1>0, <2>1, <2>2
      <3>. QED
        BY <1>1, <3>1
    <2>4. 2 * i < n => D[2 * i + 1].key \in Int
      <3>1. 2 * i < n => 2 * i + 1 \in 1 .. n
        BY <1>0, <2>2
      <3>. QED
        BY <1>1, <3>1
    <2>5. DownRound(s, n) = IF D[c].key <= D[n].key THEN [data |-> e, i |-> c] ELSE s
      <3>1. CASE 2 * i < n /\ D[2 * i + 1].key < D[2 * i].key
        <4>1. c = 2 * i + 1
          BY <3>1 DEF SmallerChild
        <4>2. pqueue_compare(D[2 * i].key, D[2 * i + 1].key) < 0
          BY <2>3, <2>4, <3>1 DEF pqueue_compare
        <4>3. pqueue_compare(D[c].key, D[n].key) >= 0 <=> D[c].key <= D[n].key
          BY <2>3 DEF pqueue_compare
        <4>. HIDE DEF c
        <4>. QED
          BY <1>3, <3>1, <4>1, <4>2, <4>3 DEF DownRound, With
      <3>2. CASE ~(2 * i < n /\ D[2 * i + 1].key < D[2 * i].key)
        <4>1. c = 2 * i
          BY <3>2 DEF SmallerChild
        <4>2. ~(2 * i < n /\ pqueue_compare(D[2 * i].key, D[2 * i + 1].key) < 0)
          BY <2>3, <2>4, <3>2 DEF pqueue_compare
        <4>3. pqueue_compare(D[c].key, D[n].key) >= 0 <=> D[c].key <= D[n].key
          BY <2>3 DEF pqueue_compare
        <4>. HIDE DEF c
        <4>. QED
          BY <1>3, <3>2, <4>1, <4>2, <4>3 DEF DownRound, With
      <3>. QED
        BY <3>1, <3>2
    <2>. HIDE DEF c
    <2>6. CASE D[c].key <= D[n].key
      <3>1. DownRound(s, n) = [data |-> e, i |-> c]
        BY <2>5, <2>6
      <3>2. D[c].key <= d[n].key
        BY <1>0, <2>6
      <3>. HIDE DEF e
      <3>3. DownAt(V, d, r + 1, e, c)
        BY <2>1, <3>2, DownMoves DEF e
      <3>4. e \in Seq(Elements(V)) /\ c \in Nat
        BY <2>1, <3>3 DEF DownAt
      <3>. QED
        BY <3>1, <3>3, <3>4 DEF HoleStates
    <2>7. CASE ~(D[c].key <= D[n].key)
      <3>1. DownRound(s, n) = s
        BY <2>5, <2>7
      <3>2. ASSUME NEW j \in 2 .. n, j \div 2 = i PROVE d[n].key < D[j].key
        <4>1. D[c].key <= D[j].key /\ D[j].key \in Int
          BY <1>1, <2>1, <3>2 DEF NoSmaller
        <4>. QED
          BY <1>0, <2>3, <2>7, <4>1
      <3>3. DownAt(V, d, r + 1, D, i)
        BY <3>2 DEF DownAt
      <3>. QED
        BY <3>1, <3>3
    <2>. QED
      BY <2>6, <2>7
  <1>. QED
    BY <1>2, <1>3

\* The first place is empty at first.
LEMMA DownStarts ==
  ASSUME NEW V, NEW d \in Seq(Elements(V)), Len(d) >= 1, IsHeap(d)
  PROVE  DownAt(V, d, 0, d, 1)
  <1>1. Len(d) \in Nat /\ Len(d) >= 1
    BY QueueOK
  <1>2. HeapAround(d, Len(d), 1)
    BY DEF HeapAround, IsHeap
  <1>. QED
    BY <1>1, <1>2 DEF DownAt

\* The loop has ended, and the last element is put into the hole.
LEMMA DownFills ==
  ASSUME NEW V, NEW d \in Seq(Elements(V)), Len(d) >= 1, NEW D, NEW i,
         DownAt(V, d, Len(d), D, i), NEW e, e = With(D, i, d[Len(d)])
  PROVE  Differs(V, D, Len(d), i, d[Len(d)], e) /\ IsHeap(e)
  <1>. DEFINE n == Len(d)
              x == d[Len(d)]
  <1>0. n \in Nat /\ n >= 1
    BY QueueOK
  <1>1. n \in 1 .. n
    BY <1>0
  <1>2. x \in Elements(V) /\ x.key \in Int
    BY <1>1, QueueOK
  <1>3. /\ D \in Seq(Elements(V)) /\ n = Len(D) /\ i \in 1 .. n
        /\ HeapAround(D, n, i)
        /\ i > 1 => D[i \div 2].key <= x.key
    BY DEF DownAt
  <1>4. \A j \in 2 .. n : j \div 2 = i => x.key <= D[j].key
    <2>1. ~(i > n)
      BY <1>0, <1>3
    <2>2. \A j \in 2 .. n : j \div 2 = i => x.key < D[j].key
      BY <2>1 DEF DownAt
    <2>3. \A j \in 2 .. n : D[j].key \in Int
      BY <1>0, <1>3, QueueOK
    <2>. HIDE DEF n, x
    <2>. QED
      BY <1>2, <2>2, <2>3
  <1>5. e = With(D, i, x)
    OBVIOUS
  <1>. HIDE DEF n, x
  <1>6. Fills(V, D, n, i, x, e)
    BY <1>2, <1>3, <1>4, <1>5 DEF Fills
  <1>7. Differs(V, D, n, i, x, e) /\ IsHeap(e)
    BY <1>6, FillHole
  <1>. QED
    BY <1>7 DEF n, x

\* e with one element less than n
Shorter(e, n) == SubSeq(e, 1, n - 1)

\* The queue without its first element
LEMMA DownEnds ==
  ASSUME NEW V, NEW d \in Seq(Elements(V)), Len(d) >= 1, NEW D, NEW i,
         DownAt(V, d, Len(d), D, i), NEW e, e = With(D, i, d[Len(d)]),
         NEW f, f = Shorter(e, Len(d))
  PROVE  /\ f \in Seq(Elements(V)) /\ Len(f) = Len(d) - 1 /\ IsHeap(f)
         /\ ToSet(f) = Others(d, Len(d), 1)
  <1>. DEFINE n == Len(d)
              x == d[Len(d)]
  <1>0. n \in Nat /\ n >= 1
    BY QueueOK
  <1>1. n \in 1 .. n
    BY <1>0
  <1>2. /\ n = Len(D) /\ i \in 1 .. n /\ D[n] = x
        /\ Others(D, n, i) = Others(d, n, 1)
    BY DEF DownAt
  <1>3. f = SubSeq(e, 1, n - 1)
    BY DEF Shorter
  <1>4. /\ e \in Seq(Elements(V)) /\ Len(e) = n /\ IsHeap(e)
        /\ e[i] = x /\ \A j \in 1 .. n : j # i => e[j] = D[j]
    <2>1. Differs(V, D, n, i, x, e) /\ IsHeap(e)
      BY DownFills
    <2>. QED
      BY <2>1 DEF Differs
  <1>. HIDE DEF n, x
  <1>5. /\ f \in Seq(Elements(V)) /\ Len(f) = n - 1
        /\ \A j \in 1 .. n - 1 : f[j] = e[j]
    <2>1. \A j \in 1 .. n - 1 : e[j] \in Elements(V)
      BY <1>0, <1>4, QueueOK
    <2>2. f = [j \in 1 .. n - 1 |-> e[j]]
      BY <1>0, <1>3, <1>4, SubSeqProperties
    <2>3. n - 1 \in Nat
      BY <1>0
    <2>4. f \in Seq(Elements(V))
      BY <2>1, <2>2, <2>3
    <2>5. Len(f) = n - 1
      BY <2>2, <2>3
    <2>. QED
      BY <2>2, <2>4, <2>5
  <1>6. IsHeap(f)
    <2>. SUFFICES ASSUME NEW j \in 2 .. n - 1 PROVE f[j \div 2].key <= f[j].key
      BY <1>5 DEF IsHeap
    <2>1. j \div 2 \in 1 .. n - 1 /\ j \in 1 .. n - 1 /\ j \in 2 .. n
      BY <1>0, Half
    <2>2. e[j \div 2].key <= e[j].key
      BY <1>4, <2>1 DEF IsHeap
    <2>. QED
      BY <1>5, <2>1, <2>2
  <1>7. ToSet(f) = {e[j] : j \in 1 .. n - 1}
    <2>1. DOMAIN f = 1 .. n - 1
      BY <1>5, QueueOK
    <2>. QED
      BY <1>5, <2>1 DEF ToSet
  <1>8. {e[j] : j \in 1 .. n - 1} = Others(D, n, i)
    <2>1. ASSUME NEW j \in 1 .. n - 1 PROVE \E k \in (1 .. n) \ {i} : e[j] = D[k]
      <3>1. j \in 1 .. n /\ j # n
        BY <1>0
      <3>2. CASE j = i
        BY <1>1, <1>2, <1>4, <3>1, <3>2
      <3>3. CASE j # i
        BY <1>4, <3>1, <3>3
      <3>. QED
        BY <3>2, <3>3
    <2>2. ASSUME NEW k \in (1 .. n) \ {i} PROVE \E j \in 1 .. n - 1 : D[k] = e[j]
      <3>1. CASE k = n
        <4>1. i \in 1 .. n - 1
          BY <1>0, <1>2, <3>1
        <4>. QED
          BY <1>2, <1>4, <3>1, <4>1
      <3>2. CASE k # n
        <4>1. k \in 1 .. n - 1
          BY <1>0, <3>2
        <4>. QED
          BY <1>4, <4>1
      <3>. QED
        BY <3>1, <3>2
    <2>3. {e[j] : j \in 1 .. n - 1} \subseteq Others(D, n, i)
      BY <2>1 DEF Others
    <2>4. Others(D, n, i) \subseteq {e[j] : j \in 1 .. n - 1}
      BY <2>2 DEF Others
    <2>. QED
      BY <2>3, <2>4
  <1>. QED
    BY <1>2, <1>5, <1>6, <1>7, <1>8 DEF n

\* pqueue_remove_top
LEMMA RemoveOK ==
  ASSUME NEW V, NEW d \in Seq(Elements(V)), IsHeap(d), Len(d) >= 1
  PROVE  LET f == pqueue_remove_top(d)
         IN  /\ f \in Seq(Elements(V)) /\ Len(f) = Len(d) - 1 /\ IsHeap(f)
             /\ ToSet(f) = Others(d, Len(d), 1)
  <1>. DEFINE N == Len(d)
              x == [data |-> d, i |-> 1]
              X == HoleStates(V)
              Good(n, s) == DownAt(V, d, n, s.data, s.i)
              G == [n \in 0 .. N |-> {s \in X : Good(n, s)}]
              g == [p \in (1 .. N) \X X |-> DownRound(p[2], Len(d))]
              Eq(h) == h = [n \in 0 .. Len(d) |-> IF n = 0 THEN x ELSE DownRound(h[n - 1], Len(d))]
              after[n \in 0 .. Len(d)] ==
                IF n = 0 THEN [data |-> d, i |-> 1] ELSE DownRound(after[n - 1], Len(d))
  <1>0. N \in Nat
    BY QueueOK
  <1>1. x \in X /\ Good(0, x)
    <2>1. DownAt(V, d, 0, x.data, x.i)
      BY DownStarts
    <2>2. x.data \in Seq(Elements(V)) /\ x.i \in Nat
      BY <1>0, <2>1 DEF DownAt
    <2>. QED
      BY <2>1, <2>2 DEF HoleStates
  <1>2. ASSUME NEW n \in 1 .. N, NEW s \in X, Good(n - 1, s)
        PROVE  DownRound(s, Len(d)) \in X /\ Good(n, DownRound(s, Len(d)))
    <2>1. n - 1 \in Nat /\ (n - 1) + 1 = n
      BY <1>0
    <2>. QED
      BY <1>2, <2>1, DownRoundOK
  <1>. HIDE DEF X, Good, x
  <1>3. ASSUME NEW n \in 1 .. N, NEW s \in G[n - 1]
        PROVE  s \in X /\ DownRound(s, Len(d)) \in G[n]
    <2>1. n - 1 \in 0 .. N /\ n \in 0 .. N
      BY <1>0
    <2>2. s \in X /\ Good(n - 1, s)
      BY <2>1
    <2>3. DownRound(s, Len(d)) \in X /\ Good(n, DownRound(s, Len(d)))
      BY <1>2, <2>2
    <2>. QED
      BY <2>1, <2>2, <2>3
  <1>4. x \in G[0]
    BY <1>0, <1>1
  <1>5. PICK f : Recurs(f, N, x, G, g)
    <2>1. G \in [0 .. N -> SUBSET X]
      OBVIOUS
    <2>2. ASSUME NEW n \in 1 .. N, NEW s \in G[n - 1] PROVE g[<<n, s>>] \in G[n]
      <3>1. g[<<n, s>>] = DownRound(s, Len(d))
        BY <1>3
      <3>. QED
        BY <1>3, <3>1
    <2>. HIDE DEF G, g, N
    <2>3. Steps(N, x, G, g)
      BY <1>0, <1>4, <2>2 DEF Steps
    <2>. QED
      BY <2>1, <2>3, Recursion
  <1>6. Eq(f)
    <2>1. ASSUME NEW n \in 1 .. N PROVE f[n] = DownRound(f[n - 1], Len(d))
      <3>1. n - 1 \in 0 .. N
        BY <1>0
      <3>2. f[n] = g[<<n, f[n - 1]>>] /\ f[n - 1] \in G[n - 1]
        <4>. HIDE DEF G, g, N
        <4>. QED
          BY <1>5, <3>1 DEF Recurs
      <3>3. f[n - 1] \in X
        BY <3>1, <3>2
      <3>. QED
        BY <3>2, <3>3
    <2>2. f[0] = x /\ f = [n \in 0 .. N |-> f[n]]
      <3>. HIDE DEF G, g, N
      <3>. QED
        BY <1>5 DEF Recurs
    <2>3. \A n \in 0 .. N : n = 0 \/ n \in 1 .. N
      BY <1>0
    <2>. HIDE DEF G, g
    <2>. QED
      BY <2>1, <2>2, <2>3
  <1>7. Eq(after)
    <2>1. after = CHOOSE h : Eq(h)
      BY DEF x
    <2>. HIDE DEF Eq, after
    <2>. QED
      BY <1>6, <2>1
  <1>. HIDE DEF after
  <1>8. after[0] = x /\ \A n \in 1 .. N : after[n] = DownRound(after[n - 1], Len(d))
    <2>1. after[0] = x
      BY <1>0, <1>7
    <2>2. ASSUME NEW n \in 1 .. N PROVE after[n] = DownRound(after[n - 1], Len(d))
      <3>1. n \in 0 .. Len(d) /\ n # 0
        BY <1>0
      <3>. QED
        BY <1>7, <3>1
    <2>. QED
      BY <2>1, <2>2
  <1>9. after[N] \in X /\ Good(N, after[N])
    <2>1. \A n \in 1 .. N : after[n - 1] \in G[n - 1] => after[n] \in G[n]
      BY <1>3, <1>8
    <2>2. after[0] \in G[0]
      BY <1>4, <1>8
    <2>3. \A n \in 0 .. N : after[n] \in G[n]
      <3>. HIDE DEF G, N
      <3>. QED
        BY <1>0, <2>1, <2>2, RecursionStays
    <2>4. N \in 0 .. N
      BY <1>0
    <2>. HIDE DEF N
    <2>5. after[N] \in G[N]
      BY <2>3, <2>4
    <2>. QED
      BY <2>4, <2>5
  <1>. DEFINE s == after[Len(d)]
              e == With(s.data, s.i, d[Len(d)])
              q == Shorter(e, Len(d))
  <1>10. pqueue_remove_top(d) = q
    BY DEF pqueue_remove_top, after, With, Shorter
  <1>11. DownAt(V, d, Len(d), s.data, s.i)
    BY <1>9 DEF Good
  <1>12. e = With(s.data, s.i, d[Len(d)]) /\ q = Shorter(e, Len(d))
    OBVIOUS
  <1>. HIDE DEF s, e, q
  <1>13. /\ q \in Seq(Elements(V)) /\ Len(q) = Len(d) - 1 /\ IsHeap(q)
         /\ ToSet(q) = Others(d, Len(d), 1)
    BY <1>11, <1>12, DownEnds
  <1>. QED
    BY <1>10, <1>13

\* The first element of a heap is one with the smallest key.
LEMMA TopIsLeast ==
  ASSUME NEW V, NEW d \in Seq(Elements(V)), IsHeap(d)
  PROVE  \A j \in 1 .. Len(d) : d[1].key <= d[j].key
  <1>. DEFINE n == Len(d)
              T == {j \in 1 .. n : ~(d[1].key <= d[j].key)}
  <1>0. n \in Nat /\ \A j \in 1 .. n : d[j].key \in Int
    BY QueueOK
  <1>. SUFFICES ASSUME T # {} PROVE FALSE
    OBVIOUS
  <1>1. PICK j \in T : \A k \in T : ~(<<k, j>> \in OpToRel(<, Nat))
    <2>1. T \subseteq Nat
      BY <1>0
    <2>. HIDE DEF T
    <2>. QED
      BY <2>1, NatLessThanWellFounded, WFMin
  <1>2. j \in 1 .. n /\ j # 1 /\ 1 \in 1 .. n
    BY <1>0
  <1>3. j \in 2 .. n /\ j \div 2 \in 1 .. n /\ j \div 2 < j
    BY <1>0, <1>2, Half
  <1>4. j \div 2 \notin T
    <2>. DEFINE k == j \div 2
    <2>1. k \in Nat /\ j \in Nat /\ k < j
      BY <1>0, <1>3
    <2>2. <<k, j>> \in OpToRel(<, Nat)
      <3>. HIDE DEF k
      <3>. QED
        BY <2>1 DEF OpToRel
    <2>. HIDE DEF k, T
    <2>3. k \notin T
      BY <1>1, <2>2
    <2>. QED
      BY <2>3 DEF k
  <1>5. d[1].key <= d[j \div 2].key
    BY <1>3, <1>4
  <1>6. d[j \div 2].key <= d[j].key
    BY <1>3 DEF IsHeap
  <1>7. d[1].key \in Int /\ d[j].key \in Int /\ d[j \div 2].key \in Int
    BY <1>0, <1>2, <1>3
  <1>8. ~(d[1].key <= d[j].key)
    OBVIOUS
  <1>. HIDE DEF T
  <1>. QED
    BY <1>5, <1>6, <1>7, <1>8

\* lib/pqueue.c, for heaps of every size and shape, keys and values:
\* pqueue_insert and pqueue_remove_top make a heap of a heap again; the first
\* is longer by the new element, the second shorter by the element that it
\* returns, which is one with the smallest key; no other element is lost or
\* made up on the way of the hole.
THEOREM QueueIsExact ==
  ASSUME NEW V, NEW data \in Seq(Elements(V)), IsHeap(data)
  PROVE  /\ \A key \in Int, value \in V :
              LET added == pqueue_insert(data, key, value)
              IN  /\ added \in Seq(Elements(V)) /\ IsHeap(added)
                  /\ Len(added) = Len(data) + 1
                  /\ ToSet(added) = ToSet(data) \cup {Node(key, value)}
         /\ Len(data) >= 1 =>
              LET removed == pqueue_remove_top(data)
              IN  /\ removed \in Seq(Elements(V)) /\ IsHeap(removed)
                  /\ Len(removed) = Len(data) - 1
                  /\ ToSet(removed) = {data[j] : j \in 2 .. Len(data)}
                  /\ \A j \in 2 .. Len(data) : data[1].key <= data[j].key
  <1>1. ASSUME NEW key \in Int, NEW value \in V
        PROVE  LET added == pqueue_insert(data, key, value)
               IN  /\ added \in Seq(Elements(V)) /\ IsHeap(added)
                   /\ Len(added) = Len(data) + 1
                   /\ ToSet(added) = ToSet(data) \cup {Node(key, value)}
    BY InsertOK
  <1>2. ASSUME Len(data) >= 1
        PROVE  LET removed == pqueue_remove_top(data)
               IN  /\ removed \in Seq(Elements(V)) /\ IsHeap(removed)
                   /\ Len(removed) = Len(data) - 1
                   /\ ToSet(removed) = {data[j] : j \in 2 .. Len(data)}
                   /\ \A j \in 2 .. Len(data) : data[1].key <= data[j].key
    <2>. DEFINE removed == pqueue_remove_top(data)
    <2>1. /\ removed \in Seq(Elements(V)) /\ Len(removed) = Len(data) - 1
          /\ IsHeap(removed) /\ ToSet(removed) = Others(data, Len(data), 1)
      BY <1>2, RemoveOK
    <2>2. \A j \in 1 .. Len(data) : data[1].key <= data[j].key
      BY TopIsLeast
    <2>3. Len(data) \in Nat
      BY QueueOK
    <2>4. (1 .. Len(data)) \ {1} = 2 .. Len(data)
      BY <2>3
    <2>5. Others(data, Len(data), 1) = {data[j] : j \in 2 .. Len(data)}
      BY <2>4 DEF Others
    <2>6. \A j \in 2 .. Len(data) : data[1].key <= data[j].key
      BY <2>2, <2>3
    <2>. HIDE DEF removed
    <2>7. /\ removed \in Seq(Elements(V)) /\ IsHeap(removed)
          /\ Len(removed) = Len(data) - 1
          /\ ToSet(removed) = {data[j] : j \in 2 .. Len(data)}
      BY <2>1, <2>5
    <2>. QED
      BY <2>6, <2>7 DEF removed
  <1>. QED
    BY <1>1, <1>2

\* What the run jit_registers evaluates for queues of up to seven nodes holds
\* for queues of every length: neither operation of lib/pqueue.c loses or
\* repeats a node, or breaks the order of the heap.
THEOREM HeapIsKeptAlways ==
  ASSUME NEW max \in Nat
  PROVE  HeapIsKept(max)
  <1>. SUFFICES ASSUME NEW n \in 0 .. max, NEW keys \in [1 .. n -> 0 .. 3]
                PROVE  LET data == [i \in 1 .. n |-> Node(keys[i], i)]
                           removed == pqueue_remove_top(data)
                       IN  IsHeap(data) =>
                             /\ \A key \in 0 .. 3 :
                                  LET added == pqueue_insert(data, key, 0)
                                  IN  /\ IsHeap(added) /\ Len(added) = n + 1
                                      /\ ToSet(added) = ToSet(data) \cup {Node(key, 0)}
                             /\ n > 0 => /\ IsHeap(removed) /\ Len(removed) = n - 1
                                         /\ ToSet(removed) = ToSet(data) \ {data[1]}
    BY DEF HeapIsKept
  <1>. DEFINE data == [i \in 1 .. n |-> Node(keys[i], i)]
  <1>1. data \in Seq(Elements(Nat)) /\ Len(data) = n /\ DOMAIN data = 1 .. n /\ n \in Nat
    <2>1. \A i \in 1 .. n : Node(keys[i], i) \in Elements(Nat)
      BY DEF Node, Elements
    <2>. QED
      BY <2>1
  <1>2. \A i \in 1 .. n : data[i].value = i
    BY DEF Node
  <1>. HIDE DEF data
  <1>. SUFFICES ASSUME IsHeap(data)
                PROVE  /\ \A key \in 0 .. 3 :
                            /\ IsHeap(pqueue_insert(data, key, 0))
                            /\ Len(pqueue_insert(data, key, 0)) = n + 1
                            /\ ToSet(pqueue_insert(data, key, 0)) = ToSet(data) \cup {Node(key, 0)}
                       /\ n > 0 => /\ IsHeap(pqueue_remove_top(data))
                                   /\ Len(pqueue_remove_top(data)) = n - 1
                                   /\ ToSet(pqueue_remove_top(data)) = ToSet(data) \ {data[1]}
    BY DEF data
  <1>3. ASSUME NEW key \in 0 .. 3
        PROVE  /\ IsHeap(pqueue_insert(data, key, 0))
               /\ Len(pqueue_insert(data, key, 0)) = n + 1
               /\ ToSet(pqueue_insert(data, key, 0)) = ToSet(data) \cup {Node(key, 0)}
    <2>1. key \in Int /\ 0 \in Nat
      OBVIOUS
    <2>. QED
      BY <1>1, <2>1, InsertOK
  <1>4. ASSUME n > 0
        PROVE  /\ IsHeap(pqueue_remove_top(data))
               /\ Len(pqueue_remove_top(data)) = n - 1
               /\ ToSet(pqueue_remove_top(data)) = ToSet(data) \ {data[1]}
    <2>1. Len(data) >= 1
      BY <1>1, <1>4
    <2>2. /\ IsHeap(pqueue_remove_top(data)) /\ Len(pqueue_remove_top(data)) = n - 1
          /\ ToSet(pqueue_remove_top(data)) = Others(data, n, 1)
      BY <1>1, <2>1, RemoveOK
    <2>3. ToSet(data) = {data[j] : j \in 1 .. n}
      BY <1>1 DEF ToSet
    <2>4. ASSUME NEW j \in 1 .. n, j # 1 PROVE data[j] # data[1]
      <3>1. data[j].value = j /\ data[1].value = 1
        BY <1>1, <1>2, <1>4
      <3>. QED
        BY <2>4, <3>1
    <2>5. Others(data, n, 1) = ToSet(data) \ {data[1]}
      BY <2>3, <2>4 DEF Others
    <2>. QED
      BY <2>2, <2>5
  <1>. QED
    BY <1>3, <1>4

-----------------------------------------------------------------------------
(* Fields of an interval                                                   *)

\* Changes of other fields of an interval
LEMMA OtherFields ==
  ASSUME NEW it \in Intervals, NEW n \in Nat, NEW b \in BOOLEAN,
         NEW rs \in Seq(Ranges), NEW u \in SUBSET SUBSET Nat
  PROVE  /\ [it EXCEPT !.expired = rs] \in Intervals
         /\ [it EXCEPT !.uses = u] \in Intervals
         /\ [it EXCEPT !.reg = n] \in Intervals
         /\ [it EXCEPT !.spill = b] \in Intervals
         /\ [it EXCEPT !.reload = b] \in Intervals
         /\ [it EXCEPT !.parent = n] \in Intervals
         /\ [it EXCEPT !.next = n] \in Intervals
         /\ [it EXCEPT !.prev = n] \in Intervals
         /\ [it EXCEPT !.expired = rs].ranges = it.ranges
         /\ [it EXCEPT !.uses = u].ranges = it.ranges
         /\ [it EXCEPT !.reg = n].ranges = it.ranges
         /\ [it EXCEPT !.spill = b].ranges = it.ranges
         /\ [it EXCEPT !.reload = b].ranges = it.ranges
         /\ [it EXCEPT !.parent = n].ranges = it.ranges
         /\ [it EXCEPT !.next = n].ranges = it.ranges
         /\ [it EXCEPT !.prev = n].ranges = it.ranges
  <1>1. [it EXCEPT !.expired = rs] \in Intervals /\ [it EXCEPT !.expired = rs].ranges = it.ranges
    BY DEF Intervals
  <1>2. [it EXCEPT !.uses = u] \in Intervals /\ [it EXCEPT !.uses = u].ranges = it.ranges
    BY DEF Intervals
  <1>3. [it EXCEPT !.reg = n] \in Intervals /\ [it EXCEPT !.reg = n].ranges = it.ranges
    BY DEF Intervals
  <1>4. [it EXCEPT !.spill = b] \in Intervals /\ [it EXCEPT !.spill = b].ranges = it.ranges
    BY DEF Intervals
  <1>5. [it EXCEPT !.reload = b] \in Intervals /\ [it EXCEPT !.reload = b].ranges = it.ranges
    BY DEF Intervals
  <1>6. [it EXCEPT !.parent = n] \in Intervals /\ [it EXCEPT !.parent = n].ranges = it.ranges
    BY DEF Intervals
  <1>7. [it EXCEPT !.next = n] \in Intervals /\ [it EXCEPT !.next = n].ranges = it.ranges
    BY DEF Intervals
  <1>8. [it EXCEPT !.prev = n] \in Intervals /\ [it EXCEPT !.prev = n].ranges = it.ranges
    BY DEF Intervals
  <1>. QED
    BY <1>1, <1>2, <1>3, <1>4, <1>5, <1>6, <1>7, <1>8

-----------------------------------------------------------------------------
(* Folding a finite set                                                    *)

\* The element that FoldSet takes next
Chosen(s) == CHOOSE x \in s : TRUE

\* h is the iteration of FoldSet over the subsets of S with a function g.
Folds(h, S, x0, g) ==
  \A s \in SUBSET S : h[s] = IF s = {} THEN x0 ELSE g[<<Chosen(s), h[s \ {Chosen(s)}]>>]

\* The subsets with at most n elements
Small(S, n) == {s \in SUBSET S : Cardinality(s) <= n}

\* The subsets of a finite set
LEMMA SmallOK ==
  ASSUME NEW S, IsFiniteSet(S)
  PROVE  /\ Small(S, 0) = {{}}
         /\ Cardinality(S) \in Nat /\ Small(S, Cardinality(S)) = SUBSET S
         /\ \A n \in Nat : Small(S, n) \subseteq Small(S, n + 1)
         /\ \A n \in Nat : \A s \in Small(S, n + 1) :
              s # {} => Chosen(s) \in s /\ Chosen(s) \in S /\ s \ {Chosen(s)} \in Small(S, n)
  <1>1. \A s \in SUBSET S : IsFiniteSet(s) /\ Cardinality(s) \in Nat /\ Cardinality(s) <= Cardinality(S)
    BY FS_Subset, FS_CardinalityType
  <1>2. Cardinality(S) \in Nat
    BY FS_CardinalityType
  <1>3. Small(S, 0) = {{}}
    <2>1. \A s \in SUBSET S : Cardinality(s) <= 0 <=> s = {}
      BY <1>1, FS_EmptySet
    <2>. QED
      BY <2>1 DEF Small
  <1>4. Small(S, Cardinality(S)) = SUBSET S
    BY <1>1 DEF Small
  <1>5. ASSUME NEW n \in Nat PROVE Small(S, n) \subseteq Small(S, n + 1)
    BY <1>1 DEF Small
  <1>6. ASSUME NEW n \in Nat, NEW s \in Small(S, n + 1), s # {}
        PROVE  Chosen(s) \in s /\ Chosen(s) \in S /\ s \ {Chosen(s)} \in Small(S, n)
    <2>1. s \in SUBSET S /\ Cardinality(s) <= n + 1 /\ IsFiniteSet(s) /\ Cardinality(s) \in Nat
      BY <1>1 DEF Small
    <2>2. Chosen(s) \in s
      BY <1>6 DEF Chosen
    <2>3. Cardinality(s \ {Chosen(s)}) = Cardinality(s) - 1
      BY <2>1, <2>2, FS_RemoveElement
    <2>4. s \ {Chosen(s)} \in SUBSET S
      BY <2>1
    <2>5. Cardinality(s \ {Chosen(s)}) <= n
      BY <2>1, <2>3
    <2>6. s \ {Chosen(s)} \in Small(S, n)
      BY <2>4, <2>5 DEF Small
    <2>. QED
      BY <2>1, <2>2, <2>6
  <1>. QED
    BY <1>2, <1>3, <1>4, <1>5, <1>6

\* The iteration of a fold exists.
LEMMA FoldExists ==
  ASSUME NEW S, IsFiniteSet(S), NEW X, NEW x0 \in X, NEW g \in [S \X X -> X]
  PROVE  \E h \in [SUBSET S -> X] : Folds(h, S, x0, g)
  <1>. DEFINE Good(h, n) ==
                \A s \in Small(S, n) :
                  h[s] = IF s = {} THEN x0 ELSE g[<<Chosen(s), h[s \ {Chosen(s)}]>>]
              T == {n \in Nat : \E h \in [Small(S, n) -> X] : Good(h, n)}
  <1>1. 0 \in T
    <2>. DEFINE h == [s \in Small(S, 0) |-> x0]
    <2>1. h \in [Small(S, 0) -> X] /\ Good(h, 0)
      BY SmallOK
    <2>. QED
      BY <2>1
  <1>2. ASSUME NEW n \in Nat, n \in T PROVE n + 1 \in T
    <2>1. PICK h \in [Small(S, n) -> X] : Good(h, n)
      BY <1>2
    <2>. DEFINE k == [s \in Small(S, n + 1) |->
                        IF s = {} THEN x0 ELSE g[<<Chosen(s), h[s \ {Chosen(s)}]>>]]
    <2>2. ASSUME NEW s \in Small(S, n + 1), s # {}
          PROVE  g[<<Chosen(s), h[s \ {Chosen(s)}]>>] \in X
      <3>1. Chosen(s) \in S /\ s \ {Chosen(s)} \in Small(S, n)
        BY <2>2, SmallOK
      <3>2. h[s \ {Chosen(s)}] \in X
        BY <3>1
      <3>. QED
        BY <3>1, <3>2
    <2>3. k \in [Small(S, n + 1) -> X]
      BY <2>2
    <2>4. \A s \in Small(S, n) : k[s] = h[s]
      BY <2>1, SmallOK
    <2>5. ASSUME NEW s \in Small(S, n + 1), s # {}
          PROVE  k[s] = g[<<Chosen(s), k[s \ {Chosen(s)}]>>]
      <3>1. s \ {Chosen(s)} \in Small(S, n)
        BY <2>5, SmallOK
      <3>2. k[s \ {Chosen(s)}] = h[s \ {Chosen(s)}]
        BY <2>4, <3>1
      <3>3. k[s] = g[<<Chosen(s), h[s \ {Chosen(s)}]>>]
        BY <2>5
      <3>. HIDE DEF k
      <3>. QED
        BY <3>2, <3>3
    <2>6. ASSUME NEW s \in Small(S, n + 1), s = {} PROVE k[s] = x0
      BY <2>6
    <2>7. Good(k, n + 1)
      <3>. HIDE DEF k
      <3>. QED
        BY <2>5, <2>6
    <2>. HIDE DEF k, Good
    <2>. QED
      BY <2>3, <2>7
  <1>. HIDE DEF T
  <1>3. \A n \in Nat : n \in T
    BY <1>1, <1>2, SetInduction
  <1>4. Cardinality(S) \in T /\ Small(S, Cardinality(S)) = SUBSET S
    BY <1>3, SmallOK
  <1>. QED
    BY <1>4 DEF T, Folds

\* What each round keeps holds in the end.
LEMMA FoldStays ==
  ASSUME NEW S, IsFiniteSet(S), NEW X, NEW h, h[{}] \in X,
         \A s \in SUBSET S : s # {} /\ h[s \ {Chosen(s)}] \in X => h[s] \in X
  PROVE  h[S] \in X
  <1>. DEFINE T == {n \in Nat : \A s \in Small(S, n) : h[s] \in X}
  <1>1. 0 \in T
    BY SmallOK
  <1>2. ASSUME NEW n \in Nat, n \in T PROVE n + 1 \in T
    <2>. SUFFICES ASSUME NEW s \in Small(S, n + 1) PROVE h[s] \in X
      OBVIOUS
    <2>1. CASE s = {}
      BY <2>1
    <2>2. CASE s # {}
      <3>1. s \in SUBSET S /\ s \ {Chosen(s)} \in Small(S, n)
        BY <2>2, SmallOK DEF Small
      <3>2. h[s \ {Chosen(s)}] \in X
        BY <1>2, <3>1
      <3>. QED
        BY <2>2, <3>1, <3>2
    <2>. QED
      BY <2>1, <2>2
  <1>. HIDE DEF T
  <1>3. \A n \in Nat : n \in T
    BY <1>1, <1>2, SetInduction
  <1>4. Cardinality(S) \in T /\ S \in Small(S, Cardinality(S))
    BY <1>3, SmallOK
  <1>. QED
    BY <1>4 DEF T

-----------------------------------------------------------------------------
(* Positions                                                               *)

\* A set of numbers has a least one.
LEMMA MinOfNumbers ==
  ASSUME NEW S \in SUBSET Nat, S # {}
  PROVE  Min(S) \in S /\ \A x \in S : Min(S) <= x
  <1>1. PICK m \in S : \A y \in S : ~(<<y, m>> \in OpToRel(<, Nat))
    BY NatLessThanWellFounded, WFMin
  <1>2. ASSUME NEW y \in S PROVE m <= y
    <2>1. m \in Nat /\ y \in Nat
      OBVIOUS
    <2>2. ~(y < m)
      BY <1>1, <2>1 DEF OpToRel
    <2>. QED
      BY <2>1, <2>2
  <1>3. \E x \in S : \A y \in S : x <= y
    BY <1>2
  <1>. QED
    BY <1>3 DEF Min

\* The least of some numbers, or Infinity
LEMMA MinOrInfinity ==
  ASSUME NEW S \in SUBSET Nat
  PROVE  LET m == Min(S \cup {Infinity})
         IN  m \in Nat /\ m <= Infinity /\ (m # Infinity => m \in S)
  <1>1. S \cup {Infinity} \in SUBSET Nat /\ S \cup {Infinity} # {}
    BY DEF Infinity
  <1>2. /\ Min(S \cup {Infinity}) \in S \cup {Infinity}
        /\ \A x \in S \cup {Infinity} : Min(S \cup {Infinity}) <= x
    BY <1>1, MinOfNumbers
  <1>. QED
    BY <1>1, <1>2

\* The next use of an interval
LEMMA NextUsePosOK ==
  ASSUME NEW it \in Intervals, NEW pos
  PROVE  NextUsePos(it, pos) \in Nat
  <1>. DEFINE S == {p \in UNION it.uses : p >= pos}
  <1>1. S \in SUBSET Nat
    BY DEF Intervals
  <1>. HIDE DEF S
  <1>2. Min(S \cup {Infinity}) \in Nat
    BY <1>1, MinOrInfinity
  <1>. QED
    BY <1>2 DEF NextUsePos, S

\* The first range of an interval
LEMMA StartOK ==
  ASSUME NEW it \in Intervals, it.ranges # <<>>
  PROVE  /\ it.ranges \in Seq(Ranges) /\ Len(it.ranges) \in Nat /\ Len(it.ranges) >= 1
         /\ DOMAIN it.ranges = 1 .. Len(it.ranges)
         /\ IntervalStart(it) = it.ranges[1].start /\ IntervalStart(it) \in Nat
  <1>1. it.ranges \in Seq(Ranges)
    BY DEF Intervals
  <1>2. Len(it.ranges) \in Nat /\ Len(it.ranges) >= 1 /\ DOMAIN it.ranges = 1 .. Len(it.ranges)
    BY <1>1, RangesOK
  <1>3. 1 \in 1 .. Len(it.ranges)
    BY <1>2
  <1>4. it.ranges[1].start \in Nat
    BY <1>1, <1>3, RangesOK
  <1>. QED
    BY <1>1, <1>2, <1>4 DEF IntervalStart

\* Two intervals meet no earlier than where each of them starts.
LEMMA IntersectionOK ==
  ASSUME NEW it \in Intervals, NEW other \in Intervals
  PROVE  LET m == IntersectionStart(it, other)
         IN  /\ m \in Nat /\ m <= Infinity
             /\ m # Infinity /\ it.ranges # <<>> /\ InOrder(it.ranges) => m >= IntervalStart(it)
  <1>. DEFINE P == {p \in ToSet(it.ranges) \X ToSet(other.ranges) :
                      p[2].start < p[1].end /\ p[1].start < p[2].end}
              S == {Max({rs[1].start, rs[2].start}) : rs \in P}
  <1>0. /\ it.ranges \in Seq(Ranges) /\ other.ranges \in Seq(Ranges)
    BY DEF Intervals
  <1>1. /\ \A r \in ToSet(it.ranges) : \E k \in 1 .. Len(it.ranges) : r = it.ranges[k]
        /\ \A r \in ToSet(other.ranges) : \E k \in 1 .. Len(other.ranges) : r = other.ranges[k]
    BY <1>0, RangesOK DEF ToSet
  <1>2. ASSUME NEW rs \in P
        PROVE  /\ Max({rs[1].start, rs[2].start}) \in Nat
               /\ Max({rs[1].start, rs[2].start}) >= rs[1].start
               /\ rs[1] \in ToSet(it.ranges) /\ rs[1].start \in Nat
    <2>1. rs[1] \in ToSet(it.ranges) /\ rs[2] \in ToSet(other.ranges)
      OBVIOUS
    <2>2. rs[1].start \in Nat
      BY <1>0, <1>1, <2>1, RangesOK
    <2>3. rs[2].start \in Nat
      BY <1>0, <1>1, <2>1, RangesOK
    <2>. HIDE DEF P
    <2>4. /\ Max({rs[1].start, rs[2].start}) \in {rs[1].start, rs[2].start}
          /\ Max({rs[1].start, rs[2].start}) >= rs[1].start
      <3>. DEFINE a == rs[1].start
                  b == rs[2].start
      <3>1. a \in Nat /\ b \in Nat
        BY <2>2, <2>3
      <3>. HIDE DEF a, b
      <3>2. Max({a, b}) \in {a, b} /\ Max({a, b}) >= a
        BY <3>1 DEF Max
      <3>. QED
        BY <3>2 DEF a, b
    <2>. QED
      BY <2>1, <2>2, <2>3, <2>4
  <1>3. S \in SUBSET Nat
    BY <1>2
  <1>. HIDE DEF P
  <1>4. ASSUME NEW m \in S, it.ranges # <<>>, InOrder(it.ranges) PROVE m >= IntervalStart(it)
    <2>1. PICK rs \in P : m = Max({rs[1].start, rs[2].start})
      OBVIOUS
    <2>2. m \in Nat /\ m >= rs[1].start /\ rs[1] \in ToSet(it.ranges) /\ rs[1].start \in Nat
      BY <1>2, <2>1
    <2>3. PICK k \in 1 .. Len(it.ranges) : rs[1] = it.ranges[k]
      BY <1>1, <2>2
    <2>4. it.ranges[1].start <= it.ranges[k].start
      BY <1>0, <1>4, FirstStart
    <2>5. IntervalStart(it) = it.ranges[1].start /\ IntervalStart(it) \in Nat
      BY <1>4, StartOK
    <2>. QED
      BY <2>2, <2>3, <2>4, <2>5
  <1>. HIDE DEF S
  <1>. DEFINE m == Min(S \cup {Infinity})
  <1>5. m \in Nat /\ m <= Infinity /\ (m # Infinity => m \in S)
    BY <1>3, MinOrInfinity
  <1>6. IntersectionStart(it, other) = m
    BY DEF IntersectionStart, S, P
  <1>. HIDE DEF m
  <1>. QED
    BY <1>4, <1>5, <1>6

-----------------------------------------------------------------------------
(* Registers                                                               *)

\* Positions for the registers
RegisterPositions(f) == \A r \in Registers : f[r] \in Nat /\ f[r] <= Infinity

\* There is a register with the latest position.
LEMMA PickRegisterOK ==
  ASSUME NEW f, RegisterPositions(f)
  PROVE  PickRegister(f) \in Registers
  <1>. DEFINE S == {f[r] : r \in Registers}
              R == {r \in Registers : \A q \in Registers : f[q] <= f[r]}
  <1>0. NrRegisters \in Nat /\ NrRegisters >= 1 /\ 1 \in Registers /\ Registers \subseteq Int
    BY SizesAssumption DEF Registers
  <1>1. S \in SUBSET Int /\ S # {} /\ \A x \in S : x <= Infinity
    BY <1>0 DEF RegisterPositions
  <1>2. Infinity \in Int
    BY DEF Infinity
  <1>. HIDE DEF S
  <1>3. Max(S) \in S /\ \A x \in S : x <= Max(S)
    BY <1>1, <1>2, MaxOfBounded
  <1>4. R # {}
    BY <1>3 DEF S
  <1>5. R \in SUBSET Int /\ \A x \in R : x <= NrRegisters
    BY <1>0 DEF Registers
  <1>. HIDE DEF R
  <1>6. Max(R) \in R
    <2>1. NrRegisters \in Int
      BY <1>0
    <2>. QED
      BY <1>4, <1>5, <2>1, MaxOfBounded
  <1>. QED
    BY <1>6 DEF PickRegister, R

\* The earlier one of two positions for each register
LEMMA EarlierOfOK ==
  ASSUME NEW f, NEW g, RegisterPositions(f), RegisterPositions(g)
  PROVE  RegisterPositions(EarlierOf(f, g))
  <1>. SUFFICES ASSUME NEW r \in Registers
                PROVE  Min({f[r], g[r]}) \in Nat /\ Min({f[r], g[r]}) <= Infinity
    BY DEF RegisterPositions, EarlierOf
  <1>1. {f[r], g[r]} \in SUBSET Nat /\ {f[r], g[r]} # {}
    BY DEF RegisterPositions
  <1>2. Min({f[r], g[r]}) \in {f[r], g[r]}
    BY <1>1, MinOfNumbers
  <1>. QED
    BY <1>2 DEF RegisterPositions

\* free_until_pos
LEMMA FreeUntilPosOK ==
  ASSUME NEW s \in Seq(Intervals), NEW cur \in 1 .. Len(s),
         NEW act, NEW inact, act \subseteq 1 .. Len(s), inact \subseteq 1 .. Len(s)
  PROVE  RegisterPositions(FreeUntilPos(s, cur, act, inact))
  <1>. DEFINE A(r) == {0 : i \in {j \in act : s[j].reg = r}}
              B(r) == {IntersectionStart(s[i], s[cur]) : i \in {j \in inact : s[j].reg = r}}
              f == [r \in Registers |-> Min(A(r) \cup {Infinity})]
              g == [r \in Registers |-> Min(B(r) \cup {Infinity})]
  <1>0. \A i \in 1 .. Len(s) : s[i] \in Intervals
    BY ElementOfSeq
  <1>1. \A r \in Registers : A(r) \in SUBSET Nat /\ B(r) \in SUBSET Nat
    <2>1. \A r \in Registers : A(r) \in SUBSET Nat
      OBVIOUS
    <2>2. \A i \in inact : IntersectionStart(s[i], s[cur]) \in Nat
      BY <1>0, IntersectionOK
    <2>. QED
      BY <2>1, <2>2
  <1>2. FreeUntilPos(s, cur, act, inact) = EarlierOf(f, g)
    BY DEF FreeUntilPos, EarliestPos
  <1>. HIDE DEF A, B
  <1>3. RegisterPositions(f)
    BY <1>1, MinOrInfinity DEF RegisterPositions
  <1>4. RegisterPositions(g)
    BY <1>1, MinOrInfinity DEF RegisterPositions
  <1>. HIDE DEF f, g
  <1>. QED
    BY <1>2, <1>3, <1>4, EarlierOfOK

\* block_pos and use_pos
LEMMA UsePosOK ==
  ASSUME NEW s \in Seq(Intervals), NEW cur \in 1 .. Len(s),
         NEW act, NEW inact, act \subseteq 1 .. Len(s), inact \subseteq 1 .. Len(s)
  PROVE  /\ RegisterPositions(BlockPos(s, cur, act, inact))
         /\ RegisterPositions(UsePos(s, cur, act, inact))
  <1>. DEFINE fixed == {i \in DOMAIN s : s[i].fixed}
              meets == {i \in inact : IntervalsIntersect(s[i], s[cur])}
              all == (act \cup meets) \ fixed
              B(r) == {NextUsePos(s[i], IntervalStart(s[cur])) : i \in {j \in all : s[j].reg = r}}
              g == [r \in Registers |-> Min(B(r) \cup {Infinity})]
  <1>0. \A i \in 1 .. Len(s) : s[i] \in Intervals
    BY ElementOfSeq
  <1>1. RegisterPositions(BlockPos(s, cur, act, inact))
    <2>1. act \cap fixed \subseteq 1 .. Len(s) /\ inact \cap fixed \subseteq 1 .. Len(s)
      OBVIOUS
    <2>2. BlockPos(s, cur, act, inact) = FreeUntilPos(s, cur, act \cap fixed, inact \cap fixed)
      BY DEF BlockPos
    <2>. DEFINE a == act \cap fixed
                b == inact \cap fixed
    <2>3. RegisterPositions(FreeUntilPos(s, cur, a, b))
      <3>1. a \subseteq 1 .. Len(s) /\ b \subseteq 1 .. Len(s)
        BY <2>1
      <3>. HIDE DEF a, b
      <3>. QED
        BY <3>1, FreeUntilPosOK
    <2>. QED
      BY <2>2, <2>3
  <1>2. UsePos(s, cur, act, inact) = EarlierOf(BlockPos(s, cur, act, inact), g)
    BY DEF UsePos, EarliestPos
  <1>3. all \subseteq 1 .. Len(s)
    OBVIOUS
  <1>. HIDE DEF all
  <1>4. \A r \in Registers : B(r) \in SUBSET Nat
    BY <1>0, <1>3, NextUsePosOK
  <1>. HIDE DEF B
  <1>5. RegisterPositions(g)
    BY <1>4, MinOrInfinity DEF RegisterPositions
  <1>. HIDE DEF g
  <1>. QED
    BY <1>1, <1>2, <1>5, EarlierOfOK

-----------------------------------------------------------------------------
(* Splitting and expiring ranges                                           *)

\* d has the ranges a to b of rs.
IsPart(rs, a, b, d) ==
  /\ rs \in Seq(Ranges) /\ InOrder(rs) /\ a \in Int /\ b \in Int
  /\ 1 <= a /\ a <= b + 1 /\ b <= Len(rs) /\ d = SubSeq(rs, a, b)

\* They are in order too.
LEMMA SomeRanges ==
  ASSUME NEW rs, NEW a, NEW b, NEW d, IsPart(rs, a, b, d)
  PROVE  /\ d \in Seq(Ranges) /\ Len(d) = (b - a) + 1 /\ InOrder(d)
         /\ \A i \in 1 .. (b - a) + 1 : d[i] = rs[(a + i) - 1]
  <1>. USE DEF IsPart
  <1>0. Len(rs) \in Nat
    BY RangesOK
  <1>1. \A i \in a .. b : rs[i] \in Ranges
    BY <1>0, RangesOK
  <1>2. /\ d \in Seq(Ranges) /\ Len(d) = (b - a) + 1
        /\ \A i \in 1 .. (b - a) + 1 : d[i] = rs[(a + i) - 1]
    <2>1. /\ d \in Seq(Ranges)
          /\ Len(d) = (IF a <= b THEN b - a + 1 ELSE 0)
          /\ \A i \in 1 .. b - a + 1 : d[i] = rs[a + i - 1]
      BY <1>1, SubSeqProperties
    <2>2. (IF a <= b THEN b - a + 1 ELSE 0) = (b - a) + 1
      OBVIOUS
    <2>. QED
      BY <2>1, <2>2
  <1>3. ASSUME NEW i \in 1 .. Len(d)
        PROVE  d[i].start < d[i].end /\ (i > 1 => d[i - 1].end < d[i].start)
    <2>. DEFINE k == (a + i) - 1
    <2>1. k \in 1 .. Len(rs) /\ i \in 1 .. (b - a) + 1
      BY <1>0, <1>2
    <2>2. i > 1 => i - 1 \in 1 .. (b - a) + 1 /\ (a + (i - 1)) - 1 = k - 1 /\ k > 1
      BY <2>1
    <2>3. d[i] = rs[k]
      BY <1>2, <2>1
    <2>4. i > 1 => d[i - 1] = rs[k - 1]
      BY <1>2, <2>2
    <2>. HIDE DEF k
    <2>5. rs[k].start < rs[k].end /\ (k > 1 => rs[k - 1].end < rs[k].start)
      BY <2>1 DEF InOrder
    <2>. QED
      BY <2>2, <2>3, <2>4, <2>5
  <1>. QED
    BY <1>2, <1>3 DEF InOrder

\* The parts of a list of ranges that is split at pos
Parts(rs, pos, before, after) ==
  /\ before \in Seq(Ranges) /\ InOrder(before) /\ Len(before) >= 1
  /\ before[1].start = rs[1].start
  /\ after \in Seq(Ranges) /\ InOrder(after) /\ Len(after) >= 1
  /\ after[1].start = pos

\* One range behind others
IsBehind(rs, r, d) ==
  /\ rs \in Seq(Ranges) /\ InOrder(rs) /\ r \in Ranges /\ r.start < r.end
  /\ (Len(rs) >= 1 => rs[Len(rs)].end < r.start) /\ d = rs \o <<r>>

LEMMA RangeBehind ==
  ASSUME NEW rs, NEW r, NEW d, IsBehind(rs, r, d)
  PROVE  /\ d \in Seq(Ranges) /\ InOrder(d) /\ Len(d) = Len(rs) + 1
         /\ \A i \in 1 .. Len(rs) : d[i] = rs[i]
         /\ d[Len(rs) + 1] = r
  <1>. USE DEF IsBehind
  <1>0. Len(rs) \in Nat
    BY RangesOK
  <1>1. d = Append(rs, r)
    BY AppendIsConcat
  <1>2. /\ d \in Seq(Ranges) /\ Len(d) = Len(rs) + 1
        /\ \A i \in 1 .. Len(rs) : d[i] = rs[i]
        /\ d[Len(rs) + 1] = r
    BY <1>1, AppendProperties
  <1>3. ASSUME NEW k \in 1 .. Len(d)
        PROVE  d[k].start < d[k].end /\ (k > 1 => d[k - 1].end < d[k].start)
    <2>1. CASE k = Len(rs) + 1
      <3>1. d[k] = r /\ (k > 1 => Len(rs) >= 1 /\ k - 1 = Len(rs) /\ d[k - 1] = rs[Len(rs)])
        BY <1>0, <1>2, <2>1
      <3>. QED
        BY <3>1
    <2>2. CASE k # Len(rs) + 1
      <3>1. k \in 1 .. Len(rs) /\ (k > 1 => k - 1 \in 1 .. Len(rs))
        BY <1>0, <1>2, <2>2
      <3>2. d[k] = rs[k] /\ (k > 1 => d[k - 1] = rs[k - 1])
        BY <1>2, <3>1
      <3>3. rs[k].start < rs[k].end /\ (k > 1 => rs[k - 1].end < rs[k].start)
        BY <3>1 DEF InOrder
      <3>. QED
        BY <3>2, <3>3
    <2>. QED
      BY <2>1, <2>2
  <1>. QED
    BY <1>2, <1>3 DEF InOrder

\* One range in front of others
IsInFront(rs, r, d) ==
  /\ rs \in Seq(Ranges) /\ InOrder(rs) /\ r \in Ranges /\ r.start < r.end
  /\ (Len(rs) >= 1 => r.end < rs[1].start) /\ d = <<r>> \o rs

LEMMA RangeInFront ==
  ASSUME NEW rs, NEW r, NEW d, IsInFront(rs, r, d)
  PROVE  d \in Seq(Ranges) /\ InOrder(d) /\ Len(d) >= 1 /\ d[1] = r
  <1>. USE DEF IsInFront
  <1>0. Len(rs) \in Nat
    BY RangesOK
  <1>1. <<r>> \in Seq(Ranges) /\ Len(<<r>>) = 1 /\ <<r>>[1] = r
    OBVIOUS
  <1>. DEFINE q == <<r>>
  <1>. HIDE DEF q
  <1>2. /\ d \in Seq(Ranges) /\ Len(d) = 1 + Len(rs)
        /\ \A i \in 1 .. 1 + Len(rs) : d[i] = IF i <= 1 THEN q[i] ELSE rs[i - 1]
    <2>1. d = q \o rs /\ q \in Seq(Ranges) /\ Len(q) = 1
      BY <1>1 DEF q
    <2>. QED
      BY <2>1, ConcatProperties
  <1>3. d[1] = r
    <2>1. 1 \in 1 .. 1 + Len(rs)
      BY <1>0
    <2>. QED
      BY <1>1, <1>2, <2>1 DEF q
  <1>4. ASSUME NEW k \in 1 .. Len(d)
        PROVE  d[k].start < d[k].end /\ (k > 1 => d[k - 1].end < d[k].start)
    <2>1. CASE k = 1
      BY <1>3, <2>1
    <2>2. CASE k = 2
      <3>1. Len(rs) >= 1 /\ 1 \in 1 .. Len(rs) /\ d[k] = rs[1] /\ d[k - 1] = r
        BY <1>0, <1>2, <1>3, <2>2
      <3>2. rs[1].start < rs[1].end
        BY <3>1 DEF InOrder
      <3>. QED
        BY <3>1, <3>2
    <2>3. CASE k > 2
      <3>1. /\ k - 1 \in 1 .. Len(rs) /\ k - 1 > 1 /\ k - 1 \in 1 .. 1 + Len(rs)
            /\ ~(k <= 1) /\ ~(k - 1 <= 1) /\ (k - 1) - 1 \in 1 .. Len(rs)
        BY <1>0, <1>2, <2>3
      <3>2. d[k] = rs[k - 1] /\ d[k - 1] = rs[(k - 1) - 1]
        BY <1>2, <3>1
      <3>3. rs[k - 1].start < rs[k - 1].end /\ rs[(k - 1) - 1].end < rs[k - 1].start
        BY <3>1 DEF InOrder
      <3>. QED
        BY <3>2, <3>3
    <2>. QED
      BY <1>0, <1>2, <2>1, <2>2, <2>3
  <1>. QED
    BY <1>0, <1>2, <1>3, <1>4 DEF InOrder

\* split_ranges
LEMMA SplitRangesOK ==
  ASSUME NEW rs \in Seq(Ranges), InOrder(rs), Len(rs) >= 1, NEW pos \in Nat,
         rs[1].start < pos, Covered(rs, pos)
  PROVE  Parts(rs, pos, SplitRanges(rs, pos).before, SplitRanges(rs, pos).after)
  <1>. DEFINE k == CHOOSE j \in DOMAIN rs : InRange(rs[j], pos)
              n == Len(rs)
              f == SubSeq(rs, 1, k - 1)
              h == LiveRange(rs[k].start, pos)
              head == IF rs[k].start = pos THEN <<>> ELSE <<h>>
              t == SubSeq(rs, k + 1, n)
              r == LiveRange(pos, rs[k].end)
  <1>0. n \in Nat /\ DOMAIN rs = 1 .. n
    BY RangesOK
  <1>1. k \in 1 .. n /\ rs[k].start <= pos /\ pos < rs[k].end
    BY <1>0 DEF Covered, InRange
  <1>2. SplitRanges(rs, pos) = [before |-> f \o head, after |-> <<r>> \o t]
    BY DEF SplitRanges
  <1>. HIDE DEF k, n
  <1>3. rs[k].start \in Nat /\ rs[k].end \in Nat /\ rs[1].start \in Nat
    <2>1. 1 \in 1 .. n
      BY <1>0 DEF n
    <2>. QED
      BY <1>1, <2>1, RangesOK DEF n
  <1>4. /\ f \in Seq(Ranges) /\ Len(f) = k - 1 /\ InOrder(f)
        /\ \A i \in 1 .. k - 1 : f[i] = rs[i]
    <2>1. /\ 1 \in Int /\ k - 1 \in Int /\ 1 <= 1 /\ 1 <= (k - 1) + 1 /\ k - 1 <= Len(rs)
          /\ ((k - 1) - 1) + 1 = k - 1
      BY <1>0, <1>1 DEF n
    <2>0. IsPart(rs, 1, k - 1, f)
      BY <2>1 DEF IsPart
    <2>. HIDE DEF f
    <2>2. /\ f \in Seq(Ranges) /\ Len(f) = ((k - 1) - 1) + 1 /\ InOrder(f)
          /\ \A i \in 1 .. ((k - 1) - 1) + 1 : f[i] = rs[(1 + i) - 1]
      BY <2>0, SomeRanges
    <2>3. \A i \in 1 .. k - 1 : (1 + i) - 1 = i
      BY <2>1
    <2>. QED
      BY <2>1, <2>2, <2>3
  <1>5. /\ t \in Seq(Ranges) /\ InOrder(t)
        /\ Len(t) >= 1 => k + 1 \in 1 .. n /\ t[1] = rs[k + 1]
    <2>1. k + 1 \in Int /\ n \in Int /\ 1 <= k + 1 /\ k + 1 <= n + 1 /\ n <= Len(rs)
      BY <1>0, <1>1 DEF n
    <2>0. IsPart(rs, k + 1, n, t)
      BY <2>1 DEF IsPart
    <2>. HIDE DEF t
    <2>2. /\ t \in Seq(Ranges) /\ Len(t) = (n - (k + 1)) + 1 /\ InOrder(t)
          /\ \A i \in 1 .. (n - (k + 1)) + 1 : t[i] = rs[((k + 1) + i) - 1]
      BY <2>0, SomeRanges
    <2>3. ((k + 1) + 1) - 1 = k + 1
      BY <2>1
    <2>4. Len(t) >= 1 => k + 1 \in 1 .. n /\ 1 \in 1 .. (n - (k + 1)) + 1
      BY <1>0, <1>1, <2>2
    <2>. QED
      BY <2>2, <2>3, <2>4
  <1>6. h \in Ranges /\ h.start = rs[k].start /\ h.end = pos
    BY <1>3 DEF LiveRange, Ranges
  <1>7. r \in Ranges /\ r.start = pos /\ r.end = rs[k].end
    BY <1>3 DEF LiveRange, Ranges
  <1>8. k > 1 => k - 1 \in 1 .. n /\ rs[k - 1].end < rs[k].start
    BY <1>0, <1>1 DEF InOrder, n
  <1>. DEFINE before == f \o head
              after == <<r>> \o t
  <1>9. /\ before \in Seq(Ranges) /\ InOrder(before) /\ Len(before) >= 1
        /\ before[1].start = rs[1].start
    <2>1. CASE rs[k].start = pos
      <3>1. before = f
        BY <1>4, <2>1, ConcatEmptySeq
      <3>2. k > 1 /\ 1 \in 1 .. k - 1
        BY <1>1, <1>3, <2>1
      <3>3. f[1] = rs[1] /\ Len(f) >= 1
        BY <1>1, <1>4, <3>2
      <3>. HIDE DEF f, before
      <3>. QED
        BY <1>4, <3>1, <3>3
    <2>2. CASE rs[k].start # pos
      <3>1. before = f \o <<h>>
        BY <2>2
      <3>2. h.start < h.end
        BY <1>1, <1>3, <1>6, <2>2
      <3>. HIDE DEF f, before, h
      <3>3. Len(f) >= 1 => f[Len(f)].end < h.start
        <4>. SUFFICES ASSUME Len(f) >= 1 PROVE f[Len(f)].end < h.start
          OBVIOUS
        <4>1. k > 1 /\ k - 1 \in 1 .. k - 1
          BY <1>1, <1>4
        <4>. QED
          BY <1>4, <1>6, <1>8, <4>1
      <3>4. /\ before \in Seq(Ranges) /\ InOrder(before) /\ Len(before) = Len(f) + 1
            /\ \A i \in 1 .. Len(f) : before[i] = f[i]
            /\ before[Len(f) + 1] = h
        <4>1. IsBehind(f, h, before)
          BY <1>4, <1>6, <3>1, <3>2, <3>3 DEF IsBehind
        <4>. QED
          BY <4>1, RangeBehind
      <3>5. before[1].start = rs[1].start
        <4>1. CASE k = 1
          BY <1>4, <1>6, <3>4, <4>1
        <4>2. CASE k # 1
          <5>1. 1 \in 1 .. k - 1
            BY <1>1, <4>2
          <5>. QED
            BY <1>4, <3>4, <5>1
        <4>. QED
          BY <4>1, <4>2
      <3>. QED
        BY <1>1, <1>4, <3>4, <3>5
    <2>. QED
      BY <2>1, <2>2
  <1>10. after \in Seq(Ranges) /\ InOrder(after) /\ Len(after) >= 1 /\ after[1].start = pos
    <2>1. r.start < r.end
      BY <1>1, <1>7
    <2>2. Len(t) >= 1 => r.end < t[1].start
      <3>. SUFFICES ASSUME Len(t) >= 1 PROVE r.end < t[1].start
        OBVIOUS
      <3>. HIDE DEF t, r
      <3>1. k + 1 \in 1 .. Len(rs) /\ k + 1 > 1 /\ (k + 1) - 1 = k /\ t[1] = rs[k + 1]
        BY <1>1, <1>5 DEF n
      <3>2. rs[k].end < rs[k + 1].start
        BY <3>1 DEF InOrder
      <3>. QED
        BY <1>7, <3>1, <3>2
    <2>3. after = <<r>> \o t
      OBVIOUS
    <2>. HIDE DEF t, r, after
    <2>4. after \in Seq(Ranges) /\ InOrder(after) /\ Len(after) >= 1 /\ after[1] = r
      <3>1. IsInFront(t, r, after)
        BY <1>5, <1>7, <2>1, <2>2, <2>3 DEF IsInFront
      <3>. QED
        BY <3>1, RangeInFront
    <2>. QED
      BY <1>7, <2>4
  <1>11. SplitRanges(rs, pos) = [before |-> before, after |-> after]
    BY <1>2
  <1>. HIDE DEF before, after
  <1>. QED
    BY <1>9, <1>10, <1>11 DEF Parts

\* expire_ranges_before
LEMMA ExpireOK ==
  ASSUME NEW it \in Intervals, it.ranges # <<>>, InOrder(it.ranges), NEW pos \in Nat,
         NEW d, d = ExpireRangesBefore(it, pos)
  PROVE  d \in Intervals /\ d.ranges # <<>> /\ InOrder(d.ranges)
  <1>. DEFINE rs == it.ranges
              n == Len(rs)
              S == {k \in DOMAIN rs : rs[k].start <= pos}
              first == Max(S)
  <1>0. /\ rs \in Seq(Ranges) /\ n \in Nat /\ n >= 1 /\ DOMAIN rs = 1 .. n
        /\ IntervalStart(it) = rs[1].start /\ IntervalStart(it) \in Nat
    BY StartOK
  <1>1. CASE pos < IntervalStart(it) \/ pos >= IntervalEnd(it)
    BY <1>1 DEF ExpireRangesBefore
  <1>2. CASE ~(pos < IntervalStart(it) \/ pos >= IntervalEnd(it))
    <2>1. S \in SUBSET Int /\ S # {} /\ \A x \in S : x <= n
      BY <1>0, <1>2
    <2>. HIDE DEF S
    <2>2. first \in S
      <3>1. n \in Int
        BY <1>0
      <3>. HIDE DEF n
      <3>. QED
        BY <2>1, <3>1, MaxOfBounded
    <2>3. first \in 1 .. n
      BY <1>0, <2>2 DEF S
    <2>. HIDE DEF first
    <2>. DEFINE a == SubSeq(rs, 1, first - 1)
                b == SubSeq(rs, first, n)
    <2>4. b \in Seq(Ranges) /\ Len(b) >= 1 /\ InOrder(b)
      <3>1. first \in Int /\ n \in Int /\ 1 <= first /\ first <= n + 1 /\ n <= Len(rs)
        BY <1>0, <2>3
      <3>2. IsPart(rs, first, n, b)
        BY <1>0, <3>1 DEF IsPart
      <3>. HIDE DEF b, n, rs
      <3>3. b \in Seq(Ranges) /\ Len(b) = (n - first) + 1 /\ InOrder(b)
        BY <3>2, SomeRanges
      <3>. QED
        BY <2>3, <3>1, <3>3
    <2>5. a \in Seq(Ranges)
      <3>1. 1 \in Int /\ first - 1 \in Int /\ 1 <= 1 /\ 1 <= (first - 1) + 1 /\ first - 1 <= Len(rs)
        BY <1>0, <2>3
      <3>2. IsPart(rs, 1, first - 1, a)
        BY <1>0, <3>1 DEF IsPart
      <3>. HIDE DEF a, n, rs
      <3>. QED
        BY <3>2, SomeRanges
    <2>6. d = [it EXCEPT !.expired = it.expired \o a, !.ranges = b]
      BY <1>2 DEF ExpireRangesBefore, S, first
    <2>7. it.expired \o a \in Seq(Ranges)
      <3>1. it.expired \in Seq(Ranges)
        BY DEF Intervals
      <3>. HIDE DEF a
      <3>. QED
        BY <2>5, <3>1, ConcatProperties
    <2>. DEFINE x == it.expired \o a
    <2>8. x \in Seq(Ranges) /\ d = [it EXCEPT !.expired = x, !.ranges = b]
      BY <2>6, <2>7
    <2>. HIDE DEF x, a, b
    <2>9. d \in Intervals /\ d.ranges = b
      <3>. DEFINE q == [it EXCEPT !.expired = x]
      <3>1. q \in Intervals
        BY <2>8, OtherFields
      <3>2. d = [q EXCEPT !.ranges = b]
        BY <2>8
      <3>. HIDE DEF q
      <3>. QED
        BY <2>4, <3>1, <3>2, OtherRanges DEF Same
    <2>. QED
      BY <2>4, <2>9, RangesOK
  <1>. QED
    BY <1>1, <1>2

\* An interval that can be handled
Usable(it) == it.ranges # <<>> /\ InOrder(it.ranges)

\* Interval i is split at pos: b has one interval more than a.
IsSplit(a, i, pos, b) ==
  /\ b \in Seq(Intervals) /\ Len(b) = Len(a) + 1
  /\ \A j \in 1 .. Len(a) : j # i => b[j] = a[j]
  /\ Usable(b[i]) /\ IntervalStart(b[i]) = IntervalStart(a[i])
  /\ Usable(b[Len(a) + 1]) /\ IntervalStart(b[Len(a) + 1]) = pos

\* The two intervals of a split
OldPart(it, rs, u, n) == [it EXCEPT !.ranges = rs, !.uses = u, !.next = n]
NewPart(it, rs, u, i) ==
  [AllocInterval(it.var, it.fixed, IF it.fixed THEN it.reg ELSE NULL)
     EXCEPT !.ranges = rs, !.uses = u, !.next = it.next, !.prev = i]

LEMMA OldPartOK ==
  ASSUME NEW it \in Intervals, NEW rs \in Seq(Ranges), NEW u \in SUBSET SUBSET Nat, NEW n \in Nat
  PROVE  OldPart(it, rs, u, n) \in Intervals /\ OldPart(it, rs, u, n).ranges = rs
  <1>. DEFINE o1 == [it EXCEPT !.ranges = rs]
              o2 == [o1 EXCEPT !.uses = u]
              o3 == [o2 EXCEPT !.next = n]
  <1>1. o1 \in Intervals /\ o1.ranges = rs
    BY OtherRanges DEF Same
  <1>. HIDE DEF o1
  <1>2. o2 \in Intervals /\ o2.ranges = rs
    BY <1>1, OtherFields
  <1>. HIDE DEF o2
  <1>3. o3 \in Intervals /\ o3.ranges = rs
    BY <1>2, OtherFields
  <1>. HIDE DEF o3
  <1>4. OldPart(it, rs, u, n) = o3
    BY DEF o1, o2, o3, OldPart
  <1>. QED
    BY <1>3, <1>4

LEMMA NewPartOK ==
  ASSUME NEW it \in Intervals, NEW rs \in Seq(Ranges), NEW u \in SUBSET SUBSET Nat, NEW i \in Nat
  PROVE  NewPart(it, rs, u, i) \in Intervals /\ NewPart(it, rs, u, i).ranges = rs
  <1>. DEFINE m0 == AllocInterval(it.var, it.fixed, IF it.fixed THEN it.reg ELSE NULL)
              m1 == [m0 EXCEPT !.ranges = rs]
              m2 == [m1 EXCEPT !.uses = u]
              m3 == [m2 EXCEPT !.next = it.next]
              m4 == [m3 EXCEPT !.prev = i]
  <1>1. m0 \in Intervals
    <2>1. <<>> \in Seq(Ranges)
      OBVIOUS
    <2>2. it.var \in Nat /\ it.fixed \in BOOLEAN /\ it.reg \in Nat
      BY DEF Intervals
    <2>. QED
      BY <2>1, <2>2 DEF AllocInterval, Intervals, NULL
  <1>. HIDE DEF m0
  <1>2. m1 \in Intervals /\ m1.ranges = rs
    BY <1>1, OtherRanges DEF Same
  <1>. HIDE DEF m1
  <1>3. m2 \in Intervals /\ m2.ranges = rs
    BY <1>2, OtherFields
  <1>. HIDE DEF m2
  <1>4. m3 \in Intervals /\ m3.ranges = rs
    <2>1. it.next \in Nat
      BY DEF Intervals
    <2>. QED
      BY <1>3, <2>1, OtherFields
  <1>. HIDE DEF m3
  <1>5. m4 \in Intervals /\ m4.ranges = rs
    BY <1>4, OtherFields
  <1>. HIDE DEF m4
  <1>6. NewPart(it, rs, u, i) = m4
    BY DEF m0, m1, m2, m3, m4, NewPart
  <1>. QED
    BY <1>5, <1>6

\* An interval is replaced, and another one added.
IsReplaced(a, i, old, new, b) ==
  /\ a \in Seq(Intervals) /\ i \in 1 .. Len(a) /\ old \in Intervals
  /\ new \in Intervals /\ b = Append(With(a, i, old), new)

LEMMA ReplaceAndAdd ==
  ASSUME NEW a, NEW i, NEW old, NEW new, NEW b, IsReplaced(a, i, old, new, b)
  PROVE  /\ b \in Seq(Intervals) /\ Len(b) = Len(a) + 1
         /\ \A j \in 1 .. Len(a) : j # i => b[j] = a[j]
         /\ b[i] = old /\ b[Len(a) + 1] = new
  <1>. USE DEF IsReplaced
  <1>. DEFINE w == With(a, i, old)
  <1>1. /\ w \in Seq(Intervals) /\ Len(w) = Len(a)
        /\ \A j \in 1 .. Len(a) : w[j] = IF j = i THEN old ELSE a[j]
    BY ExceptSeq DEF With
  <1>. HIDE DEF w
  <1>2. /\ b \in Seq(Intervals) /\ Len(b) = Len(w) + 1
        /\ \A j \in 1 .. Len(w) : b[j] = w[j]
        /\ b[Len(w) + 1] = new
    BY <1>1, AppendProperties DEF w
  <1>. QED
    BY <1>1, <1>2

\* split_interval_at
LEMMA SplitIntervalOK ==
  ASSUME NEW a \in Seq(Intervals), NEW i \in 1 .. Len(a), Usable(a[i]), NEW pos \in Nat,
         CanSplitAt(a[i], pos)
  PROVE  IsSplit(a, i, pos, SplitIntervalAt(a, i, pos))
  <1>. DEFINE it == a[i]
              sp == SplitRanges(it.ranges, pos)
              r1 == sp.before
              r2 == sp.after
              u1 == {u \in it.uses : Min(u) < pos}
              u2 == {u \in it.uses : Min(u) >= pos}
              n == Len(a) + 1
              old == OldPart(it, r1, u1, n)
              new == NewPart(it, r2, u2, i)
              b == SplitIntervalAt(a, i, pos)
  <1>0. Len(a) \in Nat /\ DOMAIN a = 1 .. Len(a) /\ it \in Intervals
    BY LenProperties, ElementOfSeq
  <1>1. /\ it.ranges \in Seq(Ranges) /\ Len(it.ranges) >= 1 /\ InOrder(it.ranges)
        /\ IntervalStart(it) = it.ranges[1].start /\ DOMAIN it.ranges = 1 .. Len(it.ranges)
    BY <1>0, StartOK DEF Usable
  <1>2. it.ranges[1].start < pos /\ Covered(it.ranges, pos)
    BY <1>1 DEF CanSplitAt, IntervalCovers, Covered
  <1>3. Parts(it.ranges, pos, r1, r2)
    BY <1>1, <1>2, SplitRangesOK
  <1>4. u1 \in SUBSET SUBSET Nat /\ u2 \in SUBSET SUBSET Nat
    BY <1>0 DEF Intervals
  <1>5. b = Append(With(a, i, old), new)
    <2>1. b = Append([a EXCEPT ![i].ranges = r1, ![i].uses = u1, ![i].next = n], new)
      <3>1. [a EXCEPT ![i].ranges = sp.before, ![i].uses = {u \in @ : Min(u) < pos},
                      ![i].next = Len(a) + 1]
            = [a EXCEPT ![i].ranges = r1, ![i].uses = u1, ![i].next = n]
        BY <1>0 DEF Intervals
      <3>. QED
        BY <3>1 DEF SplitIntervalAt, NewPart
    <2>2. [a EXCEPT ![i].ranges = r1, ![i].uses = u1, ![i].next = n] = With(a, i, old)
      BY <1>0 DEF With, OldPart
    <2>. QED
      BY <2>1, <2>2
  <1>6. old \in Intervals /\ old.ranges = r1 /\ new \in Intervals /\ new.ranges = r2
    <2>1. r1 \in Seq(Ranges) /\ r2 \in Seq(Ranges) /\ n \in Nat /\ i \in Nat
      BY <1>0, <1>3 DEF Parts
    <2>. HIDE DEF r1, r2, u1, u2, it, n
    <2>2. old \in Intervals /\ old.ranges = r1
      BY <1>0, <1>4, <2>1, OldPartOK
    <2>3. new \in Intervals /\ new.ranges = r2
      BY <1>0, <1>4, <2>1, NewPartOK
    <2>. QED
      BY <2>2, <2>3
  <1>. HIDE DEF old, new, b, r1, r2
  <1>7. /\ b \in Seq(Intervals) /\ Len(b) = Len(a) + 1
        /\ \A j \in 1 .. Len(a) : j # i => b[j] = a[j]
        /\ b[i] = old /\ b[Len(a) + 1] = new
    <2>1. IsReplaced(a, i, old, new, b)
      BY <1>5, <1>6 DEF IsReplaced
    <2>. QED
      BY <2>1, ReplaceAndAdd
  <1>8. Usable(old) /\ IntervalStart(old) = IntervalStart(it)
    <2>1. r1 # <<>>
      BY <1>3, RangesOK DEF Parts
    <2>. QED
      BY <1>1, <1>3, <1>6, <2>1 DEF Parts, Usable, IntervalStart
  <1>9. Usable(new) /\ IntervalStart(new) = pos
    <2>1. r2 # <<>>
      BY <1>3, RangesOK DEF Parts
    <2>. QED
      BY <1>1, <1>3, <1>6, <2>1 DEF Parts, Usable, IntervalStart
  <1>. QED
    BY <1>7, <1>8, <1>9 DEF IsSplit, b

-----------------------------------------------------------------------------
(* The scan                                                                *)

\* All intervals have their ranges in order.
Intact(a) == a \in Seq(Intervals) /\ \A j \in 1 .. Len(a) : InOrder(a[j].ranges)

\* The intervals of a are still there, and start where they did.
Grows(a, b) ==
  /\ Len(a) <= Len(b)
  /\ \A j \in 1 .. Len(a) : a[j].ranges # <<>> =>
       b[j].ranges # <<>> /\ IntervalStart(b[j]) = IntervalStart(a[j])

\* A node of the queue stands for an interval that is not in set and starts at
\* its key, from pos on.
NodeOK(a, x, set, pos) ==
  /\ x.value \in 1 .. Len(a) /\ x.value \notin set /\ a[x.value].ranges # <<>>
  /\ x.key = IntervalStart(a[x.value]) /\ x.key >= pos

\* The queue is a heap of such nodes, no two of which are the same.
QueueAt(a, q, set, pos) ==
  /\ q \in Seq(Elements(Nat)) /\ IsHeap(q)
  /\ IsFiniteSet(ToSet(q)) /\ Cardinality(ToSet(q)) = Len(q)
  /\ \A x \in ToSet(q) : NodeOK(a, x, set, pos)

\* The intervals of set are those that are handled at pos, where cur starts.
HandledAt(a, set, cur, pos) ==
  /\ \A j \in set : j \in 1 .. Len(a) /\ a[j].ranges # <<>>
  /\ cur \in set /\ IntervalStart(a[cur]) = pos

\* The state of the allocator in a turn of its loop
ScanStates == [its : Seq(Intervals), queue : Seq(Elements(Nat)), ok : BOOLEAN]
ScanAt(s, set, cur, pos) ==
  /\ s \in ScanStates /\ Intact(s.its)
  /\ HandledAt(s.its, set, cur, pos) /\ QueueAt(s.its, s.queue, set, pos)

\* Numbers of a list of intervals
LEMMA IntactOK ==
  ASSUME NEW a, Intact(a)
  PROVE  /\ Len(a) \in Nat /\ DOMAIN a = 1 .. Len(a)
         /\ \A j \in 1 .. Len(a) : a[j] \in Intervals /\ InOrder(a[j].ranges)
  <1>1. a \in Seq(Intervals)
    BY DEF Intact
  <1>2. Len(a) \in Nat /\ DOMAIN a = 1 .. Len(a)
    BY <1>1, LenProperties
  <1>3. \A j \in 1 .. Len(a) : a[j] \in Intervals
    BY <1>1, ElementOfSeq
  <1>. QED
    BY <1>2, <1>3 DEF Intact

\* What is known of the queue and of the handled intervals stays so.
LEMMA GrowsOK ==
  ASSUME NEW a, NEW b, NEW q, NEW set, NEW cur, NEW pos, Intact(a), Intact(b), Grows(a, b),
         HandledAt(a, set, cur, pos), QueueAt(a, q, set, pos)
  PROVE  HandledAt(b, set, cur, pos) /\ QueueAt(b, q, set, pos)
  <1>0. Len(a) \in Nat /\ Len(b) \in Nat /\ Len(a) <= Len(b)
    BY IntactOK DEF Grows
  <1>1. \A j \in 1 .. Len(a) : j \in 1 .. Len(b)
    BY <1>0
  <1>2. HandledAt(b, set, cur, pos)
    BY <1>1 DEF HandledAt, Grows
  <1>3. \A x \in ToSet(q) : NodeOK(b, x, set, pos)
    BY <1>1 DEF QueueAt, NodeOK, Grows
  <1>. QED
    BY <1>2, <1>3 DEF QueueAt

\* An interval is put into the queue.
LEMMA EnqueueOK ==
  ASSUME NEW a, NEW q, NEW set, NEW pos, Intact(a), QueueAt(a, q, set, pos),
         NEW new \in 1 .. Len(a), new \notin set, a[new].ranges # <<>>,
         IntervalStart(a[new]) >= pos, \A x \in ToSet(q) : x.value # new
  PROVE  QueueAt(a, Enqueue(q, a, new), set, pos)
  <1>. DEFINE key == IntervalStart(a[new])
              e == Enqueue(q, a, new)
              x == Node(key, new)
  <1>0. Len(a) \in Nat /\ new \in Nat
    BY IntactOK
  <1>1. key \in Nat /\ key \in Int
    <2>1. a[new] \in Intervals
      BY IntactOK
    <2>. QED
      BY <2>1, StartOK
  <1>2. q \in Seq(Elements(Nat)) /\ IsHeap(q)
    BY DEF QueueAt
  <1>. HIDE DEF key
  <1>3. /\ e \in Seq(Elements(Nat)) /\ Len(e) = Len(q) + 1 /\ IsHeap(e)
        /\ ToSet(e) = ToSet(q) \cup {x}
    <2>1. e = pqueue_insert(q, key, new)
      BY DEF Enqueue, key
    <2>. HIDE DEF e
    <2>2. /\ pqueue_insert(q, key, new) \in Seq(Elements(Nat))
          /\ Len(pqueue_insert(q, key, new)) = Len(q) + 1
          /\ IsHeap(pqueue_insert(q, key, new))
          /\ ToSet(pqueue_insert(q, key, new)) = ToSet(q) \cup {x}
      BY <1>0, <1>1, <1>2, InsertOK
    <2>. QED
      BY <2>1, <2>2
  <1>4. x.key = key /\ x.value = new
    BY DEF Node
  <1>. HIDE DEF e, x
  <1>5. x \notin ToSet(q)
    BY <1>4
  <1>6. IsFiniteSet(ToSet(e)) /\ Cardinality(ToSet(e)) = Len(e)
    <2>1. IsFiniteSet(ToSet(q)) /\ Cardinality(ToSet(q)) = Len(q)
      BY DEF QueueAt
    <2>2. /\ IsFiniteSet(ToSet(q) \cup {x})
          /\ Cardinality(ToSet(q) \cup {x}) = Cardinality(ToSet(q)) + 1
      BY <1>5, <2>1, FS_AddElement
    <2>. QED
      BY <1>3, <2>1, <2>2
  <1>7. NodeOK(a, x, set, pos)
    BY <1>4 DEF NodeOK, key
  <1>8. \A y \in ToSet(e) : NodeOK(a, y, set, pos)
    BY <1>3, <1>7 DEF QueueAt
  <1>. QED
    BY <1>3, <1>6, <1>8 DEF QueueAt, e

\* A split lets the intervals grow.
LEMMA SplitGrows ==
  ASSUME NEW a, Intact(a), NEW i \in 1 .. Len(a), a[i].ranges # <<>>, NEW pos \in Nat,
         CanSplitAt(a[i], pos), NEW b, b = SplitIntervalAt(a, i, pos)
  PROVE  /\ Intact(b) /\ Grows(a, b) /\ Len(b) = Len(a) + 1
         /\ b[Len(b)].ranges # <<>> /\ IntervalStart(b[Len(b)]) = pos
  <1>0. Len(a) \in Nat /\ Usable(a[i]) /\ a \in Seq(Intervals)
    BY IntactOK DEF Usable, Intact
  <1>1. IsSplit(a, i, pos, b)
    BY <1>0, SplitIntervalOK
  <1>2. b \in Seq(Intervals) /\ Len(b) = Len(a) + 1
    BY <1>1 DEF IsSplit
  <1>3. ASSUME NEW j \in 1 .. Len(b) PROVE InOrder(b[j].ranges)
    <2>1. j = i \/ j = Len(a) + 1 \/ (j \in 1 .. Len(a) /\ j # i)
      BY <1>0, <1>2
    <2>2. CASE j = i
      BY <1>1, <2>2 DEF IsSplit, Usable
    <2>3. CASE j = Len(a) + 1
      BY <1>1, <2>3 DEF IsSplit, Usable
    <2>4. CASE j \in 1 .. Len(a) /\ j # i
      BY <1>1, <2>4, IntactOK DEF IsSplit
    <2>. QED
      BY <2>1, <2>2, <2>3, <2>4
  <1>4. Intact(b)
    BY <1>2, <1>3 DEF Intact
  <1>5. ASSUME NEW j \in 1 .. Len(a), a[j].ranges # <<>>
        PROVE  b[j].ranges # <<>> /\ IntervalStart(b[j]) = IntervalStart(a[j])
    <2>1. CASE j = i
      BY <1>1, <2>1 DEF IsSplit, Usable
    <2>2. CASE j # i
      BY <1>1, <1>5, <2>2 DEF IsSplit
    <2>. QED
      BY <2>1, <2>2
  <1>6. Grows(a, b)
    BY <1>0, <1>2, <1>5 DEF Grows
  <1>. QED
    BY <1>1, <1>2, <1>4, <1>6 DEF IsSplit, Usable

\* Other fields than the ranges are changed.
SameRanges(a, b) ==
  /\ b \in Seq(Intervals) /\ Len(b) = Len(a)
  /\ \A j \in 1 .. Len(a) : b[j].ranges = a[j].ranges

LEMMA SameRangesOK ==
  ASSUME NEW a, NEW b, Intact(a), SameRanges(a, b)
  PROVE  Intact(b) /\ Grows(a, b)
  <1>1. Len(a) \in Nat
    BY IntactOK
  <1>. QED
    BY <1>1 DEF SameRanges, Intact, Grows, IntervalStart

\* One interval is replaced.
LEMMA SameRangesAt ==
  ASSUME NEW a, NEW b, b \in Seq(Intervals), SameRanges(a, b), NEW i \in 1 .. Len(a),
         NEW it \in Intervals, it.ranges = b[i].ranges
  PROVE  SameRanges(a, With(b, i, it))
  <1>1. Len(b) = Len(a) /\ i \in 1 .. Len(b)
    BY DEF SameRanges
  <1>2. /\ With(b, i, it) \in Seq(Intervals) /\ Len(With(b, i, it)) = Len(b)
        /\ \A j \in 1 .. Len(b) : With(b, i, it)[j] = IF j = i THEN it ELSE b[j]
    BY <1>1, ExceptSeq DEF With
  <1>. QED
    BY <1>1, <1>2 DEF SameRanges

\* The intervals that are reloaded from another one
LEMMA MoveSpillParentOK ==
  ASSUME NEW a, Intact(a), NEW i, NEW new \in Nat
  PROVE  SameRanges(a, MoveSpillParent(a, i, new))
  <1>. DEFINE later == ToSet(Children(a, a[new].next))
              S == {j \in DOMAIN a : /\ j \in later /\ a[j].reload /\ a[j].parent = i}
              Moved(j, acc) == [acc EXCEPT ![j].parent = new]
              X == {b \in Seq(Intervals) : SameRanges(a, b)}
              g == [p \in S \X X |-> Moved(p[1], p[2])]
              Eq(h) == h = [s \in SUBSET S |->
                              IF s = {} THEN a
                              ELSE LET x == CHOOSE y \in s : TRUE IN Moved(x, h[s \ {x}])]
              iter[s \in SUBSET S] ==
                IF s = {} THEN a
                ELSE LET x == CHOOSE y \in s : TRUE IN Moved(x, iter[s \ {x}])
  <1>0. Len(a) \in Nat /\ DOMAIN a = 1 .. Len(a) /\ a \in Seq(Intervals)
    BY IntactOK DEF Intact
  <1>1. S \subseteq 1 .. Len(a) /\ IsFiniteSet(S)
    <2>1. S \subseteq 1 .. Len(a)
      BY <1>0
    <2>2. IsFiniteSet(1 .. Len(a))
      BY <1>0, FS_Interval
    <2>. HIDE DEF S
    <2>. QED
      BY <2>1, <2>2, FS_Subset
  <1>2. a \in X
    BY <1>0 DEF SameRanges
  <1>3. MoveSpillParent(a, i, new) = iter[S]
    BY DEF MoveSpillParent, FoldSet, MapThenFoldSet
  <1>4. ASSUME NEW j \in S, NEW b \in X PROVE Moved(j, b) \in X
    <2>. DEFINE it == [b[j] EXCEPT !.parent = new]
    <2>1. j \in 1 .. Len(a) /\ b \in Seq(Intervals) /\ SameRanges(a, b) /\ Len(b) = Len(a)
      BY <1>1 DEF SameRanges
    <2>2. b[j] \in Intervals
      BY <2>1, ElementOfSeq
    <2>3. it \in Intervals /\ it.ranges = b[j].ranges
      BY <2>2 DEF Intervals
    <2>4. Moved(j, b) = With(b, j, it)
      BY DEF With
    <2>. HIDE DEF it, Moved, S
    <2>5. SameRanges(a, With(b, j, it))
      BY <2>1, <2>3, SameRangesAt
    <2>. QED
      BY <2>4, <2>5 DEF SameRanges
  <1>. HIDE DEF S, Moved, X, iter
  <1>5. PICK f \in [SUBSET S -> X] : Folds(f, S, a, g)
    <2>1. g \in [S \X X -> X]
      BY <1>4
    <2>. HIDE DEF g
    <2>. QED
      BY <1>1, <1>2, <2>1, FoldExists
  <1>6. Eq(f)
    <2>1. ASSUME NEW s \in SUBSET S, s # {}
          PROVE  f[s] = LET x == CHOOSE y \in s : TRUE IN Moved(x, f[s \ {x}])
      <3>1. Chosen(s) \in S /\ s \ {Chosen(s)} \in SUBSET S
        BY <2>1 DEF Chosen
      <3>2. f[s \ {Chosen(s)}] \in X
        BY <3>1
      <3>3. f[s] = g[<<Chosen(s), f[s \ {Chosen(s)}]>>]
        <4>. HIDE DEF g
        <4>. QED
          BY <1>5, <2>1 DEF Folds
      <3>4. f[s] = Moved(Chosen(s), f[s \ {Chosen(s)}])
        BY <3>1, <3>2, <3>3
      <3>. QED
        BY <3>4 DEF Chosen
    <2>2. ASSUME NEW s \in SUBSET S, s = {} PROVE f[s] = a
      <3>. HIDE DEF g
      <3>. QED
        BY <1>5, <2>2 DEF Folds
    <2>. HIDE DEF g
    <2>. QED
      BY <1>5, <2>1, <2>2
  <1>7. Eq(iter)
    <2>1. iter = CHOOSE h : Eq(h)
      BY DEF iter
    <2>. HIDE DEF Eq
    <2>. QED
      BY <1>6, <2>1
  <1>8. iter[{}] \in X
    BY <1>2, <1>7
  <1>9. ASSUME NEW s \in SUBSET S, s # {}, iter[s \ {Chosen(s)}] \in X PROVE iter[s] \in X
    <2>1. Chosen(s) \in S
      BY <1>9 DEF Chosen
    <2>2. iter[s] = Moved(Chosen(s), iter[s \ {Chosen(s)}])
      BY <1>7, <1>9 DEF Chosen
    <2>. QED
      BY <1>4, <1>9, <2>1, <2>2
  <1>10. iter[S] \in X
    <2>. HIDE DEF Eq, g
    <2>. QED
      BY <1>1, <1>8, <1>9, FoldStays
  <1>. QED
    BY <1>3, <1>10 DEF X

\* Interval n is none of those of set and is not in the queue; it starts at p.
FreshIn(s, set, n, p) ==
  /\ n \in 1 .. Len(s.its) /\ n \notin set /\ s.its[n].ranges # <<>>
  /\ IntervalStart(s.its[n]) = p /\ \A x \in ToSet(s.queue) : x.value # n

\* The scan with other intervals
LEMMA ScanGrows ==
  ASSUME NEW s, NEW set, NEW cur, NEW pos, ScanAt(s, set, cur, pos),
         NEW b, Intact(b), Grows(s.its, b), NEW t \in ScanStates, t.its = b, t.queue = s.queue
  PROVE  ScanAt(t, set, cur, pos)
  <1>1. Intact(s.its) /\ HandledAt(s.its, set, cur, pos) /\ QueueAt(s.its, s.queue, set, pos)
    BY DEF ScanAt
  <1>2. HandledAt(b, set, cur, pos) /\ QueueAt(b, s.queue, set, pos)
    BY <1>1, GrowsOK
  <1>. QED
    BY <1>2 DEF ScanAt

\* split_interval_at in the scan
LEMMA SplitOK ==
  ASSUME NEW s, NEW set, NEW cur, NEW pos, ScanAt(s, set, cur, pos),
         NEW i \in 1 .. Len(s.its), s.its[i].ranges # <<>>, NEW p \in Nat,
         NEW t, t = Split(s, i, p)
  PROVE  /\ ScanAt(t, set, cur, pos) /\ Len(s.its) <= Len(t.its)
         /\ t.ok => /\ CanSplitAt(s.its[i], p) /\ Len(t.its) = Len(s.its) + 1
                    /\ FreshIn(t, set, Len(t.its), p)
  <1>0. /\ s \in ScanStates /\ Intact(s.its) /\ Len(s.its) \in Nat
        /\ HandledAt(s.its, set, cur, pos) /\ QueueAt(s.its, s.queue, set, pos)
    BY IntactOK DEF ScanAt
  <1>1. CASE ~(s.ok /\ CanSplitAt(s.its[i], p))
    <2>1. t = [s EXCEPT !.ok = FALSE]
      BY <1>1 DEF Split
    <2>2. t \in ScanStates /\ t.its = s.its /\ t.queue = s.queue /\ ~t.ok
      BY <1>0, <2>1 DEF ScanStates
    <2>3. ScanAt(t, set, cur, pos)
      BY <1>0, <2>2 DEF ScanAt
    <2>. QED
      BY <1>0, <2>2, <2>3
  <1>2. CASE s.ok /\ CanSplitAt(s.its[i], p)
    <2>. DEFINE b == SplitIntervalAt(s.its, i, p)
    <2>1. t = [s EXCEPT !.its = b]
      BY <1>2 DEF Split
    <2>2. /\ Intact(b) /\ Grows(s.its, b) /\ Len(b) = Len(s.its) + 1
          /\ b[Len(b)].ranges # <<>> /\ IntervalStart(b[Len(b)]) = p
      BY <1>0, <1>2, SplitGrows
    <2>. HIDE DEF b
    <2>3. t \in ScanStates /\ t.its = b /\ t.queue = s.queue
      BY <1>0, <2>1, <2>2 DEF ScanStates, Intact
    <2>4. ScanAt(t, set, cur, pos)
      BY <2>2, <2>3, ScanGrows
    <2>5. Len(b) \in 1 .. Len(b) /\ Len(b) \notin 1 .. Len(s.its) /\ Len(s.its) <= Len(b)
      BY <1>0, <2>2
    <2>6. Len(b) \notin set
      BY <1>0, <2>5 DEF HandledAt
    <2>7. \A x \in ToSet(s.queue) : x.value # Len(b)
      BY <1>0, <2>5 DEF QueueAt, NodeOK
    <2>. QED
      BY <1>2, <2>2, <2>3, <2>4, <2>5, <2>6, <2>7 DEF FreshIn
  <1>. QED
    BY <1>1, <1>2

\* The fields of the two intervals of a spill
LEMMA SpillFields ==
  ASSUME NEW a, NEW m, SameRanges(a, m), NEW i \in 1 .. Len(a), NEW new \in 1 .. Len(a),
         NEW x \in BOOLEAN, NEW reload \in BOOLEAN, NEW n \in Nat
  PROVE  SameRanges(a, [m EXCEPT ![new].spill = x, ![new].reload = reload,
                                 ![new].parent = n, ![i].spill = TRUE])
  <1>. DEFINE m1 == With(m, new, [m[new] EXCEPT !.spill = x])
              m2 == With(m1, new, [m1[new] EXCEPT !.reload = reload])
              m3 == With(m2, new, [m2[new] EXCEPT !.parent = n])
              m4 == With(m3, i, [m3[i] EXCEPT !.spill = TRUE])
  <1>0. [m EXCEPT ![new].spill = x, ![new].reload = reload, ![new].parent = n,
                  ![i].spill = TRUE] = m4
    BY DEF With
  <1>1. ASSUME NEW b, SameRanges(a, b), NEW j \in 1 .. Len(a)
        PROVE  b \in Seq(Intervals) /\ b[j] \in Intervals
    <2>1. b \in Seq(Intervals) /\ j \in 1 .. Len(b)
      BY <1>1 DEF SameRanges
    <2>. QED
      BY <2>1, ElementOfSeq
  <1>2. SameRanges(a, m1)
    <2>. DEFINE it == [m[new] EXCEPT !.spill = x]
    <2>1. m \in Seq(Intervals) /\ m[new] \in Intervals
      BY <1>1
    <2>2. it \in Intervals /\ it.ranges = m[new].ranges
      BY <2>1 DEF Intervals
    <2>. HIDE DEF it
    <2>3. SameRanges(a, With(m, new, it))
      BY <2>1, <2>2, SameRangesAt
    <2>. QED
      BY <2>3 DEF it
  <1>3. SameRanges(a, m2)
    <2>. DEFINE it == [m1[new] EXCEPT !.reload = reload]
    <2>. HIDE DEF m1
    <2>1. m1 \in Seq(Intervals) /\ m1[new] \in Intervals
      BY <1>1, <1>2
    <2>2. it \in Intervals /\ it.ranges = m1[new].ranges
      BY <2>1 DEF Intervals
    <2>. HIDE DEF it
    <2>3. SameRanges(a, With(m1, new, it))
      BY <1>2, <2>1, <2>2, SameRangesAt
    <2>. QED
      BY <2>3 DEF it
  <1>4. SameRanges(a, m3)
    <2>. DEFINE it == [m2[new] EXCEPT !.parent = n]
    <2>. HIDE DEF m2
    <2>1. m2 \in Seq(Intervals) /\ m2[new] \in Intervals
      BY <1>1, <1>3
    <2>2. it \in Intervals /\ it.ranges = m2[new].ranges
      BY <2>1 DEF Intervals
    <2>. HIDE DEF it
    <2>3. SameRanges(a, With(m2, new, it))
      BY <1>3, <2>1, <2>2, SameRangesAt
    <2>. QED
      BY <2>3 DEF it
  <1>5. SameRanges(a, m4)
    <2>. DEFINE it == [m3[i] EXCEPT !.spill = TRUE]
    <2>. HIDE DEF m3
    <2>1. m3 \in Seq(Intervals) /\ m3[i] \in Intervals
      BY <1>1, <1>4
    <2>2. it \in Intervals /\ it.ranges = m3[i].ranges
      BY <2>1 DEF Intervals
    <2>. HIDE DEF it
    <2>3. SameRanges(a, With(m3, i, it))
      BY <1>4, <2>1, <2>2, SameRangesAt
    <2>. QED
      BY <2>3 DEF it
  <1>. HIDE DEF m1, m2, m3, m4
  <1>. QED
    BY <1>0, <1>5

\* The rest of a spilled interval goes into the queue.
LEMMA SpillToOK ==
  ASSUME NEW s, NEW set, NEW cur, NEW pos, ScanAt(s, set, cur, pos),
         NEW i \in 1 .. Len(s.its), NEW new, NEW p, FreshIn(s, set, new, p), p >= pos,
         NEW reload \in BOOLEAN
  PROVE  ScanAt(SpillTo(s, i, new, reload), set, cur, pos)
  <1>0. /\ s \in ScanStates /\ Intact(s.its) /\ Len(s.its) \in Nat
        /\ HandledAt(s.its, set, cur, pos) /\ QueueAt(s.its, s.queue, set, pos)
    BY IntactOK DEF ScanAt
  <1>1. CASE ~s.ok
    BY <1>1 DEF SpillTo
  <1>2. CASE s.ok
    <2>. DEFINE m == MoveSpillParent(s.its, i, new)
                x == s.its[i].spill
                n == IF reload THEN i ELSE NULL
                b == [m EXCEPT ![new].spill = x, ![new].reload = reload,
                               ![new].parent = n, ![i].spill = TRUE]
                q == Enqueue(s.queue, s.its, new)
                t == Scan(b, q, TRUE)
    <2>1. SpillTo(s, i, new, reload) = t
      BY <1>2 DEF SpillTo
    <2>2. new \in 1 .. Len(s.its) /\ new \in Nat
      BY <1>0 DEF FreshIn
    <2>3. x \in BOOLEAN
      <3>1. s.its[i] \in Intervals
        BY <1>0, IntactOK
      <3>. QED
        BY <3>1 DEF Intervals
    <2>4. n \in Nat
      BY <1>0 DEF NULL
    <2>5. SameRanges(s.its, m)
      BY <1>0, <2>2, MoveSpillParentOK
    <2>. HIDE DEF m, n, x
    <2>6. SameRanges(s.its, b)
      BY <2>2, <2>3, <2>4, <2>5, SpillFields
    <2>. HIDE DEF b
    <2>7. Intact(b) /\ Grows(s.its, b)
      BY <1>0, <2>6, SameRangesOK
    <2>8. QueueAt(s.its, q, set, pos)
      BY <1>0, <2>2, EnqueueOK DEF FreshIn
    <2>. HIDE DEF q
    <2>9. HandledAt(b, set, cur, pos) /\ QueueAt(b, q, set, pos)
      BY <1>0, <2>7, <2>8, GrowsOK
    <2>10. t.its = b /\ t.queue = q /\ t \in ScanStates
      BY <2>7, <2>8 DEF Scan, ScanStates, Intact, QueueAt
    <2>. HIDE DEF t
    <2>11. ScanAt(t, set, cur, pos)
      BY <2>7, <2>9, <2>10 DEF ScanAt
    <2>. QED
      BY <2>1, <2>11
  <1>. QED
    BY <1>1, <1>2

\* What follows the place of a split
LEMMA SpillRestOK ==
  ASSUME NEW s, NEW set, NEW cur, NEW pos, ScanAt(s, set, cur, pos), pos \in Nat,
         NEW i \in 1 .. Len(s.its), NEW p \in Nat,
         s.ok => FreshIn(s, set, Len(s.its), p) /\ p >= pos
  PROVE  ScanAt(SpillRest(s, i), set, cur, pos)
  <1>. DEFINE n == Len(s.its)
              rest == s.its[n]
              u == NextUsePos(rest, 0)
              reload == u % 2 = 0
              new == n + IF u > IntervalStart(rest) THEN 1 ELSE 0
              t == Trim(s, n)
  <1>1. CASE ~s.ok \/ rest.uses = {}
    BY <1>1 DEF SpillRest
  <1>2. CASE ~(~s.ok \/ rest.uses = {})
    <2>0. /\ s \in ScanStates /\ Intact(s.its) /\ n \in Nat
          /\ n \in 1 .. Len(s.its) /\ rest \in Intervals
          /\ rest.ranges # <<>> /\ IntervalStart(rest) = p /\ p >= pos
          /\ FreshIn(s, set, n, p)
      <3>1. s \in ScanStates /\ Intact(s.its)
        BY DEF ScanAt
      <3>2. n \in Nat /\ \A j \in 1 .. n : s.its[j] \in Intervals
        BY <3>1, IntactOK
      <3>3. n \in 1 .. Len(s.its) /\ rest.ranges # <<>> /\ IntervalStart(rest) = p /\ p >= pos
        BY <1>2 DEF FreshIn
      <3>. QED
        BY <1>2, <3>1, <3>2, <3>3
    <2>1. u \in Nat
      <3>. HIDE DEF rest
      <3>. QED
        BY <2>0, NextUsePosOK
    <2>2. reload \in BOOLEAN
      OBVIOUS
    <2>3. SpillRest(s, i) = SpillTo(t, i, new, reload)
      BY <1>2 DEF SpillRest
    <2>4. CASE u > p
      <3>1. t = Split(s, n, u)
        BY <2>0, <2>4 DEF Trim
      <3>2. new = n + 1
        BY <2>0, <2>4
      <3>. HIDE DEF t, u, reload, new
      <3>3. /\ ScanAt(t, set, cur, pos) /\ Len(s.its) <= Len(t.its)
            /\ t.ok => Len(t.its) = Len(s.its) + 1 /\ FreshIn(t, set, Len(t.its), u)
        BY <2>0, <2>1, <3>1, SplitOK
      <3>4. CASE ~t.ok
        <4>1. SpillTo(t, i, new, reload) = t
          BY <3>4 DEF SpillTo
        <4>. QED
          BY <2>3, <3>3, <4>1
      <3>5. CASE t.ok
        <4>1. FreshIn(t, set, new, u) /\ u >= pos
          BY <2>0, <2>1, <2>4, <3>2, <3>3, <3>5
        <4>2. i \in 1 .. Len(t.its)
          BY <2>0, <3>3, <3>5
        <4>3. ScanAt(SpillTo(t, i, new, reload), set, cur, pos)
          BY <2>2, <3>3, <4>1, <4>2, SpillToOK
        <4>. QED
          BY <2>3, <4>3
      <3>. QED
        BY <3>4, <3>5
    <2>5. CASE ~(u > p)
      <3>1. t = s
        BY <2>0, <2>5 DEF Trim
      <3>2. new = n
        BY <2>0, <2>5
      <3>. HIDE DEF t, u, reload, new
      <3>3. ScanAt(SpillTo(s, i, new, reload), set, cur, pos)
        <4>1. FreshIn(s, set, new, p) /\ p >= pos
          BY <2>0, <3>2
        <4>. QED
          BY <2>2, <4>1, SpillToOK
      <3>. QED
        BY <2>3, <3>1, <3>3
    <2>. QED
      BY <2>4, <2>5
  <1>. QED
    BY <1>1, <1>2

\* The handled intervals in the scan
LEMMA ScanOK ==
  ASSUME NEW s, NEW set, NEW cur, NEW pos, ScanAt(s, set, cur, pos)
  PROVE  /\ s \in ScanStates /\ Intact(s.its) /\ s.its \in Seq(Intervals) /\ Len(s.its) \in Nat
         /\ set \subseteq 1 .. Len(s.its) /\ cur \in set /\ pos \in Nat
         /\ IntervalStart(s.its[cur]) = pos
         /\ \A j \in set : s.its[j] \in Intervals /\ Usable(s.its[j])
  <1>1. s \in ScanStates /\ Intact(s.its) /\ HandledAt(s.its, set, cur, pos)
    BY DEF ScanAt
  <1>2. Len(s.its) \in Nat /\ \A j \in 1 .. Len(s.its) : s.its[j] \in Intervals /\ InOrder(s.its[j].ranges)
    BY <1>1, IntactOK
  <1>3. set \subseteq 1 .. Len(s.its) /\ cur \in set /\ IntervalStart(s.its[cur]) = pos
    BY <1>1 DEF HandledAt
  <1>4. \A j \in set : s.its[j] \in Intervals /\ Usable(s.its[j])
    BY <1>1, <1>2 DEF HandledAt, Usable
  <1>5. pos \in Nat
    BY <1>3, <1>4, StartOK DEF Usable
  <1>. QED
    BY <1>1, <1>2, <1>3, <1>4, <1>5 DEF Intact

\* spill_interval: what is put into the queue starts no earlier than pos.
LEMMA SpillIntervalOK ==
  ASSUME NEW s, NEW set, NEW cur, NEW pos, ScanAt(s, set, cur, pos),
         NEW i \in set, NEW p \in Nat, i = cur \/ p >= pos
  PROVE  ScanAt(SpillInterval(s, i, p), set, cur, pos)
  <1>. DEFINE t == Split(s, i, p)
  <1>1. /\ i \in 1 .. Len(s.its) /\ s.its[i].ranges # <<>> /\ pos \in Nat /\ Len(s.its) \in Nat
        /\ IntervalStart(s.its[cur]) = pos
    BY ScanOK DEF Usable
  <1>2. SpillInterval(s, i, p) = SpillRest(t, i)
    BY DEF SpillInterval
  <1>. HIDE DEF t
  <1>3. /\ ScanAt(t, set, cur, pos) /\ Len(s.its) <= Len(t.its)
        /\ t.ok => CanSplitAt(s.its[i], p) /\ FreshIn(t, set, Len(t.its), p)
    BY <1>1, SplitOK DEF t
  <1>4. t.ok => p >= pos
    BY <1>1, <1>3 DEF CanSplitAt
  <1>5. i \in 1 .. Len(t.its)
    <2>1. i \in set
      OBVIOUS
    <2>. QED
      BY <1>3, <2>1, ScanOK
  <1>6. ScanAt(SpillRest(t, i), set, cur, pos)
    BY <1>1, <1>3, <1>4, <1>5, SpillRestOK
  <1>. QED
    BY <1>2, <1>6

\* An interval gets a register.
LEMMA TakeRegOK ==
  ASSUME NEW s, NEW set, NEW cur, NEW pos, ScanAt(s, set, cur, pos), NEW reg \in Nat
  PROVE  ScanAt([s EXCEPT !.its[cur].reg = reg], set, cur, pos)
  <1>. DEFINE t == [s EXCEPT !.its[cur].reg = reg]
              it == [s.its[cur] EXCEPT !.reg = reg]
              b == With(s.its, cur, it)
  <1>0. /\ s \in ScanStates /\ Intact(s.its) /\ s.its \in Seq(Intervals)
        /\ cur \in 1 .. Len(s.its) /\ s.its[cur] \in Intervals
    BY ScanOK
  <1>1. t = [s EXCEPT !.its = b]
    BY DEF With
  <1>2. it \in Intervals /\ it.ranges = s.its[cur].ranges
    BY <1>0 DEF Intervals
  <1>3. SameRanges(s.its, s.its)
    BY <1>0 DEF SameRanges
  <1>. HIDE DEF it
  <1>4. SameRanges(s.its, b)
    BY <1>0, <1>2, <1>3, SameRangesAt
  <1>. HIDE DEF b, t
  <1>5. Intact(b) /\ Grows(s.its, b)
    BY <1>0, <1>4, SameRangesOK
  <1>6. t \in ScanStates /\ t.its = b /\ t.queue = s.queue
    BY <1>0, <1>1, <1>5 DEF ScanStates, Intact
  <1>7. ScanAt(t, set, cur, pos)
    BY <1>5, <1>6, ScanGrows
  <1>. QED
    BY <1>7 DEF t

\* A free register is taken, up to where it is free.
LEMMA UseFreeOK ==
  ASSUME NEW s, NEW set, NEW cur, NEW pos, ScanAt(s, set, cur, pos),
         NEW reg \in Nat, NEW until \in Nat
  PROVE  ScanAt(UseFree(s, cur, reg, until), set, cur, pos)
  <1>. DEFINE part == IF IntervalEnd(s.its[cur]) <= until THEN s ELSE SpillInterval(s, cur, until)
  <1>1. CASE until = 0
    BY <1>1 DEF UseFree
  <1>2. CASE until # 0
    <2>1. UseFree(s, cur, reg, until) = [part EXCEPT !.its[cur].reg = reg]
      BY <1>2 DEF UseFree
    <2>2. ScanAt(part, set, cur, pos)
      <3>1. cur \in set
        BY ScanOK
      <3>2. ScanAt(SpillInterval(s, cur, until), set, cur, pos)
        BY <3>1, SpillIntervalOK
      <3>. QED
        BY <3>2
    <2>. HIDE DEF part
    <2>3. ScanAt([part EXCEPT !.its[cur].reg = reg], set, cur, pos)
      BY <2>2, TakeRegOK
    <2>. QED
      BY <2>1, <2>3
  <1>. QED
    BY <1>1, <1>2

\* try_to_allocate_free_reg
LEMMA TryToAllocateOK ==
  ASSUME NEW s, NEW set, NEW cur, NEW pos, ScanAt(s, set, cur, pos),
         NEW act, NEW inact, act \subseteq set, inact \subseteq set
  PROVE  ScanAt(TryToAllocateFreeReg(s, cur, act, inact), set, cur, pos)
  <1>. DEFINE free == FreeUntilPos(s.its, cur, act, inact)
              reg == PickRegister(free)
              until == free[reg]
  <1>1. /\ s.its \in Seq(Intervals) /\ cur \in 1 .. Len(s.its)
        /\ act \subseteq 1 .. Len(s.its) /\ inact \subseteq 1 .. Len(s.its)
    BY ScanOK
  <1>2. RegisterPositions(free)
    BY <1>1, FreeUntilPosOK
  <1>. HIDE DEF free
  <1>3. reg \in Registers
    BY <1>2, PickRegisterOK
  <1>. HIDE DEF reg
  <1>4. until \in Nat
    BY <1>2, <1>3 DEF RegisterPositions
  <1>5. reg \in Nat
    BY <1>3, SizesAssumption DEF Registers
  <1>6. TryToAllocateFreeReg(s, cur, act, inact) = UseFree(s, cur, reg, until)
    BY DEF TryToAllocateFreeReg, free, reg
  <1>. HIDE DEF until
  <1>7. ScanAt(UseFree(s, cur, reg, until), set, cur, pos)
    BY <1>4, <1>5, UseFreeOK
  <1>. QED
    BY <1>6, <1>7

\* spill_interval_intersecting: two intervals do not meet before cur starts.
LEMMA SpillIntersectingOK ==
  ASSUME NEW s, NEW set, NEW cur, NEW pos, ScanAt(s, set, cur, pos), NEW i \in set
  PROVE  ScanAt(SpillIntersecting(s, cur, i), set, cur, pos)
  <1>. DEFINE start == IntersectionStart(s.its[cur], s.its[i])
  <1>1. /\ s.its[cur] \in Intervals /\ Usable(s.its[cur]) /\ s.its[i] \in Intervals
        /\ IntervalStart(s.its[cur]) = pos
    BY ScanOK
  <1>2. start \in Nat /\ (start # Infinity => start >= pos)
    BY <1>1, IntersectionOK DEF Usable
  <1>. HIDE DEF start
  <1>3. SpillIntersecting(s, cur, i)
        = IF \/ s.its[i].reg # s.its[cur].reg
             \/ start = Infinity
             \/ start = IntervalStart(s.its[i])
          THEN s ELSE SpillInterval(s, i, start)
    BY DEF SpillIntersecting, start
  <1>4. start # Infinity => ScanAt(SpillInterval(s, i, start), set, cur, pos)
    BY <1>2, SpillIntervalOK
  <1>5. CASE \/ s.its[i].reg # s.its[cur].reg
             \/ start = Infinity
             \/ start = IntervalStart(s.its[i])
    BY <1>3, <1>5
  <1>6. CASE ~(\/ s.its[i].reg # s.its[cur].reg
               \/ start = Infinity
               \/ start = IntervalStart(s.its[i]))
    BY <1>3, <1>4, <1>6
  <1>. QED
    BY <1>5, <1>6

\* The others give way, one after the other.
GiveWays(part, cur, S) == FoldSet(LAMBDA i, acc : SpillIntersecting(acc, cur, i), part, S)

LEMMA GiveWayOK ==
  ASSUME NEW part, NEW set, NEW cur, NEW pos, ScanAt(part, set, cur, pos),
         NEW S, S \subseteq set, IsFiniteSet(S)
  PROVE  ScanAt(GiveWays(part, cur, S), set, cur, pos)
  <1>. DEFINE X == {t \in ScanStates : ScanAt(t, set, cur, pos)}
              g == [p \in S \X X |-> SpillIntersecting(p[2], cur, p[1])]
              Eq(h) == h = [s \in SUBSET S |->
                              IF s = {} THEN part
                              ELSE LET x == CHOOSE y \in s : TRUE
                                   IN SpillIntersecting(h[s \ {x}], cur, x)]
              iter[s \in SUBSET S] ==
                IF s = {} THEN part
                ELSE LET x == CHOOSE y \in s : TRUE IN SpillIntersecting(iter[s \ {x}], cur, x)
  <1>1. part \in X
    BY DEF ScanAt
  <1>2. GiveWays(part, cur, S) = iter[S]
    BY DEF GiveWays, FoldSet, MapThenFoldSet
  <1>3. ASSUME NEW j \in S, NEW t \in X PROVE SpillIntersecting(t, cur, j) \in X
    <2>1. j \in set /\ ScanAt(t, set, cur, pos)
      OBVIOUS
    <2>2. ScanAt(SpillIntersecting(t, cur, j), set, cur, pos)
      BY <2>1, SpillIntersectingOK
    <2>. QED
      BY <2>2 DEF ScanAt
  <1>. HIDE DEF X, iter
  <1>4. PICK f \in [SUBSET S -> X] : Folds(f, S, part, g)
    <2>1. g \in [S \X X -> X]
      BY <1>3
    <2>. HIDE DEF g
    <2>. QED
      BY <1>1, <2>1, FoldExists
  <1>5. Eq(f)
    <2>1. ASSUME NEW s \in SUBSET S, s # {}
          PROVE  f[s] = LET x == CHOOSE y \in s : TRUE IN SpillIntersecting(f[s \ {x}], cur, x)
      <3>1. Chosen(s) \in S /\ s \ {Chosen(s)} \in SUBSET S
        BY <2>1 DEF Chosen
      <3>2. f[s \ {Chosen(s)}] \in X
        BY <3>1
      <3>3. f[s] = g[<<Chosen(s), f[s \ {Chosen(s)}]>>]
        <4>. HIDE DEF g
        <4>. QED
          BY <1>4, <2>1 DEF Folds
      <3>4. f[s] = SpillIntersecting(f[s \ {Chosen(s)}], cur, Chosen(s))
        BY <3>1, <3>2, <3>3
      <3>. QED
        BY <3>4 DEF Chosen
    <2>2. ASSUME NEW s \in SUBSET S, s = {} PROVE f[s] = part
      <3>. HIDE DEF g
      <3>. QED
        BY <1>4, <2>2 DEF Folds
    <2>. HIDE DEF g
    <2>. QED
      BY <1>4, <2>1, <2>2
  <1>6. Eq(iter)
    <2>1. iter = CHOOSE h : Eq(h)
      BY DEF iter
    <2>. HIDE DEF Eq
    <2>. QED
      BY <1>5, <2>1
  <1>7. iter[{}] \in X
    BY <1>1, <1>6
  <1>8. ASSUME NEW s \in SUBSET S, s # {}, iter[s \ {Chosen(s)}] \in X PROVE iter[s] \in X
    <2>1. Chosen(s) \in S
      BY <1>8 DEF Chosen
    <2>2. iter[s] = SpillIntersecting(iter[s \ {Chosen(s)}], cur, Chosen(s))
      BY <1>6, <1>8 DEF Chosen
    <2>. QED
      BY <1>3, <1>8, <2>1, <2>2
  <1>9. iter[S] \in X
    <2>. HIDE DEF Eq, g
    <2>. QED
      BY <1>7, <1>8, FoldStays
  <1>. QED
    BY <1>2, <1>9 DEF X

\* allocate_blocked_reg
LEMMA UseBlockedOK ==
  ASSUME NEW s, NEW set, NEW cur, NEW pos, ScanAt(s, set, cur, pos),
         NEW others, others \subseteq set, IsFiniteSet(others),
         NEW reg \in Nat, NEW use, NEW block \in Nat
  PROVE  ScanAt(UseBlocked(s, cur, others, reg, use, block), set, cur, pos)
  <1>. DEFINE taken == [s EXCEPT !.its[cur].reg = reg]
              part == IF block < IntervalEnd(s.its[cur])
                        THEN SpillInterval(taken, cur, block) ELSE taken
              p == NextUsePos(s.its[cur], IntervalStart(s.its[cur]))
              all == GiveWays(part, cur, others)
  <1>1. cur \in set /\ s.its[cur] \in Intervals
    BY ScanOK
  <1>2. p \in Nat
    BY <1>1, NextUsePosOK
  <1>3. ScanAt(taken, set, cur, pos)
    BY TakeRegOK
  <1>. HIDE DEF taken, p
  <1>4. ScanAt(part, set, cur, pos)
    <2>1. ScanAt(SpillInterval(taken, cur, block), set, cur, pos)
      BY <1>1, <1>3, SpillIntervalOK
    <2>. QED
      BY <1>3, <2>1
  <1>5. ScanAt(SpillInterval(s, cur, p), set, cur, pos)
    BY <1>1, <1>2, SpillIntervalOK
  <1>. HIDE DEF part
  <1>6. ScanAt(all, set, cur, pos)
    BY <1>4, GiveWayOK
  <1>7. UseBlocked(s, cur, others, reg, use, block)
        = IF use < NextUsePos(s.its[cur], 0) THEN SpillInterval(s, cur, p) ELSE all
    BY DEF UseBlocked, part, taken, p, GiveWays
  <1>. HIDE DEF all
  <1>. QED
    BY <1>5, <1>6, <1>7

\* One interval is handled.
LEMMA AllocateRegOK ==
  ASSUME NEW s, NEW set, NEW cur, NEW pos, ScanAt(s, set, cur, pos),
         NEW act, NEW inact, act \subseteq set, inact \subseteq set, IsFiniteSet(act \cup inact)
  PROVE  ScanAt(AllocateReg(s, cur, act, inact), set, cur, pos)
  <1>. DEFINE use == UsePos(s.its, cur, act, inact)
              block == BlockPos(s.its, cur, act, inact)
              reg == PickRegister(use)
              others == act \cup inact
  <1>1. /\ s.its \in Seq(Intervals) /\ cur \in 1 .. Len(s.its)
        /\ act \subseteq 1 .. Len(s.its) /\ inact \subseteq 1 .. Len(s.its)
    BY ScanOK
  <1>2. RegisterPositions(use) /\ RegisterPositions(block)
    BY <1>1, UsePosOK
  <1>. HIDE DEF use, block
  <1>3. reg \in Registers
    BY <1>2, PickRegisterOK
  <1>4. AllocateReg(s, cur, act, inact) = s
        \/ AllocateReg(s, cur, act, inact) = UseBlocked(s, cur, others, reg, use[reg], block[reg])
    BY DEF AllocateReg, AllocateBlockedReg, use, block, reg, others
  <1>. HIDE DEF reg
  <1>5. block[reg] \in Nat /\ reg \in Nat
    BY <1>2, <1>3, SizesAssumption DEF RegisterPositions, Registers
  <1>6. others \subseteq set /\ IsFiniteSet(others)
    OBVIOUS
  <1>. HIDE DEF others
  <1>7. ScanAt(UseBlocked(s, cur, others, reg, use[reg], block[reg]), set, cur, pos)
    BY <1>5, <1>6, UseBlockedOK
  <1>. QED
    BY <1>4, <1>7

\* The queue without its top
LEMMA RestOfQueue ==
  ASSUME NEW q \in Seq(Elements(Nat)), IsHeap(q), Len(q) >= 1,
         IsFiniteSet(ToSet(q)), Cardinality(ToSet(q)) = Len(q),
         NEW r, r = pqueue_remove_top(q)
  PROVE  /\ r \in Seq(Elements(Nat)) /\ IsHeap(r)
         /\ IsFiniteSet(ToSet(r)) /\ Cardinality(ToSet(r)) = Len(r)
         /\ q[1] \in ToSet(q) /\ ToSet(r) = ToSet(q) \ {q[1]}
         /\ \A x \in ToSet(r) : q[1].key <= x.key
  <1>0. Len(q) \in Nat /\ DOMAIN q = 1 .. Len(q)
    BY QueueOK
  <1>1. /\ r \in Seq(Elements(Nat)) /\ Len(r) = Len(q) - 1 /\ IsHeap(r)
        /\ ToSet(r) = Others(q, Len(q), 1)
    BY SMTT(30), RemoveOK
  <1>2. ToSet(q) = {q[j] : j \in 1 .. Len(q)}
    BY <1>0 DEF ToSet
  <1>3. ToSet(q) = ToSet(r) \cup {q[1]} /\ q[1] \in ToSet(q)
    <2>1. ToSet(r) = {q[j] : j \in (1 .. Len(q)) \ {1}}
      BY <1>1 DEF Others
    <2>2. 1 \in 1 .. Len(q)
      BY <1>0
    <2>. QED
      BY <1>2, <2>1, <2>2, Zenon
  <1>4. IsFiniteSet(ToSet(r)) /\ Cardinality(ToSet(r)) <= Len(r)
    <2>. DEFINE f == [j \in 1 .. Len(r) |-> r[j]]
    <2>1. Len(r) \in Nat /\ DOMAIN r = 1 .. Len(r)
      BY <1>1, QueueOK
    <2>2. f \in Surjection(1 .. Len(r), ToSet(r))
      <3>1. ToSet(r) = {r[j] : j \in 1 .. Len(r)}
        BY <2>1 DEF ToSet
      <3>. QED
        BY <3>1 DEF Surjection
    <2>3. IsFiniteSet(1 .. Len(r)) /\ Cardinality(1 .. Len(r)) = Len(r)
      <3>1. 1 \in Int /\ Len(r) \in Int
        BY <2>1
      <3>2. /\ IsFiniteSet(1 .. Len(r))
            /\ Cardinality(1 .. Len(r)) = IF 1 > Len(r) THEN 0 ELSE Len(r) - 1 + 1
        BY <3>1, FS_Interval
      <3>. QED
        BY <2>1, <3>2
    <2>. HIDE DEF f
    <2>. QED
      BY <2>2, <2>3, FS_Surjection
  <1>5. q[1] \notin ToSet(r)
    <2>. SUFFICES ASSUME q[1] \in ToSet(r) PROVE FALSE
      OBVIOUS
    <2>1. ToSet(q) = ToSet(r)
      BY <1>3
    <2>. QED
      BY <1>0, <1>1, <1>4, <2>1
  <1>6. ToSet(r) = ToSet(q) \ {q[1]}
    BY <1>3, <1>5
  <1>7. Cardinality(ToSet(r)) = Len(r)
    BY <1>1, <1>3, <1>6, FS_RemoveElement
  <1>8. \A x \in ToSet(r) : q[1].key <= x.key
    <2>1. \A j \in 1 .. Len(q) : q[1].key <= q[j].key
      BY TopIsLeast
    <2>. QED
      BY <1>2, <1>6, <2>1
  <1>. QED
    BY <1>1, <1>3, <1>4, <1>6, <1>7, <1>8

\* The intervals of S have put their ranges aside.
ExpiredIn(a, S, b) ==
  /\ b \in Seq(Intervals) /\ Len(b) = Len(a)
  /\ \A j \in 1 .. Len(a) : (j \notin S => b[j] = a[j]) /\ (j \in S => Usable(b[j]))
Expirings(a, pos, S) ==
  FoldSet(LAMBDA i, acc : [acc EXCEPT ![i] = ExpireRangesBefore(a[i], pos)], a, S)

LEMMA ExpiringsOK ==
  ASSUME NEW a, Intact(a), NEW S, S \subseteq 1 .. Len(a), \A j \in S : a[j].ranges # <<>>,
         NEW pos \in Nat
  PROVE  ExpiredIn(a, S, Expirings(a, pos, S))
  <1>. DEFINE Moved(j, acc) == [acc EXCEPT ![j] = ExpireRangesBefore(a[j], pos)]
              X == {b \in Seq(Intervals) : ExpiredIn(a, S, b)}
              g == [p \in S \X X |-> Moved(p[1], p[2])]
              Eq(h) == h = [s \in SUBSET S |->
                              IF s = {} THEN a
                              ELSE LET x == CHOOSE y \in s : TRUE IN Moved(x, h[s \ {x}])]
              iter[s \in SUBSET S] ==
                IF s = {} THEN a
                ELSE LET x == CHOOSE y \in s : TRUE IN Moved(x, iter[s \ {x}])
  <1>0. /\ Len(a) \in Nat /\ DOMAIN a = 1 .. Len(a) /\ a \in Seq(Intervals)
        /\ \A j \in 1 .. Len(a) : a[j] \in Intervals /\ InOrder(a[j].ranges)
    BY IntactOK DEF Intact
  <1>1. IsFiniteSet(S)
    <2>1. IsFiniteSet(1 .. Len(a))
      BY <1>0, FS_Interval
    <2>. QED
      BY <2>1, FS_Subset
  <1>2. a \in X
    BY <1>0 DEF ExpiredIn, Usable
  <1>3. Expirings(a, pos, S) = iter[S]
    BY DEF Expirings, FoldSet, MapThenFoldSet
  <1>4. ASSUME NEW j \in S, NEW b \in X PROVE Moved(j, b) \in X
    <2>. DEFINE it == ExpireRangesBefore(a[j], pos)
    <2>1. j \in 1 .. Len(a) /\ a[j] \in Intervals /\ a[j].ranges # <<>> /\ InOrder(a[j].ranges)
      BY <1>0
    <2>2. it \in Intervals /\ Usable(it)
      BY <2>1, ExpireOK DEF Usable
    <2>3. Moved(j, b) = With(b, j, it)
      BY DEF With
    <2>. HIDE DEF it, Moved
    <2>4. b \in Seq(Intervals) /\ Len(b) = Len(a) /\ ExpiredIn(a, S, b)
      BY DEF ExpiredIn
    <2>5. /\ With(b, j, it) \in Seq(Intervals) /\ Len(With(b, j, it)) = Len(b)
          /\ \A k \in 1 .. Len(b) : With(b, j, it)[k] = IF k = j THEN it ELSE b[k]
      BY <2>1, <2>2, <2>4, ExceptSeq DEF With
    <2>6. ExpiredIn(a, S, With(b, j, it))
      BY <2>2, <2>4, <2>5 DEF ExpiredIn
    <2>. QED
      BY <2>3, <2>5, <2>6
  <1>. HIDE DEF Moved, X, iter
  <1>5. PICK f \in [SUBSET S -> X] : Folds(f, S, a, g)
    <2>1. g \in [S \X X -> X]
      BY <1>4
    <2>. HIDE DEF g
    <2>. QED
      BY <1>1, <1>2, <2>1, FoldExists
  <1>6. Eq(f)
    <2>1. ASSUME NEW s \in SUBSET S, s # {}
          PROVE  f[s] = LET x == CHOOSE y \in s : TRUE IN Moved(x, f[s \ {x}])
      <3>1. Chosen(s) \in S /\ s \ {Chosen(s)} \in SUBSET S
        BY <2>1 DEF Chosen
      <3>2. f[s \ {Chosen(s)}] \in X
        BY <3>1
      <3>3. f[s] = g[<<Chosen(s), f[s \ {Chosen(s)}]>>]
        <4>. HIDE DEF g
        <4>. QED
          BY <1>5, <2>1 DEF Folds
      <3>4. f[s] = Moved(Chosen(s), f[s \ {Chosen(s)}])
        BY <3>1, <3>2, <3>3
      <3>. QED
        BY <3>4 DEF Chosen
    <2>2. ASSUME NEW s \in SUBSET S, s = {} PROVE f[s] = a
      <3>. HIDE DEF g
      <3>. QED
        BY <1>5, <2>2 DEF Folds
    <2>. HIDE DEF g
    <2>. QED
      BY <1>5, <2>1, <2>2
  <1>7. Eq(iter)
    <2>1. iter = CHOOSE h : Eq(h)
      BY DEF iter
    <2>. HIDE DEF Eq
    <2>. QED
      BY <1>6, <2>1
  <1>8. iter[{}] \in X
    BY <1>2, <1>7
  <1>9. ASSUME NEW s \in SUBSET S, s # {}, iter[s \ {Chosen(s)}] \in X PROVE iter[s] \in X
    <2>1. Chosen(s) \in S
      BY <1>9 DEF Chosen
    <2>2. iter[s] = Moved(Chosen(s), iter[s \ {Chosen(s)}])
      BY <1>7, <1>9 DEF Chosen
    <2>. QED
      BY <1>4, <1>9, <2>1, <2>2
  <1>10. iter[S] \in X
    <2>. HIDE DEF Eq, g
    <2>. QED
      BY <1>1, <1>8, <1>9, FoldStays
  <1>. QED
    BY <1>3, <1>10 DEF X

\* Between two turns of the loop: set are the active and inactive intervals.
AllocAt(a, q, set) ==
  /\ Intact(a) /\ \A j \in set : j \in 1 .. Len(a) /\ a[j].ranges # <<>>
  /\ QueueAt(a, q, set, 0)

\* A turn of the loop begins with the interval that starts first.
LEMMA TurnStarts ==
  ASSUME NEW a, NEW q, NEW set, AllocAt(a, q, set), q # <<>>,
         NEW cur, cur = q[1].value, NEW pos, pos = IntervalStart(a[cur]),
         NEW here, here \subseteq set,
         NEW s, s = Scan(Expirings(a, pos, here), pqueue_remove_top(q), TRUE)
  PROVE  pos \in Nat /\ IsFiniteSet(here) /\ ScanAt(s, here \cup {cur}, cur, pos)
  <1>. DEFINE b == Expirings(a, pos, here)
              r == pqueue_remove_top(q)
              H == here \cup {cur}
  <1>0. /\ Intact(a) /\ Len(a) \in Nat
        /\ \A j \in 1 .. Len(a) : a[j] \in Intervals /\ InOrder(a[j].ranges)
    BY IntactOK DEF AllocAt
  <1>1. /\ q \in Seq(Elements(Nat)) /\ IsHeap(q) /\ IsFiniteSet(ToSet(q))
        /\ Cardinality(ToSet(q)) = Len(q) /\ \A x \in ToSet(q) : NodeOK(a, x, set, 0)
    BY DEF AllocAt, QueueAt
  <1>2. Len(q) >= 1
    BY <1>1
  <1>3. /\ r \in Seq(Elements(Nat)) /\ IsHeap(r)
        /\ IsFiniteSet(ToSet(r)) /\ Cardinality(ToSet(r)) = Len(r)
        /\ q[1] \in ToSet(q) /\ ToSet(r) = ToSet(q) \ {q[1]}
        /\ \A x \in ToSet(r) : q[1].key <= x.key
    BY <1>1, <1>2, RestOfQueue
  <1>4. /\ cur \in 1 .. Len(a) /\ cur \notin set /\ a[cur].ranges # <<>> /\ q[1].key = pos
    BY <1>1, <1>3 DEF NodeOK
  <1>5. pos \in Nat
    BY <1>0, <1>4, StartOK
  <1>6. here \subseteq 1 .. Len(a) /\ \A j \in here : a[j].ranges # <<>>
    BY DEF AllocAt
  <1>7. IsFiniteSet(here)
    <2>1. IsFiniteSet(1 .. Len(a))
      BY <1>0, FS_Interval
    <2>. QED
      BY <1>6, <2>1, FS_Subset
  <1>8. ExpiredIn(a, here, b)
    BY <1>0, <1>5, <1>6, ExpiringsOK
  <1>. HIDE DEF b, r
  <1>9. /\ b \in Seq(Intervals) /\ Len(b) = Len(a)
        /\ \A j \in 1 .. Len(a) : (j \notin here => b[j] = a[j])
        /\ \A j \in here : Usable(b[j])
    BY <1>6, <1>8 DEF ExpiredIn
  <1>10. Intact(b)
    BY <1>0, <1>9 DEF Intact, Usable
  <1>11. cur \notin here /\ b[cur] = a[cur]
    BY <1>4, <1>9
  <1>12. HandledAt(b, H, cur, pos)
    <2>1. \A j \in here : j \in 1 .. Len(b) /\ b[j].ranges # <<>>
      BY <1>6, <1>9 DEF Usable
    <2>2. cur \in 1 .. Len(b) /\ b[cur].ranges # <<>> /\ IntervalStart(b[cur]) = pos
      BY <1>4, <1>9, <1>11
    <2>. QED
      BY <2>1, <2>2 DEF HandledAt
  <1>13. ASSUME NEW x \in ToSet(r) PROVE NodeOK(b, x, H, pos)
    <2>1. x \in ToSet(q) /\ x # q[1] /\ q[1].key <= x.key
      BY <1>3
    <2>2. /\ x.value \in 1 .. Len(a) /\ x.value \notin set /\ a[x.value].ranges # <<>>
          /\ x.key = IntervalStart(a[x.value])
      BY <1>1, <2>1 DEF NodeOK
    <2>3. x.value # cur
      <3>. SUFFICES ASSUME x.value = cur PROVE FALSE
        OBVIOUS
      <3>1. x.key = q[1].key /\ x.value = q[1].value
        BY <1>4, <2>2
      <3>2. x \in Elements(Nat) /\ q[1] \in Elements(Nat)
        <4>1. \A y \in ToSet(q) : \E j \in 1 .. Len(q) : y = q[j]
          BY <1>1, QueueOK DEF ToSet
        <4>2. \A y \in ToSet(q) : y \in Elements(Nat)
          BY <1>1, <4>1, QueueOK
        <4>. QED
          BY <1>3, <2>1, <4>2
      <3>3. x = q[1]
        BY <3>1, <3>2 DEF Elements
      <3>. QED
        BY <2>1, <3>3
    <2>4. x.value \notin here /\ b[x.value] = a[x.value]
      BY <1>9, <2>2
    <2>5. x.value \in 1 .. Len(b) /\ x.value \notin H /\ b[x.value].ranges # <<>>
      BY <1>9, <2>2, <2>3, <2>4
    <2>6. x.key = IntervalStart(b[x.value])
      BY <2>2, <2>4
    <2>7. x.key >= pos
      <3>1. x.key \in Nat
        BY <1>0, <2>2, StartOK
      <3>. QED
        BY <1>4, <1>5, <2>1, <3>1
    <2>. QED
      BY <2>5, <2>6, <2>7 DEF NodeOK
  <1>. HIDE DEF H
  <1>14. QueueAt(b, r, H, pos)
    BY <1>3, <1>13 DEF QueueAt
  <1>15. s.its = b /\ s.queue = r /\ s \in ScanStates
    BY <1>3, <1>9 DEF Scan, ScanStates, b, r
  <1>16. ScanAt(s, H, cur, pos)
    BY <1>10, <1>12, <1>14, <1>15 DEF ScanAt
  <1>. QED
    BY <1>5, <1>7, <1>16 DEF H

\* At its end what is in the queue starts no earlier.
LEMMA TurnEnds ==
  ASSUME NEW s, NEW set, NEW cur, NEW pos, ScanAt(s, set, cur, pos),
         NEW T, T \subseteq set
  PROVE  /\ AllocAt(s.its, s.queue, T)
         /\ s.queue # <<>> => pos <= IntervalStart(s.its[s.queue[1].value])
  <1>1. Intact(s.its) /\ HandledAt(s.its, set, cur, pos) /\ QueueAt(s.its, s.queue, set, pos)
    BY DEF ScanAt
  <1>2. pos \in Nat
    BY ScanOK
  <1>3. \A j \in T : j \in 1 .. Len(s.its) /\ s.its[j].ranges # <<>>
    BY <1>1 DEF HandledAt
  <1>4. ASSUME NEW x \in ToSet(s.queue)
        PROVE  NodeOK(s.its, x, T, 0) /\ pos <= IntervalStart(s.its[x.value])
    <2>1. NodeOK(s.its, x, set, pos)
      BY <1>1 DEF QueueAt
    <2>2. x.value \in 1 .. Len(s.its) /\ s.its[x.value].ranges # <<>> /\ x.value \notin T
      BY <2>1 DEF NodeOK
    <2>3. x.key = IntervalStart(s.its[x.value]) /\ x.key >= pos
      BY <2>1 DEF NodeOK
    <2>4. IntervalStart(s.its[x.value]) \in Nat
      BY <1>1, <2>2, StartOK, IntactOK
    <2>. QED
      BY <1>2, <2>2, <2>3, <2>4 DEF NodeOK
  <1>5. QueueAt(s.its, s.queue, T, 0)
    BY <1>1, <1>4 DEF QueueAt
  <1>6. AllocAt(s.its, s.queue, T)
    BY <1>1, <1>3, <1>5 DEF AllocAt
  <1>7. ASSUME s.queue # <<>> PROVE s.queue[1] \in ToSet(s.queue)
    <2>1. s.queue \in Seq(Elements(Nat))
      BY <1>1 DEF QueueAt
    <2>2. DOMAIN s.queue = 1 .. Len(s.queue) /\ Len(s.queue) \in Nat /\ Len(s.queue) # 0
      BY <1>7, <2>1
    <2>3. 1 \in DOMAIN s.queue
      BY <2>2
    <2>. QED
      BY <2>3 DEF ToSet
  <1>. QED
    BY <1>4, <1>6, <1>7

\* One turn of the loop of allocate_registers
LEMMA AllocateStep ==
  ASSUME AllocAt(its, unhandled, active \cup inactive), AllocateRegister
  PROVE  /\ AllocAt(its', unhandled', active' \cup inactive')
         /\ unhandled' # <<>> => IntervalStart(its[unhandled[1].value])
                                   <= IntervalStart(its'[unhandled'[1].value])
  <1>. DEFINE cur == unhandled[1].value
              pos == IntervalStart(its[cur])
              here == {i \in active \cup inactive : IntervalEnd(its[i]) > pos}
              covering == {i \in here : IntervalCovers(its[i], pos)}
              rest == here \ covering
              start == Scan(Expirings(its, pos, here), pqueue_remove_top(unhandled), TRUE)
              free == TryToAllocateFreeReg(start, cur, covering, rest)
              s == AllocateReg(free, cur, covering, rest)
              H == here \cup {cur}
  <1>1. /\ unhandled # <<>>
        /\ its' = s.its /\ unhandled' = s.queue
        /\ active' = covering \cup (IF s.its[cur].reg # NULL THEN {cur} ELSE {})
        /\ inactive' = rest
    BY DEF AllocateRegister, Expirings
  <1>2. here \subseteq active \cup inactive
    OBVIOUS
  <1>3. covering \subseteq H /\ rest \subseteq H /\ covering \cup rest \subseteq here
    BY SMTT(30)
  <1>4. pos \in Nat /\ IsFiniteSet(here) /\ ScanAt(start, H, cur, pos)
    <2>. HIDE DEF here
    <2>. QED
      BY <1>1, <1>2, TurnStarts
  <1>5. active' \cup inactive' \subseteq H
    BY <1>1
  <1>. HIDE DEF start, covering, rest, here
  <1>6. IsFiniteSet(covering \cup rest)
    BY <1>3, <1>4, FS_Subset
  <1>. HIDE DEF H, cur, pos
  <1>7. ScanAt(free, H, cur, pos)
    BY <1>3, <1>4, TryToAllocateOK
  <1>. HIDE DEF free
  <1>8. ScanAt(s, H, cur, pos)
    BY <1>3, <1>6, <1>7, AllocateRegOK
  <1>. HIDE DEF s
  <1>. DEFINE T == active' \cup inactive'
  <1>9. T \subseteq H
    BY <1>5
  <1>. HIDE DEF T
  <1>10. AllocAt(s.its, s.queue, T) /\ (s.queue # <<>> => pos <= IntervalStart(s.its[s.queue[1].value]))
    BY <1>8, <1>9, TurnEnds
  <1>11. AllocAt(its', unhandled', T)
    BY <1>1, <1>10
  <1>12. unhandled' # <<>> => pos <= IntervalStart(its'[unhandled'[1].value])
    BY <1>1, <1>10
  <1>. QED
    BY SMTT(30), <1>11, <1>12 DEF T, pos, cur

\* The queue after n variables: the newest n of them are in it.
QueuedUpTo(a, set, n, q) ==
  QueueAt(a, q, set, 0) /\ \A x \in ToSet(q) : x.value > NrVregs - n

\* A round of the loop that fills the queue
FillRound(a, used, n, q) == IF VarInfos[n] \in used THEN Enqueue(q, a, VarInfos[n]) ELSE q

LEMMA FillRoundOK ==
  ASSUME NEW a, Intact(a), Vregs \subseteq 1 .. Len(a), NEW set, set \cap Vregs = {},
         NEW used, used = {i \in DOMAIN a : a[i].ranges # <<>>},
         NEW n \in 1 .. NrVregs, NEW q, QueuedUpTo(a, set, n - 1, q)
  PROVE  QueuedUpTo(a, set, n, FillRound(a, used, n, q))
  <1>. DEFINE v == VarInfos[n]
              e == Enqueue(q, a, v)
  <1>0. NrVregs \in Nat /\ n \in Vregs
    BY SizesAssumption DEF Vregs
  <1>1. v = NrVregs + 1 - n /\ v \in Vregs /\ v \in Nat
    BY <1>0 DEF VarInfos, Vregs
  <1>2. QueueAt(a, q, set, 0) /\ \A x \in ToSet(q) : x.value > NrVregs - (n - 1)
    BY DEF QueuedUpTo
  <1>3. \A x \in ToSet(q) : x.value \in Nat
    <2>1. \A x \in ToSet(q) : x.value \in 1 .. Len(a)
      BY <1>2 DEF QueueAt, NodeOK
    <2>2. Len(a) \in Nat
      BY IntactOK
    <2>. QED
      BY <2>1, <2>2
  <1>4. \A x \in ToSet(q) : x.value > NrVregs - n /\ x.value # v
    BY <1>0, <1>1, <1>2, <1>3
  <1>5. CASE v \notin used
    BY <1>2, <1>4, <1>5 DEF FillRound, QueuedUpTo
  <1>6. CASE v \in used
    <2>1. v \in 1 .. Len(a) /\ v \notin set /\ a[v].ranges # <<>>
      BY <1>1, <1>6
    <2>2. IntervalStart(a[v]) \in Nat /\ IntervalStart(a[v]) \in Int
      BY <2>1, IntactOK, StartOK
    <2>3. IntervalStart(a[v]) >= 0
      BY <2>2
    <2>. HIDE DEF v
    <2>4. QueueAt(a, e, set, 0)
      BY <1>2, <1>4, <2>1, <2>3, EnqueueOK
    <2>5. ToSet(e) = ToSet(q) \cup {Node(IntervalStart(a[v]), v)}
      <3>1. q \in Seq(Elements(Nat)) /\ IsHeap(q)
        BY <1>2 DEF QueueAt
      <3>. QED
        BY <1>1, <2>2, <3>1, InsertOK DEF Enqueue
    <2>6. Node(IntervalStart(a[v]), v).value = v
      BY DEF Node
    <2>7. v > NrVregs - n
      BY <1>0, <1>1
    <2>. HIDE DEF e
    <2>8. \A x \in ToSet(e) : x.value > NrVregs - n
      BY <1>4, <2>5, <2>6, <2>7
    <2>9. FillRound(a, used, n, q) = e
      BY <1>6 DEF FillRound, v, e
    <2>. QED
      BY <2>4, <2>8, <2>9 DEF QueuedUpTo
  <1>. QED
    BY <1>5, <1>6

\* The queue when the loop of allocate_registers begins
FirstQueue(a, used) ==
  LET after[n \in 0 .. NrVregs] ==
        IF n = 0 THEN <<>>
        ELSE IF VarInfos[n] \in used THEN Enqueue(after[n - 1], a, VarInfos[n])
        ELSE after[n - 1]
  IN  after[NrVregs]

LEMMA FirstQueueOK ==
  ASSUME NEW a, Intact(a), Vregs \subseteq 1 .. Len(a), NEW set, set \cap Vregs = {},
         NEW used, used = {i \in DOMAIN a : a[i].ranges # <<>>}
  PROVE  QueueAt(a, FirstQueue(a, used), set, 0)
  <1>. DEFINE N == NrVregs
              X == Seq(Elements(Nat))
              Good(n, q) == QueuedUpTo(a, set, n, q)
              G == [n \in 0 .. N |-> {q \in X : Good(n, q)}]
              g == [p \in (1 .. N) \X X |-> FillRound(a, used, p[1], p[2])]
              Eq(h) == h = [n \in 0 .. NrVregs |->
                              IF n = 0 THEN <<>> ELSE FillRound(a, used, n, h[n - 1])]
              after[n \in 0 .. NrVregs] ==
                IF n = 0 THEN <<>>
                ELSE IF VarInfos[n] \in used THEN Enqueue(after[n - 1], a, VarInfos[n])
                ELSE after[n - 1]
              x == << >>
  <1>0. N \in Nat
    BY SizesAssumption
  <1>1. x \in X /\ Good(0, x)
    <2>1. x \in X /\ Len(x) = 0 /\ ToSet(x) = {}
      BY DEF ToSet
    <2>. HIDE DEF x
    <2>2. IsHeap(x)
      BY <2>1 DEF IsHeap
    <2>3. IsFiniteSet(ToSet(x)) /\ Cardinality(ToSet(x)) = 0
      BY <2>1, FS_EmptySet
    <2>. QED
      BY <2>1, <2>2, <2>3 DEF QueuedUpTo, QueueAt
  <1>2. ASSUME NEW n \in 1 .. N, NEW q \in X, Good(n - 1, q)
        PROVE  FillRound(a, used, n, q) \in X /\ Good(n, FillRound(a, used, n, q))
    <2>1. QueuedUpTo(a, set, n, FillRound(a, used, n, q))
      BY <1>2, FillRoundOK
    <2>. QED
      BY <2>1 DEF QueuedUpTo, QueueAt
  <1>. HIDE DEF X, Good
  <1>3. ASSUME NEW n \in 1 .. N, NEW q \in G[n - 1]
        PROVE  q \in X /\ FillRound(a, used, n, q) \in G[n]
    <2>1. n - 1 \in 0 .. N /\ n \in 0 .. N
      BY <1>0
    <2>2. q \in X /\ Good(n - 1, q)
      BY <2>1
    <2>3. FillRound(a, used, n, q) \in X /\ Good(n, FillRound(a, used, n, q))
      BY <1>2, <2>2
    <2>. QED
      BY <2>1, <2>2, <2>3
  <1>4. x \in G[0]
    <2>. HIDE DEF x
    <2>. QED
      BY <1>0, <1>1
  <1>5. PICK f : Recurs(f, N, x, G, g)
    <2>1. G \in [0 .. N -> SUBSET X]
      OBVIOUS
    <2>2. ASSUME NEW n \in 1 .. N, NEW q \in G[n - 1] PROVE g[<<n, q>>] \in G[n]
      <3>1. g[<<n, q>>] = FillRound(a, used, n, q)
        BY <1>3
      <3>. QED
        BY <1>3, <3>1
    <2>. HIDE DEF G, g, N, x
    <2>3. Steps(N, x, G, g)
      BY <1>0, <1>4, <2>2 DEF Steps
    <2>. QED
      BY <2>1, <2>3, Recursion
  <1>6. Eq(f)
    <2>1. ASSUME NEW n \in 1 .. N PROVE f[n] = FillRound(a, used, n, f[n - 1])
      <3>1. n - 1 \in 0 .. N
        BY <1>0
      <3>2. f[n] = g[<<n, f[n - 1]>>] /\ f[n - 1] \in G[n - 1]
        <4>. HIDE DEF G, g, N, x
        <4>. QED
          BY <1>5, <3>1 DEF Recurs
      <3>3. f[n - 1] \in X
        BY <3>1, <3>2
      <3>. QED
        BY <3>2, <3>3
    <2>2. f[0] = x /\ f = [n \in 0 .. N |-> f[n]]
      <3>. HIDE DEF G, g, N, x
      <3>. QED
        BY <1>5 DEF Recurs
    <2>3. \A n \in 0 .. N : n = 0 \/ n \in 1 .. N
      BY <1>0
    <2>. HIDE DEF G, g
    <2>. QED
      BY <2>1, <2>2, <2>3
  <1>7. Eq(after)
    <2>1. after = CHOOSE h : Eq(h)
      BY DEF FillRound
    <2>. HIDE DEF Eq, after
    <2>. QED
      BY <1>6, <2>1
  <1>8. FirstQueue(a, used) = after[N]
    BY DEF FirstQueue
  <1>. HIDE DEF after
  <1>9. after[0] = x /\ \A n \in 1 .. N : after[n] = FillRound(a, used, n, after[n - 1])
    <2>1. after[0] = x
      BY <1>0, <1>7
    <2>2. ASSUME NEW n \in 1 .. N PROVE after[n] = FillRound(a, used, n, after[n - 1])
      <3>1. n \in 0 .. NrVregs /\ n # 0
        BY <1>0
      <3>. QED
        BY <1>7, <3>1
    <2>. QED
      BY <2>1, <2>2
  <1>10. after[N] \in X /\ Good(N, after[N])
    <2>1. \A n \in 1 .. N : after[n - 1] \in G[n - 1] => after[n] \in G[n]
      BY <1>3, <1>9
    <2>. HIDE DEF x
    <2>2. after[0] \in G[0]
      BY <1>4, <1>9
    <2>3. \A n \in 0 .. N : after[n] \in G[n]
      <3>. HIDE DEF G, N
      <3>. QED
        BY <1>0, <2>1, <2>2, RecursionStays
    <2>4. N \in 0 .. N
      BY <1>0
    <2>. HIDE DEF N
    <2>5. after[N] \in G[N]
      BY <2>3, <2>4
    <2>. QED
      BY <2>4, <2>5
  <1>. QED
    BY <1>8, <1>10 DEF Good, QueuedUpTo

\* allocate_registers up to its loop
LEMMA StartStep ==
  ASSUME BetweenInv(code, its, 1), active = {}, StartAllocation
  PROVE  AllocAt(its', unhandled', active' \cup inactive')
  <1>. DEFINE used == {i \in DOMAIN its : its[i].ranges # <<>>}
              set == {i \in used : its[i].fixed}
              q == FirstQueue(its, used)
  <1>1. its' = its /\ active' = {} /\ inactive' = set /\ unhandled' = q
    BY DEF StartAllocation, FirstQueue
  <1>2. NrVregs \in Nat /\ NrRegisters \in Nat
    BY SizesAssumption
  <1>3. its \in Seq(Intervals) /\ Len(its) = NrVregs + NrRegisters /\ DOMAIN its = 1 .. Len(its)
    BY <1>2 DEF BetweenInv, Numbers
  <1>4. ASSUME NEW j \in 1 .. Len(its) PROVE InOrder(its[j].ranges)
    <2>1. CASE j \in Vregs
      BY <2>1 DEF BetweenInv
    <2>2. CASE j \notin Vregs
      <3>1. j \in Numbers \ Vregs
        BY <1>3, <2>2 DEF Numbers
      <3>. QED
        BY <3>1 DEF BetweenInv, FixedInv
    <2>. QED
      BY <2>1, <2>2
  <1>5. Intact(its)
    BY <1>3, <1>4 DEF Intact
  <1>6. Vregs \subseteq 1 .. Len(its)
    BY <1>2, <1>3 DEF Vregs
  <1>7. set \cap Vregs = {}
    BY DEF BetweenInv
  <1>8. \A j \in set : j \in 1 .. Len(its) /\ its[j].ranges # <<>>
    BY <1>3
  <1>9. QueueAt(its, q, set, 0)
    <2>. HIDE DEF set
    <2>. QED
      BY <1>5, <1>6, <1>7, FirstQueueOK
  <1>. HIDE DEF set, q
  <1>10. AllocAt(its, q, set)
    BY <1>5, <1>8, <1>9 DEF AllocAt
  <1>11. active' \cup inactive' = set
    BY <1>1
  <1>. QED
    BY <1>1, <1>10, <1>11

-----------------------------------------------------------------------------
(* The invariant of the scan                                               *)

\* No interval is active before the scan.  In the scan the queue is a heap of
\* the unhandled intervals, by where they start.
AllocInv ==
  /\ phase \in {"select", "flow", "liveness", "ranges", "intervals"} => active = {}
  /\ phase = "allocate" => AllocAt(its, unhandled, active \cup inactive)

\* What the steps after the scan leave alone
Behind ==
  /\ phase' \in {"run", "done", "assert"}
  /\ phase = "allocate" => unhandled = <<>>

LEMMA BehindSteps ==
  ASSUME InsertSpillReloadInsns \/ Execute \/ MoveValue \/ TakeBranch \/ FallThrough
         \/ Return \/ Done
  PROVE  Behind
  <1>1. ASSUME InsertSpillReloadInsns PROVE Behind
    BY <1>1, Zenon DEF InsertSpillReloadInsns, Behind
  <1>2. ASSUME Execute \/ MoveValue \/ TakeBranch \/ FallThrough PROVE phase = "run" /\ phase' = phase
    BY <1>2, Zenon DEF Execute, MoveValue, TakeBranch, FallThrough, Running
  <1>3. ASSUME Return PROVE Behind
    BY <1>3 DEF Return, Running, Behind
  <1>4. ASSUME Done PROVE Behind
    BY <1>4 DEF Done, vars, Behind
  <1>. QED
    BY <1>1, <1>2, <1>3, <1>4 DEF Behind

\* Every step keeps the invariant, and the scan advances.
LEMMA AllocStep ==
  ASSUME LiveInv, AllocInv, [Next]_vars
  PROVE  /\ AllocInv'
         /\ vars' = vars \/ (phase = "allocate" /\ unhandled # <<>> /\ unhandled' # <<>>
                             => IntervalStart(its[unhandled[1].value])
                                  <= IntervalStart(its'[unhandled'[1].value]))
  <1>. DEFINE Advances ==
         phase = "allocate" /\ unhandled # <<>> /\ unhandled' # <<>>
           => IntervalStart(its[unhandled[1].value]) <= IntervalStart(its'[unhandled'[1].value])
  <1>1. ASSUME NEW insn, Select(insn) PROVE AllocInv' /\ phase # "allocate"
    BY <1>1 DEF Select, AllocInv, passes
  <1>2. ASSUME NEW op, NEW target, SelectBranch(op, target) PROVE AllocInv' /\ phase # "allocate"
    BY <1>1, <1>2 DEF SelectBranch
  <1>3. ASSUME SelectReturn PROVE AllocInv' /\ phase # "allocate"
    BY <1>3 DEF SelectReturn, AllocInv, passes
  <1>4. ASSUME BuildBlocks PROVE AllocInv' /\ phase # "allocate"
    BY <1>4 DEF BuildBlocks, AllocInv
  <1>5. ASSUME AnalyzeLiveSets PROVE AllocInv' /\ phase # "allocate"
    <2>1. phase = "liveness" /\ phase' \in {"ranges", "liveness"} /\ active' = active
      BY <1>5 DEF AnalyzeLiveSets
    <2>. QED
      BY <2>1 DEF AllocInv
  <1>6. ASSUME BuildIntervals PROVE AllocInv' /\ phase # "allocate"
    BY <1>6 DEF BuildIntervals, AllocInv
  <1>7. ASSUME StartAllocation PROVE AllocInv' /\ phase # "allocate"
    <2>1. phase = "intervals" /\ phase' = "allocate"
      BY <1>7, Zenon DEF StartAllocation
    <2>2. BetweenInv(code, its, 1) /\ active = {}
      BY <2>1 DEF LiveInv, AllocInv
    <2>3. AllocAt(its', unhandled', active' \cup inactive')
      BY <1>7, <2>2, StartStep
    <2>. QED
      BY <2>1, <2>3 DEF AllocInv
  <1>8. ASSUME AllocateRegister PROVE AllocInv' /\ Advances
    <2>1. phase = "allocate" /\ phase' \in {"allocate", "assert"}
      BY <1>8, Zenon DEF AllocateRegister
    <2>2. AllocAt(its, unhandled, active \cup inactive)
      BY <2>1 DEF AllocInv
    <2>3. /\ AllocAt(its', unhandled', active' \cup inactive')
          /\ unhandled' # <<>> => IntervalStart(its[unhandled[1].value])
                                    <= IntervalStart(its'[unhandled'[1].value])
      BY <1>8, <2>2, AllocateStep
    <2>. QED
      BY <2>1, <2>3 DEF AllocInv
  <1>9. ASSUME Behind PROVE AllocInv' /\ Advances
    BY <1>9 DEF Behind, AllocInv
  <1>10. ASSUME UNCHANGED vars PROVE AllocInv'
    BY <1>10 DEF AllocInv, vars
  <1>11. phase # "allocate" => Advances
    OBVIOUS
  <1>. HIDE DEF Advances
  <1>12. CASE UNCHANGED vars
    BY <1>10, <1>12
  <1>13. CASE Next
    <2>1. AllocInv' /\ Advances
      BY <1>1, <1>2, <1>3, <1>4, <1>5, <1>6, <1>7, <1>8, <1>9, <1>11, <1>13, BehindSteps DEF Next
    <2>. QED
      BY <2>1 DEF Advances
  <1>. QED
    BY <1>12, <1>13

\* allocate_registers goes through the positions in order: whatever is split,
\* spilled and put back into the queue of lib/pqueue.c, the interval that a turn
\* of its loop takes starts no earlier than the one that the turn before took.
THEOREM ScanAdvancesAlways == Spec => ScanAdvances
  <1>. DEFINE Advances ==
         phase = "allocate" /\ unhandled # <<>> /\ unhandled' # <<>>
           => IntervalStart(its[unhandled[1].value]) <= IntervalStart(its'[unhandled'[1].value])
  <1>1. Init => CodeInv
    BY CodeInit
  <1>2. Init => LiveInv
    BY DEF Init, LiveInv, LivesAreCovered
  <1>3. Init => AllocInv
    BY DEF Init, AllocInv
  <1>4. CodeInv /\ [Next]_vars => CodeInv'
    BY CodeStep
  <1>5. CodeInv /\ LiveInv /\ [Next]_vars => LiveInv'
    BY LiveStep
  <1>6. LiveInv /\ AllocInv /\ [Next]_vars => AllocInv' /\ [Advances]_vars
    BY AllocStep
  <1>. QED
    BY <1>1, <1>2, <1>3, <1>4, <1>5, <1>6, PTL DEF Spec, ScanAdvances

=============================================================================
