----------------------------- MODULE Induction -----------------------------
(***************************************************************************)
(* Induction over the natural numbers, for sets of numbers: the facts with *)
(* which recursive functions are proved about. They rest on the order of   *)
(* the natural numbers being well-founded.                                 *)
(***************************************************************************)
EXTENDS Integers, WellFoundedInduction, TLAPS

\* A set of natural numbers that is not empty has a smallest element.
LEMMA Smallest ==
  ASSUME NEW T, T \subseteq Nat, T # {}
  PROVE  \E x \in T : \A y \in T : x <= y
<1>1. IsWellFoundedOn(OpToRel(<, Nat), Nat)
  BY NatLessThanWellFounded
<1>2. \A x, y \in Nat : <<y, x>> \in OpToRel(<, Nat) <=> y < x
  BY DEF OpToRel
<1>3. \E x \in T : \A y \in T : ~ (<<y, x>> \in OpToRel(<, Nat))
  BY <1>1, WFMin
<1>4. \E x \in T : \A y \in T : ~ (y < x)
  BY <1>2, <1>3, Zenon
<1> QED BY <1>4

\* What holds of 0, and of n + 1 when it holds of n, holds of every natural number.
LEMMA EveryNatural ==
  ASSUME NEW T, T \subseteq Nat, 0 \in T, \A n \in T : n + 1 \in T
  PROVE  T = Nat
<1> DEFINE U == Nat \ T
<1>1. U = {} \/ \E x \in U : \A y \in U : x <= y
  BY Smallest
<1>2. ASSUME NEW x \in U, \A y \in U : x <= y PROVE FALSE
  <2>1. x # 0
    OBVIOUS
  <2>2. x - 1 \in Nat /\ x - 1 < x
    BY <2>1
  <2>3. x - 1 \in T
    BY <2>2, <1>2
  <2> QED BY <2>3
<1> QED BY <1>1, <1>2

\* The same up to a bound: n holds, once 0 does and each number below n hands it on.
LEMMA UpTo ==
  ASSUME NEW n \in Nat, NEW T, 0 \in T, \A i \in 0..n - 1 : i \in T => i + 1 \in T
  PROVE  \A i \in 0..n : i \in T
<1> DEFINE U == {i \in Nat : i <= n => i \in T}
<1>1. 0 \in U
  OBVIOUS
<1>2. \A i \in U : i + 1 \in U
  OBVIOUS
<1>3. U = Nat
  BY <1>1, <1>2, EveryNatural
<1> QED BY <1>3

\* A set of natural numbers that has an upper bound and is not empty has a largest.
LEMMA Largest ==
  ASSUME NEW n \in Nat, NEW T, T \subseteq 0..n, T # {}
  PROVE  \E x \in T : \A y \in T : y <= x
<1> DEFINE U == {b \in Nat : \A y \in T : y <= b}
<1>1. n \in U
  OBVIOUS
<1>2. PICK b \in U : \A c \in U : b <= c
  BY <1>1, Smallest
<1>3. ASSUME b \notin T PROVE FALSE
  <2>1. b # 0
    <3>1. PICK y \in T : TRUE
      OBVIOUS
    <3>2. y \in Nat /\ y <= b
      OBVIOUS
    <3> QED BY <1>3, <3>2
  <2>2. b - 1 \in U
    BY <1>3, <2>1
  <2> QED BY <1>2, <2>2
<1> QED BY <1>2, <1>3

\* The values of g start with "a", and each follows from the one before it.
Iteration(g, S, a, step) ==
  g \in [Nat -> S] /\ g[0] = a /\ \A n \in Nat : g[n + 1] = step[n][g[n]]

\* A recursive definition over the natural numbers has a solution.
LEMMA Iterates ==
  ASSUME NEW S, NEW a \in S, NEW step \in [Nat -> [S -> S]]
  PROVE  \E g : Iteration(g, S, a, step)
<1> DEFINE Good(n, h) == /\ h \in [0..n -> S] /\ h[0] = a
                         /\ \A i \in 0..n - 1 : h[i + 1] = step[i][h[i]]
           Reached == {n \in Nat : \E h : Good(n, h)}
<1>1. 0 \in Reached
  <2>1. Good(0, [i \in 0..0 |-> a])
    OBVIOUS
  <2> HIDE DEF Good
  <2> QED BY <2>1
<1>2. ASSUME NEW n \in Reached PROVE n + 1 \in Reached
  <2>1. PICK h : Good(n, h)
    OBVIOUS
  <2> DEFINE k == [i \in 0..n + 1 |-> IF i = n + 1 THEN step[n][h[n]] ELSE h[i]]
  <2>2. n \in Nat /\ h[n] \in S
    BY <2>1
  <2>3. step[n][h[n]] \in S
    BY <2>2
  <2>4. k \in [0..n + 1 -> S] /\ k[0] = a
    BY <2>1, <2>2, <2>3
  <2>5. \A i \in 0..n : k[i + 1] = step[i][k[i]]
    BY <2>1, <2>2
  <2>6. n + 1 \in Nat /\ n = (n + 1) - 1
    BY <2>2
  <2> HIDE DEF k
  <2>7. Good(n + 1, k)
    BY <2>4, <2>5, <2>6
  <2> HIDE DEF Good
  <2> QED BY <2>6, <2>7
<1>3. Reached = Nat
  <2> HIDE DEF Reached
  <2>1. Reached \subseteq Nat
    BY DEF Reached
  <2> QED BY <1>1, <1>2, <2>1, EveryNatural
<1> DEFINE f == [n \in Nat |-> CHOOSE h : Good(n, h)]
<1> HIDE DEF Good
<1>4. \A n \in Nat : Good(n, f[n])
  <2> TAKE n \in Nat
  <2>1. \E h : Good(n, h)
    BY <1>3
  <2> QED BY <2>1
<1> HIDE DEF f, Reached
<1>5. \A n \in Nat : Good(n, f[n]) /\ Good(n + 1, f[n + 1])
  BY <1>4
<1>6. ASSUME NEW n \in Nat PROVE f[n + 1][n] = f[n][n]
  <2> DEFINE T == {i \in 0..n : f[n + 1][i] = f[n][i]}
  <2> USE DEF Good
  <2>1. /\ f[n][0] = a /\ f[n + 1][0] = a
        /\ \A i \in 0..n - 1 : f[n][i + 1] = step[i][f[n][i]]
        /\ \A i \in 0..n : f[n + 1][i + 1] = step[i][f[n + 1][i]]
    <3>1. /\ f[n][0] = a /\ f[n + 1][0] = a
          /\ \A i \in 0..n - 1 : f[n][i + 1] = step[i][f[n][i]]
          /\ \A i \in 0..(n + 1) - 1 : f[n + 1][i + 1] = step[i][f[n + 1][i]]
      BY <1>5, Zenon
    <3>2. (n + 1) - 1 = n
      OBVIOUS
    <3> QED BY <3>1, <3>2, Zenon
  <2>2. 0 \in T
    BY <2>1
  <2>3. \A i \in 0..n - 1 : i \in T => i + 1 \in T
    BY <2>1
  <2> HIDE DEF T, Good
  <2>4. \A i \in 0..n : i \in T
    BY <2>2, <2>3, UpTo, Zenon
  <2> QED BY <2>4 DEF T
<1> DEFINE g == [n \in Nat |-> f[n][n]]
<1>7. \A n \in Nat : g[n] \in S /\ g[n + 1] = step[n][g[n]]
  <2> TAKE n \in Nat
  <2>1. f[n][n] \in S /\ f[n + 1][n + 1] = step[n][f[n + 1][n]]
    BY <1>5 DEF Good
  <2>2. g[n] = f[n][n] /\ g[n + 1] = f[n + 1][n + 1]
    OBVIOUS
  <2> HIDE DEF g
  <2> QED BY <1>6, <2>1, <2>2
<1>8. g[0] = a
  BY <1>4 DEF Good
<1>9. g \in [Nat -> S]
  BY <1>7
<1> HIDE DEF g
<1> QED BY <1>7, <1>8, <1>9 DEF Iteration

\* The same for a definition over the numbers up to m.
IterationTo(m, g, S, a, step) ==
  g \in [0..m -> S] /\ g[0] = a /\ \A i \in 0..m - 1 : g[i + 1] = step[i][g[i]]

LEMMA IteratesTo ==
  ASSUME NEW m \in Nat, NEW S, NEW a \in S, NEW step \in [0..m - 1 -> [S -> S]]
  PROVE  \E g : IterationTo(m, g, S, a, step)
<1> DEFINE onwards == [n \in Nat |-> IF n \in 0..m - 1 THEN step[n] ELSE [x \in S |-> x]]
<1>1. onwards \in [Nat -> [S -> S]]
  <2>1. [x \in S |-> x] \in [S -> S]
    OBVIOUS
  <2>2. \A n \in 0..m - 1 : step[n] \in [S -> S]
    OBVIOUS
  <2> QED BY <2>1, <2>2
<1>2. \A i \in 0..m - 1 : i \in Nat /\ onwards[i] = step[i]
  OBVIOUS
<1> HIDE DEF onwards
<1>3. PICK g : Iteration(g, S, a, onwards)
  BY <1>1, Iterates
<1> DEFINE h == [i \in 0..m |-> g[i]]
<1>4. h \in [0..m -> S] /\ h[0] = a
  BY <1>3 DEF Iteration
<1>5. ASSUME NEW i \in 0..m - 1 PROVE h[i + 1] = step[i][h[i]]
  <2>1. h[i + 1] = g[i + 1] /\ h[i] = g[i]
    OBVIOUS
  <2>2. g[i + 1] = onwards[i][g[i]]
    BY <1>2, <1>3 DEF Iteration
  <2> HIDE DEF h
  <2> QED BY <1>2, <2>1, <2>2
<1> HIDE DEF h
<1> QED BY <1>4, <1>5 DEF IterationTo
=============================================================================
