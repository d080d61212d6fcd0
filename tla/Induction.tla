------------------------------ MODULE Induction ------------------------------
(***************************************************************************)
(* Induction and recursion in the form the proofs use them.  What is true  *)
(* of numbers is given as the set of the numbers it is true of, and a step *)
(* of a recursion as a function: no operator is a parameter.               *)
(***************************************************************************)
EXTENDS Integers, FiniteSetsExt, WellFoundedInduction, NaturalsInduction, TLAPS

\* A set of naturals with anything in it has a least element.
LEMMA Least ==
  ASSUME NEW S, S \subseteq Nat, S # {}
  PROVE  \E least \in S : \A n \in S : least <= n
<1>1. PICK least \in S : \A n \in S : ~ (<<n, least>> \in OpToRel(<, Nat))
  BY WFMin, NatLessThanWellFounded
<1>2. \A n \in S : ~ (n < least)
  BY <1>1 DEF OpToRel
<1> QED
  BY <1>2

\* Induction, for a set of the numbers of which something is true.
LEMMA Rises ==
  ASSUME NEW n \in Nat, NEW G, 0 \in G, \A m \in 0 .. n - 1 : m \in G => m + 1 \in G
  PROVE  \A m \in 0 .. n : m \in G
<1> DEFINE bad == {m \in 0 .. n : m \notin G}
<1> SUFFICES ASSUME bad # {} PROVE FALSE
  OBVIOUS
<1>0. bad \subseteq Nat
  OBVIOUS
<1>1. PICK m \in bad : \A k \in bad : m <= k
  <2> HIDE DEF bad
  <2> QED
    BY <1>0, Least
<1>2. m - 1 \in 0 .. n - 1 /\ m - 1 \notin bad
  BY <1>1
<1>3. m - 1 \in G
  BY <1>2
<1>4. m - 1 + 1 \in G
  BY <1>2, <1>3
<1> QED
  BY <1>1, <1>4

\* A function defined by recursion on a number of steps exists, when each
\* step, given as a function, stays in the set it starts in.
Iteration(f, n, S, base, step) ==
    f \in [0 .. n -> S] /\ f[0] = base /\ \A k \in 1 .. n : f[k] = step[<<k, f[k - 1]>>]

LEMMA Iterates ==
  ASSUME NEW n \in Nat, NEW S, NEW base \in S, NEW step \in [(1 .. n) \X S -> S]
  PROVE  \E f : Iteration(f, n, S, base, step)
<1> DEFINE Runs(f, m) == f[0] = base /\ \A k \in 1 .. m : f[k] = step[<<k, f[k - 1]>>]
           G == {m \in 0 .. n : \E f \in [0 .. m -> S] : Runs(f, m)}
<1>1. 0 \in G
  <2> DEFINE f == [k \in 0 .. 0 |-> base]
  <2>1. f \in [0 .. 0 -> S] /\ Runs(f, 0)
    OBVIOUS
  <2> HIDE DEF f, Runs
  <2> QED
    BY <2>1
<1>2. ASSUME NEW m \in 0 .. n - 1, m \in G
      PROVE  m + 1 \in G
  <2>1. PICK f \in [0 .. m -> S] : Runs(f, m)
    BY <1>2
  <2> DEFINE g == [k \in 0 .. m + 1 |-> IF k <= m THEN f[k] ELSE step[<<m + 1, f[m]>>]]
  <2>2. step[<<m + 1, f[m]>>] \in S
    OBVIOUS
  <2>3. g \in [0 .. m + 1 -> S]
    BY <2>2
  <2>4. g[0] = base
    BY <2>1
  <2>5. \A k \in 1 .. m + 1 : g[k] = step[<<k, g[k - 1]>>]
    BY <2>1
  <2>6. Runs(g, m + 1)
    BY <2>4, <2>5
  <2> HIDE DEF g, Runs
  <2> QED
    BY <2>3, <2>6
<1> HIDE DEF G
<1>3. n \in G
  BY <1>1, <1>2, Rises
<1>4. PICK f \in [0 .. n -> S] : Runs(f, n)
  BY <1>3 DEF G
<1> QED
  BY <1>4 DEF Iteration

\* The integers no further from 0 than n.
Within(n) == {k \in Int : 0 <= k + n /\ k <= n}

\* A bounded set of integers has its extremes.
LEMMA ExtremesAre ==
  ASSUME NEW n \in Nat, NEW S, S \subseteq Within(n), S # {}
  PROVE  /\ Max(S) \in S /\ \A k \in S : k <= Max(S)
         /\ Min(S) \in S /\ \A k \in S : Min(S) <= k
<1> DEFINE up == {n - k : k \in S}  down == {k + n : k \in S}
<1>0. \A k \in S : k \in Int /\ 0 <= k + n /\ k <= n
  BY DEF Within
<1>1. up \subseteq Nat /\ up # {} /\ down \subseteq Nat /\ down # {}
  BY <1>0
<1>2. PICK least \in up : \A m \in up : least <= m
  <2> HIDE DEF up
  <2> QED
    BY <1>1, Least
<1>3. PICK top \in S : least = n - top
  BY <1>2
<1>4. \A k \in S : k <= top
  <2> TAKE k \in S
  <2>1. n - k \in up
    OBVIOUS
  <2> HIDE DEF up
  <2>2. n - top <= n - k
    BY <1>2, <1>3, <2>1
  <2> QED
    BY <1>0, <1>3, <2>2
<1>5. PICK first \in down : \A m \in down : first <= m
  <2> HIDE DEF down
  <2> QED
    BY <1>1, Least
<1>6. PICK bottom \in S : first = bottom + n
  BY <1>5
<1>7. \A k \in S : bottom <= k
  <2> TAKE k \in S
  <2>1. k + n \in down
    OBVIOUS
  <2> HIDE DEF down
  <2>2. bottom + n <= k + n
    BY <1>5, <1>6, <2>1
  <2> QED
    BY <1>0, <1>6, <2>2
<1>8. \E x \in S : \A y \in S : x >= y
  BY <1>0, <1>3, <1>4
<1>9. \E x \in S : \A y \in S : x <= y
  BY <1>6, <1>7
<1>10. Max(S) \in S /\ \A k \in S : Max(S) >= k
  BY <1>8 DEF Max
<1>11. Min(S) \in S /\ \A k \in S : Min(S) <= k
  BY <1>9 DEF Min
<1>12. \A k \in S : k <= Max(S)
  BY <1>0, <1>10
<1> QED
  BY <1>10, <1>11, <1>12
==============================================================================
