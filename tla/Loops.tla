------------------------------- MODULE Loops -------------------------------
(***************************************************************************)
(* Induction without an operator parameter: what holds before a loop and is *)
(* kept by each pass holds after it, and a function defined by recursion on *)
(* the number of passes satisfies its defining equation.                    *)
(***************************************************************************)
EXTENDS Integers, WellFoundedInduction, TLAPS

\* A set of naturals that is not empty has a least element.
LEMMA Least ==
  ASSUME NEW T \in SUBSET Nat, T # {}
  PROVE  \E m \in T : \A k \in T : m <= k
<1>1. PICK R : R = OpToRel(<, Nat)
  OBVIOUS
<1>2. IsWellFoundedOn(R, Nat)
  BY <1>1, NatLessThanWellFounded
<1>3. PICK m \in T : \A k \in T : ~ (<<k, m>> \in R)
  BY <1>2, WFMin
<1>4. \A k \in T : k < m => <<k, m>> \in R
  BY <1>1 DEF OpToRel
<1>5. ASSUME NEW k \in T PROVE m <= k
  <2>1. k \in Nat /\ m \in Nat
    OBVIOUS
  <2>2. ~ (k < m)
    BY <1>3, <1>4
  <2> QED BY ONLY <2>1, <2>2
<1> QED
  BY ONLY <1>3, <1>5

\* A set that has 0 and, with each i below n, the next number, has all of 0..n.
LEMMA Inductive ==
  ASSUME NEW T, NEW n \in Nat, 0 \in T, \A i \in 0..(n - 1) : i \in T => i + 1 \in T
  PROVE  \A i \in 0..n : i \in T
<1> SUFFICES ASSUME \E i \in 0..n : i \notin T PROVE FALSE
  OBVIOUS
<1>1. PICK U : U = 0..n \ T
  OBVIOUS
<1>2. U \in SUBSET Nat /\ U # {}
  BY <1>1
<1>3. PICK m \in U : \A k \in U : m <= k
  BY ONLY <1>2, Least
<1>4. m \in 0..n /\ m \notin T /\ m # 0
  BY <1>1, <1>3
<1>5. m - 1 \in 0..(n - 1) /\ m - 1 \notin U
  BY ONLY <1>3, <1>4, n \in Nat
<1>6. m - 1 \in T
  BY <1>1, <1>5
<1>7. (m - 1) + 1 \in T
  BY <1>5, <1>6
<1> QED
  BY ONLY <1>4, <1>7

\* The bodies of n passes over values of A, and the values they make of a.
Passes(A, n) == [1..n -> [A -> A]]
Runs(A, a, n, step) ==
  { f \in [0..n -> A] : f[0] = a /\ \A i \in 1..n : f[i] = step[i][f[i - 1]] }

\* n passes over a start value have a run.
LEMMA Iteration ==
  ASSUME NEW A, NEW a \in A, NEW n \in Nat, NEW step \in Passes(A, n)
  PROVE  Runs(A, a, n, step) # {}
<1> USE DEF Passes, Runs
<1>1. PICK T : T = { k \in 0..n : \E f \in [0..k -> A] :
                       f[0] = a /\ \A i \in 1..k : f[i] = step[i][f[i - 1]] }
  OBVIOUS
<1>2. 0 \in T
  <2>1. PICK f : f = [i \in 0..0 |-> a]
    OBVIOUS
  <2>2. f \in [0..0 -> A] /\ f[0] = a /\ 1..0 = {}
    BY <2>1
  <2> QED BY <1>1, <2>2
<1>3. ASSUME NEW k \in 0..(n - 1), k \in T PROVE k + 1 \in T
  <2>1. PICK f \in [0..k -> A] : f[0] = a /\ \A i \in 1..k : f[i] = step[i][f[i - 1]]
    BY <1>1, <1>3
  <2>2. PICK g : g = [i \in 0..(k + 1) |-> IF i = k + 1 THEN step[k + 1][f[k]] ELSE f[i]]
    OBVIOUS
  <2>3. k + 1 \in 1..n /\ k \in 0..k /\ k \in Nat
    OBVIOUS
  <2>4. step[k + 1][f[k]] \in A
    BY <2>1, <2>3
  <2>5. g \in [0..(k + 1) -> A]
    BY <2>2, <2>3, <2>4
  <2>6. g[0] = a
    BY <2>1, <2>2, <2>3
  <2>7. ASSUME NEW i \in 1..(k + 1) PROVE g[i] = step[i][g[i - 1]]
    <3>1. i - 1 \in 0..k /\ g[i - 1] = f[i - 1]
      BY <2>2, <2>3
    <3>2. CASE i = k + 1
      BY <2>2, <3>1, <3>2
    <3>3. CASE i \in 1..k
      BY <2>1, <2>2, <3>1, <3>3
    <3> QED BY <2>3, <3>2, <3>3
  <2>8. \E h \in [0..(k + 1) -> A] :
          h[0] = a /\ \A i \in 1..(k + 1) : h[i] = step[i][h[i - 1]]
    BY ONLY <2>5, <2>6, <2>7
  <2>9. k + 1 \in 0..n
    BY <2>3
  <2> QED BY ONLY <1>1, <2>8, <2>9
<1>4. n \in T
  <2>1. \A k \in 0..(n - 1) : k \in T => k + 1 \in T
    BY <1>3
  <2>2. \A i \in 0..n : i \in T
    BY ONLY <1>2, <2>1, n \in Nat, Inductive
  <2> QED BY <2>2
<1> QED BY <1>1, <1>4
=============================================================================
