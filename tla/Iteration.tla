------------------------------ MODULE Iteration ------------------------------
(* Induction and iteration over the numbers, for the recursive functions of  *)
(* the models. The induction theorems of the library take an operator as a   *)
(* parameter; here the set of the numbers with a property takes its place.   *)
EXTENDS Integers, WellFoundedInduction, TLAPS

\* A set of numbers that is not empty has a least one.
LEMMA LeastNat ==
  ASSUME NEW T, T \subseteq Nat, T # {}
  PROVE  \E x \in T : \A y \in T : x <= y
<1>1. PICK x \in T : \A y \in T : ~ (<<y, x>> \in OpToRel(<, Nat))
  BY NatLessThanWellFounded, WFMin
<1>2. ASSUME NEW y \in T PROVE ~ (y < x)
  <2>1. <<y, x>> \in Nat \X Nat
    OBVIOUS
  <2> QED
    BY <1>1, <2>1 DEF OpToRel
<1> QED
  BY <1>2

(* A set of numbers that holds 0 and each successor of its members is all.   *)
LEMMA AllNat ==
  ASSUME NEW T, 0 \in T, \A n \in Nat : n \in T => n + 1 \in T
  PROVE  Nat \subseteq T
<1> DEFINE C == Nat \ T
<1>1. CASE C = {}
  BY <1>1
<1>2. CASE C # {}
  <2>1. PICK x \in C : \A y \in C : x <= y
    <3> HIDE DEF C
    <3>1. C \subseteq Nat BY DEF C
    <3> QED BY <1>2, <3>1, LeastNat
  <2>2. x \in Nat \ {0} OBVIOUS
  <2>3. x - 1 \in Nat /\ x - 1 \in T
    BY <2>1, <2>2
  <2> QED BY <2>3
<1> QED BY <1>1, <1>2

(* f iterates T from a: its value at n + 1 is T of n and its value at n.      *)
Iter(f, X, a, T) == /\ f \in [Nat -> X] /\ f[0] = a
                    /\ \A n \in Nat : f[n + 1] = T[<<n, f[n]>>]
\* A step over any set can be iterated: the recursive function is there.
LEMMA Iterates ==
  ASSUME NEW X, NEW a \in X, NEW T \in [Nat \X X -> X]
  PROVE  \E f : Iter(f, X, a, T)
<1> DEFINE F(n) == {f \in [0..n -> X] : f[0] = a /\ \A i \in 0..(n - 1) : f[i + 1] = T[<<i, f[i]>>]}
           Some == {n \in Nat : F(n) # {}}
<1>1. \A n \in Nat : F(n) # {}
  <2>1. 0 \in Some
    <3>1. [i \in 0..0 |-> a] \in F(0)
      OBVIOUS
    <3> QED BY <3>1
  <2>2. ASSUME NEW n \in Nat, n \in Some PROVE n + 1 \in Some
    <3>1. PICK f \in [0..n -> X] : f[0] = a /\ \A i \in 0..(n - 1) : f[i + 1] = T[<<i, f[i]>>]
      BY <2>2
    <3> DEFINE g == [i \in 0..(n + 1) |-> IF i = n + 1 THEN T[<<n, f[n]>>] ELSE f[i]]
    <3>2. f[n] \in X /\ T[<<n, f[n]>>] \in X
      BY <3>1
    <3>3. g \in [0..(n + 1) -> X]
      BY <3>2
    <3>4. g[0] = a
      BY <3>1
    <3>5. ASSUME NEW i \in 0..n PROVE g[i + 1] = T[<<i, g[i]>>]
      <4>1. CASE i = n
        <5>1. g[n + 1] = T[<<n, f[n]>>] /\ g[n] = f[n] OBVIOUS
        <5> QED BY <4>1, <5>1
      <4>2. CASE i # n
        <5>1. i \in 0..(n - 1) /\ i + 1 # n + 1 /\ i + 1 \in 0..n /\ i # n + 1 BY <4>2
        <5> QED BY <3>1, <5>1
      <4> QED BY <4>1, <4>2
    <3>6. g \in F(n + 1)
      <4>1. 0..((n + 1) - 1) = 0..n OBVIOUS
      <4> HIDE DEF g
      <4> QED BY <3>3, <3>4, <3>5, <4>1
    <3> HIDE DEF F
    <3>7. F(n + 1) # {} BY <3>6
    <3> QED BY <3>7
  <2> HIDE DEF Some
  <2>3. Nat \subseteq Some BY <2>1, <2>2, AllNat
  <2> QED BY <2>3 DEF Some
<1>2. ASSUME NEW n \in Nat, NEW m \in Nat, NEW f \in F(n), NEW g \in F(m)
      PROVE  \A i \in 0..n : i <= m => f[i] = g[i]
  <2> DEFINE E == {i \in Nat : i \in 0..n /\ i <= m => f[i] = g[i]}
  <2>1. 0 \in E OBVIOUS
  <2>2. ASSUME NEW i \in Nat, i \in E PROVE i + 1 \in E
    <3> SUFFICES ASSUME i + 1 \in 0..n, i + 1 <= m PROVE f[i + 1] = g[i + 1]
      OBVIOUS
    <3>1. i \in 0..(n - 1) /\ i \in 0..(m - 1) /\ i \in 0..n /\ i <= m
      OBVIOUS
    <3>2. f[i] = g[i] BY <2>2, <3>1
    <3> QED BY <3>1, <3>2
  <2> HIDE DEF E
  <2>3. Nat \subseteq E BY <2>1, <2>2, AllNat
  <2> QED BY <2>3 DEF E
<1> DEFINE at(n) == CHOOSE f \in F(n) : TRUE
           h == [n \in Nat |-> at(n)[n]]
<1>3. \A n \in Nat : at(n) \in F(n)
  BY <1>1
<1>4. \A n \in Nat : /\ at(n)[n] \in X /\ at(0)[0] = a
                     /\ at(n + 1)[n] = at(n)[n] /\ at(n + 1)[n + 1] = T[<<n, at(n + 1)[n]>>]
  <2> TAKE n \in Nat
  <2>1. at(n) \in F(n) /\ at(n + 1) \in F(n + 1) /\ at(0) \in F(0)
    <3> HIDE DEF at, F
    <3>1. n + 1 \in Nat OBVIOUS
    <3> QED BY <1>3, <3>1
  <2>2. at(n + 1)[n] = at(n)[n]
    <3>1. n \in 0..n /\ n <= n + 1 /\ n + 1 \in Nat OBVIOUS
    <3> HIDE DEF F
    <3>2. \A f \in F(n), g \in F(n + 1) : f[n] = g[n] BY <3>1, <1>2
    <3> HIDE DEF at
    <3> QED BY <2>1, <3>2
  <2>3. at(n) \in [0..n -> X] /\ n \in 0..n
    <3> HIDE DEF at
    <3> QED BY <2>1
  <2>4. n \in 0..((n + 1) - 1) OBVIOUS
  <2>5. at(n + 1)[n + 1] = T[<<n, at(n + 1)[n]>>]
    BY <2>1, <2>4
  <2>6. at(0)[0] = a BY <2>1
  <2> HIDE DEF at, F
  <2> QED BY <2>2, <2>3, <2>5, <2>6
<1>h. \A n \in Nat : h[n] = at(n)[n]
  OBVIOUS
<1> HIDE DEF at, F
<1>5. h \in [Nat -> X] /\ h[0] = a /\ \A n \in Nat : h[n + 1] = T[<<n, h[n]>>]
  <2>1. h \in [Nat -> X] BY <1>4
  <2> HIDE DEF h
  <2>2. h[0] = a BY <1>4, <1>h
  <2>3. \A n \in Nat : h[n + 1] = T[<<n, h[n]>>]
    <3> TAKE n \in Nat
    <3>1. n + 1 \in Nat OBVIOUS
    <3> QED BY <1>4, <1>h, <3>1
  <2> QED BY <2>1, <2>2, <2>3
<1> QED BY <1>5 DEF Iter
=============================================================================
