------------------------------ MODULE Iteration ------------------------------
(***************************************************************************)
(* Facts about numbers that the proofs of loops share: induction stated    *)
(* about a set, the sequence of states of a loop, and a division that is   *)
(* carried on by one or by many.                                           *)
(***************************************************************************)
EXTENDS Integers, TLAPS

LOCAL WF == INSTANCE WellFoundedInduction

(* A set of numbers that is not empty has a least one. *)
LEMMA LeastNumber ==
  ASSUME NEW S, S \subseteq Nat, S # {}
  PROVE  \E x \in S : \A y \in S : x =< y
<1> DEFINE R == {p \in Nat \X Nat : p[1] < p[2]}
<1>1. WF!IsWellFoundedOn(R, Nat)
  BY WF!NatLessThanWellFounded, Zenon DEF WF!OpToRel
<1>2. \A x, y \in Nat : y < x => <<y, x>> \in R
  OBVIOUS
<1> HIDE DEF R
<1>3. PICK x \in S : \A y \in S : ~ (<<y, x>> \in R)
  BY <1>1, WF!WFMin, Zenon
<1>4. ASSUME NEW y \in S PROVE x =< y
  <2>1. x \in Nat /\ y \in Nat  OBVIOUS
  <2>2. ~ (y < x)  BY <2>1, <1>2, <1>3, Zenon
  <2>3. QED BY <2>1, <2>2
<1>5. QED BY <1>4

(* What holds of 0 and goes on from each number holds of all. *)
LEMMA Induction ==
  ASSUME NEW A, 0 \in A, \A n \in Nat : n \in A => n + 1 \in A
  PROVE  \A n \in Nat : n \in A
<1> SUFFICES ASSUME Nat \ A # {} PROVE FALSE
  OBVIOUS
<1>1. PICK x \in Nat \ A : \A y \in Nat \ A : x =< y
  BY LeastNumber
<1>2. x # 0 /\ x - 1 \in Nat
  OBVIOUS
<1>3. x - 1 \in A
  BY <1>1, <1>2
<1> QED
  BY <1>2, <1>3

(* The states of a loop that takes `step` each time: there are such, and   *)
(* what is so defined on the numbers agrees with it.                       *)
StatesOf(S) ==
  \A step \in [S -> S], s \in S :
    \E f \in [Nat -> S] : f[0] = s /\ \A n \in Nat : f[n + 1] = step[f[n]]

(* Whatever the set of its states, a loop has them. *)
LEMMA LoopStates == ASSUME NEW S PROVE StatesOf(S)
<1> SUFFICES ASSUME NEW s \in S, NEW step \in [S -> S]
             PROVE  \E f \in [Nat -> S] : f[0] = s /\ \A n \in Nat : f[n + 1] = step[f[n]]
  BY DEF StatesOf
<1> DEFINE Runs(n) == {g \in [0 .. n -> S] : g[0] = s /\ \A i \in 0 .. n - 1 : g[i + 1] = step[g[i]]}
           A == {n \in Nat : Runs(n) # {}}
<1>1. 0 \in A
  <2>1. [i \in 0 .. 0 |-> s] \in Runs(0)
    OBVIOUS
  <2> QED
    BY <2>1
<1>2. ASSUME NEW n \in Nat, n \in A PROVE n + 1 \in A
  <2>1. PICK g \in [0 .. n -> S] : g[0] = s /\ \A i \in 0 .. n - 1 : g[i + 1] = step[g[i]]
    BY <1>2
  <2> DEFINE h == [i \in 0 .. n + 1 |-> IF i = n + 1 THEN step[g[n]] ELSE g[i]]
  <2>2. h \in [0 .. n + 1 -> S] /\ h[0] = s
    BY <2>1
  <2>3. \A i \in 0 .. n : h[i + 1] = step[h[i]]
    <3> TAKE i \in 0 .. n
    <3>1. h[i] = g[i]
      OBVIOUS
    <3>2. CASE i = n
      BY <3>1, <3>2
    <3>3. CASE i # n
      <4>1. i \in 0 .. n - 1 /\ h[i + 1] = g[i + 1]
        BY <3>3
      <4> QED
        BY <2>1, <3>1, <4>1
    <3> QED
      BY <3>2, <3>3
  <2>4. h \in Runs(n + 1)
    BY <2>2, <2>3, SMTT(90)
  <2> HIDE DEF h
  <2> QED
    BY <2>4
<1>3. \A n \in Nat : Runs(n) # {}
  <2> HIDE DEF A
  <2>1. \A n \in Nat : n \in A
    BY <1>1, <1>2, Induction
  <2> QED
    BY <2>1 DEF A
<1>4. ASSUME NEW n \in Nat, NEW g \in Runs(n), NEW h \in Runs(n + 1)
      PROVE  g[n] = h[n]
  <2> DEFINE B == {i \in Nat : i =< n => g[i] = h[i]}
  <2>1. 0 \in B
    OBVIOUS
  <2>2. ASSUME NEW i \in Nat, i \in B PROVE i + 1 \in B
    BY <2>2
  <2> HIDE DEF B
  <2>3. n \in B
    BY <2>1, <2>2, Induction
  <2> QED
    BY <2>3 DEF B
<1> DEFINE r[n \in Nat] == CHOOSE g \in Runs(n) : TRUE
           f == [n \in Nat |-> r[n][n]]
<1>5. \A n \in Nat : r[n] \in Runs(n)
  BY <1>3
<1> HIDE DEF r
<1>6. f \in [Nat -> S] /\ f[0] = s
  <2>1. \A n \in Nat : r[n][n] \in S
    BY <1>5
  <2>2. r[0][0] = s
    BY <1>5
  <2> QED
    BY <2>1, <2>2
<1>7. ASSUME NEW n \in Nat PROVE f[n + 1] = step[f[n]]
  <2>1. r[n] \in Runs(n) /\ r[n + 1] \in Runs(n + 1) /\ n + 1 \in Nat
    BY <1>5, SMTT(90)
  <2> HIDE DEF Runs
  <2>2. r[n][n] = r[n + 1][n]
    BY <2>1, <1>4
  <2>3. r[n + 1][n + 1] = step[r[n + 1][n]]
    BY <2>1 DEF Runs
  <2> QED
    BY <2>2, <2>3
<1> HIDE DEF f
<1> QED
  BY <1>6, <1>7

(* What a quotient and a remainder are. *)
LEMMA Division ==
  ASSUME NEW a \in Int, NEW b \in Nat \ {0}
  PROVE  /\ a \div b \in Int /\ a % b \in 0 .. b - 1
         /\ a = b * (a \div b) + (a % b)
         /\ a \in Nat => a \div b \in Nat
<1>1. a \div b \in Int /\ a % b \in 0 .. b - 1
  OBVIOUS
<1>2. a = b * (a \div b) + (a % b)
  OBVIOUS
<1>3. ASSUME a \in Nat PROVE a \div b \in Nat
  BY <1>1, <1>2, <1>3
<1> QED
  BY <1>1, <1>2, <1>3

(* They are the only ones of their kind. *)
LEMMA OnlyDivision ==
  ASSUME NEW a \in Int, NEW b \in Nat \ {0}, NEW q \in Int, NEW r \in 0 .. b - 1, a = b * q + r
  PROVE  a \div b = q /\ a % b = r
<1>1. PICK p \in Int, s \in 0 .. b - 1 : p = a \div b /\ s = a % b /\ a = b * p + s
  BY Division
<1>2. PICK d \in Int : d = p - q
  OBVIOUS
<1>3. b * d \in Int /\ b * d < b /\ b * d > 0 - b
  <2>1. PICK x \in Int, y \in Int : x = b * p /\ y = b * q
    OBVIOUS
  <2>2. b * d = x - y
    BY <1>2, <2>1
  <2>3. a = x + s /\ a = y + r
    BY <1>1, <2>1
  <2>4. x - y < b /\ x - y > 0 - b
    BY <2>3
  <2> QED
    BY <2>2, <2>4
<1>4. d = 0
  <2>1. ASSUME d >= 1 PROVE FALSE
    <3>1. b * (d - 1) >= 0 /\ b * d = b * (d - 1) + b
      BY <2>1
    <3> QED
      BY <1>3, <3>1
  <2>2. ASSUME d =< 0 - 1 PROVE FALSE
    <3>1. b * (0 - d - 1) >= 0 /\ b * d = 0 - (b * (0 - d - 1)) - b
      BY <2>2
    <3> QED
      BY <1>3, <3>1
  <2> QED
    BY <2>1, <2>2
<1> QED
  BY <1>1, <1>2, <1>4

(* A count that wraps at b and carries, one more. *)
LEMMA NextDivision ==
  ASSUME NEW a \in Nat, NEW b \in Nat \ {0}
  PROVE  IF a % b = b - 1 THEN (a + 1) % b = 0 /\ (a + 1) \div b = (a \div b) + 1
                          ELSE (a + 1) % b = (a % b) + 1 /\ (a + 1) \div b = a \div b
<1>1. PICK q \in Int, r \in 0 .. b - 1 : q = a \div b /\ r = a % b /\ a = b * q + r
  BY Division
<1>2. CASE r = b - 1
  <2>1. a + 1 = b * (q + 1) + 0 /\ 0 \in 0 .. b - 1 /\ q + 1 \in Int /\ a + 1 \in Int
    BY <1>1, <1>2
  <2>2. (a + 1) \div b = q + 1 /\ (a + 1) % b = 0
    BY <2>1, OnlyDivision
  <2> QED
    BY <1>1, <1>2, <2>2
<1>3. CASE r # b - 1
  <2>1. a + 1 = b * q + (r + 1) /\ r + 1 \in 0 .. b - 1 /\ a + 1 \in Int
    BY <1>1, <1>3
  <2>2. (a + 1) \div b = q /\ (a + 1) % b = r + 1
    BY <2>1, OnlyDivision
  <2> QED
    BY <1>1, <1>3, <2>2
<1> QED
  BY <1>2, <1>3

(* Wrapping and carrying may wait. *)
LEMMA LaterDivision ==
  ASSUME NEW a \in Int, NEW b \in Nat \ {0}, NEW n \in Int
  PROVE  /\ ((a % b) + n) % b = (a + n) % b
         /\ (a \div b) + (((a % b) + n) \div b) = (a + n) \div b
<1>1. PICK q \in Int, r \in 0 .. b - 1 : q = a \div b /\ r = a % b /\ a = b * q + r
  BY Division
<1>2. r + n \in Int
  OBVIOUS
<1>3. PICK t \in Int, s \in 0 .. b - 1 : t = (r + n) \div b /\ s = (r + n) % b /\ r + n = b * t + s
  BY <1>2, Division
<1>4. a + n = b * (q + t) + s /\ q + t \in Int /\ a + n \in Int
  <2>1. PICK x \in Int, y \in Int : x = b * q /\ y = b * t
    OBVIOUS
  <2>2. b * (q + t) = x + y
    BY <2>1
  <2>3. a = x + r /\ r + n = y + s
    BY <1>1, <1>3, <2>1
  <2> QED
    BY <2>2, <2>3
<1>5. (a + n) \div b = q + t /\ (a + n) % b = s
  BY <1>4, OnlyDivision
<1> QED
  BY <1>1, <1>3, <1>5

LEMMA LessDivision ==
  ASSUME NEW a \in Int, NEW b \in Nat \ {0}, NEW y \in Int
  PROVE  (a - (y % b)) % b = (a - y) % b
<1>1. PICK q \in Int, r \in 0 .. b - 1 : q = y \div b /\ r = y % b /\ y = b * q + r
  BY Division
<1>2. PICK c \in Int, d \in Int : c = a - r /\ d = a - y
  OBVIOUS
<1>3. PICK k \in Int, t \in 0 .. b - 1 : k = c \div b /\ t = c % b /\ c = b * k + t
  BY Division
<1>4. d = b * (k - q) + t /\ k - q \in Int
  <2>1. PICK x \in Int, z \in Int : x = b * k /\ z = b * q
    OBVIOUS
  <2>2. b * (k - q) = x - z
    BY <2>1
  <2> QED
    BY <1>1, <1>2, <1>3, <2>1, <2>2
<1>5. d % b = t
  BY <1>4, OnlyDivision
<1> QED
  BY <1>1, <1>2, <1>3, <1>5

(* A number below the limit is its own remainder. *)
LEMMA SmallDivision ==
  ASSUME NEW b \in Nat \ {0}, NEW a \in 0 .. b - 1
  PROVE  a \div b = 0 /\ a % b = a
<1>1. a = b * 0 + a
  OBVIOUS
<1> QED
  BY <1>1, OnlyDivision

(* The same with names for what the divisions give, which keeps divisions   *)
(* out of the sight of an arithmetic prover.                                *)
LEMMA Divided ==
  ASSUME NEW a \in Nat, NEW b \in Nat \ {0}
  PROVE  \E q \in Nat, r \in 0 .. b - 1 : q = a \div b /\ r = a % b /\ a = b * q + r
<1>1. a \div b \in Nat
  BY Division
<1>2. a % b \in 0 .. b - 1
  BY Division
<1>3. a = b * (a \div b) + (a % b)
  BY Division
<1> QED
  BY <1>1, <1>2, <1>3

LEMMA Carried ==
  ASSUME NEW b \in Nat \ {0}, NEW x \in Int, NEW n \in Int,
         NEW q \in Int, NEW q2 \in Int, NEW q3 \in Int,
         NEW r \in 0 .. b - 1, NEW r2 \in 0 .. b - 1, NEW r3 \in 0 .. b - 1,
         x = b * q + r, r + n = b * q2 + r2, x + n = b * q3 + r3
  PROVE  q3 = q + q2 /\ r3 = r2
<1>1. PICK y \in Int, z \in Int : y = b * q /\ z = b * q2
  OBVIOUS
<1>2. b * (q + q2) = y + z
  BY <1>1
<1>3. x + n = b * (q + q2) + r2 /\ x + n \in Int /\ q + q2 \in Int
  BY <1>1, <1>2
<1>4. (x + n) \div b = q + q2 /\ (x + n) % b = r2
  BY <1>3, OnlyDivision, SMTT(90)
<1>5. (x + n) \div b = q3 /\ (x + n) % b = r3
  BY <1>3, OnlyDivision
<1> QED
  BY <1>4, <1>5
=============================================================================
