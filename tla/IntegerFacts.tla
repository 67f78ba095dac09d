----------------------------- MODULE IntegerFacts -----------------------------
(***************************************************************************)
(* Facts about numbers the proofs cite: how remainders go through sums and *)
(* products with an unknown modulus, for the masked indices, and the least *)
(* number with a property, for what is chosen as the least.                *)
(***************************************************************************)
EXTENDS Integers, WellFoundedInduction, TLAPS

\* Quotient and remainder.
LEMMA DivMod ==
    ASSUME NEW N \in Nat \ {0}, NEW x \in Int
    PROVE  /\ x % N \in 0 .. (N - 1) /\ x \div N \in Int
           /\ x = N * (x \div N) + (x % N)
  OBVIOUS

\* They are unique.
LEMMA ModUnique ==
    ASSUME NEW N \in Nat \ {0}, NEW q \in Int, NEW r \in 0 .. (N - 1)
    PROVE  (N * q + r) % N = r /\ (N * q + r) \div N = q
<1> DEFINE x == N * q + r
<1>1. x \in Int
  OBVIOUS
<1>2. /\ x % N \in 0 .. (N - 1) /\ x \div N \in Int
      /\ x = N * (x \div N) + (x % N)
  BY <1>1, DivMod
<1> DEFINE d == x \div N - q
           e == r - (x % N)
<1>3. d \in Int /\ e \in Int /\ N * d = e /\ -N < e /\ e < N
  BY <1>2
<1> HIDE DEF d, e
<1>4. d = 0
  <2>1. CASE d >= 1
    <3>1. N * d >= N
      BY <2>1, <1>3
    <3> QED BY <3>1, <1>3
  <2>2. CASE d <= -1
    <3>1. N * d <= -N
      BY <2>2, <1>3
    <3> QED BY <3>1, <1>3
  <2> QED BY <2>1, <2>2, <1>3
<1>5. e = 0
  BY <1>3, <1>4
<1> QED BY <1>2, <1>4, <1>5 DEF d, e

\* A summand may be replaced by its remainder.
LEMMA ModAdd ==
    ASSUME NEW N \in Nat \ {0}, NEW x \in Int, NEW y \in Int
    PROVE  ((x % N) + y) % N = (x + y) % N
<1> DEFINE q == x \div N
           r == x % N
           q2 == (r + y) \div N
           r2 == (r + y) % N
<1>1. q \in Int /\ r \in Int /\ x = N * q + r
  BY DivMod
<1>2. q2 \in Int /\ r2 \in 0 .. (N - 1) /\ r + y = N * q2 + r2
  BY <1>1, DivMod
<1> HIDE DEF q, r, q2, r2
<1>3. x + y = N * (q + q2) + r2
  BY <1>1, <1>2
<1>4. (N * (q + q2) + r2) % N = r2
  BY <1>1, <1>2, ModUnique
<1> QED BY <1>3, <1>4 DEF r, r2

\* A factor may be replaced by its remainder.
LEMMA ModMul ==
    ASSUME NEW N \in Nat \ {0}, NEW x \in Int, NEW y \in Int
    PROVE  ((x % N) * y) % N = (x * y) % N
<1> DEFINE q == x \div N
           r == x % N
           q2 == (r * y) \div N
           r2 == (r * y) % N
<1>1. q \in Int /\ r \in Int /\ x = N * q + r
  BY DivMod
<1>2. q2 \in Int /\ r2 \in 0 .. (N - 1) /\ r * y = N * q2 + r2
  BY <1>1, DivMod
<1> HIDE DEF q, r, q2, r2
<1>3. x * y = N * (q * y + q2) + r2
  <2>1. x * y = N * (q * y) + r * y
    BY <1>1
  <2>2. q * y \in Int
    BY <1>1
  <2>3. N * (q * y + q2) = N * (q * y) + N * q2
    BY <2>2, <1>2
  <2> QED BY <2>1, <2>2, <2>3, <1>2
<1>4. (N * (q * y + q2) + r2) % N = r2
  <2>1. q * y + q2 \in Int
    BY <1>1, <1>2
  <2> QED BY <2>1, <1>2, ModUnique
<1> QED BY <1>3, <1>4 DEF r, r2

\* Multiplying with the inverse takes back the multiplication with a factor.
LEMMA UndoFactor ==
    ASSUME NEW N \in Nat \ {0}, NEW f \in Nat, NEW g \in Nat,
           (f * g) % N = 1 % N, NEW j \in 0 .. (N - 1)
    PROVE  (((j * f) % N) * g) % N = j
<1>0. j * f \in Int /\ f * g \in Int /\ j \in Int /\ g \in Int /\ 1 \in Int
  OBVIOUS
<1>1. (((j * f) % N) * g) % N = ((j * f) * g) % N
  BY <1>0, ModMul
<1>2. (j * f) * g = (f * g) * j
  OBVIOUS
<1>3. ((f * g) * j) % N = (((f * g) % N) * j) % N
  BY <1>0, ModMul
<1>4. (((f * g) % N) * j) % N = ((1 % N) * j) % N
  OBVIOUS
<1>5. ((1 % N) * j) % N = (1 * j) % N
  BY <1>0, ModMul
<1>6. (1 * j) % N = j
  <2>1. (N * 0 + j) % N = j
    BY ModUnique
  <2> QED BY <2>1
<1> QED BY <1>1, <1>2, <1>3, <1>4, <1>5, <1>6

\* Products grow with their factors.
LEMMA Monotone ==
    ASSUME NEW N \in Nat, NEW x \in Int, NEW y \in Int, x <= y
    PROVE  N * x <= N * y
<1> DEFINE d == y - x
<1>1. d \in Nat /\ y = x + d
  OBVIOUS
<1> HIDE DEF d
<1>2. N * d >= 0
  BY <1>1
<1>3. N * y = N * x + N * d
  BY <1>1
<1>4. N * x \in Int /\ N * d \in Int
  BY <1>1
<1> QED BY <1>2, <1>3, <1>4

\* One more of a factor is one more of the other.
LEMMA OneMore ==
    ASSUME NEW x \in Int, NEW y \in Int
    PROVE  x * y \in Int /\ (x + 1) * y = x * y + y
OBVIOUS

\* Taking away what was added before the remainder.
LEMMA ModUndo ==
    ASSUME NEW N \in Nat \ {0}, NEW x \in Int, NEW y \in Int
    PROVE  (((x + y) % N) + (-y)) % N = x % N
<1>1. x + y \in Int /\ -y \in Int /\ (x + y) + (-y) = x
  OBVIOUS
<1>2. (((x + y) % N) + (-y)) % N = ((x + y) + (-y)) % N
  BY <1>1, ModAdd
<1> QED BY <1>1, <1>2

\* Two positions counted from the same place, less than N apart.
LEMMA Spread ==
    ASSUME NEW N \in Nat \ {0}, NEW h \in Nat,
           NEW a \in 0 .. (N - 1), NEW b \in 0 .. (N - 1)
    PROVE  LET x == h + N - 1 - a
               y == h + N - 1 - b
           IN  x \in Int /\ y \in Int /\ x - y < N /\ y - x < N /\ x >= h
OBVIOUS

\* A set of natural numbers has a least element.
LEMMA NatMin ==
    ASSUME NEW T \in SUBSET Nat, T # {}
    PROVE  \E n \in T : \A j \in T : n <= j
<1>1. \E R : /\ IsWellFoundedOn(R, Nat)
             /\ \A x, y \in Nat : <<x, y>> \in R <=> x < y
  <2>1. \A x, y \in Nat : <<x, y>> \in OpToRel(<, Nat) <=> x < y
    BY DEF OpToRel
  <2> QED BY NatLessThanWellFounded, <2>1
<1>2. PICK R : /\ IsWellFoundedOn(R, Nat)
               /\ \A x, y \in Nat : <<x, y>> \in R <=> x < y
  BY <1>1
<1>3. \E x \in T : \A y \in T : ~ (<<y, x>> \in R)
  <2>1. IsWellFoundedOn(R, Nat)
    BY <1>2, Zenon
  <2>2. \A Q, S, U : IsWellFoundedOn(Q, S) /\ U \subseteq S /\ U # {}
           => \E x \in U : \A y \in U : ~ (<<y, x>> \in Q)
    BY WFMin
  <2>3. T \subseteq Nat /\ T # {}
           => \E x \in T : \A y \in T : ~ (<<y, x>> \in R)
    BY ONLY <2>1, <2>2, Zenon
  <2> QED BY <2>3, Zenon
<1>4. PICK x \in T : \A y \in T : ~ (<<y, x>> \in R)
  BY <1>3
<1>5. ASSUME NEW y \in T PROVE x <= y
  <2>1. x \in Nat /\ y \in Nat
    OBVIOUS
  <2>2. <<y, x>> \in R <=> y < x
    BY <2>1, <1>2, Zenon
  <2>3. ~ (<<y, x>> \in R)
    BY <1>4, Zenon
  <2> QED BY <2>1, <2>2, <2>3
<1> QED BY <1>5
=============================================================================
