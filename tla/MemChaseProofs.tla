---------------------------- MODULE MemChaseProofs ----------------------------
(***************************************************************************)
(* Theorems about MemChase: a coprime stride links the elements of any     *)
(* working set into one ring, and the reported launch walks over elements  *)
(* that the launch before it has loaded.                                   *)
(***************************************************************************)
EXTENDS MemChase, IntegerFacts

-----------------------------------------------------------------------------
(* Numbers that are coprime *)

\* A divisor of two numbers divides the remainder of one by the other's
\* combinations: what is left of a after the least combination goes into it.
LEMMA Remainder ==
    ASSUME NEW a \in Int, NEW n \in Int, NEW x \in Int, NEW y \in Int,
           NEW z \in Int, NEW w \in Int, NEW q \in Int
    PROVE  /\ (a * x + n * y) - (a * z + n * w) * q
                = a * (x - z * q) + n * (y - w * q)
           /\ x - z * q \in Int /\ y - w * q \in Int
<1>1. z * q \in Int /\ w * q \in Int
  OBVIOUS
<1>2. (a * z + n * w) * q = a * (z * q) + n * (w * q)
  OBVIOUS
<1>3. a * (x - z * q) = a * x - a * (z * q)
  BY <1>1
<1>4. n * (y - w * q) = n * y - n * (w * q)
  BY <1>1
<1>5. /\ a * x \in Int /\ n * y \in Int
      /\ a * (z * q) \in Int /\ n * (w * q) \in Int
  BY <1>1
<1> QED BY <1>1, <1>2, <1>3, <1>4, <1>5

\* Numbers that are coprime have a combination that is 1.
LEMMA Bezout ==
    ASSUME NEW a \in Nat \ {0}, NEW n \in Nat \ {0}, Coprime(a, n)
    PROVE  \E x, y \in Int : a * x + n * y = 1
<1> DEFINE T == {d \in Nat \ {0} : \E x, y \in Int : d = a * x + n * y}
<1>0. a = a * 1 + n * 0 /\ n = a * 0 + n * 1
  OBVIOUS
<1>1. a \in T
  BY <1>0
<1>2. PICK d \in T : \A e \in T : d <= e
  <2>1. T \in SUBSET Nat /\ T # {}
    BY <1>1
  <2> HIDE DEF T
  <2> QED BY <2>1, NatMin
<1>3. PICK z, w \in Int : d = a * z + n * w
  BY <1>2
<1>4. ASSUME NEW b \in Nat \ {0}, NEW x \in Int, NEW y \in Int,
             b = a * x + n * y
      PROVE  b % d = 0
  <2> DEFINE q == b \div d
             r == b % d
  <2>1. /\ q \in Int /\ r \in 0 .. (d - 1) /\ b = d * q + r
        /\ d \in Nat \ {0}
    BY <1>2, DivMod
  <2> HIDE DEF q, r
  <2>2. /\ (a * x + n * y) - (a * z + n * w) * q
             = a * (x - z * q) + n * (y - w * q)
        /\ x - z * q \in Int /\ y - w * q \in Int
    BY <2>1, Remainder
  <2>3. r = b - d * q
    <3>1. d * q \in Int
      BY <2>1
    <3> QED BY <2>1, <3>1
  <2>4. r = a * (x - z * q) + n * (y - w * q)
    BY <2>2, <2>3, <1>3, <1>4
  <2>5. CASE r # 0
    <3>1. r \in T
      <4>1. r \in Nat \ {0}
        BY <2>1, <2>5
      <4> DEFINE u == x - z * q
                 v == y - w * q
      <4>2. u \in Int /\ v \in Int /\ r = a * u + n * v
        BY <2>2, <2>4
      <4> HIDE DEF u, v
      <4> QED BY <4>1, <4>2
    <3>2. d <= r
      BY <3>1, <1>2
    <3> QED BY <3>2, <2>1
  <2> QED BY <2>5 DEF r
<1>5. a % d = 0
  <2>1. 1 \in Int /\ 0 \in Int
    OBVIOUS
  <2> QED BY <2>1, <1>0, <1>4, Zenon
<1>6. n % d = 0
  <2>1. 1 \in Int /\ 0 \in Int
    OBVIOUS
  <2> QED BY <2>1, <1>0, <1>4, Zenon
<1>7. d <= a /\ d \in Nat \ {0}
  BY <1>1, <1>2
<1>8. d = 1
  <2>1. d \notin 2 .. a
    BY <1>5, <1>6 DEF Coprime
  <2> QED BY <2>1, <1>7
<1> QED BY <1>3, <1>8

\* Multiplying with one can be undone modulo the other.
LEMMA Invertible ==
    ASSUME NEW a \in Nat \ {0}, NEW n \in Nat \ {0}, Coprime(a, n)
    PROVE  \E g \in Nat : (a * g) % n = 1 % n
<1>1. PICK x, y \in Int : a * x + n * y = 1
  BY Bezout
<1> DEFINE g == x % n
<1>2. g \in Nat
  BY <1>1, DivMod
<1>3. ((x % n) * a) % n = (x * a) % n
  <2>1. a \in Int
    OBVIOUS
  <2> QED BY <2>1, <1>1, ModMul
<1>4. x * a = n * (-y) + 1
  <2>1. x * a = a * x /\ n * (-y) = -(n * y) /\ a * x \in Int /\ n * y \in Int
    BY <1>1
  <2> QED BY <2>1, <1>1
<1>5. (n * (-y) + 1) % n = 1 % n
  <2> DEFINE q == 1 \div n
             r == 1 % n
  <2>1. q \in Int /\ r \in 0 .. (n - 1) /\ 1 = n * q + r
    BY DivMod
  <2> HIDE DEF q, r
  <2>2. n * (-y) + 1 = n * (q - y) + r
    <3>1. n * (q - y) = n * q + n * (-y) /\ n * q \in Int /\ n * (-y) \in Int
      BY <2>1, <1>1
    <3> QED BY <3>1, <2>1
  <2>3. (n * (q - y) + r) % n = r
    BY <2>1, <1>1, ModUnique
  <2> QED BY <2>2, <2>3 DEF r
<1>6. a * g = (x % n) * a
  BY <1>2
<1> HIDE DEF g
<1> QED BY <1>2, <1>3, <1>4, <1>5, <1>6

\* coprime_stride finds one, and its loop ends: 1 is coprime to everything.
LEMMA StrideFacts ==
    ASSUME NEW n \in Nat \ {0}
    PROVE  /\ coprime_stride(n) \in Nat \ {0}
           /\ Coprime(coprime_stride(n), n)
           /\ coprime_stride(n) <= n \div 2 \/ coprime_stride(n) = 1
<1> DEFINE first == IF n \div 2 > 1 THEN n \div 2 - 1 ELSE 1
           P(s) == /\ Coprime(s, n)
                   /\ \A t \in (s + 1) .. first : ~ Coprime(t, n)
           T == {m \in Nat : m < first /\ Coprime(first - m, n)}
<1>1. first \in Nat \ {0} /\ (first <= n \div 2 \/ first = 1)
  OBVIOUS
<1> HIDE DEF first
<1>2. Coprime(1, n)
  BY DEF Coprime
<1>3. T \in SUBSET Nat /\ first - 1 \in T
  <2>1. first - (first - 1) = 1 /\ first - 1 \in Nat /\ first - 1 < first
    BY <1>1
  <2> QED BY <2>1, <1>2
<1>4. PICK m \in T : \A j \in T : m <= j
  <2> HIDE DEF T
  <2> QED BY <1>3, NatMin
<1>5. first - m \in 1 .. first /\ P(first - m)
  <2>1. first - m \in 1 .. first /\ Coprime(first - m, n)
    BY <1>1, <1>4
  <2>2. ASSUME NEW t \in (first - m + 1) .. first, Coprime(t, n) PROVE FALSE
    <3>1. /\ first - t \in Nat /\ first - t < first /\ first - t < m
          /\ first - (first - t) = t
      BY <1>1, <1>4, <2>1
    <3>2. first - t \in T
      BY <3>1, <2>2
    <3> QED BY <3>1, <3>2, <1>4
  <2> QED BY <2>1, <2>2
<1>6. coprime_stride(n) = CHOOSE s \in 1 .. first : P(s)
  BY DEF coprime_stride, first
<1>7. coprime_stride(n) \in 1 .. first /\ P(coprime_stride(n))
  <2> HIDE DEF P
  <2>1. \E s \in 1 .. first : P(s)
    BY <1>5
  <2> QED BY <2>1, <1>6
<1> QED BY <1>1, <1>7

-----------------------------------------------------------------------------
(* One ring *)

\* The elements of a working set, and the constants.
LEMMA SizeFacts ==
    ASSUME NEW m \in 1 .. Len(Sizes)
    PROVE  /\ Elements(Sizes[m]) \in Nat \ {0}
           /\ Elements(Sizes[m]) + Elements(Sizes[m]) \div 2 < Word
           /\ Sizes[m] \in Nat /\ Iterations \in Nat \ {0} /\ Word \in Nat \ {0}
<1> DEFINE b == Sizes[m]
           n == b \div ElementBytes
<1>1. /\ b \in Nat \ {0} /\ b % ElementBytes = 0 /\ n + n \div 2 < Word
      /\ Iterations \in Nat \ {0} /\ Word \in Nat \ {0}
  BY SizesAssumption
<1> HIDE DEF b
<1>2. n \in Nat \ {0}
  BY <1>1 DEF ElementBytes
<1> HIDE DEF n
<1>3. n < Word
  BY <1>1, <1>2
<1>4. n % Word = n
  BY <1>1, <1>2, <1>3
<1>5. Elements(b) = n
  BY <1>4 DEF Elements, n
<1> QED BY <1>1, <1>2, <1>5 DEF b

\* What the stride is good for; the sum of an index and the stride fits a word.
LEMMA RingFacts ==
    ASSUME k \in 1 .. Len(Sizes)
    PROVE  /\ elements \in Nat \ {0} /\ stride \in Nat \ {0}
           /\ \E g \in Nat : (stride * g) % elements = 1 % elements
           /\ \A j \in Indices : /\ (j + stride) % Word = j + stride
                                /\ (j + stride) % elements \in Indices
<1> DEFINE n == Elements(Sizes[k])
<1>1. n \in Nat \ {0} /\ n + n \div 2 < Word /\ Word \in Nat \ {0}
  BY SizeFacts
<1> HIDE DEF n
<1> DEFINE s == coprime_stride(n)
<1>2. /\ s \in Nat \ {0} /\ Coprime(s, n)
      /\ s <= n \div 2 \/ s = 1
  BY <1>1, StrideFacts
<1> HIDE DEF s
<1>3. \E g \in Nat : (s * g) % n = 1 % n
  BY <1>1, <1>2, Invertible
<1>4. ASSUME NEW j \in 0 .. (n - 1)
      PROVE  (j + s) % Word = j + s /\ (j + s) % n \in 0 .. (n - 1)
  <2>1. j + s \in Nat /\ j + s < Word
    BY <1>1, <1>2
  <2>2. (j + s) % Word = j + s
    BY <2>1, <1>1
  <2>3. (j + s) % n \in 0 .. (n - 1)
    <3>1. j + s \in Int
      BY <2>1
    <3> QED BY <3>1, <1>1, DivMod
  <2> QED BY <2>2, <2>3
<1>5. elements = n /\ stride = s /\ Indices = 0 .. (n - 1)
  BY DEF elements, stride, Indices, n, s
<1> HIDE DEF elements, stride, Indices
<1> QED BY <1>1, <1>2, <1>3, <1>4, <1>5

\* The walk starts at the first element and goes one stride with every load.
LEMMA AtFacts ==
    ASSUME k \in 1 .. Len(Sizes), NEW h \in Nat
    PROVE  /\ At(h) \in Indices /\ At(0) = 0 /\ 0 \in Indices
           /\ (At(h) + stride) % elements = At(h + 1)
<1>1. elements \in Nat \ {0} /\ stride \in Int /\ h \in Int
  BY RingFacts
<1>2. h * stride \in Int /\ (h + 1) * stride = h * stride + stride
  BY <1>1, OneMore
<1>3. (((h * stride) % elements) + stride) % elements
         = (h * stride + stride) % elements
  BY <1>1, <1>2, ModAdd
<1>4. (h * stride) % elements \in 0 .. (elements - 1)
  BY <1>1, <1>2, DivMod
<1>5. At(0) = 0
  <2>1. 0 * stride = 0 /\ 0 % elements = 0
    BY <1>1
  <2> QED BY <2>1 DEF At
<1>6. 0 \in Indices
  BY <1>1 DEF Indices
<1> QED BY <1>2, <1>3, <1>4, <1>5, <1>6 DEF At, Indices

\* It is back at the first element exactly after whole turns.
LEMMA BackAtFirst ==
    ASSUME k \in 1 .. Len(Sizes), NEW h \in Nat
    PROVE  At(h) = 0 <=> h % elements = 0
<1> DEFINE r == h % elements
<1>0. /\ elements \in Nat \ {0} /\ stride \in Nat /\ stride \in Int
      /\ h \in Int
  BY RingFacts
<1>1. PICK g \in Nat : (stride * g) % elements = 1 % elements
  BY RingFacts
<1>2. (r * stride) % elements = At(h)
  BY <1>0, ModMul DEF At
<1>3. r \in 0 .. (elements - 1)
  BY <1>0, DivMod
<1> HIDE DEF r
<1>4. (((r * stride) % elements) * g) % elements = r
  BY <1>0, <1>1, <1>3, UndoFactor
<1>5. ASSUME At(h) = 0 PROVE r = 0
  <2>1. (0 * g) % elements = 0
    <3>1. 0 * g = 0 /\ 0 % elements = 0
      BY <1>0
    <3> QED BY <3>1
  <2> QED BY <2>1, <1>2, <1>4, <1>5
<1>6. ASSUME r = 0 PROVE At(h) = 0
  <2>1. 0 * stride = 0 /\ 0 % elements = 0
    BY <1>0
  <2> QED BY <2>1, <1>2, <1>6
<1> QED BY <1>5, <1>6 DEF r

\* Every element is on the ring.
LEMMA OnRing ==
    ASSUME k \in 1 .. Len(Sizes), NEW e \in Indices
    PROVE  \E j \in 0 .. (elements - 1) : At(j) = e
<1>0. /\ elements \in Nat \ {0} /\ stride \in Nat /\ stride \in Int
  BY RingFacts
<1>1. PICK g \in Nat : (stride * g) % elements = 1 % elements
  BY RingFacts
<1>2. (g * stride) % elements = 1 % elements
  <2>1. g * stride = stride * g
    BY <1>0
  <2> QED BY <2>1, <1>1
<1>3. e \in 0 .. (elements - 1)
  BY DEF Indices
<1>4. (((e * g) % elements) * stride) % elements = e
  BY <1>0, <1>2, <1>3, UndoFactor
<1>5. (e * g) % elements \in 0 .. (elements - 1)
  <2>1. e * g \in Int
    BY <1>3, <1>0
  <2> QED BY <2>1, <1>0, DivMod
<1> QED BY <1>4, <1>5 DEF At

\* What has been loaded after no load, and after one more.
LEMMA VisitedFacts ==
    ASSUME k \in 1 .. Len(Sizes), NEW h \in Nat
    PROVE  /\ Visited(0) = {} /\ Visited(h) \subseteq Indices
           /\ Visited(h + 1) = Visited(h) \cup {At(h)}
           /\ \A l \in Nat : h <= l => Visited(h) \subseteq Visited(l)
           /\ elements <= h => Visited(h) = Indices
<1>1. \A j \in Nat : At(j) \in Indices
  BY AtFacts
<1>2. Visited(0) = {}
  BY DEF Visited
<1>3. Visited(h) \subseteq Indices
  BY <1>1 DEF Visited
<1>4. Visited(h + 1) = Visited(h) \cup {At(h)}
  <2>1. \A j : j \in 0 .. (h + 1 - 1) <=> j \in 0 .. (h - 1) \/ j = h
    OBVIOUS
  <2> QED BY <2>1 DEF Visited
<1>5. ASSUME NEW l \in Nat, h <= l PROVE Visited(h) \subseteq Visited(l)
  <2>1. \A j : j \in 0 .. (h - 1) => j \in 0 .. (l - 1)
    BY <1>5
  <2> QED BY <2>1 DEF Visited
<1>6. ASSUME elements <= h PROVE Indices \subseteq Visited(h)
  <2>1. \A j : j \in 0 .. (elements - 1) => j \in 0 .. (h - 1)
    BY <1>6, RingFacts
  <2> QED BY <2>1, OnRing DEF Visited
<1> QED BY <1>2, <1>3, <1>4, <1>5, <1>6

-----------------------------------------------------------------------------
(* The inductive invariant *)

\* ChaseInv holds of the first working set before anything is filled.
LEMMA ChaseInit == Init => ChaseInv
<1> SUFFICES ASSUME Init PROVE ChaseInv
  OBVIOUS
<1>1. 1 \in 1 .. Len(Sizes)
  BY SizesAssumption
<1>2. elements \in Nat \ {0} /\ Iterations \in Nat
  BY <1>1, RingFacts, SizesAssumption DEF Init
<1>3. TypeOK
  BY <1>1, <1>2 DEF Init, TypeOK
<1>4. FillInv
  BY DEF Init, FillInv
<1>5. WalkInv
  BY DEF Init, WalkInv
<1>6. RowsCover
  BY DEF Init, RowsCover
<1> QED BY <1>3, <1>4, <1>5, <1>6 DEF ChaseInv

\* The operators of the current working set, in a step that stays with it.
LEMMA SameSize ==
    ASSUME k' = k
    PROVE  /\ elements' = elements /\ stride' = stride /\ Indices' = Indices
           /\ \A n : At(n)' = At(n) /\ Visited(n)' = Visited(n)
  BY DEF elements, stride, Indices, At, Visited

\* The vector is filled and copied.
LEMMA FillStep ==
    ASSUME ChaseInv, Fill
    PROVE  ChaseInv'
<1>0. /\ k \in 1 .. Len(Sizes) /\ k' = k /\ pc = "fill" /\ pc' = "first"
      /\ index' = index /\ left' = left /\ loaded' = loaded /\ warm' = warm
      /\ rows' = rows
  BY DEF ChaseInv, TypeOK, Fill, walk
<1>1. /\ next' = [j \in Indices |-> (j + stride) % elements]
      /\ \A j \in Indices : (j + stride) % elements \in Indices
  BY <1>0, RingFacts DEF Fill, Link
<1> USE SameSize
<1>2. TypeOK'
  BY <1>0, <1>1 DEF ChaseInv, TypeOK
<1>3. FillInv'
  BY <1>0, <1>1 DEF FillInv
<1>4. WalkInv'
  BY <1>0 DEF ChaseInv, WalkInv
<1>5. RowsCover'
  BY <1>0 DEF ChaseInv, RowsCover
<1> QED BY <1>2, <1>3, <1>4, <1>5 DEF ChaseInv

\* A launch starts its walk at the first element.
LEMMA LaunchStep ==
    ASSUME ChaseInv, LaunchFirst \/ LaunchTimed
    PROVE  ChaseInv'
<1>0. /\ k \in 1 .. Len(Sizes) /\ k' = k
      /\ \/ pc = "first" /\ pc' = "warming"
         \/ pc = "timed" /\ pc' = "timing"
      /\ index' = 0 /\ left' = Iterations /\ loaded' = {} /\ warm' = loaded
      /\ next' = next /\ rows' = rows
      /\ Iterations \in Nat /\ Iterations - Iterations = 0
      /\ next \in [Indices -> Indices]
  BY SizesAssumption
     DEF ChaseInv, TypeOK, LaunchFirst, LaunchTimed, Launch, host
<1>1. At(0) = 0 /\ 0 \in Indices /\ Visited(0) = {}
  <2>1. 0 \in Nat
    OBVIOUS
  <2> QED BY <2>1, <1>0, AtFacts, VisitedFacts
<1> USE SameSize
<1>2. TypeOK'
  BY <1>0, <1>1 DEF ChaseInv, TypeOK
<1>3. FillInv'
  BY <1>0 DEF ChaseInv, FillInv
<1>4. WalkInv'
  <2>1. pc' = "timing" => warm' = Visited(Iterations)
    BY <1>0 DEF ChaseInv, WalkInv
  <2>2. /\ index' = At(Iterations - left')
        /\ loaded' = Visited(Iterations - left')
    BY <1>0, <1>1
  <2>3. pc' \in {"warming", "timing"}
    BY <1>0
  <2> QED BY <1>0, <2>1, <2>2, <2>3 DEF WalkInv
<1>5. RowsCover'
  BY <1>0 DEF ChaseInv, RowsCover
<1> QED BY <1>2, <1>3, <1>4, <1>5 DEF ChaseInv

\* One more load, one stride on.
LEMMA LoadStep ==
    ASSUME ChaseInv, Load
    PROVE  ChaseInv'
<1> DEFINE h == Iterations - left
<1>0. /\ k \in 1 .. Len(Sizes) /\ k' = k /\ pc' = pc
      /\ pc \in {"warming", "timing"} /\ left \in 0 .. Iterations /\ left > 0
      /\ left' = left - 1 /\ next' = next /\ warm' = warm
      /\ rows' = rows /\ Iterations \in Nat
      /\ next \in [Indices -> Indices]
      /\ index' = next[index] /\ loaded' = loaded \cup {index}
      /\ index \in Indices
  BY SizesAssumption DEF ChaseInv, TypeOK, Load, host
<1>1. h \in Nat /\ Iterations - left' = h + 1
  BY <1>0
<1>2. index = At(h) /\ loaded = Visited(h)
  BY <1>0 DEF ChaseInv, WalkInv
<1> HIDE DEF h
<1>3. next[index] = (index + stride) % elements
  BY <1>0 DEF ChaseInv, FillInv
<1>4. index' = At(h + 1) /\ index' \in Indices
  <2>1. h + 1 \in Nat
    BY <1>1
  <2>2. At(h + 1) \in Indices
    BY <1>0, <2>1, AtFacts
  <2> QED BY <1>0, <1>1, <1>2, <1>3, <2>2, AtFacts
<1>5. loaded' = Visited(h + 1)
  BY <1>0, <1>1, <1>2, VisitedFacts
<1> USE SameSize
<1>6. TypeOK'
  <2>1. left' \in 0 .. Iterations
    BY <1>0
  <2>2. loaded' \subseteq Indices
    BY <1>0 DEF ChaseInv, TypeOK
  <2> QED BY <1>0, <1>4, <2>1, <2>2 DEF ChaseInv, TypeOK
<1>7. FillInv'
  BY <1>0 DEF ChaseInv, FillInv
<1>8. WalkInv'
  <2>1. pc' = "timing" => warm' = Visited(Iterations)
    BY <1>0 DEF ChaseInv, WalkInv
  <2>2. /\ index' = At(Iterations - left')
        /\ loaded' = Visited(Iterations - left')
    BY <1>1, <1>4, <1>5
  <2> QED BY <1>0, <2>1, <2>2 DEF WalkInv
<1>9. RowsCover'
  BY <1>0 DEF ChaseInv, RowsCover
<1> QED BY <1>6, <1>7, <1>8, <1>9 DEF ChaseInv

\* The first launch has ended.
LEMMA SyncFirstStep ==
    ASSUME ChaseInv, SyncFirst
    PROVE  ChaseInv'
<1>0. /\ k \in 1 .. Len(Sizes) /\ k' = k /\ pc = "warming" /\ pc' = "timed"
      /\ left = 0 /\ Iterations - left = Iterations
      /\ next' = next /\ loaded' = loaded /\ left' = left
      /\ warm' = warm /\ rows' = rows
      /\ next \in [Indices -> Indices]
  BY SizesAssumption DEF ChaseInv, TypeOK, SyncFirst, host, walk
<1> USE SameSize
<1>1. TypeOK'
  BY <1>0 DEF ChaseInv, TypeOK
<1>2. FillInv'
  BY <1>0 DEF ChaseInv, FillInv
<1>3. WalkInv'
  BY <1>0 DEF ChaseInv, WalkInv
<1>4. RowsCover'
  BY <1>0 DEF ChaseInv, RowsCover
<1> QED BY <1>1, <1>2, <1>3, <1>4 DEF ChaseInv

\* The second one has, and its row is stored.
LEMMA SyncTimedStep ==
    ASSUME ChaseInv, SyncTimed
    PROVE  ChaseInv'
<1> DEFINE new == [bytes |-> Sizes[k], loaded |-> loaded]
<1>0. /\ k \in 1 .. Len(Sizes) /\ pc = "timing"
      /\ left = 0 /\ Iterations - left = Iterations
      /\ loaded' = {} /\ warm' = {} /\ left' = left
      /\ rows' = Append(rows, new)
      /\ \/ k < Len(Sizes) /\ k' = k + 1 /\ pc' = "fill"
         \/ k' = k /\ pc' = "done"
      /\ Iterations \in Nat
      /\ loaded \subseteq Indices
  BY SizesAssumption DEF ChaseInv, TypeOK, SyncTimed
<1>1. loaded = Visited(Iterations)
  BY <1>0 DEF ChaseInv, WalkInv
<1>2. k' \in 1 .. Len(Sizes) /\ elements' \in Nat
  <2>1. k' \in 1 .. Len(Sizes)
    BY <1>0, SizesAssumption
  <2>2. Elements(Sizes[k']) \in Nat
    BY <2>1, SizeFacts
  <2>3. elements' = Elements(Sizes[k'])
    BY DEF elements
  <2> QED BY <2>1, <2>2, <2>3
<1>3. new \in [bytes : Nat, loaded : SUBSET Nat]
  <2>1. Sizes[k] \in Nat
    BY <1>0, SizeFacts
  <2>2. Indices \subseteq Nat
    BY <1>0, RingFacts DEF Indices
  <2> QED BY <1>0, <2>1, <2>2
<1>4. rows \in Seq([bytes : Nat, loaded : SUBSET Nat])
  BY DEF ChaseInv, TypeOK
<1>5. TypeOK'
  <2>1. rows' \in Seq([bytes : Nat, loaded : SUBSET Nat])
    <3> HIDE DEF new
    <3> QED BY <1>0, <1>3, <1>4
  <2> QED BY <1>0, <1>2, <2>1 DEF ChaseInv, TypeOK
<1>6. FillInv'
  BY <1>0 DEF FillInv
<1>7. WalkInv'
  BY <1>0 DEF WalkInv
<1>8. RowsCover'
  <2>1. elements <= Iterations => loaded = 0 .. (elements - 1)
    <3>1. elements <= Iterations => Visited(Iterations) = Indices
      BY <1>0, VisitedFacts
    <3> QED BY <1>1, <3>1 DEF Indices
  <2>2. /\ new.bytes = Sizes[k] /\ new.loaded = loaded
        /\ Elements(new.bytes) = elements
    BY DEF elements
  <2> HIDE DEF new
  <2>3. ASSUME NEW n \in 1 .. Len(rows')
        PROVE  \/ n \in 1 .. Len(rows) /\ rows'[n] = rows[n]
               \/ rows'[n] = new
    BY <1>0, <1>3, <1>4
  <2> QED BY <2>1, <2>2, <2>3 DEF ChaseInv, RowsCover
<1> QED BY <1>5, <1>6, <1>7, <1>8 DEF ChaseInv

\* An exception leaves the walk where it is.
LEMMA FailStep ==
    ASSUME ChaseInv, CallFails
    PROVE  ChaseInv'
<1>0. /\ k' = k /\ pc' = "thrown" /\ left' = left
      /\ loaded' = loaded /\ warm' = warm /\ rows' = rows
  BY DEF CallFails, host, walk
<1> USE SameSize
<1>1. TypeOK'
  BY <1>0 DEF ChaseInv, TypeOK
<1>2. FillInv' /\ WalkInv'
  BY <1>0 DEF FillInv, WalkInv
<1>3. RowsCover'
  BY <1>0 DEF ChaseInv, RowsCover
<1> QED BY <1>1, <1>2, <1>3 DEF ChaseInv

\* Every step preserves the invariant.
LEMMA ChaseStep == ChaseInv /\ [Next]_vars => ChaseInv'
<1> SUFFICES ASSUME ChaseInv, [Next]_vars PROVE ChaseInv'
  OBVIOUS
<1>1. CASE UNCHANGED vars
  BY <1>1 DEF vars, host, walk, ChaseInv, TypeOK, FillInv, WalkInv, RowsCover, elements,
              stride, Indices, At, Visited
<1>2. CASE Fill
  BY <1>2, FillStep
<1>3. CASE LaunchFirst \/ LaunchTimed
  BY <1>3, LaunchStep
<1>4. CASE SyncFirst
  BY <1>4, SyncFirstStep
<1>5. CASE SyncTimed
  BY <1>5, SyncTimedStep
<1>6. CASE CallFails
  BY <1>6, FailStep
<1>7. CASE Load
  BY <1>7, LoadStep
<1> QED BY <1>1, <1>2, <1>3, <1>4, <1>5, <1>6, <1>7 DEF Next

\* Where each walk is and what it has loaded, in closed form, for any working
\* sets whose indices a word can count and any number of loads.
THEOREM ChaseInvariance == Spec => []ChaseInv
<1>1. Init => ChaseInv
  BY ChaseInit
<1>2. ChaseInv /\ [Next]_vars => ChaseInv'
  BY ChaseStep
<1> QED BY <1>1, <1>2, PTL DEF Spec

-----------------------------------------------------------------------------
(* The properties *)

\* Every variable keeps its type; the walk never leaves the elements of the ring.
THEOREM ChaseTypes == Spec => []TypeOK
<1>1. ChaseInv => TypeOK
  BY DEF ChaseInv
<1> QED BY ChaseInvariance, <1>1, PTL

\* coprime_stride gives one ring whatever the working set: a walk comes back to
\* the first element after whole turns and never before.
THEOREM SingleRing == Spec => []OneRing
<1>1. ChaseInv => OneRing
  <2> SUFFICES ASSUME ChaseInv, pc \in {"warming", "timing"}
               PROVE  index = 0 <=> (Iterations - left) % elements = 0
    BY DEF OneRing
  <2>1. /\ k \in 1 .. Len(Sizes) /\ Iterations - left \in Nat
        /\ index = At(Iterations - left)
    BY SizesAssumption DEF ChaseInv, TypeOK, WalkInv
  <2> QED BY <2>1, BackAtFirst
<1> QED BY <1>1, ChaseInvariance, PTL

\* The launch that is reported loads only elements that the launch before it
\* has loaded.
THEOREM WarmRow == Spec => []TimedIsWarm
<1>1. ChaseInv => TimedIsWarm
  <2> SUFFICES ASSUME ChaseInv, pc = "timing" PROVE loaded \subseteq warm
    BY DEF TimedIsWarm
  <2>1. /\ k \in 1 .. Len(Sizes) /\ Iterations - left \in Nat
        /\ Iterations \in Nat /\ Iterations - left <= Iterations
        /\ loaded = Visited(Iterations - left) /\ warm = Visited(Iterations)
    BY SizesAssumption DEF ChaseInv, TypeOK, WalkInv
  <2> QED BY <2>1, VisitedFacts
<1> QED BY <1>1, ChaseInvariance, PTL

\* A row with enough loads is about the whole of its working set.
THEOREM RowsWhole == Spec => []RowsCover
<1>1. ChaseInv => RowsCover
  BY DEF ChaseInv
<1> QED BY <1>1, ChaseInvariance, PTL
=============================================================================
