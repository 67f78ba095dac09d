-------------------------- MODULE PointerRingProofs --------------------------
(***************************************************************************)
(* Theorems about PointerRing: for every factor that is invertible modulo  *)
(* the node counts, what is built are permutations and rings, every timed  *)
(* walk loads them evenly and as much of them as it has loads for, and all *)
(* but the first sample of a row meet only memory loaded before.           *)
(***************************************************************************)
EXTENDS PointerRing, IntegerFacts, FunctionTheorems, FiniteSetTheorems

\* The row and the constants.
LEMMA RowFacts ==
    ASSUME k \in 1 .. Len(Rows)
    PROVE  /\ nodes \in Nat \ {0} /\ row.factor \in Nat \ {0}
           /\ row.streams \in Nat \ {0} /\ row.count \in Nat \ {0}
           /\ row.kind \in Kinds /\ (Indexed => row.streams = 1)
           /\ WarmSteps \in Nat \ {0} /\ Samples \in Nat \ {0}
           /\ \E g \in 0 .. (nodes - 1) : (row.factor * g) % nodes = 1 % nodes
<1>1. row \in RowType
  BY RowAssumption DEF row
<1>2. Indexed => row.streams = 1
  BY StreamAssumption DEF row, Indexed
<1>3. \E g \in 0 .. (nodes - 1) : (row.factor * g) % nodes = 1 % nodes
  BY MaskAssumption DEF row, nodes
<1> QED BY <1>1, <1>2, <1>3, RowAssumption DEF RowType, nodes

\* The lengths of the walks.
LEMMA StepFacts ==
    ASSUME k \in 1 .. Len(Rows)
    PROVE  /\ Steps \in Nat /\ WarmUp \in Nat
           /\ row.kind = "sweep" => Steps >= nodes * Turns
<1>1. /\ nodes \in Nat /\ row.count \in Nat /\ row.streams \in Nat \ {0}
      /\ WarmSteps \in Nat
  BY RowFacts
<1>2. row.kind = "mlp" => row.streams \in {1, 2, 4}
  BY StreamAssumption DEF row
<1>3. ASSUME NEW n \in Nat, row.kind = "mlp" PROVE PerStream(n) \in Nat
  <2>1. 4 \div row.streams \in {1, 2, 4}
    BY <1>2, <1>3
  <2>2. n \div 4 \in Nat
    BY <1>3
  <2> QED BY <2>1, <2>2 DEF PerStream
<1>4. nodes * Turns \in Nat
  BY <1>1 DEF Turns
<1>5. row.count \div 16 \in Nat
  BY <1>1
<1>6. Steps \in Nat /\ (row.kind = "sweep" => Steps >= nodes * Turns)
  BY <1>1, <1>3, <1>4 DEF Steps
<1>7. WarmUp \in Nat
  BY <1>1, <1>3, <1>5 DEF WarmUp
<1> QED BY <1>6, <1>7

-----------------------------------------------------------------------------
(* The walk: every slot has one place in it *)

\* The place of a node depends on its number modulo the node count.
LEMMA PlaceFacts ==
    ASSUME k \in 1 .. Len(Rows), NEW h \in Nat
    PROVE  /\ h % nodes \in Slots /\ Place(h) \in Slots
           /\ Place(h % nodes) = Place(h)
           /\ Place((h % nodes) + 1) = Place(h + 1)
           /\ (Place(h) + row.factor) % nodes = Place(h + 1)
<1>1. nodes \in Nat \ {0} /\ row.factor \in Int /\ h \in Int /\ h + 1 \in Int
      /\ 1 \in Int
  BY RowFacts
<1>2. h % nodes \in Slots
  BY <1>1, DivMod DEF Slots
<1>3. h * row.factor \in Int /\ (h + 1) * row.factor = h * row.factor + row.factor
  BY <1>1, OneMore
<1>4. Place(h) \in Slots
  BY <1>1, <1>3, DivMod DEF Place, Slots
<1>5. Place(h % nodes) = Place(h)
  BY <1>1, ModMul DEF Place
<1>6. Place((h % nodes) + 1) = Place(h + 1)
  <2>1. (h % nodes) + 1 \in Int /\ h % nodes \in Int
    BY <1>1, <1>2 DEF Slots
  <2>2. ((((h % nodes) + 1) % nodes) * row.factor) % nodes
           = (((h % nodes) + 1) * row.factor) % nodes
    BY <1>1, <2>1, ModMul
  <2>3. ((h % nodes) + 1) % nodes = (h + 1) % nodes
    BY <1>1, ModAdd
  <2>4. (((h + 1) % nodes) * row.factor) % nodes
           = ((h + 1) * row.factor) % nodes
    BY <1>1, ModMul
  <2> QED BY <2>2, <2>3, <2>4 DEF Place
<1>7. (Place(h) + row.factor) % nodes = Place(h + 1)
  <2>1. (((h * row.factor) % nodes) + row.factor) % nodes
           = (h * row.factor + row.factor) % nodes
    BY <1>1, <1>3, ModAdd
  <2> QED BY <2>1, <1>3 DEF Place
<1> QED BY <1>2, <1>4, <1>5, <1>6, <1>7

\* The places of different nodes are different.
LEMMA Injective ==
    ASSUME k \in 1 .. Len(Rows), NEW a \in Slots, NEW b \in Slots,
           Place(a) = Place(b)
    PROVE  a = b
<1>1. PICK g \in 0 .. (nodes - 1) : (row.factor * g) % nodes = 1 % nodes
  BY RowFacts
<1>2. /\ a \in 0 .. (nodes - 1) /\ b \in 0 .. (nodes - 1)
      /\ nodes \in Nat \ {0} /\ row.factor \in Nat /\ g \in Nat
  BY RowFacts DEF Slots
<1>3. (Place(a) * g) % nodes = a /\ (Place(b) * g) % nodes = b
  BY <1>1, <1>2, UndoFactor DEF Place
<1> QED BY <1>3

\* Every slot is the place of a node.
LEMMA Onto ==
    ASSUME k \in 1 .. Len(Rows), NEW s \in Slots
    PROVE  \E j \in Slots : Place(j) = s
<1>1. PICK g \in 0 .. (nodes - 1) : (row.factor * g) % nodes = 1 % nodes
  BY RowFacts
<1>2. (g * row.factor) % nodes = 1 % nodes
  <2>1. g * row.factor = row.factor * g
    BY RowFacts
  <2> QED BY <2>1, <1>1
<1>3. Place((s * g) % nodes) = s
  <2>1. /\ s \in 0 .. (nodes - 1) /\ nodes \in Nat \ {0}
        /\ row.factor \in Nat /\ g \in Nat
    BY RowFacts DEF Slots
  <2> QED BY <1>2, <2>1, UndoFactor DEF Place
<1>4. (s * g) % nodes \in Slots
  <2>1. s * g \in Int
    BY RowFacts DEF Slots
  <2> QED BY <2>1, RowFacts, DivMod DEF Slots
<1> QED BY <1>3, <1>4

\* A walk of h loads is at node h % nodes.
LEMMA AtNode ==
    ASSUME k \in 1 .. Len(Rows), NEW h \in Nat, NEW j \in Slots
    PROVE  Place(h) = Place(j) <=> j = h % nodes
<1>1. h % nodes \in Slots /\ Place(h % nodes) = Place(h)
  BY PlaceFacts
<1> QED BY <1>1, Injective

-----------------------------------------------------------------------------
(* The count of visits *)

\* What one more load does to the count of a slot whose turn is t.
LEMMA CountStep ==
    ASSUME NEW N \in Nat \ {0}, NEW h \in Nat, NEW t \in 0 .. (N - 1)
    PROVE  (h + 1 + N - 1 - t) \div N
             = ((h + N - 1 - t) \div N) + (IF t = h % N THEN 1 ELSE 0)
<1> DEFINE q == h \div N
           r == h % N
<1>1. q \in Int /\ r \in 0 .. (N - 1) /\ h = N * q + r
  BY DivMod
<1>2. t = h % N <=> t = r
  OBVIOUS
<1> HIDE DEF q, r
<1>3. N * (q + 1) = N * q + N
  BY <1>1
<1>4. CASE t = r
  <2>1. h + N - 1 - t = N * q + (N - 1) /\ h + 1 + N - 1 - t = N * (q + 1) + 0
    BY <1>1, <1>3, <1>4
  <2>2. (N * q + (N - 1)) \div N = q
    BY <1>1, ModUnique
  <2>3. (N * (q + 1) + 0) \div N = q + 1
    BY <1>1, ModUnique
  <2> QED BY <2>1, <2>2, <2>3, <1>1, <1>2, <1>4
<1>5. CASE t < r
  <2>1. /\ h + N - 1 - t = N * (q + 1) + (r - 1 - t)
        /\ h + 1 + N - 1 - t = N * (q + 1) + (r - t)
        /\ r - 1 - t \in 0 .. (N - 1) /\ r - t \in 0 .. (N - 1)
    BY <1>1, <1>3, <1>5
  <2>2. /\ (N * (q + 1) + (r - 1 - t)) \div N = q + 1
        /\ (N * (q + 1) + (r - t)) \div N = q + 1
    BY <2>1, <1>1, ModUnique
  <2> QED BY <2>1, <2>2, <1>1, <1>2, <1>5
<1>6. CASE t > r
  <2>1. /\ h + N - 1 - t = N * q + (N - 1 + r - t)
        /\ h + 1 + N - 1 - t = N * q + (N + r - t)
        /\ N - 1 + r - t \in 0 .. (N - 1) /\ N + r - t \in 0 .. (N - 1)
    BY <1>1, <1>6
  <2>2. /\ (N * q + (N - 1 + r - t)) \div N = q
        /\ (N * q + (N + r - t)) \div N = q
    BY <2>1, <1>1, ModUnique
  <2> QED BY <2>1, <2>2, <1>1, <1>2, <1>6
<1> QED BY <1>1, <1>4, <1>5, <1>6

\* A walk visits a node once more when it comes to the node, and else not.
LEMMA VisitsStep ==
    ASSUME k \in 1 .. Len(Rows), NEW h \in Nat, NEW j \in Slots
    PROVE  /\ Visits(j, 0) = 0
           /\ Visits(j, h) \in Int
           /\ Visits(j, h + 1) = IF Place(h) = Place(j) THEN Visits(j, h) + 1
                                                        ELSE Visits(j, h)
<1>1. j \in 0 .. (nodes - 1) /\ nodes \in Nat \ {0}
  BY RowFacts DEF Slots
<1>2. Visits(j, 0) = 0
  <2>1. (nodes * 0 + (nodes - 1 - j)) \div nodes = 0
    BY <1>1, ModUnique
  <2>2. 0 + nodes - 1 - j = nodes * 0 + (nodes - 1 - j)
    BY <1>1
  <2> QED BY <2>1, <2>2 DEF Visits
<1>3. Visits(j, h) \in Int
  <2>1. h + nodes - 1 - j \in Int
    BY <1>1
  <2> QED BY <1>1, <2>1, DivMod DEF Visits
<1>4. Visits(j, h + 1) = Visits(j, h) + (IF j = h % nodes THEN 1 ELSE 0)
  BY <1>1, CountStep DEF Visits
<1> QED BY <1>2, <1>3, <1>4, AtNode

\* Of h visits in turns to N nodes, each gets the whole rounds, or one more.
LEMMA CountEven ==
    ASSUME NEW N \in Nat \ {0}, NEW h \in Nat, NEW t \in 0 .. (N - 1)
    PROVE  /\ (h + N - 1 - t) \div N \in (h \div N) .. (h \div N + 1)
           /\ h >= N * 16 => (h + N - 1 - t) \div N >= 16
<1> DEFINE q == h \div N
           r == h % N
           e == r + N - 1 - t
           v == (h + N - 1 - t) \div N
<1>1. q \in Int /\ r \in 0 .. (N - 1) /\ h = N * q + r
  BY DivMod
<1> HIDE DEF q, r
<1>2. h + N - 1 - t = N * q + e /\ N * (q + 1) = N * q + N /\ e \in Int
  BY <1>1
<1>3. v \in q .. (q + 1)
  <2>1. CASE e < N
    <3>1. e \in 0 .. (N - 1)
      BY <2>1, <1>1
    <3> HIDE DEF e
    <3>2. (N * q + e) \div N = q
      BY <3>1, <1>1, ModUnique
    <3> QED BY <3>2, <1>1, <1>2
  <2>2. CASE e >= N
    <3> DEFINE d == e - N
    <3>1. /\ d \in 0 .. (N - 1) /\ N * q + e = N * (q + 1) + d
          /\ q + 1 \in Int
      BY <2>2, <1>1, <1>2
    <3> HIDE DEF e, d
    <3>2. (N * (q + 1) + d) \div N = q + 1
      BY <3>1, <1>1, ModUnique
    <3> QED BY <3>1, <3>2, <1>1, <1>2
  <2> QED BY <2>1, <2>2, <1>1
<1> HIDE DEF v
<1>4. ASSUME h >= N * 16 PROVE q >= 16
  <2>1. ASSUME q <= 15 PROVE FALSE
    <3>1. N * q <= N * 15
      BY <2>1, <1>1, Monotone
    <3> QED BY <3>1, <1>1, <1>4
  <2> QED BY <2>1, <1>1
<1>5. h >= N * 16 => v >= 16
  BY <1>1, <1>3, <1>4
<1> QED BY <1>3, <1>5 DEF q, v

\* The visits of a walk are its whole rounds, or one more.
LEMMA VisitsEven ==
    ASSUME k \in 1 .. Len(Rows), NEW h \in Nat, NEW j \in Slots
    PROVE  /\ Visits(j, h) \in (h \div nodes) .. (h \div nodes + 1)
           /\ h >= nodes * Turns => Visits(j, h) >= Turns
<1>1. j \in 0 .. (nodes - 1) /\ nodes \in Nat \ {0}
  BY RowFacts DEF Slots
<1> QED BY <1>1, CountEven DEF Visits, Turns

-----------------------------------------------------------------------------
(* RInv is inductive *)

\* The program starts with its first row, and no ring.
LEMMA InitR == Init => RInv
<1> SUFFICES ASSUME Init PROVE RInv
  OBVIOUS
<1>1. k \in 1 .. Len(Rows) /\ Len(Rows) \in Nat
  BY RowAssumption DEF Init
<1>2. next \in [1 .. c -> [Slots -> Slots \cup {NULL}]]
  BY DEF Init
<1>3. TypeOK
  BY <1>1, <1>2, RowFacts DEF Init, TypeOK, Walking, Passes
<1> QED BY <1>3 DEF Init, RInv, LinkInv, WalkInv, LoadInv, SeenInv, Walking

\* A sample recorded is an earlier one or the last.
LEMMA Appended ==
    ASSUME NEW S, NEW q \in Seq(S), NEW e \in S,
           NEW n \in 1 .. Len(Append(q, e))
    PROVE  \/ n \in 1 .. Len(q) /\ Append(q, e)[n] = q[n]
           \/ Append(q, e)[n] = e
OBVIOUS

\* It makes the record one longer.
LEMMA Longer ==
    ASSUME NEW S, NEW q \in Seq(S), NEW e \in S
    PROVE  Append(q, e) \in Seq(S) /\ Len(Append(q, e)) = Len(q) + 1
OBVIOUS

\* While a row is measured, its node count stays.
LEMMA SameRow ==
    ASSUME k' = k
    PROVE  /\ row' = row /\ nodes' = nodes /\ Slots' = Slots
           /\ Streams' = Streams /\ Indexed' = Indexed /\ Passes' = Passes
           /\ Steps' = Steps /\ WarmUp' = WarmUp /\ NULL' = NULL
           /\ \A j : Place(j)' = Place(j)
           /\ \A j, h : Visits(j, h)' = Visits(j, h)
  BY DEF row, nodes, Slots, Streams, Indexed, Passes, Steps, WarmUp, PerStream,
         Place, Visits, NULL

\* Building the rings.
LEMMA AllocR == RInv /\ Alloc => RInv'
<1> SUFFICES ASSUME RInv, Alloc PROVE RInv'
  OBVIOUS
<1>1. /\ TypeOK /\ LinkInv /\ WalkInv /\ LoadInv /\ SeenInv
      /\ pc \in {"alloc", "build"} /\ pc' = "build" /\ k' = k /\ pass' = pass
      /\ i' = 0 /\ c' = c + 1 /\ UNCHANGED <<p, left, loads, seen, taken>>
  BY DEF Alloc, Built, RInv
<1>2. /\ k \in 1 .. Len(Rows) /\ c \in Nat /\ c < row.streams /\ nodes \in Nat
      /\ (c > 0 => i = nodes)
  <2>1. pc = "alloc" => c = 0
    BY <1>1 DEF WalkInv
  <2>2. k \in 1 .. Len(Rows) /\ c \in Nat
    BY <1>1 DEF TypeOK
  <2>3. row.streams \in Nat \ {0} /\ nodes \in Nat
    BY <2>2, RowFacts
  <2>4. c < row.streams /\ (c > 0 => i = nodes)
    BY <2>1, <2>2, <2>3 DEF Alloc, Built
  <2> QED BY <2>2, <2>3, <2>4
<1>3. next' = [r \in 1 .. (c + 1) |->
                  IF r <= c THEN next[r] ELSE [s \in Slots |-> NULL]]
      /\ next \in [1 .. c -> [Slots -> Slots \cup {NULL}]]
  BY <1>1 DEF Alloc, TypeOK
<1>4. next' \in [1 .. c' -> [Slots -> Slots \cup {NULL}]]
  BY <1>1, <1>2, <1>3
<1>5. TypeOK'
  <2>1. /\ c' \in 0 .. row.streams /\ i' \in Nat /\ i' <= nodes /\ c' > 0
    BY <1>1, <1>2, RowFacts
  <2>2. /\ pass \in 1 .. Passes /\ left \in Nat /\ seen \subseteq Streams \X Slots
        /\ taken \in Seq([Streams -> [Slots -> Nat]]) /\ Len(taken) <= Samples
    BY <1>1 DEF TypeOK
  <2> QED BY <2>1, <2>2, <1>1, <1>2, <1>4, SameRow DEF TypeOK, Walking
<1>6. LinkInv'
  <2>1. ASSUME NEW r \in 1 .. (c + 1), NEW j \in Slots, r < c + 1 \/ j < 0
        PROVE  next'[r][IF Indexed THEN j ELSE Place(j)] =
                  Place(IF Indexed THEN j ELSE j + 1)
    <3>1. j \in Nat /\ j < nodes
      BY <1>2 DEF Slots
    <3>2. r \in 1 .. c /\ (r < c \/ j < i) /\ next'[r] = next[r]
      BY <2>1, <3>1, <1>2, <1>3
    <3> QED BY <3>2, <1>1 DEF LinkInv
  <2> QED BY <2>1, <1>1, SameRow DEF LinkInv
<1>7. WalkInv' /\ LoadInv' /\ SeenInv'
  BY <1>1, SameRow DEF WalkInv, LoadInv, SeenInv, Walking
<1> QED BY <1>5, <1>6, <1>7 DEF RInv

\* A link is written where the closed form has it.
LEMMA LinkR == RInv /\ Link => RInv'
<1> SUFFICES ASSUME RInv, Link PROVE RInv'
  OBVIOUS
<1> DEFINE slot == IF Indexed THEN i ELSE Place(i)
           entry == Place(IF Indexed THEN i ELSE i + 1)
<1>1. /\ TypeOK /\ LinkInv /\ WalkInv /\ LoadInv /\ SeenInv
      /\ pc = "build" /\ pc' = "build" /\ k' = k /\ pass' = pass
      /\ i' = i + 1 /\ c' = c /\ UNCHANGED <<p, left, loads, seen, taken>>
      /\ next' = [next EXCEPT ![c][slot] = entry]
  BY DEF Link, RInv
<1>2. /\ k \in 1 .. Len(Rows) /\ c \in 1 .. c /\ nodes \in Nat
      /\ i \in Nat /\ i < nodes /\ i \in Slots /\ i + 1 \in Nat
      /\ c \in 0 .. row.streams
  BY <1>1, RowFacts DEF TypeOK, Link, Slots
<1>3. slot \in Slots /\ entry \in Slots
  BY <1>2, PlaceFacts
<1>4. next \in [1 .. c -> [Slots -> Slots \cup {NULL}]]
  BY <1>1 DEF TypeOK
<1>5. ASSUME NEW j \in Slots, j # i
      PROVE  (IF Indexed THEN j ELSE Place(j)) # slot
            /\ (IF Indexed THEN j ELSE Place(j)) \in Slots
  <2>1. j \in Nat
    BY <1>2 DEF Slots
  <2> QED BY <2>1, <1>2, <1>5, Injective, PlaceFacts
<1> HIDE DEF slot, entry
<1>6. next' \in [1 .. c' -> [Slots -> Slots \cup {NULL}]]
  BY <1>1, <1>3, <1>4
<1>7. TypeOK'
  <2>1. i' \in Nat /\ i' <= nodes /\ c > 0
    BY <1>1, <1>2
  <2>2. /\ pass \in 1 .. Passes /\ left \in Nat /\ seen \subseteq Streams \X Slots
        /\ taken \in Seq([Streams -> [Slots -> Nat]]) /\ Len(taken) <= Samples
    BY <1>1 DEF TypeOK
  <2> QED BY <2>1, <2>2, <1>1, <1>2, <1>6, SameRow DEF TypeOK, Walking
<1>8. LinkInv'
  <2>1. ASSUME NEW r \in 1 .. c, NEW j \in Slots, r < c \/ j < i + 1
        PROVE  next'[r][IF Indexed THEN j ELSE Place(j)] =
                  Place(IF Indexed THEN j ELSE j + 1)
    <3>1. CASE r = c /\ j = i
      <4>1. next'[c][slot] = entry
        BY <1>1, <1>2, <1>3, <1>4
      <4> QED BY <3>1, <4>1 DEF slot, entry
    <3>2. CASE r = c /\ j # i
      <4>1. j < i
        BY <2>1, <3>2, <1>2 DEF Slots
      <4>2. next'[r][IF Indexed THEN j ELSE Place(j)]
              = next[r][IF Indexed THEN j ELSE Place(j)]
        BY <3>2, <1>1, <1>2, <1>3, <1>4, <1>5
      <4> QED BY <4>1, <4>2, <1>1 DEF LinkInv
    <3>3. CASE r # c
      <4>1. next'[r] = next[r] /\ r < c
        BY <3>3, <2>1, <1>1, <1>2, <1>4
      <4> QED BY <4>1, <1>1 DEF LinkInv
    <3> QED BY <3>1, <3>2, <3>3
  <2> QED BY <2>1, <1>1, SameRow DEF LinkInv
<1>9. WalkInv' /\ LoadInv' /\ SeenInv'
  BY <1>1, SameRow DEF WalkInv, LoadInv, SeenInv, Walking
<1> QED BY <1>7, <1>8, <1>9 DEF RInv

\* A walk starts at the first slot of every ring, with all its loads ahead.
LEMMA StartR ==
    ASSUME RInv, NEW n \in Nat, Start(n),
           \/ pc' = "warm" /\ pc = "build" /\ Built /\ c = row.streams /\ n = WarmUp
           \/ pc' = "timed" /\ pc = "time" /\ n = Steps /\ Len(taken) < Samples
    PROVE  RInv'
<1>1. /\ TypeOK /\ LinkInv /\ WalkInv /\ LoadInv /\ SeenInv
      /\ UNCHANGED <<k, pass, c, i, next, seen, taken>>
      /\ p' = [r \in Streams |-> 0] /\ left' = n /\ loads' = NoLoads
  BY DEF Start, RInv
<1>2. /\ k \in 1 .. Len(Rows) /\ nodes \in Nat \ {0} /\ 0 \in Slots
      /\ Place(0) = 0 /\ n - n = 0 /\ n <= n /\ c = row.streams /\ i = nodes
      /\ c > 0 /\ row.streams \in Nat \ {0}
  <2>1. /\ k \in 1 .. Len(Rows) /\ nodes \in Nat \ {0}
        /\ row.factor \in Nat \ {0} /\ row.streams \in Nat \ {0}
    BY <1>1, RowFacts DEF TypeOK
  <2>2. (nodes * 0 + 0) % nodes = 0
    BY <2>1, ModUnique
  <2>3. 0 * row.factor = 0 /\ nodes * 0 + 0 = 0
    BY <2>1
  <2>4. Place(0) = 0
    BY <2>2, <2>3 DEF Place
  <2>5. c = row.streams /\ i = nodes
    BY <1>1 DEF WalkInv, Walking, Built
  <2> QED BY <2>1, <2>4, <2>5 DEF Slots
<1>3. done' = 0
  BY <1>1, <1>2, SameRow DEF done
<1>4. loads' \in [Streams -> [Slots -> Nat]] /\ p' \in [Streams -> Slots]
      /\ \A r \in Streams : \A s \in Slots : loads'[r][s] = 0
  BY <1>1, <1>2 DEF NoLoads
<1>5. TypeOK'
  BY <1>1, <1>2, <1>4, SameRow DEF TypeOK, Walking
<1>6. LinkInv'
  BY <1>1, SameRow DEF LinkInv
<1>7. WalkInv'
  <2>1. \A r \in Streams : p'[r] = Place(done')
    BY <1>1, <1>2, <1>3
  <2> QED BY <2>1, <1>1, <1>2, SameRow DEF WalkInv
<1>8. LoadInv'
  <2>1. ASSUME NEW r \in Streams, NEW j \in Slots
        PROVE  /\ loads'[r][Place(j)] = Visits(j, done')
               /\ \A m \in 1 .. Len(taken) : taken[m][r][Place(j)] = Visits(j, Steps)
    <3>1. j \in Nat
      BY <1>2 DEF Slots
    <3>2. Place(j) \in Slots /\ Visits(j, 0) = 0
      BY <3>1, <1>2, PlaceFacts, VisitsStep
    <3> QED BY <3>2, <1>1, <1>3, <1>4 DEF LoadInv
  <2> QED BY <2>1, <1>1, SameRow DEF LoadInv
<1>9. SeenInv'
  <2>1. ~ \E j \in Slots : j < done'
    BY <1>2, <1>3 DEF Slots
  <2> QED BY <2>1, <1>1, SameRow DEF SeenInv
<1> QED BY <1>5, <1>6, <1>7, <1>8, <1>9 DEF RInv

\* Where the next load of a walk is, and where the one after it will be.
LEMMA SlotAt ==
    ASSUME RInv, pc \in {"warm", "timed"}, NEW r \in Streams
    PROVE  /\ done \in Nat /\ Place(done) \in Slots
           /\ Slot(r) = Place(done)
           /\ ~Indexed => next[r][p[r]] = Place(done + 1)
<1>1. /\ TypeOK /\ LinkInv /\ WalkInv /\ k \in 1 .. Len(Rows) /\ left \in Nat
  BY DEF RInv, TypeOK
<1>2. nodes \in Nat \ {0} /\ Steps \in Nat /\ WarmUp \in Nat
      /\ row.streams \in Nat \ {0}
  BY <1>1, RowFacts, StepFacts
<1>3. done \in Nat
  BY <1>1, <1>2 DEF WalkInv, done
<1> DEFINE j == done % nodes
<1>4. /\ j \in Slots /\ Place(done) \in Slots /\ Place(j) = Place(done)
      /\ Place(j + 1) = Place(done + 1)
  BY <1>1, <1>3, PlaceFacts
<1>5. j < i /\ r \in 1 .. c
  BY <1>1, <1>2, <1>4 DEF WalkInv, Walking, Slots, Streams
<1> HIDE DEF j
<1>6. next[r][IF Indexed THEN j ELSE Place(j)] =
         Place(IF Indexed THEN j ELSE j + 1)
  BY <1>1, <1>4, <1>5 DEF LinkInv
<1>7. CASE Indexed
  BY <1>3, <1>4, <1>6, <1>7 DEF Slot, j
<1>8. CASE ~Indexed
  <2>1. p[r] = Place(done)
    BY <1>8, <1>1 DEF WalkInv
  <2> QED BY <2>1, <1>3, <1>4, <1>6, <1>8 DEF Slot
<1> QED BY <1>7, <1>8

\* One load on each ring.
LEMMA HopR == RInv /\ Hop => RInv'
<1> SUFFICES ASSUME RInv, Hop PROVE RInv'
  OBVIOUS
<1>1. /\ TypeOK /\ LinkInv /\ WalkInv /\ LoadInv /\ SeenInv
      /\ pc \in {"warm", "timed"} /\ pc' = pc /\ left > 0 /\ left' = left - 1
      /\ left \in Nat /\ k \in 1 .. Len(Rows)
      /\ UNCHANGED <<k, pass, c, i, next, taken>>
      /\ loads' = [r \in Streams |-> [loads[r] EXCEPT ![Slot(r)] = @ + 1]]
      /\ seen' = seen \cup {<<r, Slot(r)>> : r \in Streams}
      /\ p' = IF Indexed THEN p ELSE [r \in Streams |-> next[r][p[r]]]
  BY DEF Hop, RInv, TypeOK
<1>2. /\ p \in [Streams -> Slots] /\ loads \in [Streams -> [Slots -> Nat]]
      /\ seen \subseteq Streams \X Slots
  BY <1>1 DEF TypeOK, Walking
<1>3. /\ nodes \in Nat \ {0} /\ Steps \in Nat /\ WarmUp \in Nat
      /\ 1 \in Streams
  BY <1>1, RowFacts, StepFacts DEF Streams
<1>4. done \in Nat /\ Place(done) \in Slots /\ Place(done + 1) \in Slots
      /\ done' = done + 1
  <2>1. done \in Nat
    BY <1>1, <1>3, SlotAt
  <2>2. done' = done + 1
    BY <1>1, <1>3, SameRow DEF done
  <2>3. done + 1 \in Nat
    BY <2>1
  <2> QED BY <2>1, <2>2, <2>3, <1>1, PlaceFacts
<1>5. \A r \in Streams : /\ Slot(r) = Place(done)
                         /\ ~Indexed => next[r][p[r]] = Place(done + 1)
  BY <1>1, SlotAt
<1>6. loads' = [r \in Streams |-> [loads[r] EXCEPT ![Place(done)] = @ + 1]]
  BY <1>1, <1>5
<1>7. /\ loads' \in [Streams -> [Slots -> Nat]]
      /\ \A r \in Streams : \A s \in Slots :
            loads'[r][s] = IF s = Place(done) THEN loads[r][s] + 1
                                              ELSE loads[r][s]
  BY <1>2, <1>4, <1>6
<1>8. /\ p' \in [Streams -> Slots]
      /\ ~Indexed => \A r \in Streams : p'[r] = Place(done')
  BY <1>1, <1>2, <1>4, <1>5
<1>9. seen' \subseteq Streams \X Slots
  BY <1>1, <1>2, <1>4, <1>5
<1>10. TypeOK'
  <2>1. left' \in Nat
    BY <1>1
  <2> QED BY <2>1, <1>1, <1>7, <1>8, <1>9, SameRow DEF TypeOK, Walking
<1>11. LinkInv'
  BY <1>1, SameRow DEF LinkInv
<1>12. WalkInv'
  <2>1. /\ pc = "warm" => left' <= WarmUp
        /\ pc = "timed" => left' <= Steps
    BY <1>1, <1>3 DEF WalkInv
  <2> QED BY <2>1, <1>1, <1>8, SameRow DEF WalkInv, Walking
<1>13. LoadInv'
  <2>1. ASSUME NEW r \in Streams, NEW j \in Slots
        PROVE  /\ pc = "timed" => loads'[r][Place(j)] = Visits(j, done')
               /\ \A m \in 1 .. Len(taken) : taken[m][r][Place(j)] = Visits(j, Steps)
    <3>1. j \in Nat
      BY <1>3 DEF Slots
    <3>2. Place(j) \in Slots
      BY <3>1, <1>1, PlaceFacts
    <3>3. pc = "timed" => loads[r][Place(j)] = Visits(j, done)
      BY <1>1 DEF LoadInv
    <3>4. Visits(j, done + 1) = IF Place(done) = Place(j) THEN Visits(j, done) + 1
                                                          ELSE Visits(j, done)
      BY <1>1, <1>4, VisitsStep
    <3>5. loads'[r][Place(j)] = IF Place(done) = Place(j)
                                THEN loads[r][Place(j)] + 1
                                ELSE loads[r][Place(j)]
      BY <3>2, <1>7
    <3> QED BY <3>3, <3>4, <3>5, <1>1, <1>4 DEF LoadInv
  <2> QED BY <2>1, <1>1, SameRow DEF LoadInv
<1>14. SeenInv'
  <2>1. ASSUME NEW r \in Streams, NEW j \in Slots,
               \/ pc = "timed" /\ j < done + 1
               \/ (taken # <<>> \/ pass > 1) /\ j < Steps
        PROVE  <<r, Place(j)>> \in seen'
    <3>1. CASE pc = "timed" /\ j = done
      BY <3>1, <1>1, <1>5
    <3>2. CASE ~(pc = "timed" /\ j = done)
      <4>1. \/ pc = "timed" /\ j < done
            \/ (taken # <<>> \/ pass > 1) /\ j < Steps
        BY <3>2, <2>1, <1>3, <1>4 DEF Slots
      <4> QED BY <4>1, <1>1 DEF SeenInv
    <3> QED BY <3>1, <3>2
  <2> QED BY <2>1, <1>1, <1>4, SameRow DEF SeenInv
<1> QED BY <1>10, <1>11, <1>12, <1>13, <1>14 DEF RInv

\* The end of a timed walk.
LEMMA EndSampleR == RInv /\ EndSample => RInv'
<1> SUFFICES ASSUME RInv, EndSample PROVE RInv'
  OBVIOUS
<1>1. /\ TypeOK /\ LinkInv /\ WalkInv /\ LoadInv /\ SeenInv
      /\ pc = "timed" /\ pc' = "time" /\ left = 0 /\ k \in 1 .. Len(Rows)
      /\ UNCHANGED <<k, pass, c, i, next, p, left, loads, seen>>
      /\ taken' = Append(taken, loads) /\ loads \in [Streams -> [Slots -> Nat]]
      /\ taken \in Seq([Streams -> [Slots -> Nat]])
  BY DEF EndSample, RInv, TypeOK, Walking
<1>2. Steps \in Nat /\ done = Steps
  BY <1>1, StepFacts DEF done
<1>3. /\ taken' \in Seq([Streams -> [Slots -> Nat]])
      /\ Len(taken') <= Samples
  <2>1. /\ taken' \in Seq([Streams -> [Slots -> Nat]])
        /\ Len(taken') = Len(taken) + 1
    BY <1>1, Longer
  <2>2. Len(taken) \in Nat /\ Samples \in Nat /\ Len(taken) < Samples
    BY <1>1, RowFacts DEF WalkInv
  <2> QED BY <2>1, <2>2
<1>4. TypeOK'
  BY <1>1, <1>3, SameRow DEF TypeOK, Walking
<1>5. LoadInv'
  <2>1. ASSUME NEW r \in Streams, NEW j \in Slots, NEW n \in 1 .. Len(taken')
        PROVE  taken'[n][r][Place(j)] = Visits(j, Steps)
    <3>1. \/ n \in 1 .. Len(taken) /\ taken'[n] = taken[n]
          \/ taken'[n] = loads
      BY <1>1, Appended
    <3> QED BY <3>1, <1>1, <1>2 DEF LoadInv
  <2> QED BY <2>1, <1>1, SameRow DEF LoadInv
<1>6. SeenInv'
  BY <1>1, <1>2, SameRow DEF SeenInv
<1>7. LinkInv' /\ WalkInv'
  BY <1>1, SameRow DEF LinkInv, WalkInv, Walking
<1> QED BY <1>4, <1>5, <1>6, <1>7 DEF RInv

\* The remaining steps.
LEMMA StepR == RInv /\ [Next]_vars => RInv'
<1> SUFFICES ASSUME RInv, [Next]_vars PROVE RInv'
  OBVIOUS
<1>0. /\ TypeOK /\ LinkInv /\ WalkInv /\ LoadInv /\ SeenInv
      /\ k \in 1 .. Len(Rows)
  BY DEF RInv, TypeOK
<1>1. CASE AllocFails
  <2>1. /\ pc' = "exit" /\ UNCHANGED <<k, pass, c, i, next, p, left, loads, seen, taken>>
        /\ pc # "timed"
    BY <1>1 DEF AllocFails, Built
  <2> QED BY <2>1, <1>0, SameRow
          DEF RInv, TypeOK, LinkInv, WalkInv, LoadInv, SeenInv, Walking
<1>2. CASE StartWarmUp
  <2>1. WarmUp \in Nat
    BY <1>0, StepFacts
  <2> QED BY <1>2, <2>1, StartR DEF StartWarmUp, Built
<1>3. CASE EndWarmUp
  <2>1. /\ pc = "warm" /\ pc' = "time"
        /\ UNCHANGED <<k, pass, c, i, next, p, left, loads, seen, taken>>
    BY <1>3 DEF EndWarmUp
  <2>2. TypeOK'
    BY <2>1, <1>0, SameRow DEF TypeOK, Walking
  <2>3. LinkInv' /\ WalkInv'
    BY <2>1, <1>0, SameRow DEF LinkInv, WalkInv, Walking
  <2>4. LoadInv' /\ SeenInv'
    BY <2>1, <1>0, SameRow DEF LoadInv, SeenInv
  <2> QED BY <2>2, <2>3, <2>4 DEF RInv
<1>4. CASE StartSample
  <2>1. Steps \in Nat
    BY <1>0, StepFacts
  <2> QED BY <1>4, <2>1, StartR DEF StartSample
<1>5. CASE NextPass
  <2>1. /\ pc = "time" /\ pc' = "build" /\ taken' = <<>> /\ pass' = pass + 1
        /\ pass < Passes /\ Len(taken) = Samples
        /\ UNCHANGED <<k, c, i, next, p, left, loads, seen>>
    BY <1>5 DEF NextPass
  <2>2. pass' \in 1 .. Passes /\ taken # <<>> /\ Samples \in Nat
    BY <2>1, <1>0, RowFacts DEF TypeOK, Passes
  <2>3. TypeOK'
    BY <2>1, <2>2, <1>0, SameRow DEF TypeOK, Walking
  <2>4. LinkInv' /\ WalkInv' /\ LoadInv'
    BY <2>1, <1>0, SameRow DEF LinkInv, WalkInv, LoadInv, Walking
  <2>5. SeenInv'
    BY <2>1, <2>2, <1>0, SameRow DEF SeenInv
  <2> QED BY <2>3, <2>4, <2>5 DEF RInv
<1>6. CASE Finish
  <2>1. /\ k' \in 1 .. Len(Rows) /\ pc' \in {"alloc", "done"} /\ c' = 0
        /\ taken' = <<>> /\ seen' = {} /\ next' = <<>> /\ pass' = 1
        /\ UNCHANGED <<i, left>> /\ i \in Nat /\ left \in Nat
    BY <1>6, <1>0 DEF Finish, TypeOK
  <2>2. next' \in [1 .. 0 -> [Slots' -> (Slots \cup {NULL})']]
    BY <2>1
  <2>3. row'.streams \in Nat /\ Samples \in Nat
    <3>1. Rows[k'] \in RowType
      BY <2>1, RowAssumption
    <3> QED BY <3>1, RowAssumption DEF row, RowType
  <2>4. TypeOK'
    BY <2>1, <2>2, <2>3 DEF TypeOK, Walking, Passes
  <2> QED BY <2>1, <2>4 DEF RInv, LinkInv, WalkInv, LoadInv, SeenInv, Walking
<1>7. CASE UNCHANGED vars
  <2>1. UNCHANGED <<pc, k, pass, c, i, next, p, left, loads, seen, taken>>
    BY <1>7 DEF vars
  <2>2. done' = done
    BY <2>1, SameRow DEF done
  <2> QED BY <2>1, <2>2, <1>0, SameRow
          DEF RInv, TypeOK, LinkInv, WalkInv, LoadInv, SeenInv, Walking
<1> QED
  BY <1>1, <1>2, <1>3, <1>4, <1>5, <1>6, <1>7, AllocR, LinkR, HopR, EndSampleR
  DEF Next

\* RInv is inductive: every walk is where its number of loads says.
THEOREM RingInvariance == Spec => []RInv
<1> QED BY InitR, StepR, PTL DEF Spec

\* Every variable keeps its type; a walk never stands on a slot without a link.
THEOREM RingTypes == Spec => []TypeOK
<1>1. RInv => TypeOK
  BY DEF RInv
<1> QED BY RingInvariance, <1>1, PTL

\* What make_pointer_ring and fill_permutation store is a permutation.
THEOREM RingIsClosed == Spec => []RingClosed
<1>1. RInv => RingClosed
  <2> SUFFICES ASSUME RInv, Walking, NEW r \in Streams
               PROVE  {next[r][s] : s \in Slots} = Slots
    BY DEF RingClosed
  <2>1. /\ LinkInv /\ r \in 1 .. c /\ i = nodes /\ k \in 1 .. Len(Rows)
        /\ nodes \in Nat \ {0} /\ row.factor \in Int
    <3>1. k \in 1 .. Len(Rows)
      BY DEF RInv, TypeOK
    <3>2. LinkInv /\ r \in 1 .. c /\ i = nodes
      BY DEF RInv, WalkInv, Streams
    <3> QED BY <3>1, <3>2, RowFacts
  <2>2. ASSUME NEW j \in Slots
        PROVE  /\ j \in Nat /\ j + 1 \in Nat
               /\ Place(j) \in Slots /\ Place(j + 1) \in Slots
               /\ next[r][IF Indexed THEN j ELSE Place(j)] =
                     Place(IF Indexed THEN j ELSE j + 1)
    <3>1. j \in Nat /\ j + 1 \in Nat /\ j < i
      BY <2>1 DEF Slots
    <3>2. Place(j) \in Slots /\ Place(j + 1) \in Slots
      BY <3>1, <2>1, PlaceFacts
    <3> QED BY <3>1, <3>2, <2>1 DEF LinkInv
  <2>3. ASSUME NEW s \in Slots PROVE next[r][s] \in Slots
    <3>1. PICK j \in Slots : Place(j) = s
      BY <2>1, Onto
    <3> QED BY <3>1, <2>2
  <2>4. ASSUME NEW s \in Slots PROVE \E t \in Slots : next[r][t] = s
    <3>1. CASE Indexed
      <4>1. PICK j \in Slots : Place(j) = s
        BY <2>1, Onto
      <4> QED BY <4>1, <3>1, <2>2
    <3>2. CASE ~Indexed
      <4>1. (s + (-row.factor)) % nodes \in Slots /\ s \in Int
        <5>1. s + (-row.factor) \in Int /\ s \in Int
          BY <2>1 DEF Slots
        <5> QED BY <5>1, <2>1, DivMod DEF Slots
      <4>2. PICK j \in Slots : Place(j) = (s + (-row.factor)) % nodes
        BY <2>1, <4>1, Onto
      <4>3. ((((s + (-row.factor)) % nodes) + row.factor) % nodes) = s
        <5>1. -row.factor \in Int /\ -(-row.factor) = row.factor
          BY <2>1
        <5>2. (((s + (-row.factor)) % nodes) + (-(-row.factor))) % nodes = s % nodes
          BY <5>1, <4>1, <2>1, ModUndo
        <5>3. s % nodes = s
          <6>1. (nodes * 0 + s) % nodes = s
            BY <2>1, ModUnique DEF Slots
          <6> QED BY <6>1, <2>1, <4>1
        <5> QED BY <5>1, <5>2, <5>3
      <4>4. Place(j + 1) = s
        BY <4>2, <4>3, <2>1, <2>2, PlaceFacts
      <4> QED BY <4>4, <3>2, <2>2
    <3> QED BY <3>1, <3>2
  <2> QED BY <2>3, <2>4
<1> QED BY <1>1, RingInvariance, PTL

\* A set that a sequence of n different things makes up has n elements.
LEMMA CountOf ==
    ASSUME NEW n \in Nat, NEW S, NEW f \in [1 .. n -> S],
           \A a, b \in 1 .. n : f[a] = f[b] => a = b,
           \A x \in S : \E a \in 1 .. n : f[a] = x
    PROVE  IsFiniteSet(S) /\ Cardinality(S) = n
<1>1. f \in Bijection(1 .. n, S)
  BY Fun_IsBij
<1>2. ExistsBijection(1 .. n, S)
  BY <1>1 DEF ExistsBijection
<1> QED BY <1>2, FS_NatBijection, FS_CountingElements

\* A walk comes to the nodes that it has loads for, up to all.
LEMMA VisitsSome ==
    ASSUME k \in 1 .. Len(Rows), NEW h \in Nat, NEW j \in Slots
    PROVE  Visits(j, h) > 0 <=> j < h
<1> DEFINE x == h + nodes - 1 - j
           q == x \div nodes
           r == x % nodes
<1>1. nodes \in Nat \ {0} /\ j \in 0 .. (nodes - 1) /\ x \in Int
  BY RowFacts DEF Slots
<1>2. q \in Int /\ r \in 0 .. (nodes - 1) /\ x = nodes * q + r
  <2> HIDE DEF x
  <2> QED BY <1>1, DivMod
<1>3. Visits(j, h) = q
  BY DEF Visits
<1>4. x = h + nodes - 1 - j
  OBVIOUS
<1> HIDE DEF x, q, r
<1>5. ASSUME q > 0 PROVE x >= nodes
  <2>1. 1 <= q /\ nodes * 1 = nodes
    BY ONLY <1>1, <1>2, <1>5
  <2>2. nodes * 1 <= nodes * q
    BY ONLY <1>1, <1>2, <2>1, Monotone
  <2>3. nodes * q \in Int
    BY ONLY <1>1, <1>2
  <2> QED BY ONLY <1>1, <1>2, <2>1, <2>2, <2>3
<1>6. ASSUME q <= 0 PROVE x < nodes
  <2>1. nodes * 0 = 0
    BY ONLY <1>1
  <2>2. nodes * q <= nodes * 0
    BY ONLY <1>1, <1>2, <1>6, Monotone
  <2>3. nodes * q \in Int
    BY ONLY <1>1, <1>2
  <2> QED BY ONLY <1>1, <1>2, <2>1, <2>2, <2>3
<1>7. x >= nodes <=> j < h
  BY ONLY <1>1, <1>4, h \in Nat
<1> QED BY ONLY <1>1, <1>2, <1>3, <1>5, <1>6, <1>7

\* A timed walk loads the slots of its rings evenly, and as many different ones
\* as it has loads, or all.
THEOREM WalksAreEven == Spec => []EvenWalks
<1>1. RInv => EvenWalks
  <2> SUFFICES ASSUME RInv, NEW n \in 1 .. Len(taken), NEW r \in Streams
               PROVE  /\ \A s \in Slots : taken[n][r][s] \in
                            (Steps \div nodes) .. (Steps \div nodes + 1)
                      /\ Cardinality(Reached(n, r)) =
                            IF Steps < nodes THEN Steps ELSE nodes
                      /\ row.kind = "sweep" =>
                            \A s \in Slots : taken[n][r][s] >= Turns
    BY DEF EvenWalks
  <2>1. k \in 1 .. Len(Rows)
    BY DEF RInv, TypeOK
  <2>2. /\ Steps \in Nat /\ (row.kind = "sweep" => Steps >= nodes * Turns)
        /\ nodes \in Nat \ {0} /\ Slots = 0 .. (nodes - 1)
    BY <2>1, StepFacts, RowFacts DEF Slots
  <2>3. \A j \in Slots : taken[n][r][Place(j)] = Visits(j, Steps)
    BY DEF RInv, LoadInv
  <2>4. ASSUME NEW s \in Slots
        PROVE  /\ taken[n][r][s] \in (Steps \div nodes) .. (Steps \div nodes + 1)
               /\ row.kind = "sweep" => taken[n][r][s] >= Turns
    <3>1. PICK j \in Slots : Place(j) = s
      BY <2>1, Onto
    <3>2. taken[n][r][s] = Visits(j, Steps)
      BY <2>3, <3>1
    <3> QED BY <2>1, <2>2, <3>2, VisitsEven
  <2> DEFINE m == IF Steps < nodes THEN Steps ELSE nodes
             S == Reached(n, r)
             f == [a \in 1 .. m |-> Place(a - 1)]
  <2>5. m \in Nat /\ \A a \in 1 .. m : a - 1 \in Slots /\ a - 1 < Steps
    BY ONLY <2>2
  <2>6. \A j \in Slots : Place(j) \in Slots /\ (Place(j) \in S <=> j < Steps)
    <3> SUFFICES ASSUME NEW j \in Slots
                 PROVE  Place(j) \in Slots /\ (Place(j) \in S <=> j < Steps)
      OBVIOUS
    <3>1. j \in Nat
      BY ONLY <2>2
    <3>2. Place(j) \in Slots
      BY <2>1, <3>1, PlaceFacts
    <3>3. Visits(j, Steps) > 0 <=> j < Steps
      BY <2>1, <2>2, VisitsSome
    <3> QED BY <2>3, <3>2, <3>3 DEF Reached
  <2> HIDE DEF m
  <2>7. f \in [1 .. m -> S]
    BY ONLY <2>5, <2>6
  <2>8. ASSUME NEW a \in 1 .. m, NEW b \in 1 .. m, f[a] = f[b] PROVE a = b
    <3>1. a - 1 \in Slots /\ b - 1 \in Slots /\ Place(a - 1) = Place(b - 1)
      BY ONLY <2>5, <2>8
    <3>2. a - 1 = b - 1
      BY <2>1, <3>1, Injective
    <3> QED BY ONLY <2>5, <3>2
  <2>9. ASSUME NEW s \in S PROVE \E a \in 1 .. m : f[a] = s
    <3>1. s \in Slots
      BY <2>9 DEF Reached
    <3>2. PICK j \in Slots : Place(j) = s
      BY <2>1, <3>1, Onto
    <3>3. j < Steps /\ j \in Nat /\ j < nodes
      BY ONLY <2>2, <2>6, <2>9, <3>2
    <3>4. j + 1 \in 1 .. m /\ (j + 1) - 1 = j
      BY ONLY <2>2, <3>3 DEF m
    <3>5. f[j + 1] = s
      BY ONLY <3>2, <3>4
    <3> QED BY ONLY <3>4, <3>5
  <2> HIDE DEF S, f
  <2>10. Cardinality(S) = m
    BY ONLY <2>5, <2>7, <2>8, <2>9, CountOf
  <2> QED BY <2>4, <2>10 DEF S, m
<1> QED BY <1>1, RingInvariance, PTL

\* From the second sample of a row on, every load meets a slot loaded before.
THEOREM FirstSampleColdest == Spec => []OnlyFirstCold
<1>1. RInv => OnlyFirstCold
  <2> SUFFICES ASSUME RInv, pc = "timed", left > 0, Len(taken) > 0 \/ pass > 1,
                      NEW r \in Streams
               PROVE  <<r, Slot(r)>> \in seen
    BY DEF OnlyFirstCold
  <2>1. /\ k \in 1 .. Len(Rows) /\ left \in Nat /\ SeenInv
        /\ taken \in Seq([Streams -> [Slots -> Nat]])
    BY DEF RInv, TypeOK
  <2>2. /\ nodes \in Nat \ {0} /\ Steps \in Nat
        /\ Slot(r) = Place(done) /\ done \in Nat /\ done < Steps
    BY <2>1, RowFacts, StepFacts, SlotAt DEF done
  <2>3. /\ done % nodes \in Slots /\ Place(done % nodes) = Place(done)
    BY <2>1, <2>2, PlaceFacts
  <2>4. done % nodes <= done
    <3>1. done = nodes * (done \div nodes) + (done % nodes)
          /\ done \div nodes \in Int /\ done % nodes \in 0 .. (nodes - 1)
      <4>1. done \in Int
        BY <2>2
      <4> HIDE DEF done
      <4> QED BY <4>1, <2>2, DivMod
    <3>2. done \div nodes >= 0
      BY <2>2
    <3>3. nodes * (done \div nodes) >= nodes * 0
      BY <3>1, <3>2, <2>2, Monotone
    <3> QED BY <3>1, <3>3, <2>2
  <2>5. done % nodes < Steps /\ (taken # <<>> \/ pass > 1)
    BY <2>1, <2>2, <2>3, <2>4 DEF Slots
  <2> QED BY <2>1, <2>2, <2>3, <2>5 DEF SeenInv
<1> QED BY <1>1, RingInvariance, PTL

-----------------------------------------------------------------------------
(* The operations a sample is divided by *)

\* A walk has made as many loads as its steps so far, on every ring.
CountInv ==
    /\ pc \in {"alloc", "build", "warm"} => taken = <<>>
    /\ pc \in {"warm", "timed"} =>
         IsFiniteSet(Loaded) /\ Cardinality(Loaded) = row.streams * done
    /\ pc = "time" /\ taken # <<>> =>
         IsFiniteSet(Loaded) /\ Cardinality(Loaded) = row.streams * Steps

\* A load on each ring adds one of each.
LEMMA LoadedHop ==
    ASSUME RInv, Hop, IsFiniteSet(Loaded)
    PROVE  /\ IsFiniteSet(Loaded')
           /\ Cardinality(Loaded') = Cardinality(Loaded) + row.streams
<1> DEFINE load == [r \in Streams |-> <<r, Slot(r), loads[r][Slot(r)] + 1>>]
           New == {load[r] : r \in Streams}
<1>1. /\ pc \in {"warm", "timed"} /\ k \in 1 .. Len(Rows) /\ k' = k
      /\ loads' = [r \in Streams |-> [loads[r] EXCEPT ![Slot(r)] = @ + 1]]
      /\ loads \in [Streams -> [Slots -> Nat]]
  BY DEF Hop, RInv, TypeOK, Walking
<1>2. /\ \A r \in Streams : Slot(r) \in Slots
      /\ row.streams \in Nat /\ Streams = 1 .. row.streams
  BY <1>1, SlotAt, RowFacts DEF Streams
<1>3. /\ Streams' = Streams /\ Slots' = Slots
  BY <1>1, SameRow
<1>4. IsFiniteSet(New) /\ Cardinality(New) = row.streams
  <2>1. /\ load \in [1 .. row.streams -> New]
        /\ \A a, b \in 1 .. row.streams : load[a] = load[b] => a = b
        /\ \A x \in New : \E a \in 1 .. row.streams : load[a] = x
    BY <1>2
  <2> HIDE DEF load, New
  <2> QED BY <1>2, <2>1, CountOf
<1>5. \A x : x \in Loaded <=> \E r \in Streams, s \in Slots :
                                 \E t \in 1 .. loads[r][s] : x = <<r, s, t>>
  BY DEF Loaded
<1>6. \A x : x \in Loaded' <=> \E r \in Streams, s \in Slots :
                                  \E t \in 1 .. loads'[r][s] : x = <<r, s, t>>
  BY <1>3 DEF Loaded
<1>7. \A x : x \in New <=> \E r \in Streams :
                              x = <<r, Slot(r), loads[r][Slot(r)] + 1>>
  BY <1>2
<1>8. ASSUME NEW r \in Streams, NEW s \in Slots
      PROVE  /\ loads[r][s] \in Nat
             /\ loads'[r][s] = IF s = Slot(r) THEN loads[r][s] + 1
                                              ELSE loads[r][s]
  BY <1>1, <1>2
<1> HIDE DEF load, New
<1>9. Loaded' = Loaded \cup New
  <2>1. ASSUME NEW x \in Loaded' PROVE x \in Loaded \cup New
    <3>1. PICK r \in Streams, s \in Slots : \E t \in 1 .. loads'[r][s] : x = <<r, s, t>>
      BY <2>1, <1>6
    <3>2. PICK t \in 1 .. loads'[r][s] : x = <<r, s, t>>
      BY <3>1
    <3>3. CASE t \in 1 .. loads[r][s]
      BY <3>2, <3>3, <1>5
    <3>4. CASE t \notin 1 .. loads[r][s]
      <4>1. s = Slot(r) /\ t = loads[r][Slot(r)] + 1
        BY <3>2, <3>4, <1>8
      <4> QED BY <3>2, <4>1, <1>7
    <3> QED BY <3>3, <3>4
  <2>2. ASSUME NEW x \in Loaded PROVE x \in Loaded'
    <3>1. PICK r \in Streams, s \in Slots : \E t \in 1 .. loads[r][s] : x = <<r, s, t>>
      BY <2>2, <1>5
    <3>2. PICK t \in 1 .. loads[r][s] : x = <<r, s, t>>
      BY <3>1
    <3>3. t \in 1 .. loads'[r][s]
      BY <3>2, <1>8
    <3> QED BY <3>2, <3>3, <1>6
  <2>3. ASSUME NEW x \in New PROVE x \in Loaded'
    <3>1. PICK r \in Streams : x = <<r, Slot(r), loads[r][Slot(r)] + 1>>
      BY <2>3, <1>7
    <3>2. Slot(r) \in Slots /\ loads[r][Slot(r)] + 1 \in 1 .. loads'[r][Slot(r)]
      BY <1>2, <1>8
    <3> QED BY <3>1, <3>2, <1>6
  <2> QED BY <2>1, <2>2, <2>3
<1>10. Loaded \cap New = {}
  <2> SUFFICES ASSUME NEW x \in Loaded, x \in New PROVE FALSE
    OBVIOUS
  <2>1. PICK r \in Streams, s \in Slots : \E t \in 1 .. loads[r][s] : x = <<r, s, t>>
    BY <1>5
  <2>2. PICK t \in 1 .. loads[r][s] : x = <<r, s, t>>
    BY <2>1
  <2>3. s = Slot(r) /\ t = loads[r][s] + 1
    BY <2>2, <1>7
  <2> QED BY <2>2, <2>3, <1>8
<1>11. Cardinality({}) = 0
  BY FS_EmptySet
<1>12. Cardinality(Loaded) \in Nat
  BY FS_CardinalityType, IsFiniteSet(Loaded)
<1>13. /\ IsFiniteSet(Loaded \cup New)
       /\ Cardinality(Loaded \cup New) =
             Cardinality(Loaded) + Cardinality(New) - Cardinality(Loaded \cap New)
  BY <1>4, FS_Union
<1>14. Cardinality(Loaded \cup New) = Cardinality(Loaded) + row.streams
  <2>1. Cardinality(Loaded \cap New) = 0
    BY ONLY <1>10, <1>11
  <2> DEFINE x == Cardinality(Loaded)
             y == Cardinality(Loaded \cap New)
             z == Cardinality(Loaded \cup New)
  <2>2. z = x + Cardinality(New) - y /\ x \in Nat /\ y = 0
    BY <2>1, <1>12, <1>13
  <2> HIDE DEF x, y, z
  <2>3. z = x + row.streams
    BY <2>2, <1>2, <1>4
  <2> QED BY <2>3 DEF x, z
<1> QED BY <1>9, <1>13, <1>14

\* A walk starts with none.
LEMMA LoadedStart ==
    ASSUME k \in 1 .. Len(Rows), NEW n, Start(n)
    PROVE  Loaded' = {}
<1>1. k' = k /\ loads' = [r \in Streams |-> [s \in Slots |-> 0]]
  BY DEF Start, NoLoads
<1>2. Streams' = Streams /\ Slots' = Slots
  BY <1>1, SameRow
<1> QED BY <1>1, <1>2 DEF Loaded

\* Every step of a walk loads one more slot in each ring.
LEMMA CountR == RInv /\ CountInv /\ [Next]_vars => CountInv'
<1> SUFFICES ASSUME RInv, CountInv, [Next]_vars PROVE CountInv'
  OBVIOUS
<1>0. /\ k \in 1 .. Len(Rows) /\ TypeOK
      /\ Steps \in Nat /\ WarmUp \in Nat /\ row.streams \in Nat
      /\ row.streams * 0 = 0
  <2>1. k \in 1 .. Len(Rows) /\ TypeOK
    BY DEF RInv, TypeOK
  <2>2. Steps \in Nat /\ WarmUp \in Nat /\ row.streams \in Nat
    BY <2>1, StepFacts, RowFacts
  <2>3. \A x \in Nat : x * 0 = 0
    OBVIOUS
  <2> QED BY <2>1, <2>2, <2>3
<1>1. CASE Alloc \/ AllocFails \/ Link
  <2>1. taken' = taken /\ pc' \in {"build", "exit"} /\ pc \in {"alloc", "build"}
    BY <1>1 DEF Alloc, AllocFails, Link, Built
  <2> QED BY <2>1 DEF CountInv
<1>2. CASE StartWarmUp
  <2>1. /\ Start(WarmUp) /\ pc' = "warm" /\ pc = "build" /\ taken' = taken
        /\ k' = k /\ left' = WarmUp
    BY <1>2 DEF StartWarmUp, Start, Built
  <2>2. Loaded' = {} /\ done' = 0 /\ row' = row
    BY <2>1, <1>0, LoadedStart, SameRow DEF done
  <2> QED BY <2>1, <2>2, <1>0, FS_EmptySet DEF CountInv
<1>3. CASE StartSample
  <2>1. /\ Start(Steps) /\ pc' = "timed" /\ k' = k /\ left' = Steps
    BY <1>3 DEF StartSample, Start
  <2>2. Loaded' = {} /\ done' = 0 /\ row' = row
    BY <2>1, <1>0, LoadedStart, SameRow DEF done
  <2> QED BY <2>1, <2>2, <1>0, FS_EmptySet DEF CountInv
<1>4. CASE Hop
  <2>1. /\ pc \in {"warm", "timed"} /\ pc' = pc /\ k' = k /\ taken' = taken
        /\ left' = left - 1 /\ left \in Nat
    BY <1>4, <1>0 DEF Hop, TypeOK
  <2>2. /\ IsFiniteSet(Loaded) /\ Cardinality(Loaded) = row.streams * done
    BY <2>1 DEF CountInv
  <2>3. /\ IsFiniteSet(Loaded')
        /\ Cardinality(Loaded') = row.streams * done + row.streams
    BY <1>4, <2>2, LoadedHop
  <2>4. done' = done + 1 /\ row' = row /\ done \in Int
    BY <2>1, <1>0, SameRow DEF done
  <2>5. row.streams * (done + 1) = row.streams * done + row.streams
    <3> HIDE DEF done
    <3> QED BY <2>4, <1>0
  <2> QED BY <2>1, <2>3, <2>4, <2>5 DEF CountInv
<1>5. CASE EndWarmUp
  <2>1. pc = "warm" /\ pc' = "time" /\ taken' = taken
    BY <1>5 DEF EndWarmUp
  <2> QED BY <2>1 DEF CountInv
<1>6. CASE EndSample
  <2>1. /\ pc = "timed" /\ pc' = "time" /\ left = 0 /\ k' = k /\ loads' = loads
    BY <1>6 DEF EndSample
  <2>2. done = Steps /\ Steps' = Steps /\ row' = row /\ Loaded' = Loaded
    BY <2>1, <1>0, SameRow DEF done, Loaded
  <2> QED BY <2>1, <2>2 DEF CountInv
<1>7. CASE NextPass \/ Finish
  <2>1. pc' \in {"build", "alloc", "done"} /\ taken' = <<>>
    BY <1>7 DEF NextPass, Finish
  <2> QED BY <2>1 DEF CountInv
<1>8. CASE UNCHANGED vars
  <2>1. UNCHANGED <<pc, k, left, loads, taken>>
    BY <1>8 DEF vars
  <2>2. done' = done /\ Steps' = Steps /\ row' = row /\ Loaded' = Loaded
    BY <2>1, SameRow DEF done, Loaded
  <2> QED BY <2>1, <2>2 DEF CountInv
<1> QED BY <1>1, <1>2, <1>3, <1>4, <1>5, <1>6, <1>7, <1>8 DEF Next

\* The time of a sample is divided by the operations its walk has made, over
\* all the rings: the shares of the streams add up to what was asked for.
THEOREM OperationsCounted == Spec => []OpsCounted
<1>1. Init => CountInv
  BY DEF Init, CountInv
<1>2. RInv /\ CountInv => OpsCounted
  <2> SUFFICES ASSUME RInv, CountInv, pc = "time", taken # <<>>
               PROVE  ops = PerVisit * Cardinality(Loaded)
    BY DEF OpsCounted
  <2>1. /\ k \in 1 .. Len(Rows) /\ row.count \in Nat /\ row.streams \in Nat
        /\ PerVisit \in {1, 2} /\ row.kind \in Kinds
    BY RowFacts DEF RInv, TypeOK, PerVisit
  <2>2. Cardinality(Loaded) = row.streams * Steps
    BY DEF CountInv
  <2>3. CASE row.kind = "sweep"
    <3>1. row.streams = 1 /\ PerVisit = 1 /\ ops = Steps
      BY <2>1, <2>3, StreamAssumption DEF row, PerVisit, Indexed, ops
    <3> QED BY <2>1, <2>2, <3>1, StepFacts
  <2>4. CASE row.kind = "mlp"
    <3>1. /\ row.streams \in {1, 2, 4} /\ row.count % 4 = 0
          /\ PerVisit = 1 /\ ops = row.count
      BY <2>1, <2>4, StreamAssumption DEF row, PerVisit, Indexed, ops
    <3>2. Steps = (row.count \div 4) * (4 \div row.streams)
      BY <2>4 DEF Steps, PerStream
    <3>3. row.count = 4 * (row.count \div 4) /\ row.count \div 4 \in Nat
      BY <3>1, <2>1
    <3>4. row.streams * ((row.count \div 4) * (4 \div row.streams)) = row.count
      BY <3>1, <3>3
    <3> QED BY <2>2, <3>1, <3>2, <3>4, <2>1
  <2>5. CASE row.kind \in {"kernel", "random"}
    <3>1. Steps = row.count /\ ops = row.count * row.streams * PerVisit
      BY <2>5 DEF Steps, ops
    <3>2. row.count * row.streams * PerVisit = PerVisit * (row.streams * row.count)
      BY <2>1
    <3> QED BY <2>2, <3>1, <3>2
  <2> QED BY <2>1, <2>3, <2>4, <2>5 DEF Kinds
<1> QED BY <1>1, <1>2, CountR, RingInvariance, PTL DEF Spec
=============================================================================
