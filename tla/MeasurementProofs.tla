-------------------------- MODULE MeasurementProofs --------------------------
(***************************************************************************)
(* Proofs about the reduction of samples to a row, for every number of     *)
(* samples, and about Measurement, for every program of rows, every number *)
(* of samples, every counter width and every disturbance.                  *)
(***************************************************************************)
EXTENDS Measurement, IntegerFacts, FiniteSetTheorems, TLAPS

-----------------------------------------------------------------------------
(* What the reduction of samples is worth *)

\* The indices of the samples with a given relation to a value are finitely
\* many, and no more than the samples.
LEMMA IndexSets ==
    ASSUME NEW s \in Seq(Nat), NEW I \in SUBSET DOMAIN s
    PROVE  /\ IsFiniteSet(I)
           /\ Cardinality(I) \in Nat
           /\ Cardinality(I) <= Len(s)
<1>1. Len(s) \in Nat /\ DOMAIN s = 1 .. Len(s)
  OBVIOUS
<1>2. IsFiniteSet(1 .. Len(s)) /\ Cardinality(1 .. Len(s)) = Len(s)
  <2>1. 1 \in Int /\ Len(s) \in Int
    BY <1>1
  <2>2. /\ IsFiniteSet(1 .. Len(s))
        /\ Cardinality(1 .. Len(s)) = IF 1 > Len(s) THEN 0
                                                   ELSE Len(s) - 1 + 1
    BY <2>1, FS_Interval
  <2> QED BY <1>1, <2>2
<1> QED BY <1>1, <1>2, FS_Subset, FS_CardinalityType

\* The median of samples more than half of which agree is their common value,
\* whatever the others are: probe_stats_from takes sorted[count / 2].
THEOREM MajorityMedian ==
    ASSUME NEW s \in Seq(Nat), NEW v \in Nat,
           2 * Cardinality({j \in DOMAIN s : s[j] = v}) > Len(s)
    PROVE  Sorted(s, Len(s) \div 2) = v
<1> DEFINE n == Len(s)
           h == n \div 2
           Eq == {j \in DOMAIN s : s[j] = v}
           Lt(x) == {j \in DOMAIN s : s[j] < x}
           Le(x) == {j \in DOMAIN s : s[j] <= x}
<1>1. n \in Nat /\ h \in Nat /\ 2 * h <= n /\ n <= 2 * h + 1
  OBVIOUS
<1>2. \A j \in DOMAIN s : s[j] \in Nat
  OBVIOUS
<1>3. Cardinality(Eq) \in Nat /\ IsFiniteSet(Eq) /\ Cardinality(Eq) > h
  BY <1>1, IndexSets
<1>4. Cardinality(Lt(v)) <= h
  <2>1. IsFiniteSet(Lt(v)) /\ Cardinality(Lt(v)) \in Nat
    BY IndexSets
  <2>2. Lt(v) \cap Eq = {}
    BY <1>2
  <2>3. Cardinality(Lt(v) \cup Eq) = Cardinality(Lt(v)) + Cardinality(Eq)
    <3>1. Cardinality(Lt(v) \cup Eq) =
            Cardinality(Lt(v)) + Cardinality(Eq) - Cardinality(Lt(v) \cap Eq)
      BY <1>3, <2>1, FS_Union
    <3>2. Cardinality(Lt(v) \cap Eq) = 0
      BY <2>2, FS_EmptySet
    <3> QED BY <1>3, <2>1, <3>1, <3>2
  <2>4. Cardinality(Lt(v) \cup Eq) <= n
    BY IndexSets
  <2> QED BY <1>1, <1>3, <2>1, <2>3, <2>4
<1>5. h < Cardinality(Le(v))
  <2>1. Eq \subseteq Le(v) /\ IsFiniteSet(Le(v)) /\ Cardinality(Le(v)) \in Nat
    BY <1>2, IndexSets
  <2>2. Cardinality(Eq) <= Cardinality(Le(v))
    BY <2>1, FS_Subset
  <2> QED BY <1>1, <1>3, <2>1, <2>2
<1>6. v \in {s[j] : j \in DOMAIN s}
  <2>1. Eq # {}
    BY <1>1, <1>3, FS_EmptySet
  <2> QED BY <2>1
<1>7. ASSUME NEW x \in {s[j] : j \in DOMAIN s}, IsOrderStatistic(x, s, h)
      PROVE  x = v
  <2>1. x \in Nat
    BY <1>2
  <2>2. Cardinality(Lt(x)) <= h /\ h < Cardinality(Le(x))
    BY <1>7 DEF IsOrderStatistic
  <2>3. ASSUME x < v PROVE FALSE
    <3>1. Le(x) \subseteq Lt(v)
      BY <1>2, <2>1, <2>3
    <3>2. /\ Cardinality(Le(x)) <= Cardinality(Lt(v))
          /\ Cardinality(Le(x)) \in Nat /\ Cardinality(Lt(v)) \in Nat
      BY <3>1, IndexSets, FS_Subset
    <3> QED BY <1>1, <1>4, <2>2, <3>2
  <2>4. ASSUME v < x PROVE FALSE
    <3>1. Eq \subseteq Lt(x)
      BY <1>2, <2>1, <2>4
    <3>2. /\ Cardinality(Eq) <= Cardinality(Lt(x))
          /\ Cardinality(Lt(x)) \in Nat
      BY <3>1, IndexSets, FS_Subset
    <3> QED BY <1>1, <1>3, <2>2, <3>2
  <2> QED BY <2>1, <2>3, <2>4
<1>8. IsOrderStatistic(v, s, h)
  BY <1>4, <1>5 DEF IsOrderStatistic
<1> QED BY <1>6, <1>7, <1>8 DEF Sorted

\* What is left of a number is the less the more is taken away.
LEMMA LessLeft ==
    ASSUME NEW n \in Nat, NEW x \in Nat, NEW y \in Nat, n - y <= n - x
    PROVE  x <= y
OBVIOUS

\* Among some of the samples one is a largest: the one with the most of them
\* at or below it.
LEMMA Largest ==
    ASSUME NEW s \in Seq(Nat), NEW I \in SUBSET DOMAIN s, I # {}
    PROVE  \E j \in I : \A i \in I : s[i] <= s[j]
<1> DEFINE Le(j) == {i \in I : s[i] <= s[j]}
           c == [j \in I |-> Cardinality(Le(j))]
           T == {Len(s) - c[j] : j \in I}
<1>1. Len(s) \in Nat /\ \A i \in I : s[i] \in Nat
  OBVIOUS
<1>2. \A j \in I : IsFiniteSet(Le(j)) /\ c[j] \in Nat /\ c[j] <= Len(s)
  <2> TAKE j \in I
  <2>1. Le(j) \in SUBSET DOMAIN s
    OBVIOUS
  <2> QED BY <2>1, IndexSets
<1>3. \A j \in I : c[j] \in Nat /\ c[j] <= Len(s)
  BY <1>2
<1>4. PICK j \in I : \A i \in I : c[i] <= c[j]
  <2> HIDE DEF c
  <2>1. T \in SUBSET Nat /\ T # {}
    BY <1>1, <1>3
  <2>2. PICK n \in T : \A t \in T : n <= t
    BY <2>1, NatMin
  <2>3. PICK j \in I : n = Len(s) - c[j]
    OBVIOUS
  <2>4. ASSUME NEW i \in I PROVE c[i] <= c[j]
    <3>1. n <= Len(s) - c[i]
      BY <2>2
    <3>2. c[i] \in Nat /\ c[j] \in Nat /\ Len(s) \in Nat
      BY <1>1, <1>3
    <3>3. Len(s) - c[j] <= Len(s) - c[i]
      BY <3>1, <2>3
    <3> QED BY <3>2, <3>3, LessLeft
  <2> QED BY <2>4
<1>5. ASSUME NEW i \in I, s[j] < s[i] PROVE FALSE
  <2>1. Le(j) \subseteq Le(i) /\ i \in Le(i) /\ i \notin Le(j)
    BY <1>1, <1>5
  <2>2. IsFiniteSet(Le(i)) /\ Le(j) \in SUBSET Le(i) /\ Le(j) # Le(i)
    BY <1>2, <2>1
  <2>3. c[j] <= c[i] /\ c[i] # c[j]
    BY <2>2, FS_Subset
  <2> HIDE DEF c
  <2> QED BY <1>3, <1>4, <2>3
<1> QED BY <1>1, <1>5

\* Every position of a sorted copy holds one of the samples: the least one with
\* enough of them at or below it.
LEMMA SortedExists ==
    ASSUME NEW s \in Seq(Nat), NEW r \in 0 .. (Len(s) - 1)
    PROVE  /\ Sorted(s, r) \in {s[j] : j \in DOMAIN s}
           /\ IsOrderStatistic(Sorted(s, r), s, r)
<1> DEFINE Values == {s[j] : j \in DOMAIN s}
           Lt(x) == {j \in DOMAIN s : s[j] < x}
           Le(x) == {j \in DOMAIN s : s[j] <= x}
           T == {x \in Values : r < Cardinality(Le(x))}
<1>1. /\ Len(s) \in Nat /\ r \in Nat /\ r < Len(s)
      /\ \A j \in DOMAIN s : s[j] \in Nat
  OBVIOUS
<1>2. \A x : /\ Cardinality(Lt(x)) \in Nat /\ IsFiniteSet(Lt(x))
             /\ Cardinality(Le(x)) \in Nat /\ IsFiniteSet(Le(x))
  BY IndexSets
<1>3. T # {}
  <2>1. DOMAIN s # {}
    OBVIOUS
  <2>2. PICK j \in DOMAIN s : \A i \in DOMAIN s : s[i] <= s[j]
    BY <2>1, Largest
  <2>3. Le(s[j]) = 1 .. Len(s)
    BY <2>2
  <2>4. Cardinality(1 .. Len(s)) = Len(s)
    <3>1. 1 \in Int /\ Len(s) \in Int /\ ~(1 > Len(s))
      OBVIOUS
    <3>2. Cardinality(1 .. Len(s)) = IF 1 > Len(s) THEN 0
                                                   ELSE Len(s) - 1 + 1
      BY <3>1, FS_Interval
    <3> QED BY <3>1, <3>2
  <2>5. s[j] \in Values /\ r < Cardinality(Le(s[j]))
    BY <1>1, <2>3, <2>4
  <2> QED BY <2>5, Zenon
<1>4. PICK x \in T : \A y \in T : x <= y
  <2>1. T \in SUBSET Nat
    BY <1>1
  <2> QED BY <2>1, <1>3, NatMin
<1>5. Cardinality(Lt(x)) <= r
  <2> SUFFICES ASSUME r < Cardinality(Lt(x)) PROVE FALSE
    <3> HIDE DEF Lt
    <3> QED BY <1>1, <1>2
  <2>1. Lt(x) # {}
    <3> SUFFICES ASSUME Lt(x) = {} PROVE FALSE
      OBVIOUS
    <3>1. Cardinality(Lt(x)) = 0
      BY FS_EmptySet
    <3> QED BY <3>1
  <2>2. PICK j \in Lt(x) : \A i \in Lt(x) : s[i] <= s[j]
    BY <2>1, Largest
  <2>3. Lt(x) \subseteq Le(s[j])
    BY <2>2
  <2>4. Cardinality(Lt(x)) <= Cardinality(Le(s[j]))
    BY <2>3, <1>2, FS_Subset
  <2>5. Cardinality(Le(s[j])) > r
    <3> HIDE DEF Lt, Le
    <3> QED BY <2>4, <1>1, <1>2
  <2>6. s[j] \in Values /\ s[j] < x
    OBVIOUS
  <2>7. s[j] \in T
    <3> HIDE DEF Le
    <3> QED BY <2>5, <2>6
  <2>8. x <= s[j] /\ x \in Nat /\ s[j] \in Nat
    BY <2>7, <1>1, <1>4
  <2> QED BY <2>6, <2>8
<1>6. IsOrderStatistic(x, s, r) /\ x \in Values
  BY <1>5 DEF IsOrderStatistic
<1> QED BY <1>6 DEF Sorted

\* A median is a natural number: one of the samples, or 0 without any.
LEMMA MedianType ==
    ASSUME NEW s \in Seq(Nat), NEW had \in BOOLEAN
    PROVE  probe_stats_from(s, had).median \in Nat
<1>1. CASE Len(s) = 0 \/ ~had
  BY <1>1 DEF probe_stats_from, NoStats
<1>2. CASE Len(s) # 0 /\ had
  <2>1. Len(s) \div 2 \in 0 .. (Len(s) - 1)
    BY <1>2
  <2>2. Sorted(s, Len(s) \div 2) \in {s[j] : j \in DOMAIN s}
    BY <2>1, SortedExists
  <2>3. Sorted(s, Len(s) \div 2) \in Nat
    BY <2>2
  <2> QED BY <1>2, <2>3 DEF probe_stats_from
<1> QED BY <1>1, <1>2

-----------------------------------------------------------------------------
(* The harness *)

\* Subtracting two readings of a wrapping counter gives the time between them,
\* whether or not it wrapped, when that time is less than a full turn.
LEMMA WrapDifference ==
    ASSUME NEW c \in 0 .. (Wrap - 1), NEW d \in Nat, d < Wrap
    PROVE  /\ (((c + d) % Wrap) - c) % Wrap = d
           /\ (c + d) % Wrap \in 0 .. (Wrap - 1)
<1>1. Wrap \in Nat \ {0}
  BY MeasurementAssumption
<1>2. CASE c + d < Wrap
  <2>1. (c + d) % Wrap = c + d
    BY <1>1, <1>2
  <2>2. d % Wrap = d
    BY <1>1
  <2> QED BY <1>1, <2>1, <2>2
<1>3. CASE c + d >= Wrap
  <2>1. (c + d) % Wrap = c + d - Wrap
    BY <1>1, <1>3
  <2>2. (d - Wrap) % Wrap = d
    BY <1>1
  <2> QED BY <1>1, <2>1, <2>2
<1> QED BY <1>1, <1>2, <1>3

\* The row measured is one of the rows.
LEMMA RowTypes ==
    ASSUME k \in 1 .. Len(Rows)
    PROVE  /\ Row.fn \in STRING /\ Row.need \in Nat /\ Row.body \in Nat
           /\ Row.blocks \in Nat \ {0} /\ Row.ops \in Nat \ {0}
           /\ Row.subtract \in BOOLEAN /\ Row.thread \in BOOLEAN
<1>1. Row \in RowSpec
  BY MeasurementAssumption DEF Row
<1> QED BY <1>1 DEF RowSpec

\* A call of warmed-up code that finds its memory in place, timed.
LEMMA TimedCall ==
    ASSUME TypeOK, NEW fn \in warm, NEW need \in Nat, need <= memBytes,
           NEW body \in Nat, NEW n \in Nat, NEW d \in Disturbances,
           n * (LoopTicks + body) + d < Wrap
    PROVE  LET ticks == CallTicks(fn, need, body, n) + d
           IN  /\ ticks = n * (LoopTicks + body) + d
               /\ ticks \in Nat
               /\ Elapsed(ticks) = ticks
               /\ (clock + ticks) % Wrap \in 0 .. (Wrap - 1)
<1> DEFINE work == n * (LoopTicks + body)
           ticks == CallTicks(fn, need, body, n) + d
<1>1. /\ LoopTicks \in Nat /\ ColdTicks \in Nat
      /\ GrowTicks \in Nat /\ d \in Nat
  BY MeasurementAssumption
<1>2. work \in Nat
  BY <1>1
<1>3. ~(need > memBytes)
  BY DEF TypeOK
<1>4. CallTicks(fn, need, body, n) = work + 0 + 0
  BY <1>3 DEF CallTicks
<1> HIDE DEF work
<1>5. ticks = work + d /\ ticks \in Nat
  BY <1>1, <1>2, <1>4
<1>6. clock \in 0 .. (Wrap - 1) /\ ticks < Wrap
  BY <1>5 DEF TypeOK, work
<1> HIDE DEF ticks
<1>7. Elapsed(ticks) = ticks /\ (clock + ticks) % Wrap \in 0 .. (Wrap - 1)
  BY <1>5, <1>6, WrapDifference DEF Elapsed
<1> QED BY <1>5, <1>7 DEF ticks, work

\* measure_kernel is first called with nothing measured.
LEMMA InitM == Init => MInv
<1> SUFFICES ASSUME Init PROVE MInv
  OBVIOUS
<1> USE MeasurementAssumption DEF Init
<1>1. TypeOK
  <2>0. pc \in {"create", "alloc"}
    BY DEF Part
  <2>1. k \in 1 .. Len(Rows) /\ clock \in 0 .. (Wrap - 1)
    OBVIOUS
  <2>2. /\ raw \in Seq(Nat) /\ Len(raw) <= Samples
        /\ baseline \in Seq(Nat) /\ Len(baseline) <= Samples
    OBVIOUS
  <2>3. m \in [ops : Nat, raw : Nat, baseline : Nat, corrected : Nat]
    BY DEF NoRow
  <2> QED BY <2>0, <2>1, <2>2, <2>3 DEF TypeOK
<1>2. WarmInv /\ PairInv /\ SamplesClean /\ RowInv /\ FreshInv
  <2>1. pc \in {"create", "alloc"} /\ k = 1
    BY DEF Part
  <2> QED BY <2>1 DEF WarmInv, PairInv, SamplesClean, RowInv, FreshInv, Returned
<1> QED BY <1>1, <1>2 DEF MInv

\* Every step of measure_kernel, one case per action.
LEMMA StepM == MInv /\ [Next]_vars => MInv'
<1> SUFFICES ASSUME MInv, [Next]_vars PROVE MInv'
  OBVIOUS
<1>t. TypeOK /\ WarmInv /\ PairInv /\ SamplesClean /\ RowInv /\ FreshInv
  BY DEF MInv
<1>r. /\ Row.fn \in STRING /\ Row.need \in Nat /\ Row.body \in Nat
      /\ Row.blocks \in Nat \ {0} /\ Row.ops \in Nat \ {0}
      /\ Row.subtract \in BOOLEAN /\ Row.thread \in BOOLEAN
  BY <1>t, RowTypes DEF TypeOK
<1>k. k' = k => Row' = Row
  BY DEF Row
<1>c. /\ Samples \in Nat \ {0} /\ Wrap \in Nat \ {0}
      /\ Len(Rows) \in Nat /\ LoopTicks \in Nat
      /\ Disturbances \subseteq Nat
  BY MeasurementAssumption
<1>0. CASE Create
  <2>1. TypeOK'
    BY <1>0, <1>t DEF Create, TypeOK
  <2>2. WarmInv' /\ PairInv' /\ SamplesClean' /\ RowInv' /\ FreshInv'
    BY <1>0, <1>t DEF Create, WarmInv, PairInv, SamplesClean, RowInv,
                      FreshInv, Returned
  <2> QED BY <2>1, <2>2 DEF MInv
<1>1. CASE Alloc
  <2>1. TypeOK'
    BY <1>1, <1>t, <1>c DEF Alloc, TypeOK
  <2>2. WarmInv' /\ PairInv' /\ SamplesClean' /\ RowInv' /\ FreshInv'
    BY <1>1, <1>t DEF Alloc, WarmInv, PairInv, SamplesClean, RowInv,
                      FreshInv, Returned
  <2> QED BY <2>1, <2>2 DEF MInv
<1>2. CASE Exit
  <2>1. TypeOK'
    BY <1>2, <1>t DEF Exit, TypeOK
  <2>2. WarmInv' /\ PairInv' /\ SamplesClean' /\ RowInv' /\ FreshInv'
    BY <1>2, <1>t DEF Exit, WarmInv, PairInv, SamplesClean, RowInv,
                     FreshInv, Returned
  <2> QED BY <2>1, <2>2 DEF MInv
<1>3. CASE WarmUp
  <2>1. clock' \in 0 .. (Wrap - 1)
    <3> DEFINE ticks == CallTicks(Row.fn, Row.need, Row.body, WarmBlocks)
    <3>1. ticks \in Nat
      <4>0. WarmBlocks \in Nat
        BY <1>r DEF WarmBlocks
      <4>1. ColdTicks \in Nat /\ GrowTicks \in Nat
        BY <1>c, MeasurementAssumption
      <4>2. WarmBlocks * (LoopTicks + Row.body) \in Nat
        BY <4>0, <1>c, <1>r
      <4> QED BY <4>1, <4>2 DEF CallTicks
    <3>2. clock' = (clock + ticks) % Wrap
      BY <1>3 DEF WarmUp, Advance
    <3> HIDE DEF ticks
    <3> QED BY <3>1, <3>2, <1>t, <1>c DEF TypeOK
  <2>2. TypeOK'
    BY <1>3, <1>t, <1>r, <2>1 DEF WarmUp, Called, TypeOK
  <2>3. /\ Row' = Row /\ pc' = "raw" /\ k' = k /\ raw' = raw
        /\ baseline' = baseline /\ Row.fn \in warm' /\ Row.need <= memBytes'
    BY <1>3, <1>k, <1>t, <1>r DEF WarmUp, Called, TypeOK
  <2>4. WarmInv'
    BY <1>3, <2>3, <1>t DEF WarmUp, Called, WarmInv
  <2>5. raw = <<>> /\ baseline = <<>>
    BY <1>3, <1>t DEF WarmUp, FreshInv
  <2>6. PairInv' /\ SamplesClean' /\ RowInv' /\ FreshInv'
    BY <2>3, <2>5 DEF PairInv, SamplesClean, RowInv, FreshInv, Returned
  <2> QED BY <2>2, <2>4, <2>6 DEF MInv
<1>4. CASE SampleRaw
  <2> PICK d \in Disturbances :
        LET ticks == CallTicks(Row.fn, Row.need, Row.body, Row.blocks) + d
        IN  /\ raw' = Append(raw, Elapsed(ticks))
            /\ Advance(ticks)
    BY <1>4 DEF SampleRaw
  <2>1. /\ pc = "raw" /\ Len(raw) < Samples
        /\ pc' = IF Row.subtract THEN "baseline" ELSE "raw"
        /\ k' = k /\ baseline' = baseline /\ m' = m /\ copied' = copied
        /\ Row' = Row
        /\ Row.fn \in warm /\ Row.need <= memBytes
        /\ warm' = warm /\ memBytes' = memBytes
    BY <1>4, <1>k, <1>t, <1>r DEF SampleRaw, Called, WarmInv, TypeOK
  <2>2. QuietTicks(Row) + d < Wrap /\ QuietTicks(Row) + d \in Nat
    <3>1. k \in 1 .. Len(Rows) /\ d \in Nat
      BY <1>t, <1>c DEF TypeOK
    <3>2. Rows[k].blocks * (LoopTicks + Rows[k].body) + d < Wrap
      BY <3>1, WrapAssumption
    <3>3. Row.blocks * (LoopTicks + Row.body) \in Nat
      BY <1>c, <1>r
    <3> QED BY <3>1, <3>2, <3>3 DEF Row, QuietTicks
  <2>3. /\ raw' = Append(raw, QuietTicks(Row) + d)
        /\ clock' \in 0 .. (Wrap - 1)
    BY <2>1, <2>2, <1>t, <1>r, TimedCall DEF QuietTicks, Advance
  <2>4. /\ raw' \in Seq(Nat) /\ Len(raw') = Len(raw) + 1
        /\ \A j \in 1 .. Len(raw) : raw'[j] = raw[j]
        /\ raw'[Len(raw) + 1] = QuietTicks(Row) + d
        /\ Len(raw) \in Nat
    BY <2>2, <2>3, <1>t DEF TypeOK
  <2>5. TypeOK'
    <3>1. pc' \in {"raw", "baseline"}
      BY <2>1, <1>r
    <3>2. Len(raw') <= Samples
      BY <2>1, <2>4, <1>c
    <3> QED BY <3>1, <3>2, <2>1, <2>3, <2>4, <1>t DEF TypeOK
  <2>6. WarmInv' /\ FreshInv'
    BY <2>1, <1>r, <1>t DEF WarmInv, FreshInv, Returned
  <2>7. PairInv'
    BY <2>1, <2>4, <1>t, <1>r DEF PairInv, Returned
  <2>8. SamplesClean'
    <3>1. QuietTicks(Row)' = QuietTicks(Row)
      BY <2>1 DEF QuietTicks
    <3>2. ASSUME NEW j \in 1 .. Len(raw')
          PROVE  \E e \in Disturbances : raw'[j] = QuietTicks(Row) + e
      <4>1. CASE j \in 1 .. Len(raw)
        BY <4>1, <2>1, <2>4, <1>t DEF SamplesClean
      <4>2. CASE j = Len(raw) + 1
        BY <4>2, <2>4
      <4> QED BY <4>1, <4>2, <2>4
    <3>3. \A j \in 1 .. Len(baseline') :
             \E e \in Disturbances : baseline'[j] = Row.blocks * LoopTicks + e
      BY <2>1, <1>t DEF SamplesClean
    <3> QED BY <2>1, <3>1, <3>2, <3>3 DEF SamplesClean, QuietTicks
  <2>9. RowInv'
    BY <2>1, <1>r DEF RowInv, Returned
  <2> QED BY <2>5, <2>6, <2>7, <2>8, <2>9 DEF MInv
<1>5. CASE SampleBaseline
  <2> DEFINE quiet == Row.blocks * LoopTicks
  <2> PICK d \in Disturbances :
        LET ticks == CallTicks(EmptyFn, 0, 0, Row.blocks) + d
        IN  /\ baseline' = Append(baseline, Elapsed(ticks))
            /\ Advance(ticks)
    BY <1>5 DEF SampleBaseline
  <2>1. /\ pc = "baseline" /\ pc' = "raw"
        /\ k' = k /\ raw' = raw /\ m' = m /\ copied' = copied
        /\ Row' = Row
        /\ EmptyFn \in warm /\ 0 <= memBytes
        /\ warm' = warm /\ memBytes' = memBytes
    <3>1. pc = "baseline" /\ Row.subtract
      BY <1>5, <1>t DEF SampleBaseline, PairInv
    <3>2. PICK q \in 1 .. (k - 1) : Rows[q].fn = EmptyFn
      BY <3>1, <1>t, EmptyLoopAssumption DEF Row, TypeOK
    <3>3. EmptyFn \in warm
      BY <3>2, <1>t DEF WarmInv
    <3> QED BY <3>1, <3>3, <1>5, <1>k, <1>t DEF SampleBaseline, Called, TypeOK
  <2>2. /\ quiet + d < Wrap /\ quiet + d \in Nat
        /\ Row.blocks * (LoopTicks + 0) = quiet
    <3>1. Rows[k].blocks * LoopTicks + d < Wrap
      BY <1>t, WrapAssumption DEF TypeOK
    <3>2. quiet \in Nat /\ d \in Nat /\ LoopTicks + 0 = LoopTicks
      BY <1>c, <1>r
    <3>3. quiet = Rows[k].blocks * LoopTicks
      BY DEF Row
    <3> HIDE DEF quiet
    <3>4. quiet + d < Wrap /\ quiet + d \in Nat
      BY ONLY <3>1, <3>2, <3>3
    <3> QED BY <3>2, <3>4 DEF quiet
  <2>3. /\ baseline' = Append(baseline, quiet + d)
        /\ clock' \in 0 .. (Wrap - 1)
    BY <2>1, <2>2, <1>t, <1>r, TimedCall DEF Advance
  <2>4. /\ baseline' \in Seq(Nat) /\ Len(baseline') = Len(baseline) + 1
        /\ \A j \in 1 .. Len(baseline) : baseline'[j] = baseline[j]
        /\ baseline'[Len(baseline) + 1] = quiet + d
        /\ Len(baseline) \in Nat
    BY <2>2, <2>3, <1>t DEF TypeOK
  <2>5. Row.subtract /\ Len(raw) = Len(baseline) + 1 /\ Len(raw) <= Samples
    BY <2>1, <1>t DEF PairInv, TypeOK
  <2>6. TypeOK'
    BY <2>1, <2>3, <2>4, <2>5, <1>t, <1>c DEF TypeOK
  <2>7. WarmInv' /\ FreshInv'
    BY <2>1, <1>t, <1>5 DEF SampleBaseline, WarmInv, FreshInv, Returned
  <2>8. PairInv'
    BY <2>1, <2>4, <2>5 DEF PairInv, Returned
  <2>9. SamplesClean'
    <3>1. ASSUME NEW j \in 1 .. Len(baseline')
          PROVE  \E e \in Disturbances : baseline'[j] = quiet + e
      <4>1. CASE j \in 1 .. Len(baseline)
        BY <4>1, <2>1, <2>4, <1>t DEF SamplesClean
      <4>2. CASE j = Len(baseline) + 1
        BY <4>2, <2>4
      <4> QED BY <4>1, <4>2, <2>4
    <3>2. \A j \in 1 .. Len(raw') :
             \E e \in Disturbances : raw'[j] = QuietTicks(Row') + e
      BY <2>1, <1>t DEF SamplesClean
    <3> QED BY <2>1, <3>1, <3>2 DEF SamplesClean, QuietTicks
  <2>10. RowInv'
    BY <2>1 DEF RowInv, Returned
  <2> QED BY <2>6, <2>7, <2>8, <2>9, <2>10 DEF MInv
<1>6. CASE Summarise
  <2>1. /\ pc = "raw" /\ Len(raw) = Samples /\ pc' \in {"join", "print"}
        /\ UNCHANGED <<k, clock, memBytes, warm, raw, baseline>>
        /\ Row' = Row
    BY <1>6, <1>k DEF Summarise
  <2> DEFINE r(c) == probe_stats_from(raw, c[1]).median
             b(c) == probe_stats_from(BaselineBuffer, c[2]).median
  <2>2. PICK c \in BOOLEAN \X BOOLEAN :
          /\ copied' = c
          /\ m' = [ops       |-> Row.blocks * Row.ops,
                   raw       |-> r(c),
                   baseline  |-> b(c),
                   corrected |-> Corrected(r(c), b(c))]
    BY <1>6 DEF Summarise
  <2>3. r(c) \in Nat /\ b(c) \in Nat
    <3>1. BaselineBuffer \in Seq(Nat)
      BY <1>t, <1>c DEF TypeOK, BaselineBuffer
    <3> QED BY <3>1, <1>t, MedianType DEF TypeOK
  <2>4. m' \in [ops : Nat, raw : Nat, baseline : Nat, corrected : Nat]
    <3>1. Row.blocks * Row.ops \in Nat
      BY <1>c, <1>r
    <3>2. Corrected(r(c), b(c)) \in Nat
      BY <2>3 DEF Corrected, probe_corrected_ticks
    <3> HIDE DEF r, b
    <3> QED BY <2>2, <2>3, <3>1, <3>2
  <2>5. TypeOK'
    BY <2>1, <2>2, <2>4, <1>t DEF TypeOK
  <2>6. WarmInv' /\ PairInv' /\ SamplesClean' /\ FreshInv'
    BY <2>1, <1>t
    DEF WarmInv, PairInv, SamplesClean, FreshInv, QuietTicks, Returned
  <2>7. RowInv'
    <3>1. ASSUME c = <<TRUE, TRUE>>
          PROVE  /\ r(c) = Sorted(raw, Len(raw) \div 2)
                 /\ Row.subtract =>
                      b(c) = Sorted(baseline, Len(baseline) \div 2)
      BY <3>1, <2>1, <1>t, <1>c
      DEF probe_stats_from, BaselineBuffer, PairInv
    <3> HIDE DEF r, b
    <3>2. ASSUME c = <<TRUE, TRUE>>
          PROVE  Corrected(r(c), b(c)) =
                   Corrected(Sorted(raw, Len(raw) \div 2),
                             IF Row.subtract
                             THEN Sorted(baseline, Len(baseline) \div 2)
                             ELSE 0)
      BY <3>1, <3>2 DEF Corrected
    <3> QED BY <2>1, <2>2, <3>2 DEF RowInv, Corrected
  <2> QED BY <2>5, <2>6, <2>7 DEF MInv
<1>7. CASE Join
  <2>1. TypeOK'
    BY <1>7, <1>t DEF Join, TypeOK
  <2>2. Row' = Row
    BY <1>7, <1>k DEF Join
  <2>3. WarmInv' /\ PairInv' /\ SamplesClean' /\ RowInv' /\ FreshInv'
    BY <1>7, <2>2, <1>t DEF Join, WarmInv, PairInv, SamplesClean, RowInv,
                            FreshInv, Returned, QuietTicks, Corrected
  <2> QED BY <2>1, <2>3 DEF MInv
<1>9. CASE PrintRow
  <2>1. pc = "print" /\ pc' \in {"create", "alloc", "done"}
        /\ k' \in 1 .. Len(Rows) /\ k' \in {k, k + 1} /\ Row.fn \in warm
    BY <1>9, <1>t DEF PrintRow, Part, TypeOK, WarmInv, Returned
  <2>2. TypeOK'
    BY <1>9, <1>t, <2>1 DEF PrintRow, TypeOK
  <2>3. WarmInv'
    <3>1. \A q \in 1 .. (k' - 1) : q \in 1 .. (k - 1) \/ q = k
      <4>1. k \in Nat
        BY <1>t, <1>c DEF TypeOK
      <4>2. CASE k' = k
        BY <4>1, <4>2
      <4>3. CASE k' = k + 1
        BY <4>1, <4>3
      <4> QED BY <2>1, <4>2, <4>3
    <3>2. warm' = warm /\ Rows[k].fn \in warm
      BY <1>9, <2>1 DEF PrintRow, Row
    <3>3. \A q \in 1 .. (k' - 1) : Rows[q].fn \in warm'
      BY <3>1, <3>2, <1>t DEF WarmInv
    <3> QED BY <2>1, <3>3 DEF WarmInv, Returned
  <2>4. PairInv' /\ SamplesClean' /\ RowInv' /\ FreshInv'
    BY <2>1 DEF PairInv, SamplesClean, RowInv, FreshInv, Returned
  <2> QED BY <2>2, <2>3, <2>4 DEF MInv
<1>8. CASE UNCHANGED vars
  <2>1. Row' = Row
    BY <1>8, <1>k DEF vars
  <2>2. TypeOK' /\ WarmInv' /\ PairInv' /\ RowInv' /\ FreshInv'
    BY <1>8, <1>t, <2>1
    DEF vars, TypeOK, WarmInv, PairInv, RowInv, FreshInv, Returned, Corrected
  <2>3. SamplesClean'
    BY <1>8, <1>t, <2>1 DEF vars, SamplesClean, QuietTicks, Returned
  <2> QED BY <2>2, <2>3 DEF MInv
<1> QED
  BY <1>0, <1>1, <1>2, <1>3, <1>4, <1>5, <1>6, <1>7, <1>8, <1>9
  DEF Next, CreateFails, AllocFails, GrowFails, JoinFails

\* MInv is inductive.
THEOREM MeasurementInvariance == Spec => []MInv
  BY InitM, StepM, PTL DEF Spec

\* Every variable keeps its type; no sample buffer overflows.
THEOREM MeasurementTypes == Spec => []TypeOK
<1>1. MInv => TypeOK
  BY DEF MInv
<1> QED BY MeasurementInvariance, <1>1, PTL

\* Every sample is the time of its blocks and of what the system did to it.
THEOREM CleanSamples == Spec => []SamplesClean
<1>1. MInv => SamplesClean
  BY DEF MInv
<1> QED BY MeasurementInvariance, <1>1, PTL

\* A row most of whose samples were undisturbed shows the exact cost.
THEOREM ExactRows == Spec => []RowExact
<1>1. MInv => RowExact
  <2> SUFFICES ASSUME MInv, Returned, copied = <<TRUE, TRUE>>,
                      MostlyQuiet(raw, QuietTicks(Row)),
                      Row.subtract => MostlyQuiet(baseline, Row.blocks * LoopTicks)
               PROVE  m.corrected =
                        IF ~Row.subtract
                        THEN Corrected(QuietTicks(Row), 0)
                        ELSE IF Row.body = 0 THEN 1 ELSE Row.blocks * Row.body
    BY DEF RowExact
  <2>1. TypeOK /\ RowInv
    BY DEF MInv
  <2>2. /\ Row.blocks \in Nat \ {0} /\ LoopTicks \in Nat /\ Row.body \in Nat
        /\ Row.subtract \in BOOLEAN
    BY <2>1, RowTypes, MeasurementAssumption DEF TypeOK
  <2>3. /\ QuietTicks(Row) = Row.blocks * LoopTicks + Row.blocks * Row.body
        /\ QuietTicks(Row) \in Nat
        /\ Row.blocks * LoopTicks \in Nat /\ Row.blocks * Row.body \in Nat
        /\ Row.body = 0 <=> Row.blocks * Row.body = 0
    BY <2>2 DEF QuietTicks
  <2>4. Sorted(raw, Len(raw) \div 2) = QuietTicks(Row)
    BY <2>1, <2>3, MajorityMedian DEF MostlyQuiet, Quiet, TypeOK
  <2>5. Row.subtract =>
          Sorted(baseline, Len(baseline) \div 2) = Row.blocks * LoopTicks
    BY <2>1, <2>3, MajorityMedian DEF MostlyQuiet, Quiet, TypeOK
  <2>6. CASE ~Row.subtract
    BY <2>1, <2>4, <2>6 DEF RowInv, Corrected
  <2>7. CASE Row.subtract
    <3>1. m.corrected = probe_corrected_ticks(QuietTicks(Row), Row.blocks * LoopTicks)
      <4>1. k \in 1 .. Len(Rows)
        BY <2>1 DEF TypeOK
      <4>2. Row.harness = "deep"
        BY <4>1, <2>7, EmptyLoopAssumption DEF Row
      <4> QED BY <4>2, <2>1, <2>4, <2>5, <2>7 DEF RowInv, Corrected
    <3> DEFINE q == QuietTicks(Row)
               l == Row.blocks * LoopTicks
               w == Row.blocks * Row.body
    <3>2. q = l + w /\ l \in Nat /\ w \in Nat
      BY <2>3
    <3> HIDE DEF q, l, w
    <3>3. probe_corrected_ticks(q, l) = IF w = 0 THEN 1 ELSE w
      BY <3>2 DEF probe_corrected_ticks
    <3> QED BY <3>1, <3>3, <2>3, <2>7 DEF q, l, w
  <2> QED BY <2>6, <2>7
<1> QED BY MeasurementInvariance, <1>1, PTL
=============================================================================
