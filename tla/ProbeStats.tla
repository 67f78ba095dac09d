------------------------------ MODULE ProbeStats ------------------------------
(***************************************************************************)
(* apple/src/probe_helpers.c: what a row's samples are reduced to.         *)
(*                                                                         *)
(* probe_stats_from sorts a copy of the samples and reads the copy at 0,   *)
(* count / 2 and count - 1.  The value at a position of a sorted array is  *)
(* an order statistic, and it is stated here as one, without the sorting.  *)
(* Mean, standard deviation and coefficient of variation are left out:     *)
(* they are floating-point numbers that no decision of the code reads.     *)
(***************************************************************************)
EXTENDS Integers, Sequences, FiniteSets

\* The value at index r (from 0) of the sorted copy of the samples s.
IsOrderStatistic(x, s, r) ==
    /\ Cardinality({j \in DOMAIN s : s[j] < x}) <= r
    /\ r < Cardinality({j \in DOMAIN s : s[j] <= x})

Sorted(s, r) == CHOOSE x \in {s[j] : j \in DOMAIN s} : IsOrderStatistic(x, s, r)

\* What a failed malloc of the copy, or no samples at all, returns.
NoStats == [min |-> 0, median |-> 0, max |-> 0]

\* A slip the properties must catch: the position after the middle one.
StatsPastTheMiddle(s, copied) ==
    IF Len(s) = 0 \/ ~copied
    THEN NoStats
    ELSE [min    |-> Sorted(s, 0),
          median |-> Sorted(s, Len(s) \div 2 + 1),
          max    |-> Sorted(s, Len(s) - 1)]

\* copied: the malloc of the copy succeeded.
probe_stats_from(s, copied) ==
    IF Len(s) = 0 \/ ~copied
    THEN NoStats
    ELSE [min    |-> Sorted(s, 0),
          median |-> Sorted(s, Len(s) \div 2),
          max    |-> Sorted(s, Len(s) - 1)]

\* Never zero, so that the per-operation time of a row is never zero.
probe_corrected_ticks(raw, baseline) ==
    IF raw <= baseline THEN 1 ELSE raw - baseline
=============================================================================
