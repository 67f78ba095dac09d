------------------------------ MODULE MCMemChase ------------------------------
(* Working sets of 1, 2, 3, 6, 9, 10 and 20 elements: odd numbers, and even    *)
(* ones for which the first stride that is tried is not coprime.               *)
EXTENDS MemChase

MCSizes == <<4, 8, 12, 24, 36, 40, 80>>

\* Two sizes, the second of which has more elements than a launch has loads.
LargeSizes == <<32, 80>>
=============================================================================
