--------------------------- MODULE MCThreadScaling ---------------------------
(* Small instances of ThreadScaling for TLC. *)
EXTENDS ThreadScaling

\* Three rows, growing and then shrinking, so that slots are used again after
\* a row in which they were idle.
MCCounts == <<1, 4, 2>>
MCPair == <<2, 1>>
=============================================================================
