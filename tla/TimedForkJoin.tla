---------------------------- MODULE TimedForkJoin ----------------------------
(***************************************************************************)
(* What a thread-scaling row promises its reader, with no thread, lock or  *)
(* allocation in sight: for each entry of Counts, in order, a clock is     *)
(* started, every one of the workers of the entry does its whole share     *)
(* while the clock runs, the clock is stopped only then, and one row is    *)
(* published.  The program may give up at any moment; what it has          *)
(* published by then still stands.                                         *)
(*                                                                         *)
(* ThreadScaling implements this specification.                            *)
(***************************************************************************)
EXTENDS Naturals, Sequences

CONSTANTS
    Counts      \* the worker count of each row, in the order of the rows

VARIABLES
    phase,      \* "idle", "timing", "timed", "ended" or "aborted"
    todo,       \* the workers whose share of the current row is not finished
    published   \* the worker counts of the rows published so far

vars == <<phase, todo, published>>

Current == Counts[Len(published) + 1]

Init ==
    /\ phase = "idle"
    /\ todo = {}
    /\ published = <<>>

Open ==
    /\ phase = "idle"
    /\ Len(published) < Len(Counts)
    /\ phase' = "timing"
    /\ todo' = 1 .. Current
    /\ UNCHANGED published

Finish(w) ==
    /\ phase = "timing"
    /\ w \in todo
    /\ todo' = todo \ {w}
    /\ UNCHANGED <<phase, published>>

Close ==
    /\ phase = "timing"
    /\ todo = {}
    /\ phase' = "timed"
    /\ UNCHANGED <<todo, published>>

Publish ==
    /\ phase = "timed"
    /\ published' = Append(published, Current)
    /\ phase' = "idle"
    /\ UNCHANGED todo

End ==
    /\ phase = "idle"
    /\ Len(published) = Len(Counts)
    /\ phase' = "ended"
    /\ UNCHANGED <<todo, published>>

Abort ==
    /\ phase \notin {"ended", "aborted"}
    /\ phase' = "aborted"
    /\ todo' = {}
    /\ UNCHANGED published

Next ==
    \/ Open
    \/ \E w \in todo : Finish(w)
    \/ Close
    \/ Publish
    \/ End
    \/ Abort

Spec == Init /\ [][Next]_vars
=============================================================================
