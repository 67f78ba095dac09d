---------------------------- MODULE MCMeasurement ----------------------------
(* A small program for TLC: of the deep probe the empty loop, a kernel that   *)
(* needs the shared buffer and, on a thread, one whose body costs nothing     *)
(* beyond its loop; then a row of each plain harness, the last on a thread.   *)
EXTENDS Measurement

MCRow(harness, fn, need, body, blocks, ops, subtract, thread) ==
    [harness |-> harness, fn |-> fn, need |-> need, body |-> body,
     blocks |-> blocks, ops |-> ops, subtract |-> subtract, thread |-> thread]

MCRows == <<
    MCRow("deep", "kernel_empty", 0, 0, 8, 1, FALSE, FALSE),
    MCRow("deep", "kernel_l1_load_ind8", 4096, 2, 8, 8, TRUE, FALSE),
    MCRow("deep", "kernel_nop8", 0, 0, 8, 8, TRUE, TRUE),
    MCRow("advanced", "kernel_ras_depth", 0, 1, 16, 1, FALSE, FALSE),
    MCRow("first", "kernel_dep_add", 0, 1, 8, 8, FALSE, TRUE) >>

\* A counter that starts at zero, and one about to wrap.
MCBootTicks == {0, 60}
=============================================================================
