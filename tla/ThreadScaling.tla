---------------------------- MODULE ThreadScaling ----------------------------
(***************************************************************************)
(* run_thread_scaling of apple/src/deep_cpu_probes.c, with its worker      *)
(* scale_main; with HeapVariant = FALSE it is also                         *)
(* run_sustained_thread_scaling of apple/src/advanced_cpu_probes.c, whose  *)
(* only difference in control is that the row's label lives on the stack.  *)
(*                                                                         *)
(* The main thread and the workers of one row run concurrently.  They      *)
(* share the atomic start gate, which lives on main's stack, and the heap  *)
(* array `tasks', which main frees.  Reading the counter into start_tick   *)
(* opens the timed window of a row, reading it again for `elapsed' closes  *)
(* it; a worker's block is accounted to the window it was executed in.     *)
(*                                                                         *)
(* Left out: the QoS class a worker asks for (a hint whose result the code *)
(* ignores), the contents of a worker's result beyond whether it has been  *)
(* written, and the wrap of ops at 2^64 (some years of run time away).     *)
(***************************************************************************)
EXTENDS Naturals, Sequences

CONSTANTS
    Counts,      \* the thread count of each row: `counts', per QoS class
    MaxThreads,  \* no entry of Counts is larger
    Blocks,      \* loop iterations of each worker: per_thread_blocks
    HeapVariant  \* TRUE: the label of a row is calloc'ed (deep_cpu_probes.c)

ASSUME CountsAssumption ==
    /\ MaxThreads \in Nat \ {0}
    /\ Counts \in Seq(1 .. MaxThreads)
    /\ Len(Counts) > 0
ASSUME BlocksAssumption == Blocks \in Nat \ {0}
ASSUME VariantAssumption == HeapVariant \in BOOLEAN

OpsPerBlock == 8

Workers == 1 .. MaxThreads

VARIABLES
    pc,       \* where main is
    round,    \* ci, the row being measured
    i,        \* main's loop counter, of the create loop and the join loop
    start,    \* the atomic gate, 0 or 1
    tasks,    \* the calloc'ed arrays ids and tasks: "none", "live", "freed"
    window,   \* is a timed window open (start_tick read, elapsed not yet)
    worker,   \* where each worker is
    inside,   \* blocks a worker has executed while its window was open
    outside,  \* blocks a worker has executed while no window was open
    result,   \* has tasks[w].result been written in this round
    sink,     \* workers whose result main has folded into g_sink_u64
    rows      \* the rows printed

mainVars == <<pc, round, i, tasks, window, sink, rows>>
workVars == <<worker, inside, outside, result>>
vars == <<pc, round, i, start, tasks, window, sink, rows,
          worker, inside, outside, result>>

Threads == Counts[round]

\* What exit(2) leaves behind: no thread of the process takes another step.
Exit ==
    /\ pc' = "exit"
    /\ UNCHANGED <<round, i, start, tasks, window, sink, rows>>
    /\ UNCHANGED workVars

Running == pc \notin {"done", "exit"}

-----------------------------------------------------------------------------
(* Slips the properties must catch.  No specification uses these: each is   *)
(* the action named before "With", as a plausible mistake would have it.    *)

\* The gate is initialised once, before the loop over the rows.
AllocWithStaleGate ==
    /\ pc = "alloc"
    /\ tasks' = "live"
    /\ result' = [w \in Workers |-> FALSE]
    /\ sink' = {}
    /\ i' = 1
    /\ pc' = "create"
    /\ UNCHANGED <<round, start, window, rows, worker, inside, outside>>

\* The create loop tests its counter after using it.
CreateWithOneMore ==
    /\ pc = "create"
    /\ worker' = [worker EXCEPT ![i] = "created"]
    /\ inside' = [inside EXCEPT ![i] = 0]
    /\ outside' = [outside EXCEPT ![i] = 0]
    /\ IF i <= Threads THEN i' = i + 1 /\ pc' = "create"
                       ELSE i' = 1 /\ pc' = "sleep"
    /\ UNCHANGED <<round, start, tasks, window, sink, rows, result>>

\* The gate opens before start_tick is read.
SleepWithEarlyRelease ==
    /\ pc = "sleep"
    /\ pc' = "stamp"
    /\ start' = 1
    /\ UNCHANGED <<round, i, tasks, window, sink, rows>>
    /\ UNCHANGED workVars

\* The gate is never opened.
ReleaseWithoutStore ==
    /\ pc = "release"
    /\ pc' = "join"
    /\ UNCHANGED <<round, i, start, tasks, window, sink, rows>>
    /\ UNCHANGED workVars

\* The workers are detached instead of joined.
JoinWithoutWaiting ==
    /\ pc = "join"
    /\ sink' = IF result[i] THEN sink \cup {i} ELSE sink
    /\ IF i < Threads THEN i' = i + 1 /\ pc' = "join"
                      ELSE i' = 1 /\ pc' = "stop"
    /\ UNCHANGED <<round, start, tasks, window, rows>>
    /\ UNCHANGED workVars

\* The join loop stops one worker short.
JoinWithoutLast ==
    /\ pc = "join"
    /\ worker[i] = "returned"
    /\ worker' = [worker EXCEPT ![i] = "joined"]
    /\ sink' = IF result[i] THEN sink \cup {i} ELSE sink
    /\ IF i < Threads - 1 THEN i' = i + 1 /\ pc' = "join"
                          ELSE i' = 1 /\ pc' = "stop"
    /\ UNCHANGED <<round, start, tasks, window, rows, inside, outside, result>>

\* The worker's result stays in a local variable.
ReturnWithoutStore(w) ==
    /\ worker[w] = "kernel"
    /\ inside[w] + outside[w] >= Blocks
    /\ worker' = [worker EXCEPT ![w] = "returned"]
    /\ UNCHANGED <<start, inside, outside, result>>

-----------------------------------------------------------------------------
(* The main thread *)

Init ==
    /\ pc = "alloc"
    /\ round = 1
    /\ i = 1
    /\ start = 0
    /\ tasks = "none"
    /\ window = FALSE
    /\ sink = {}
    /\ rows = <<>>
    /\ worker = [w \in Workers |-> "none"]
    /\ inside = [w \in Workers |-> 0]
    /\ outside = [w \in Workers |-> 0]
    /\ result = [w \in Workers |-> FALSE]

\* calloc ids and tasks (zeroed, so no result yet) and lower the gate.
Alloc ==
    /\ pc = "alloc"
    /\ tasks' = "live"
    /\ start' = 0
    /\ result' = [w \in Workers |-> FALSE]
    /\ sink' = {}
    /\ i' = 1
    /\ pc' = "create"
    /\ UNCHANGED <<round, window, rows, worker, inside, outside>>

AllocFails == pc = "alloc" /\ Exit

\* One iteration of the create loop.
Create ==
    /\ pc = "create"
    /\ worker' = [worker EXCEPT ![i] = "created"]
    /\ inside' = [inside EXCEPT ![i] = 0]
    /\ outside' = [outside EXCEPT ![i] = 0]
    /\ IF i < Threads THEN i' = i + 1 /\ pc' = "create"
                      ELSE i' = 1 /\ pc' = "sleep"
    /\ UNCHANGED <<round, start, tasks, window, sink, rows, result>>

CreateFails == pc = "create" /\ Exit

\* Sleeping for a millisecond lets the workers reach the gate but does not
\* wait for them: nothing about them is known afterwards.
Sleep ==
    /\ pc = "sleep"
    /\ pc' = "stamp"
    /\ UNCHANGED <<round, i, start, tasks, window, sink, rows>>
    /\ UNCHANGED workVars

Stamp ==
    /\ pc = "stamp"
    /\ window' = TRUE
    /\ pc' = "release"
    /\ UNCHANGED <<round, i, start, tasks, sink, rows>>
    /\ UNCHANGED workVars

Release ==
    /\ pc = "release"
    /\ start' = 1
    /\ pc' = "join"
    /\ UNCHANGED <<round, i, tasks, window, sink, rows>>
    /\ UNCHANGED workVars

\* One iteration of the join loop: wait for the worker, fold its result.
Join ==
    /\ pc = "join"
    /\ worker[i] = "returned"
    /\ worker' = [worker EXCEPT ![i] = "joined"]
    /\ sink' = IF result[i] THEN sink \cup {i} ELSE sink
    /\ IF i < Threads THEN i' = i + 1 /\ pc' = "join"
                      ELSE i' = 1 /\ pc' = "stop"
    /\ UNCHANGED <<round, start, tasks, window, rows, inside, outside, result>>

JoinFails == pc = "join" /\ Exit

Stop ==
    /\ pc = "stop"
    /\ window' = FALSE
    /\ pc' = IF HeapVariant THEN "variant" ELSE "row"
    /\ UNCHANGED <<round, i, start, tasks, sink, rows>>
    /\ UNCHANGED workVars

\* calloc of the label, after the measurement and before the row is printed.
Variant ==
    /\ pc = "variant"
    /\ pc' = "row"
    /\ UNCHANGED <<round, i, start, tasks, window, sink, rows>>
    /\ UNCHANGED workVars

VariantFails == pc = "variant" /\ Exit

\* The row printed, with what each worker really did beside what it claims.
Row ==
    /\ pc = "row"
    /\ rows' = Append(rows, [threads |-> Threads,
                             ops     |-> Threads * Blocks * OpsPerBlock,
                             inside  |-> inside,
                             sink    |-> sink])
    /\ pc' = "free"
    /\ UNCHANGED <<round, i, start, tasks, window, sink>>
    /\ UNCHANGED workVars

\* Free the arrays, leave the scope of `start', go to the next row.
Free ==
    /\ pc = "free"
    /\ tasks' = "freed"
    /\ IF round < Len(Counts) THEN round' = round + 1 /\ pc' = "alloc"
                              ELSE round' = round /\ pc' = "done"
    /\ UNCHANGED <<i, start, window, sink, rows>>
    /\ UNCHANGED workVars

\* A library call fails: exit(2).
GiveUp == AllocFails \/ CreateFails \/ JoinFails \/ VariantFails

Proceed ==
    \/ Alloc \/ Create
    \/ Sleep \/ Stamp \/ Release
    \/ Join \/ Stop
    \/ Variant \/ Row \/ Free

Main == Proceed \/ GiveUp

-----------------------------------------------------------------------------
(* The workers: scale_main and kernel_thr_add8 *)

\* The thread starts, reads its task and reaches the gate.
Begin(w) ==
    /\ worker[w] = "created"
    /\ worker' = [worker EXCEPT ![w] = "spin"]
    /\ UNCHANGED <<start, inside, outside, result>>

\* The acquire load reads 1.  (Reading 0 is a step that changes nothing.)
PassGate(w) ==
    /\ worker[w] = "spin"
    /\ start = 1
    /\ worker' = [worker EXCEPT ![w] = "kernel"]
    /\ UNCHANGED <<start, inside, outside, result>>

Executed(w) == inside[w] + outside[w]

Block(w) ==
    /\ worker[w] = "kernel"
    /\ Executed(w) < Blocks
    /\ IF window
       THEN /\ inside' = [inside EXCEPT ![w] = @ + 1]
            /\ UNCHANGED outside
       ELSE /\ outside' = [outside EXCEPT ![w] = @ + 1]
            /\ UNCHANGED inside
    /\ UNCHANGED <<start, worker, result>>

\* Store the result in tasks[w] and return.
Return(w) ==
    /\ worker[w] = "kernel"
    /\ Executed(w) >= Blocks
    /\ result' = [result EXCEPT ![w] = TRUE]
    /\ worker' = [worker EXCEPT ![w] = "returned"]
    /\ UNCHANGED <<start, inside, outside>>

Work(w) ==
    /\ Running
    /\ Begin(w) \/ PassGate(w) \/ Block(w) \/ Return(w)
    /\ UNCHANGED mainVars

-----------------------------------------------------------------------------
Next == Main \/ \E w \in Workers : Work(w)

Spec == Init /\ [][Next]_vars

\* The operating system keeps scheduling main and every worker.  A call may fail,
\* but no failure can be counted on: nothing is assumed of GiveUp.
Fairness == WF_vars(Proceed) /\ \A w \in Workers : WF_vars(Work(w))

FairSpec == Spec /\ Fairness

-----------------------------------------------------------------------------
(* Properties *)

Locations == {"alloc", "create", "sleep", "stamp", "release", "join", "stop",
              "variant", "row", "free", "done", "exit"}

WorkerStates == {"none", "created", "spin", "kernel", "returned", "joined"}

RowType == [threads : Workers, ops : Nat,
            inside : [Workers -> Nat], sink : SUBSET Workers]

\* Every variable has its type; in particular the loop counter never leaves
\* the arrays of the row (ids[i] and tasks[i] have Counts[round] elements).
TypeOK ==
    /\ pc \in Locations
    /\ round \in 1 .. Len(Counts)
    /\ i \in 1 .. Threads
    /\ start \in {0, 1}
    /\ tasks \in {"none", "live", "freed"}
    /\ window \in BOOLEAN
    /\ sink \in SUBSET Workers
    /\ rows \in Seq(RowType)
    /\ worker \in [Workers -> WorkerStates]
    /\ inside \in [Workers -> Nat]
    /\ outside \in [Workers -> Nat]
    /\ result \in [Workers -> BOOLEAN]

\* A worker that can still dereference its task, or the gate its task points
\* to, does so in live memory: main never frees the arrays, nor leaves the
\* scope of `start', while one of the row's threads is running.
NoUseAfterFree ==
    \A w \in Workers :
        worker[w] \in {"created", "spin", "kernel"} => tasks = "live"

\* The time printed is the time of the work printed: in every row, each of
\* its workers executed all its blocks between the two reads of the counter,
\* and ops counts exactly those blocks.
RowsHonest ==
    \A k \in 1 .. Len(rows) :
        /\ rows[k].threads = Counts[k]
        /\ \A w \in 1 .. rows[k].threads : rows[k].inside[w] = Blocks
        /\ rows[k].ops = rows[k].threads * Blocks * OpsPerBlock

\* No worker does measured work before the window opens or after it closes,
\* whenever the scheduler lets it run: the gate holds it, the join awaits it.
WorkOnlyInWindow == \A w \in Workers : outside[w] = 0

\* g_sink_u64, which keeps the compiler from dropping the kernels, receives
\* the result of every worker of a row before the row is printed, and
\* never a zero that calloc left in place of a result.
EveryResultSunk ==
    \A k \in 1 .. Len(rows) : rows[k].sink = 1 .. rows[k].threads

\* However the threads are scheduled and whichever call fails, the probe
\* prints all its rows or exits: main never waits for a thread for ever.
Termination == <>(pc = "exit" \/ (pc = "done" /\ Len(rows) = Len(Counts)))

-----------------------------------------------------------------------------
(* The inductive invariant behind the safety properties *)

Idle(w) == worker[w] \in {"none", "joined"}
AtGate(w) == worker[w] \in {"created", "spin"}

\* Main's location fixes the loop counter, the gate, the window, the arrays.
MainInv ==
    /\ pc \notin {"create", "join", "exit"} => i = 1
    /\ pc \in {"create", "sleep", "stamp", "release"} => start = 0
    /\ pc # "exit" => (window <=> pc \in {"release", "join", "stop"})
    /\ pc \notin {"alloc", "done", "exit"} => tasks = "live"

\* Main's location also fixes which workers exist and how far they can be.
WorkerInv ==
    /\ pc \in {"alloc", "stop", "variant", "row", "free", "done"} =>
          \A w \in Workers : Idle(w)
    /\ pc = "create" =>
          /\ \A w \in 1 .. (i - 1) : AtGate(w)
          /\ \A w \in i .. MaxThreads : Idle(w)
    /\ pc \in {"sleep", "stamp", "release"} =>
          /\ \A w \in 1 .. Threads : AtGate(w)
          /\ \A w \in (Threads + 1) .. MaxThreads : Idle(w)
    /\ pc = "join" =>
          /\ \A w \in 1 .. (i - 1) : worker[w] = "joined"
          /\ \A w \in i .. Threads : worker[w] \notin {"none", "joined"}
          /\ \A w \in (Threads + 1) .. MaxThreads : Idle(w)

\* How much of its share a worker has done follows from where it is.
WorkInv ==
    \A w \in Workers :
        /\ outside[w] = 0
        /\ AtGate(w) => inside[w] = 0
        /\ inside[w] <= Blocks
        /\ worker[w] \in {"returned", "joined"} => inside[w] = Blocks
        /\ worker[w] = "returned" => result[w]

\* The sink follows the join loop, and the rows follow the rounds.
RowInv ==
    /\ pc \in {"stop", "variant", "row"} =>
          /\ sink = 1 .. Threads
          /\ \A w \in 1 .. Threads : worker[w] = "joined"
    /\ pc = "join" => sink = 1 .. (i - 1)
    /\ pc \in {"create", "sleep", "stamp", "release"} => sink = {}
    /\ pc \in {"free", "done"} => Len(rows) = round
    /\ pc \notin {"free", "done", "exit"} => Len(rows) = round - 1
    /\ pc = "done" => round = Len(Counts)

IInv ==
    /\ TypeOK
    /\ MainInv
    /\ WorkerInv
    /\ WorkInv
    /\ RowInv
    /\ NoUseAfterFree
    /\ RowsHonest
    /\ EveryResultSunk

-----------------------------------------------------------------------------
(* The abstract specification this one implements *)

PhaseAt(p) ==
    CASE p \in {"alloc", "create", "sleep", "stamp", "free"} -> "idle"
      [] p \in {"release", "join", "stop"} -> "timing"
      [] p \in {"variant", "row"} -> "timed"
      [] p = "done" -> "ended"
      [] p = "exit" -> "aborted"

phaseOf == PhaseAt(pc)

todoOf ==
    IF phaseOf = "timing"
    THEN {w \in 1 .. Threads : worker[w] \notin {"returned", "joined"}}
    ELSE {}

publishedOf == [k \in 1 .. Len(rows) |-> rows[k].threads]

Promise == INSTANCE TimedForkJoin
             WITH phase <- phaseOf, todo <- todoOf, published <- publishedOf

\* The threads, the gate and the joins implement the timed fork-join of
\* TimedForkJoin: rows in order, one window each, all work inside it.
Refinement == Promise!Spec
=============================================================================
