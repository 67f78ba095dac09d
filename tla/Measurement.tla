----------------------------- MODULE Measurement -----------------------------
(***************************************************************************)
(* The three measure_kernel of the Apple probes, called for one row after  *)
(* another: that of deep_cpu_probes.c, which can time an empty loop beside *)
(* the kernel and subtract it, and the plain ones of advanced_cpu_probes.c *)
(* and cpu_probes.c; with the pieces they use, the counter, the shared     *)
(* buffer grown by ensure_memory, the kernels, probe_stats_from and        *)
(* probe_corrected_ticks.  The rows about QoS classes are measured on a    *)
(* thread of their own, which main creates and joins before it goes on.    *)
(*                                                                         *)
(* The counter has 2^64 values and wraps; here it has Wrap.  A call takes  *)
(* a fixed number of ticks per block, more the first time its code runs,   *)
(* more if it has to allocate, and more if the system disturbs it.  The    *)
(* start and end reads around a call are one action with the call: nothing *)
(* else runs in this thread, and what other threads do to the time is the  *)
(* disturbance.                                                            *)
(***************************************************************************)
EXTENDS ProbeStats

CONSTANTS
    Rows,         \* the calls of measure_kernel, in order (see RowSpec)
    Samples,      \* opts->samples
    Wrap,         \* the number of values of the counter
    BootTicks,    \* values of the counter at which the program may start
    LoopTicks,    \* ticks of one iteration of an empty loop
    ColdTicks,    \* extra ticks of the first call of a kernel
    GrowTicks,    \* extra ticks of a call that allocates the shared buffer
    Disturbances  \* extra ticks the system may add to a timed call

EmptyFn == "kernel_empty"

\* harness: whose measure_kernel; fn: the kernel; need: the bytes it passes to
\* ensure_memory (0: it does not call it); body: ticks of a block beyond the
\* loop; blocks and ops: the block, or iteration, count and the operations of
\* one; subtract: subtract_baseline; thread: on a thread of its own.
RowSpec == [harness : {"deep", "advanced", "first"}, fn : STRING, need : Nat,
            body : Nat, blocks : Nat \ {0}, ops : Nat \ {0},
            subtract : BOOLEAN, thread : BOOLEAN]

ASSUME MeasurementAssumption ==
    /\ Rows \in Seq(RowSpec) /\ Len(Rows) > 0
    /\ Samples \in Nat \ {0}
    /\ Wrap \in Nat \ {0}
    /\ BootTicks \subseteq 0 .. (Wrap - 1)
    /\ {LoopTicks, ColdTicks, GrowTicks} \subseteq Nat
    /\ Disturbances \subseteq Nat

\* One call, whatever happens in it, is shorter than a turn of the counter.
ASSUME WrapAssumption ==
    \A r \in 1 .. Len(Rows), d \in Disturbances :
       /\ Rows[r].blocks * (LoopTicks + Rows[r].body) + d < Wrap
       /\ Rows[r].blocks * LoopTicks + d < Wrap

\* Only the deep probe subtracts, and its first row, in run_hygiene, measures
\* the empty loop itself.
ASSUME EmptyLoopAssumption ==
    \A r \in 1 .. Len(Rows) : Rows[r].subtract =>
       /\ Rows[r].harness = "deep"
       /\ \E q \in 1 .. (r - 1) : Rows[q].fn = EmptyFn

VARIABLES
    pc,        \* where measure_kernel is, or its caller
    k,         \* the row being measured
    clock,     \* the counter
    memBytes,  \* g_mem_bytes
    warm,      \* the kernels whose code has run
    raw,       \* the samples taken so far
    baseline,  \* the baseline samples taken so far
    copied,    \* did the mallocs of probe_stats_from succeed, raw and baseline
    m          \* the measurement handed to print_measurement

vars == <<pc, k, clock, memBytes, warm, raw, baseline, copied, m>>

Row == Rows[k]

\* Ticks of a call of kernel fn with n blocks, before any disturbance.
CallTicks(fn, need, body, n) ==
    n * (LoopTicks + body)
      + (IF fn \in warm THEN 0 ELSE ColdTicks)
      + (IF need > memBytes THEN GrowTicks ELSE 0)

\* What a call leaves behind: ensure_memory grows the buffer, never shrinks it.
Called(fn, need) ==
    /\ warm' = warm \cup {fn}
    /\ memBytes' = IF need > memBytes THEN need ELSE memBytes

\* One timed call: read the counter, call, read it again, keep the difference.
Elapsed(ticks) == (((clock + ticks) % Wrap) - clock) % Wrap
Advance(ticks) == clock' = (clock + ticks) % Wrap

WarmBlocks == Row.blocks \div (IF Row.harness = "advanced" THEN 16 ELSE 8) + 1

-----------------------------------------------------------------------------
(* Slips the properties must catch; no specification uses them. *)

\* The measurement starts at once.
WarmUpSkipped ==
    /\ pc = "warm"
    /\ pc' = "raw"
    /\ UNCHANGED <<k, clock, memBytes, warm, raw, baseline, copied, m>>

\* The sample loop tests i <= samples.
SampleRawOneMore ==
    /\ pc = "raw"
    /\ Len(raw) <= Samples
    /\ \E d \in Disturbances :
          LET ticks == CallTicks(Row.fn, Row.need, Row.body, Row.blocks) + d
          IN  /\ raw' = Append(raw, Elapsed(ticks))
              /\ Advance(ticks)
    /\ Called(Row.fn, Row.need)
    /\ pc' = IF Row.subtract THEN "baseline" ELSE "raw"
    /\ UNCHANGED <<k, baseline, copied, m>>

\* Both halves of a sample in one interval: the baseline is timed from the
\* first read of the counter, before the kernel.
SampleBaselineFromStart ==
    /\ pc = "baseline"
    /\ \E d \in Disturbances :
          LET ticks == CallTicks(EmptyFn, 0, 0, Row.blocks) + d
          IN  /\ baseline' = Append(baseline,
                                    (Elapsed(ticks) + raw[Len(raw)]) % Wrap)
              /\ Advance(ticks)
    /\ Called(EmptyFn, 0)
    /\ pc' = "raw"
    /\ UNCHANGED <<k, raw, copied, m>>

-----------------------------------------------------------------------------
(* measure_kernel *)

Part(r) == IF Rows[r].thread THEN "create" ELSE "alloc"

NoRow == [ops |-> 0, raw |-> 0, baseline |-> 0, corrected |-> 0]

Init ==
    /\ pc = Part(1)
    /\ k = 1
    /\ clock \in BootTicks
    /\ memBytes = 0
    /\ warm = {}
    /\ raw = <<>>
    /\ baseline = <<>>
    /\ copied = <<TRUE, TRUE>>
    /\ m = NoRow

Exit ==
    /\ pc' = "exit"
    /\ UNCHANGED <<k, clock, memBytes, warm, raw, baseline, copied, m>>

\* pthread_create; the thread asks for its QoS class, and whether it gets it
\* does not matter.
Create ==
    /\ pc = "create"
    /\ pc' = "alloc"
    /\ UNCHANGED <<k, clock, memBytes, warm, raw, baseline, copied, m>>

CreateFails == pc = "create" /\ Exit

\* calloc of the sample buffers.
Alloc ==
    /\ pc = "alloc"
    /\ raw' = <<>>
    /\ baseline' = <<>>
    /\ pc' = "warm"
    /\ UNCHANGED <<k, clock, memBytes, warm, copied, m>>

AllocFails == pc = "alloc" /\ Exit

\* The untimed call that pays for cold code and for the shared buffer.
WarmUp ==
    /\ pc = "warm"
    /\ Advance(CallTicks(Row.fn, Row.need, Row.body, WarmBlocks))
    /\ Called(Row.fn, Row.need)
    /\ pc' = "raw"
    /\ UNCHANGED <<k, raw, baseline, copied, m>>

\* posix_memalign fails inside ensure_memory, inside a kernel.
GrowFails ==
    /\ \/ pc = "warm"
       \/ pc = "raw" /\ Len(raw) < Samples
    /\ Row.need > memBytes
    /\ Exit

SampleRaw ==
    /\ pc = "raw"
    /\ Len(raw) < Samples
    /\ \E d \in Disturbances :
          LET ticks == CallTicks(Row.fn, Row.need, Row.body, Row.blocks) + d
          IN  /\ raw' = Append(raw, Elapsed(ticks))
              /\ Advance(ticks)
    /\ Called(Row.fn, Row.need)
    /\ pc' = IF Row.subtract THEN "baseline" ELSE "raw"
    /\ UNCHANGED <<k, baseline, copied, m>>

SampleBaseline ==
    /\ pc = "baseline"
    /\ \E d \in Disturbances :
          LET ticks == CallTicks(EmptyFn, 0, 0, Row.blocks) + d
          IN  /\ baseline' = Append(baseline, Elapsed(ticks))
              /\ Advance(ticks)
    /\ Called(EmptyFn, 0)
    /\ pc' = "raw"
    /\ UNCHANGED <<k, raw, copied, m>>

\* Without subtraction the baseline buffer still holds calloc's zeros.
BaselineBuffer ==
    IF Row.subtract THEN baseline ELSE [j \in 1 .. Samples |-> 0]

\* What the time of an operation is computed from.
Corrected(r, b) ==
    IF Row.harness = "deep"
    THEN probe_corrected_ticks(r, IF Row.subtract THEN b ELSE 0)
    ELSE r

\* Summarise and return.  Each of the two mallocs of probe_stats_from may fail,
\* and nobody is told.
Summarise ==
    /\ pc = "raw"
    /\ Len(raw) = Samples
    /\ \E c \in BOOLEAN \X BOOLEAN :
          LET r == probe_stats_from(raw, c[1]).median
              b == probe_stats_from(BaselineBuffer, c[2]).median
          IN  /\ copied' = c
              /\ m' = [ops       |-> Row.blocks * Row.ops,
                       raw       |-> r,
                       baseline  |-> b,
                       corrected |-> Corrected(r, b)]
    /\ pc' = IF Row.thread THEN "join" ELSE "print"
    /\ UNCHANGED <<k, clock, memBytes, warm, raw, baseline>>

Join ==
    /\ pc = "join"
    /\ pc' = "print"
    /\ UNCHANGED <<k, clock, memBytes, warm, raw, baseline, copied, m>>

JoinFails == pc = "join" /\ Exit

\* print_measurement, and on to the next row.
PrintRow ==
    /\ pc = "print"
    /\ IF k < Len(Rows) THEN k' = k + 1 /\ pc' = Part(k + 1)
                        ELSE k' = k /\ pc' = "done"
    /\ UNCHANGED <<clock, memBytes, warm, raw, baseline, copied, m>>

Next ==
    \/ Create \/ CreateFails
    \/ Alloc \/ AllocFails
    \/ WarmUp \/ GrowFails
    \/ SampleRaw \/ SampleBaseline
    \/ Summarise
    \/ Join \/ JoinFails
    \/ PrintRow

Spec == Init /\ [][Next]_vars

-----------------------------------------------------------------------------
(* Properties *)

\* What the loop of row r takes when nothing disturbs it.
QuietTicks(r) == r.blocks * (LoopTicks + r.body)

\* The measurement is complete.
Returned == pc \in {"join", "print"}

\* Every variable has its type, and no sample buffer overflows.
TypeOK ==
    /\ pc \in {"create", "alloc", "warm", "raw", "baseline", "join", "print",
              "done", "exit"}
    /\ k \in 1 .. Len(Rows)
    /\ clock \in 0 .. (Wrap - 1)
    /\ memBytes \in Nat
    /\ warm \in SUBSET STRING
    /\ raw \in Seq(Nat) /\ Len(raw) <= Samples
    /\ baseline \in Seq(Nat) /\ Len(baseline) <= Samples
    /\ copied \in BOOLEAN \X BOOLEAN
    /\ m \in [ops : Nat, raw : Nat, baseline : Nat, corrected : Nat]

\* No timed call pays for anything but its blocks and the system's
\* disturbances: first calls and the allocation of the shared buffer happen
\* outside the timed interval, and a turn of the counter between the two reads
\* does not show.
SamplesClean ==
    pc \in {"raw", "baseline"} \/ Returned =>
      /\ \A j \in 1 .. Len(raw) :
            \E d \in Disturbances : raw[j] = QuietTicks(Row) + d
      /\ \A j \in 1 .. Len(baseline) :
            \E d \in Disturbances : baseline[j] = Row.blocks * LoopTicks + d

\* Samples the system left alone.
Quiet(s, ticks) == {j \in DOMAIN s : s[j] = ticks}

MostlyQuiet(s, ticks) == 2 * Cardinality(Quiet(s, ticks)) > Len(s)

\* As long as more than half of the samples of each kind were left alone, the
\* row shows exactly what the blocks cost, beyond the loop around them if that
\* is subtracted (one tick if it is nothing): the median ignores the disturbed
\* samples.
RowExact ==
    /\ Returned
    /\ copied = <<TRUE, TRUE>>
    /\ MostlyQuiet(raw, QuietTicks(Row))
    /\ Row.subtract => MostlyQuiet(baseline, Row.blocks * LoopTicks)
    => m.corrected =
         IF ~Row.subtract THEN Corrected(QuietTicks(Row), 0)
         ELSE IF Row.body = 0 THEN 1 ELSE Row.blocks * Row.body

-----------------------------------------------------------------------------
(* The inductive invariant behind the safety properties *)

\* The code about to be timed has run before and finds its memory in place, and
\* so has that of the rows before.
WarmInv ==
    /\ pc \in {"raw", "baseline"} \/ Returned =>
          Row.fn \in warm /\ Row.need <= memBytes
    /\ \A q \in 1 .. (k - 1) : Rows[q].fn \in warm

\* A kernel and its empty loop are sampled in turn, the same number of times.
PairInv ==
    /\ pc = "baseline" =>
          Row.subtract /\ Len(raw) = Len(baseline) + 1
    /\ (pc = "raw" \/ Returned) /\ Row.subtract => Len(raw) = Len(baseline)
    /\ Returned => Len(raw) = Samples

\* The row is computed from the samples that were taken.
RowInv ==
    Returned /\ copied = <<TRUE, TRUE>> =>
      m.corrected =
        Corrected(
          Sorted(raw, Len(raw) \div 2),
          IF Row.subtract THEN Sorted(baseline, Len(baseline) \div 2) ELSE 0)

\* The warm-up finds the buffers calloc returned.
FreshInv == pc = "warm" => raw = <<>> /\ baseline = <<>>

MInv ==
    /\ TypeOK
    /\ FreshInv
    /\ WarmInv
    /\ PairInv
    /\ SamplesClean
    /\ RowInv
=============================================================================
