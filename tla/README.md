# Verification of soc-microarch

TLA+ models of the micro-architecture probes in this repository, TLC runs over
small instances of them, and TLAPS proofs of their main properties for every
value of the constants.

The programs are measuring instruments. What makes them correct is that a row
of output is about what its label says: the right threads did the whole work
between the two reads of the clock, the samples contain nothing but the kernel,
the pointer walk went over the working set it names, the options are those that
were given, the report holds every probe that was asked for. None of that can be
seen in the numbers, and none of it is what the unit tests (formatting,
statistics of a fixed array) look at. The properties here are about that, and
section 5 says where it is not so.

- [1. The system](#1-the-system)
- [2. Models and code](#2-models-and-code)
- [3. Runs](#3-runs)
- [4. Proofs](#4-proofs)
- [5. Where the code disagrees with its documentation](#5-where-the-code-disagrees-with-its-documentation)
- [6. Assumptions](#6-assumptions)
- [7. Not modelled](#7-not-modelled)
- [8. Plan](#8-plan)

## 1. The system

Two independent families of programs.

`src/apple` holds three C programs for Apple silicon, `cpu_probes` (the first
generation), `deep_cpu_probes` and `advanced_cpu_probes`, over a small library,
`probe_helpers.c`. Each runs a fixed list of sections one after another and
prints a table; a failed allocation or thread call prints a message and ends
the process with `exit(2)`. Only the thread-scaling and QoS sections start
threads.

`src/nvidia` holds one C++/CUDA program, `nvidia_gb200_probe`. It runs the
selected probes one after another on one host thread and writes a JSON report;
a failed CUDA call throws, `main` catches, prints and returns 1.

| component | state | operations | interaction and what is hard | correct when |
|---|---|---|---|---|
| thread scaling (`deep_cpu_probes.c:1112-1189`, `advanced_cpu_probes.c:794-874`) | the atomic `start` on main's stack, `ids` and `tasks` on the heap, one thread per worker, `g_sink_u64` | create, sleep, stamp, release, join, stop, print, free; a worker begins, spins, runs its blocks, stores its result | shared memory between main and up to 14 workers; a sleep instead of a barrier; calls failing in the middle; arrays freed and stack slots used again row after row | the time of a row covers exactly its workers' work, nobody touches memory given up, main never waits for ever |
| measurement harness (`deep_cpu_probes.c:247-311`, `advanced_cpu_probes.c:126-155`, `cpu_probes.c:352-380`) | sample buffers, shared buffer `g_mem`/`g_mem_bytes`, the counter | warm-up, sample, baseline sample (deep only), summary, print | cold code and allocation inside a timed call, counter wrap, outliers, failing allocations; three harnesses that differ in the warm-up and the baseline | no sample pays for anything but its blocks; the row shows their cost |
| statistics (`probe_helpers.c`) | none | `probe_stats_from`, `probe_corrected_ticks` | position of the middle; difference of unsigned numbers; a failed allocation | the reported value is the median; the difference does not wrap |
| pointer rings (`deep_cpu_probes.c:714-787`, `999-1050`, `cpu_probes.c:404-454`, `549-580`) | the links in the buffer, the walking pointer | build, warm up, walk | index arithmetic: one slip gives several rings | every walk loads its ring evenly; a sweep goes round it several times |
| memory-level parallelism (`deep_cpu_probes.c:789-850`, `advanced_cpu_probes.c:679-785`) | several rings, a pointer in each | interleaved walks | the loads of a block are shared among the streams: the operations the time is divided by must be those done | every stream covers its ring; the operations are counted |
| random load and store (`advanced_cpu_probes.c:201-223`, `477-575`) | a table of indices and the array it points into | fill, three kernels on the same memory | the table must be a permutation; a row has three samplings of one memory; the accesses are as many for the largest array as for the smallest | a walk loads evenly, and reaches all of an array only with as many accesses as elements |
| command lines (`deep_cpu_probes.c:50-107`, `advanced_cpu_probes.c:52-98`, `cpu_probes.c:50-101`, `cli.cpp`) | the options | one argument, or an option with its value, at a time; the checks and roundings after | numeric edges; options that overwrite each other; a forgotten value | the last word on each option counts, and what is accepted leaves no section without work (two kinds of values do) |
| run of the GPU probe (`main.cpp`, `cuda_util.hpp`) | the JSON tree, `warnings`, the output file; of the CUDA runtime, the last error and the enabled peer accesses | select, run, collect, write | the runtime's state is shared by probes that do not know each other | a report is complete or there is none |
| env probe, device census (`env_probe.cpp`) | peer matrix, warnings | query each pair, describe each device | failures that are tolerated | a refused query can be told from a refused access |
| fabric-smoke (`fabric_smoke.cpp`) | result list, enabled accesses, a stream per device | query, enable both ways, copy with events | asynchronous device work, both directions of a pair | a pair is copied with access, and timed alone |
| ptx-latency, hbm-bandwidth (`ptx_latency.cu`, `hbm_bandwidth.cu`) | device buffers, samples, events | launch, check, wait, read back | the host runs ahead of the device; the launch check reads an error that belongs to everyone | a time is of the launch named, warmed up and alone |
| mem-chase (`mem_chase.cu`) | the ring in a device buffer | link, copy, walk twice | index arithmetic for any size; a fixed number of loads | one ring, a warm walk, working set of the size named |
| QoS probes (`deep_cpu_probes.c:1070-1110`, `cpu_probes.c:496-539`) | one thread at a time | create, measure, join | main waits at once; a call may fail | as the harness |
| streams, branches, return stack, fan-out (`advanced_cpu_probes.c`) | arrays | straight loops | none | as the harness |
| first-generation probe (`cpu_probes.c`) | as the deep probe | as the deep probe | no power-of-two check | as the deep probe |
| JSON tree, host census, build | none to speak of | pure code, I/O | nothing a model would show | out of the models |

`PROJECT.json` lists the components with the modules that model them, the
hazards at the line where each bites, and the properties that watch them.

## 2. Models and code

### ThreadScaling, implementing TimedForkJoin

`TimedForkJoin` is what a row promises, without threads or memory: for each
entry of `Counts` a clock is started, each worker does its share while it runs,
it is stopped when all are done, one row is published; the program may abort at
any time. `ThreadScaling` is the code: `pc` is main's place in
`run_thread_scaling`, `worker[w]` a worker's place in `scale_main`, and every
call that can fail has an action in which it does (`AllocFails`, `CreateFails`,
`JoinFails`, `VariantFails`). The array `tasks` and the gate `start` are shared.
`window` is TRUE between the reads of the counter, and each block of work is
booked as `inside` or `outside` of it, which is how the model can say whether a
time belongs to the work it is printed with. `sleep_for_ns` is a step that
establishes nothing: a worker may be scheduled for the first time at any moment
after it is created. With `HeapVariant = FALSE` the module is
`run_sustained_thread_scaling`, where the label needs no allocation; its rows
are the thread counts, once for each QoS class.

The refinement maps `release`, `join` and `stop` to "timing", and the workers
that have not returned to `todo`.

### Measurement, over ProbeStats

The three `measure_kernel`, called for one row after another, with
`ensure_memory`, the counter, `probe_stats_from` and `probe_corrected_ticks`.
`harness` says whose it is: the deep one can time an empty loop beside the
kernel and subtract it, the plain ones of the advanced and the first program
cannot; the advanced one warms up with a sixteenth of the iterations where the
others take an eighth. A row with `thread` is one of the QoS sections: main
creates a thread for it and joins it, and either call may fail.

A call of a kernel with n blocks takes a fixed time per block, `ColdTicks` more
the first time its code runs, `GrowTicks` more when it has to allocate the
shared buffer, and a disturbance chosen from `Disturbances`. The counter has
`Wrap` values. A timed call and the two reads around it are one action: the
program is sequential there, and what other programs do to it is the
disturbance. `ProbeStats` states the value at an index of the sorted copy as an
order statistic instead of sorting. That the empty loop has run before it is
subtracted is not the doing of `measure_kernel` but of `run_hygiene`, which
measures it first; `EmptyLoopAssumption` says so of `Rows`.

### PointerRing

Everything that walks a permutation of a buffer's slots, one link and one load
per step: the sweeps (`run_cache_tlb`, `run_cache_sweep` with the
`make_pointer_ring` of the deep and the first program), the parallel chases of
both programs ("mlp", `measure_mlp`; "kernel", `run_mlp_scaling` through the
advanced harness), and the random accesses ("random": `fill_permutation` and
the three kernels over its table, one `pass` each). A pointer is the index of
its slot; `loads` counts what the current walk has read from each slot of each
ring, `seen` what has been loaded since the memory was set, `taken` the loads of
the timed walks. How many loads a walk has (`Steps`) is the code's: a sweep makes
as many as `Turns` rounds need, the parallel chases what the table says, the random
accesses those of `--iters` whatever the size. So the random rows are modelled with
fewer accesses than elements too, which the largest ones of the program have, and
`EvenWalks` says how much of its memory such a row is about: as many elements as it
has accesses.

### CommandLine

`parse_options` of the four programs, one option per step, with the checks at
the end of `cli.cpp`, the roundings of the Apple programs and the defaults the
probes put in the place of an option that was not given. An argument is a word
and the numbers its comma-separated pieces spell, so that a text is neither
built nor taken apart; `NoNumber` stands for a piece that spells none. Numbers
keep their width: `Word` is the number of values of a `uint64_t`, and a negative
argument of the Apple programs is what `strtoull` makes of it. `Shares` are the
counts the sections of the Apple programs make of the one that was given, with the
multiplication by four of the scaling rows in 64 bits (`TimesFour`); `Elements` is
the element count mem-chase makes of a size, in 32 bits (`Word32`). `OptionNames` are
the texts the four programs compare with; `NamesAssumption` says that none of
them spells a number, which `argv` cannot help. `-h` is the same
as `--help`; blanks and plus signs before a number are left out.

### GpuProbeRun, implementing ProbeReport

`ProbeReport` is what a run promises the reader of its report, without loops,
runtime and exceptions: one action per section. A section is made whole, when
just those before it that were asked for are made: of env a table over all GPUs
in which each GPU reaches itself and every entry that is a guess has a warning;
of fabric-smoke an outcome for every two places of the list that name different
GPUs, with a warning when there are fewer than two places. The run may give up
at any moment, and then there is no report and nothing of it. `GpuProbeRun` maps
to it what main has been given back (`Kept`): a probe that is under way, and the
warnings it has put into the common list so far, are not seen.

`GpuProbeRun` is the code, one run of `nvidia_gb200_probe`: `stage` is the probe, `todo` what its loop has
still to do. `lastError` is the error the CUDA runtime keeps until somebody
calls `cudaGetLastError`, `peers` the accesses enabled so far. Calls inside
`CUDA_CHECK` throw (`CallFails`); the unwrapped ones have actions of their own
that say what becomes of the error: kept (`QueryPairFails`, `AccessQueryFails`,
`EnableFails`), or taken (`DescribeUnknown`, the "already enabled" case of
`Copy`). Of the three kernel probes the module has what they share, the check
of the GPU id and the check after each launch.

### GpuTiming

What ptx-latency, hbm-bandwidth and fabric-smoke issue to the GPUs. Each probe is
a script, the calls of its functions in their order, under the names the source
has (`run_instruction`, `time_kernel`, `copy_pair`, ...); the host makes one call
per step. A script is a table of parts (kernels, or pairs of GPUs) of rounds (the
warm-up, the samples, the end) of calls, so that a call has the position
`<<part, round, step>>`; the work it leaves to a GPU goes by the same name. The CUDA runtime is external and modelled as its documentation promises
it: a launch, a memset, a peer copy or an event record enters the default stream
of the current GPU and returns; a stream is worked off in order, concurrently
with the host and the other GPUs; a peer copy in the default stream waits for
both GPUs and holds both; `cudaMemcpy` to the host waits for the stream. Work
takes two steps, so that other things can happen while it runs. `content` says
for each buffer which call's work has written it, `during` and `partial` what ran
between the two events. Each launch of a ptx-latency kernel costs its `Cost` and
some noise; the samples are read back, corrected one by one with the
loop-overhead sample of their index and added up, as the report does. The costs
are unrelated: nothing says that `bench_loop_overhead` takes what a loop in the
other kernels takes, and what is measured says it does not (section 5). That a
kernel covers its buffer, so that one writer per buffer is enough, is
`ElementsOnce`.

### MemChase

`run_size` of `mem_chase.cu`, working set after working set: `coprime_stride`,
the links in words of 32 bits (`Word`), two launches of a walk with one load per
step, every call that can throw. `loaded` and `warm` are the elements the current
launch and the one before it have loaded.

### Proof modules

`ThreadScalingProofs`, `MeasurementProofs` (with what it needs of ProbeStats),
`PointerRingProofs`, `CommandLineProofs`, `GpuProbeRunProofs`, `MemChaseProofs`
and `GpuTimingProofs`, over the library `IntegerFacts`. `MC*` modules give the
constants for TLC.

## 3. Runs

| run | instance | what it shows |
|---|---|---|
| `thread_scaling` | rows of 1, 4 and 2 workers, 2 blocks each; 3,330 states | type correctness, `NoUseAfterFree`, `RowsHonest`, `WorkOnlyInWindow`, `EveryResultSunk`, the inductive invariant `IInv`, the `Refinement` of TimedForkJoin and `Termination` |
| `measurement` | 5 rows: of the deep harness the empty loop, a kernel that needs the buffer and, on a thread, one with an empty body; one of the advanced harness; one of the first, on a thread. 4 samples, a counter of 64 values started at 0 or 60; 326,828 states | `SamplesClean`, `RowExact`, `MInv` |
| `pointer_ring` | 8 rows: sweeps over 64 and 4 nodes, parallel chases of 2 and 4 and of 8 and 1 streams over 8 nodes, 20 random accesses over 32 elements and 40 over 16; 3,228 states | `EvenWalks`, `OnlyFirstCold`, `OpsCounted`, `RingClosed`, `RInv` |
| `ring_sequential` | rings of 16 and 32 nodes | `NotSequential` is violated (finding 1) |
| `command_lines` | every line of up to 5 arguments (deep) or 4 (the others) over 11 and 19 arguments; 800,336 states | `OptionsFit`, `LastWins`, `NothingSwallowed` |
| `gpu_run` | 3 GPUs, 12 command lines; 642,387 states | `ReportComplete`, `StaleOnlyFromEnv`, `CopiedWithAccess`, the inductive invariant `RunInv` and the `Refinement` of ProbeReport |
| `gpu_stale_error` | 2 GPUs | `QueryFailureTolerated` is violated (finding 2) |
| `gpu_cut_report` | 2 GPUs | `WroteMeansWritten` is violated (finding 3) |
| `gpu_timing` | 3 probes, 2 GPUs, 2 samples per kernel, grids of up to 2 blocks of 2 threads over 1 to 14 elements, launches of 1 to 6 cycles with a noise of 0 or 2; 46,908 states | `TimedWhole`, `KernelAlone`, `SamplesFresh`, `CorrectionPaired`, `MemoryOrdered`, `ElementsOnce` |
| `gpu_copy_alone` | the same | `CopyAlone` is violated (finding 5) |
| `mem_chase` | working sets of 1, 2, 3, 6, 9, 10 and 20 elements, 13 loads; 428 states | `OneRing`, `TimedIsWarm`, `RowsCover`, `ChaseInv` |
| `mem_footprint` | working sets of 8 and 20 elements, 13 loads | `WholeWorkingSet` is violated (finding 4) |

Why the bounds are enough:

- `thread_scaling`: row counts that grow and then shrink, so that a slot is used
  again after a row in which it was idle and a wide row leaves threads that a
  narrow one must not see; two blocks, so that a worker can be between them when
  main moves. The blocks of different workers do not interact.
- `measurement`: eight blocks is the least the options allow; four samples have
  an upper middle (index 2) and leave room for one disturbed sample but not for
  two; a counter of 64 values wraps inside samples, inside baselines and inside
  the warm-up; the second row grows the buffer, the third has a body that costs
  nothing and is the first to run on a thread; rows with and without a baseline
  follow each other, so that what one leaves in the buffers meets the next.
- `pointer_ring`: the count asked for lies above 16 turns of the smaller sweep
  and below those of the larger, so both branches of the step count are taken;
  the warm-up is longer than a turn of the small rings and shorter than one of
  the largest; the parallel chases have counts that are no multiple of their
  nodes; random accesses are once fewer than the elements and once more. All
  walks run to their ends. `CodeRowAssumption` has TLC check that the real
  tables, too large to walk, meet what the module assumes, `ParallelAssumption`
  that the step counts of the parallel chases are multiples of four and no shorter
  than their rings, and `ShortRowsAssumption` which of the random rows have fewer
  accesses than elements.
- `command_lines`: four arguments are two options with their values, or one
  option given twice; the fifth lets `--smoke` stand before, between and behind
  them. The numbers are negative, zero, below and above a block of eight, and
  beyond the limit of the samples; one of the counts is a quarter of a word, and one
  list of sizes has one without an element and one with as many as 32 bits show as
  none. `Word` is cut to 2^30 and `Word32` to 2^27, above everything the programs
  compare with or put in the place of an option.
- `gpu_run`: three GPUs, so that two pairs can succeed and a third fail in both
  directions; ids up to the first that does not exist; a list with a repeated
  GPU, with one GPU, and in descending order.
- `gpu_timing`: a pair of GPUs is all a copy involves, and both directions are
  run, so that the second copy follows the first on the same streams; the second
  sample of a kernel is the first with an older value in its buffer; one
  kernel that takes less than `bench_loop_overhead`, so that corrections are cut off
  at zero, one that takes more by less than the noise, so that some are, and one
  where none is; element counts below, at and above the 4 threads of the
  largest grid.
- `mem_chase`: odd counts, even ones whose first candidate stride is coprime and
  ones (6, 10) where the search goes on, the smallest ones where the stride is 1,
  one with more elements than loads; the largest index plus stride just fits.

Deadlock is not checked: each of the programs ends.

**Fairness** is used in the run `thread_scaling` only, for `Termination`: weak
fairness of `Proceed`, main's steps that succeed, and of each worker. It says that the
operating system keeps running both. The failing calls have no fairness, so
that main cannot be rescued from waiting by a `pthread_join` that happens to
fail. Nothing in the code is stronger than that: the spin has no timeout and
needs none, since the gate, once open, stays open until the row is joined.

Each property has a mutant, an operator under "Slips the properties must catch"
in its module, that shows a plausible mistake breaking it: a gate initialised
once instead of per row, a join loop one short, a skipped warm-up, an index past
the middle, a link to the next slot instead of the next node, every stream doing
all the loads of a block, an option that steps over its neighbour, a probe order
that puts the fabric first.

## 4. Proofs

All by TLAPS, for every value of the constants that meets the named assumptions,
and each along the same argument: Init implies the invariant, every action
preserves it, and it implies the property.

**ThreadScaling** (`CountsAssumption`, `BlocksAssumption`, `VariantAssumption`):
any sequence of thread counts, any number of blocks. None of the safety
properties is inductive: that `Free` finds no running thread depends on the join
loop having met all of them, that `RowsHonest` holds when a row is printed on
what each returned worker has executed. `IInv` adds where the workers can be at
each place of main (`WorkerInv`), what each has done there (`WorkInv`), what main
holds there (`MainInv`) and how rows and sink follow the loops (`RowInv`).
Theorems `Invariance`, `TypeCorrect`, `MemorySafe`, `HonestRows`, `GateHolds`,
`ResultsSunk`, and `Implements`, the refinement of TimedForkJoin.

**ProbeStats** (in MeasurementProofs): `MajorityMedian`, the value that more than
half of the samples have is the median whatever the rest are. It rests on
counting with finite sets and on the existence of a least element of a set of
naturals (`IntegerFacts`, from the wellfoundedness of the naturals in the form
the provers can use).

**Measurement** (`MeasurementAssumption`, `WrapAssumption`,
`EmptyLoopAssumption`): any rows of the three harnesses, on threads or not.
`MeasurementInvariance`, `MeasurementTypes`, `CleanSamples`, `ExactRows`. `MInv`
adds to the properties that the code and the memory a sample needs were warmed
before it (`WarmInv`), that a kernel and its baseline are sampled in turn
(`PairInv`) and that the row was computed from the samples taken (`RowInv`);
`ExactRows` joins it with `MajorityMedian`.

**PointerRing** (`RowAssumption`, `MaskAssumption`, `StreamAssumption`): any rows
of the four kinds. `RingInvariance`, `RingTypes`, `RingIsClosed`, `WalksAreEven`,
`FirstSampleColdest`, `OperationsCounted`. The invariant `RInv` gives the links,
the place of a walk and the number of loads of every slot in closed form; the
properties follow from multiplication with an invertible factor being a
permutation of the residues. `WalksAreEven` counts the slots a walk has reached
along the walk (`VisitsSome`); it claims the whole ring only for walks that are long
enough, which `Turns` makes those of the sweeps. For `OperationsCounted` the loads of a walk are a set,
each with its ring, slot and number, which a step makes larger by one for each ring
(`CountInv`); sums over the slots would need an induction.
`IntegerFacts` holds the facts about `%` and `\div` this needs. The tables of the
code meet `MaskAssumption` because they hold powers of two and their factors are
odd.

**CommandLine** (`CommandLineAssumption`, `NamesAssumption`): any alphabet of
arguments, any length of line and any width of a word above the limits. `LineTypes`
and `FittingOptions`, from a type invariant that says what each option can hold
while the line is read, and, for the two kinds of values that leave a section
without work, from what a remainder of zero says about them (`TimesFourType`,
`ElementsType`); `TheLastWins` and `NoOptionSwallowed` from a second one,
`Meaning`. It says of every option that it has the value the last word on it gives
among the arguments behind the loop, or its default, and of every option name
behind the loop that was skipped as a value that a text was asked for there. Which
arguments are options at all is a recursive function over the line, which exists
because a shortest line without one would have one after all (`OptionRecursion`);
that the loop stands on an option whenever it is not past the end is part of the
invariant, so that a step unfolds the recursion once.

**MemChase** (`SizesAssumption`): any working sets of whole elements whose indices
fit a word, any number of loads. `ChaseInvariance`, `SingleRing`, `WarmRow`,
`RowsWhole`. `Bezout` shows that coprime numbers have a combination that is 1 (the
least positive one divides both), `Invertible` that a coprime stride therefore
has an inverse modulo the element count, and with it a walk comes to every
element (`OnRing`) and back to the first only after whole turns (`BackAtFirst`).
`StrideFacts` shows that the search of `coprime_stride` ends. `ChaseInv` gives the
links, the place of the walk and the elements loaded in closed form.

**GpuProbeRun** (`RequestAssumption`): any number of GPUs, any set of command
lines: `RunInvariance`, `RunTypes`, `StaleErrors`, `FailuresWarned`,
`CopiesHadAccess`, `CompleteReport`, and `RunIsReport`, the refinement of
ProbeReport. `RunInv` has four parts. `GInv` says where errors come from: a
kernel probe finds an error of another call only after an env probe with a
failed query, and a failed query has its warning. `ProgressInv` says how far the
report is: each list in it answers exactly the elements that the loop of its
stage has behind it (`Behind`), in their order, so that a loop with nothing to do
leaves a complete list. `WarnInv` says what the cells and the warnings mean: the
refused queries are cells that say no, and beside them only the lack of GPUs is
warned of, once fabric-smoke has begun. `CheckedInv` says that a probe at work has
had its GPU ids checked.

The refinement needs all of them. Its steps are the ends of the stages, the
exceptions and the write; every other step is a stutter (`Unseen`), because what
it changes belongs to a stage whose result main does not have yet. At the end of
env the table is read cell by cell: row `a`, column `b` is element `a * n + b + 1`
of the loop over all pairs (`GridCells`, from the uniqueness of quotient and
remainder), and `MatrixInv` says that this cell is about just these two GPUs. At
the end of fabric-smoke the outcome of two places is the one whose number is the
count of cells for different GPUs up to theirs (`Apart`, `ApartFacts`).

**GpuTiming** (`TimingAssumption`): any number of GPUs, pairs and samples, any
costs and noise. `EachElementOnce`, that the threads of hbm-bandwidth's grid go over
every element of a buffer once, whatever the block size, the limit of blocks and
the buffer; with it one writer per buffer is enough in the model. The other
theorems, `TimingTypes`, `TimedWorkIsWhole`, `KernelTimedAlone`,
`SamplesAreFresh`, `MemoryIsOrdered` and `CorrectionsArePaired`, rest on the inductive
invariant `TimingInv` (`TimingInvariant`). None of them is inductive: what is between
two events when a time is read depends on what was still queued when they were
recorded, and the queue on the waits before that. `TimingInv` ties the queue to the
host's position: all work left was issued in the round the host is in, by calls
before its own (`OfThisRound`); what has left a stream left it in order
(`InOrder`); and behind a wait nothing is left of what was waited for (`Waited`).
That the work of a round is over when the next begins is where the waits of the
source earn their place. On that stand the states of the events (`Events`), the work
that ran between them (`Between`, `Read`), which buffers are allocated and written
at each place (`Memory`), and what is in `d_cycles` and in the samples (`Fresh`,
`Fetched`, `Samples`). The lemmas before it (`Parts`, `Shape`, `Kinds`, `Accesses`)
say what call is at which position, so that no step of the proof looks into a
script. `CorrectionsArePaired` adds up any number of samples; the sum is a recursive
function, and that sums can be subtracted term by term is shown with the
shortest beginning for which they could not (`PartialSums`, `TotalDifference`). That
cutting at zero makes the sum larger, and larger indeed as soon as one sample is cut,
is `TotalAtLeast`, from `TotalPositive`.

Only model-checked: `Termination`, as liveness under fairness is beyond the prover,
and the five violations, which are counterexamples and need no proof.

## 5. Where the code disagrees with its documentation

1. *A pseudo-random permutation.* `deep_cpu_probes.c:748` puts node i at slot
   `(i * 97) & mask`. 97 is 1 modulo 16 and modulo 32, so the 16-page and 32-page
   rows of the TLB sweep walk page after page in address order, against
   `src/apple/README.md:73`. (131071 is -1 modulo 16384, so the 1 MiB rings of
   `advanced_cpu_probes.c:690` run backwards, and so does the 64 KiB row of the
   random accesses, where 8191 is -1 modulo 8192.)
2. *A warning that ends the run.* `env_probe.cpp:97` turns a failed peer query
   into a warning but leaves its error in the runtime; with `--probe all` the
   check after the first launch (`ptx_latency.cu:109`) takes it for the launch's
   and the run ends with code 1 and no report. `device_attribute`, in the same
   file, takes its errors out.
3. *wrote.* `main.cpp:74` does not look at the stream after the insertion;
   `main.cpp:116` says "wrote" of a report that is cut.
4. *HBM-scale regions.* A launch of mem-chase makes a million dependent loads,
   so it visits a million elements at most, in about 8 MB of addresses, and the
   launch before has visited the same ones. The rows of 32 MiB to 256 MiB are not
   about their size, against `mem_chase.cu:130`; the published table
   (`GB200_v2_benchmark_results.md:70-75`) is flat from 1 MiB on.
5. *Timed copies.* The memset of a pair's source buffer (`fabric_smoke.cpp:59`) is
   asynchronous, and the start event (`fabric_smoke.cpp:70`) is recorded on the
   destination, whose stream does not wait for it; the copy does. The time of the
   copy can contain the rest of the memset, against `fabric_smoke.cpp:140`,
   "cudaMemcpyPeerAsync timed with destination-device CUDA events".

Seen while reading, and not shown by a run:

- If the sorted copy cannot be allocated, `probe_stats_from` returns zeros
  (`probe_helpers.c:83`); the row is printed from them, with exit code 0. In
  Measurement this is `copied`, and `RowExact` speaks of rows whose copies were
  had.
- `probe_helpers.c:11` reads the counter without an instruction barrier.
- `deep_cpu_probes.c:1023` prints the result of `strdup` unchecked.
- *The random rows of 4 MiB and 16 MiB.* `advanced_cpu_probes.c:555` makes
  `--iters` accesses whatever the size: with the defaults 200000 to arrays of 524288
  and 2097152 elements, with `--smoke` 40000 to the 524288 of its largest. The
  published rows carry the size of the array as "Working set"
  (`src/apple/docs/m4-pro-final-bench-probe-report.md:193`). The elements reached
  lie spread over the whole array, and they are as many as the accesses
  (`EvenWalks`), the same ones in every sample. It is what finding 4 says of
  mem-chase, on a smaller scale.
- *The overhead kernel.* The correction of ptx-latency takes off what
  `bench_loop_overhead` takes. On the published machine that is 2 cycles for a million
  iterations, "a limitation of the current overhead kernel rather than proof that
  loop control is free" (`src/nvidia/docs/GB200_v2_benchmark_results.md:45`), so
  that a corrected sample still has the cost of its loop in it.
  `CorrectionPaired` says what is subtracted from what and what becomes of the
  average, for any two costs; it does not say that the difference is the
  instructions alone.
- *A count that wraps.* The scaling rows of the advanced program multiply `--iters`
  with 4 in 64 bits (`advanced_cpu_probes.c:832`). The accepted argument 2^62, or a
  multiple of it, gives zero: no block of work, and a time divided by no operations.
  The sections before it would have to go through 2^62 iterations first, but nothing
  refuses the number. `OptionsFit` states just this exception.
- *Sizes without an element.* `--mem-sizes` takes 1, 2 and 3, and 16 GiB and a bit,
  of which `mem_chase.cu:41` makes no elements: the exception of `OptionsFit` for the
  GPU program. It also takes sizes that are no multiple of 4.
- `--blocks -1` is accepted as nearly 2^64 blocks (`deep_cpu_probes.c:58`), and
  `--mode --gpu --mode smoke` as a mode that is replaced: `NothingSwallowed`
  says exactly which forgotten values go unnoticed.
- The branch row "all_taken" (`advanced_cpu_probes.c:273`) fills its pattern with
  1 and the kernel branches on 0, so that its conditional branch is never taken.
- `json.cpp` prints a double that is not finite as `inf` or `nan`, which no JSON
  parser takes.

## 6. Assumptions

- The counter is read in program order. There is no instruction barrier around
  `mrs` (`probe_helpers.c:11`), so a read may move by some nanoseconds; this is
  below the grain of the models.
- The acquire load and release store of the gate, thread creation and join order
  memory as C11 and POSIX say, so that the threads interleave atomic steps.
- After `exit(2)` no thread of the process does anything that is observed.
- No call but `cudaGetLastError` returns an error left behind by an earlier one,
  and every CUDA call returns. Sticky errors (a context lost) make all later
  calls fail, which `CallFails` includes.
- `cudaMalloc` and `cudaFree` are not counted on to wait for the device: nothing
  promises that they do. The default streams are the legacy ones, as the build
  asks for no others.
- The sizes of mem-chase are multiples of 4 bytes and below about 11 GiB. The
  command line accepts others, and then the copy reads past the vector, or the
  links wrap; this is a hazard in `PROJECT.json` and outside `SizesAssumption`.
- `std::bad_alloc` on the host is not modelled on the NVIDIA side. It would be
  caught like the other exceptions.
- `pthread_set_qos_class_self_np` is a hint; the code ignores its result.
- The step counts of the parallel chases are multiples of four (`StreamAssumption`),
  as the two in the code are.
- Products of counts (`ops`, operations per block times blocks, the step counts) do
  not reach 2^64. The options do not see to that, as they take any count up to
  2^64 - 1; only `TimesFour` is modelled in its width, because it can leave nothing.

## 7. Not modelled

- Floating-point statistics (mean, deviation) and unit conversions: no decision
  reads them.
- What the kernels compute: the compiler is kept from removing them, and that is
  all their results are for. The stream, branch, return-stack and fan-out kernels
  of the advanced program keep no state, so that only the harness around them and
  the counts they are given are modelled.
- The JSON tree and its printing: a value tree without failure paths beyond
  allocation; what is put into the report is in GpuProbeRun.
- The host and timer census: system calls printed as they come.
- Text formatting, build files, the unit tests, the script that lists the SASS.
- Of the GPU probes, byte counts and rates, and the cycles of a load.

The hazards in these parts are listed in `PROJECT.json` with the reason no
property covers them.

## 8. Plan

Written first, as the heart of the measurements: ThreadScaling with its abstract
specification, Measurement with ProbeStats, PointerRing, GpuProbeRun, MemChase
and GpuTiming. Then the other programs of the Apple family: the three harnesses
and the QoS threads in Measurement, parallel chases and random accesses in
PointerRing, the command lines; the proofs of every safety invariant the runs
check; and the abstract report with GpuProbeRun as its refinement. Left: the
printing of the JSON tree, with its nesting, commas and escapes.
