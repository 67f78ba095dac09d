------------------------------ MODULE GpuTiming ------------------------------
(***************************************************************************)
(* What the timing probes of nvidia_gb200_probe issue to the GPUs and when *)
(* the GPUs do it: run_instruction and run_loop_overhead (ptx_latency.cu), *)
(* time_kernel with its three kernels (hbm_bandwidth.cu) and copy_pair     *)
(* (fabric_smoke.cpp).                                                     *)
(*                                                                         *)
(* The host makes the calls of a script, one after another: its parts are  *)
(* kernels or pairs of GPUs, its rounds what is done to them again and     *)
(* again.  A launch, a memset, a peer copy and an event record only enter  *)
(* the default stream of the current GPU, which takes them in order; a     *)
(* peer copy waits for both GPUs and holds both.  A call of the script is  *)
(* named by its position, <<part, round, step>>, and so is the work it has *)
(* caused.                                                                 *)
(***************************************************************************)
EXTENDS Integers, Sequences, FiniteSets

CONSTANTS
    Gpus,        \* the GPUs selected
    gpu,         \* the one for the probes of a single GPU
    Pairs,       \* the ordered pairs that fabric-smoke can copy between
    kSamples,    \* samples of a kernel in ptx-latency
    Cost,        \* the cycles of a launch of each of its kernels; what
                 \* bench_loop_overhead takes need not be what a loop takes
    Noise,       \* what may come on top of them, differently every time
    kThreads,    \* threads of a block in hbm-bandwidth
    kMaxBlocks,  \* at most so many blocks
    Elements     \* the numbers of float4 elements a buffer may have

Instructions == {"add.s32", "add.u64", "fma.rn.f32"}
Kernels == Instructions \cup {"loop-overhead"}

ASSUME TimingAssumption ==
    /\ Cost \in [Kernels -> Nat]
    /\ Noise \in (SUBSET Nat) \ {{}}
    /\ gpu \in Gpus
    /\ Pairs \in Seq(Gpus \X Gpus)
    /\ \A n \in 1 .. Len(Pairs) : Pairs[n][1] # Pairs[n][2]
    /\ kSamples \in Nat \ {0} /\ kThreads \in Nat \ {0} /\ kMaxBlocks \in Nat \ {0}
    /\ Elements \in (SUBSET (Nat \ {0})) \ {{}}

VARIABLES
    probe,     \* the probe that runs
    elements,  \* of hbm-bandwidth's buffers
    at,        \* the host's position in the script
    thrown,    \* an exception has ended the script there
    current,   \* the current GPU
    queue,     \* the work the GPUs have not finished: its position, its GPUs
    running,   \* the positions whose work is running
    content,   \* per buffer, who has written it
    word,      \* the cycles in d_cycles
    cycles,    \* per kernel of ptx-latency, the samples read back
    event,     \* the state of the two events
    during,    \* the work that ran between the start and the stop event
    partial,   \* the part of it that reached over one of them
    fetched,   \* the last sample read back: by which call, written by which
    timed      \* the last time read: by which call, with during and partial

host == <<current, fetched, cycles, timed>>
device == <<queue, running, content, word>>
clock == <<event, during, partial>>
vars == <<probe, elements, at, thrown, host, device, clock>>

Buffers == {"d_src", "d_dst", "d_partial", "d_cycles", "d_sink"}

\* In the place of a position: of no memory, and of memory nobody has written.
Unallocated == <<>>
Nobody == <<0, 0, 0>>

-----------------------------------------------------------------------------
(* The scripts *)

cudaSetDevice(d) == [call |-> "device", dev |-> d]
cudaMalloc(b) == [call |-> "malloc", buf |-> b]
cudaFree(b) == [call |-> "free", buf |-> b]
cudaEventCreate == [call |-> "create"]
cudaEventDestroy == [call |-> "destroy"]
cudaEventRecord(e) == [call |-> "record", evt |-> e]
cudaEventSynchronize(e) == [call |-> "wait", evt |-> e]
cudaEventElapsedTime == [call |-> "elapsed"]
cudaDeviceSynchronize == [call |-> "sync"]
cudaMemcpy(b, kernel) == [call |-> "fetch", buf |-> b, name |-> kernel]

Work(name, reads, writes, others) ==
    [call |-> "work", name |-> name, reads |-> reads, writes |-> writes,
     others |-> others]

launch(kernel, reads, writes) == Work(kernel, reads, writes, {})
cudaMemset(b) == Work("memset", {}, {b}, {})

\* A slip: the copy in a stream of its own, which no other GPU waits for.
CopyInOwnStream(dst, src, s) == Work("copy", {src}, {dst}, {})

cudaMemcpyPeerAsync(dst, src, s) == Work("copy", {src}, {dst}, {s})

\* A kernel of ptx-latency, and the two buffers it writes.
bench(kernel) == launch(kernel, {}, {"d_cycles", "d_sink"})

\* What one is measured in: the warm-up, the samples, the end.
Rounds(first, sample, last) ==
    [r \in 1 .. (kSamples + 2) |->
       IF r = 1 THEN first ELSE IF r = kSamples + 2 THEN last ELSE sample]

FreeBoth == <<cudaFree("d_sink"), cudaFree("d_cycles")>>

(* Slips the properties must catch; no specification uses them. *)

\* No launch before the samples.
SampleWithoutWarmUp(kernel) ==
    Rounds(<<cudaMalloc("d_cycles"), cudaMalloc("d_sink")>>,
           <<bench(kernel), cudaDeviceSynchronize, cudaMemcpy("d_cycles", kernel)>>,
           FreeBoth)

\* And a sample is read back before its launch.
ReadBeforeLaunch(kernel) ==
    Rounds(<<cudaMalloc("d_cycles"), cudaMalloc("d_sink")>>,
           <<cudaMemcpy("d_cycles", kernel), bench(kernel), cudaDeviceSynchronize>>,
           FreeBoth)

\* The start event is recorded before the warm-up.
StartBeforeWarmUp(work) ==
    << <<cudaEventCreate, cudaEventRecord("start"), work, cudaDeviceSynchronize,
         work, cudaEventRecord("stop"), cudaEventSynchronize("stop"),
         cudaEventElapsedTime, cudaEventDestroy>> >>

\* The stop event is recorded before the launch it should end.
StopBeforeLaunch(work) ==
    << <<cudaEventCreate, work, cudaDeviceSynchronize,
         cudaEventRecord("start"), cudaEventRecord("stop"), work,
         cudaEventSynchronize("stop"), cudaEventElapsedTime, cudaEventDestroy>> >>

(* The probes *)

\* ptx-latency: one kernel; run_loop_overhead is the same.
run_instruction(kernel) ==
    Rounds(<<cudaMalloc("d_cycles"), cudaMalloc("d_sink"), bench(kernel),
             cudaDeviceSynchronize>>,
           <<bench(kernel), cudaDeviceSynchronize, cudaMemcpy("d_cycles", kernel)>>,
           FreeBoth)

run_ptx_latency_probe ==
    << << <<cudaSetDevice(gpu)>> >>,
       run_instruction("loop-overhead"), run_instruction("add.s32"),
       run_instruction("add.u64"), run_instruction("fma.rn.f32") >>

\* hbm-bandwidth: one kernel.
time_kernel(work) ==
    << <<cudaEventCreate, work, cudaDeviceSynchronize,
         cudaEventRecord("start"), work, cudaEventRecord("stop"),
         cudaEventSynchronize("stop"), cudaEventElapsedTime, cudaEventDestroy>> >>

run_hbm_bandwidth_probe ==
    << << <<cudaSetDevice(gpu), cudaMalloc("d_src"), cudaMalloc("d_dst"),
            cudaMalloc("d_partial")>> >>,
       time_kernel(launch("write_kernel", {}, {"d_dst"})),
       time_kernel(launch("copy_kernel", {"d_dst"}, {"d_src"})),
       time_kernel(launch("read_kernel", {"d_src"}, {"d_partial"})),
       << <<cudaFree("d_partial"), cudaFree("d_dst"), cudaFree("d_src")>> >> >>

\* fabric-smoke: one pair, from where it is accessible.
copy_pair(src, dst) ==
    << <<cudaSetDevice(src), cudaMalloc("d_src"), cudaMemset("d_src"),
         cudaSetDevice(dst), cudaMalloc("d_dst"), cudaMemset("d_dst"),
         cudaEventCreate, cudaEventRecord("start"),
         cudaMemcpyPeerAsync("d_dst", "d_src", src), cudaEventRecord("stop"),
         cudaEventSynchronize("stop"), cudaEventElapsedTime, cudaEventDestroy,
         cudaFree("d_dst"), cudaSetDevice(src), cudaFree("d_src")>> >>

run_fabric_smoke_probe ==
    [n \in 1 .. Len(Pairs) |-> copy_pair(Pairs[n][1], Pairs[n][2])]

Probes == {"ptx-latency", "hbm-bandwidth", "fabric-smoke"}

Script == IF probe = "ptx-latency" THEN run_ptx_latency_probe
          ELSE IF probe = "hbm-bandwidth" THEN run_hbm_bandwidth_probe
          ELSE run_fabric_smoke_probe

Positions ==
    UNION {UNION {{<<n, r, s>> : s \in 1 .. Len(Script[n][r])}
                  : r \in 1 .. Len(Script[n])} : n \in 1 .. Len(Script)}

CallAt(j) == Script[j[1]][j[2]][j[3]]

Precedes(i, j) ==
    \/ i[1] < j[1]
    \/ i[1] = j[1] /\ i[2] < j[2]
    \/ i[1] = j[1] /\ i[2] = j[2] /\ i[3] < j[3]

\* The launch or copy that a call at position j is about.
LastWork(j) ==
    CHOOSE i \in {<<j[1], j[2], s>> : s \in 1 .. (j[3] - 1)} :
       /\ CallAt(i).call = "work"
       /\ \A s \in (i[3] + 1) .. (j[3] - 1) : CallAt(<<j[1], j[2], s>>).call # "work"

-----------------------------------------------------------------------------
(* The elements a thread of hbm-bandwidth's grid goes over *)

blocks ==
    LET needed == (elements + kThreads - 1) \div kThreads
    IN  IF needed < kMaxBlocks THEN needed ELSE kMaxBlocks

partial_elements == blocks * kThreads

\* A slip: steps of a block.
VisitedByBlock(tid) == {i \in tid .. (elements - 1) : (i - tid) % kThreads = 0}

\* Thread tid, from its own number on in steps of the grid.
Visited(tid) ==
    {i \in tid .. (elements - 1) : (i - tid) % (blocks * kThreads) = 0}

-----------------------------------------------------------------------------
(* What the report of ptx-latency makes of the samples *)

corrected_cycles(raw, overhead) == IF raw > overhead THEN raw - overhead ELSE 0

\* A slip: every sample is corrected with the first.
FirstOverhead(i) == cycles["loop-overhead"][1]

\* The loop-overhead sample a sample is corrected with.
Overhead(i) ==
    LET o == cycles["loop-overhead"]
    IN  o[((i - 1) % Len(o)) + 1]

Corrected(x) ==
    [i \in DOMAIN cycles[x] |-> corrected_cycles(cycles[x][i], Overhead(i))]

\* std::accumulate
Total(samples) ==
    LET sum[n \in 0 .. Len(samples)] == IF n = 0 THEN 0 ELSE sum[n - 1] + samples[n]
    IN  sum[Len(samples)]

-----------------------------------------------------------------------------
(* The host *)

Init ==
    /\ probe \in Probes /\ elements \in Elements
    /\ at = <<1, 1, 1>> /\ thrown = FALSE /\ current \in Gpus
    /\ queue = {} /\ running = {}
    /\ content = [b \in Buffers |-> Unallocated]
    /\ event = [start |-> "none", stop |-> "none"]
    /\ during = {} /\ partial = {}
    /\ fetched = <<>> /\ timed = <<>>
    /\ word = 0 /\ cycles = [x \in Kernels |-> <<>>]

Ended == at[1] > Len(Script)

\* The call that is next, and the position after it.
Now == CallAt(at)
After ==
    IF at[3] < Len(Script[at[1]][at[2]]) THEN <<at[1], at[2], at[3] + 1>>
    ELSE IF at[2] < Len(Script[at[1]]) THEN <<at[1], at[2] + 1, 1>>
    ELSE <<at[1] + 1, 1, 1>>

Call(c) ==
    /\ ~thrown /\ ~Ended /\ Now.call = c
    /\ at' = After
    /\ UNCHANGED <<probe, elements, thrown>>

SetDevice ==
    /\ Call("device")
    /\ current' = Now.dev
    /\ UNCHANGED <<fetched, cycles, timed, device, clock>>

\* Fresh memory, whatever is in it.
Malloc ==
    /\ Call("malloc")
    /\ content' = [content EXCEPT ![Now.buf] = Nobody]
    /\ UNCHANGED <<queue, running, word, host, clock>>

Free ==
    /\ Call("free")
    /\ content' = [content EXCEPT ![Now.buf] = Unallocated]
    /\ UNCHANGED <<queue, running, word, host, clock>>

\* A launch, a memset or a peer copy, and an event record.
Enqueue(gpus) == queue' = queue \cup {[at |-> at, gpus |-> gpus]}

Issue ==
    /\ Call("work")
    /\ Enqueue({current} \cup Now.others)
    /\ UNCHANGED <<running, content, word, host, clock>>

Record ==
    /\ Call("record")
    /\ Enqueue({current})
    /\ event' = [event EXCEPT ![Now.evt] = "recorded"]
    /\ UNCHANGED <<running, content, word, host, during, partial>>

CreateEvents ==
    /\ Call("create")
    /\ event' = [start |-> "created", stop |-> "created"]
    /\ during' = {} /\ partial' = {}
    /\ UNCHANGED <<host, device>>

DestroyEvents ==
    /\ Call("destroy")
    /\ event' = [start |-> "none", stop |-> "none"]
    /\ UNCHANGED <<host, device, during, partial>>

\* The host waits for the current GPU; for an event, if it has been recorded.
Idle == \A w \in queue : current \notin w.gpus

SyncDevice ==
    /\ Call("sync") /\ Idle
    /\ UNCHANGED <<host, device, clock>>

WaitEvent ==
    /\ Call("wait") /\ event[Now.evt] # "recorded"
    /\ UNCHANGED <<host, device, clock>>

\* It fails, by CallFails, unless both events are over.
Elapsed ==
    /\ Call("elapsed") /\ event = [start |-> "done", stop |-> "done"]
    /\ timed' = <<at, during, partial>>
    /\ UNCHANGED <<current, fetched, cycles, device, clock>>

\* cudaMemcpy to the host goes through the default stream as well.
Fetch ==
    /\ Call("fetch") /\ Idle
    /\ fetched' = <<at, content[Now.buf]>>
    /\ cycles' = [cycles EXCEPT ![Now.name] = Append(@, word)]
    /\ UNCHANGED <<current, timed, device, clock>>

\* A call in CUDA_CHECK fails: the exception ends the script.
CallFails ==
    /\ ~thrown /\ ~Ended
    /\ thrown' = TRUE
    /\ UNCHANGED <<probe, elements, at, host, device, clock>>

-----------------------------------------------------------------------------
(* The GPUs *)

\* Every GPU it needs has come to it.
IsNext(w) ==
    \A v \in queue \ {w} : v.gpus \cap w.gpus # {} => Precedes(w.at, v.at)

Timing == event.start = "done" /\ event.stop # "done"

Begin(w) ==
    /\ IsNext(w) /\ CallAt(w.at).call = "work" /\ w.at \notin running
    /\ running' = running \cup {w.at}
    /\ during' = IF Timing THEN during \cup {w.at} ELSE during
    /\ UNCHANGED <<probe, elements, at, thrown, host, queue, content, word, event,
                   partial>>

Finish(w) ==
    /\ w.at \in running
    /\ running' = running \ {w.at} /\ queue' = queue \ {w}
    /\ content' = [b \in Buffers |-> IF b \in CallAt(w.at).writes THEN w.at
                                                                 ELSE content[b]]
    /\ \/ /\ CallAt(w.at).name \in Kernels
          /\ \E n \in Noise : word' = Cost[CallAt(w.at).name] + n
       \/ CallAt(w.at).name \notin Kernels /\ word' = word
    /\ UNCHANGED <<probe, elements, at, thrown, host, clock>>

\* The GPU comes to an event and stamps it.
Stamp(w) ==
    /\ IsNext(w) /\ CallAt(w.at).call = "record"
    /\ queue' = queue \ {w}
    /\ event' = [event EXCEPT ![CallAt(w.at).evt] = "done"]
    /\ \/ /\ CallAt(w.at).evt = "start"
          /\ during' = running /\ partial' = running
       \/ /\ CallAt(w.at).evt = "stop"
          /\ during' = during /\ partial' = partial \cup running
    /\ UNCHANGED <<probe, elements, at, thrown, host, running, content, word>>

Host ==
    \/ SetDevice \/ Malloc \/ Free
    \/ Issue \/ Record \/ SyncDevice \/ WaitEvent \/ Fetch
    \/ CreateEvents \/ Elapsed \/ DestroyEvents
    \/ CallFails

Device == \E w \in queue : Begin(w) \/ Finish(w) \/ Stamp(w)

Next == Host \/ Device

Spec == Init /\ [][Next]_vars

-----------------------------------------------------------------------------
(* Properties *)

\* Every variable has its type; what is read back has been written by work.
TypeOK ==
    /\ probe \in Probes /\ elements \in Elements
    /\ at \in Positions \/ at = <<Len(Script) + 1, 1, 1>>
    /\ thrown \in BOOLEAN /\ current \in Gpus
    /\ queue \subseteq [at : Positions, gpus : SUBSET Gpus]
    /\ running \subseteq {w.at : w \in queue}
    /\ content \in [Buffers -> Positions \cup {Unallocated, Nobody}]
    /\ event \in [{"start", "stop"} -> {"none", "created", "recorded", "done"}]
    /\ partial \subseteq during /\ during \subseteq Positions
    /\ fetched = <<>> \/ fetched \in Positions \X Positions
    /\ timed = <<>> \/ timed \in Positions \X (SUBSET Positions) \X (SUBSET Positions)
    /\ word \in Nat /\ cycles \in [Kernels -> Seq(Nat)]

\* A time that is read contains the whole of the launch or copy it is about,
\* on whatever GPUs that runs.
TimedWhole == timed # <<>> => LastWork(timed[1]) \in timed[2] \ timed[3]

\* "CUDA events around one warmed-up grid-stride kernel launch": nothing else
\* runs between the events of hbm-bandwidth, and the kernel has run before.
KernelAlone ==
    timed # <<>> /\ probe = "hbm-bandwidth" =>
      LET j == LastWork(timed[1])
      IN  /\ timed[2] = {j}
          /\ \E i \in Positions : Precedes(i, j) /\ CallAt(i) = CallAt(j)

\* "cudaMemcpyPeerAsync timed with destination-device CUDA events": nothing else
\* runs between the events of a pair.
CopyAlone ==
    timed # <<>> /\ probe = "fabric-smoke" => timed[2] = {LastWork(timed[1])}

\* A sample of ptx-latency is what the launch just before it has stored, not
\* what an earlier one has left there, and never that of a kernel's first run.
SamplesFresh ==
    fetched # <<>> =>
      LET j == fetched[2]
      IN  /\ j = LastWork(fetched[1])
          /\ \E i \in Positions : Precedes(i, j) /\ CallAt(i) = CallAt(j)

\* "per-sample loop-overhead subtraction": a corrected sample is the kernel's less
\* that of bench_loop_overhead with the same number, both of this run, cut off at
\* zero; but for the noise of the two, and unless it was cut, it is the
\* difference of what the two kernels cost.  The report's average of them is no
\* less than the difference of its averages, and equal to it exactly if nothing
\* was cut off: noise that is cut on one side only makes it larger.  That the
\* difference of the two kernels is the instructions alone is not said here, as
\* bench_loop_overhead may show less than the loop in the others takes.
CorrectionPaired ==
    probe = "ptx-latency" /\ Ended =>
      \A x \in Instructions :
         LET c == Corrected(x)
             raw == cycles[x]
             over == cycles["loop-overhead"]
             rest == Total(raw) - Total(over)
         IN  /\ Len(c) = kSamples /\ Len(over) = kSamples
             /\ \A i \in 1 .. kSamples :
                   \/ raw[i] < over[i] /\ c[i] = 0
                   \/ /\ c[i] >= 0 /\ c[i] = raw[i] - over[i]
                      /\ \E a, b \in Noise :
                            c[i] = (Cost[x] + a) - (Cost["loop-overhead"] + b)
             /\ Total(c) >= rest
             /\ Total(c) = rest <=> \A i \in 1 .. kSamples : raw[i] >= over[i]

\* Work that runs reads only what has been written, in memory that is still
\* allocated, and no other work on any GPU writes what it reads or writes.
MemoryOrdered ==
    \A j \in running :
       /\ \A b \in CallAt(j).writes : content[b] # Unallocated
       /\ \A b \in CallAt(j).reads : content[b] \notin {Unallocated, Nobody}
       /\ \A l \in running \ {j} :
             CallAt(l).writes \cap (CallAt(j).reads \cup CallAt(j).writes) = {}

\* The grid goes over every element once, whether it has more threads than
\* there are elements or fewer, so that payload_bytes is what a kernel moves.
ElementsOnce ==
    \A i \in 0 .. (elements - 1) :
       Cardinality({tid \in 0 .. (partial_elements - 1) : i \in Visited(tid)}) = 1
=============================================================================
