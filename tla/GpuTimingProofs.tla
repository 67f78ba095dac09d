---------------------------- MODULE GpuTimingProofs ----------------------------
(***************************************************************************)
(* Proofs about GpuTiming.  The threads of hbm-bandwidth's grid share the  *)
(* elements, for any block size, any limit of blocks and any buffers.  And *)
(* an inductive invariant ties what the GPUs still have to do to the       *)
(* host's position in the script: from it follow what is timed, what is    *)
(* sampled, that memory is ordered and that the correction is sound, for   *)
(* any number of GPUs, pairs and samples.                                  *)
(***************************************************************************)
EXTENDS GpuTiming, IntegerFacts, FiniteSetTheorems

\* The launch has at least one thread, and no more blocks than the limit.
LEMMA GridSize ==
    ASSUME elements \in Nat \ {0}
    PROVE  blocks \in 1 .. kMaxBlocks /\ partial_elements \in Nat \ {0}
<1>1. kThreads \in Nat \ {0} /\ kMaxBlocks \in Nat \ {0}
  BY TimingAssumption
<1> DEFINE x == elements + kThreads - 1
           needed == x \div kThreads
<1>2. x \in Int /\ x >= kThreads
  BY <1>1
<1>3. needed \in Int /\ x % kThreads \in 0 .. (kThreads - 1)
      /\ x = kThreads * needed + (x % kThreads)
  BY <1>1, <1>2, DivMod
<1>4. needed >= 1
  <2> HIDE DEF x, needed
  <2> SUFFICES ASSUME needed <= 0 PROVE FALSE
    BY <1>3
  <2>1. kThreads * needed <= kThreads * 0
    BY <1>1, <1>3, Monotone
  <2> QED BY <1>1, <1>2, <1>3, <2>1
<1>5. blocks \in 1 .. kMaxBlocks
  <2>1. blocks = IF needed < kMaxBlocks THEN needed ELSE kMaxBlocks
    BY DEF blocks
  <2> HIDE DEF needed, x
  <2> QED BY <1>1, <1>3, <1>4, <2>1
<1>6. partial_elements \in Nat \ {0}
  <2>1. 1 <= blocks /\ blocks \in Int
    BY <1>1, <1>5
  <2>2. kThreads * 1 <= kThreads * blocks
    BY <1>1, <2>1, Monotone
  <2>3. partial_elements = kThreads * blocks /\ partial_elements \in Int
    BY <1>1, <2>1 DEF partial_elements
  <2> QED BY <1>1, <2>2, <2>3
<1> QED BY <1>5, <1>6

\* Of all threads of a grid of N, only the one with the element's number modulo
\* N comes to the element.
LEMMA OneThread ==
    ASSUME NEW N \in Nat \ {0}, NEW i \in Nat
    PROVE  \A tid \in 0 .. (N - 1) :
              tid <= i /\ (i - tid) % N = 0 <=> tid = i % N
<1>1. i % N \in 0 .. (N - 1) /\ i \div N \in Int /\ i = N * (i \div N) + (i % N)
  BY DivMod
<1>2. ASSUME NEW tid \in 0 .. (N - 1), tid <= i, (i - tid) % N = 0
      PROVE  tid = i % N
  <2> DEFINE q == (i - tid) \div N
  <2>1. q \in Int /\ i - tid = N * q + ((i - tid) % N)
    BY DivMod
  <2> HIDE DEF q
  <2>2. i = N * q + tid
    BY <1>2, <2>1
  <2> QED BY <2>1, <2>2, ModUnique
<1>3. i % N <= i /\ (i - (i % N)) % N = 0
  <2> DEFINE q == i \div N
             r == i % N
  <2>1. i - r = N * q + 0
    BY <1>1
  <2>2. 0 \in 0 .. (N - 1) /\ q \in Int
    BY <1>1
  <2>3. (i - r) % N = 0
    BY <2>1, <2>2, ModUnique
  <2>4. r <= i
    <3>1. q >= 0
      <4> SUFFICES ASSUME q <= -1 PROVE FALSE
        BY <2>2
      <4>1. N * q <= N * (-1)
        BY <2>2, Monotone
      <4>2. r < N /\ i = N * q + r /\ r \in Int
        BY <1>1
      <4> HIDE DEF q, r
      <4> QED BY <2>2, <4>1, <4>2
    <3>2. N * 0 <= N * q
      BY <2>2, <3>1, Monotone
    <3>3. i = N * q + r /\ r \in Int
      BY <1>1
    <3> HIDE DEF q, r
    <3> QED BY <2>2, <3>2, <3>3
  <2> QED BY <2>3, <2>4
<1>4. \A tid \in 0 .. (N - 1) : tid = i % N => tid <= i /\ (i - tid) % N = 0
  BY <1>3
<1> QED BY <1>2, <1>4

\* A run keeps the buffers it began with.
LEMMA SameElements == Spec => [](elements \in Elements)
<1>1. Init => elements \in Elements
  BY DEF Init
<1>2. elements \in Elements /\ [Next]_vars => (elements \in Elements)'
  <2> SUFFICES ASSUME elements \in Elements, [Next]_vars
               PROVE  elements' = elements
    OBVIOUS
  <2>1. CASE Host
    BY <2>1 DEF Host, Call, SetDevice, Malloc, Free, Issue, Record, SyncDevice,
                WaitEvent, Fetch, CreateEvents, Elapsed, DestroyEvents, CallFails
  <2>2. CASE Device
    BY <2>2 DEF Device, Begin, Finish, Stamp
  <2>3. CASE UNCHANGED vars
    BY <2>3 DEF vars
  <2> QED BY <2>1, <2>2, <2>3 DEF Next
<1> QED BY <1>1, <1>2, PTL DEF Spec

\* The kernels of hbm-bandwidth go over every element exactly once, whether the
\* grid has more threads than there are elements or fewer.
THEOREM EachElementOnce == Spec => []ElementsOnce
<1>1. elements \in Elements => ElementsOnce
  <2> SUFFICES ASSUME elements \in Elements, NEW i \in 0 .. (elements - 1)
               PROVE  Cardinality({tid \in 0 .. (partial_elements - 1) :
                                      i \in Visited(tid)}) = 1
    BY DEF ElementsOnce
  <2> DEFINE N == partial_elements
  <2>1. elements \in Nat \ {0} /\ i \in Nat /\ i < elements
    BY TimingAssumption
  <2>2. N \in Nat \ {0} /\ blocks * kThreads = N
    BY <2>1, GridSize DEF partial_elements
  <2> HIDE DEF N
  <2>3. ASSUME NEW tid \in 0 .. (N - 1)
        PROVE  i \in Visited(tid) <=> tid = i % N
    <3>1. i \in Visited(tid) <=> tid <= i /\ (i - tid) % N = 0
      <4>1. i \in tid .. (elements - 1) <=> tid <= i
        BY <2>1, <2>2
      <4> QED BY <2>2, <4>1 DEF Visited
    <3> QED BY <2>1, <2>2, <3>1, OneThread
  <2>4. i % N \in 0 .. (N - 1)
    <3>1. i \in Int /\ N \in Nat \ {0}
      BY <2>1, <2>2
    <3> QED BY ONLY <3>1, DivMod
  <2>5. {tid \in 0 .. (N - 1) : i \in Visited(tid)} = {i % N}
    BY <2>3, <2>4
  <2> QED BY <2>5, FS_Singleton DEF N
<1> QED BY SameElements, <1>1, PTL

-----------------------------------------------------------------------------
(* The inductive invariant *)

\* The kernel of ptx-latency that a part is about.
KernelOf == <<"none", "loop-overhead", "add.s32", "add.u64", "fma.rn.f32">>

\* The shape of the scripts: parts, rounds of a part, calls of a round.
PartsOf(p) == IF p = "fabric-smoke" THEN Len(Pairs) ELSE 5
RoundsOf(p, n) == IF p = "ptx-latency" /\ n > 1 THEN kSamples + 2 ELSE 1
StepsOf(p, n, r) ==
    IF p = "ptx-latency"
    THEN IF n = 1 THEN 1 ELSE IF r = 1 THEN 4 ELSE IF r = kSamples + 2 THEN 2 ELSE 3
    ELSE IF p = "hbm-bandwidth"
         THEN IF n = 1 THEN 4 ELSE IF n = 5 THEN 3 ELSE 9
         ELSE 16

\* The calls of a round that leave work to the GPUs, and those that leave events.
WorksOf(p, n, r) ==
    IF p = "ptx-latency"
    THEN IF n = 1 \/ r = kSamples + 2 THEN {} ELSE IF r = 1 THEN {3} ELSE {1}
    ELSE IF p = "hbm-bandwidth"
         THEN IF n \in 2 .. 4 THEN {2, 5} ELSE {}
         ELSE {3, 6, 9}
RecordsOf(p, n) ==
    IF p = "ptx-latency" THEN {}
    ELSE IF p = "hbm-bandwidth" THEN IF n \in 2 .. 4 THEN {4, 6} ELSE {}
         ELSE {8, 10}

\* The GPUs it is left to.
NeedsOf(p, n, s) ==
    IF p # "fabric-smoke" THEN {gpu}
    ELSE IF s = 3 THEN {Pairs[n][1]}
         ELSE IF s = 9 THEN {Pairs[n][1], Pairs[n][2]}
              ELSE {Pairs[n][2]}
Meet(p, n, s, t) == NeedsOf(p, n, s) \cap NeedsOf(p, n, t) # {}

\* Whether two events are recorded around the work of a part, and where: the
\* create call and the record of the start event, which the work, the record of
\* the stop event, the wait, the elapsed time and the destroy calls follow.
TimedPart(p, n) == p = "fabric-smoke" \/ (p = "hbm-bandwidth" /\ n \in 2 .. 4)
CreateAt(p) == IF p = "fabric-smoke" THEN 7 ELSE 1
StartAt(p) == IF p = "fabric-smoke" THEN 8 ELSE 4

\* The calls of this round whose work is not finished, and is running.
Pend == {w.at[3] : w \in queue}
Run == {j[3] : j \in running}

\* All work the GPUs still have is of this round, on the GPUs its call is about.
OfThisRound ==
    /\ \A w \in queue : \E s \in 1 .. (at[3] - 1) :
          /\ w = [at |-> <<at[1], at[2], s>>, gpus |-> NeedsOf(probe, at[1], s)]
          /\ s \in WorksOf(probe, at[1], at[2]) \cup RecordsOf(probe, at[1])
    /\ \A j \in running : \E s \in Pend \cap WorksOf(probe, at[1], at[2]) :
          j = <<at[1], at[2], s>>

\* The streams of the GPUs are taken in order: what runs waits for nothing, and
\* what was issued after something unfinished, on one of its GPUs, is unfinished.
InOrder ==
    /\ \A s \in Run, t \in Pend : t < s => ~Meet(probe, at[1], s, t)
    /\ \A s \in Pend :
          \A t \in WorksOf(probe, at[1], at[2]) \cup RecordsOf(probe, at[1]) :
             s < t /\ t < at[3] /\ Meet(probe, at[1], s, t) => t \in Pend

\* What the host has waited for is over.
Waited ==
    /\ probe = "ptx-latency" /\ at[2] > 1 /\ at[3] = 3 => queue = {}
    /\ probe = "hbm-bandwidth" /\ at[3] > 3 => 2 \notin Pend
    /\ TimedPart(probe, at[1]) /\ at[3] > StartAt(probe) + 3 => queue = {}

\* The GPU the next call is for.
Current ==
    /\ probe # "fabric-smoke" /\ at # <<1, 1, 1>> => current = gpu
    /\ probe = "fabric-smoke" /\ at[3] \in 2 .. 4 => current = Pairs[at[1]][1]
    /\ probe = "fabric-smoke" /\ at[3] \in 5 .. 15 => current = Pairs[at[1]][2]
    /\ probe = "fabric-smoke" /\ at[3] = 16 => current = Pairs[at[1]][1]

\* An event is recorded while its record is unfinished, and done after that.
StateOf(p, n, s, r, pending) ==
    IF ~TimedPart(p, n) \/ s <= CreateAt(p) \/ s > StartAt(p) + 5 THEN "none"
    ELSE IF s <= r THEN "created" ELSE IF pending THEN "recorded" ELSE "done"

\* The two events, at the places of their records.
Events ==
    LET s == StartAt(probe)
    IN  /\ event.start = StateOf(probe, at[1], at[3], s, s \in Pend)
        /\ event.stop = StateOf(probe, at[1], at[3], s + 2, s + 2 \in Pend)

\* Between the events runs the work in question, and on another GPU perhaps the
\* memset of the buffer that it copies.
Early(p, n, r) == IF p = "fabric-smoke" THEN {<<n, r, 3>>} ELSE {}

\* During is what ran there, partial what was not wholly there.
Between ==
    LET s == StartAt(probe)
        work == <<at[1], at[2], s + 1>>
    IN  TimedPart(probe, at[1]) /\ at[3] > CreateAt(probe) =>
          IF at[3] <= s \/ s \in Pend
          THEN during = {} /\ partial = {}
          ELSE /\ during \subseteq Early(probe, at[1], at[2]) \cup {work}
               /\ partial \subseteq Early(probe, at[1], at[2])
               /\ at[3] > s + 1 /\ (s + 1 \in Pend => s + 1 \in Run) => work \in during

\* What has been read of the clock.
Read ==
    timed # <<>> =>
      /\ probe # "ptx-latency"
      /\ \E n \in 1 .. PartsOf(probe) :
           LET s == StartAt(probe)
           IN  /\ TimedPart(probe, n)
               /\ timed[1] = <<n, 1, s + 4>>
               /\ timed[2] \subseteq Early(probe, n, 1) \cup {<<n, 1, s + 1>>}
               /\ timed[3] \subseteq Early(probe, n, 1)
               /\ <<n, 1, s + 1>> \in timed[2]

\* The memory that is allocated, and the memory that is written.
Allocated(b) == content[b] # Unallocated
Written(b) == content[b] \notin {Unallocated, Nobody}
Memory ==
    /\ probe = "ptx-latency" /\ at[1] \in 2 .. 5 =>
         /\ at[2] > 1 /\ at[2] < kSamples + 2 => Allocated("d_cycles") /\ Allocated("d_sink")
         /\ at[2] = 1 /\ at[3] > 1 => Allocated("d_cycles")
         /\ at[2] = 1 /\ at[3] > 2 => Allocated("d_sink")
    /\ probe = "hbm-bandwidth" /\ at[1] < 5 =>
         /\ at[1] > 1 \/ at[3] > 2 => Allocated("d_src")
         /\ at[1] > 1 \/ at[3] > 3 => Allocated("d_dst")
         /\ at[1] > 1 => Allocated("d_partial")
         /\ at[1] > 2 \/ (at[1] = 2 /\ at[3] > 2 /\ 2 \notin Pend) => Written("d_dst")
         /\ at[1] > 3 \/ (at[1] = 3 /\ at[3] > 2 /\ 2 \notin Pend) => Written("d_src")
    /\ probe = "fabric-smoke" =>
         /\ at[3] > 2 => Allocated("d_src")
         /\ at[3] > 3 /\ 3 \notin Pend => Written("d_src")
         /\ at[3] \in 6 .. 14 => Allocated("d_dst")

\* The cycles of a launch of a kernel.
Sampled(x) == {Cost[x] + n : n \in Noise}

\* Once the launch of a round is over, d_cycles is what it has stored.
Fresh ==
    probe = "ptx-latency" /\ at[2] \in 2 .. (kSamples + 1) /\ at[3] > 1 /\ queue = {} =>
      /\ content["d_cycles"] = <<at[1], at[2], 1>>
      /\ word \in Sampled(KernelOf[at[1]])

\* What has been read of it.
Fetched ==
    fetched # <<>> =>
      /\ probe = "ptx-latency"
      /\ \E n \in 2 .. 5, r \in 2 .. (kSamples + 1) :
            fetched = <<<<n, r, 3>>, <<n, r, 1>>>>

\* And how often, for each of the kernels.
Count(a, n) ==
    IF n < a[1] THEN kSamples ELSE IF n > a[1] \/ a[2] = 1 THEN 0 ELSE a[2] - 2

\* All of them are cycles of that kernel.
Samples ==
    probe = "ptx-latency" =>
      \A n \in 2 .. 5 :
         LET c == cycles[KernelOf[n]]
         IN  Len(c) = Count(at, n) /\ \A i \in 1 .. Len(c) : c[i] \in Sampled(KernelOf[n])

\* All of it.
TimingInv ==
    /\ TypeOK /\ OfThisRound /\ InOrder /\ Waited /\ Current /\ Events /\ Between
    /\ Read /\ Memory /\ Fresh /\ Fetched /\ Samples

-----------------------------------------------------------------------------
(* What the scripts come to *)

\* The parts of the scripts.
LEMMA Parts ==
    /\ probe = "ptx-latency" =>
         /\ Len(Script) = 5 /\ Script[1] = << <<cudaSetDevice(gpu)>> >>
         /\ \A n \in 2 .. 5 : Script[n] = run_instruction(KernelOf[n])
    /\ probe = "hbm-bandwidth" =>
         /\ Len(Script) = 5
         /\ Script[1] = << <<cudaSetDevice(gpu), cudaMalloc("d_src"),
                             cudaMalloc("d_dst"), cudaMalloc("d_partial")>> >>
         /\ Script[2] = time_kernel(launch("write_kernel", {}, {"d_dst"}))
         /\ Script[3] = time_kernel(launch("copy_kernel", {"d_dst"}, {"d_src"}))
         /\ Script[4] = time_kernel(launch("read_kernel", {"d_src"}, {"d_partial"}))
         /\ Script[5] = << <<cudaFree("d_partial"), cudaFree("d_dst"),
                             cudaFree("d_src")>> >>
    /\ probe = "fabric-smoke" =>
         /\ Len(Script) = Len(Pairs)
         /\ \A n \in 1 .. Len(Pairs) : Script[n] = copy_pair(Pairs[n][1], Pairs[n][2])
<1>1. CASE probe = "ptx-latency"
  BY <1>1 DEF Script, run_ptx_latency_probe, KernelOf
<1>2. CASE probe = "hbm-bandwidth"
  BY <1>2 DEF Script, run_hbm_bandwidth_probe
<1>3. CASE probe = "fabric-smoke"
  <2>1. Len(Pairs) \in Nat
    BY TimingAssumption
  <2> QED BY <1>3, <2>1 DEF Script, run_fabric_smoke_probe
<1> QED BY <1>1, <1>2, <1>3

\* Their shape.
LEMMA Shape ==
    ASSUME probe \in Probes
    PROVE  /\ Len(Script) = PartsOf(probe)
           /\ \A n \in 1 .. PartsOf(probe) :
                /\ Len(Script[n]) = RoundsOf(probe, n)
                /\ \A r \in 1 .. RoundsOf(probe, n) :
                     Len(Script[n][r]) = StepsOf(probe, n, r)
<1>0. kSamples \in Nat \ {0}
  BY TimingAssumption
<1>1. CASE probe = "ptx-latency"
  <2>1. ASSUME NEW n \in 2 .. 5
        PROVE  /\ Len(Script[n]) = kSamples + 2
               /\ \A r \in 1 .. (kSamples + 2) :
                     Len(Script[n][r]) = StepsOf(probe, n, r)
    <3> DEFINE first == <<cudaMalloc("d_cycles"), cudaMalloc("d_sink"),
                          bench(KernelOf[n]), cudaDeviceSynchronize>>
               sample == <<bench(KernelOf[n]), cudaDeviceSynchronize,
                           cudaMemcpy("d_cycles", KernelOf[n])>>
               last == FreeBoth
    <3>1. Script[n] = Rounds(first, sample, last)
      BY <1>1, <2>1, Parts DEF run_instruction
    <3>2. Len(first) = 4 /\ Len(sample) = 3 /\ Len(last) = 2
      BY DEF FreeBoth
    <3> HIDE DEF first, sample, last
    <3>3. Len(Script[n]) = kSamples + 2
      BY <1>0, <3>1 DEF Rounds
    <3>4. ASSUME NEW r \in 1 .. (kSamples + 2)
          PROVE  Script[n][r] = IF r = 1 THEN first
                                ELSE IF r = kSamples + 2 THEN last ELSE sample
      BY ONLY <3>1, <3>4 DEF Rounds
    <3>5. ASSUME NEW r \in 1 .. (kSamples + 2)
          PROVE  Len(Script[n][r]) = StepsOf(probe, n, r)
      <4>1. StepsOf(probe, n, r) = IF r = 1 THEN 4 ELSE IF r = kSamples + 2 THEN 2 ELSE 3
        BY ONLY <1>1, <2>1 DEF StepsOf
      <4>2. Script[n][r] = IF r = 1 THEN first
                           ELSE IF r = kSamples + 2 THEN last ELSE sample
        BY ONLY <3>4, <3>5
      <4> QED BY ONLY <3>2, <4>1, <4>2
    <3> QED BY ONLY <3>3, <3>5
  <2> QED BY <1>1, <2>1, Parts DEF PartsOf, RoundsOf, StepsOf
<1>2. CASE probe = "hbm-bandwidth"
  BY <1>2, Parts DEF PartsOf, RoundsOf, StepsOf, time_kernel
<1>3. CASE probe = "fabric-smoke"
  <2>1. ASSUME NEW n \in 1 .. Len(Pairs)
        PROVE  Len(Script[n]) = 1 /\ Len(Script[n][1]) = 16
    <3>1. Script[n] = copy_pair(Pairs[n][1], Pairs[n][2])
      BY <1>3, Parts
    <3>2. \A a, b : Len(copy_pair(a, b)) = 1 /\ Len(copy_pair(a, b)[1]) = 16
      BY ONLY DEF copy_pair
    <3> QED BY ONLY <3>1, <3>2
  <2> QED BY <1>3, <2>1, Parts DEF PartsOf, RoundsOf, StepsOf
<1> QED BY <1>1, <1>2, <1>3 DEF Probes

\* The calls, probe by probe.
LEMMA PtxCalls ==
    ASSUME probe = "ptx-latency"
    PROVE  /\ CallAt(<<1, 1, 1>>) = cudaSetDevice(gpu)
           /\ \A n \in 2 .. 5 :
                /\ CallAt(<<n, 1, 1>>) = cudaMalloc("d_cycles")
                /\ CallAt(<<n, 1, 2>>) = cudaMalloc("d_sink")
                /\ CallAt(<<n, 1, 3>>) = bench(KernelOf[n])
                /\ CallAt(<<n, 1, 4>>) = cudaDeviceSynchronize
                /\ \A r \in 2 .. (kSamples + 1) :
                     /\ CallAt(<<n, r, 1>>) = bench(KernelOf[n])
                     /\ CallAt(<<n, r, 2>>) = cudaDeviceSynchronize
                     /\ CallAt(<<n, r, 3>>) = cudaMemcpy("d_cycles", KernelOf[n])
                /\ CallAt(<<n, kSamples + 2, 1>>) = cudaFree("d_sink")
                /\ CallAt(<<n, kSamples + 2, 2>>) = cudaFree("d_cycles")
<1>0. kSamples \in Nat \ {0}
  BY TimingAssumption
<1>1. \A n, r, s : CallAt(<<n, r, s>>) = Script[n][r][s]
  BY DEF CallAt
<1>2. CallAt(<<1, 1, 1>>) = cudaSetDevice(gpu)
  <2>1. Script[1] = << <<cudaSetDevice(gpu)>> >>
    BY Parts
  <2> QED BY ONLY <1>1, <2>1
<1>3. ASSUME NEW n \in 2 .. 5
      PROVE  /\ CallAt(<<n, 1, 1>>) = cudaMalloc("d_cycles")
             /\ CallAt(<<n, 1, 2>>) = cudaMalloc("d_sink")
             /\ CallAt(<<n, 1, 3>>) = bench(KernelOf[n])
             /\ CallAt(<<n, 1, 4>>) = cudaDeviceSynchronize
             /\ \A r \in 2 .. (kSamples + 1) :
                  /\ CallAt(<<n, r, 1>>) = bench(KernelOf[n])
                  /\ CallAt(<<n, r, 2>>) = cudaDeviceSynchronize
                  /\ CallAt(<<n, r, 3>>) = cudaMemcpy("d_cycles", KernelOf[n])
             /\ CallAt(<<n, kSamples + 2, 1>>) = cudaFree("d_sink")
             /\ CallAt(<<n, kSamples + 2, 2>>) = cudaFree("d_cycles")
  <2> DEFINE first == <<cudaMalloc("d_cycles"), cudaMalloc("d_sink"),
                        bench(KernelOf[n]), cudaDeviceSynchronize>>
             sample == <<bench(KernelOf[n]), cudaDeviceSynchronize,
                         cudaMemcpy("d_cycles", KernelOf[n])>>
             last == FreeBoth
  <2>1. Script[n] = Rounds(first, sample, last)
    BY <1>3, Parts DEF run_instruction
  <2>2. /\ Script[n][1] = first /\ Script[n][kSamples + 2] = last
        /\ \A r \in 2 .. (kSamples + 1) : Script[n][r] = sample
    <3> HIDE DEF first, sample, last
    <3> QED BY ONLY <1>0, <2>1 DEF Rounds
  <2> QED BY ONLY <1>1, <2>2 DEF FreeBoth
<1> QED BY <1>2, <1>3

\* The kernels of hbm-bandwidth.
LaunchOf(n) ==
    IF n = 2 THEN launch("write_kernel", {}, {"d_dst"})
    ELSE IF n = 3 THEN launch("copy_kernel", {"d_dst"}, {"d_src"})
    ELSE launch("read_kernel", {"d_src"}, {"d_partial"})

\* The calls of hbm-bandwidth.
LEMMA HbmCalls ==
    ASSUME probe = "hbm-bandwidth"
    PROVE  /\ CallAt(<<1, 1, 1>>) = cudaSetDevice(gpu)
           /\ CallAt(<<1, 1, 2>>) = cudaMalloc("d_src")
           /\ CallAt(<<1, 1, 3>>) = cudaMalloc("d_dst")
           /\ CallAt(<<1, 1, 4>>) = cudaMalloc("d_partial")
           /\ \A n \in 2 .. 4 :
                /\ CallAt(<<n, 1, 1>>) = cudaEventCreate
                /\ CallAt(<<n, 1, 2>>) = LaunchOf(n)
                /\ CallAt(<<n, 1, 3>>) = cudaDeviceSynchronize
                /\ CallAt(<<n, 1, 4>>) = cudaEventRecord("start")
                /\ CallAt(<<n, 1, 5>>) = LaunchOf(n)
                /\ CallAt(<<n, 1, 6>>) = cudaEventRecord("stop")
                /\ CallAt(<<n, 1, 7>>) = cudaEventSynchronize("stop")
                /\ CallAt(<<n, 1, 8>>) = cudaEventElapsedTime
                /\ CallAt(<<n, 1, 9>>) = cudaEventDestroy
           /\ CallAt(<<5, 1, 1>>) = cudaFree("d_partial")
           /\ CallAt(<<5, 1, 2>>) = cudaFree("d_dst")
           /\ CallAt(<<5, 1, 3>>) = cudaFree("d_src")
<1>1. \A n, r, s : CallAt(<<n, r, s>>) = Script[n][r][s]
  BY DEF CallAt
<1>2. ASSUME NEW n \in 2 .. 4
      PROVE  Script[n] = time_kernel(LaunchOf(n))
  <2>1. n = 2 \/ n = 3 \/ n = 4
    BY <1>2
  <2> QED BY <2>1, Parts DEF LaunchOf
<1>3. \A work : LET c == time_kernel(work)[1]
                IN  /\ c[1] = cudaEventCreate /\ c[2] = work
                    /\ c[3] = cudaDeviceSynchronize /\ c[4] = cudaEventRecord("start")
                    /\ c[5] = work /\ c[6] = cudaEventRecord("stop")
                    /\ c[7] = cudaEventSynchronize("stop")
                    /\ c[8] = cudaEventElapsedTime /\ c[9] = cudaEventDestroy
  BY ONLY DEF time_kernel
<1>4. /\ Script[1] = << <<cudaSetDevice(gpu), cudaMalloc("d_src"),
                          cudaMalloc("d_dst"), cudaMalloc("d_partial")>> >>
      /\ Script[5] = << <<cudaFree("d_partial"), cudaFree("d_dst"),
                          cudaFree("d_src")>> >>
  BY Parts
<1>5. ASSUME NEW n \in 2 .. 4
      PROVE  /\ CallAt(<<n, 1, 1>>) = cudaEventCreate
             /\ CallAt(<<n, 1, 2>>) = LaunchOf(n)
             /\ CallAt(<<n, 1, 3>>) = cudaDeviceSynchronize
             /\ CallAt(<<n, 1, 4>>) = cudaEventRecord("start")
             /\ CallAt(<<n, 1, 5>>) = LaunchOf(n)
             /\ CallAt(<<n, 1, 6>>) = cudaEventRecord("stop")
             /\ CallAt(<<n, 1, 7>>) = cudaEventSynchronize("stop")
             /\ CallAt(<<n, 1, 8>>) = cudaEventElapsedTime
             /\ CallAt(<<n, 1, 9>>) = cudaEventDestroy
  <2>1. \A s : CallAt(<<n, 1, s>>) = time_kernel(LaunchOf(n))[1][s]
    BY ONLY <1>1, <1>2, <1>5
  <2> QED BY ONLY <1>3, <2>1
<1>6. /\ CallAt(<<1, 1, 1>>) = cudaSetDevice(gpu)
      /\ CallAt(<<1, 1, 2>>) = cudaMalloc("d_src")
      /\ CallAt(<<1, 1, 3>>) = cudaMalloc("d_dst")
      /\ CallAt(<<1, 1, 4>>) = cudaMalloc("d_partial")
      /\ CallAt(<<5, 1, 1>>) = cudaFree("d_partial")
      /\ CallAt(<<5, 1, 2>>) = cudaFree("d_dst")
      /\ CallAt(<<5, 1, 3>>) = cudaFree("d_src")
  BY ONLY <1>1, <1>4
<1> QED BY ONLY <1>5, <1>6

\* The calls of fabric-smoke.
LEMMA FabricCalls ==
    ASSUME probe = "fabric-smoke", NEW n \in 1 .. Len(Pairs)
    PROVE  /\ CallAt(<<n, 1, 1>>) = cudaSetDevice(Pairs[n][1])
           /\ CallAt(<<n, 1, 2>>) = cudaMalloc("d_src")
           /\ CallAt(<<n, 1, 3>>) = cudaMemset("d_src")
           /\ CallAt(<<n, 1, 4>>) = cudaSetDevice(Pairs[n][2])
           /\ CallAt(<<n, 1, 5>>) = cudaMalloc("d_dst")
           /\ CallAt(<<n, 1, 6>>) = cudaMemset("d_dst")
           /\ CallAt(<<n, 1, 7>>) = cudaEventCreate
           /\ CallAt(<<n, 1, 8>>) = cudaEventRecord("start")
           /\ CallAt(<<n, 1, 9>>) = cudaMemcpyPeerAsync("d_dst", "d_src", Pairs[n][1])
           /\ CallAt(<<n, 1, 10>>) = cudaEventRecord("stop")
           /\ CallAt(<<n, 1, 11>>) = cudaEventSynchronize("stop")
           /\ CallAt(<<n, 1, 12>>) = cudaEventElapsedTime
           /\ CallAt(<<n, 1, 13>>) = cudaEventDestroy
           /\ CallAt(<<n, 1, 14>>) = cudaFree("d_dst")
           /\ CallAt(<<n, 1, 15>>) = cudaSetDevice(Pairs[n][1])
           /\ CallAt(<<n, 1, 16>>) = cudaFree("d_src")
<1>1. \A r, s : CallAt(<<n, r, s>>) = Script[n][r][s]
  BY DEF CallAt
<1>2. Script[n] = copy_pair(Pairs[n][1], Pairs[n][2])
  BY Parts
<1> DEFINE src == Pairs[n][1]
           dst == Pairs[n][2]
           c == copy_pair(src, dst)[1]
<1> HIDE DEF src, dst
<1>3. /\ c[1] = cudaSetDevice(src) /\ c[2] = cudaMalloc("d_src")
      /\ c[3] = cudaMemset("d_src") /\ c[4] = cudaSetDevice(dst)
      /\ c[5] = cudaMalloc("d_dst") /\ c[6] = cudaMemset("d_dst")
      /\ c[7] = cudaEventCreate /\ c[8] = cudaEventRecord("start")
      /\ c[9] = cudaMemcpyPeerAsync("d_dst", "d_src", src)
      /\ c[10] = cudaEventRecord("stop") /\ c[11] = cudaEventSynchronize("stop")
      /\ c[12] = cudaEventElapsedTime /\ c[13] = cudaEventDestroy
      /\ c[14] = cudaFree("d_dst") /\ c[15] = cudaSetDevice(src)
      /\ c[16] = cudaFree("d_src")
  BY ONLY DEF copy_pair
<1>4. \A s : CallAt(<<n, 1, s>>) = c[s]
  BY ONLY <1>1, <1>2 DEF src, dst
<1> HIDE DEF c
<1> QED BY ONLY <1>3, <1>4 DEF src, dst

\* What the calls are called.
LEMMA CallNames ==
    /\ \A d : cudaSetDevice(d).call = "device"
    /\ \A b : cudaMalloc(b).call = "malloc" /\ cudaFree(b).call = "free"
    /\ cudaEventCreate.call = "create" /\ cudaEventDestroy.call = "destroy"
    /\ \A e : cudaEventRecord(e).call = "record" /\ cudaEventSynchronize(e).call = "wait"
    /\ cudaEventElapsedTime.call = "elapsed" /\ cudaDeviceSynchronize.call = "sync"
    /\ \A b, x : cudaMemcpy(b, x).call = "fetch"
    /\ \A x : bench(x).call = "work"
    /\ \A n : LaunchOf(n).call = "work"
    /\ \A b : cudaMemset(b).call = "work"
    /\ \A x, y, d : cudaMemcpyPeerAsync(x, y, d).call = "work"
  BY ONLY DEF cudaSetDevice, cudaMalloc, cudaFree, cudaEventCreate, cudaEventDestroy,
              cudaEventRecord, cudaEventSynchronize, cudaEventElapsedTime,
              cudaDeviceSynchronize, cudaMemcpy, Work, launch, cudaMemset,
              cudaMemcpyPeerAsync, bench, LaunchOf

\* Where each kind of call is.
KindOf(p, n, r, s, c) ==
    /\ c = "work" <=> s \in WorksOf(p, n, r)
    /\ c = "record" <=> s \in RecordsOf(p, n)
    /\ c = "create" <=> TimedPart(p, n) /\ s = CreateAt(p)
    /\ c = "wait" <=> TimedPart(p, n) /\ s = StartAt(p) + 3
    /\ c = "elapsed" <=> TimedPart(p, n) /\ s = StartAt(p) + 4
    /\ c = "destroy" <=> TimedPart(p, n) /\ s = StartAt(p) + 5
    /\ c = "sync" <=> \/ p = "ptx-latency" /\ n > 1 /\ r = 1 /\ s = 4
                      \/ p = "ptx-latency" /\ n > 1 /\ r \in 2 .. (kSamples + 1) /\ s = 2
                      \/ p = "hbm-bandwidth" /\ n \in 2 .. 4 /\ s = 3
    /\ c = "fetch" <=>
         p = "ptx-latency" /\ n > 1 /\ r \in 2 .. (kSamples + 1) /\ s = 3
    /\ c = "device" <=> \/ p # "fabric-smoke" /\ n = 1 /\ s = 1
                        \/ p = "fabric-smoke" /\ s \in {1, 4, 15}
    /\ c = "malloc" <=> \/ p = "ptx-latency" /\ n > 1 /\ r = 1 /\ s \in {1, 2}
                        \/ p = "hbm-bandwidth" /\ n = 1 /\ s \in {2, 3, 4}
                        \/ p = "fabric-smoke" /\ s \in {2, 5}
    /\ c = "free" <=> \/ p = "ptx-latency" /\ n > 1 /\ r = kSamples + 2
                      \/ p = "hbm-bandwidth" /\ n = 5
                      \/ p = "fabric-smoke" /\ s \in {14, 16}

\* Every call is of the kind its place says.
LEMMA Kinds ==
    ASSUME probe \in Probes, NEW n \in 1 .. PartsOf(probe),
           NEW r \in 1 .. RoundsOf(probe, n), NEW s \in 1 .. StepsOf(probe, n, r)
    PROVE  KindOf(probe, n, r, s, CallAt(<<n, r, s>>).call)
<1>0. kSamples \in Nat \ {0} /\ Len(Pairs) \in Nat
  BY TimingAssumption
<1>1. CASE probe = "ptx-latency"
  <2>1. CASE n = 1
    <3>1. CallAt(<<1, 1, 1>>).call = "device"
      BY ONLY <1>1, PtxCalls, CallNames
    <3>3. r = 1 /\ s = 1
      BY ONLY <1>1, <2>1 DEF RoundsOf, StepsOf
    <3> QED BY ONLY <1>0, <1>1, <2>1, <3>1, <3>3
            DEF KindOf, WorksOf, RecordsOf, TimedPart, CreateAt, StartAt
  <2>2. CASE n # 1 /\ r = 1
    <3>1. n \in 2 .. 5 /\ s \in 1 .. 4
      BY ONLY <1>1, <2>2 DEF PartsOf, StepsOf
    <3>2. /\ CallAt(<<n, r, 1>>).call = "malloc" /\ CallAt(<<n, r, 2>>).call = "malloc"
          /\ CallAt(<<n, r, 3>>).call = "work" /\ CallAt(<<n, r, 4>>).call = "sync"
      BY ONLY <1>1, <2>2, <3>1, PtxCalls, CallNames
    <3>3. LET c == CallAt(<<n, r, s>>).call
          IN  \/ s \in {1, 2} /\ c = "malloc"
              \/ s = 3 /\ c = "work"
              \/ s = 4 /\ c = "sync"
      BY ONLY <3>1, <3>2
    <3> HIDE DEF CallAt
    <3> QED BY ONLY <1>0, <1>1, <2>2, <3>1, <3>3
            DEF KindOf, WorksOf, RecordsOf, TimedPart, CreateAt, StartAt
  <2>3. CASE n # 1 /\ r # 1 /\ r # kSamples + 2
    <3>1. n \in 2 .. 5 /\ r \in 2 .. (kSamples + 1) /\ s \in 1 .. 3
      BY ONLY <1>0, <1>1, <2>3 DEF PartsOf, RoundsOf, StepsOf
    <3>2. /\ CallAt(<<n, r, 1>>).call = "work" /\ CallAt(<<n, r, 2>>).call = "sync"
          /\ CallAt(<<n, r, 3>>).call = "fetch"
      <4>1. /\ CallAt(<<n, r, 1>>) = bench(KernelOf[n])
            /\ CallAt(<<n, r, 2>>) = cudaDeviceSynchronize
            /\ CallAt(<<n, r, 3>>) = cudaMemcpy("d_cycles", KernelOf[n])
        BY ONLY <1>1, <3>1, PtxCalls
      <4> QED BY ONLY <4>1, CallNames
    <3>3. LET c == CallAt(<<n, r, s>>).call
          IN  \/ s = 1 /\ c = "work"
              \/ s = 2 /\ c = "sync"
              \/ s = 3 /\ c = "fetch"
      BY ONLY <3>1, <3>2
    <3> QED BY ONLY <1>0, <1>1, <2>3, <3>1, <3>3
            DEF KindOf, WorksOf, RecordsOf, TimedPart, CreateAt, StartAt
  <2>4. CASE n # 1 /\ r = kSamples + 2
    <3>1. n \in 2 .. 5 /\ s \in 1 .. 2 /\ r # 1
      BY ONLY <1>0, <1>1, <2>4 DEF PartsOf, StepsOf
    <3>2. /\ CallAt(<<n, r, 1>>).call = "free" /\ CallAt(<<n, r, 2>>).call = "free"
      BY ONLY <1>1, <2>4, <3>1, PtxCalls, CallNames
    <3>3. CallAt(<<n, r, s>>).call = "free"
      BY ONLY <3>1, <3>2
    <3> QED BY ONLY <1>0, <1>1, <2>4, <3>1, <3>3
            DEF KindOf, WorksOf, RecordsOf, TimedPart, CreateAt, StartAt
  <2> QED BY ONLY <2>1, <2>2, <2>3, <2>4
<1>2. CASE probe = "hbm-bandwidth"
  <2>0. r = 1
    BY ONLY <1>2 DEF RoundsOf
  <2>1. CASE n = 1
    <3>1. s \in 1 .. 4
      BY ONLY <1>2, <2>1 DEF StepsOf
    <3>2. /\ CallAt(<<n, r, 1>>).call = "device" /\ CallAt(<<n, r, 2>>).call = "malloc"
          /\ CallAt(<<n, r, 3>>).call = "malloc" /\ CallAt(<<n, r, 4>>).call = "malloc"
      BY ONLY <1>2, <2>0, <2>1, <3>1, HbmCalls, CallNames
    <3>3. LET c == CallAt(<<n, r, s>>).call
          IN  \/ s = 1 /\ c = "device"
              \/ s \in 2 .. 4 /\ c = "malloc"
      BY ONLY <3>1, <3>2
    <3> QED BY ONLY <1>0, <1>2, <2>0, <2>1, <3>1, <3>3
            DEF KindOf, WorksOf, RecordsOf, TimedPart, CreateAt, StartAt
  <2>2. CASE n \in 2 .. 4
    <3>1. s \in 1 .. 9
      BY ONLY <1>2, <2>2 DEF StepsOf
    <3>2. /\ CallAt(<<n, r, 1>>).call = "create" /\ CallAt(<<n, r, 2>>).call = "work"
          /\ CallAt(<<n, r, 3>>).call = "sync" /\ CallAt(<<n, r, 4>>).call = "record"
          /\ CallAt(<<n, r, 5>>).call = "work" /\ CallAt(<<n, r, 6>>).call = "record"
          /\ CallAt(<<n, r, 7>>).call = "wait" /\ CallAt(<<n, r, 8>>).call = "elapsed"
          /\ CallAt(<<n, r, 9>>).call = "destroy"
      BY ONLY <1>2, <2>0, <2>2, <3>1, HbmCalls, CallNames
    <3>3. LET c == CallAt(<<n, r, s>>).call
          IN  \/ s \in {2, 5} /\ c = "work"
              \/ s \in {4, 6} /\ c = "record"
              \/ s = 1 /\ c = "create"
              \/ s = 3 /\ c = "sync"
              \/ s = 7 /\ c = "wait"
              \/ s = 8 /\ c = "elapsed"
              \/ s = 9 /\ c = "destroy"
      BY ONLY <3>1, <3>2
    <3> QED BY ONLY <1>0, <1>2, <2>0, <2>2, <3>1, <3>3
            DEF KindOf, WorksOf, RecordsOf, TimedPart, CreateAt, StartAt
  <2>3. CASE n = 5
    <3>1. s \in 1 .. 3
      BY ONLY <1>2, <2>3 DEF StepsOf
    <3>2. /\ CallAt(<<n, r, 1>>).call = "free" /\ CallAt(<<n, r, 2>>).call = "free"
          /\ CallAt(<<n, r, 3>>).call = "free"
      BY ONLY <1>2, <2>0, <2>3, <3>1, HbmCalls, CallNames
    <3>3. CallAt(<<n, r, s>>).call = "free"
      BY ONLY <3>1, <3>2
    <3> QED BY ONLY <1>0, <1>2, <2>0, <2>3, <3>1, <3>3
            DEF KindOf, WorksOf, RecordsOf, TimedPart, CreateAt, StartAt
  <2>4. n \in 1 .. 5
    BY ONLY <1>2 DEF PartsOf
  <2> QED BY ONLY <2>1, <2>2, <2>3, <2>4
<1>3. CASE probe = "fabric-smoke"
  <2>1. n \in 1 .. Len(Pairs) /\ r = 1 /\ s \in 1 .. 16
    BY ONLY <1>3 DEF PartsOf, RoundsOf, StepsOf
  <2>2. /\ CallAt(<<n, 1, 1>>).call = "device" /\ CallAt(<<n, 1, 2>>).call = "malloc"
        /\ CallAt(<<n, 1, 3>>).call = "work" /\ CallAt(<<n, 1, 4>>).call = "device"
        /\ CallAt(<<n, 1, 5>>).call = "malloc" /\ CallAt(<<n, 1, 6>>).call = "work"
        /\ CallAt(<<n, 1, 7>>).call = "create" /\ CallAt(<<n, 1, 8>>).call = "record"
        /\ CallAt(<<n, 1, 9>>).call = "work" /\ CallAt(<<n, 1, 10>>).call = "record"
        /\ CallAt(<<n, 1, 11>>).call = "wait" /\ CallAt(<<n, 1, 12>>).call = "elapsed"
        /\ CallAt(<<n, 1, 13>>).call = "destroy" /\ CallAt(<<n, 1, 14>>).call = "free"
        /\ CallAt(<<n, 1, 15>>).call = "device" /\ CallAt(<<n, 1, 16>>).call = "free"
    <3>1. /\ CallAt(<<n, 1, 1>>) = cudaSetDevice(Pairs[n][1])
          /\ CallAt(<<n, 1, 2>>) = cudaMalloc("d_src")
          /\ CallAt(<<n, 1, 3>>) = cudaMemset("d_src")
          /\ CallAt(<<n, 1, 4>>) = cudaSetDevice(Pairs[n][2])
          /\ CallAt(<<n, 1, 5>>) = cudaMalloc("d_dst")
          /\ CallAt(<<n, 1, 6>>) = cudaMemset("d_dst")
          /\ CallAt(<<n, 1, 7>>) = cudaEventCreate
          /\ CallAt(<<n, 1, 8>>) = cudaEventRecord("start")
          /\ CallAt(<<n, 1, 9>>) = cudaMemcpyPeerAsync("d_dst", "d_src", Pairs[n][1])
          /\ CallAt(<<n, 1, 10>>) = cudaEventRecord("stop")
          /\ CallAt(<<n, 1, 11>>) = cudaEventSynchronize("stop")
          /\ CallAt(<<n, 1, 12>>) = cudaEventElapsedTime
          /\ CallAt(<<n, 1, 13>>) = cudaEventDestroy
          /\ CallAt(<<n, 1, 14>>) = cudaFree("d_dst")
          /\ CallAt(<<n, 1, 15>>) = cudaSetDevice(Pairs[n][1])
          /\ CallAt(<<n, 1, 16>>) = cudaFree("d_src")
      BY ONLY <1>3, <2>1, FabricCalls
    <3> QED BY ONLY <3>1, CallNames
  <2>3. LET c == CallAt(<<n, 1, s>>).call
        IN  \/ s \in {1, 4, 15} /\ c = "device"
            \/ s \in {2, 5} /\ c = "malloc"
            \/ s \in {3, 6, 9} /\ c = "work"
            \/ s \in {8, 10} /\ c = "record"
            \/ s = 7 /\ c = "create"
            \/ s = 11 /\ c = "wait"
            \/ s = 12 /\ c = "elapsed"
            \/ s = 13 /\ c = "destroy"
            \/ s \in {14, 16} /\ c = "free"
    <3>1. \/ s = 1 \/ s = 2 \/ s = 3 \/ s = 4 \/ s = 5 \/ s = 6 \/ s = 7 \/ s = 8
          \/ s = 9 \/ s = 10 \/ s = 11 \/ s = 12 \/ s = 13 \/ s = 14 \/ s = 15 \/ s = 16
      BY ONLY <2>1
    <3>2. CASE s = 1 \/ s = 2 \/ s = 3 \/ s = 4 \/ s = 5 \/ s = 6 \/ s = 7 \/ s = 8
      BY ONLY <2>2, <3>2
    <3>3. CASE s = 9 \/ s = 10 \/ s = 11 \/ s = 12 \/ s = 13 \/ s = 14 \/ s = 15
               \/ s = 16
      BY ONLY <2>2, <3>3
    <3> QED BY ONLY <3>1, <3>2, <3>3
  <2> QED BY ONLY <1>0, <1>3, <2>1, <2>3
          DEF KindOf, WorksOf, RecordsOf, TimedPart, CreateAt, StartAt
<1> QED BY <1>1, <1>2, <1>3 DEF Probes

\* Where the host can be.
IsPlace(p, n, r, s) ==
    /\ n \in 1 .. PartsOf(p) /\ r \in 1 .. RoundsOf(p, n) /\ s \in 1 .. StepsOf(p, n, r)

\* The shape is made of numbers, and no round is empty.
LEMMA ShapeNumbers ==
    ASSUME probe \in Probes
    PROVE  /\ PartsOf(probe) \in Nat
           /\ \A n \in Int : /\ RoundsOf(probe, n) \in Nat \ {0}
                             /\ \A r : StepsOf(probe, n, r) \in Nat \ {0}
<1>1. kSamples \in Nat /\ Len(Pairs) \in Nat
  BY TimingAssumption
<1> QED BY <1>1 DEF PartsOf, RoundsOf, StepsOf

\* A step before one of a round is a step of that round.
LEMMA EarlierStep ==
    ASSUME probe \in Probes, NEW n, NEW r, NEW s, IsPlace(probe, n, r, s),
           NEW t \in 1 .. (s - 1)
    PROVE  IsPlace(probe, n, r, t)
<1> DEFINE m == StepsOf(probe, n, r)
<1>1. /\ n \in 1 .. PartsOf(probe) /\ r \in 1 .. RoundsOf(probe, n)
      /\ s \in 1 .. m
  BY ONLY IsPlace(probe, n, r, s) DEF IsPlace
<1>2. PartsOf(probe) \in Nat
  BY ONLY ShapeNumbers, probe \in Probes
<1>3. n \in Int
  BY ONLY <1>1, <1>2
<1>4. m \in Nat
  BY ONLY ShapeNumbers, probe \in Probes, <1>3
<1> HIDE DEF m
<1>5. t \in 1 .. m
  BY ONLY <1>1, <1>4
<1> USE DEF m
<1> QED BY ONLY <1>1, <1>5 DEF IsPlace

\* The positions are the places, as triples.
LEMMA PositionsAre ==
    ASSUME probe \in Probes
    PROVE  /\ \A n, r, s : IsPlace(probe, n, r, s) => <<n, r, s>> \in Positions
           /\ \A j \in Positions : \E n, r, s : IsPlace(probe, n, r, s) /\ j = <<n, r, s>>
<1>1. /\ Len(Script) = PartsOf(probe)
      /\ \A n \in 1 .. PartsOf(probe) :
           /\ Len(Script[n]) = RoundsOf(probe, n)
           /\ \A r \in 1 .. RoundsOf(probe, n) : Len(Script[n][r]) = StepsOf(probe, n, r)
  BY Shape
<1>2. ASSUME NEW n, NEW r, NEW s, IsPlace(probe, n, r, s)
      PROVE  <<n, r, s>> \in Positions
  <2>1. /\ n \in 1 .. Len(Script) /\ r \in 1 .. Len(Script[n])
        /\ s \in 1 .. Len(Script[n][r])
    BY ONLY <1>1, <1>2 DEF IsPlace
  <2> QED BY ONLY <2>1 DEF Positions
<1>3. ASSUME NEW j \in Positions
      PROVE  \E n, r, s : IsPlace(probe, n, r, s) /\ j = <<n, r, s>>
  <2>1. PICK n \in 1 .. Len(Script) :
           j \in UNION {{<<n, r, s>> : s \in 1 .. Len(Script[n][r])}
                        : r \in 1 .. Len(Script[n])}
    BY ONLY <1>3 DEF Positions
  <2>2. PICK r \in 1 .. Len(Script[n]) : j \in {<<n, r, s>> : s \in 1 .. Len(Script[n][r])}
    BY ONLY <2>1
  <2>3. PICK s \in 1 .. Len(Script[n][r]) : j = <<n, r, s>>
    BY ONLY <2>2
  <2> QED BY ONLY <1>1, <2>1, <2>2, <2>3 DEF IsPlace
<1> QED BY <1>2, <1>3

\* The place after a place.
NextOf(p, n, r, s) ==
    IF s < StepsOf(p, n, r) THEN <<n, r, s + 1>>
    ELSE IF r < RoundsOf(p, n) THEN <<n, r + 1, 1>>
    ELSE <<n + 1, 1, 1>>

\* The host goes to the next place.
LEMMA AfterIs ==
    ASSUME probe \in Probes, NEW n, NEW r, NEW s, IsPlace(probe, n, r, s),
           at = <<n, r, s>>
    PROVE  /\ After = NextOf(probe, n, r, s) /\ Now = CallAt(<<n, r, s>>)
           /\ After \in Positions \/ After = <<Len(Script) + 1, 1, 1>>
<1>1. /\ Len(Script) = PartsOf(probe) /\ Len(Script[n]) = RoundsOf(probe, n)
      /\ Len(Script[n][r]) = StepsOf(probe, n, r)
  BY Shape DEF IsPlace
<1>2. After = NextOf(probe, n, r, s) /\ Now = CallAt(<<n, r, s>>)
  BY ONLY <1>1, at = <<n, r, s>> DEF After, NextOf, Now
<1>3. PartsOf(probe) \in Nat /\ \A m \in Int : /\ RoundsOf(probe, m) \in Nat \ {0}
                             /\ \A k : StepsOf(probe, m, k) \in Nat \ {0}
  BY ShapeNumbers
<1>4. CASE s < StepsOf(probe, n, r)
  <2>1. IsPlace(probe, n, r, s + 1)
    BY ONLY <1>3, <1>4, IsPlace(probe, n, r, s) DEF IsPlace
  <2> QED BY ONLY <1>2, <1>4, <2>1, PositionsAre, probe \in Probes DEF NextOf
<1>5. CASE ~(s < StepsOf(probe, n, r)) /\ r < RoundsOf(probe, n)
  <2>1. IsPlace(probe, n, r + 1, 1)
    BY ONLY <1>3, <1>5, IsPlace(probe, n, r, s) DEF IsPlace
  <2> QED BY ONLY <1>2, <1>5, <2>1, PositionsAre, probe \in Probes DEF NextOf
<1>6. CASE ~(s < StepsOf(probe, n, r)) /\ ~(r < RoundsOf(probe, n)) /\ n < PartsOf(probe)
  <2>1. IsPlace(probe, n + 1, 1, 1)
    BY ONLY <1>3, <1>6, IsPlace(probe, n, r, s) DEF IsPlace
  <2> QED BY ONLY <1>2, <1>6, <2>1, PositionsAre, probe \in Probes DEF NextOf
<1>7. CASE ~(s < StepsOf(probe, n, r)) /\ ~(r < RoundsOf(probe, n)) /\ ~(n < PartsOf(probe))
  <2>1. n = PartsOf(probe)
    BY ONLY <1>3, <1>7, IsPlace(probe, n, r, s) DEF IsPlace
  <2> QED BY ONLY <1>1, <1>2, <1>7, <2>1 DEF NextOf
<1> QED BY ONLY <1>2, <1>4, <1>5, <1>6, <1>7

-----------------------------------------------------------------------------
(* What a step of the host does *)

\* The whole of a call c: what each variable becomes.
HostEffect(c) ==
    /\ ~Ended /\ at' = After /\ UNCHANGED <<probe, elements, thrown, running, word>>
    /\ current' = IF c.call = "device" THEN c.dev ELSE current
    /\ queue' = IF c.call = "work" THEN queue \cup {[at |-> at, gpus |-> {current} \cup c.others]}
                ELSE IF c.call = "record" THEN queue \cup {[at |-> at, gpus |-> {current}]}
                ELSE queue
    /\ content' = IF c.call = "malloc" THEN [content EXCEPT ![c.buf] = Nobody]
                  ELSE IF c.call = "free" THEN [content EXCEPT ![c.buf] = Unallocated]
                  ELSE content
    /\ event' = IF c.call = "record" THEN [event EXCEPT ![c.evt] = "recorded"]
                ELSE IF c.call = "create" THEN [start |-> "created", stop |-> "created"]
                ELSE IF c.call = "destroy" THEN [start |-> "none", stop |-> "none"]
                ELSE event
    /\ during' = IF c.call = "create" THEN {} ELSE during
    /\ partial' = IF c.call = "create" THEN {} ELSE partial
    /\ timed' = IF c.call = "elapsed" THEN <<at, during, partial>> ELSE timed
    /\ fetched' = IF c.call = "fetch" THEN <<at, content[c.buf]>> ELSE fetched
    /\ cycles' = IF c.call = "fetch" THEN [cycles EXCEPT ![c.name] = Append(@, word)]
                 ELSE cycles
    /\ c.call \in {"sync", "fetch"} => Idle
    /\ c.call = "wait" => event[c.evt] # "recorded"
    /\ c.call = "elapsed" => event = [start |-> "done", stop |-> "done"]

\* A step of the host is a call, or the end by an exception.
LEMMA HostSteps ==
    ASSUME Host
    PROVE  \/ HostEffect(Now)
           \/ thrown' = TRUE /\ UNCHANGED <<probe, elements, at, host, device, clock>>
<1> USE DEF HostEffect, host, device, clock, Call, Enqueue
<1>1. CASE SetDevice
  BY <1>1 DEF SetDevice
<1>2. CASE Malloc
  BY <1>2 DEF Malloc
<1>3. CASE Free
  BY <1>3 DEF Free
<1>4. CASE Issue
  BY <1>4 DEF Issue
<1>5. CASE Record
  BY <1>5 DEF Record
<1>6. CASE SyncDevice
  BY <1>6 DEF SyncDevice
<1>7. CASE WaitEvent
  BY <1>7 DEF WaitEvent
<1>8. CASE Fetch
  BY <1>8 DEF Fetch
<1>9. CASE CreateEvents
  BY <1>9 DEF CreateEvents
<1>10. CASE Elapsed
  BY <1>10 DEF Elapsed
<1>11. CASE DestroyEvents
  BY <1>11 DEF DestroyEvents
<1>12. CASE CallFails
  BY <1>12 DEF CallFails
<1> QED BY <1>1, <1>2, <1>3, <1>4, <1>5, <1>6, <1>7, <1>8, <1>9, <1>10, <1>11, <1>12
        DEF Host

\* The script does not change.
LEMMA SameScript ==
    ASSUME probe' = probe
    PROVE  /\ Positions' = Positions /\ Script' = Script
           /\ \A j : CallAt(j)' = CallAt(j)
<1>1. Script' = Script
  BY DEF Script
<1> QED BY <1>1 DEF Positions, CallAt

-----------------------------------------------------------------------------
(* What a step of the GPUs does *)

\* The work of a call, as it is in the queue.
Entry(p, n, r, t) == [at |-> <<n, r, t>>, gpus |-> NeedsOf(p, n, t)]

\* The queue and what runs, as calls of the round.
LEMMA PendIs ==
    ASSUME OfThisRound, NEW n, NEW r, NEW s, at = <<n, r, s>>
    PROVE  /\ \A t : t \in Pend <=> Entry(probe, n, r, t) \in queue
           /\ \A w \in queue : w.at[3] \in Pend /\ w = Entry(probe, n, r, w.at[3])
           /\ \A t \in Pend : /\ t \in 1 .. (s - 1)
                              /\ t \in WorksOf(probe, n, r) \cup RecordsOf(probe, n)
           /\ \A t : t \in Run <=> <<n, r, t>> \in running
           /\ \A j \in running : j[3] \in Run /\ j = <<n, r, j[3]>>
           /\ \A t \in Run : t \in Pend /\ t \in WorksOf(probe, n, r)
           /\ queue = {} <=> Pend = {}
<1>1. \A w \in queue : \E t \in 1 .. (s - 1) :
         w = Entry(probe, n, r, t) /\ t \in WorksOf(probe, n, r) \cup RecordsOf(probe, n)
  BY at = <<n, r, s>> DEF OfThisRound, Entry
<1>2. \A t : Entry(probe, n, r, t).at[3] = t
  BY DEF Entry
<1>3. \A w \in queue : w.at[3] \in Pend
  BY DEF Pend
<1>4. \A t \in Pend : \E w \in queue : t = w.at[3]
  BY DEF Pend
<1>5. \A j \in running : \E t \in Pend \cap WorksOf(probe, n, r) : j = <<n, r, t>>
  BY at = <<n, r, s>> DEF OfThisRound
<1>6. \A j \in running : j[3] \in Run
  BY DEF Run
<1>7. \A t \in Run : \E j \in running : t = j[3]
  BY DEF Run
<1>8. \A w \in queue : w = Entry(probe, n, r, w.at[3])
  BY ONLY <1>1, <1>2
<1>9. \A t : t \in Pend <=> Entry(probe, n, r, t) \in queue
  BY ONLY <1>2, <1>3, <1>4, <1>8
<1>10. \A t \in Pend : t \in 1 .. (s - 1) /\ t \in WorksOf(probe, n, r) \cup RecordsOf(probe, n)
  BY ONLY <1>1, <1>2, <1>4
<1>11. \A j \in running : j = <<n, r, j[3]>>
  BY ONLY <1>5
<1>12. \A t : t \in Run <=> <<n, r, t>> \in running
  BY ONLY <1>6, <1>7, <1>11
<1>13. \A t \in Run : t \in Pend /\ t \in WorksOf(probe, n, r)
  BY ONLY <1>5, <1>7
<1>14. queue = {} <=> Pend = {}
  BY ONLY <1>3, <1>4
<1> QED BY ONLY <1>3, <1>6, <1>8, <1>9, <1>10, <1>11, <1>12, <1>13, <1>14

\* Nothing before the call is left to one of its GPUs.
First(n, t) == \A u \in Pend : u < t => ~Meet(probe, n, t, u)

\* What begins, ends or is stamped is the work of call t of the round.
BeginEffect(n, r, t) ==
    /\ t \in Pend \ Run /\ t \in WorksOf(probe, n, r) /\ First(n, t)
    /\ Pend' = Pend /\ queue' = queue
    /\ Run' = Run \cup {t} /\ running' = running \cup {<<n, r, t>>}
    /\ during' = IF Timing THEN during \cup {<<n, r, t>>} ELSE during
    /\ UNCHANGED <<probe, elements, at, thrown, host, content, word, event, partial>>

FinishEffect(n, r, t) ==
    /\ t \in Run
    /\ Pend' = Pend \ {t} /\ queue' = queue \ {Entry(probe, n, r, t)}
    /\ Run' = Run \ {t} /\ running' = running \ {<<n, r, t>>}
    /\ content' = [b \in Buffers |-> IF b \in CallAt(<<n, r, t>>).writes THEN <<n, r, t>>
                                                                         ELSE content[b]]
    /\ \/ /\ CallAt(<<n, r, t>>).name \in Kernels
          /\ \E k \in Noise : word' = Cost[CallAt(<<n, r, t>>).name] + k
       \/ CallAt(<<n, r, t>>).name \notin Kernels /\ word' = word
    /\ UNCHANGED <<probe, elements, at, thrown, host, clock>>

StampEffect(n, r, t) ==
    /\ t \in Pend /\ t \in RecordsOf(probe, n) /\ First(n, t)
    /\ Pend' = Pend \ {t} /\ queue' = queue \ {Entry(probe, n, r, t)}
    /\ Run' = Run /\ running' = running
    /\ event' = [event EXCEPT ![CallAt(<<n, r, t>>).evt] = "done"]
    /\ \/ /\ CallAt(<<n, r, t>>).evt = "start"
          /\ during' = running /\ partial' = running
       \/ /\ CallAt(<<n, r, t>>).evt = "stop"
          /\ during' = during /\ partial' = partial \cup running
    /\ UNCHANGED <<probe, elements, at, thrown, host, content, word>>

\* A step of the GPUs is one of them.
LEMMA DeviceSteps ==
    ASSUME OfThisRound, probe \in Probes, Device,
           NEW n, NEW r, NEW s, IsPlace(probe, n, r, s), at = <<n, r, s>>
    PROVE  \E t \in 1 .. (s - 1) :
              BeginEffect(n, r, t) \/ FinishEffect(n, r, t) \/ StampEffect(n, r, t)
<1>1. PICK w \in queue : Begin(w) \/ Finish(w) \/ Stamp(w)
  BY DEF Device
<1> DEFINE t == w.at[3]
<1>2. t \in Pend /\ w = Entry(probe, n, r, t) /\ t \in 1 .. (s - 1)
      /\ t \in WorksOf(probe, n, r) \cup RecordsOf(probe, n)
  BY PendIs
<1>3. w.at = <<n, r, t>> /\ w.gpus = NeedsOf(probe, n, t)
  BY <1>2 DEF Entry
<1>4. KindOf(probe, n, r, t, CallAt(w.at).call)
  <2>1. n \in Int /\ r \in Int /\ s \in 1 .. StepsOf(probe, n, r)
        /\ StepsOf(probe, n, r) \in Nat
    BY ShapeNumbers DEF IsPlace
  <2>2. t \in 1 .. StepsOf(probe, n, r)
    BY ONLY <1>2, <2>1
  <2> QED BY <1>3, <2>2, Kinds DEF IsPlace
<1> HIDE DEF t
<1>5. IsNext(w) => First(n, t)
  <2> SUFFICES ASSUME IsNext(w), NEW u \in Pend, u < t, Meet(probe, n, t, u)
               PROVE  FALSE
    BY DEF First
  <2>1. Entry(probe, n, r, u) \in queue /\ u \in 1 .. (s - 1)
    BY PendIs
  <2> DEFINE v == Entry(probe, n, r, u)
  <2>2. v.at = <<n, r, u>> /\ v.gpus = NeedsOf(probe, n, u)
    BY DEF Entry
  <2> HIDE DEF v
  <2>3. n \in Int /\ r \in Int /\ s \in Int
    BY ShapeNumbers DEF IsPlace
  <2>4. v # w /\ v.gpus \cap w.gpus # {}
    BY <1>2, <1>3, <2>1, <2>2 DEF Meet
  <2>5. Precedes(w.at, v.at)
    BY <2>1, <2>4 DEF IsNext, v
  <2> QED BY ONLY <1>2, <1>3, <2>1, <2>2, <2>3, <2>5, u < t DEF Precedes
<1>6. ASSUME queue' = queue \ {w}
      PROVE  Pend' = Pend \ {t}
  <2>1. \A u : u \in Pend' <=> \E v \in queue \ {w} : v.at[3] = u
    BY <1>6 DEF Pend
  <2>2. \A v \in queue : v = Entry(probe, n, r, v.at[3]) /\ v.at[3] \in Pend
    BY PendIs
  <2>3. \A u \in Pend : \E v \in queue : v.at[3] = u
    BY DEF Pend
  <2>4. w.at[3] = t
    BY DEF t
  <2>5. \A v \in queue : v.at[3] = t => v = w
    BY ONLY <1>2, <2>2
  <2> QED BY ONLY <2>1, <2>2, <2>3, <2>4, <2>5
<1>7. \A j \in running : j = <<n, r, j[3]>>
  BY PendIs
<1>8. CASE Begin(w)
  <2>1. Pend' = Pend /\ Run' = Run \cup {t}
    BY <1>3, <1>8 DEF Begin, Pend, Run
  <2>2. t \notin Run
    BY <1>3, <1>8, PendIs DEF Begin
  <2>3. t \in WorksOf(probe, n, r)
    BY <1>4, <1>8 DEF KindOf, Begin
  <2>4. BeginEffect(n, r, t)
    BY <1>2, <1>3, <1>5, <1>8, <2>1, <2>2, <2>3 DEF BeginEffect, Begin
  <2> QED BY <1>2, <2>4
<1>9. CASE Finish(w)
  <2>1. running' = running \ {<<n, r, t>>}
    BY <1>3, <1>9 DEF Finish
  <2>2. Run' = Run \ {t}
    <3>1. \A u : u \in Run' <=> \E j \in running \ {<<n, r, t>>} : j[3] = u
      BY <2>1 DEF Run
    <3>2. \A u : u \in Run <=> \E j \in running : j[3] = u
      BY DEF Run
    <3>3. \A j \in running : j[3] = t => j = <<n, r, t>>
      BY ONLY <1>7
    <3>4. <<n, r, t>>[3] = t
      OBVIOUS
    <3> QED BY ONLY <3>1, <3>2, <3>3, <3>4
  <2>3. t \in Run
    BY <1>3, <1>9, PendIs DEF Finish
  <2>4. FinishEffect(n, r, t)
    BY <1>2, <1>3, <1>6, <1>9, <2>1, <2>2, <2>3 DEF FinishEffect, Finish
  <2> QED BY <1>2, <2>4
<1>10. CASE Stamp(w)
  <2>1. Run' = Run
    BY <1>10 DEF Stamp, Run
  <2>2. t \in RecordsOf(probe, n)
    BY <1>4, <1>10 DEF KindOf, Stamp
  <2>3. StampEffect(n, r, t)
    BY <1>2, <1>3, <1>5, <1>6, <1>10, <2>1, <2>2 DEF StampEffect, Stamp
  <2> QED BY <1>2, <2>3
<1> QED BY <1>1, <1>8, <1>9, <1>10

-----------------------------------------------------------------------------
(* The queue *)

\* The host and the GPUs act only where there is a call.
LEMMA HostPlace ==
    ASSUME TypeOK, ~Ended
    PROVE  \E n, r, s : IsPlace(probe, n, r, s) /\ at = <<n, r, s>>
<1>1. probe \in Probes /\ (at \in Positions \/ at = <<Len(Script) + 1, 1, 1>>)
  BY DEF TypeOK
<1>2. at # <<Len(Script) + 1, 1, 1>>
  <2> SUFFICES ASSUME at = <<Len(Script) + 1, 1, 1>> PROVE FALSE
    OBVIOUS
  <2>1. at[1] = Len(Script) + 1 /\ Len(Script) \in Nat
    BY <1>1, Shape, ShapeNumbers
  <2> QED BY <2>1 DEF Ended
<1> QED BY ONLY <1>1, <1>2, PositionsAre

\* And the GPUs have work only in the middle of a round.
LEMMA DevicePlace ==
    ASSUME TypeOK, OfThisRound, Device
    PROVE  \E n, r, s : IsPlace(probe, n, r, s) /\ at = <<n, r, s>>
<1>1. probe \in Probes /\ (at \in Positions \/ at = <<Len(Script) + 1, 1, 1>>)
  BY DEF TypeOK
<1>2. \E t \in 1 .. (at[3] - 1) : TRUE
  BY DEF Device, OfThisRound
<1>3. at # <<Len(Script) + 1, 1, 1>>
  BY ONLY <1>2
<1> QED BY ONLY <1>1, <1>3, PositionsAre

\* The call that leaves work or an event is made for the GPUs it is about.
LEMMA Needs ==
    ASSUME Current, probe \in Probes,
           NEW n, NEW r, NEW s, IsPlace(probe, n, r, s), at = <<n, r, s>>
    PROVE  LET c == CallAt(<<n, r, s>>)
           IN  /\ c.call = "work" => {current} \cup c.others = NeedsOf(probe, n, s)
               /\ c.call = "record" => {current} = NeedsOf(probe, n, s)
<1>1. KindOf(probe, n, r, s, CallAt(<<n, r, s>>).call)
  BY Kinds DEF IsPlace
<1>2. /\ \A x : bench(x).others = {}
      /\ \A x : LaunchOf(x).others = {}
      /\ \A b : cudaMemset(b).others = {}
      /\ \A x, y, d : cudaMemcpyPeerAsync(x, y, d).others = {d}
  BY ONLY DEF bench, LaunchOf, launch, cudaMemset, cudaMemcpyPeerAsync, Work
<1>3. CASE probe = "ptx-latency"
  <2>0. kSamples \in Nat \ {0}
    BY TimingAssumption
  <2>1. ASSUME s \in WorksOf(probe, n, r)
        PROVE  n \in 2 .. 5 /\ CallAt(<<n, r, s>>) = bench(KernelOf[n])
    <3>1. n \in 2 .. 5 /\ \/ r = 1 /\ s = 3
                          \/ r \in 2 .. (kSamples + 1) /\ s = 1
      BY ONLY <1>3, <2>0, <2>1, IsPlace(probe, n, r, s)
         DEF WorksOf, IsPlace, PartsOf, RoundsOf, StepsOf
    <3> QED BY ONLY <1>3, <3>1, PtxCalls
  <2>2. s \in WorksOf(probe, n, r) => current = gpu
    BY <1>3, <2>1 DEF Current
  <2> QED BY ONLY <1>1, <1>2, <1>3, <2>1, <2>2 DEF KindOf, NeedsOf, RecordsOf
<1>4. CASE probe = "hbm-bandwidth"
  <2>1. ASSUME s \in WorksOf(probe, n, r)
        PROVE  n \in 2 .. 4 /\ CallAt(<<n, r, s>>) = LaunchOf(n)
    <3>1. n \in 2 .. 4 /\ r = 1 /\ s \in {2, 5}
      BY ONLY <1>4, <2>1, IsPlace(probe, n, r, s)
         DEF WorksOf, IsPlace, PartsOf, RoundsOf, StepsOf
    <3> QED BY ONLY <1>4, <3>1, HbmCalls
  <2>2. s \in RecordsOf(probe, n) => n \in 2 .. 4
    BY ONLY <1>4 DEF RecordsOf
  <2>3. s \in WorksOf(probe, n, r) \cup RecordsOf(probe, n) => current = gpu
    BY <1>4, <2>1, <2>2 DEF Current
  <2> QED BY ONLY <1>1, <1>2, <1>4, <2>1, <2>3 DEF KindOf, NeedsOf
<1>5. CASE probe = "fabric-smoke"
  <2>1. n \in 1 .. Len(Pairs) /\ r = 1
    BY ONLY <1>5, IsPlace(probe, n, r, s) DEF IsPlace, PartsOf, RoundsOf
  <2>2. /\ CallAt(<<n, 1, 3>>) = cudaMemset("d_src")
        /\ CallAt(<<n, 1, 6>>) = cudaMemset("d_dst")
        /\ CallAt(<<n, 1, 9>>) = cudaMemcpyPeerAsync("d_dst", "d_src", Pairs[n][1])
    BY ONLY <1>5, <2>1, FabricCalls
  <2>3. /\ s = 3 => current = Pairs[n][1]
        /\ s \in {6, 8, 9, 10} => current = Pairs[n][2]
    <3>1. at[1] = n /\ at[3] = s
      OBVIOUS
    <3>2. /\ at[3] \in 2 .. 4 => current = Pairs[at[1]][1]
          /\ at[3] \in 5 .. 15 => current = Pairs[at[1]][2]
      BY <1>5 DEF Current
    <3> QED BY ONLY <3>1, <3>2
  <2>4. /\ CallAt(<<n, r, s>>).call = "work" => s = 3 \/ s = 6 \/ s = 9
        /\ CallAt(<<n, r, s>>).call = "record" => s = 8 \/ s = 10
    BY ONLY <1>1, <1>5 DEF KindOf, WorksOf, RecordsOf
  <2>5. /\ s = 3 => CallAt(<<n, r, s>>).others = {}
        /\ s = 6 => CallAt(<<n, r, s>>).others = {}
        /\ s = 9 => CallAt(<<n, r, s>>).others = {Pairs[n][1]}
    BY ONLY <1>2, <2>1, <2>2
  <2>6. NeedsOf(probe, n, s) = IF s = 3 THEN {Pairs[n][1]}
                               ELSE IF s = 9 THEN {Pairs[n][1], Pairs[n][2]}
                               ELSE {Pairs[n][2]}
    BY ONLY <1>5 DEF NeedsOf
  <2> QED BY ONLY <2>3, <2>4, <2>5, <2>6
<1> QED BY <1>3, <1>4, <1>5 DEF Probes

\* A single GPU that is idle has no work left.
LEMMA IdleEmpty ==
    ASSUME OfThisRound, Current, Idle, probe # "fabric-smoke",
           NEW n, NEW r, NEW s, at = <<n, r, s>>, at # <<1, 1, 1>>
    PROVE  queue = {}
<1>1. current = gpu
  BY DEF Current
<1>2. \A w \in queue : w = Entry(probe, n, r, w.at[3])
  BY PendIs
<1>3. \A t : Entry(probe, n, r, t).gpus = {gpu}
  BY DEF Entry, NeedsOf
<1> QED BY <1>1, <1>2, <1>3 DEF Idle

\* When the host leaves a round, no work of it is left.
LEMMA RoundEnd ==
    ASSUME OfThisRound, Waited, Current, probe \in Probes, HostEffect(Now),
           NEW n, NEW r, NEW s, IsPlace(probe, n, r, s), at = <<n, r, s>>,
           s = StepsOf(probe, n, r)
    PROVE  /\ queue = {} /\ s \notin WorksOf(probe, n, r) \cup RecordsOf(probe, n)
<1>0. kSamples \in Nat \ {0} /\ Now = CallAt(<<n, r, s>>)
  BY TimingAssumption, AfterIs
<1>1. KindOf(probe, n, r, s, CallAt(<<n, r, s>>).call)
  BY Kinds DEF IsPlace
<1>2. /\ Pend = {} => queue = {}
      /\ \A t \in Pend : t \in WorksOf(probe, n, r) \cup RecordsOf(probe, n)
  BY PendIs
<1>3. at[1] = n /\ at[2] = r /\ at[3] = s
  OBVIOUS
<1>4. CASE probe = "ptx-latency"
  <2>1. CASE n = 1 \/ r = kSamples + 2
    <3>1. WorksOf(probe, n, r) = {} /\ RecordsOf(probe, n) = {}
      BY ONLY <1>4, <2>1 DEF WorksOf, RecordsOf
    <3> QED BY ONLY <1>2, <3>1
  <2>2. CASE n # 1 /\ r = 1
    <3>1. s = 4 /\ n > 1
      BY ONLY <1>4, <2>2, s = StepsOf(probe, n, r), IsPlace(probe, n, r, s)
         DEF StepsOf, IsPlace, PartsOf
    <3>2. CallAt(<<n, r, s>>).call = "sync"
      BY ONLY <1>1, <1>4, <2>2, <3>1 DEF KindOf
    <3>3. Idle
      BY <1>0, <3>2 DEF HostEffect
    <3>4. queue = {}
      BY <1>4, <2>2, <3>3, IdleEmpty
    <3>5. WorksOf(probe, n, r) = {3} /\ RecordsOf(probe, n) = {}
      BY ONLY <1>0, <1>4, <2>2 DEF WorksOf, RecordsOf
    <3> QED BY ONLY <3>1, <3>4, <3>5
  <2>3. CASE n # 1 /\ r # 1 /\ r # kSamples + 2
    <3>1. s = 3 /\ r > 1
      BY ONLY <1>4, <2>3, s = StepsOf(probe, n, r), IsPlace(probe, n, r, s)
         DEF StepsOf, IsPlace, PartsOf
    <3>2. WorksOf(probe, n, r) = {1} /\ RecordsOf(probe, n) = {}
      BY ONLY <1>4, <2>3 DEF WorksOf, RecordsOf
    <3> QED BY <1>3, <1>4, <3>1, <3>2 DEF Waited
  <2> QED BY ONLY <2>1, <2>2, <2>3
<1>5. CASE probe = "hbm-bandwidth"
  <2>1. CASE n \in 2 .. 4
    <3>1. s = 9
      BY ONLY <1>5, <2>1, s = StepsOf(probe, n, r) DEF StepsOf
    <3>2. queue = {}
      BY <1>3, <1>5, <2>1, <3>1 DEF Waited, TimedPart, StartAt
    <3>3. WorksOf(probe, n, r) = {2, 5} /\ RecordsOf(probe, n) = {4, 6}
      BY ONLY <1>5, <2>1 DEF WorksOf, RecordsOf
    <3> QED BY ONLY <3>1, <3>2, <3>3
  <2>2. CASE n \notin 2 .. 4
    <3>1. WorksOf(probe, n, r) = {} /\ RecordsOf(probe, n) = {}
      BY ONLY <1>5, <2>2 DEF WorksOf, RecordsOf
    <3> QED BY ONLY <1>2, <3>1
  <2> QED BY ONLY <2>1, <2>2
<1>6. CASE probe = "fabric-smoke"
  <2>1. s = 16
    BY ONLY <1>6, s = StepsOf(probe, n, r) DEF StepsOf
  <2>2. queue = {}
    BY <1>3, <1>6, <2>1 DEF Waited, TimedPart, StartAt
  <2>3. WorksOf(probe, n, r) = {3, 6, 9} /\ RecordsOf(probe, n) = {8, 10}
    BY ONLY <1>6 DEF WorksOf, RecordsOf
  <2> QED BY ONLY <2>1, <2>2, <2>3
<1> QED BY <1>4, <1>5, <1>6 DEF Probes

\* A step of the host within a round, and out of it.
StaysIn(n, r, s) ==
    /\ s < StepsOf(probe, n, r) /\ at' = <<n, r, s + 1>>
    /\ IF s \in WorksOf(probe, n, r) \cup RecordsOf(probe, n)
       THEN Pend' = Pend \cup {s} /\ queue' = queue \cup {Entry(probe, n, r, s)}
       ELSE Pend' = Pend /\ queue' = queue
    /\ Run' = Run /\ running' = running
Leaves(n, r, s) ==
    /\ s = StepsOf(probe, n, r)
    /\ at' = IF r < RoundsOf(probe, n) THEN <<n, r + 1, 1>> ELSE <<n + 1, 1, 1>>
    /\ queue = {} /\ Pend = {} /\ running = {} /\ Run = {}
    /\ queue' = {} /\ Pend' = {} /\ running' = {} /\ Run' = {}

\* There is no other: the last call of a round leaves no work, and finds none.
LEMMA HostMoves ==
    ASSUME OfThisRound, Waited, Current, probe \in Probes, HostEffect(Now),
           NEW n, NEW r, NEW s, IsPlace(probe, n, r, s), at = <<n, r, s>>
    PROVE  StaysIn(n, r, s) \/ Leaves(n, r, s)
<1>1. KindOf(probe, n, r, s, CallAt(<<n, r, s>>).call)
  BY Kinds DEF IsPlace
<1>2. Now = CallAt(<<n, r, s>>) /\ at' = NextOf(probe, n, r, s)
  BY AfterIs DEF HostEffect
<1>3. running' = running /\ Run' = Run
  BY DEF HostEffect, Run
<1>4. s <= StepsOf(probe, n, r) /\ s \in Int /\ StepsOf(probe, n, r) \in Int
  BY ShapeNumbers DEF IsPlace
<1>5. CASE s < StepsOf(probe, n, r)
  <2>1. IF s \in WorksOf(probe, n, r) \cup RecordsOf(probe, n)
        THEN queue' = queue \cup {Entry(probe, n, r, s)}
        ELSE queue' = queue
    <3>1. CASE s \in WorksOf(probe, n, r)
      <4>1. Now.call = "work"
        BY ONLY <1>1, <1>2, <3>1 DEF KindOf
      <4>2. {current} \cup Now.others = NeedsOf(probe, n, s)
        BY <1>2, <4>1, Needs
      <4> QED BY <3>1, <4>1, <4>2 DEF HostEffect, Entry
    <3>2. CASE s \in RecordsOf(probe, n) /\ s \notin WorksOf(probe, n, r)
      BY <1>1, <1>2, <3>2, Needs DEF KindOf, HostEffect, Entry
    <3>3. CASE s \notin WorksOf(probe, n, r) \cup RecordsOf(probe, n)
      BY <1>1, <1>2, <3>3 DEF KindOf, HostEffect
    <3> QED BY <3>1, <3>2, <3>3
  <2>2. Entry(probe, n, r, s).at[3] = s
    BY DEF Entry
  <2>3. IF s \in WorksOf(probe, n, r) \cup RecordsOf(probe, n)
        THEN Pend' = Pend \cup {s} ELSE Pend' = Pend
    BY <2>1, <2>2 DEF Pend
  <2> QED BY <1>2, <1>3, <1>5, <2>1, <2>3 DEF StaysIn, NextOf
<1>6. CASE s = StepsOf(probe, n, r)
  <2>1. queue = {} /\ s \notin WorksOf(probe, n, r) \cup RecordsOf(probe, n)
    BY <1>6, RoundEnd
  <2>2. queue' = {}
    BY <1>1, <1>2, <2>1 DEF KindOf, HostEffect
  <2>3. Pend = {} /\ Pend' = {}
    BY <2>1, <2>2 DEF Pend
  <2>4. running = {} /\ Run = {}
    BY <2>3, PendIs
  <2> QED BY <1>2, <1>3, <1>4, <1>6, <2>1, <2>2, <2>3, <2>4 DEF Leaves, NextOf
<1> QED BY ONLY <1>4, <1>5, <1>6

\* What the host adds comes last in the streams of its GPUs.
LEMMA QueueHost ==
    ASSUME OfThisRound, InOrder, Waited, Current, probe \in Probes, HostEffect(Now),
           NEW n, NEW r, NEW s, IsPlace(probe, n, r, s), at = <<n, r, s>>
    PROVE  OfThisRound' /\ InOrder'
<1>0. probe' = probe /\ s \in Int
  BY ShapeNumbers DEF HostEffect, IsPlace
<1>1. CASE Leaves(n, r, s)
  BY <1>1 DEF Leaves, OfThisRound, InOrder
<1>2. ASSUME StaysIn(n, r, s)
      PROVE  OfThisRound' /\ InOrder'
  <2> DEFINE WR == WorksOf(probe, n, r) \cup RecordsOf(probe, n)
  <2>1. at' = <<n, r, s + 1>> /\ running' = running /\ Run' = Run
    BY <1>2 DEF StaysIn
  <2>2. \A t \in Pend : t \in 1 .. (s - 1) /\ t \in WR
    BY PendIs
  <2>3. /\ \A t \in Pend' : t \in Pend \/ (t = s /\ s \in WR)
        /\ \A t \in Pend : t \in Pend'
        /\ s \in WR => s \in Pend'
    BY <1>2 DEF StaysIn
  <2>4. OfThisRound'
    <3>1. ASSUME NEW w \in queue'
          PROVE  \E t \in 1 .. s : w = Entry(probe, n, r, t) /\ t \in WR
      <4>1. CASE w \in queue
        BY <1>0, <4>1 DEF OfThisRound, Entry
      <4>2. CASE w \notin queue
        BY <1>0, <1>2, <3>1, <4>2, s \in 1 .. StepsOf(probe, n, r) DEF StaysIn, IsPlace
      <4> QED BY <4>1, <4>2
    <3>2. ASSUME NEW j \in running'
          PROVE  \E t \in Pend' \cap WorksOf(probe, n, r) : j = <<n, r, t>>
      BY <2>1, <2>3, <3>2, PendIs
    <3> HIDE DEF WR
    <3>3. at'[1] = n /\ at'[2] = r /\ at'[3] - 1 = s
      BY <1>0, <2>1
    <3> QED BY <1>0, <3>1, <3>2, <3>3 DEF OfThisRound, Entry, WR
  <2>5. InOrder'
    <3>1. \A a \in Run, t \in Pend : t < a => ~Meet(probe, n, a, t)
      BY DEF InOrder
    <3>2. \A a \in Pend : \A t \in WR :
             a < t /\ t < s /\ Meet(probe, n, a, t) => t \in Pend
      BY DEF InOrder
    <3>3. \A a \in Run : a \in 1 .. (s - 1)
      BY <2>2, PendIs
    <3> HIDE DEF WR
    <3>4. \A a \in Run, t \in Pend' : t < a => ~Meet(probe, n, a, t)
      BY ONLY <1>0, <2>3, <3>1, <3>3
    <3>5. \A a \in Pend' : \A t \in WR :
             a < t /\ t < s + 1 /\ Meet(probe, n, a, t) => t \in Pend'
      <4>1. WR \subseteq Int
        <5>1. WR \subseteq 1 .. 10
          BY DEF WR, WorksOf, RecordsOf
        <5> QED BY <5>1
      <4> QED BY ONLY <1>0, <2>2, <2>3, <3>2, <4>1
    <3>6. at'[1] = n /\ at'[2] = r /\ at'[3] = s + 1
      BY <1>0, <2>1
    <3> QED BY <1>0, <2>1, <3>4, <3>5, <3>6 DEF InOrder, WR
  <2> QED BY <2>4, <2>5
<1> QED BY <1>1, <1>2, HostMoves

\* Two calls share a GPU or not.
LEMMA MeetSymmetric == \A p, n, a, b : Meet(p, n, a, b) <=> Meet(p, n, b, a)
  BY DEF Meet

\* The GPUs take the first of what shares a GPU with it.
LEMMA QueueDevice ==
    ASSUME OfThisRound, InOrder, probe \in Probes,
           NEW n, NEW r, NEW s, IsPlace(probe, n, r, s), at = <<n, r, s>>,
           NEW t \in 1 .. (s - 1),
           BeginEffect(n, r, t) \/ FinishEffect(n, r, t) \/ StampEffect(n, r, t)
    PROVE  OfThisRound' /\ InOrder'
<1>0. probe' = probe /\ at' = at /\ at[1] = n /\ at[2] = r /\ at[3] = s
  BY DEF BeginEffect, FinishEffect, StampEffect
<1>1. /\ \A a \in Run, b \in Pend : b < a => ~Meet(probe, n, a, b)
      /\ \A a \in Pend : \A b \in WorksOf(probe, n, r) \cup RecordsOf(probe, n) :
            a < b /\ b < s /\ Meet(probe, n, a, b) => b \in Pend
  BY <1>0 DEF InOrder
<1>2. \A u : Entry(probe, n, r, u).at[3] = u /\ Entry(probe, n, r, u).at = <<n, r, u>>
  BY DEF Entry
<1>3. OfThisRound'
  <2>1. \A w \in queue' : w \in queue
    BY DEF BeginEffect, FinishEffect, StampEffect
  <2>2. ASSUME NEW j \in running'
        PROVE  \E u \in Pend' \cap WorksOf(probe, n, r) : j = <<n, r, u>>
    <3>1. \A i \in running : i[3] \in Run /\ i = <<n, r, i[3]>>
      BY PendIs
    <3>2. \A u \in Run : u \in Pend /\ u \in WorksOf(probe, n, r)
      BY PendIs
    <3>3. CASE BeginEffect(n, r, t)
      BY ONLY <2>2, <3>1, <3>2, <3>3 DEF BeginEffect
    <3>4. CASE FinishEffect(n, r, t)
      <4>1. j \in running /\ j # <<n, r, t>> /\ Pend' = Pend \ {t}
        BY <2>2, <3>4 DEF FinishEffect
      <4> QED BY ONLY <3>1, <3>2, <4>1
    <3>5. CASE StampEffect(n, r, t)
      <4>1. j \in running /\ Pend' = Pend \ {t} /\ t \in RecordsOf(probe, n)
        BY <2>2, <3>5 DEF StampEffect
      <4>2. t \notin WorksOf(probe, n, r)
        BY ONLY <4>1, probe \in Probes DEF RecordsOf, WorksOf, Probes
      <4> QED BY ONLY <3>1, <3>2, <4>1, <4>2
    <3> QED BY <3>3, <3>4, <3>5
  <2> QED BY <1>0, <2>1, <2>2 DEF OfThisRound
<1>4. CASE BeginEffect(n, r, t)
  <2>1. Pend' = Pend /\ Run' = Run \cup {t} /\ First(n, t)
    BY <1>4 DEF BeginEffect
  <2>2. \A a \in Run', b \in Pend' : b < a => ~Meet(probe, n, a, b)
    BY ONLY <1>1, <2>1 DEF First
  <2> QED BY <1>0, <1>1, <1>3, <2>1, <2>2 DEF InOrder
<1>5. ASSUME FinishEffect(n, r, t) \/ StampEffect(n, r, t)
      PROVE  InOrder'
  <2>1. Pend' = Pend \ {t} /\ \A a \in Run' : a \in Run
    BY <1>5 DEF FinishEffect, StampEffect
  <2>2. \A b \in Pend : b < t => ~Meet(probe, n, b, t)
    BY <1>1, <1>5, MeetSymmetric DEF FinishEffect, StampEffect, First
  <2>3. \A a \in Run', b \in Pend' : b < a => ~Meet(probe, n, a, b)
    BY ONLY <1>1, <2>1
  <2>4. \A a \in Pend' : \A b \in WorksOf(probe, n, r) \cup RecordsOf(probe, n) :
           a < b /\ b < s /\ Meet(probe, n, a, b) => b \in Pend'
    BY ONLY <1>1, <2>1, <2>2
  <2> QED BY <1>0, <2>3, <2>4 DEF InOrder
<1> QED BY <1>3, <1>4, <1>5

\* With the stop event all that was issued before it is over.
LEMMA Drained ==
    ASSUME OfThisRound, InOrder, probe \in Probes,
           NEW n, NEW r, NEW s, IsPlace(probe, n, r, s), at = <<n, r, s>>,
           TimedPart(probe, n), StartAt(probe) + 2 < s, StartAt(probe) + 2 \notin Pend
    PROVE  Pend = {} /\ queue = {}
<1>1. /\ \A a \in Pend : a \in WorksOf(probe, n, r) \cup RecordsOf(probe, n)
      /\ \A a \in Pend : \A b \in WorksOf(probe, n, r) \cup RecordsOf(probe, n) :
            a < b /\ b < s /\ Meet(probe, n, a, b) => b \in Pend
      /\ Pend = {} => queue = {}
  BY PendIs DEF InOrder
<1>2. s \in Int
  BY ShapeNumbers DEF IsPlace
<1>3. CASE probe = "hbm-bandwidth"
  <2>1. /\ WorksOf(probe, n, r) \cup RecordsOf(probe, n) = {2, 4, 5, 6}
        /\ StartAt(probe) = 4 /\ \A a : Meet(probe, n, a, 6)
    BY ONLY <1>3, TimedPart(probe, n)
       DEF TimedPart, WorksOf, RecordsOf, StartAt, Meet, NeedsOf
  <2> QED BY ONLY <1>1, <1>2, <2>1, StartAt(probe) + 2 < s, StartAt(probe) + 2 \notin Pend
<1>4. CASE probe = "fabric-smoke"
  <2>1. /\ WorksOf(probe, n, r) \cup RecordsOf(probe, n) = {3, 6, 8, 9, 10}
        /\ StartAt(probe) = 8
    BY ONLY <1>4 DEF WorksOf, RecordsOf, StartAt
  <2>2. /\ Meet(probe, n, 3, 9) /\ Meet(probe, n, 6, 10)
        /\ Meet(probe, n, 8, 10) /\ Meet(probe, n, 9, 10)
    BY ONLY <1>4 DEF Meet, NeedsOf
  <2>3. 3 \notin Pend /\ 6 \notin Pend /\ 8 \notin Pend /\ 9 \notin Pend /\ 10 \notin Pend
    BY ONLY <1>1, <1>2, <2>1, <2>2, StartAt(probe) + 2 < s, StartAt(probe) + 2 \notin Pend
  <2> QED BY ONLY <1>1, <2>1, <2>3
<1> QED BY <1>3, <1>4, TimedPart(probe, n) DEF TimedPart

\* The events, in a timed part.
LEMMA EventsAre ==
    ASSUME Events, NEW n, NEW r, NEW s \in Int, at = <<n, r, s>>,
           TimedPart(probe, n), CreateAt(probe) < s, s <= StartAt(probe) + 5
    PROVE  LET a == StartAt(probe)
           IN  /\ event.start = IF s <= a THEN "created"
                                ELSE IF a \in Pend THEN "recorded" ELSE "done"
               /\ event.stop = IF s <= a + 2 THEN "created"
                               ELSE IF a + 2 \in Pend THEN "recorded" ELSE "done"
<1>1. at[1] = n /\ at[3] = s
  OBVIOUS
<1>2. CreateAt(probe) \in Int /\ StartAt(probe) \in Int
  BY DEF CreateAt, StartAt
<1> QED BY <1>1, <1>2 DEF Events, StateOf

\* A call that waits is passed when what it waits for is over.
LEMMA WaitedHost ==
    ASSUME OfThisRound, InOrder, Waited, Current, Events, probe \in Probes,
           HostEffect(Now),
           NEW n, NEW r, NEW s, IsPlace(probe, n, r, s), at = <<n, r, s>>
    PROVE  Waited'
<1>0. probe' = probe /\ s \in Int /\ n \in Int /\ r \in Int
  BY ShapeNumbers DEF HostEffect, IsPlace
<1>1. KindOf(probe, n, r, s, CallAt(<<n, r, s>>).call) /\ Now = CallAt(<<n, r, s>>)
  BY Kinds, AfterIs DEF IsPlace
<1>2. at[1] = n /\ at[2] = r /\ at[3] = s
  OBVIOUS
<1>3. CASE Leaves(n, r, s)
  BY <1>3 DEF Leaves, Waited
<1>4. ASSUME StaysIn(n, r, s)
      PROVE  Waited'
  <2>1. at'[1] = n /\ at'[2] = r /\ at'[3] = s + 1
    BY <1>4 DEF StaysIn
  <2>2. s \notin WorksOf(probe, n, r) \cup RecordsOf(probe, n) => queue' = queue
    BY <1>4 DEF StaysIn
  <2>3. ASSUME probe = "ptx-latency", r > 1, s + 1 = 3
        PROVE  queue' = {}
    <3>1. s = 2 /\ n > 1 /\ r < kSamples + 2 /\ r \in 2 .. (kSamples + 1) /\ n # 1 /\ r # 1
      <4>1. kSamples \in Nat
        BY TimingAssumption
      <4> QED BY ONLY <1>0, <1>4, <2>3, <4>1, IsPlace(probe, n, r, s)
              DEF StaysIn, IsPlace, PartsOf, RoundsOf, StepsOf
    <3>2. s \notin WorksOf(probe, n, r) \cup RecordsOf(probe, n)
      BY ONLY <2>3, <3>1 DEF WorksOf, RecordsOf
    <3>3. Now.call = "sync"
      BY ONLY <1>1, <2>3, <3>1 DEF KindOf
    <3>4. Idle
      BY <3>3 DEF HostEffect
    <3> QED BY <2>2, <2>3, <3>1, <3>2, <3>4, IdleEmpty
  <2>4. ASSUME probe = "hbm-bandwidth", s + 1 > 3
        PROVE  2 \notin Pend'
    <3>1. \A t \in Pend' : t \in Pend \/ t = s
      BY <1>4 DEF StaysIn
    <3>2. CASE s > 3
      BY ONLY <1>0, <1>2, <2>4, <3>1, <3>2, Waited DEF Waited
    <3>3. CASE s = 3 /\ n \in 2 .. 4
      <4>1. Now.call = "sync"
        BY ONLY <1>1, <2>4, <3>3 DEF KindOf
      <4>2. queue = {}
        BY <2>4, <3>3, <4>1, IdleEmpty DEF HostEffect
      <4>3. Pend = {}
        BY <4>2 DEF Pend
      <4> QED BY ONLY <3>1, <3>3, <4>3
    <3>4. CASE s = 3 /\ n \notin 2 .. 4
      <4>1. WorksOf(probe, n, r) = {} /\ RecordsOf(probe, n) = {}
        BY ONLY <2>4, <3>4 DEF WorksOf, RecordsOf
      <4>2. Pend = {}
        BY <4>1, PendIs
      <4> QED BY ONLY <3>1, <3>4, <4>2
    <3> QED BY ONLY <1>0, <2>4, <3>2, <3>3, <3>4
  <2>5. ASSUME TimedPart(probe, n), s + 1 > StartAt(probe) + 3
        PROVE  queue' = {}
    <3>1. /\ StartAt(probe) \in Int /\ CreateAt(probe) \in Int
          /\ CreateAt(probe) < StartAt(probe)
      BY ONLY DEF StartAt, CreateAt
    <3>2. s \notin WorksOf(probe, n, r) \cup RecordsOf(probe, n)
      BY ONLY <1>0, <2>5 DEF WorksOf, RecordsOf, StartAt, TimedPart
    <3>3. CASE s > StartAt(probe) + 3
      BY <1>2, <2>2, <2>5, <3>2, <3>3 DEF Waited
    <3>4. CASE s = StartAt(probe) + 3
      <4>1. Now.call = "wait"
        BY ONLY <1>1, <2>5, <3>4 DEF KindOf
      <4>2. Now.evt = "stop"
        <5>1. CASE probe = "hbm-bandwidth"
          <6>1. n \in 2 .. 4 /\ r = 1 /\ s = 7
            BY ONLY <2>5, <3>4, <5>1, IsPlace(probe, n, r, s)
               DEF TimedPart, StartAt, IsPlace, RoundsOf
          <6>2. Now = cudaEventSynchronize("stop")
            BY <1>1, <5>1, <6>1, HbmCalls
          <6> QED BY ONLY <6>2 DEF cudaEventSynchronize
        <5>2. CASE probe = "fabric-smoke"
          <6>1. n \in 1 .. Len(Pairs) /\ r = 1 /\ s = 11
            BY ONLY <3>4, <5>2, IsPlace(probe, n, r, s)
               DEF StartAt, IsPlace, PartsOf, RoundsOf
          <6>2. Now = cudaEventSynchronize("stop")
            BY <1>1, <5>2, <6>1, FabricCalls
          <6> QED BY ONLY <6>2 DEF cudaEventSynchronize
        <5> QED BY <2>5, <5>1, <5>2 DEF TimedPart
      <4>3. event["stop"] # "recorded"
        BY <4>1, <4>2 DEF HostEffect
      <4>4. StartAt(probe) + 2 \notin Pend
        <5>1. event.stop = IF s <= StartAt(probe) + 2 THEN "created"
                           ELSE IF StartAt(probe) + 2 \in Pend THEN "recorded" ELSE "done"
          <6>1. CreateAt(probe) < s /\ s <= StartAt(probe) + 5
            BY ONLY <1>0, <3>1, <3>4
          <6> QED BY <1>0, <2>5, <6>1, EventsAre
        <5> QED BY ONLY <1>0, <3>1, <3>4, <4>3, <5>1
      <4>5. queue = {}
        BY <1>0, <2>5, <3>1, <3>4, <4>4, Drained
      <4> QED BY <2>2, <3>2, <4>5
    <3> QED BY ONLY <1>0, <2>5, <3>1, <3>3, <3>4
  <2> QED BY <1>0, <2>1, <2>3, <2>4, <2>5 DEF Waited
<1> QED BY <1>3, <1>4, HostMoves

\* The GPUs only take work away.
LEMMA WaitedDevice ==
    ASSUME Waited, NEW n, NEW r, NEW t,
           BeginEffect(n, r, t) \/ FinishEffect(n, r, t) \/ StampEffect(n, r, t)
    PROVE  Waited'
<1>1. /\ probe' = probe /\ at' = at /\ \A w \in queue' : w \in queue
      /\ \A u \in Pend' : u \in Pend
  BY DEF BeginEffect, FinishEffect, StampEffect
<1> QED BY <1>1 DEF Waited

\* The GPU is changed where the script says.
LEMMA CurrentHost ==
    ASSUME Current, TypeOK, HostEffect(Now),
           NEW n, NEW r, NEW s, IsPlace(probe, n, r, s), at = <<n, r, s>>,
           StaysIn(n, r, s) \/ Leaves(n, r, s)
    PROVE  Current' /\ current' \in Gpus
<1>0. probe' = probe /\ s \in Int /\ probe \in Probes /\ gpu \in Gpus /\ current \in Gpus
  BY TimingAssumption, ShapeNumbers DEF HostEffect, IsPlace, TypeOK
<1>1. KindOf(probe, n, r, s, CallAt(<<n, r, s>>).call) /\ Now = CallAt(<<n, r, s>>)
  BY <1>0, Kinds, AfterIs DEF IsPlace
<1>2. at[1] = n /\ at[2] = r /\ at[3] = s
  OBVIOUS
<1>3. /\ Now.call = "device" => current' = Now.dev
      /\ Now.call # "device" => current' = current
  BY DEF HostEffect
<1>4. CASE probe # "fabric-smoke"
  <2>1. CASE n = 1 /\ s = 1
    <3>1. r = 1
      BY ONLY <1>4, <2>1, IsPlace(probe, n, r, s) DEF IsPlace, RoundsOf
    <3>2. Now = cudaSetDevice(gpu)
      BY <1>0, <1>1, <1>4, <2>1, <3>1, PtxCalls, HbmCalls DEF Probes
    <3>3. Now.call = "device" /\ Now.dev = gpu
      BY ONLY <3>2 DEF cudaSetDevice
    <3> QED BY <1>0, <1>3, <1>4, <3>3 DEF Current
  <2>2. CASE ~(n = 1 /\ s = 1)
    <3>1. Now.call # "device"
      BY ONLY <1>1, <1>4, <2>2 DEF KindOf
    <3>2. current = gpu
      BY <1>2, <1>4, <2>2 DEF Current
    <3> QED BY <1>0, <1>3, <1>4, <3>1, <3>2 DEF Current
  <2> QED BY <2>1, <2>2
<1>5. CASE probe = "fabric-smoke"
  <2>1. n \in 1 .. Len(Pairs) /\ r = 1
    BY ONLY <1>5, IsPlace(probe, n, r, s) DEF IsPlace, PartsOf, RoundsOf
  <2>2. /\ s = 1 => Now = cudaSetDevice(Pairs[n][1])
        /\ s = 4 => Now = cudaSetDevice(Pairs[n][2])
        /\ s = 15 => Now = cudaSetDevice(Pairs[n][1])
    <3>1. /\ CallAt(<<n, 1, 1>>) = cudaSetDevice(Pairs[n][1])
          /\ CallAt(<<n, 1, 4>>) = cudaSetDevice(Pairs[n][2])
          /\ CallAt(<<n, 1, 15>>) = cudaSetDevice(Pairs[n][1])
      BY ONLY <1>5, <2>1, FabricCalls
    <3> QED BY ONLY <1>1, <2>1, <3>1
  <2>3. Pairs[n][1] \in Gpus /\ Pairs[n][2] \in Gpus
    BY <2>1, TimingAssumption
  <2>4. /\ s = 1 => current' = Pairs[n][1]
        /\ s = 4 => current' = Pairs[n][2]
        /\ s = 15 => current' = Pairs[n][1]
    BY ONLY <1>3, <2>2 DEF cudaSetDevice
  <2>5. s \notin {1, 4, 15} => current' = current
    BY ONLY <1>1, <1>3, <1>5 DEF KindOf
  <2>6. current' \in Gpus
    BY ONLY <1>0, <2>3, <2>4, <2>5
  <2>7. /\ s \in 2 .. 4 => current = Pairs[n][1]
        /\ s \in 5 .. 15 => current = Pairs[n][2]
    BY ONLY <1>2, <1>5, Current DEF Current
  <2>8. CASE Leaves(n, r, s)
    BY <1>0, <1>5, <2>6, <2>8 DEF Leaves, Current
  <2>9. CASE StaysIn(n, r, s)
    <3>1. at'[1] = n /\ at'[3] = s + 1
      BY <2>9 DEF StaysIn
    <3>2. /\ s + 1 \in 2 .. 4 => current' = Pairs[n][1]
          /\ s + 1 \in 5 .. 15 => current' = Pairs[n][2]
          /\ s + 1 = 16 => current' = Pairs[n][1]
      BY ONLY <1>0, <2>4, <2>5, <2>7
    <3> QED BY <1>0, <1>5, <2>6, <3>1, <3>2 DEF Current
  <2> QED BY <2>8, <2>9
<1> QED BY <1>4, <1>5

-----------------------------------------------------------------------------
(* The events *)

\* What is recorded around the work that is timed.
LEMMA Records ==
    ASSUME probe \in Probes, NEW n, NEW r, NEW s, IsPlace(probe, n, r, s),
           s \in RecordsOf(probe, n)
    PROVE  /\ TimedPart(probe, n)
           /\ \/ s = StartAt(probe) /\ CallAt(<<n, r, s>>).evt = "start"
              \/ s = StartAt(probe) + 2 /\ CallAt(<<n, r, s>>).evt = "stop"
<1>1. \A e : cudaEventRecord(e).evt = e
  BY ONLY DEF cudaEventRecord
<1>2. CASE probe = "hbm-bandwidth"
  <2>1. n \in 2 .. 4 /\ r = 1 /\ (s = 4 \/ s = 6) /\ StartAt(probe) = 4
    BY ONLY <1>2, IsPlace(probe, n, r, s), s \in RecordsOf(probe, n)
       DEF IsPlace, RoundsOf, RecordsOf, StartAt
  <2>2. /\ CallAt(<<n, 1, 4>>) = cudaEventRecord("start")
        /\ CallAt(<<n, 1, 6>>) = cudaEventRecord("stop")
    BY ONLY <1>2, <2>1, HbmCalls
  <2> QED BY ONLY <1>1, <1>2, <2>1, <2>2 DEF TimedPart
<1>3. CASE probe = "fabric-smoke"
  <2>1. n \in 1 .. Len(Pairs) /\ r = 1 /\ (s = 8 \/ s = 10) /\ StartAt(probe) = 8
    BY ONLY <1>3, IsPlace(probe, n, r, s), s \in RecordsOf(probe, n)
       DEF IsPlace, PartsOf, RoundsOf, RecordsOf, StartAt
  <2>2. /\ CallAt(<<n, 1, 8>>) = cudaEventRecord("start")
        /\ CallAt(<<n, 1, 10>>) = cudaEventRecord("stop")
    BY ONLY <1>3, <2>1, FabricCalls
  <2> QED BY ONLY <1>1, <1>3, <2>1, <2>2 DEF TimedPart
<1>4. CASE probe = "ptx-latency"
  BY ONLY <1>4, s \in RecordsOf(probe, n) DEF RecordsOf
<1> QED BY <1>2, <1>3, <1>4 DEF Probes

\* The calls of a timed part, and which of them wait for one another.
LEMMA TimedFacts ==
    ASSUME probe \in Probes, NEW n, NEW r, TimedPart(probe, n)
    PROVE  LET a == StartAt(probe)
               W == WorksOf(probe, n, r)
           IN  /\ a \in Int /\ CreateAt(probe) \in Int
               /\ 0 < CreateAt(probe) /\ CreateAt(probe) < a
               /\ RecordsOf(probe, n) = {a, a + 2}
               /\ W \subseteq Int /\ a \notin W /\ a + 1 \in W /\ a + 2 \notin W
               /\ Meet(probe, n, a, a + 1) /\ Meet(probe, n, a + 1, a + 2)
               /\ \A t \in W : t # a + 1 =>
                     /\ t < a
                     /\ \/ Meet(probe, n, t, a) /\ Meet(probe, n, t, a + 2)
                        \/ /\ <<n, r, t>> \in Early(probe, n, r)
                           /\ Meet(probe, n, t, a + 1)
               /\ <<n, r, a + 1>> \notin Early(probe, n, r)
<1>1. CASE probe = "hbm-bandwidth"
  <2>1. n \in 2 .. 4
    BY ONLY <1>1, TimedPart(probe, n) DEF TimedPart
  <2> QED BY ONLY <1>1, <2>1 DEF StartAt, CreateAt, WorksOf, RecordsOf, Early, Meet, NeedsOf
<1>2. CASE probe = "fabric-smoke"
  BY ONLY <1>2 DEF StartAt, CreateAt, WorksOf, RecordsOf, Early, Meet, NeedsOf
<1> QED BY ONLY <1>1, <1>2, TimedPart(probe, n) DEF TimedPart

\* To change one event leaves the other.
LEMMA SetEvent ==
    ASSUME TypeOK, NEW v
    PROVE  /\ [event EXCEPT !["start"] = v].start = v
           /\ [event EXCEPT !["start"] = v].stop = event.stop
           /\ [event EXCEPT !["stop"] = v].stop = v
           /\ [event EXCEPT !["stop"] = v].start = event.start
<1>1. event \in [{"start", "stop"} -> {"none", "created", "recorded", "done"}]
  BY DEF TypeOK
<1> QED BY <1>1

\* The host creates, records and destroys the events in this order.
LEMMA EventsHost ==
    ASSUME TypeOK, Events, Current, probe \in Probes, HostEffect(Now),
           NEW n, NEW r, NEW s, IsPlace(probe, n, r, s), at = <<n, r, s>>,
           StaysIn(n, r, s) \/ Leaves(n, r, s)
    PROVE  Events'
<1>0. probe' = probe /\ s \in Int
  BY ShapeNumbers DEF HostEffect, IsPlace
<1>1. KindOf(probe, n, r, s, CallAt(<<n, r, s>>).call) /\ Now = CallAt(<<n, r, s>>)
  BY Kinds, AfterIs DEF IsPlace
<1>2. at[1] = n /\ at[2] = r /\ at[3] = s
  OBVIOUS
<1> DEFINE a == StartAt(probe)
<1>3. CASE ~TimedPart(probe, n)
  <2>1. event.start = "none" /\ event.stop = "none"
    BY <1>2, <1>3 DEF Events, StateOf
  <2>2. event'.start = "none" /\ event'.stop = "none"
    <3>1. Now.call # "record" /\ Now.call # "create" /\ Now.call # "destroy"
      <4>1. RecordsOf(probe, n) = {}
        BY ONLY <1>3, probe \in Probes DEF RecordsOf, TimedPart, Probes
      <4> QED BY ONLY <1>1, <1>3, <4>1 DEF KindOf
    <3> QED BY <2>1, <3>1 DEF HostEffect
  <2>3. ~TimedPart(probe, at'[1]) \/ at'[3] = 1
    BY <1>3 DEF StaysIn, Leaves
  <2>4. CreateAt(probe) \in Int /\ 1 <= CreateAt(probe)
    BY DEF CreateAt
  <2> QED BY <1>0, <2>2, <2>3, <2>4 DEF Events, StateOf
<1>4. CASE TimedPart(probe, n)
  <2>1. /\ a \in Int /\ CreateAt(probe) \in Int /\ RecordsOf(probe, n) = {a, a + 2}
        /\ 0 < CreateAt(probe) /\ CreateAt(probe) < a
        /\ a \notin WorksOf(probe, n, r) /\ a + 2 \notin WorksOf(probe, n, r)
    BY <1>4, TimedFacts
  <2>2. /\ event.start = StateOf(probe, n, s, a, a \in Pend)
        /\ event.stop = StateOf(probe, n, s, a + 2, a + 2 \in Pend)
    BY <1>2 DEF Events
  <2>3. CASE Leaves(n, r, s)
    <3>1. at'[3] = 1
      BY <2>3 DEF Leaves
    <3>2. event'.start = "none" /\ event'.stop = "none"
      <4>1. s = a + 5 \/ s > a + 5
        BY ONLY <1>0, <1>4, <2>3 DEF Leaves, StepsOf, TimedPart, StartAt
      <4>2. CASE s = a + 5
        <5>1. Now.call = "destroy"
          BY ONLY <1>1, <1>4, <4>2 DEF KindOf
        <5> QED BY <5>1 DEF HostEffect
      <4>3. CASE s > a + 5
        <5>1. Now.call # "record" /\ Now.call # "create" /\ Now.call # "destroy"
          BY ONLY <1>0, <1>1, <2>1, <4>3 DEF KindOf
        <5>2. event.start = "none" /\ event.stop = "none"
          BY ONLY <1>0, <2>2, <4>3 DEF StateOf
        <5> QED BY <5>1, <5>2 DEF HostEffect
      <4> QED BY ONLY <4>1, <4>2, <4>3
    <3> QED BY <1>0, <2>1, <3>1, <3>2 DEF Events, StateOf
  <2>4. CASE StaysIn(n, r, s)
    <3>1. at'[1] = n /\ at'[3] = s + 1
      BY <2>4 DEF StaysIn
    <3>2. \A t : t \in Pend' <=> t \in Pend \/ (t = s /\ Pend' # Pend)
      BY <2>4 DEF StaysIn
    <3> SUFFICES /\ event'.start = StateOf(probe, n, s + 1, a, a \in Pend')
                 /\ event'.stop = StateOf(probe, n, s + 1, a + 2, a + 2 \in Pend')
      BY <1>0, <3>1 DEF Events
    <3>3. CASE s \in {a, a + 2}
      <4>1. Now.call = "record" /\ s \in Pend'
        BY <1>1, <2>1, <2>4, <3>3 DEF KindOf, StaysIn
      <4>2. \/ s = a /\ Now.evt = "start"
            \/ s = a + 2 /\ Now.evt = "stop"
        BY <1>1, <2>1, <3>3, Records
      <4>3. event' = [event EXCEPT ![Now.evt] = "recorded"]
        BY <4>1 DEF HostEffect
      <4>4. \A t : t # s => (t \in Pend' <=> t \in Pend)
        BY ONLY <3>2
      <4>5. CASE s = a
        <5>1. event.start = "created" /\ event.stop = "created"
          BY ONLY <1>0, <1>4, <2>1, <2>2, <4>5 DEF StateOf
        <5>2. event'.start = "recorded" /\ event'.stop = "created"
          <6>1. Now.evt = "start"
            BY ONLY <2>1, <4>2, <4>5
          <6> QED BY ONLY <4>3, <5>1, <6>1, SetEvent, TypeOK
        <5>3. /\ StateOf(probe, n, s + 1, a, a \in Pend') = "recorded"
              /\ StateOf(probe, n, s + 1, a + 2, a + 2 \in Pend') = "created"
          BY ONLY <1>0, <1>4, <2>1, <4>1, <4>5 DEF StateOf
        <5> QED BY ONLY <5>2, <5>3
      <4>6. CASE s = a + 2
        <5>1. event.stop = "created"
          BY ONLY <1>0, <1>4, <2>1, <2>2, <4>6 DEF StateOf
        <5>2. event'.start = event.start /\ event'.stop = "recorded"
          <6>1. Now.evt = "stop"
            BY ONLY <2>1, <4>2, <4>6
          <6> QED BY ONLY <4>3, <6>1, SetEvent, TypeOK
        <5>3. StateOf(probe, n, s + 1, a + 2, a + 2 \in Pend') = "recorded"
          BY ONLY <1>0, <1>4, <2>1, <4>1, <4>6 DEF StateOf
        <5>4. StateOf(probe, n, s + 1, a, a \in Pend') = event.start
          BY ONLY <1>0, <1>4, <2>1, <2>2, <4>4, <4>6 DEF StateOf
        <5> QED BY ONLY <5>2, <5>3, <5>4
      <4> QED BY ONLY <3>3, <4>5, <4>6
    <3>4. CASE s \notin {a, a + 2}
      <4>1. (a \in Pend' <=> a \in Pend) /\ (a + 2 \in Pend' <=> a + 2 \in Pend)
        BY ONLY <3>2, <3>4
      <4>2. Now.call # "record"
        BY ONLY <1>1, <2>1, <3>4 DEF KindOf
      <4>3. CASE s = CreateAt(probe)
        <5>1. event'.start = "created" /\ event'.stop = "created"
          BY <1>1, <1>4, <4>3 DEF KindOf, HostEffect
        <5> QED BY ONLY <1>0, <1>4, <2>1, <4>3, <5>1 DEF StateOf
      <4>4. CASE s = a + 5
        <5>1. event'.start = "none" /\ event'.stop = "none"
          BY <1>1, <1>4, <4>4 DEF KindOf, HostEffect
        <5> QED BY ONLY <1>0, <1>4, <2>1, <4>4, <5>1 DEF StateOf
      <4>5. CASE s # CreateAt(probe) /\ s # a + 5
        <5>1. Now.call # "create" /\ Now.call # "destroy"
          BY ONLY <1>1, <4>5 DEF KindOf
        <5>2. event' = event
          BY <4>2, <5>1 DEF HostEffect
        <5>3. /\ StateOf(probe, n, s + 1, a, a \in Pend') = StateOf(probe, n, s, a, a \in Pend)
              /\ StateOf(probe, n, s + 1, a + 2, a + 2 \in Pend')
                   = StateOf(probe, n, s, a + 2, a + 2 \in Pend)
          <6> HIDE DEF a
          <6> QED BY ONLY <1>0, <1>4, <2>1, <3>4, <4>1, <4>5 DEF StateOf, a
        <5> QED BY ONLY <2>2, <5>2, <5>3
      <4> QED BY ONLY <4>3, <4>4, <4>5
    <3> QED BY ONLY <3>3, <3>4
  <2> QED BY <2>3, <2>4
<1> QED BY <1>3, <1>4

\* A recorded event becomes done with the end of its record.
LEMMA EventsDevice ==
    ASSUME TypeOK, Events, OfThisRound, Waited, probe \in Probes,
           NEW n, NEW r, NEW s, IsPlace(probe, n, r, s), at = <<n, r, s>>,
           NEW t \in 1 .. (s - 1),
           BeginEffect(n, r, t) \/ FinishEffect(n, r, t) \/ StampEffect(n, r, t)
    PROVE  Events'
<1>0. probe' = probe /\ at' = at /\ at[1] = n /\ at[2] = r /\ at[3] = s /\ s \in Int
  BY ShapeNumbers DEF BeginEffect, FinishEffect, StampEffect, IsPlace
<1> DEFINE a == StartAt(probe)
<1>1. /\ event.start = StateOf(probe, n, s, a, a \in Pend)
      /\ event.stop = StateOf(probe, n, s, a + 2, a + 2 \in Pend)
  BY <1>0 DEF Events
<1> SUFFICES /\ event'.start = StateOf(probe, n, s, a, a \in Pend')
             /\ event'.stop = StateOf(probe, n, s, a + 2, a + 2 \in Pend')
  BY <1>0 DEF Events
<1>2. CASE ~TimedPart(probe, n)
  <2>1. RecordsOf(probe, n) = {}
    BY ONLY <1>2, probe \in Probes DEF RecordsOf, TimedPart, Probes
  <2>2. event' = event
    BY <2>1 DEF BeginEffect, FinishEffect, StampEffect, host, clock
  <2> QED BY ONLY <1>1, <1>2, <2>2 DEF StateOf
<1>3. CASE TimedPart(probe, n)
  <2>1. /\ a \in Int /\ CreateAt(probe) \in Int /\ RecordsOf(probe, n) = {a, a + 2}
        /\ 0 < CreateAt(probe) /\ CreateAt(probe) < a
        /\ a \notin WorksOf(probe, n, r) /\ a + 2 \notin WorksOf(probe, n, r)
    BY <1>3, TimedFacts
  <2>2. CASE ~StampEffect(n, r, t)
    <3>1. event' = event
      BY <2>2 DEF BeginEffect, FinishEffect, clock
    <3>2. t \in WorksOf(probe, n, r) /\ \A u : u # t => (u \in Pend' <=> u \in Pend)
      BY <2>2, PendIs DEF BeginEffect, FinishEffect
    <3>3. (a \in Pend' <=> a \in Pend) /\ (a + 2 \in Pend' <=> a + 2 \in Pend)
      BY ONLY <2>1, <3>2
    <3> QED BY ONLY <1>1, <3>1, <3>3 DEF StateOf
  <2>3. ASSUME StampEffect(n, r, t)
        PROVE  /\ event'.start = StateOf(probe, n, s, a, a \in Pend')
               /\ event'.stop = StateOf(probe, n, s, a + 2, a + 2 \in Pend')
    <3>1. /\ t \in Pend /\ t \in {a, a + 2} /\ Pend' = Pend \ {t}
          /\ event' = [event EXCEPT ![CallAt(<<n, r, t>>).evt] = "done"]
      BY <2>1, <2>3 DEF StampEffect
    <3>2. IsPlace(probe, n, r, t)
      BY ONLY <1>0, ShapeNumbers, probe \in Probes, IsPlace(probe, n, r, s), t \in 1 .. (s - 1)
         DEF IsPlace
    <3>3. \/ t = a /\ CallAt(<<n, r, t>>).evt = "start"
          \/ t = a + 2 /\ CallAt(<<n, r, t>>).evt = "stop"
      BY <2>1, <3>1, <3>2, Records
    <3>4. s <= a + 3
      <4> SUFFICES ASSUME s > a + 3 PROVE FALSE
        BY <1>0, <2>1
      <4>1. queue = {}
        BY <1>0, <1>3 DEF Waited
      <4> QED BY <3>1, <4>1 DEF Pend
    <3>5. \A u : u # t => (u \in Pend' <=> u \in Pend)
      BY ONLY <3>1
    <3>6. t \notin Pend' /\ t < s /\ t \in Int
      BY ONLY <1>0, <3>1, t \in 1 .. (s - 1)
    <3>7. CASE t = a
      <4>1. event'.start = "done" /\ event'.stop = event.stop
        <5>1. CallAt(<<n, r, t>>).evt = "start"
          BY ONLY <2>1, <3>3, <3>7
        <5> QED BY ONLY <3>1, <5>1, SetEvent, TypeOK
      <4>2. StateOf(probe, n, s, a, a \in Pend') = "done"
        BY ONLY <1>0, <1>3, <2>1, <3>4, <3>6, <3>7 DEF StateOf
      <4>3. StateOf(probe, n, s, a + 2, a + 2 \in Pend') = event.stop
        BY ONLY <1>1, <2>1, <3>5, <3>7 DEF StateOf
      <4> QED BY ONLY <4>1, <4>2, <4>3
    <3>8. CASE t = a + 2
      <4>1. event'.start = event.start /\ event'.stop = "done"
        <5>1. CallAt(<<n, r, t>>).evt = "stop"
          BY ONLY <2>1, <3>3, <3>8
        <5> QED BY ONLY <3>1, <5>1, SetEvent, TypeOK
      <4>2. StateOf(probe, n, s, a + 2, a + 2 \in Pend') = "done"
        BY ONLY <1>0, <1>3, <2>1, <3>4, <3>6, <3>8 DEF StateOf
      <4>3. StateOf(probe, n, s, a, a \in Pend') = event.start
        BY ONLY <1>1, <2>1, <3>5, <3>8 DEF StateOf
      <4> QED BY ONLY <4>1, <4>2, <4>3
    <3> QED BY ONLY <3>1, <3>7, <3>8
  <2> QED BY <2>2, <2>3
<1> QED BY <1>2, <1>3

\* The calls after the start event add nothing to what lies between the events.
LEMMA BetweenHost ==
    ASSUME Between, OfThisRound, probe \in Probes, HostEffect(Now),
           NEW n, NEW r, NEW s, IsPlace(probe, n, r, s), at = <<n, r, s>>,
           StaysIn(n, r, s) \/ Leaves(n, r, s)
    PROVE  Between'
<1>0. probe' = probe /\ s \in Int /\ at[1] = n /\ at[2] = r /\ at[3] = s
  BY ShapeNumbers DEF HostEffect, IsPlace
<1>1. KindOf(probe, n, r, s, CallAt(<<n, r, s>>).call) /\ Now = CallAt(<<n, r, s>>)
  BY Kinds, AfterIs DEF IsPlace
<1> DEFINE a == StartAt(probe)
           work == <<n, r, a + 1>>
<1>2. CASE Leaves(n, r, s)
  <2>1. at'[3] = 1
    BY <1>2 DEF Leaves
  <2>2. CreateAt(probe) \in Int /\ 1 <= CreateAt(probe)
    BY DEF CreateAt
  <2> QED BY <1>0, <2>1, <2>2 DEF Between
<1>3. ASSUME StaysIn(n, r, s), TimedPart(probe, n), s + 1 > CreateAt(probe)
      PROVE  IF s + 1 <= a \/ a \in Pend'
             THEN during' = {} /\ partial' = {}
             ELSE /\ during' \subseteq Early(probe, n, r) \cup {work}
                  /\ partial' \subseteq Early(probe, n, r)
                  /\ s + 1 > a + 1 /\ (a + 1 \in Pend' => a + 1 \in Run') => work \in during'
  <2>1. /\ a \in Int /\ CreateAt(probe) \in Int /\ RecordsOf(probe, n) = {a, a + 2}
        /\ 0 < CreateAt(probe) /\ CreateAt(probe) < a /\ a + 1 \in WorksOf(probe, n, r)
    BY <1>3, TimedFacts
  <2>2. CASE s = CreateAt(probe)
    <3>1. during' = {} /\ partial' = {}
      BY <1>1, <1>3, <2>2 DEF KindOf, HostEffect
    <3> HIDE DEF a
    <3> QED BY ONLY <1>0, <2>1, <2>2, <3>1
  <2>3. CASE s > CreateAt(probe)
    <3>1. during' = during /\ partial' = partial
      <4>1. Now.call # "create"
        BY ONLY <1>0, <1>1, <2>1, <2>3 DEF KindOf
      <4> QED BY <4>1 DEF HostEffect
    <3>2. IF s <= a \/ a \in Pend
          THEN during = {} /\ partial = {}
          ELSE /\ during \subseteq Early(probe, n, r) \cup {work}
               /\ partial \subseteq Early(probe, n, r)
               /\ s > a + 1 /\ (a + 1 \in Pend => a + 1 \in Run) => work \in during
      BY <1>0, <1>3, <2>3 DEF Between
    <3>3. /\ \A t : t # s => (t \in Pend' <=> t \in Pend)
          /\ s \in {a, a + 1} => s \in Pend'
          /\ Run' = Run
      BY <1>3, <2>1 DEF StaysIn
    <3>4. \A t \in Run : t < s
      BY <1>0, PendIs
    <3> HIDE DEF a, work
    <3>5. CASE s + 1 <= a \/ a \in Pend'
      BY ONLY <1>0, <2>1, <3>1, <3>2, <3>3, <3>5
    <3>6. CASE ~(s + 1 <= a \/ a \in Pend')
      <4>1. ~(s <= a \/ a \in Pend)
        BY ONLY <1>0, <2>1, <3>3, <3>6
      <4>2. ASSUME s + 1 > a + 1, a + 1 \in Pend' => a + 1 \in Run'
            PROVE  work \in during
        <5>1. s # a + 1
          BY ONLY <1>0, <2>1, <3>3, <3>4, <4>2
        <5> QED BY ONLY <1>0, <2>1, <3>2, <3>3, <4>1, <4>2, <5>1
      <4> QED BY ONLY <3>1, <3>2, <3>6, <4>1, <4>2
    <3> QED BY ONLY <3>5, <3>6
  <2> QED BY ONLY <1>0, <1>3, <2>1, <2>2, <2>3
<1>4. ASSUME StaysIn(n, r, s)
      PROVE  Between'
  <2>1. at'[1] = n /\ at'[2] = r /\ at'[3] = s + 1
    BY <1>4 DEF StaysIn
  <2> QED BY <1>0, <1>3, <1>4, <2>1 DEF Between
<1> QED BY <1>2, <1>4

\* Between the events nothing begins or goes on but the work in question and what
\* is early; when the stop event is stamped, all of it is over.
LEMMA BetweenDevice ==
    ASSUME TypeOK, Between, Events, OfThisRound, InOrder, Waited, probe \in Probes,
           NEW n, NEW r, NEW s, IsPlace(probe, n, r, s), at = <<n, r, s>>,
           NEW t \in 1 .. (s - 1),
           BeginEffect(n, r, t) \/ FinishEffect(n, r, t) \/ StampEffect(n, r, t)
    PROVE  Between' /\ partial' \subseteq during'
<1>0. probe' = probe /\ at' = at /\ at[1] = n /\ at[2] = r /\ at[3] = s /\ s \in Int
  BY ShapeNumbers DEF BeginEffect, FinishEffect, StampEffect, IsPlace
<1> DEFINE a == StartAt(probe)
           W == WorksOf(probe, n, r)
           E == Early(probe, n, r)
           work == <<n, r, a + 1>>
<1> HIDE DEF a, W, E, work
<1>1. CASE ~(TimedPart(probe, n) /\ s > CreateAt(probe))
  <2>1. ~StampEffect(n, r, t)
    <3> SUFFICES ASSUME StampEffect(n, r, t) PROVE FALSE
      OBVIOUS
    <3>1. t \in RecordsOf(probe, n) /\ t \in Pend
      BY DEF StampEffect
    <3>2. IsPlace(probe, n, r, t) /\ t < s /\ t \in Int
      BY ONLY <1>0, ShapeNumbers, probe \in Probes, IsPlace(probe, n, r, s), t \in 1 .. (s - 1)
         DEF IsPlace
    <3>3. TimedPart(probe, n) /\ (t = StartAt(probe) \/ t = StartAt(probe) + 2)
      <4>1. /\ TimedPart(probe, n)
            /\ \/ t = StartAt(probe) /\ CallAt(<<n, r, t>>).evt = "start"
               \/ t = StartAt(probe) + 2 /\ CallAt(<<n, r, t>>).evt = "stop"
        BY <3>1, <3>2, Records
      <4> QED BY ONLY <4>1
    <3>4. /\ StartAt(probe) \in Int /\ CreateAt(probe) \in Int
          /\ CreateAt(probe) < StartAt(probe)
      BY ONLY DEF StartAt, CreateAt
    <3> QED BY ONLY <1>0, <1>1, <3>2, <3>3, <3>4
  <2>2. partial' = partial /\ \A j \in during : j \in during'
    BY <2>1 DEF BeginEffect, FinishEffect, clock
  <2>3. partial \subseteq during
    BY DEF TypeOK
  <2> QED BY <1>0, <1>1, <2>2, <2>3 DEF Between
<1>2. ASSUME TimedPart(probe, n), s > CreateAt(probe)
      PROVE  /\ partial' \subseteq during'
             /\ IF s <= a \/ a \in Pend'
                THEN during' = {} /\ partial' = {}
                ELSE /\ during' \subseteq E \cup {work} /\ partial' \subseteq E
                     /\ s > a + 1 /\ (a + 1 \in Pend' => a + 1 \in Run') => work \in during'
  <2>1. /\ a \in Int /\ CreateAt(probe) \in Int /\ RecordsOf(probe, n) = {a, a + 2}
        /\ 0 < CreateAt(probe) /\ CreateAt(probe) < a
        /\ W \subseteq Int /\ a \notin W /\ a + 1 \in W /\ a + 2 \notin W
        /\ Meet(probe, n, a, a + 1) /\ Meet(probe, n, a + 1, a + 2)
    BY <1>2, TimedFacts DEF a, W, E
  <2>2. \A u \in W : u # a + 1 =>
           /\ u < a
           /\ \/ Meet(probe, n, u, a) /\ Meet(probe, n, u, a + 2)
              \/ <<n, r, u>> \in E /\ Meet(probe, n, u, a + 1)
    BY <1>2, TimedFacts DEF a, W, E
  <2>3. IF s <= a \/ a \in Pend
        THEN during = {} /\ partial = {}
        ELSE /\ during \subseteq E \cup {work} /\ partial \subseteq E
             /\ s > a + 1 /\ (a + 1 \in Pend => a + 1 \in Run) => work \in during
    BY <1>0, <1>2 DEF Between, a, E, work
  <2>4. /\ \A u \in Run, v \in Pend : v < u => ~Meet(probe, n, u, v)
        /\ \A u \in Pend : \A v \in W \cup {a, a + 2} :
              u < v /\ v < s /\ Meet(probe, n, u, v) => v \in Pend
    BY <1>0, <2>1 DEF InOrder, a, W
  <2>5. /\ \A u \in Pend : u \in Int /\ u < s /\ u \in W \cup {a, a + 2}
        /\ \A u \in Run : u \in Pend /\ u \in W
        /\ \A j \in running : j[3] \in Run /\ j = <<n, r, j[3]>>
    <3>1. /\ \A u \in Pend : u \in 1 .. (s - 1) /\ u \in W \cup RecordsOf(probe, n)
          /\ \A u \in Run : u \in Pend /\ u \in W
          /\ \A j \in running : j[3] \in Run /\ j = <<n, r, j[3]>>
      BY PendIs DEF W
    <3> QED BY ONLY <1>0, <2>1, <3>1
  <2>6. t \in Pend /\ s <= a + 3
    <3>1. t \in Pend
      BY PendIs DEF BeginEffect, FinishEffect, StampEffect
    <3>2. queue # {}
      BY <3>1 DEF Pend
    <3> QED BY <1>0, <1>2, <2>1, <3>1, <3>2 DEF Waited, a
  <2>7. /\ event.start = IF s <= a THEN "created" ELSE IF a \in Pend THEN "recorded" ELSE "done"
        /\ event.stop = IF s <= a + 2 THEN "created"
                        ELSE IF a + 2 \in Pend THEN "recorded" ELSE "done"
    <3>1. s <= StartAt(probe) + 5
      BY <1>0, <2>1, <2>6 DEF a
    <3> QED BY <1>0, <1>2, <3>1, EventsAre DEF a
  <2>8. s > a + 2 /\ a + 2 \notin Pend => FALSE
    BY <1>0, <1>2, <2>1, <2>6, Drained DEF a
  <2>12. partial \subseteq during
    BY DEF TypeOK
  <2>9. CASE BeginEffect(n, r, t)
    <3>1. /\ Pend' = Pend /\ Run' = Run \cup {t} /\ t \in W
          /\ during' = IF Timing THEN during \cup {<<n, r, t>>} ELSE during
          /\ partial' = partial
      BY <2>9 DEF BeginEffect, W
    <3>2. Timing <=> ~(s <= a \/ a \in Pend)
      BY ONLY <1>0, <2>1, <2>7, <2>8 DEF Timing
    <3>3. CASE s <= a \/ a \in Pend
      BY ONLY <2>3, <2>12, <3>1, <3>2, <3>3
    <3>4. CASE ~(s <= a \/ a \in Pend)
      <4>1. t = a + 1 \/ <<n, r, t>> \in E
        <5> SUFFICES ASSUME t # a + 1, <<n, r, t>> \notin E PROVE FALSE
          OBVIOUS
        <5>1. t < a /\ Meet(probe, n, t, a)
          BY ONLY <2>2, <3>1, t # a + 1, <<n, r, t>> \notin E
        <5> QED BY ONLY <1>0, <2>1, <2>4, <2>6, <3>4, <5>1
      <4>2. during' = during \cup {<<n, r, t>>}
        BY ONLY <3>1, <3>2, <3>4
      <4>3. t = a + 1 => <<n, r, t>> = work
        BY DEF work
      <4>4. t # a + 1 => (a + 1 \in Run' <=> a + 1 \in Run)
        BY ONLY <3>1
      <4> QED BY ONLY <2>3, <2>12, <3>1, <3>4, <4>1, <4>2, <4>3, <4>4
    <3> QED BY ONLY <3>3, <3>4
  <2>10. CASE FinishEffect(n, r, t)
    <3>1. /\ Pend' = Pend \ {t} /\ Run' = Run \ {t} /\ t \in Run
          /\ during' = during /\ partial' = partial
      BY <2>10 DEF FinishEffect, clock
    <3>2. a \in Pend' <=> a \in Pend
      BY ONLY <2>1, <2>5, <3>1
    <3>3. (a + 1 \in Pend' => a + 1 \in Run') => (a + 1 \in Pend => a + 1 \in Run)
      BY ONLY <3>1
    <3> QED BY ONLY <2>3, <2>12, <3>1, <3>2, <3>3
  <2>11. CASE StampEffect(n, r, t)
    <3>1. /\ Pend' = Pend \ {t} /\ Run' = Run /\ t \in {a, a + 2}
          /\ \A u \in Pend : u < t => ~Meet(probe, n, t, u)
      BY <2>1, <2>11 DEF StampEffect, First, a
    <3>2. IsPlace(probe, n, r, t)
      BY ONLY <1>0, ShapeNumbers, probe \in Probes, IsPlace(probe, n, r, s), t \in 1 .. (s - 1)
         DEF IsPlace
    <3>3. \/ t = a /\ during' = running /\ partial' = running
          \/ t = a + 2 /\ during' = during /\ partial' = partial \cup running
      <4>1. \/ t = a /\ CallAt(<<n, r, t>>).evt = "start"
            \/ t = a + 2 /\ CallAt(<<n, r, t>>).evt = "stop"
        BY <2>1, <3>1, <3>2, Records DEF a
      <4> QED BY <4>1, <2>11 DEF StampEffect
    <3>4. CASE t = a
      <4>1. a + 1 \notin Run
        BY ONLY <2>1, <2>4, <2>6, <3>4, MeetSymmetric
      <4>2. running \subseteq E
        <5>1. ASSUME NEW j \in running PROVE j \in E
          <6>1. j = <<n, r, j[3]>> /\ j[3] \in Run /\ j[3] \in W /\ j[3] \in Pend
            BY ONLY <2>5, <5>1
          <6>2. j[3] # a + 1
            BY ONLY <4>1, <6>1
          <6>3. j[3] < a /\ (Meet(probe, n, j[3], a) \/ <<n, r, j[3]>> \in E)
            BY ONLY <2>2, <6>1, <6>2
          <6>4. ~Meet(probe, n, j[3], a)
            BY ONLY <3>1, <3>4, <6>1, <6>3, MeetSymmetric
          <6> QED BY ONLY <6>1, <6>3, <6>4
        <5> QED BY ONLY <5>1
      <4>3. during' = running /\ partial' = running
        BY ONLY <2>1, <3>3, <3>4
      <4>4. a \notin Pend' /\ ~(s <= a)
        BY ONLY <1>0, <2>1, <2>5, <2>6, <3>1, <3>4
      <4>5. s > a + 1 => a + 1 \in Pend'
        BY ONLY <1>0, <2>1, <2>4, <2>6, <3>1, <3>4
      <4> QED BY ONLY <3>1, <4>1, <4>2, <4>3, <4>4, <4>5
    <3>5. CASE t = a + 2
      <4>1. a + 1 \notin Pend
        BY ONLY <2>1, <3>1, <3>5, MeetSymmetric
      <4>2. running = {}
        <5>1. ASSUME NEW j \in running PROVE FALSE
          <6>1. j[3] \in Run /\ j[3] \in W /\ j[3] \in Pend
            BY ONLY <2>5, <5>1
          <6>2. j[3] # a + 1
            BY ONLY <4>1, <6>1
          <6>3. j[3] < a /\ (Meet(probe, n, j[3], a + 2) \/ Meet(probe, n, j[3], a + 1))
            BY ONLY <2>2, <6>1, <6>2
          <6>4. ~Meet(probe, n, j[3], a + 2)
            BY ONLY <2>1, <2>5, <3>1, <3>5, <6>1, <6>3, MeetSymmetric
          <6>5. a + 1 < s /\ j[3] < a + 1
            <7>1. t < s /\ t \in Int /\ j[3] \in Int
              BY ONLY <2>1, <2>5, <2>6, <6>1
            <7> QED BY ONLY <1>0, <2>1, <3>5, <6>3, <7>1
          <6> QED BY ONLY <2>1, <2>4, <4>1, <6>1, <6>3, <6>4, <6>5
        <5> QED BY ONLY <5>1
      <4>3. during' = during /\ partial' = partial
        BY ONLY <2>1, <3>3, <3>5, <4>2
      <4>4. /\ a \in Pend' <=> a \in Pend
            /\ a + 1 \in Pend' <=> a + 1 \in Pend
        BY ONLY <2>1, <3>1, <3>5
      <4> QED BY ONLY <2>3, <2>12, <3>1, <4>3, <4>4
    <3> QED BY ONLY <3>3, <3>4, <3>5
  <2> QED BY <2>9, <2>10, <2>11
<1>3. CASE TimedPart(probe, n) /\ s > CreateAt(probe)
  BY <1>0, <1>2, <1>3 DEF Between, a, E, work
<1> QED BY <1>1, <1>3

\* The time is read with the queue empty, when all of that is in.
LEMMA ReadHost ==
    ASSUME Read, Between, OfThisRound, Waited, probe \in Probes, HostEffect(Now),
           NEW n, NEW r, NEW s, IsPlace(probe, n, r, s), at = <<n, r, s>>
    PROVE  Read'
<1>0. probe' = probe /\ s \in Int /\ at[1] = n /\ at[2] = r /\ at[3] = s
  BY ShapeNumbers DEF HostEffect, IsPlace
<1>1. KindOf(probe, n, r, s, CallAt(<<n, r, s>>).call) /\ Now = CallAt(<<n, r, s>>)
  BY Kinds, AfterIs DEF IsPlace
<1>2. CASE Now.call # "elapsed"
  <2>1. timed' = timed
    BY <1>2 DEF HostEffect
  <2> QED BY <1>0, <2>1 DEF Read
<1>3. CASE Now.call = "elapsed"
  <2> DEFINE a == StartAt(probe)
  <2>1. TimedPart(probe, n) /\ s = a + 4
    BY ONLY <1>1, <1>3 DEF KindOf
  <2>2. /\ probe # "ptx-latency" /\ n \in 1 .. PartsOf(probe) /\ r = 1
    BY ONLY <2>1, IsPlace(probe, n, r, s) DEF TimedPart, IsPlace, RoundsOf
  <2>3. timed' = <<at, during, partial>>
    BY <1>3 DEF HostEffect
  <2>4. a \in Int /\ CreateAt(probe) \in Int /\ CreateAt(probe) < a
    BY <2>1, TimedFacts
  <2>5. Pend = {}
    <3>1. queue = {}
      BY <1>0, <2>1, <2>4 DEF Waited
    <3> QED BY <3>1 DEF Pend
  <2>6. /\ during \subseteq Early(probe, n, 1) \cup {<<n, 1, a + 1>>}
        /\ partial \subseteq Early(probe, n, 1) /\ <<n, 1, a + 1>> \in during
    BY <1>0, <2>1, <2>2, <2>4, <2>5 DEF Between
  <2>7. timed'[1] = <<n, 1, a + 4>> /\ timed'[2] = during /\ timed'[3] = partial
    BY <2>1, <2>2, <2>3
  <2> QED BY <1>0, <2>1, <2>2, <2>6, <2>7 DEF Read
<1> QED BY <1>2, <1>3

-----------------------------------------------------------------------------
(* The memory *)

\* To change one buffer leaves the others.
LEMMA TypeOfContent ==
    ASSUME TypeOK, NEW b, NEW c
    PROVE  /\ b \in Buffers => [content EXCEPT ![b] = c][b] = c
           /\ \A d \in Buffers : d # b => [content EXCEPT ![b] = c][d] = content[d]
<1>1. content \in [Buffers -> Positions \cup {Unallocated, Nobody}]
  BY DEF TypeOK
<1> QED BY <1>1

\* Memory nobody has written is allocated; what has been written, by a call.
LEMMA Values ==
    /\ Nobody # Unallocated
    /\ \A n \in Nat \ {0} : \A r, t : <<n, r, t>> \notin {Unallocated, Nobody}
<1>1. Len(Unallocated) = 0 /\ Len(Nobody) = 3
  BY DEF Unallocated, Nobody
<1>2. \A n, r, t : Len(<<n, r, t>>) = 3 /\ <<n, r, t>>[1] = n
  OBVIOUS
<1>3. Nobody[1] = 0
  BY DEF Nobody
<1>4. Nobody # Unallocated
  BY ONLY <1>1
<1>5. ASSUME NEW n \in Nat \ {0}, NEW r, NEW t
      PROVE  <<n, r, t>> \notin {Unallocated, Nobody}
  <2>1. n # 0
    BY <1>5
  <2> HIDE DEF Unallocated, Nobody
  <2> QED BY ONLY <1>1, <1>2, <1>3, <2>1
<1> QED BY <1>4, <1>5

\* The host allocates before it launches, and frees when all is over.
LEMMA MemoryHost ==
    ASSUME TypeOK, Memory, OfThisRound, HostEffect(Now),
           NEW n, NEW r, NEW s, IsPlace(probe, n, r, s), at = <<n, r, s>>,
           StaysIn(n, r, s) \/ Leaves(n, r, s)
    PROVE  Memory'
<1>0. probe' = probe /\ probe \in Probes /\ s \in Int /\ n \in Int /\ r \in Int
      /\ kSamples \in Nat \ {0}
  BY ShapeNumbers, TimingAssumption DEF HostEffect, IsPlace, TypeOK
<1>1. KindOf(probe, n, r, s, CallAt(<<n, r, s>>).call) /\ Now = CallAt(<<n, r, s>>)
  BY <1>0, Kinds, AfterIs DEF IsPlace
<1>2. /\ Now.call = "malloc" => content' = [content EXCEPT ![Now.buf] = Nobody]
      /\ Now.call = "free" => content' = [content EXCEPT ![Now.buf] = Unallocated]
      /\ Now.call # "malloc" /\ Now.call # "free" => content' = content
  BY DEF HostEffect
<1>3. \A b : cudaMalloc(b).buf = b /\ cudaFree(b).buf = b
  BY DEF cudaMalloc, cudaFree
<1>4. at[1] = n /\ at[2] = r /\ at[3] = s /\ Nobody # Unallocated
  BY Values
<1>5. CASE probe = "ptx-latency"
  <2>1. CASE n = 1
    <3>1. at' = <<2, 1, 1>>
      <4>1. r = 1 /\ s = 1 /\ StepsOf(probe, n, r) = 1 /\ RoundsOf(probe, n) = 1
        BY ONLY <1>5, <2>1, IsPlace(probe, n, r, s) DEF IsPlace, RoundsOf, StepsOf
      <4> QED BY <2>1, <4>1 DEF StaysIn, Leaves
    <3> QED BY <1>0, <1>5, <3>1 DEF Memory
  <2>2. CASE n # 1 /\ r = 1
    <3>1. n \in 2 .. 5 /\ s \in 1 .. 4 /\ StepsOf(probe, n, r) = 4
      BY ONLY <1>5, <2>2, IsPlace(probe, n, r, s) DEF IsPlace, PartsOf, StepsOf
    <3>2. /\ CallAt(<<n, 1, 1>>) = cudaMalloc("d_cycles")
          /\ CallAt(<<n, 1, 2>>) = cudaMalloc("d_sink")
      BY ONLY <1>5, <3>1, PtxCalls
    <3>3. /\ s = 1 => content' = [content EXCEPT !["d_cycles"] = Nobody]
          /\ s = 2 => content' = [content EXCEPT !["d_sink"] = Nobody]
          /\ s \notin {1, 2} => content' = content
      <4>1. s = 1 \/ s = 2 => Now.call = "malloc"
        BY ONLY <1>1, <1>5, <2>2, <3>1 DEF KindOf
      <4>2. s \notin {1, 2} => Now.call # "malloc" /\ Now.call # "free"
        BY ONLY <1>0, <1>1, <1>5, <2>2, <3>1 DEF KindOf
      <4> QED BY ONLY <1>1, <1>2, <1>3, <2>2, <3>2, <4>1, <4>2
    <3>4. /\ s > 1 => Allocated("d_cycles")
          /\ s > 2 => Allocated("d_sink")
      BY ONLY <1>4, <1>5, <2>2, <3>1, Memory DEF Memory
    <3>5. /\ content'["d_cycles"] # Unallocated
          /\ s > 1 => content'["d_sink"] # Unallocated
      <4>1. CASE s = 1
        BY <1>4, <3>3, <4>1, TypeOfContent DEF Buffers
      <4>2. CASE s = 2
        BY <1>4, <3>3, <3>4, <4>2, TypeOfContent DEF Buffers, Allocated
      <4>3. CASE s \notin {1, 2}
        BY ONLY <3>1, <3>3, <3>4, <4>3 DEF Allocated
      <4> QED BY ONLY <3>1, <4>1, <4>2, <4>3
    <3>6. \/ s < 4 /\ at'[2] = 1 /\ at'[3] = s + 1
          \/ s = 4 /\ at'[3] = 1
      BY <2>2, <3>1 DEF StaysIn, Leaves
    <3> QED BY <1>0, <1>5, <3>5, <3>6 DEF Memory, Allocated
  <2>3. CASE n # 1 /\ r # 1
    <3>1. n \in 2 .. 5 /\ r \in 2 .. (kSamples + 2)
      BY ONLY <1>0, <1>5, <2>3, IsPlace(probe, n, r, s) DEF IsPlace, PartsOf, RoundsOf
    <3>2. CASE r = kSamples + 2
      <4>1. RoundsOf(probe, n) = r
        BY ONLY <1>0, <1>5, <3>1, <3>2 DEF RoundsOf
      <4>2. at'[2] = r \/ (at'[2] = 1 /\ at'[3] = 1)
        <5>1. ~(r < RoundsOf(probe, n))
          BY ONLY <1>0, <4>1
        <5> QED BY <5>1 DEF StaysIn, Leaves
      <4> QED BY <1>0, <1>5, <3>2, <4>2 DEF Memory
    <3>3. CASE r < kSamples + 2
      <4>1. Now.call # "malloc" /\ Now.call # "free"
        BY ONLY <1>0, <1>1, <1>5, <2>3, <3>1, <3>3 DEF KindOf
      <4>2. Allocated("d_cycles") /\ Allocated("d_sink")
        BY ONLY <1>0, <1>4, <1>5, <3>1, <3>3, Memory DEF Memory
      <4>3. at'[2] # 1
        <5>1. RoundsOf(probe, n) = kSamples + 2
          BY ONLY <1>0, <1>5, <3>1 DEF RoundsOf
        <5> QED BY <1>0, <2>3, <3>1, <3>3, <5>1 DEF StaysIn, Leaves
      <4> QED BY <1>0, <1>2, <1>5, <4>1, <4>2, <4>3 DEF Memory, Allocated
    <3> QED BY ONLY <1>0, <3>1, <3>2, <3>3
  <2> QED BY <2>1, <2>2, <2>3
<1>6. CASE probe = "hbm-bandwidth"
  <2>0. r = 1 /\ RoundsOf(probe, n) = 1 /\ n \in 1 .. 5
    BY ONLY <1>6, IsPlace(probe, n, r, s) DEF IsPlace, PartsOf, RoundsOf
  <2>1. CASE n = 1
    <3>1. s \in 1 .. 4 /\ StepsOf(probe, n, r) = 4
      BY ONLY <1>6, <2>1, IsPlace(probe, n, r, s) DEF IsPlace, StepsOf
    <3>2. /\ CallAt(<<1, 1, 2>>) = cudaMalloc("d_src")
          /\ CallAt(<<1, 1, 3>>) = cudaMalloc("d_dst")
          /\ CallAt(<<1, 1, 4>>) = cudaMalloc("d_partial")
      BY ONLY <1>6, HbmCalls
    <3>3. /\ s = 2 => content' = [content EXCEPT !["d_src"] = Nobody]
          /\ s = 3 => content' = [content EXCEPT !["d_dst"] = Nobody]
          /\ s = 4 => content' = [content EXCEPT !["d_partial"] = Nobody]
      <4>1. s = 2 \/ s = 3 \/ s = 4 => Now.call = "malloc"
        BY ONLY <1>1, <1>6, <2>1, <3>1 DEF KindOf
      <4> QED BY ONLY <1>1, <1>2, <1>3, <2>0, <2>1, <3>2, <4>1
    <3>4. /\ s > 2 => Allocated("d_src")
          /\ s > 3 => Allocated("d_dst")
      BY ONLY <1>4, <1>6, <2>1, <3>1, Memory DEF Memory
    <3>5. /\ s = 2 => content'["d_src"] # Unallocated
          /\ s = 3 => content'["d_src"] # Unallocated /\ content'["d_dst"] # Unallocated
          /\ s = 4 => /\ content'["d_src"] # Unallocated
                      /\ content'["d_dst"] # Unallocated
                      /\ content'["d_partial"] # Unallocated
      <4>1. CASE s = 2
        <5>1. content' = [content EXCEPT !["d_src"] = Nobody]
          BY ONLY <3>3, <4>1
        <5>2. [content EXCEPT !["d_src"] = Nobody]["d_src"] = Nobody
          <6>1. "d_src" \in Buffers
            BY DEF Buffers
          <6> QED BY ONLY TypeOK, <6>1, TypeOfContent
        <5> QED BY ONLY <1>4, <4>1, <5>1, <5>2
      <4>2. CASE s = 3
        BY <1>4, <3>3, <3>4, <4>2, TypeOfContent DEF Buffers, Allocated
      <4>3. CASE s = 4
        BY <1>4, <3>3, <3>4, <4>3, TypeOfContent DEF Buffers, Allocated
      <4> QED BY <4>1, <4>2, <4>3
    <3>6. \/ s < 4 /\ at'[1] = 1 /\ at'[3] = s + 1
          \/ s = 4 /\ at'[1] = 2 /\ at'[3] = 1
      BY <2>0, <2>1, <3>1 DEF StaysIn, Leaves
    <3>7. CASE s < 4 /\ at'[1] = 1 /\ at'[3] = s + 1
      BY ONLY <1>0, <1>6, <3>1, <3>5, <3>7 DEF Memory, Allocated
    <3>8. CASE s = 4 /\ at'[1] = 2 /\ at'[3] = 1
      BY ONLY <1>0, <1>6, <3>1, <3>5, <3>8 DEF Memory, Allocated
    <3> QED BY ONLY <3>6, <3>7, <3>8
  <2>2. CASE n \in 2 .. 4
    <3>1. content' = content
      <4>1. Now.call # "malloc" /\ Now.call # "free"
        BY ONLY <1>1, <1>6, <2>2 DEF KindOf
      <4> QED BY ONLY <1>2, <4>1
    <3>2. /\ Allocated("d_src") /\ Allocated("d_dst") /\ Allocated("d_partial")
          /\ n > 2 \/ (n = 2 /\ s > 2 /\ 2 \notin Pend) => Written("d_dst")
          /\ n > 3 \/ (n = 3 /\ s > 2 /\ 2 \notin Pend) => Written("d_src")
      BY ONLY <1>4, <1>6, <2>2, Memory DEF Memory
    <3>3. CASE Leaves(n, r, s)
      <4>1. at'[1] = n + 1 /\ at'[3] = 1 /\ Pend = {}
        BY <2>0, <3>3 DEF Leaves
      <4>2. s > 2
        BY <1>6, <2>2, <3>3 DEF Leaves, StepsOf
      <4>3. /\ n + 1 > 2 => Written("d_dst")
            /\ n + 1 > 3 => Written("d_src")
        BY ONLY <2>2, <3>2, <4>1, <4>2
      <4> QED BY ONLY <1>0, <1>6, <2>2, <3>1, <3>2, <4>1, <4>3 DEF Memory, Allocated, Written
    <3>4. CASE StaysIn(n, r, s)
      <4>1. at'[1] = n /\ at'[3] = s + 1
        BY <3>4 DEF StaysIn
      <4>2. /\ \A t \in Pend : t \in Pend'
            /\ s = 2 => 2 \in Pend'
        <5>1. 2 \in WorksOf(probe, n, r)
          BY ONLY <1>6, <2>2 DEF WorksOf
        <5> QED BY <3>4, <5>1 DEF StaysIn
      <4>3. /\ n > 2 \/ (n = 2 /\ s + 1 > 2 /\ 2 \notin Pend') => Written("d_dst")
            /\ n > 3 \/ (n = 3 /\ s + 1 > 2 /\ 2 \notin Pend') => Written("d_src")
        BY ONLY <1>0, <3>2, <4>2
      <4> QED BY ONLY <1>0, <1>6, <2>2, <3>1, <3>2, <4>1, <4>3 DEF Memory, Allocated, Written
    <3> QED BY <3>3, <3>4
  <2>3. CASE n = 5
    <3>1. ~(at'[1] < 5)
      BY <2>0, <2>3 DEF StaysIn, Leaves
    <3> QED BY <1>0, <1>6, <3>1 DEF Memory
  <2> QED BY ONLY <2>0, <2>1, <2>2, <2>3
<1>7. CASE probe = "fabric-smoke"
  <2>0. r = 1 /\ RoundsOf(probe, n) = 1 /\ n \in 1 .. Len(Pairs) /\ s \in 1 .. 16
        /\ StepsOf(probe, n, r) = 16
    BY ONLY <1>7, IsPlace(probe, n, r, s) DEF IsPlace, PartsOf, RoundsOf, StepsOf
  <2>1. CASE Leaves(n, r, s)
    <3>1. at'[3] = 1
      BY <2>1 DEF Leaves
    <3> QED BY <1>0, <1>7, <3>1 DEF Memory
  <2>2. CASE StaysIn(n, r, s)
    <3>1. at'[3] = s + 1 /\ s < 16
      BY <2>0, <2>2 DEF StaysIn
    <3>2. /\ CallAt(<<n, 1, 2>>) = cudaMalloc("d_src")
          /\ CallAt(<<n, 1, 5>>) = cudaMalloc("d_dst")
          /\ CallAt(<<n, 1, 14>>) = cudaFree("d_dst")
      BY ONLY <1>7, <2>0, FabricCalls
    <3>3. /\ s = 2 => content' = [content EXCEPT !["d_src"] = Nobody]
          /\ s = 5 => content' = [content EXCEPT !["d_dst"] = Nobody]
          /\ s = 14 => content' = [content EXCEPT !["d_dst"] = Unallocated]
          /\ s \notin {2, 5, 14} => content' = content
      <4>1. /\ s = 2 \/ s = 5 => Now.call = "malloc"
            /\ s = 14 => Now.call = "free"
            /\ s \notin {2, 5, 14} => Now.call # "malloc" /\ Now.call # "free"
        BY ONLY <1>1, <1>7, <2>0, <3>1 DEF KindOf
      <4> QED BY ONLY <1>1, <1>2, <1>3, <2>0, <3>2, <4>1
    <3>4. /\ s > 2 => Allocated("d_src")
          /\ s > 3 /\ 3 \notin Pend => Written("d_src")
          /\ s \in 6 .. 14 => Allocated("d_dst")
      BY ONLY <1>4, <1>7, Memory DEF Memory
    <3>5. /\ s > 2 => content'["d_src"] = content["d_src"]
          /\ s \in 6 .. 13 => content'["d_dst"] = content["d_dst"]
          /\ s = 2 => content'["d_src"] # Unallocated
          /\ s = 5 => content'["d_dst"] # Unallocated
      <4>1. CASE s = 2
        <5>1. content' = [content EXCEPT !["d_src"] = Nobody]
          BY ONLY <3>3, <4>1
        <5>2. [content EXCEPT !["d_src"] = Nobody]["d_src"] = Nobody
          <6>1. "d_src" \in Buffers
            BY DEF Buffers
          <6> QED BY ONLY TypeOK, <6>1, TypeOfContent
        <5> QED BY ONLY <1>4, <4>1, <5>1, <5>2
      <4>2. CASE s = 5
        BY <1>4, <3>3, <4>2, TypeOfContent DEF Buffers
      <4>3. CASE s = 14
        BY <1>4, <3>3, <4>3, TypeOfContent DEF Buffers
      <4>4. CASE s \notin {2, 5, 14}
        BY ONLY <3>3, <4>4
      <4> QED BY ONLY <4>1, <4>2, <4>3, <4>4
    <3>6. /\ \A t \in Pend : t \in Pend'
          /\ s = 3 => 3 \in Pend'
      <4>1. 3 \in WorksOf(probe, n, r)
        BY ONLY <1>7 DEF WorksOf
      <4> QED BY <2>2, <4>1 DEF StaysIn
    <3>7. /\ s + 1 > 2 => content'["d_src"] # Unallocated
          /\ s + 1 > 3 /\ 3 \notin Pend' => content'["d_src"] \notin {Unallocated, Nobody}
          /\ s + 1 \in 6 .. 14 => content'["d_dst"] # Unallocated
      BY ONLY <1>0, <3>4, <3>5, <3>6 DEF Allocated, Written
    <3> QED BY ONLY <1>0, <1>7, <3>1, <3>7 DEF Memory, Allocated, Written
  <2> QED BY <2>1, <2>2
<1> QED BY <1>0, <1>5, <1>6, <1>7 DEF Probes

\* What the work of each script reads and writes.
LEMMA Accesses ==
    ASSUME probe \in Probes, NEW n, NEW r, NEW s, IsPlace(probe, n, r, s),
           s \in WorksOf(probe, n, r)
    PROVE  LET c == CallAt(<<n, r, s>>)
           IN  /\ probe = "ptx-latency" =>
                    /\ n \in 2 .. 5 /\ c = bench(KernelOf[n])
                    /\ c.name = KernelOf[n] /\ c.reads = {}
                    /\ c.writes = {"d_cycles", "d_sink"}
               /\ probe = "hbm-bandwidth" =>
                    /\ n \in 2 .. 4 /\ r = 1 /\ c = LaunchOf(n)
                    /\ c.name \notin Kernels
                    /\ c.reads = IF n = 2 THEN {} ELSE IF n = 3 THEN {"d_dst"}
                                                                ELSE {"d_src"}
                    /\ c.writes = IF n = 2 THEN {"d_dst"} ELSE IF n = 3 THEN {"d_src"}
                                                               ELSE {"d_partial"}
               /\ probe = "fabric-smoke" =>
                    /\ r = 1 /\ c.name \notin Kernels
                    /\ c.reads = IF s = 9 THEN {"d_src"} ELSE {}
                    /\ c.writes = IF s = 3 THEN {"d_src"} ELSE {"d_dst"}
<1>0. kSamples \in Nat \ {0}
  BY TimingAssumption
<1>1. CASE probe = "ptx-latency"
  <2>1. n \in 2 .. 5 /\ r \in 1 .. (kSamples + 1) /\ s = IF r = 1 THEN 3 ELSE 1
    BY ONLY <1>0, <1>1, IsPlace(probe, n, r, s), s \in WorksOf(probe, n, r)
       DEF IsPlace, PartsOf, RoundsOf, WorksOf
  <2>2. CallAt(<<n, r, s>>) = bench(KernelOf[n])
    <3>1. r = 1 \/ r \in 2 .. (kSamples + 1)
      BY ONLY <1>0, <2>1
    <3> QED BY ONLY <1>1, <2>1, <3>1, PtxCalls
  <2>3. \A x : /\ bench(x).name = x /\ bench(x).reads = {}
               /\ bench(x).writes = {"d_cycles", "d_sink"}
    BY ONLY DEF bench, launch, Work
  <2> QED BY ONLY <1>1, <2>1, <2>2, <2>3
<1>2. CASE probe = "hbm-bandwidth"
  <2>1. n \in 2 .. 4 /\ r = 1 /\ (s = 2 \/ s = 5)
    BY ONLY <1>2, IsPlace(probe, n, r, s), s \in WorksOf(probe, n, r)
       DEF IsPlace, RoundsOf, WorksOf
  <2>2. CallAt(<<n, r, s>>) = LaunchOf(n)
    BY ONLY <1>2, <2>1, HbmCalls
  <2>3. LaunchOf(n).name \notin Kernels
    BY ONLY <2>1 DEF LaunchOf, launch, Work, Kernels, Instructions
  <2>4. /\ LaunchOf(n).reads = IF n = 2 THEN {} ELSE IF n = 3 THEN {"d_dst"}
                                                                ELSE {"d_src"}
        /\ LaunchOf(n).writes = IF n = 2 THEN {"d_dst"} ELSE IF n = 3 THEN {"d_src"}
                                                               ELSE {"d_partial"}
    BY ONLY <2>1 DEF LaunchOf, launch, Work
  <2> QED BY ONLY <1>2, <2>1, <2>2, <2>3, <2>4
<1>3. CASE probe = "fabric-smoke"
  <2>1. n \in 1 .. Len(Pairs) /\ r = 1 /\ (s = 3 \/ s = 6 \/ s = 9)
    BY ONLY <1>3, IsPlace(probe, n, r, s), s \in WorksOf(probe, n, r)
       DEF IsPlace, PartsOf, RoundsOf, WorksOf
  <2>2. /\ CallAt(<<n, 1, 3>>) = cudaMemset("d_src")
        /\ CallAt(<<n, 1, 6>>) = cudaMemset("d_dst")
        /\ CallAt(<<n, 1, 9>>) = cudaMemcpyPeerAsync("d_dst", "d_src", Pairs[n][1])
    BY ONLY <1>3, <2>1, FabricCalls
  <2>3. \A b : /\ cudaMemset(b).name \notin Kernels /\ cudaMemset(b).reads = {}
               /\ cudaMemset(b).writes = {b}
    BY ONLY DEF cudaMemset, Work, Kernels, Instructions
  <2>4. \A b, c, d : /\ cudaMemcpyPeerAsync(b, c, d).name \notin Kernels
                     /\ cudaMemcpyPeerAsync(b, c, d).reads = {c}
                     /\ cudaMemcpyPeerAsync(b, c, d).writes = {b}
    BY ONLY DEF cudaMemcpyPeerAsync, Work, Kernels, Instructions
  <2>5. CASE s = 3
    BY ONLY <1>3, <2>1, <2>2, <2>3, <2>5
  <2>6. CASE s = 6
    BY ONLY <1>3, <2>1, <2>2, <2>3, <2>6
  <2>7. CASE s = 9
    BY ONLY <1>3, <2>1, <2>2, <2>4, <2>7
  <2> QED BY ONLY <2>1, <2>5, <2>6, <2>7
<1> QED BY <1>1, <1>2, <1>3 DEF Probes

\* What the GPUs finish or stamp is a call of the round.
LEMMA IsCall ==
    ASSUME OfThisRound, probe \in Probes,
           NEW n, NEW r, NEW s, IsPlace(probe, n, r, s), at = <<n, r, s>>,
           NEW t \in 1 .. (s - 1),
           BeginEffect(n, r, t) \/ FinishEffect(n, r, t) \/ StampEffect(n, r, t)
    PROVE  /\ IsPlace(probe, n, r, t) /\ t \in Pend
           /\ FinishEffect(n, r, t) => t \in WorksOf(probe, n, r)
<1>1. t \in Pend
  BY PendIs DEF BeginEffect, FinishEffect, StampEffect
<1>2. FinishEffect(n, r, t) => t \in WorksOf(probe, n, r)
  BY PendIs DEF FinishEffect
<1>3. IsPlace(probe, n, r, t)
  BY ONLY EarlierStep, probe \in Probes, IsPlace(probe, n, r, s), t \in 1 .. (s - 1)
<1> QED BY <1>1, <1>2, <1>3

\* What is finished has written its buffers.
LEMMA MemoryDevice ==
    ASSUME TypeOK, Memory, OfThisRound,
           NEW n, NEW r, NEW s, IsPlace(probe, n, r, s), at = <<n, r, s>>,
           NEW t \in 1 .. (s - 1),
           BeginEffect(n, r, t) \/ FinishEffect(n, r, t) \/ StampEffect(n, r, t)
    PROVE  Memory'
<1>0. /\ probe' = probe /\ at' = at /\ at[1] = n /\ at[2] = r /\ at[3] = s
      /\ n \in Nat \ {0} /\ probe \in Probes /\ s \in Int
  BY ShapeNumbers DEF BeginEffect, FinishEffect, StampEffect, IsPlace, TypeOK
<1>1. <<n, r, t>> # Unallocated /\ <<n, r, t>> # Nobody
  BY <1>0, Values
<1>2. ASSUME NEW b \in Buffers
      PROVE  /\ Allocated(b) => content'[b] # Unallocated
             /\ Written(b) => content'[b] # Unallocated /\ content'[b] # Nobody
             /\ FinishEffect(n, r, t) /\ b \in CallAt(<<n, r, t>>).writes =>
                  content'[b] # Unallocated /\ content'[b] # Nobody
  <2>1. CASE content' = content /\ ~FinishEffect(n, r, t)
    BY <2>1 DEF Allocated, Written
  <2>2. CASE FinishEffect(n, r, t)
    <3>1. content'[b] = IF b \in CallAt(<<n, r, t>>).writes THEN <<n, r, t>>
                                                            ELSE content[b]
      BY <2>2 DEF FinishEffect
    <3> QED BY ONLY <1>1, <3>1 DEF Allocated, Written
  <2> QED BY <2>1, <2>2 DEF BeginEffect, StampEffect
<1>3. ASSUME NEW u \in WorksOf(probe, n, r), u \in Pend, u \notin Pend'
      PROVE  u = t /\ FinishEffect(n, r, t)
  <2>1. ~BeginEffect(n, r, t)
    BY <1>3 DEF BeginEffect
  <2>2. ~StampEffect(n, r, t)
    <3>1. u \notin RecordsOf(probe, n)
      BY ONLY <1>0, <1>3 DEF RecordsOf, WorksOf, Probes
    <3> QED BY <1>3, <3>1 DEF StampEffect
  <2> QED BY <1>3, <2>1, <2>2 DEF FinishEffect
<1>4. /\ "d_src" \in Buffers /\ "d_dst" \in Buffers /\ "d_partial" \in Buffers
      /\ "d_cycles" \in Buffers /\ "d_sink" \in Buffers
  BY DEF Buffers
<1>5. CASE probe = "ptx-latency"
  BY ONLY <1>0, <1>2, <1>4, <1>5, Memory DEF Memory, Allocated
<1>6. CASE probe = "hbm-bandwidth"
  <2>1. ASSUME n = 2 \/ n = 3, 2 \in Pend, 2 \notin Pend'
        PROVE  /\ n = 2 => content'["d_dst"] # Unallocated /\ content'["d_dst"] # Nobody
               /\ n = 3 => content'["d_src"] # Unallocated /\ content'["d_src"] # Nobody
    <3>1. 2 \in WorksOf(probe, n, r)
      BY ONLY <1>6, <2>1 DEF WorksOf
    <3>2. t = 2 /\ FinishEffect(n, r, t)
      BY <1>3, <2>1, <3>1
    <3>3. IsPlace(probe, n, r, t) /\ t \in WorksOf(probe, n, r)
      BY <1>0, <3>2, IsCall
    <3>4. CallAt(<<n, r, t>>).writes = IF n = 2 THEN {"d_dst"} ELSE IF n = 3 THEN {"d_src"}
                                                               ELSE {"d_partial"}
      BY <1>0, <1>6, <3>3, Accesses
    <3> QED BY ONLY <1>2, <1>4, <2>1, <3>2, <3>4
  <2>2. /\ (n > 2 \/ (n = 2 /\ s > 2 /\ 2 \notin Pend)) /\ n < 5 => Written("d_dst")
        /\ (n > 3 \/ (n = 3 /\ s > 2 /\ 2 \notin Pend)) /\ n < 5 => Written("d_src")
    BY ONLY <1>0, <1>6, Memory DEF Memory
  <2>3. /\ (n > 2 \/ (n = 2 /\ s > 2 /\ 2 \notin Pend')) /\ n < 5 =>
             content'["d_dst"] # Unallocated /\ content'["d_dst"] # Nobody
        /\ (n > 3 \/ (n = 3 /\ s > 2 /\ 2 \notin Pend')) /\ n < 5 =>
             content'["d_src"] # Unallocated /\ content'["d_src"] # Nobody
    BY ONLY <1>0, <1>2, <1>4, <2>1, <2>2
  <2>4. n < 5 => /\ n > 1 \/ s > 2 => content'["d_src"] # Unallocated
                 /\ n > 1 \/ s > 3 => content'["d_dst"] # Unallocated
                 /\ n > 1 => content'["d_partial"] # Unallocated
    BY ONLY <1>0, <1>2, <1>4, <1>6, Memory DEF Memory
  <2> QED BY ONLY <1>0, <1>6, <2>3, <2>4 DEF Memory, Allocated, Written
<1>7. CASE probe = "fabric-smoke"
  <2>1. ASSUME 3 \in Pend, 3 \notin Pend'
        PROVE  content'["d_src"] # Unallocated /\ content'["d_src"] # Nobody
    <3>1. 3 \in WorksOf(probe, n, r)
      BY ONLY <1>7 DEF WorksOf
    <3>2. t = 3 /\ FinishEffect(n, r, t)
      BY <1>3, <2>1, <3>1
    <3>3. IsPlace(probe, n, r, t) /\ t \in WorksOf(probe, n, r)
      BY <1>0, <3>2, IsCall
    <3>4. CallAt(<<n, r, t>>).writes = IF t = 3 THEN {"d_src"} ELSE {"d_dst"}
      BY <1>0, <1>7, <3>3, Accesses
    <3> QED BY ONLY <1>2, <1>4, <3>2, <3>4
  <2>2. /\ s > 2 => content'["d_src"] # Unallocated
        /\ s > 3 /\ 3 \notin Pend' => content'["d_src"] # Unallocated /\ content'["d_src"] # Nobody
        /\ s \in 6 .. 14 => content'["d_dst"] # Unallocated
    BY ONLY <1>0, <1>2, <1>4, <1>7, <2>1, Memory DEF Memory
  <2> QED BY ONLY <1>0, <1>7, <2>2 DEF Memory, Allocated, Written
<1> QED BY <1>0, <1>5, <1>6, <1>7 DEF Probes

-----------------------------------------------------------------------------
(* The samples of ptx-latency *)

\* Four different kernels.
LEMMA KernelsAre ==
    /\ \A n \in 2 .. 5 : KernelOf[n] \in Kernels
    /\ \A m, n \in 2 .. 5 : KernelOf[m] = KernelOf[n] => m = n
  BY DEF KernelOf, Kernels, Instructions

\* The host launches once a round, and waits.
LEMMA FreshHost ==
    ASSUME Fresh, probe \in Probes, HostEffect(Now),
           NEW n, NEW r, NEW s, IsPlace(probe, n, r, s), at = <<n, r, s>>,
           StaysIn(n, r, s) \/ Leaves(n, r, s)
    PROVE  Fresh'
<1>0. probe' = probe /\ at[1] = n /\ at[2] = r /\ at[3] = s /\ kSamples \in Nat \ {0}
  BY TimingAssumption DEF HostEffect
<1>1. KindOf(probe, n, r, s, CallAt(<<n, r, s>>).call) /\ Now = CallAt(<<n, r, s>>)
  BY Kinds, AfterIs DEF IsPlace
<1>2. CASE Leaves(n, r, s)
  <2>1. at'[3] = 1
    BY <1>2 DEF Leaves
  <2> QED BY <2>1 DEF Fresh
<1>3. CASE StaysIn(n, r, s)
  <2>1. at'[1] = n /\ at'[2] = r /\ at'[3] = s + 1
    BY <1>3 DEF StaysIn
  <2> SUFFICES ASSUME probe = "ptx-latency", r \in 2 .. (kSamples + 1), s + 1 > 1,
                      queue' = {}
               PROVE  content'["d_cycles"] = <<n, r, 1>> /\ word' \in Sampled(KernelOf[n])
    BY <1>0, <2>1 DEF Fresh
  <2>2. n \in 2 .. 5 /\ (s = 1 \/ s = 2)
    <3>1. n \in 2 .. 5
      BY ONLY <1>0, probe = "ptx-latency", r \in 2 .. (kSamples + 1), IsPlace(probe, n, r, s)
         DEF IsPlace, PartsOf, RoundsOf
    <3>2. StepsOf(probe, n, r) = 3 /\ s \in 1 .. StepsOf(probe, n, r)
      BY ONLY <1>0, <3>1, probe = "ptx-latency", r \in 2 .. (kSamples + 1),
              IsPlace(probe, n, r, s) DEF IsPlace, StepsOf
    <3> QED BY <1>3, <3>1, <3>2 DEF StaysIn
  <2>3. s = 2
    <3>1. WorksOf(probe, n, r) = {1}
      BY ONLY <1>0, <2>2, probe = "ptx-latency", r \in 2 .. (kSamples + 1) DEF WorksOf
    <3> QED BY <1>3, <2>2, <3>1 DEF StaysIn
  <2>4. Now.call = "sync"
    BY ONLY <1>1, <2>2, <2>3, probe = "ptx-latency", r \in 2 .. (kSamples + 1) DEF KindOf
  <2>5. content' = content /\ word' = word /\ queue' = queue
    BY <2>4 DEF HostEffect
  <2> QED BY <1>0, <2>3, <2>5 DEF Fresh
<1> QED BY <1>2, <1>3

\* The launch of the round stores its cycles.
LEMMA FreshDevice ==
    ASSUME Fresh, TypeOK, OfThisRound,
           NEW n, NEW r, NEW s, IsPlace(probe, n, r, s), at = <<n, r, s>>,
           NEW t \in 1 .. (s - 1),
           BeginEffect(n, r, t) \/ FinishEffect(n, r, t) \/ StampEffect(n, r, t)
    PROVE  Fresh'
<1>0. /\ probe' = probe /\ at' = at /\ at[1] = n /\ at[2] = r /\ at[3] = s
      /\ probe \in Probes /\ kSamples \in Nat \ {0}
  BY TimingAssumption DEF BeginEffect, FinishEffect, StampEffect, TypeOK
<1> SUFFICES ASSUME probe = "ptx-latency", r \in 2 .. (kSamples + 1), queue' = {}
             PROVE  content'["d_cycles"] = <<n, r, 1>> /\ word' \in Sampled(KernelOf[n])
  BY <1>0 DEF Fresh
<1>1. IsPlace(probe, n, r, t) /\ t \in Pend
      /\ (FinishEffect(n, r, t) => t \in WorksOf(probe, n, r))
  BY <1>0, IsCall
<1>2. ~BeginEffect(n, r, t)
  <2>1. queue # {}
    BY <1>1 DEF Pend
  <2> QED BY <2>1 DEF BeginEffect
<1>3. ~StampEffect(n, r, t)
  <2>1. RecordsOf(probe, n) = {}
    BY ONLY probe = "ptx-latency" DEF RecordsOf
  <2> QED BY <2>1 DEF StampEffect
<1>4. FinishEffect(n, r, t)
  BY <1>2, <1>3
<1>5. t = 1
  BY ONLY <1>0, <1>1, <1>4, probe = "ptx-latency", r \in 2 .. (kSamples + 1) DEF WorksOf
<1>6. /\ n \in 2 .. 5 /\ CallAt(<<n, r, t>>).name = KernelOf[n]
      /\ CallAt(<<n, r, t>>).writes = {"d_cycles", "d_sink"}
  BY <1>0, <1>1, <1>4, Accesses
<1>7. KernelOf[n] \in Kernels
  BY <1>6, KernelsAre
<1>8. \E k \in Noise : word' = Cost[KernelOf[n]] + k
  BY <1>4, <1>6, <1>7 DEF FinishEffect
<1>9. content'["d_cycles"] = <<n, r, t>>
  BY <1>4, <1>6 DEF FinishEffect, Buffers
<1> QED BY <1>5, <1>8, <1>9 DEF Sampled

\* What a sample is read from.
LEMMA Fetches ==
    ASSUME Fresh, OfThisRound, Waited, probe \in Probes, HostEffect(Now),
           NEW n, NEW r, NEW s, IsPlace(probe, n, r, s), at = <<n, r, s>>,
           Now.call = "fetch"
    PROVE  /\ probe = "ptx-latency" /\ n \in 2 .. 5 /\ r \in 2 .. (kSamples + 1) /\ s = 3
           /\ word \in Sampled(KernelOf[n])
           /\ fetched' = <<<<n, r, 3>>, <<n, r, 1>>>>
           /\ cycles' = [cycles EXCEPT ![KernelOf[n]] = Append(@, word)]
<1>0. at[1] = n /\ at[2] = r /\ at[3] = s /\ kSamples \in Nat \ {0}
  BY TimingAssumption
<1>1. KindOf(probe, n, r, s, CallAt(<<n, r, s>>).call) /\ Now = CallAt(<<n, r, s>>)
  BY Kinds, AfterIs DEF IsPlace
<1>2. probe = "ptx-latency" /\ n > 1 /\ r \in 2 .. (kSamples + 1) /\ s = 3
  BY ONLY <1>1, Now.call = "fetch" DEF KindOf
<1>3. n \in 2 .. 5
  BY ONLY <1>2, IsPlace(probe, n, r, s) DEF IsPlace, PartsOf
<1>4. queue = {}
  BY <1>0, <1>2 DEF Waited
<1>5. content["d_cycles"] = <<n, r, 1>> /\ word \in Sampled(KernelOf[n])
  BY <1>0, <1>2, <1>4 DEF Fresh
<1>6. Now = cudaMemcpy("d_cycles", KernelOf[n])
  BY ONLY <1>1, <1>2, <1>3, PtxCalls
<1>7. \A b, x : cudaMemcpy(b, x).buf = b /\ cudaMemcpy(b, x).name = x
  BY ONLY DEF cudaMemcpy
<1>8. Now.buf = "d_cycles" /\ Now.name = KernelOf[n]
  BY ONLY <1>6, <1>7
<1>9. /\ fetched' = <<at, content["d_cycles"]>>
      /\ cycles' = [cycles EXCEPT ![KernelOf[n]] = Append(@, word)]
  BY <1>8 DEF HostEffect
<1> QED BY <1>2, <1>3, <1>5, <1>9

\* So the sample that is read is that of the launch of the round.
LEMMA FetchedHost ==
    ASSUME Fetched, Fresh, OfThisRound, Waited, probe \in Probes, HostEffect(Now),
           NEW n, NEW r, NEW s, IsPlace(probe, n, r, s), at = <<n, r, s>>
    PROVE  Fetched'
<1>0. probe' = probe
  BY DEF HostEffect
<1>1. CASE Now.call = "fetch"
  <2>1. /\ probe = "ptx-latency" /\ n \in 2 .. 5 /\ r \in 2 .. (kSamples + 1)
        /\ fetched' = <<<<n, r, 3>>, <<n, r, 1>>>>
    BY <1>1, Fetches
  <2> QED BY ONLY <1>0, <2>1 DEF Fetched
<1>2. CASE Now.call # "fetch"
  <2>1. fetched' = fetched
    BY <1>2 DEF HostEffect
  <2> QED BY ONLY <1>0, <2>1, Fetched DEF Fetched
<1> QED BY <1>1, <1>2

\* The samples of a kernel are counted when they are read, and only then.
LEMMA CountHost ==
    ASSUME probe = "ptx-latency", NEW n, NEW r, NEW s, IsPlace(probe, n, r, s),
           at = <<n, r, s>>, StaysIn(n, r, s) \/ Leaves(n, r, s), NEW m \in 2 .. 5
    PROVE  Count(at', m) =
             IF m = n /\ r \in 2 .. (kSamples + 1) /\ s = 3 THEN Count(at, m) + 1
                                                            ELSE Count(at, m)
<1>0. /\ kSamples \in Nat \ {0} /\ at[1] = n /\ at[2] = r /\ at[3] = s
      /\ n \in 1 .. 5 /\ r \in 1 .. RoundsOf(probe, n) /\ s \in 1 .. StepsOf(probe, n, r)
  BY TimingAssumption DEF IsPlace, PartsOf
<1>1. /\ RoundsOf(probe, n) = IF n = 1 THEN 1 ELSE kSamples + 2
      /\ StepsOf(probe, n, r) =
           IF n = 1 THEN 1 ELSE IF r = 1 THEN 4 ELSE IF r = kSamples + 2 THEN 2 ELSE 3
  BY ONLY <1>0, probe = "ptx-latency" DEF RoundsOf, StepsOf
<1>2. CASE StaysIn(n, r, s)
  <2>1. at'[1] = n /\ at'[2] = r
    BY <1>2 DEF StaysIn
  <2>2. ~(m = n /\ r \in 2 .. (kSamples + 1) /\ s = 3)
    <3>1. s < StepsOf(probe, n, r)
      BY <1>2 DEF StaysIn
    <3> QED BY ONLY <1>0, <1>1, <3>1
  <2> QED BY ONLY <1>0, <2>1, <2>2 DEF Count
<1>3. CASE Leaves(n, r, s)
  <2>1. /\ s = StepsOf(probe, n, r)
        /\ at' = IF r < RoundsOf(probe, n) THEN <<n, r + 1, 1>> ELSE <<n + 1, 1, 1>>
    BY <1>3 DEF Leaves
  <2>2. CASE r < RoundsOf(probe, n)
    <3>1. at'[1] = n /\ at'[2] = r + 1 /\ n > 1
      BY <1>0, <1>1, <2>1, <2>2
    <3>2. CASE r = 1
      BY ONLY <1>0, <3>1, <3>2 DEF Count
    <3>3. CASE r # 1
      <4>1. r \in 2 .. (kSamples + 1) /\ s = 3
        BY ONLY <1>0, <1>1, <2>1, <2>2, <3>1, <3>3
      <4> QED BY ONLY <1>0, <3>1, <4>1 DEF Count
    <3> QED BY <3>2, <3>3
  <2>3. CASE ~(r < RoundsOf(probe, n))
    <3>1. at'[1] = n + 1 /\ at'[2] = 1 /\ r = IF n = 1 THEN 1 ELSE kSamples + 2
      BY <1>0, <1>1, <2>1, <2>3
    <3> QED BY ONLY <1>0, <3>1 DEF Count
  <2> QED BY <2>2, <2>3
<1> QED BY <1>2, <1>3

\* One sample is added a round, of the kernel of the part.
LEMMA SamplesHost ==
    ASSUME TypeOK, Samples, Fresh, OfThisRound, Waited, HostEffect(Now),
           NEW n, NEW r, NEW s, IsPlace(probe, n, r, s), at = <<n, r, s>>,
           StaysIn(n, r, s) \/ Leaves(n, r, s)
    PROVE  Samples'
<1>0. probe' = probe /\ probe \in Probes /\ cycles \in [Kernels -> Seq(Nat)] /\ word \in Nat
  BY DEF HostEffect, TypeOK
<1>1. KindOf(probe, n, r, s, CallAt(<<n, r, s>>).call) /\ Now = CallAt(<<n, r, s>>)
  BY <1>0, Kinds, AfterIs DEF IsPlace
<1> SUFFICES ASSUME probe = "ptx-latency", NEW m \in 2 .. 5
             PROVE  /\ Len(cycles'[KernelOf[m]]) = Count(at', m)
                    /\ \A i \in 1 .. Len(cycles'[KernelOf[m]]) :
                          cycles'[KernelOf[m]][i] \in Sampled(KernelOf[m])
  BY <1>0 DEF Samples, Count, Sampled
<1>2. /\ Len(cycles[KernelOf[m]]) = Count(at, m)
      /\ \A i \in 1 .. Len(cycles[KernelOf[m]]) :
            cycles[KernelOf[m]][i] \in Sampled(KernelOf[m])
  BY DEF Samples
<1>3. Count(at', m) =
        IF m = n /\ r \in 2 .. (kSamples + 1) /\ s = 3 THEN Count(at, m) + 1
                                                       ELSE Count(at, m)
  BY CountHost
<1>4. CASE Now.call = "fetch"
  <2>1. /\ n \in 2 .. 5 /\ r \in 2 .. (kSamples + 1) /\ s = 3
        /\ word \in Sampled(KernelOf[n])
        /\ cycles' = [cycles EXCEPT ![KernelOf[n]] = Append(@, word)]
    BY <1>0, <1>4, Fetches
  <2>2. /\ KernelOf[m] \in Kernels /\ KernelOf[n] \in Kernels
        /\ KernelOf[m] = KernelOf[n] => m = n
    BY <2>1, KernelsAre
  <2>3. CASE m = n
    <3> DEFINE c == cycles[KernelOf[m]]
    <3>1. c \in Seq(Nat)
      BY <1>0, <2>2
    <3>2. cycles'[KernelOf[m]] = Append(c, word)
      BY ONLY <1>0, <2>1, <2>2, <2>3
    <3> HIDE DEF c
    <3>3. /\ Len(Append(c, word)) = Len(c) + 1 /\ Len(c) \in Nat
          /\ \A i \in 1 .. Len(c) : Append(c, word)[i] = c[i]
          /\ Append(c, word)[Len(c) + 1] = word
      BY ONLY <1>0, <3>1
    <3>4. \A i \in 1 .. (Len(c) + 1) : Append(c, word)[i] \in Sampled(KernelOf[m])
      BY <1>2, <2>1, <2>3, <3>3 DEF c
    <3> QED BY <1>2, <1>3, <2>1, <2>3, <3>2, <3>3, <3>4 DEF c
  <2>4. CASE m # n
    <3>1. cycles'[KernelOf[m]] = cycles[KernelOf[m]]
      BY ONLY <1>0, <2>1, <2>2, <2>4
    <3> QED BY ONLY <1>2, <1>3, <2>4, <3>1
  <2> QED BY <2>3, <2>4
<1>5. CASE Now.call # "fetch"
  <2>1. cycles' = cycles
    BY <1>5 DEF HostEffect
  <2>2. ~(m = n /\ r \in 2 .. (kSamples + 1) /\ s = 3)
    BY ONLY <1>1, <1>5, probe = "ptx-latency", m \in 2 .. 5 DEF KindOf
  <2> QED BY ONLY <1>2, <1>3, <2>1, <2>2
<1> QED BY <1>4, <1>5

-----------------------------------------------------------------------------
(* The types *)

\* Work is left to the GPUs there are.
LEMMA NeedsAreGpus ==
    ASSUME probe \in Probes, NEW n \in 1 .. PartsOf(probe), NEW s
    PROVE  NeedsOf(probe, n, s) \subseteq Gpus
<1>1. gpu \in Gpus /\ Pairs \in Seq(Gpus \X Gpus)
  BY TimingAssumption
<1>2. CASE probe = "fabric-smoke"
  <2>1. n \in 1 .. Len(Pairs)
    BY ONLY <1>2, n \in 1 .. PartsOf(probe) DEF PartsOf
  <2>2. Pairs[n] \in Gpus \X Gpus
    BY ONLY <1>1, <2>1
  <2>3. Pairs[n][1] \in Gpus /\ Pairs[n][2] \in Gpus
    BY ONLY <2>2
  <2> QED BY ONLY <1>2, <2>3 DEF NeedsOf
<1>3. CASE probe # "fabric-smoke"
  BY ONLY <1>1, <1>3 DEF NeedsOf
<1> QED BY <1>2, <1>3

\* The values of the events.
LEMMA EventTypes ==
    LET T == [{"start", "stop"} -> {"none", "created", "recorded", "done"}]
    IN  /\ [start |-> "none", stop |-> "none"] \in T
        /\ [start |-> "created", stop |-> "created"] \in T
        /\ \A f \in T : \A e, v : v \in {"none", "created", "recorded", "done"} =>
              [f EXCEPT ![e] = v] \in T
<1> DEFINE V == {"none", "created", "recorded", "done"}
<1>1. [start |-> "none", stop |-> "none"] \in [{"start", "stop"} -> V]
  OBVIOUS
<1>2. [start |-> "created", stop |-> "created"] \in [{"start", "stop"} -> V]
  OBVIOUS
<1>3. ASSUME NEW f \in [{"start", "stop"} -> V], NEW e, NEW v \in V
      PROVE  [f EXCEPT ![e] = v] \in [{"start", "stop"} -> V]
  <2> HIDE DEF V
  <2> QED OBVIOUS
<1> QED BY <1>1, <1>2, <1>3

\* The types, after a call.
LEMMA TypeHost ==
    ASSUME TypeOK, Fresh, OfThisRound, Waited, HostEffect(Now), current' \in Gpus,
           NEW n, NEW r, NEW s, IsPlace(probe, n, r, s), at = <<n, r, s>>,
           StaysIn(n, r, s) \/ Leaves(n, r, s)
    PROVE  TypeOK'
<1>0. probe' = probe /\ elements' = elements /\ thrown' = thrown /\ word' = word
      /\ probe \in Probes /\ kSamples \in Nat \ {0}
  BY TimingAssumption DEF HostEffect, TypeOK
<1>1. Positions' = Positions /\ Script' = Script
  BY <1>0, SameScript
<1>2. at' \in Positions \/ at' = <<Len(Script) + 1, 1, 1>>
  BY <1>0, AfterIs DEF HostEffect
<1>3. <<n, r, s>> \in Positions
  BY <1>0, PositionsAre
<1>4. /\ queue' \subseteq [at : Positions, gpus : SUBSET Gpus]
      /\ running' \subseteq {w.at : w \in queue'}
  <2>1. CASE Leaves(n, r, s)
    BY <2>1 DEF Leaves
  <2>2. CASE StaysIn(n, r, s)
    <3>1. NeedsOf(probe, n, s) \subseteq Gpus
      BY <1>0, NeedsAreGpus DEF IsPlace
    <3>2. Entry(probe, n, r, s) \in [at : Positions, gpus : SUBSET Gpus]
      BY ONLY <1>3, <3>1 DEF Entry
    <3>3. queue \subseteq queue' /\ queue' \subseteq queue \cup {Entry(probe, n, r, s)}
      BY <2>2 DEF StaysIn
    <3>4. queue \subseteq [at : Positions, gpus : SUBSET Gpus]
          /\ running \subseteq {w.at : w \in queue}
      BY DEF TypeOK
    <3>5. running' = running
      BY <2>2 DEF StaysIn
    <3> QED BY ONLY <3>2, <3>3, <3>4, <3>5
  <2> QED BY <2>1, <2>2
<1>5. content' \in [Buffers -> Positions \cup {Unallocated, Nobody}]
  <2>1. content \in [Buffers -> Positions \cup {Unallocated, Nobody}]
    BY DEF TypeOK
  <2>2. \/ content' = content
        \/ content' = [content EXCEPT ![Now.buf] = Nobody]
        \/ content' = [content EXCEPT ![Now.buf] = Unallocated]
    BY DEF HostEffect
  <2> QED BY ONLY <2>1, <2>2
<1>6. event' \in [{"start", "stop"} -> {"none", "created", "recorded", "done"}]
  <2>1. event \in [{"start", "stop"} -> {"none", "created", "recorded", "done"}]
    BY DEF TypeOK
  <2>2. \/ event' = event
        \/ event' = [event EXCEPT ![Now.evt] = "recorded"]
        \/ event' = [start |-> "created", stop |-> "created"]
        \/ event' = [start |-> "none", stop |-> "none"]
    BY DEF HostEffect
  <2> QED BY ONLY <2>1, <2>2, EventTypes
<1>7. partial' \subseteq during' /\ during' \subseteq Positions
  <2>1. partial \subseteq during /\ during \subseteq Positions
    BY DEF TypeOK
  <2>2. (during' = {} /\ partial' = {}) \/ (during' = during /\ partial' = partial)
    BY DEF HostEffect
  <2> QED BY ONLY <2>1, <2>2
<1>8. fetched' = <<>> \/ fetched' \in Positions \X Positions
  <2>1. CASE Now.call = "fetch"
    <3>1. /\ probe = "ptx-latency" /\ n \in 2 .. 5 /\ r \in 2 .. (kSamples + 1) /\ s = 3
          /\ fetched' = <<<<n, r, 3>>, <<n, r, 1>>>>
      BY <1>0, <2>1, Fetches
    <3>2. IsPlace(probe, n, r, 1)
      BY ONLY <3>1, IsPlace(probe, n, r, s) DEF IsPlace, StepsOf
    <3>3. <<n, r, 1>> \in Positions
      BY <1>0, <3>2, PositionsAre
    <3> QED BY ONLY <1>3, <3>1, <3>3
  <2>2. CASE Now.call # "fetch"
    BY <2>2 DEF HostEffect, TypeOK
  <2> QED BY <2>1, <2>2
<1>9. timed' = <<>> \/ timed' \in Positions \X (SUBSET Positions) \X (SUBSET Positions)
  <2>1. timed' = timed \/ timed' = <<at, during, partial>>
    BY DEF HostEffect
  <2>2. partial \subseteq during /\ during \subseteq Positions
        /\ (timed = <<>> \/ timed \in Positions \X (SUBSET Positions) \X (SUBSET Positions))
    BY DEF TypeOK
  <2> QED BY ONLY <1>3, <2>1, <2>2, at = <<n, r, s>>
<1>10. cycles' \in [Kernels -> Seq(Nat)]
  <2>1. cycles \in [Kernels -> Seq(Nat)] /\ word \in Nat
    BY DEF TypeOK
  <2>2. cycles' = cycles \/ cycles' = [cycles EXCEPT ![Now.name] = Append(@, word)]
    BY DEF HostEffect
  <2>3. \A x \in Kernels : Append(cycles[x], word) \in Seq(Nat)
    BY ONLY <2>1
  <2> QED BY ONLY <2>1, <2>2, <2>3
<1>11. elements \in Elements /\ thrown \in BOOLEAN /\ word \in Nat
  BY DEF TypeOK
<1> QED BY ONLY <1>0, <1>1, <1>2, <1>4, <1>5, <1>6, <1>7, <1>8, <1>9, <1>10, <1>11,
            current' \in Gpus DEF TypeOK

\* The types, after a step of the GPUs.
LEMMA TypeDevice ==
    ASSUME TypeOK, OfThisRound, OfThisRound', partial' \subseteq during',
           NEW n, NEW r, NEW s, IsPlace(probe, n, r, s), at = <<n, r, s>>,
           NEW t \in 1 .. (s - 1),
           BeginEffect(n, r, t) \/ FinishEffect(n, r, t) \/ StampEffect(n, r, t)
    PROVE  TypeOK'
<1>0. /\ probe' = probe /\ elements' = elements /\ at' = at /\ thrown' = thrown
      /\ current' = current /\ fetched' = fetched /\ timed' = timed /\ cycles' = cycles
      /\ probe \in Probes
  BY DEF BeginEffect, FinishEffect, StampEffect, TypeOK, host
<1>1. Positions' = Positions /\ Script' = Script
  BY <1>0, SameScript
<1>2. <<n, r, t>> \in Positions
  <2>1. IsPlace(probe, n, r, t)
    BY <1>0, IsCall
  <2> QED BY <1>0, <2>1, PositionsAre
<1>3. queue' \subseteq [at : Positions, gpus : SUBSET Gpus]
  <2>1. queue' \subseteq queue
    BY DEF BeginEffect, FinishEffect, StampEffect
  <2> QED BY <2>1 DEF TypeOK
<1>4. running' \subseteq {w.at : w \in queue'}
  <2> SUFFICES ASSUME NEW j \in running' PROVE \E w \in queue' : j = w.at
    OBVIOUS
  <2>1. PICK u \in Pend' : j = <<n, r, u>>
    BY <1>0 DEF OfThisRound
  <2>2. PICK w \in queue' : u = w.at[3]
    BY <2>1 DEF Pend
  <2>3. w \in queue
    BY <2>2 DEF BeginEffect, FinishEffect, StampEffect
  <2>4. w = Entry(probe, n, r, w.at[3])
    BY <2>3, PendIs
  <2>5. w.at = <<n, r, w.at[3]>>
    BY ONLY <2>4 DEF Entry
  <2> QED BY ONLY <2>1, <2>2, <2>5
<1>5. content' \in [Buffers -> Positions \cup {Unallocated, Nobody}]
  <2>1. content \in [Buffers -> Positions \cup {Unallocated, Nobody}]
    BY DEF TypeOK
  <2>2. \/ content' = content
        \/ content' = [b \in Buffers |-> IF b \in CallAt(<<n, r, t>>).writes THEN <<n, r, t>>
                                                                             ELSE content[b]]
    BY DEF BeginEffect, FinishEffect, StampEffect
  <2> QED BY ONLY <1>2, <2>1, <2>2
<1>6. event' \in [{"start", "stop"} -> {"none", "created", "recorded", "done"}]
  <2>1. event \in [{"start", "stop"} -> {"none", "created", "recorded", "done"}]
    BY DEF TypeOK
  <2>2. event' = event \/ event' = [event EXCEPT ![CallAt(<<n, r, t>>).evt] = "done"]
    BY DEF BeginEffect, FinishEffect, StampEffect, clock
  <2> QED BY ONLY <2>1, <2>2, EventTypes
<1>7. during' \subseteq Positions
  <2>1. running \subseteq {w.at : w \in queue} /\ during \subseteq Positions
        /\ queue \subseteq [at : Positions, gpus : SUBSET Gpus]
    BY DEF TypeOK
  <2>2. during' \subseteq during \cup {<<n, r, t>>} \/ during' = running
    BY DEF BeginEffect, FinishEffect, StampEffect, clock
  <2>3. running \subseteq Positions
    BY ONLY <2>1
  <2> QED BY ONLY <1>2, <2>1, <2>2, <2>3
<1>8. word' \in Nat
  <2>1. word \in Nat
    BY DEF TypeOK
  <2>2. Cost \in [Kernels -> Nat] /\ Noise \subseteq Nat
    BY TimingAssumption
  <2>3. \/ word' = word
        \/ /\ CallAt(<<n, r, t>>).name \in Kernels
           /\ \E k \in Noise : word' = Cost[CallAt(<<n, r, t>>).name] + k
    BY DEF BeginEffect, FinishEffect, StampEffect
  <2> QED BY ONLY <2>1, <2>2, <2>3
<1>9. /\ elements \in Elements /\ thrown \in BOOLEAN /\ current \in Gpus
      /\ at \in Positions \/ at = <<Len(Script) + 1, 1, 1>>
      /\ fetched = <<>> \/ fetched \in Positions \X Positions
      /\ timed = <<>> \/ timed \in Positions \X (SUBSET Positions) \X (SUBSET Positions)
      /\ cycles \in [Kernels -> Seq(Nat)]
  BY DEF TypeOK
<1> QED BY ONLY <1>0, <1>1, <1>3, <1>4, <1>5, <1>6, <1>7, <1>8, <1>9,
            partial' \subseteq during' DEF TypeOK

-----------------------------------------------------------------------------
(* The invariant *)

\* It holds at the start,
LEMMA InitTiming == Init => TimingInv
<1> SUFFICES ASSUME Init PROVE TimingInv
  OBVIOUS
<1>0. /\ probe \in Probes /\ elements \in Elements /\ at = <<1, 1, 1>> /\ thrown = FALSE
      /\ current \in Gpus /\ queue = {} /\ running = {}
      /\ content = [b \in Buffers |-> Unallocated]
      /\ event = [start |-> "none", stop |-> "none"] /\ during = {} /\ partial = {}
      /\ fetched = <<>> /\ timed = <<>> /\ word = 0 /\ cycles = [x \in Kernels |-> <<>>]
  BY DEF Init
<1>1. at[1] = 1 /\ at[2] = 1 /\ at[3] = 1 /\ kSamples \in Nat \ {0}
  BY <1>0, TimingAssumption
<1>2. TypeOK
  <2>1. at \in Positions \/ at = <<Len(Script) + 1, 1, 1>>
    <3>1. Len(Script) = PartsOf(probe) /\ PartsOf(probe) \in Nat
          /\ RoundsOf(probe, 1) \in Nat \ {0} /\ StepsOf(probe, 1, 1) \in Nat \ {0}
      <4>1. Len(Script) = PartsOf(probe)
        BY <1>0, Shape
      <4>2. PartsOf(probe) \in Nat
        BY <1>0, ShapeNumbers
      <4>3. RoundsOf(probe, 1) \in Nat \ {0} /\ StepsOf(probe, 1, 1) \in Nat \ {0}
        BY ONLY <1>1 DEF RoundsOf, StepsOf
      <4> QED BY ONLY <4>1, <4>2, <4>3
    <3>2. CASE PartsOf(probe) = 0
      BY ONLY <1>0, <3>1, <3>2
    <3>3. CASE PartsOf(probe) # 0
      <4>1. IsPlace(probe, 1, 1, 1)
        BY ONLY <3>1, <3>3 DEF IsPlace
      <4> QED BY <1>0, <4>1, PositionsAre
    <3> QED BY <3>2, <3>3
  <2>2. event \in [{"start", "stop"} -> {"none", "created", "recorded", "done"}]
    BY ONLY <1>0, EventTypes
  <2>3. content \in [Buffers -> Positions \cup {Unallocated, Nobody}]
    BY ONLY <1>0
  <2>4. cycles \in [Kernels -> Seq(Nat)]
    BY ONLY <1>0
  <2> QED BY ONLY <1>0, <2>1, <2>2, <2>3, <2>4 DEF TypeOK
<1>3. Pend = {} /\ Run = {}
  BY <1>0 DEF Pend, Run
<1>4. OfThisRound /\ InOrder /\ Waited
  BY <1>0, <1>3 DEF OfThisRound, InOrder, Waited
<1>5. Current
  BY ONLY <1>0, <1>1 DEF Current
<1>6. Events
  <2>1. StateOf(probe, 1, 1, StartAt(probe), StartAt(probe) \in Pend) = "none"
        /\ StateOf(probe, 1, 1, StartAt(probe) + 2, StartAt(probe) + 2 \in Pend) = "none"
    BY ONLY DEF StateOf, TimedPart, CreateAt
  <2>2. event.start = "none" /\ event.stop = "none"
    BY ONLY <1>0
  <2> QED BY ONLY <1>1, <2>1, <2>2 DEF Events
<1>7. Between
  <2>1. ~(at[3] > CreateAt(probe))
    BY ONLY <1>1 DEF CreateAt
  <2> QED BY ONLY <2>1 DEF Between
<1>8. Read /\ Fetched
  BY ONLY <1>0 DEF Read, Fetched
<1>9. Memory
  BY ONLY <1>1 DEF Memory
<1>10. Fresh
  BY ONLY <1>1 DEF Fresh
<1>11. Samples
  <2>1. \A n \in 2 .. 5 : cycles[KernelOf[n]] = <<>>
    BY <1>0, KernelsAre
  <2>2. \A n \in 2 .. 5 : Count(at, n) = 0
    BY ONLY <1>1 DEF Count
  <2> QED BY <2>1, <2>2 DEF Samples
<1> QED BY ONLY <1>2, <1>4, <1>5, <1>6, <1>7, <1>8, <1>9, <1>10, <1>11 DEF TimingInv

\* A call that fails changes nothing but that the script has ended.
LEMMA KeepsTiming ==
    ASSUME TimingInv, thrown' \in BOOLEAN,
           UNCHANGED <<probe, elements, at, host, device, clock>>
    PROVE  TimingInv'
<1>0. /\ probe' = probe /\ elements' = elements /\ at' = at /\ current' = current
      /\ fetched' = fetched /\ cycles' = cycles /\ timed' = timed /\ queue' = queue
      /\ running' = running /\ content' = content /\ word' = word /\ event' = event
      /\ during' = during /\ partial' = partial
  BY DEF host, device, clock
<1>1. Pend' = Pend /\ Run' = Run
  BY <1>0 DEF Pend, Run
<1>2. Positions' = Positions /\ Script' = Script
  BY <1>0, SameScript
<1>3. TypeOK'
  BY <1>0, <1>2 DEF TimingInv, TypeOK
<1>4. OfThisRound' /\ InOrder' /\ Waited'
  BY <1>0, <1>1 DEF TimingInv, OfThisRound, InOrder, Waited
<1>5. Current' /\ Events' /\ Between'
  BY <1>0, <1>1 DEF TimingInv, Current, Events, Between
<1>6. Read' /\ Fetched' /\ Fresh'
  BY <1>0 DEF TimingInv, Read, Fetched, Fresh
<1>7. Memory' /\ Samples'
  BY <1>0, <1>1 DEF TimingInv, Memory, Allocated, Written, Samples
<1> QED BY <1>3, <1>4, <1>5, <1>6, <1>7 DEF TimingInv

\* Every call keeps it,
LEMMA HostTiming ==
    ASSUME TimingInv, Host
    PROVE  TimingInv'
<1>1. CASE thrown' = TRUE /\ UNCHANGED <<probe, elements, at, host, device, clock>>
  BY <1>1, KeepsTiming
<1>2. CASE HostEffect(Now)
  <2>1. TypeOK /\ probe \in Probes /\ ~Ended
    BY <1>2 DEF TimingInv, TypeOK, HostEffect
  <2>2. PICK n, r, s : IsPlace(probe, n, r, s) /\ at = <<n, r, s>>
    BY <2>1, HostPlace
  <2>3. /\ OfThisRound /\ InOrder /\ Waited /\ Current /\ Events /\ Between
        /\ Read /\ Memory /\ Fresh /\ Fetched /\ Samples
    BY DEF TimingInv
  <2>4. StaysIn(n, r, s) \/ Leaves(n, r, s)
    BY <1>2, <2>1, <2>2, <2>3, HostMoves
  <2>5. OfThisRound' /\ InOrder'
    BY <1>2, <2>1, <2>2, <2>3, QueueHost
  <2>6. Waited'
    BY <1>2, <2>1, <2>2, <2>3, WaitedHost
  <2>7. Current' /\ current' \in Gpus
    BY <1>2, <2>1, <2>2, <2>4, <2>3, CurrentHost
  <2>8. Events'
    BY <1>2, <2>1, <2>2, <2>4, <2>3, EventsHost
  <2>9. Between'
    BY <1>2, <2>1, <2>2, <2>4, <2>3, BetweenHost
  <2>10. Read'
    BY <1>2, <2>1, <2>2, <2>3, ReadHost
  <2>11. Memory'
    BY <1>2, <2>1, <2>2, <2>4, <2>3, MemoryHost
  <2>12. Fresh'
    BY <1>2, <2>1, <2>2, <2>4, <2>3, FreshHost
  <2>13. Fetched'
    BY <1>2, <2>1, <2>2, <2>3, FetchedHost
  <2>14. Samples'
    BY <1>2, <2>1, <2>2, <2>4, <2>3, SamplesHost
  <2>15. TypeOK'
    BY <1>2, <2>1, <2>2, <2>4, <2>3, <2>7, TypeHost
  <2> QED BY ONLY <2>5, <2>6, <2>7, <2>8, <2>9, <2>10, <2>11, <2>12, <2>13, <2>14, <2>15
          DEF TimingInv
<1> QED BY <1>1, <1>2, HostSteps

\* and so does every step of the GPUs.
LEMMA DeviceTiming ==
    ASSUME TimingInv, Device
    PROVE  TimingInv'
<1>1. /\ TypeOK /\ OfThisRound /\ InOrder /\ Waited /\ Current /\ Events /\ Between
      /\ Read /\ Memory /\ Fresh /\ Fetched /\ Samples
  BY DEF TimingInv
<1>2. probe \in Probes
  BY <1>1 DEF TypeOK
<1>3. PICK n, r, s : IsPlace(probe, n, r, s) /\ at = <<n, r, s>>
  BY <1>1, DevicePlace
<1>4. PICK t \in 1 .. (s - 1) :
         BeginEffect(n, r, t) \/ FinishEffect(n, r, t) \/ StampEffect(n, r, t)
  BY <1>1, <1>2, <1>3, DeviceSteps
<1>5. /\ probe' = probe /\ at' = at /\ current' = current /\ fetched' = fetched
      /\ timed' = timed /\ cycles' = cycles
  BY <1>4 DEF BeginEffect, FinishEffect, StampEffect, host
<1>6. OfThisRound' /\ InOrder'
  BY <1>1, <1>2, <1>3, <1>4, QueueDevice
<1>7. Waited'
  BY <1>1, <1>4, WaitedDevice
<1>8. Current'
  BY ONLY <1>1, <1>5 DEF Current
<1>9. Events'
  BY <1>1, <1>2, <1>3, <1>4, EventsDevice
<1>10. Between' /\ partial' \subseteq during'
  BY <1>1, <1>2, <1>3, <1>4, BetweenDevice
<1>11. Read'
  BY ONLY <1>1, <1>5 DEF Read
<1>12. Memory'
  BY <1>1, <1>2, <1>3, <1>4, MemoryDevice
<1>13. Fresh'
  BY <1>1, <1>2, <1>3, <1>4, FreshDevice
<1>14. Fetched'
  BY ONLY <1>1, <1>5 DEF Fetched
<1>15. Samples'
  BY ONLY <1>1, <1>5 DEF Samples
<1>16. TypeOK'
  BY <1>1, <1>3, <1>4, <1>6, <1>10, TypeDevice
<1> QED BY ONLY <1>6, <1>7, <1>8, <1>9, <1>10, <1>11, <1>12, <1>13, <1>14, <1>15, <1>16
        DEF TimingInv

\* The inductive invariant holds always: in whatever order the GPUs come to their
\* work, and wherever a call of the script fails.
THEOREM TimingInvariant == Spec => []TimingInv
<1>1. ASSUME TimingInv, [Next]_vars
      PROVE  TimingInv'
  <2>1. CASE Next
    BY <1>1, <2>1, HostTiming, DeviceTiming DEF Next
  <2>2. CASE UNCHANGED vars
    <3>1. thrown \in BOOLEAN
      BY <1>1 DEF TimingInv, TypeOK
    <3> QED BY <1>1, <2>2, <3>1, KeepsTiming DEF vars
  <2> QED BY <1>1, <2>1, <2>2
<1> QED BY InitTiming, <1>1, PTL DEF Spec

-----------------------------------------------------------------------------
(* What it implies *)

\* Every variable always has its type.
THEOREM TimingTypes == Spec => []TypeOK
<1>1. TimingInv => TypeOK
  BY DEF TimingInv
<1> QED BY TimingInvariant, <1>1, PTL

\* The work that a call is about is the last of its round before it.
LEMMA LastWorkIs ==
    ASSUME probe \in Probes, NEW n, NEW r, NEW s, IsPlace(probe, n, r, s),
           NEW t \in 1 .. (s - 1), t \in WorksOf(probe, n, r),
           \A u \in (t + 1) .. (s - 1) : u \notin WorksOf(probe, n, r)
    PROVE  LastWork(<<n, r, s>>) = <<n, r, t>>
<1> DEFINE S == {<<n, r, u>> : u \in 1 .. (s - 1)}
           P(i) == /\ CallAt(i).call = "work"
                   /\ \A u \in (i[3] + 1) .. (s - 1) : CallAt(<<n, r, u>>).call # "work"
<1>1. s \in Int
  BY ShapeNumbers DEF IsPlace
<1>2. \A u \in 1 .. (s - 1) : CallAt(<<n, r, u>>).call = "work" <=> u \in WorksOf(probe, n, r)
  <2> SUFFICES ASSUME NEW u \in 1 .. (s - 1)
               PROVE  CallAt(<<n, r, u>>).call = "work" <=> u \in WorksOf(probe, n, r)
    OBVIOUS
  <2>1. IsPlace(probe, n, r, u)
    BY ONLY EarlierStep, probe \in Probes, IsPlace(probe, n, r, s), u \in 1 .. (s - 1)
  <2>2. KindOf(probe, n, r, u, CallAt(<<n, r, u>>).call)
    BY <2>1, Kinds DEF IsPlace
  <2> QED BY ONLY <2>2 DEF KindOf
<1>3. LastWork(<<n, r, s>>) = CHOOSE i \in S : P(i)
  BY DEF LastWork
<1>4. <<n, r, t>> \in S /\ P(<<n, r, t>>)
  <2>1. <<n, r, t>>[3] = t
    OBVIOUS
  <2>2. \A u \in (t + 1) .. (s - 1) : u \in 1 .. (s - 1)
    BY ONLY <1>1, t \in 1 .. (s - 1)
  <2> QED BY <1>2, <2>1, <2>2
<1>5. ASSUME NEW i \in S, P(i)
      PROVE  i = <<n, r, t>>
  <2>1. PICK u \in 1 .. (s - 1) : i = <<n, r, u>>
    BY <1>5
  <2>2. i[3] = u
    BY ONLY <2>1
  <2>3. u \in WorksOf(probe, n, r)
    BY <1>2, <1>5, <2>1
  <2>4. ~(u < t)
    <3>1. u < t => t \in (u + 1) .. (s - 1)
      BY ONLY <1>1, t \in 1 .. (s - 1), u \in 1 .. (s - 1)
    <3>2. CallAt(<<n, r, t>>).call = "work"
      BY <1>4
    <3> QED BY <1>5, <2>2, <3>1, <3>2
  <2>5. ~(t < u)
    <3>1. t < u => u \in (t + 1) .. (s - 1)
      BY ONLY <1>1, t \in 1 .. (s - 1), u \in 1 .. (s - 1)
    <3> QED BY <2>3, <3>1
  <2> QED BY ONLY <2>1, <2>4, <2>5, t \in 1 .. (s - 1), <1>1
<1> HIDE DEF S, P
<1>6. (CHOOSE i \in S : P(i)) \in S /\ P(CHOOSE i \in S : P(i))
  BY <1>4
<1> QED BY <1>3, <1>5, <1>6

\* The work that was timed, and the place of the call that has read its time.
LEMMA TimedWork ==
    ASSUME Read, timed # <<>>, probe \in Probes
    PROVE  \E n \in 1 .. PartsOf(probe) :
              LET a == StartAt(probe)
              IN  /\ probe # "ptx-latency" /\ TimedPart(probe, n)
                  /\ IsPlace(probe, n, 1, a + 1)
                  /\ LastWork(timed[1]) = <<n, 1, a + 1>>
                  /\ timed[2] \subseteq Early(probe, n, 1) \cup {<<n, 1, a + 1>>}
                  /\ timed[3] \subseteq Early(probe, n, 1)
                  /\ <<n, 1, a + 1>> \in timed[2]
                  /\ <<n, 1, a + 1>> \notin Early(probe, n, 1)
<1> DEFINE a == StartAt(probe)
<1>1. PICK n \in 1 .. PartsOf(probe) :
         /\ probe # "ptx-latency" /\ TimedPart(probe, n)
         /\ timed[1] = <<n, 1, a + 4>>
         /\ timed[2] \subseteq Early(probe, n, 1) \cup {<<n, 1, a + 1>>}
         /\ timed[3] \subseteq Early(probe, n, 1)
         /\ <<n, 1, a + 1>> \in timed[2]
  BY DEF Read
<1>2. /\ a + 1 \in WorksOf(probe, n, 1) /\ a + 2 \notin WorksOf(probe, n, 1)
      /\ a \in Int /\ 0 < a /\ <<n, 1, a + 1>> \notin Early(probe, n, 1)
  BY <1>1, TimedFacts
<1>3. \A t \in WorksOf(probe, n, 1) : t # a + 1 => t < a
  BY <1>1, TimedFacts
<1>4. /\ RoundsOf(probe, n) = 1 /\ a + 4 \in 1 .. StepsOf(probe, n, 1)
      /\ a + 1 \in 1 .. StepsOf(probe, n, 1)
  <2>1. CASE probe = "hbm-bandwidth"
    BY ONLY <1>1, <2>1 DEF RoundsOf, StepsOf, StartAt, TimedPart
  <2>2. CASE probe = "fabric-smoke"
    BY ONLY <2>2 DEF RoundsOf, StepsOf, StartAt
  <2> QED BY <1>1, <2>1, <2>2 DEF Probes
<1> HIDE DEF a
<1>5. IsPlace(probe, n, 1, a + 4) /\ IsPlace(probe, n, 1, a + 1)
  BY ONLY <1>4, n \in 1 .. PartsOf(probe) DEF IsPlace
<1>6. a + 1 \in 1 .. ((a + 4) - 1)
  BY ONLY <1>2
<1>7. \A u \in ((a + 1) + 1) .. ((a + 4) - 1) : u \notin WorksOf(probe, n, 1)
  BY ONLY <1>2, <1>3
<1>8. LastWork(<<n, 1, a + 4>>) = <<n, 1, a + 1>>
  BY <1>2, <1>5, <1>6, <1>7, LastWorkIs
<1> QED BY <1>1, <1>2, <1>5, <1>8 DEF a

\* For any GPUs and pairs, and however the GPUs come to their work: what has been
\* timed lies wholly between the two events.
THEOREM TimedWorkIsWhole == Spec => []TimedWhole
<1>1. TimingInv => TimedWhole
  <2> SUFFICES ASSUME TimingInv, timed # <<>>
               PROVE  LastWork(timed[1]) \in timed[2] \ timed[3]
    BY DEF TimedWhole
  <2>1. Read /\ probe \in Probes
    BY DEF TimingInv, TypeOK
  <2> QED BY <2>1, TimedWork
<1> QED BY TimingInvariant, <1>1, PTL

\* A kernel of hbm-bandwidth is timed alone, after it has run before.
THEOREM KernelTimedAlone == Spec => []KernelAlone
<1>1. TimingInv => KernelAlone
  <2> SUFFICES ASSUME TimingInv, timed # <<>>, probe = "hbm-bandwidth"
               PROVE  /\ timed[2] = {LastWork(timed[1])}
                      /\ \E i \in Positions : /\ Precedes(i, LastWork(timed[1]))
                                              /\ CallAt(i) = CallAt(LastWork(timed[1]))
    BY DEF KernelAlone
  <2>1. Read /\ probe \in Probes
    BY DEF TimingInv, TypeOK
  <2>2. PICK n \in 1 .. PartsOf(probe) :
           /\ TimedPart(probe, n) /\ IsPlace(probe, n, 1, StartAt(probe) + 1)
           /\ LastWork(timed[1]) = <<n, 1, StartAt(probe) + 1>>
           /\ timed[2] \subseteq Early(probe, n, 1) \cup {<<n, 1, StartAt(probe) + 1>>}
           /\ <<n, 1, StartAt(probe) + 1>> \in timed[2]
    BY <2>1, TimedWork
  <2>3. n \in 2 .. 4 /\ StartAt(probe) + 1 = 5 /\ Early(probe, n, 1) = {}
    BY ONLY <2>2, probe = "hbm-bandwidth" DEF TimedPart, StartAt, Early
  <2>4. CallAt(<<n, 1, 2>>) = CallAt(<<n, 1, 5>>)
    BY ONLY <2>3, probe = "hbm-bandwidth", HbmCalls
  <2>5. <<n, 1, 2>> \in Positions
    <3>1. IsPlace(probe, n, 1, 2)
      BY ONLY <2>3, probe = "hbm-bandwidth" DEF IsPlace, PartsOf, RoundsOf, StepsOf
    <3> QED BY <2>1, <3>1, PositionsAre
  <2>6. Precedes(<<n, 1, 2>>, <<n, 1, 5>>)
    BY ONLY DEF Precedes
  <2> QED BY <2>2, <2>3, <2>4, <2>5, <2>6
<1> QED BY TimingInvariant, <1>1, PTL

\* A sample of ptx-latency is read from what the launch just before it has
\* stored, and an earlier launch of the kernel has warmed it up, for any number
\* of samples.
THEOREM SamplesAreFresh == Spec => []SamplesFresh
<1>0. kSamples \in Nat \ {0}
  BY TimingAssumption
<1>1. TimingInv => SamplesFresh
  <2> SUFFICES ASSUME TimingInv, fetched # <<>>
               PROVE  /\ fetched[2] = LastWork(fetched[1])
                      /\ \E i \in Positions : /\ Precedes(i, fetched[2])
                                              /\ CallAt(i) = CallAt(fetched[2])
    BY DEF SamplesFresh
  <2>1. Fetched /\ probe \in Probes
    BY DEF TimingInv, TypeOK
  <2>2. /\ probe = "ptx-latency"
        /\ \E n \in 2 .. 5, r \in 2 .. (kSamples + 1) :
              fetched = <<<<n, r, 3>>, <<n, r, 1>>>>
    BY ONLY <2>1, fetched # <<>> DEF Fetched
  <2>3. PICK n \in 2 .. 5, r \in 2 .. (kSamples + 1) :
           fetched = <<<<n, r, 3>>, <<n, r, 1>>>>
    BY ONLY <2>2
  <2>4. fetched[1] = <<n, r, 3>> /\ fetched[2] = <<n, r, 1>>
    BY ONLY <2>3
  <2>5. IsPlace(probe, n, r, 3) /\ IsPlace(probe, n, 1, 3)
    BY ONLY <1>0, <2>2, <2>3 DEF IsPlace, PartsOf, RoundsOf, StepsOf
  <2>6. WorksOf(probe, n, r) = {1}
    BY ONLY <1>0, <2>2, <2>3 DEF WorksOf
  <2>7. LastWork(<<n, r, 3>>) = <<n, r, 1>>
    <3>1. 1 \in 1 .. (3 - 1) /\ \A u \in (1 + 1) .. (3 - 1) : u \notin WorksOf(probe, n, r)
      BY ONLY <2>6
    <3> QED BY <2>1, <2>5, <2>6, <3>1, LastWorkIs
  <2>8. CallAt(<<n, 1, 3>>) = CallAt(<<n, r, 1>>)
    BY ONLY <2>2, <2>3, PtxCalls
  <2>9. <<n, 1, 3>> \in Positions
    BY <2>1, <2>5, PositionsAre
  <2>10. Precedes(<<n, 1, 3>>, <<n, r, 1>>)
    BY ONLY <2>3 DEF Precedes
  <2> QED BY <2>4, <2>7, <2>8, <2>9, <2>10
<1> QED BY TimingInvariant, <1>1, PTL

\* The memory that running work uses, and the other work that runs meanwhile.
LEMMA RunningWork ==
    ASSUME TimingInv, NEW j \in running
    PROVE  /\ \A b \in CallAt(j).writes : content[b] # Unallocated
           /\ \A b \in CallAt(j).reads : content[b] \notin {Unallocated, Nobody}
           /\ \A l \in running \ {j} :
                 CallAt(l).writes \cap (CallAt(j).reads \cup CallAt(j).writes) = {}
<1>1. /\ OfThisRound /\ InOrder /\ Waited /\ Memory /\ probe \in Probes
      /\ at \in Positions \/ at = <<Len(Script) + 1, 1, 1>>
  BY DEF TimingInv, TypeOK
<1>2. \E n, r, s : IsPlace(probe, n, r, s) /\ at = <<n, r, s>>
  <2>1. \E t \in Pend : TRUE
    BY <1>1 DEF OfThisRound
  <2>2. \E t \in 1 .. (at[3] - 1) : TRUE
    BY <1>1, <2>1 DEF OfThisRound, Pend
  <2>3. at # <<Len(Script) + 1, 1, 1>>
    BY ONLY <2>2
  <2> QED BY ONLY <1>1, <2>3, PositionsAre
<1>3. PICK n, r, s : IsPlace(probe, n, r, s) /\ at = <<n, r, s>>
  BY <1>2
<1> DEFINE t == j[3]
<1>4. /\ at[1] = n /\ at[2] = r /\ at[3] = s /\ s \in Int /\ kSamples \in Nat \ {0}
  BY <1>1, <1>3, ShapeNumbers, TimingAssumption DEF IsPlace
<1>5. /\ t \in Run /\ j = <<n, r, t>> /\ t \in Pend /\ t \in 1 .. (s - 1)
      /\ t \in WorksOf(probe, n, r) /\ queue # {}
  BY <1>1, <1>3, PendIs
<1>6. IsPlace(probe, n, r, t)
  BY ONLY EarlierStep, <1>1, <1>3, <1>5
<1>7. ASSUME NEW l \in running \ {j}
      PROVE  /\ l = <<n, r, l[3]>> /\ l[3] # t /\ l[3] \in WorksOf(probe, n, r)
             /\ l[3] \in Run /\ l[3] \in Pend /\ IsPlace(probe, n, r, l[3])
             /\ ~Meet(probe, n, l[3], t)
  <2>1. /\ l = <<n, r, l[3]>> /\ l[3] \in WorksOf(probe, n, r) /\ l[3] \in Run
        /\ l[3] \in Pend /\ l[3] \in 1 .. (s - 1)
    BY <1>1, <1>3, PendIs
  <2>2. IsPlace(probe, n, r, l[3])
    BY ONLY EarlierStep, <1>1, <1>3, <2>1
  <2>3. l[3] # t
    BY ONLY <1>5, <1>7, <2>1
  <2>4. \A a \in Run, b \in Pend : b < a => ~Meet(probe, n, a, b)
    BY <1>1, <1>4 DEF InOrder
  <2>5. l[3] < t \/ t < l[3]
    BY ONLY <1>4, <1>5, <2>1, <2>3
  <2>6. ~Meet(probe, n, l[3], t)
    BY ONLY <1>5, <2>1, <2>4, <2>5, MeetSymmetric
  <2> QED BY ONLY <2>1, <2>2, <2>3, <2>6
<1> HIDE DEF t
<1>8. probe # "fabric-smoke" => running \ {j} = {}
  <2>1. probe # "fabric-smoke" => \A a, b : Meet(probe, n, a, b)
    BY ONLY DEF Meet, NeedsOf
  <2> QED BY ONLY <1>7, <2>1
<1>9. CASE probe = "ptx-latency"
  <2>1. n \in 2 .. 5 /\ CallAt(j).reads = {} /\ CallAt(j).writes = {"d_cycles", "d_sink"}
    BY <1>1, <1>5, <1>6, <1>9, Accesses
  <2>2. Allocated("d_cycles") /\ Allocated("d_sink")
    <3>1. r \in 1 .. (kSamples + 2) /\ r # kSamples + 2 /\ (r = 1 => t = 3)
      BY ONLY <1>4, <1>5, <1>6, <1>9, <2>1 DEF IsPlace, RoundsOf, WorksOf
    <3>2. r = 1 => s > 3
      BY ONLY <1>4, <1>5, <3>1
    <3> QED BY ONLY <1>1, <1>4, <1>9, <2>1, <3>1, <3>2 DEF Memory
  <2> QED BY ONLY <1>8, <1>9, <2>1, <2>2 DEF Allocated
<1>10. CASE probe = "hbm-bandwidth"
  <2>1. /\ n \in 2 .. 4
        /\ CallAt(j).reads = IF n = 2 THEN {} ELSE IF n = 3 THEN {"d_dst"} ELSE {"d_src"}
        /\ CallAt(j).writes = IF n = 2 THEN {"d_dst"} ELSE IF n = 3 THEN {"d_src"}
                                                           ELSE {"d_partial"}
    BY <1>1, <1>5, <1>6, <1>10, Accesses
  <2>2. /\ Allocated("d_src") /\ Allocated("d_dst") /\ Allocated("d_partial")
        /\ n > 2 => Written("d_dst")
        /\ n > 3 => Written("d_src")
    BY ONLY <1>1, <1>4, <1>10, <2>1 DEF Memory
  <2> QED BY ONLY <1>8, <1>10, <2>1, <2>2 DEF Allocated, Written
<1>11. CASE probe = "fabric-smoke"
  <2>0. \A u : u \in WorksOf(probe, n, r) <=> u \in {3, 6, 9}
    BY ONLY <1>11 DEF WorksOf
  <2>1. \A u : IsPlace(probe, n, r, u) /\ u \in WorksOf(probe, n, r) =>
           /\ CallAt(<<n, r, u>>).reads = IF u = 9 THEN {"d_src"} ELSE {}
           /\ CallAt(<<n, r, u>>).writes = IF u = 3 THEN {"d_src"} ELSE {"d_dst"}
    BY <1>1, <1>11, Accesses
  <2>2. Meet(probe, n, 3, 9) /\ Meet(probe, n, 9, 3) /\ Meet(probe, n, 6, 9)
        /\ Meet(probe, n, 9, 6)
    BY ONLY <1>11 DEF Meet, NeedsOf
  <2>3. s \in 4 .. 11
    <3>1. ~(s > 11)
      BY <1>1, <1>4, <1>5, <1>11 DEF Waited, TimedPart, StartAt
    <3> QED BY ONLY <1>4, <1>5, <2>0, <3>1
  <2>4. t = 9 => 3 \notin Pend
    BY <1>1, <1>4, <1>5, <2>2 DEF InOrder
  <2>5. /\ Allocated("d_src")
        /\ t # 3 => Allocated("d_dst")
        /\ t = 9 => Written("d_src")
    <3>1. t # 3 => s \in 6 .. 14
      BY ONLY <1>4, <1>5, <2>0, <2>3
    <3>2. s > 2 /\ (t = 9 => s > 3)
      BY ONLY <2>3
    <3> QED BY ONLY <1>1, <1>4, <1>11, <2>4, <3>1, <3>2 DEF Memory
  <2>6. /\ CallAt(j).reads = IF t = 9 THEN {"d_src"} ELSE {}
        /\ CallAt(j).writes = IF t = 3 THEN {"d_src"} ELSE {"d_dst"}
    BY ONLY <1>5, <1>6, <2>1
  <2>7. ASSUME NEW l \in running \ {j}
        PROVE  CallAt(l).writes \cap (CallAt(j).reads \cup CallAt(j).writes) = {}
    <3>1. CallAt(l).writes = IF l[3] = 3 THEN {"d_src"} ELSE {"d_dst"}
      BY ONLY <1>7, <2>1, <2>7
    <3>2. (t = 3 /\ l[3] = 6) \/ (t = 6 /\ l[3] = 3)
      BY ONLY <1>5, <1>7, <2>0, <2>2, <2>7
    <3> QED BY ONLY <2>6, <3>1, <3>2
  <2> QED BY ONLY <2>0, <2>5, <2>6, <2>7, <1>5 DEF Allocated, Written
<1> QED BY <1>1, <1>9, <1>10, <1>11 DEF Probes

\* However many GPUs and pairs there are, work that runs reads what has been
\* written, in memory that is there, and nothing else writes it meanwhile.
THEOREM MemoryIsOrdered == Spec => []MemoryOrdered
<1>1. TimingInv => MemoryOrdered
  BY RunningWork DEF MemoryOrdered
<1> QED BY TimingInvariant, <1>1, PTL

-----------------------------------------------------------------------------
(* The correction of the samples *)

\* The sum of a sequence, by its partial sums: there is a function of them, as
\* one of a shortest beginning that has none would have one after all.
LEMMA PartialSums ==
    ASSUME NEW v, NEW k \in Nat
    PROVE  \E f : f = [n \in 0 .. k |-> IF n = 0 THEN 0 ELSE f[n - 1] + v[n]]
<1> DEFINE P(m) == \E f : f = [n \in 0 .. m |-> IF n = 0 THEN 0 ELSE f[n - 1] + v[n]]
           T == {m \in Nat : ~P(m)}
<1> SUFFICES ASSUME T # {} PROVE FALSE
  OBVIOUS
<1>1. PICK m \in T : \A i \in T : m <= i
  <2> HIDE DEF P
  <2> QED BY NatMin
<1>2. m # 0
  <2>1. \A f : f = [n \in 0 .. 0 |-> 0] =>
           f = [n \in 0 .. 0 |-> IF n = 0 THEN 0 ELSE f[n - 1] + v[n]]
    OBVIOUS
  <2>2. P(0)
    BY ONLY <2>1
  <2>3. ~P(m)
    BY ONLY <1>1
  <2> HIDE DEF P
  <2> QED BY ONLY <2>2, <2>3
<1>3. P(m - 1)
  <2>1. m - 1 \in Nat /\ ~(m <= m - 1)
    BY <1>1, <1>2
  <2> HIDE DEF P
  <2> QED BY <1>1, <2>1
<1>4. PICK f : f = [n \in 0 .. (m - 1) |-> IF n = 0 THEN 0 ELSE f[n - 1] + v[n]]
  BY <1>3
<1> DEFINE g == [n \in 0 .. m |-> IF n = m THEN f[m - 1] + v[m] ELSE f[n]]
<1>5. \A n \in 0 .. m : g[n] = IF n = 0 THEN 0 ELSE g[n - 1] + v[n]
  <2> SUFFICES ASSUME NEW n \in 0 .. m
               PROVE  g[n] = IF n = 0 THEN 0 ELSE g[n - 1] + v[n]
    OBVIOUS
  <2>0. m \in Nat
    BY <1>1
  <2>1. CASE n = m
    BY ONLY <1>2, <2>0, <2>1
  <2>2. CASE n # m
    <3>1. n \in 0 .. (m - 1) /\ (n # 0 => n - 1 \in 0 .. m /\ n - 1 # m)
      BY ONLY <2>0, <2>2
    <3>2. g[n] = f[n] /\ (n # 0 => g[n - 1] = f[n - 1])
      BY ONLY <2>2, <3>1
    <3>3. f[n] = IF n = 0 THEN 0 ELSE f[n - 1] + v[n]
      BY ONLY <1>4, <3>1
    <3> QED BY ONLY <3>2, <3>3
  <2> QED BY <2>1, <2>2
<1>6. g = [n \in 0 .. m |-> IF n = 0 THEN 0 ELSE g[n - 1] + v[n]]
  <2>1. g = [n \in 0 .. m |-> g[n]]
    OBVIOUS
  <2> HIDE DEF g
  <2> QED BY ONLY <1>5, <2>1
<1>7. P(m)
  BY ONLY <1>6
<1> QED BY <1>1, <1>7

\* k integers, and the sums of the first n of them.
Integers(v, k) == Len(v) = k /\ \A i \in 1 .. k : v[i] \in Int
AddsUp(f, v, k) ==
    /\ f[0] = 0 /\ \A n \in 1 .. k : f[n] = f[n - 1] + v[n]
    /\ \A n \in 0 .. k : f[n] \in Int

\* What Total adds up.
LEMMA TotalIs ==
    ASSUME NEW v, NEW k \in Nat, Integers(v, k)
    PROVE  \E f : Total(v) = f[k] /\ AddsUp(f, v, k)
<1>0. Len(v) = k /\ \A i \in 1 .. k : v[i] \in Int
  BY DEF Integers
<1> DEFINE R(f) == f = [n \in 0 .. k |-> IF n = 0 THEN 0 ELSE f[n - 1] + v[n]]
           f == CHOOSE g : R(g)
<1>1. R(f)
  <2>1. \E g : R(g)
    BY PartialSums
  <2> HIDE DEF R
  <2> QED BY ONLY <2>1
<1>2. Total(v) = f[k]
  BY ONLY <1>0 DEF Total
<1> HIDE DEF f
<1>3. f[0] = 0 /\ \A n \in 1 .. k : f[n] = f[n - 1] + v[n]
  BY ONLY <1>1, k \in Nat
<1>4. \A n \in 0 .. k : f[n] \in Int
  <2> DEFINE T == {n \in 0 .. k : f[n] \notin Int}
  <2> SUFFICES ASSUME T # {} PROVE FALSE
    OBVIOUS
  <2>1. PICK m \in T : \A i \in T : m <= i
    <3>1. T \in SUBSET Nat
      OBVIOUS
    <3> HIDE DEF T
    <3> QED BY <3>1, NatMin
  <2>2. m \in 0 .. k /\ f[m] \notin Int
    BY ONLY <2>1
  <2>3. m # 0
    BY ONLY <1>3, <2>2
  <2>4. m - 1 \in 0 .. k /\ ~(m <= m - 1) /\ m \in 1 .. k
    BY ONLY <2>2, <2>3
  <2>5. f[m - 1] \in Int
    BY ONLY <2>1, <2>4
  <2> QED BY ONLY <1>0, <1>3, <2>2, <2>4, <2>5
<1> QED BY ONLY <1>2, <1>3, <1>4 DEF AddsUp

\* The sum of the differences is the difference of the sums.
LEMMA TotalDifference ==
    ASSUME NEW u, NEW v, NEW w, NEW k \in Nat, Len(u) = k, Len(v) = k, Len(w) = k,
           \A i \in 1 .. k : u[i] \in Int /\ v[i] \in Int /\ w[i] = u[i] - v[i]
    PROVE  Total(w) = Total(u) - Total(v)
<1>0. Integers(u, k) /\ Integers(v, k) /\ Integers(w, k)
  BY DEF Integers
<1>1. PICK f : Total(u) = f[k] /\ AddsUp(f, u, k)
  BY ONLY <1>0, k \in Nat, TotalIs
<1>2. PICK g : Total(v) = g[k] /\ AddsUp(g, v, k)
  BY ONLY <1>0, k \in Nat, TotalIs
<1>3. PICK h : Total(w) = h[k] /\ AddsUp(h, w, k)
  BY ONLY <1>0, k \in Nat, TotalIs
<1>4. \A n \in 0 .. k : h[n] = f[n] - g[n]
  <2> DEFINE T == {n \in 0 .. k : h[n] # f[n] - g[n]}
  <2> SUFFICES ASSUME T # {} PROVE FALSE
    OBVIOUS
  <2>1. PICK m \in T : \A i \in T : m <= i
    <3>1. T \in SUBSET Nat
      OBVIOUS
    <3> HIDE DEF T
    <3> QED BY <3>1, NatMin
  <2>2. m \in 0 .. k /\ h[m] # f[m] - g[m]
    BY ONLY <2>1
  <2>3. m # 0
    BY ONLY <1>1, <1>2, <1>3, <2>2 DEF AddsUp
  <2>4. m - 1 \in 0 .. k /\ ~(m <= m - 1) /\ m \in 1 .. k
    BY ONLY <2>2, <2>3
  <2>5. h[m - 1] = f[m - 1] - g[m - 1]
    BY ONLY <2>1, <2>4
  <2>6. /\ h[m] = h[m - 1] + w[m] /\ f[m] = f[m - 1] + u[m] /\ g[m] = g[m - 1] + v[m]
        /\ w[m] = u[m] - v[m] /\ u[m] \in Int /\ v[m] \in Int
        /\ f[m - 1] \in Int /\ g[m - 1] \in Int
    BY <1>1, <1>2, <1>3, <2>4 DEF AddsUp
  <2> QED BY ONLY <2>2, <2>5, <2>6
<1>5. k \in 0 .. k
  OBVIOUS
<1> QED BY ONLY <1>1, <1>2, <1>3, <1>4, <1>5

\* A sum of numbers none of which is negative is not, and is zero if they all are.
LEMMA TotalPositive ==
    ASSUME NEW d, NEW k \in Nat, Len(d) = k, \A i \in 1 .. k : d[i] \in Nat
    PROVE  Total(d) >= 0 /\ (Total(d) = 0 <=> \A i \in 1 .. k : d[i] = 0)
<1>0. Integers(d, k)
  BY DEF Integers
<1>1. PICK f : Total(d) = f[k] /\ AddsUp(f, d, k)
  BY ONLY <1>0, k \in Nat, TotalIs
<1> DEFINE P(n) == f[n] >= 0 /\ (f[n] = 0 <=> \A i \in 1 .. n : d[i] = 0)
<1>2. \A n \in 0 .. k : P(n)
  <2> DEFINE T == {n \in 0 .. k : ~P(n)}
  <2> SUFFICES ASSUME T # {} PROVE FALSE
    OBVIOUS
  <2>1. PICK m \in T : \A i \in T : m <= i
    <3>1. T \in SUBSET Nat
      OBVIOUS
    <3> HIDE DEF T
    <3> QED BY <3>1, NatMin
  <2>2. m \in 0 .. k /\ ~P(m)
    BY ONLY <2>1
  <2>3. m # 0
    BY ONLY <1>1, <2>2 DEF AddsUp
  <2>4. m - 1 \in 0 .. k /\ ~(m <= m - 1) /\ m \in 1 .. k
    BY ONLY <2>2, <2>3
  <2>5. P(m - 1)
    BY ONLY <2>1, <2>4
  <2>6. /\ f[m] = f[m - 1] + d[m] /\ d[m] \in Nat /\ f[m - 1] \in Int
    BY <1>1, <2>4 DEF AddsUp
  <2>7. f[m] >= 0 /\ (f[m] = 0 <=> f[m - 1] = 0 /\ d[m] = 0)
    BY ONLY <2>5, <2>6
  <2>8. (\A i \in 1 .. m : d[i] = 0) <=> (\A i \in 1 .. (m - 1) : d[i] = 0) /\ d[m] = 0
    BY ONLY <2>4
  <2>9. P(m)
    BY ONLY <2>5, <2>7, <2>8
  <2> QED BY ONLY <2>2, <2>9
<1>3. k \in 0 .. k
  OBVIOUS
<1>4. P(k)
  BY ONLY <1>2, <1>3
<1> QED BY ONLY <1>1, <1>4

\* The sum of what is no less than the differences is no less than the difference
\* of the sums, and the same only if each of it is.
LEMMA TotalAtLeast ==
    ASSUME NEW u, NEW v, NEW w, NEW k \in Nat, Len(u) = k, Len(v) = k, Len(w) = k,
           \A i \in 1 .. k : /\ u[i] \in Int /\ v[i] \in Int /\ w[i] \in Int
                             /\ w[i] >= u[i] - v[i]
    PROVE  /\ Total(w) >= Total(u) - Total(v)
           /\ Total(w) = Total(u) - Total(v) <=>
                 \A i \in 1 .. k : w[i] = u[i] - v[i]
<1> DEFINE z == [i \in 1 .. k |-> u[i] - v[i]]
           d == [i \in 1 .. k |-> w[i] - z[i]]
<1>1. /\ Len(z) = k /\ \A i \in 1 .. k : z[i] = u[i] - v[i] /\ z[i] \in Int
  OBVIOUS
<1>2. /\ Len(d) = k /\ \A i \in 1 .. k : d[i] = w[i] - z[i]
  OBVIOUS
<1> HIDE DEF z, d
<1>3. Total(z) = Total(u) - Total(v)
  BY <1>1, TotalDifference
<1>4. Total(d) = Total(w) - Total(z)
  BY <1>1, <1>2, TotalDifference
<1>5. \A i \in 1 .. k : d[i] \in Nat /\ (d[i] = 0 <=> w[i] = u[i] - v[i])
  <2> SUFFICES ASSUME NEW i \in 1 .. k
               PROVE  d[i] \in Nat /\ (d[i] = 0 <=> w[i] = u[i] - v[i])
    OBVIOUS
  <2>1. /\ u[i] \in Int /\ v[i] \in Int /\ w[i] \in Int /\ w[i] >= u[i] - v[i]
        /\ z[i] = u[i] - v[i] /\ d[i] = w[i] - z[i]
    BY <1>1, <1>2
  <2> QED BY ONLY <2>1
<1>6. Total(d) >= 0 /\ (Total(d) = 0 <=> \A i \in 1 .. k : d[i] = 0)
  BY ONLY <1>2, <1>5, k \in Nat, TotalPositive
<1>7. Total(w) \in Int /\ Total(z) \in Int
  <2>1. Integers(w, k) /\ Integers(z, k)
    BY <1>1 DEF Integers
  <2>2. k \in 0 .. k
    OBVIOUS
  <2>3. \A y : Integers(y, k) => Total(y) \in Int
    BY ONLY <2>2, k \in Nat, TotalIs DEF AddsUp
  <2> QED BY <2>1, <2>3
<1>8. Total(w) >= Total(z) /\ (Total(w) = Total(z) <=> Total(d) = 0)
  BY ONLY <1>4, <1>6, <1>7
<1>9. (\A i \in 1 .. k : d[i] = 0) <=> (\A i \in 1 .. k : w[i] = u[i] - v[i])
  BY ONLY <1>5
<1> QED BY ONLY <1>3, <1>6, <1>8, <1>9

\* At the end of ptx-latency, as many samples of every kernel have been read as
\* there should be.
LEMMA AllSamples ==
    ASSUME TimingInv, probe = "ptx-latency", Ended, NEW x \in Kernels
    PROVE  /\ cycles[x] \in Seq(Nat) /\ Len(cycles[x]) = kSamples
           /\ \A i \in 1 .. kSamples : cycles[x][i] \in Sampled(x)
<1>1. /\ Samples /\ probe \in Probes /\ cycles \in [Kernels -> Seq(Nat)]
      /\ at \in Positions \/ at = <<Len(Script) + 1, 1, 1>>
  BY DEF TimingInv, TypeOK
<1>2. Len(Script) = 5
  BY ONLY <1>1, probe = "ptx-latency", Shape DEF PartsOf
<1>3. at[1] = 6
  <2>1. at[1] > 5
    BY ONLY <1>2, Ended DEF Ended
  <2>2. at \notin Positions
    <3> SUFFICES ASSUME at \in Positions PROVE FALSE
      OBVIOUS
    <3>1. PICK n, r, s : IsPlace(probe, n, r, s) /\ at = <<n, r, s>>
      BY <1>1, PositionsAre
    <3>2. n \in 1 .. 5
      BY ONLY <3>1, probe = "ptx-latency" DEF IsPlace, PartsOf
    <3> QED BY ONLY <2>1, <3>1, <3>2
  <2> QED BY ONLY <1>1, <1>2, <2>2
<1>4. PICK n \in 2 .. 5 : x = KernelOf[n]
  BY DEF Kernels, Instructions, KernelOf
<1>5. Count(at, n) = kSamples
  BY ONLY <1>3 DEF Count
<1>6. /\ Len(cycles[KernelOf[n]]) = Count(at, n)
      /\ \A i \in 1 .. Len(cycles[KernelOf[n]]) :
            cycles[KernelOf[n]][i] \in Sampled(KernelOf[n])
  BY ONLY <1>1, probe = "ptx-latency" DEF Samples
<1>7. cycles[x] \in Seq(Nat)
  BY ONLY <1>1, x \in Kernels
<1> QED BY ONLY <1>4, <1>5, <1>6, <1>7

\* For any number of samples, any costs and any noise: a corrected sample is the
\* kernel's less that of bench_loop_overhead with the same number, cut off at zero,
\* and their sum exceeds the difference of the sums just if one was cut.
THEOREM CorrectionsArePaired == Spec => []CorrectionPaired
<1>0. /\ kSamples \in Nat \ {0} /\ Cost \in [Kernels -> Nat] /\ Noise \subseteq Nat
      /\ "loop-overhead" \in Kernels /\ Instructions \subseteq Kernels
  BY TimingAssumption DEF Kernels
<1>1. ASSUME TimingInv, probe = "ptx-latency", Ended, NEW x \in Instructions
      PROVE  LET c == Corrected(x)
                 raw == cycles[x]
                 over == cycles["loop-overhead"]
                 rest == Total(raw) - Total(over)
             IN  /\ Len(c) = kSamples /\ Len(over) = kSamples
                 /\ \A i \in 1 .. kSamples :
                       \/ raw[i] < over[i] /\ c[i] = 0
                       \/ /\ c[i] >= 0 /\ c[i] = raw[i] - over[i]
                          /\ \E a, b \in Noise :
                                c[i] = (Cost[x] + a) - (Cost["loop-overhead"] + b)
                 /\ Total(c) >= rest
                 /\ Total(c) = rest <=> \A i \in 1 .. kSamples : raw[i] >= over[i]
  <2> DEFINE raw == cycles[x]
             over == cycles["loop-overhead"]
             c == Corrected(x)
  <2>1. /\ raw \in Seq(Nat) /\ Len(raw) = kSamples
        /\ \A i \in 1 .. kSamples : raw[i] \in Sampled(x)
    BY <1>0, <1>1, AllSamples
  <2>2. /\ over \in Seq(Nat) /\ Len(over) = kSamples
        /\ \A i \in 1 .. kSamples : over[i] \in Sampled("loop-overhead")
    BY <1>0, <1>1, AllSamples
  <2>3. \A i \in 1 .. kSamples : Overhead(i) = over[i]
    <3> SUFFICES ASSUME NEW i \in 1 .. kSamples PROVE Overhead(i) = over[i]
      OBVIOUS
    <3>1. (i - 1) % kSamples = i - 1
      <4>1. i - 1 \in 0 .. (kSamples - 1) /\ kSamples * 0 + (i - 1) = i - 1
        BY <1>0
      <4>2. \A q \in Int, z \in 0 .. (kSamples - 1) : (kSamples * q + z) % kSamples = z
        BY ONLY <1>0, ModUnique
      <4>3. 0 \in Int
        OBVIOUS
      <4>4. (kSamples * 0 + (i - 1)) % kSamples = i - 1
        BY ONLY <4>1, <4>2, <4>3
      <4> QED BY ONLY <4>1, <4>4
    <3>2. Overhead(i) = over[((i - 1) % kSamples) + 1]
      BY <2>2 DEF Overhead
    <3>3. (i - 1) + 1 = i
      OBVIOUS
    <3> QED BY ONLY <3>1, <3>2, <3>3
  <2>4. DOMAIN raw = 1 .. kSamples
    BY ONLY <2>1
  <2> HIDE DEF over
  <2>5. c = [i \in 1 .. kSamples |-> corrected_cycles(raw[i], over[i])]
    <3>1. c = [i \in DOMAIN raw |-> corrected_cycles(raw[i], Overhead(i))]
      BY DEF Corrected
    <3> QED BY ONLY <2>3, <2>4, <3>1
  <2> HIDE DEF c, raw
  <2>6. DOMAIN c = 1 .. kSamples /\ Len(c) = kSamples
    BY ONLY <1>0, <2>5
  <2>7. ASSUME NEW i \in 1 .. kSamples
        PROVE  /\ raw[i] \in Int /\ over[i] \in Int
               /\ c[i] = IF raw[i] > over[i] THEN raw[i] - over[i] ELSE 0
               /\ \E a \in Noise : raw[i] = Cost[x] + a
               /\ \E b \in Noise : over[i] = Cost["loop-overhead"] + b
    <3>1. c[i] = IF raw[i] > over[i] THEN raw[i] - over[i] ELSE 0
      BY ONLY <2>5, <2>7 DEF corrected_cycles
    <3>2. raw[i] \in Int /\ over[i] \in Int
      BY ONLY <1>0, <2>1, <2>2, <2>7
    <3>3. /\ \E a \in Noise : raw[i] = Cost[x] + a
          /\ \E b \in Noise : over[i] = Cost["loop-overhead"] + b
      BY ONLY <2>1, <2>2, <2>7 DEF Sampled
    <3> QED BY ONLY <3>1, <3>2, <3>3
  <2>8. ASSUME NEW i \in 1 .. kSamples
        PROVE  \/ raw[i] < over[i] /\ c[i] = 0
               \/ /\ c[i] >= 0 /\ c[i] = raw[i] - over[i]
                  /\ \E a, b \in Noise :
                        c[i] = (Cost[x] + a) - (Cost["loop-overhead"] + b)
    <3>1. CASE raw[i] < over[i]
      BY ONLY <2>7, <3>1
    <3>2. CASE raw[i] >= over[i]
      <4>1. c[i] >= 0 /\ c[i] = raw[i] - over[i]
        BY ONLY <2>7, <3>2
      <4>2. PICK a \in Noise : raw[i] = Cost[x] + a
        BY <2>7
      <4>3. PICK b \in Noise : over[i] = Cost["loop-overhead"] + b
        BY <2>7
      <4>4. c[i] = (Cost[x] + a) - (Cost["loop-overhead"] + b)
        BY ONLY <4>1, <4>2, <4>3
      <4> QED BY ONLY <4>1, <4>4
    <3>3. raw[i] < over[i] \/ raw[i] >= over[i]
      BY ONLY <2>7
    <3> QED BY <3>1, <3>2, <3>3
  <2>9. \A i \in 1 .. kSamples :
           /\ raw[i] \in Int /\ over[i] \in Int /\ c[i] \in Int
           /\ c[i] >= raw[i] - over[i]
           /\ (c[i] = raw[i] - over[i]) <=> (raw[i] >= over[i])
    BY ONLY <2>7
  <2>10. /\ Total(c) >= Total(raw) - Total(over)
         /\ Total(c) = Total(raw) - Total(over) <=>
               \A i \in 1 .. kSamples : c[i] = raw[i] - over[i]
    <3>1. kSamples \in Nat /\ Len(raw) = kSamples /\ Len(over) = kSamples
          /\ Len(c) = kSamples
      BY ONLY <1>0, <2>1, <2>2, <2>6
    <3>2. \A i \in 1 .. kSamples : /\ raw[i] \in Int /\ over[i] \in Int /\ c[i] \in Int
                                  /\ c[i] >= raw[i] - over[i]
      BY ONLY <2>9
    <3> QED BY ONLY <3>1, <3>2, TotalAtLeast
  <2>11. /\ Total(c) >= Total(raw) - Total(over)
         /\ Total(c) = Total(raw) - Total(over) <=>
               \A i \in 1 .. kSamples : raw[i] >= over[i]
    BY ONLY <2>9, <2>10
  <2> QED BY ONLY <2>2, <2>6, <2>8, <2>11 DEF c, raw, over
<1>2. TimingInv => CorrectionPaired
  BY ONLY <1>1 DEF CorrectionPaired
<1> QED BY TimingInvariant, <1>2, PTL
=============================================================================
