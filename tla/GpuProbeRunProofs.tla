-------------------------- MODULE GpuProbeRunProofs --------------------------
(***************************************************************************)
(* Proofs about GpuProbeRun, for every number of GPUs and every set of     *)
(* command lines.                                                          *)
(***************************************************************************)
EXTENDS GpuProbeRun, IntegerFacts, FiniteSetTheorems

\* A double loop over a list of GPU ids visits pairs of ids.
LEMMA GridType ==
    ASSUME NEW list \in Seq(Nat)
    PROVE  Grid(list) \in Seq(Pairs)
<1> DEFINE n == Len(list)
<1>1. n \in Nat /\ n * n \in Nat
  OBVIOUS
<1>2. ASSUME NEW j \in 1 .. (n * n)
      PROVE  <<list[((j - 1) \div n) + 1], list[((j - 1) % n) + 1]>> \in Pairs
  <2>1. n \in Nat \ {0} /\ j - 1 \in Nat /\ j - 1 < n * n
    BY <1>1
  <2>2. (j - 1) \div n \in Nat /\ (j - 1) \div n < n
    <3> DEFINE q == (j - 1) \div n
    <3>1. q \in Int /\ n * q <= j - 1 /\ j - 1 < n * (q + 1)
      BY <2>1
    <3> HIDE DEF q
    <3>2. q < n
      <4> SUFFICES ASSUME q >= n PROVE FALSE
        BY <2>1, <3>1
      <4>1. n * q >= n * n
        BY <2>1, <3>1
      <4> QED BY <2>1, <3>1, <4>1
    <3>3. q >= 0
      <4> SUFFICES ASSUME q <= -1 PROVE FALSE
        BY <3>1
      <4>1. \A a, b \in Int : a > 0 /\ b <= 0 => a * b <= 0
        OBVIOUS
      <4>2. n \in Int /\ n > 0 /\ q + 1 \in Int /\ q + 1 <= 0
        BY <2>1, <3>1
      <4>3. n * (q + 1) <= 0
        <5> HIDE DEF n
        <5> QED BY <4>1, <4>2
      <4> QED BY <2>1, <3>1, <4>3
    <3> QED BY <3>1, <3>2, <3>3 DEF q
  <2>3. (j - 1) % n \in Nat /\ (j - 1) % n < n
    BY <2>1
  <2>4. /\ list[((j - 1) \div n) + 1] \in Nat
        /\ list[((j - 1) % n) + 1] \in Nat
    <3>1. \A q \in Nat : q < n => list[q + 1] \in Nat
      OBVIOUS
    <3> QED BY <3>1, <2>2, <2>3
  <2> QED BY <2>4 DEF Pairs
<1> QED BY <1>1, <1>2 DEF Grid

\* main finds the next stage: the first later one that is asked for.
LEMMA NextStage ==
    ASSUME NEW n \in 1 .. 7
    PROVE  \E j \in n .. 7 :
              /\ FirstFrom(n) = Stages[j] /\ should_run(Stages[j])
              /\ \A l \in n .. (j - 1) : ~should_run(Stages[l])
<1> DEFINE T == {j \in n .. 7 : should_run(Stages[j])}
           First(j) == /\ should_run(Stages[j])
                       /\ \A i \in n .. (j - 1) : ~should_run(Stages[i])
<1>1. Len(Stages) = 7 /\ Stages[7] = "write"
  BY DEF Stages
<1>2. T \in SUBSET Nat /\ 7 \in T
  BY <1>1 DEF should_run
<1>3. PICK j \in T : \A i \in T : j <= i
  BY <1>2, NatMin
<1>4. \E i \in n .. 7 : First(i)
  BY <1>3
<1>5. First(CHOOSE i \in n .. 7 : First(i)) /\ (CHOOSE i \in n .. 7 : First(i)) \in n .. 7
  BY <1>4
<1> QED BY <1>1, <1>5 DEF FirstFrom

\* main begins with nothing recorded.
LEMMA InitG == Init => GInv
<1> SUFFICES ASSUME Init PROVE GInv
  OBVIOUS
<1>1. PICK j \in 1 .. 7 : stage = Stages[j] /\ should_run(stage)
  BY NextStage DEF Init
<1>2. TypeOK
  <2>1. stage \in Probes \cup {"devices", "write", "stop"}
    BY <1>1 DEF Stages, Probes, GpuProbes
  <2>2. /\ matrix \in Seq(Nat \X Nat \X BOOLEAN)
        /\ pairs \in Seq(Nat \X Nat \X {"ok", "failed"})
        /\ warnings \in Seq(Warnings) /\ devices \in Seq(Nat)
    BY DEF Init
  <2> QED BY <2>1, <2>2 DEF Init, TypeOK
<1>3. RefusalsWarned /\ CopiedWithAccess /\ EarlyErrorInv
  BY <1>1 DEF Init, RefusalsWarned, CopiedWithAccess, EarlyErrorInv
<1> QED BY <1>2, <1>3 DEF GInv

\* Nothing the warnings and the copies are about changes.
LEMMA Undisturbed ==
    ASSUME GInv, UNCHANGED <<refused, warnings, pairs, peers>>
    PROVE  RefusalsWarned' /\ CopiedWithAccess'
  BY DEF GInv, RefusalsWarned, CopiedWithAccess, Range

\* A stage ends and the next begins.
LEMMA EndG == GInv /\ stage \in Probes \cup {"devices"} /\ End => GInv'
<1> SUFFICES ASSUME GInv, stage \in Probes \cup {"devices"}, End
             PROVE  GInv'
  OBVIOUS
<1> DEFINE n == Place(stage)
<1>1. TypeOK /\ EarlyErrorInv
  BY DEF GInv
<1>2. n \in 1 .. 6 /\ Stages[n] = stage
  <2>1. \E j \in 1 .. 7 : Stages[j] = stage
    BY DEF Stages, Probes, GpuProbes
  <2>2. DOMAIN Stages = 1 .. 7 /\ Stages[7] = "write"
    BY DEF Stages
  <2>3. n \in 1 .. 7 /\ Stages[n] = stage
    BY <2>1, <2>2 DEF Place
  <2> QED BY <2>2, <2>3 DEF Probes, GpuProbes
<1>3. PICK j \in (n + 1) .. 7 : stage' = Stages[j] /\ should_run(Stages[j])
  BY <1>2, NextStage DEF End
<1>4. /\ opts' = opts /\ open' = FALSE /\ lastError' = lastError
      /\ refused' = refused
  BY DEF End
<1>5. TypeOK'
  <2>1. stage' \in Probes \cup {"devices", "write", "stop"}
    BY <1>2, <1>3 DEF Stages, Probes, GpuProbes
  <2>2. probes' \subseteq Probes
    BY <1>1 DEF End, TypeOK
  <2> QED BY <2>1, <2>2, <1>1 DEF End, TypeOK
<1>6. EarlyErrorInv'
  <2>1. should_run(stage)' <=> should_run(Stages[j])
    BY <1>3, <1>4 DEF should_run
  <2>2. stage' # "env"
    BY <1>2, <1>3 DEF Stages
  <2>3. ASSUME stage' \in GpuProbes, lastError # "none"
        PROVE  refused # {} /\ opts.probe = "all"
    <3>1. stage \in {"env"} \cup GpuProbes
      BY <1>2, <1>3, <2>3 DEF Stages, GpuProbes
    <3>2. refused # {} /\ should_run(stage)
      BY <3>1, <2>3, <1>1 DEF EarlyErrorInv, Probes
    <3>3. CASE stage = "env"
      BY <3>2, <3>3, <1>3, <2>3 DEF should_run, GpuProbes
    <3>4. CASE stage \in GpuProbes
      BY <3>4, <2>3, <1>1 DEF EarlyErrorInv
    <3> QED BY <3>1, <3>2, <3>3, <3>4
  <2> QED BY <2>1, <2>2, <2>3, <1>3, <1>4 DEF EarlyErrorInv
<1>7. RefusalsWarned' /\ CopiedWithAccess'
  BY Undisturbed DEF End
<1> QED BY <1>5, <1>6, <1>7 DEF GInv

\* An exception changes nothing but where the run is.
LEMMA ThrowG == ASSUME GInv, NEW why, Throw(why) PROVE GInv'
<1>1. TypeOK'
  BY DEF GInv, TypeOK, Throw, results
<1>2. RefusalsWarned' /\ CopiedWithAccess'
  BY Undisturbed DEF Throw, results
<1>3. EarlyErrorInv'
  BY DEF Throw, EarlyErrorInv, Probes, GpuProbes
<1> QED BY <1>1, <1>2, <1>3 DEF GInv

\* A stage that begins only changes what it has to do.
LEMMA BeginG ==
    ASSUME GInv, NEW s, NEW list, Begin(s, list),
           stage \in {"env", "fabric-smoke"} => list \in Seq(Pairs),
           stage = "devices" => list \in Seq(Nat),
           UNCHANGED <<matrix, refused, pairs, probes, devices>>,
           warnings' \in Seq(Warnings), RefusalsWarned'
    PROVE  GInv'
<1>1. TypeOK'
  BY DEF GInv, TypeOK, Begin
<1>2. CopiedWithAccess'
  BY DEF GInv, CopiedWithAccess, Begin
<1>3. EarlyErrorInv'
  BY DEF GInv, Begin, EarlyErrorInv, should_run
<1> QED BY <1>1, <1>2, <1>3 DEF GInv

\* Appending a warning takes none away.
LEMMA RangeAppend ==
    ASSUME NEW S, NEW s \in Seq(S), NEW x \in S
    PROVE  /\ Append(s, x) \in Seq(S)
           /\ Range(s) \subseteq Range(Append(s, x))
           /\ x \in Range(Append(s, x))
<1>1. /\ Append(s, x) \in Seq(S) /\ Len(Append(s, x)) = Len(s) + 1
      /\ \A j \in 1 .. Len(s) : Append(s, x)[j] = s[j]
      /\ Append(s, x)[Len(s) + 1] = x
      /\ Len(s) \in Nat
  OBVIOUS
<1>2. DOMAIN s = 1 .. Len(s) /\ DOMAIN Append(s, x) = 1 .. (Len(s) + 1)
  BY <1>1
<1> QED BY <1>1, <1>2 DEF Range

\* The step lemmas by stage: env, ...
LEMMA EnvG ==
    GInv /\ (BeginEnv \/ QueryPair \/ QueryPairFails \/ EndEnv) => GInv'
<1> SUFFICES ASSUME GInv, BeginEnv \/ QueryPair \/ QueryPairFails \/ EndEnv
             PROVE  GInv'
  OBVIOUS
<1>1. TypeOK /\ RefusalsWarned /\ CopiedWithAccess /\ EarlyErrorInv
  BY DEF GInv
<1>2. visible \in Seq(Nat)
  BY RequestAssumption DEF visible
<1>3. CASE BeginEnv
  <2>1. Begin("env", Grid(visible)) /\ UNCHANGED results
    BY <1>3 DEF BeginEnv
  <2>2. stage = "env" /\ warnings' \in Seq(Warnings) /\ RefusalsWarned'
    BY <2>1, <1>1 DEF Begin, results, TypeOK, RefusalsWarned, Range
  <2>3. UNCHANGED <<matrix, refused, pairs, probes, devices>>
    BY <2>1 DEF results
  <2>4. Grid(visible) \in Seq(Pairs)
    BY <1>2, GridType
  <2> QED BY <2>1, <2>2, <2>3, <2>4, BeginG
<1>4. ASSUME stage = "env", open, todo # <<>>
      PROVE  /\ src \in Nat /\ dst \in Nat
             /\ Tail(todo) \in Seq(Pairs)
  <2>1. todo \in Seq(Pairs)
    BY <1>1, <1>4 DEF TypeOK
  <2>2. Head(todo) \in Pairs /\ Tail(todo) \in Seq(Pairs)
    BY <2>1, <1>4
  <2> QED BY <2>2 DEF src, dst, Pairs
<1>5. CASE QueryPair
  <2>1. /\ stage = "env" /\ open /\ todo # <<>> /\ todo' = Tail(todo)
        /\ UNCHANGED <<opts, stage, open, lastError, peers, file, exit>>
        /\ UNCHANGED <<refused, pairs, warnings, probes, devices>>
    BY <1>5 DEF QueryPair, InLoop
  <2>2. matrix' \in Seq(Nat \X Nat \X BOOLEAN)
    <3>1. PICK can \in BOOLEAN : matrix' = Append(matrix, <<src, dst, can>>)
      BY <1>5 DEF QueryPair
    <3>2. <<src, dst, can>> \in Nat \X Nat \X BOOLEAN
      BY <2>1, <1>4
    <3> QED BY <3>1, <3>2, <1>1 DEF TypeOK
  <2>3. TypeOK'
    BY <2>1, <2>2, <1>1, <1>4 DEF TypeOK
  <2>4. RefusalsWarned' /\ CopiedWithAccess'
    BY <2>1, Undisturbed
  <2>5. EarlyErrorInv'
    BY <2>1, <1>1 DEF EarlyErrorInv, should_run
  <2> QED BY <2>3, <2>4, <2>5 DEF GInv
<1>6. CASE QueryPairFails
  <2>1. /\ stage = "env" /\ open /\ todo # <<>> /\ todo' = Tail(todo)
        /\ matrix' = Append(matrix, <<src, dst, FALSE>>)
        /\ refused' = refused \cup {<<src, dst>>}
        /\ warnings' = Append(warnings, <<src, dst>>)
        /\ lastError' = "cudaDeviceCanAccessPeer"
        /\ UNCHANGED <<opts, stage, open, peers, file, exit>>
        /\ UNCHANGED <<pairs, probes, devices>>
    BY <1>6 DEF QueryPairFails, InLoop
  <2>2. <<src, dst>> \in Pairs /\ <<src, dst, FALSE>> \in Nat \X Nat \X BOOLEAN
    BY <2>1, <1>4 DEF Pairs
  <2>3. /\ warnings' \in Seq(Warnings)
        /\ Range(warnings) \subseteq Range(warnings')
        /\ <<src, dst>> \in Range(warnings')
    <3>1. warnings \in Seq(Warnings) /\ <<src, dst>> \in Warnings
      BY <2>2, <1>1 DEF TypeOK, Warnings
    <3> QED BY <2>1, <3>1, RangeAppend
  <2>4. TypeOK'
    <3>1. matrix' \in Seq(Nat \X Nat \X BOOLEAN)
      <4>1. matrix \in Seq(Nat \X Nat \X BOOLEAN)
        BY <1>1 DEF TypeOK
      <4> QED BY <2>1, <2>2, <4>1
    <3>2. refused' \subseteq Pairs
      <4>1. refused \subseteq Pairs
        BY <1>1 DEF TypeOK
      <4> QED BY <2>1, <2>2, <4>1
    <3> QED BY <2>1, <2>3, <3>1, <3>2, <1>1, <1>4 DEF TypeOK
  <2>5. RefusalsWarned'
    BY <2>1, <2>3, <1>1 DEF RefusalsWarned
  <2>6. CopiedWithAccess'
    BY <2>1, <1>1 DEF CopiedWithAccess
  <2>7. EarlyErrorInv'
    BY <2>1, <1>1 DEF EarlyErrorInv, should_run, GpuProbes
  <2> QED BY <2>4, <2>5, <2>6, <2>7 DEF GInv
<1>7. CASE EndEnv
  BY <1>7, EndG DEF EndEnv, Probes
<1> QED BY <1>3, <1>5, <1>6, <1>7

\* ... the kernels, ...
LEMMA KernelsG ==
    /\ GInv
    /\ BeginKernels \/ RejectGpu \/ Kernels \/ LaunchFails \/ StaleErrorFound
    => GInv'
<1> SUFFICES ASSUME GInv, \/ BeginKernels \/ RejectGpu \/ Kernels
                          \/ LaunchFails \/ StaleErrorFound
             PROVE  GInv'
  OBVIOUS
<1>1. TypeOK /\ RefusalsWarned
  BY DEF GInv
<1>2. CASE BeginKernels
  <2>1. /\ stage \in GpuProbes /\ Begin(stage, <<>>)
        /\ UNCHANGED <<matrix, refused, pairs, probes, devices>>
        /\ warnings' = warnings
    BY <1>2 DEF BeginKernels, results
  <2>2. stage \notin {"env", "fabric-smoke", "devices"}
    BY <2>1 DEF GpuProbes
  <2>3. warnings' \in Seq(Warnings) /\ RefusalsWarned'
    BY <2>1, <1>1 DEF TypeOK, RefusalsWarned, Range
  <2> QED BY <2>1, <2>2, <2>3, BeginG
<1>3. CASE Kernels
  BY <1>3, EndG DEF Kernels, Probes
<1>4. CASE RejectGpu \/ LaunchFails \/ StaleErrorFound
  BY <1>4, ThrowG DEF RejectGpu, LaunchFails, StaleErrorFound
<1> QED BY <1>2, <1>3, <1>4

\* ... the fabric, ...
LEMMA PairDoneG ==
    ASSUME GInv, NEW status \in {"ok", "failed"}, PairDone(status),
           peers \subseteq peers', peers' \subseteq peers \cup
              {<<dst, src>>, <<src, dst>>},
           status = "ok" => {<<dst, src>>, <<src, dst>>} \subseteq peers',
           lastError' \in {"none", "cudaDeviceCanAccessPeer",
                           "cudaDeviceEnablePeerAccess"}
    PROVE  GInv'
<1>1. TypeOK /\ RefusalsWarned /\ CopiedWithAccess /\ EarlyErrorInv
  BY DEF GInv
<1>2. /\ stage = "fabric-smoke" /\ open /\ todo # <<>> /\ todo' = Tail(todo)
      /\ pairs' = Append(pairs, <<src, dst, status>>)
      /\ UNCHANGED <<opts, stage, open, file, exit>>
      /\ UNCHANGED <<matrix, refused, warnings, probes, devices>>
  BY DEF PairDone, InLoop
<1>3. src \in Nat /\ dst \in Nat /\ Tail(todo) \in Seq(Pairs)
  <2>1. todo \in Seq(Pairs)
    BY <1>1, <1>2 DEF TypeOK
  <2>2. Head(todo) \in Pairs /\ Tail(todo) \in Seq(Pairs)
    BY <2>1, <1>2
  <2> QED BY <2>2 DEF src, dst, Pairs
<1>4. /\ pairs' \in Seq(Nat \X Nat \X {"ok", "failed"})
      /\ \A j \in 1 .. Len(pairs) : pairs'[j] = pairs[j]
      /\ pairs'[Len(pairs) + 1] = <<src, dst, status>>
      /\ DOMAIN pairs = 1 .. Len(pairs) /\ Len(pairs) \in Nat
      /\ DOMAIN pairs' = 1 .. (Len(pairs) + 1)
  <2>1. /\ pairs \in Seq(Nat \X Nat \X {"ok", "failed"})
        /\ <<src, dst, status>> \in Nat \X Nat \X {"ok", "failed"}
    BY <1>1, <1>3 DEF TypeOK
  <2> QED BY <2>1, <1>2
<1>5. TypeOK'
  <2>1. peers' \subseteq Pairs
    <3>1. peers \subseteq Pairs
      BY <1>1 DEF TypeOK
    <3> QED BY <3>1, <1>3 DEF Pairs
  <2> QED BY <2>1, <1>1, <1>2, <1>3, <1>4 DEF TypeOK
<1>6. RefusalsWarned'
  BY <1>1, <1>2 DEF RefusalsWarned, Range
<1>7. CopiedWithAccess'
  <2> SUFFICES ASSUME NEW j \in DOMAIN pairs', pairs'[j][3] = "ok"
               PROVE  {<<pairs'[j][1], pairs'[j][2]>>,
                       <<pairs'[j][2], pairs'[j][1]>>} \subseteq peers'
    BY DEF CopiedWithAccess
  <2>1. CASE j \in 1 .. Len(pairs)
    BY <2>1, <1>1, <1>4 DEF CopiedWithAccess
  <2>2. CASE j = Len(pairs) + 1
    BY <2>2, <1>4
  <2> QED BY <2>1, <2>2, <1>4
<1>8. EarlyErrorInv'
  BY <1>1, <1>2 DEF EarlyErrorInv, should_run, Probes, GpuProbes
<1> QED BY <1>5, <1>6, <1>7, <1>8 DEF GInv

\* ... with the rest of its actions, ...
LEMMA FabricG ==
    /\ GInv
    /\ \/ BeginFabric \/ RejectGpus \/ SkipSelf \/ AccessQueryFails \/ NoAccess
       \/ EnableFails \/ Copy \/ EndFabric
    => GInv'
<1> SUFFICES ASSUME GInv, \/ BeginFabric \/ RejectGpus \/ SkipSelf
                          \/ AccessQueryFails \/ NoAccess \/ EnableFails
                          \/ Copy \/ EndFabric
             PROVE  GInv'
  OBVIOUS
<1>1. TypeOK /\ RefusalsWarned /\ CopiedWithAccess /\ EarlyErrorInv
  BY DEF GInv
<1>2. CASE BeginFabric
  <2>1. selected_gpus \in Seq(Nat)
    <3>1. opts.gpus \in Seq(Nat)
      <4>1. opts \in [probe : Probes \cup {"all"}, gpu : Nat, gpus : Seq(Nat)]
        BY <1>1, RequestAssumption DEF TypeOK
      <4> QED BY <4>1
    <3> QED BY <3>1, RequestAssumption DEF selected_gpus, visible
  <2>2. /\ Begin("fabric-smoke", Grid(selected_gpus)) /\ stage = "fabric-smoke"
        /\ UNCHANGED <<matrix, refused, pairs, probes, devices>>
    BY <1>2 DEF BeginFabric, Begin
  <2>3. warnings' \in Seq(Warnings) /\ Range(warnings) \subseteq Range(warnings')
    <3>1. warnings \in Seq(Warnings) /\ TooFew \in Warnings
      BY <1>1 DEF TypeOK, Warnings
    <3>2. CASE warnings' = warnings
      BY <3>1, <3>2
    <3>3. CASE warnings' = Append(warnings, TooFew)
      BY <3>1, <3>3, RangeAppend
    <3> QED BY <1>2, <3>2, <3>3 DEF BeginFabric
  <2>4. RefusalsWarned'
    BY <2>2, <2>3, <1>1 DEF RefusalsWarned
  <2>5. Grid(selected_gpus) \in Seq(Pairs)
    BY <2>1, GridType
  <2> QED BY <2>2, <2>3, <2>4, <2>5, BeginG
<1>3. CASE SkipSelf
  <2>1. /\ stage = "fabric-smoke" /\ open /\ todo # <<>> /\ todo' = Tail(todo)
        /\ UNCHANGED <<opts, stage, open, lastError, peers, file, exit>>
        /\ UNCHANGED <<matrix, refused, pairs, warnings, probes, devices>>
    BY <1>3 DEF SkipSelf, InLoop, results
  <2>2. TypeOK'
    <3>1. todo \in Seq(Pairs)
      BY <2>1, <1>1 DEF TypeOK
    <3>2. Tail(todo) \in Seq(Pairs)
      BY <2>1, <3>1
    <3> QED BY <2>1, <3>2, <1>1 DEF TypeOK
  <2>3. EarlyErrorInv'
    BY <2>1, <1>1 DEF EarlyErrorInv, should_run
  <2> QED BY <2>1, <2>2, <2>3, Undisturbed DEF GInv
<1>4. CASE AccessQueryFails \/ NoAccess
  <2>1. /\ PairDone("failed") /\ peers' = peers
        /\ lastError' \in {lastError, "cudaDeviceCanAccessPeer"}
    BY <1>4 DEF AccessQueryFails, NoAccess
  <2> QED BY <2>1, <1>1, PairDoneG DEF TypeOK
<1>5. CASE EnableFails
  <2>1. /\ PairDone("failed")
        /\ peers' = peers \/ peers' = peers \cup {<<dst, src>>}
        /\ lastError' = "cudaDeviceEnablePeerAccess"
    BY <1>5 DEF EnableFails
  <2> QED BY <2>1, PairDoneG
<1>6. CASE Copy
  <2>1. /\ PairDone("ok")
        /\ peers' = peers \cup {<<dst, src>>, <<src, dst>>}
        /\ lastError' \in {"none", lastError}
    BY <1>6 DEF Copy
  <2> QED BY <2>1, <1>1, PairDoneG DEF TypeOK
<1>7. CASE EndFabric
  BY <1>7, EndG DEF EndFabric, Probes
<1>8. CASE RejectGpus
  BY <1>8, ThrowG DEF RejectGpus
<1> QED BY <1>2, <1>3, <1>4, <1>5, <1>6, <1>7, <1>8

\* ... the devices and the report.
LEMMA ReportG ==
    /\ GInv
    /\ \/ BeginDevices \/ DescribeDevice \/ DescribeUnknown \/ EndDevices
       \/ CallFails \/ OpenFails \/ Write
    => GInv'
<1> SUFFICES ASSUME GInv, \/ BeginDevices \/ DescribeDevice \/ DescribeUnknown
                          \/ EndDevices \/ CallFails \/ OpenFails \/ Write
             PROVE  GInv'
  OBVIOUS
<1>1. TypeOK /\ RefusalsWarned /\ EarlyErrorInv
  BY DEF GInv
<1>2. CASE BeginDevices
  <2>1. /\ Begin("devices", visible) /\ stage = "devices"
        /\ UNCHANGED <<matrix, refused, pairs, probes, devices>>
        /\ warnings' = warnings
    BY <1>2 DEF BeginDevices, Begin, results
  <2>2. visible \in Seq(Nat)
    BY RequestAssumption DEF visible
  <2>3. warnings' \in Seq(Warnings) /\ RefusalsWarned'
    BY <2>1, <1>1 DEF TypeOK, RefusalsWarned, Range
  <2> QED BY <2>1, <2>2, <2>3, BeginG
<1>3. CASE DescribeDevice \/ DescribeUnknown
  <2>1. /\ stage = "devices" /\ open /\ todo # <<>> /\ todo' = Tail(todo)
        /\ devices' = Append(devices, Head(todo))
        /\ lastError' \in {lastError, "none"}
        /\ UNCHANGED <<opts, stage, open, peers, file, exit>>
        /\ UNCHANGED <<matrix, refused, pairs, warnings, probes>>
    BY <1>3 DEF DescribeDevice, DescribeUnknown, InLoop
  <2>2. TypeOK'
    <3>1. todo \in Seq(Nat) /\ devices \in Seq(Nat)
      BY <2>1, <1>1 DEF TypeOK
    <3>2. Tail(todo) \in Seq(Nat) /\ devices' \in Seq(Nat)
      BY <2>1, <3>1
    <3> QED BY <2>1, <3>2, <1>1 DEF TypeOK
  <2>3. EarlyErrorInv'
    BY <2>1, <1>1 DEF EarlyErrorInv, should_run, Probes, GpuProbes
  <2> QED BY <2>1, <2>2, <2>3, Undisturbed DEF GInv
<1>4. CASE EndDevices
  BY <1>4, EndG DEF EndDevices
<1>5. CASE CallFails \/ OpenFails
  BY <1>5, ThrowG DEF CallFails, OpenFails
<1>6. CASE Write
  <2>1. TypeOK'
    BY <1>6, <1>1 DEF Write, TypeOK, results
  <2>2. RefusalsWarned' /\ CopiedWithAccess'
    BY <1>6, Undisturbed DEF Write, results
  <2>3. EarlyErrorInv'
    BY <1>6 DEF Write, EarlyErrorInv, Probes, GpuProbes
  <2> QED BY <2>1, <2>2, <2>3 DEF GInv
<1> QED BY <1>2, <1>3, <1>4, <1>5, <1>6

\* Every step of the run.
LEMMA StepG == GInv /\ [Next]_vars => GInv'
<1> SUFFICES ASSUME GInv, [Next]_vars PROVE GInv'
  OBVIOUS
<1>1. CASE UNCHANGED vars
  <2>1. TypeOK' /\ EarlyErrorInv'
    BY <1>1 DEF vars, GInv, TypeOK, EarlyErrorInv, should_run
  <2>2. RefusalsWarned' /\ CopiedWithAccess'
    BY <1>1, Undisturbed DEF vars
  <2> QED BY <2>1, <2>2 DEF GInv
<1> QED BY <1>1, EnvG, KernelsG, FabricG, ReportG DEF Next

-----------------------------------------------------------------------------
(* How far the run has come *)

\* Which stages come before which.
LEMMA Order ==
    /\ \A j \in 1 .. 7 : Place(Stages[j]) = j
    /\ Earlier("env") = {}
    /\ Earlier("fabric-smoke") = {"env"} \cup GpuProbes
    /\ Earlier("devices") = Probes
    /\ Earlier("write") = Probes \cup {"devices"}
<1>1. DOMAIN Stages = 1 .. 7
  BY DEF Stages
<1>2. ASSUME NEW j \in 1 .. 7 PROVE Place(Stages[j]) = j
  <2>1. \A n \in 1 .. 7 : Stages[n] = Stages[j] => n = j
    BY DEF Stages
  <2> QED BY <1>1, <2>1 DEF Place
<1>3. /\ Place("env") = 1 /\ Place("fabric-smoke") = 5
      /\ Place("devices") = 6 /\ Place("write") = 7
  <2>1. /\ Stages[1] = "env" /\ Stages[5] = "fabric-smoke"
        /\ Stages[6] = "devices" /\ Stages[7] = "write"
    BY DEF Stages
  <2> QED BY <1>2, <2>1
<1>4. Earlier("env") = {}
  BY <1>3 DEF Earlier
<1>5. Earlier("fabric-smoke") = {"env"} \cup GpuProbes
  <2>1. \A n : n \in 1 .. (5 - 1) <=> n \in {1, 2, 3, 4}
    OBVIOUS
  <2> QED BY <1>3, <2>1 DEF Earlier, Stages, GpuProbes
<1>6. Earlier("devices") = Probes
  <2>1. \A n : n \in 1 .. (6 - 1) <=> n \in {1, 2, 3, 4, 5}
    OBVIOUS
  <2> QED BY <1>3, <2>1 DEF Earlier, Stages, GpuProbes, Probes
<1>7. Earlier("write") = Probes \cup {"devices"}
  <2>1. \A n : n \in 1 .. (7 - 1) <=> n \in {1, 2, 3, 4, 5, 6}
    OBVIOUS
  <2> QED BY <1>3, <2>1 DEF Earlier, Stages, GpuProbes, Probes
<1> QED BY <1>2, <1>4, <1>5, <1>6, <1>7

\* From a stage main goes on to a later one; what lies between was not asked for.
LEMMA GoesOn ==
    ASSUME stage \in Probes \cup {"devices"}, End
    PROVE  /\ stage' \in Probes \cup {"devices", "write"} /\ should_run(stage')
           /\ Earlier(stage) \cup {stage} \subseteq Earlier(stage')
           /\ \A s \in Earlier(stage') :
                 s = stage \/ s \in Earlier(stage) \/ ~should_run(s)
           /\ stage' \notin Earlier(stage) \cup {stage}
<1>1. PICK n \in 1 .. 6 : stage = Stages[n]
  <2>1. \A n : n \in 1 .. 6 <=> n \in {1, 2, 3, 4, 5, 6}
    OBVIOUS
  <2> QED BY <2>1 DEF Stages, Probes, GpuProbes
<1>2. Place(stage) = n
  BY <1>1, Order
<1>3. PICK j \in (n + 1) .. 7 :
         /\ stage' = Stages[j] /\ should_run(Stages[j])
         /\ \A l \in (n + 1) .. (j - 1) : ~should_run(Stages[l])
  <2>1. n + 1 \in 1 .. 7 /\ stage' = FirstFrom(n + 1)
    BY <1>2 DEF End
  <2> QED BY <2>1, NextStage
<1>4. Place(stage') = j /\ j \in 1 .. 7
  BY <1>3, Order
<1>5. /\ Earlier(stage) = {Stages[l] : l \in 1 .. (n - 1)}
      /\ Earlier(stage') = {Stages[l] : l \in 1 .. (j - 1)}
  BY <1>2, <1>4 DEF Earlier
<1>6. stage' \in Probes \cup {"devices", "write"}
  <2>1. \A l : l \in 1 .. 7 <=> l \in {1, 2, 3, 4, 5, 6, 7}
    OBVIOUS
  <2> QED BY <1>3, <1>4, <2>1 DEF Stages, Probes, GpuProbes
<1>7. \A l \in 1 .. n : stage' # Stages[l]
  <2>1. \A l \in 1 .. n : l \in 1 .. 7 /\ l # j
    BY <1>3
  <2> QED BY <2>1, <1>4, Order
<1>8. /\ 1 .. (n - 1) \subseteq 1 .. (j - 1) /\ n \in 1 .. (j - 1)
      /\ 1 .. (n - 1) \subseteq 1 .. n /\ n \in 1 .. n
      /\ \A l \in 1 .. (j - 1) : l = n \/ l \in 1 .. (n - 1)
                                  \/ l \in (n + 1) .. (j - 1)
  BY <1>3
<1> QED BY <1>1, <1>3, <1>5, <1>6, <1>7, <1>8

\* Sequences are equal when their elements are; the empty one has none.
LEMMA SameSequence ==
    ASSUME NEW S, NEW s \in Seq(S), NEW t \in Seq(S), Len(s) = Len(t),
           \A j \in 1 .. Len(s) : s[j] = t[j]
    PROVE  s = t
  OBVIOUS

\* The empty sequence is the one without elements.
LEMMA NoElement ==
    ASSUME NEW S, NEW s \in Seq(S)
    PROVE  s = <<>> <=> Len(s) = 0
  OBVIOUS

\* What is left of a list when n elements are behind: one fewer after a step.
LEMMA Rest ==
    ASSUME NEW S, NEW list \in Seq(S), NEW n \in 0 .. Len(list)
    PROVE  LET rest == SubSeq(list, n + 1, Len(list))
           IN  /\ rest = <<>> <=> n = Len(list)
               /\ rest # <<>> => /\ n + 1 \in 1 .. Len(list)
                                 /\ Head(rest) = list[n + 1]
                                 /\ Tail(rest) = SubSeq(list, n + 2, Len(list))
               /\ SubSeq(list, 1, Len(list)) = list
<1> DEFINE rest == SubSeq(list, n + 1, Len(list))
<1>1. Len(list) \in Nat /\ n \in Nat
  OBVIOUS
<1>2. /\ rest \in Seq(S) /\ Len(rest) = Len(list) - n
      /\ \A j \in 1 .. (Len(list) - n) : rest[j] = list[n + j]
  OBVIOUS
<1>3. rest = <<>> <=> n = Len(list)
  <2> HIDE DEF rest
  <2>1. rest = <<>> <=> Len(rest) = 0
    BY <1>2, NoElement
  <2> QED BY <1>1, <1>2, <2>1
<1>4. SubSeq(list, 1, Len(list)) = list
  <2> DEFINE whole == SubSeq(list, 1, Len(list))
  <2>1. /\ whole \in Seq(S) /\ Len(whole) = Len(list)
        /\ \A j \in 1 .. Len(whole) : whole[j] = list[j]
    OBVIOUS
  <2> HIDE DEF whole
  <2>2. whole = list
    BY <2>1, SameSequence
  <2> QED BY <2>2 DEF whole
<1>5. ASSUME rest # <<>>
      PROVE  /\ n + 1 \in 1 .. Len(list) /\ Head(rest) = list[n + 1]
             /\ Tail(rest) = SubSeq(list, n + 2, Len(list))
  <2>1. n + 1 \in 1 .. Len(list) /\ n # Len(list)
    BY <1>1, <1>3, <1>5
  <2>2. Head(rest) = list[n + 1]
    BY <1>2, <2>1
  <2>3. Tail(rest) = SubSeq(list, n + 2, Len(list))
    <3> DEFINE more == SubSeq(list, n + 2, Len(list))
    <3>1. /\ more \in Seq(S) /\ Len(more) = Len(list) - (n + 1)
          /\ \A j \in 1 .. (Len(list) - (n + 1)) : more[j] = list[(n + 1) + j]
      BY <2>1
    <3>2. /\ Tail(rest) \in Seq(S) /\ Len(Tail(rest)) = Len(list) - (n + 1)
          /\ \A j \in 1 .. (Len(list) - (n + 1)) : Tail(rest)[j] = list[(n + 1) + j]
      <4> HIDE DEF rest
      <4> QED BY <1>1, <1>2, <1>5, <2>1
    <3> HIDE DEF rest, more
    <3>3. Len(Tail(rest)) = Len(more)
          /\ \A j \in 1 .. Len(more) : Tail(rest)[j] = more[j]
      BY <3>1, <3>2
    <3>4. Tail(rest) = more
      BY <3>1, <3>2, <3>3, SameSequence
    <3> QED BY <3>4 DEF more
  <2> QED BY <2>1, <2>2, <2>3
<1> QED BY <1>3, <1>4, <1>5

\* The cells for different GPUs are counted one by one.
LEMMA ApartFacts ==
    ASSUME NEW grid, NEW n \in Nat
    PROVE  /\ Apart(grid, 0) = {}
           /\ IsFiniteSet(Apart(grid, n)) /\ Cardinality(Apart(grid, n)) \in Nat
           /\ Apart(grid, n + 1) =
                IF grid[n + 1][1] # grid[n + 1][2]
                THEN Apart(grid, n) \cup {n + 1} ELSE Apart(grid, n)
           /\ n + 1 \notin Apart(grid, n)
           /\ \A j \in Apart(grid, n) :
                /\ j \in Nat
                /\ Cardinality(Apart(grid, j)) \in 1 .. Cardinality(Apart(grid, n))
<1>1. ASSUME NEW m \in Nat
      PROVE  IsFiniteSet(Apart(grid, m)) /\ Cardinality(Apart(grid, m)) \in Nat
  <2>1. 1 \in Int /\ m \in Int
    OBVIOUS
  <2>2. IsFiniteSet(1 .. m)
    BY <2>1, FS_Interval
  <2> QED BY <2>2, FS_Subset, FS_CardinalityType DEF Apart
<1>2. Apart(grid, 0) = {}
  BY DEF Apart
<1>3. \A j : j \in 1 .. (n + 1) <=> j \in 1 .. n \/ j = n + 1
  OBVIOUS
<1>4. Apart(grid, n + 1) = IF grid[n + 1][1] # grid[n + 1][2]
                           THEN Apart(grid, n) \cup {n + 1} ELSE Apart(grid, n)
  BY <1>3, Zenon DEF Apart
<1>5. n + 1 \notin Apart(grid, n)
  BY DEF Apart
<1>6. ASSUME NEW j \in Apart(grid, n)
      PROVE  /\ j \in Nat
             /\ Cardinality(Apart(grid, j)) \in 1 .. Cardinality(Apart(grid, n))
  <2>1. j \in Nat /\ j \in 1 .. n /\ j \in Apart(grid, j)
    BY DEF Apart
  <2>2. Apart(grid, j) \subseteq Apart(grid, n)
    BY <2>1 DEF Apart
  <2>3. Cardinality(Apart(grid, j)) <= Cardinality(Apart(grid, n))
    BY <1>1, <2>2, FS_Subset
  <2>4. Cardinality(Apart(grid, j)) # 0
    BY <1>1, <2>1, FS_EmptySet
  <2> QED BY <1>1, <2>1, <2>3, <2>4
<1> QED BY <1>1, <1>2, <1>4, <1>5, <1>6

\* A cell for one GPU needs no result, any other one gets its own.
LEMMA Answer ==
    ASSUME NEW grid, NEW n \in Nat, Answered(grid, n),
           pairs \in Seq(Nat \X Nat \X {"ok", "failed"}),
           \/ grid[n + 1][1] = grid[n + 1][2] /\ pairs' = pairs
           \/ /\ grid[n + 1][1] # grid[n + 1][2]
              /\ \E status \in {"ok", "failed"} :
                    pairs' = Append(pairs, <<grid[n + 1][1], grid[n + 1][2], status>>)
              /\ grid[n + 1] \in Pairs
    PROVE  /\ Len(pairs') = Cardinality(Apart(grid, n + 1))
           /\ \A j \in Apart(grid, n + 1) :
                 Ids(pairs')[Cardinality(Apart(grid, j))] = grid[j]
<1>1. CASE grid[n + 1][1] = grid[n + 1][2] /\ pairs' = pairs
  BY <1>1, ApartFacts DEF Answered
<1>2. CASE grid[n + 1][1] # grid[n + 1][2] /\ grid[n + 1] \in Pairs
  <2>1. PICK status \in {"ok", "failed"} :
           pairs' = Append(pairs, <<grid[n + 1][1], grid[n + 1][2], status>>)
    BY <1>2
  <2> DEFINE c == Cardinality(Apart(grid, n))
  <2>2. Apart(grid, n + 1) = Apart(grid, n) \cup {n + 1}
    BY <1>2, ApartFacts
  <2>3. Cardinality(Apart(grid, n + 1)) = c + 1 /\ c \in Nat /\ c = Len(pairs)
    <3>1. IsFiniteSet(Apart(grid, n)) /\ n + 1 \notin Apart(grid, n)
      BY ApartFacts
    <3>2. Cardinality(Apart(grid, n) \cup {n + 1}) = c + 1
      BY <3>1, FS_AddElement
    <3>3. c \in Nat
      BY ApartFacts
    <3>4. c = Len(pairs)
      BY DEF Answered
    <3> QED BY <2>2, <3>2, <3>3, <3>4
  <2>4. /\ Len(pairs') = c + 1 /\ DOMAIN pairs = 1 .. c /\ DOMAIN pairs' = 1 .. (c + 1)
        /\ \A j \in 1 .. c : pairs'[j] = pairs[j]
        /\ pairs'[c + 1] = <<grid[n + 1][1], grid[n + 1][2], status>>
    <3>1. <<grid[n + 1][1], grid[n + 1][2], status>> \in Nat \X Nat \X {"ok", "failed"}
      BY <1>2 DEF Pairs
    <3> HIDE DEF c
    <3> QED BY <2>1, <2>3, <3>1
  <2>5. Ids(pairs')[c + 1] = grid[n + 1]
    <3> HIDE DEF c
    <3>1. c + 1 \in 1 .. (c + 1)
      BY <2>3
    <3>2. Ids(pairs')[c + 1] = <<pairs'[c + 1][1], pairs'[c + 1][2]>>
      BY <2>4, <3>1 DEF Ids
    <3>3. Ids(pairs')[c + 1] = <<grid[n + 1][1], grid[n + 1][2]>>
      BY <2>4, <3>2
    <3> QED BY <1>2, <3>3 DEF Pairs
  <2>6. ASSUME NEW j \in Apart(grid, n)
        PROVE  Ids(pairs')[Cardinality(Apart(grid, j))] = grid[j]
    <3>1. Cardinality(Apart(grid, j)) \in 1 .. c
      BY ApartFacts
    <3>2. Ids(pairs)[Cardinality(Apart(grid, j))] = grid[j]
      BY DEF Answered
    <3>3. \A m \in 1 .. c : m \in 1 .. (c + 1)
      BY <2>3
    <3> HIDE DEF c
    <3>4. \A m \in 1 .. c : Ids(pairs')[m] = Ids(pairs)[m]
      BY <2>4, <3>3 DEF Ids
    <3> QED BY <3>1, <3>2, <3>4
  <2> QED BY <2>2, <2>3, <2>4, <2>5, <2>6
<1> QED BY <1>1, <1>2

AllStages == Probes \cup {"devices", "write"}
Loops == {"env", "fabric-smoke", "devices"}

\* Of two stages one is earlier.
LEMMA Ordered ==
    ASSUME NEW s \in AllStages, NEW t \in AllStages
    PROVE  /\ s \in Earlier(t) => s # t /\ t \notin Earlier(s)
           /\ s # t => s \in Earlier(t) \/ t \in Earlier(s)
<1>1. \A x \in AllStages : \E j \in 1 .. 7 : x = Stages[j]
  <2>1. \A n : n \in 1 .. 7 <=> n \in {1, 2, 3, 4, 5, 6, 7}
    OBVIOUS
  <2> QED BY <2>1 DEF AllStages, Stages, Probes, GpuProbes
<1>2. PICK j \in 1 .. 7 : s = Stages[j]
  BY <1>1
<1>3. PICK l \in 1 .. 7 : t = Stages[l]
  BY <1>1
<1>4. /\ Earlier(s) = {Stages[n] : n \in 1 .. (j - 1)}
      /\ Earlier(t) = {Stages[n] : n \in 1 .. (l - 1)}
  BY <1>2, <1>3, Order DEF Earlier
<1>5. \A n \in 1 .. 7 : (Stages[n] = s <=> n = j) /\ (Stages[n] = t <=> n = l)
  BY <1>2, <1>3, Order
<1>6. /\ s \in Earlier(t) <=> j < l
      /\ t \in Earlier(s) <=> l < j
  <2>1. /\ \A n \in 1 .. (j - 1) : n \in 1 .. 7 /\ n < j
        /\ \A n \in 1 .. (l - 1) : n \in 1 .. 7 /\ n < l
        /\ j < l => j \in 1 .. (l - 1)
        /\ l < j => l \in 1 .. (j - 1)
    OBVIOUS
  <2> QED BY <1>2, <1>3, <1>4, <1>5, <2>1
<1> QED BY <1>2, <1>3, <1>6

\* The lists of the loops.
LEMMA ListFacts ==
    ASSUME TypeOK
    PROVE  /\ \A s \in Loops : LoopList(s) \in Seq(Pairs \cup Nat)
           /\ LoopList("env") = Grid(visible) /\ LoopList("devices") = visible
           /\ LoopList("fabric-smoke") = Grid(selected_gpus)
           /\ Grid(selected_gpus) \in Seq(Pairs) /\ Grid(visible) \in Seq(Pairs)
           /\ visible \in Seq(Nat)
<1>1. visible \in Seq(Nat)
  BY RequestAssumption DEF visible
<1>2. selected_gpus \in Seq(Nat)
  <2>1. opts \in [probe : Probes \cup {"all"}, gpu : Nat, gpus : Seq(Nat)]
    BY RequestAssumption DEF TypeOK
  <2>2. opts.gpus \in Seq(Nat)
    BY <2>1
  <2> QED BY <2>2, <1>1 DEF selected_gpus
<1>3. Grid(selected_gpus) \in Seq(Pairs) /\ Grid(visible) \in Seq(Pairs)
  BY <1>1, <1>2, GridType
<1>4. /\ LoopList("env") = Grid(visible) /\ LoopList("devices") = visible
      /\ LoopList("fabric-smoke") = Grid(selected_gpus)
  BY DEF LoopList
<1>5. Seq(Pairs) \subseteq Seq(Pairs \cup Nat) /\ Seq(Nat) \subseteq Seq(Pairs \cup Nat)
  OBVIOUS
<1> QED BY <1>1, <1>3, <1>4, <1>5 DEF Loops

\* The lists stay what they are.
LEMMA ListKept ==
    ASSUME UNCHANGED opts, NEW s
    PROVE  LoopList(s)' = LoopList(s) /\ selected_gpus' = selected_gpus
  BY DEF LoopList, selected_gpus

\* A step that leaves a loop alone, ...
LEMMA BehindSame ==
    ASSUME NEW s, NEW n, Behind(s, n), UNCHANGED <<opts, stage, open>>,
           stage # s \/ todo' = todo
    PROVE  Behind(s, n)'
  BY ListKept DEF Behind

\* ... begins one, ...
LEMMA BehindBegin ==
    ASSUME TypeOK, NEW s \in Loops, NEW n, Behind(s, n), NEW t, NEW list,
           Begin(t, list), stage = s => list = LoopList(s)
    PROVE  Behind(s, n)'
<1>1. /\ UNCHANGED <<opts, stage>> /\ ~open /\ open' /\ todo' = list
  BY DEF Begin, TypeOK
<1>2. LoopList(s)' = LoopList(s) /\ LoopList(s) \in Seq(Pairs \cup Nat)
  BY <1>1, ListKept, ListFacts
<1>3. SubSeq(LoopList(s), 1, Len(LoopList(s))) = LoopList(s)
  BY <1>2, Rest
<1>4. CASE stage \in Earlier(s) \/ stage # s
  BY <1>1, <1>2, <1>4 DEF Behind
<1>5. CASE stage \notin Earlier(s) /\ stage = s
  <2>1. n = 0 /\ 0 + 1 = 1 /\ n \in 0 .. Len(LoopList(s))
    BY <1>1, <1>5 DEF Behind
  <2>2. todo' = SubSeq(LoopList(s), n + 1, Len(LoopList(s)))
    BY <1>1, <1>3, <1>5, <2>1
  <2> QED BY <1>1, <1>2, <1>5, <2>1, <2>2 DEF Behind
<1> QED BY <1>4, <1>5

\* ... goes on with one, ...
LEMMA BehindNext ==
    ASSUME TypeOK, NEW s \in Loops, NEW n, Behind(s, n), InLoop(s),
           todo' = Tail(todo), UNCHANGED <<opts, stage, open>>
    PROVE  /\ n \in Nat /\ n + 1 \in 1 .. Len(LoopList(s))
           /\ Head(todo) = LoopList(s)[n + 1]
           /\ Behind(s, n + 1)'
<1>1. LoopList(s)' = LoopList(s) /\ LoopList(s) \in Seq(Pairs \cup Nat)
  BY ListKept, ListFacts
<1>2. s \notin Earlier(s)
  BY Ordered DEF Loops, AllStages, Probes
<1>3. /\ n \in 0 .. Len(LoopList(s)) /\ todo # <<>>
      /\ todo = SubSeq(LoopList(s), n + 1, Len(LoopList(s)))
  BY <1>2 DEF Behind, InLoop
<1>4. /\ n + 1 \in 1 .. Len(LoopList(s)) /\ Head(todo) = LoopList(s)[n + 1]
      /\ Tail(todo) = SubSeq(LoopList(s), n + 2, Len(LoopList(s)))
  BY <1>1, <1>3, Rest
<1>5. n \in Nat /\ (n + 1) + 1 = n + 2 /\ n + 1 \in 0 .. Len(LoopList(s))
  BY <1>3, <1>4
<1>6. Behind(s, n + 1)'
  <2>1. todo' = SubSeq(LoopList(s), (n + 1) + 1, Len(LoopList(s)))
    BY <1>4, <1>5
  <2>2. stage' = s /\ open'
    BY DEF InLoop
  <2> QED BY <1>1, <1>2, <1>5, <2>1, <2>2 DEF Behind
<1> QED BY <1>4, <1>5, <1>6

\* ... or ends a stage.
LEMMA BehindEnd ==
    ASSUME TypeOK, stage \in Probes \cup {"devices"}, End,
           NEW s \in Loops, should_run(s), NEW n, Behind(s, n),
           stage = s => open /\ todo = <<>>
    PROVE  Behind(s, n)'
<1>1. LoopList(s)' = LoopList(s) /\ LoopList(s) \in Seq(Pairs \cup Nat)
  BY ListKept, ListFacts DEF End
<1>2. /\ s \in AllStages /\ stage \in AllStages /\ stage' \in AllStages
      /\ open' = FALSE
  BY GoesOn DEF AllStages, Loops, Probes, End
<1>3. n \in 0 .. Len(LoopList(s))
  BY DEF Behind
<1>4. CASE stage \in Earlier(s)
  <2>1. n = 0
    BY <1>4 DEF Behind
  <2>2. stage' \in Earlier(s) \/ stage' = s
    <3>1. stage # s /\ s \notin Earlier(stage)
      BY <1>2, <1>4, Ordered
    <3>2. s \notin Earlier(stage')
      BY <3>1, GoesOn
    <3> QED BY <3>2, <1>2, Ordered
  <2> QED BY <1>1, <1>2, <1>3, <2>1, <2>2 DEF Behind
<1>5. CASE stage \notin Earlier(s)
  <2>1. n = Len(LoopList(s))
    <3>1. CASE stage = s
      <4>1. SubSeq(LoopList(s), n + 1, Len(LoopList(s))) = <<>>
        BY <1>5, <3>1 DEF Behind
      <4> QED BY <1>1, <1>3, <4>1, Rest
    <3>2. CASE stage # s
      BY <1>5, <3>2 DEF Behind
    <3> QED BY <3>1, <3>2
  <2>2. s \in Earlier(stage')
    <3>1. s = stage \/ s \in Earlier(stage)
      BY <1>2, <1>5, Ordered
    <3> QED BY <3>1, GoesOn
  <2>3. stage' # s /\ stage' \notin Earlier(s)
    BY <2>2, <1>2, Ordered
  <2> QED BY <1>1, <1>2, <1>3, <2>1, <2>3 DEF Behind
<1> QED BY <1>4, <1>5

\* The loops that a step leaves alone keep what is recorded of them.
LEMMA LoopsKept ==
    ASSUME TypeOK, UNCHANGED opts
    PROVE  /\ /\ MatrixInv /\ matrix' = matrix
              /\ should_run("env") /\ Behind("env", Len(matrix)) =>
                   Behind("env", Len(matrix))'
              => MatrixInv'
           /\ /\ PairsInv /\ pairs' = pairs
              /\ \A n : should_run("fabric-smoke") /\ Behind("fabric-smoke", n) =>
                   Behind("fabric-smoke", n)'
              => PairsInv'
           /\ /\ DevicesInv /\ devices' = devices
              /\ Behind("devices", Len(devices)) => Behind("devices", Len(devices))'
              => DevicesInv'
<1>1. \A s : should_run(s)' <=> should_run(s)
  BY DEF should_run
<1>2. /\ MatrixInv /\ matrix' = matrix
      /\ should_run("env") /\ Behind("env", Len(matrix)) =>
           Behind("env", Len(matrix))'
      => MatrixInv'
  BY <1>1 DEF MatrixInv
<1>3. ASSUME PairsInv, pairs' = pairs,
             \A n : should_run("fabric-smoke") /\ Behind("fabric-smoke", n) =>
                Behind("fabric-smoke", n)'
      PROVE  PairsInv'
  <2>1. selected_gpus' = selected_gpus
    BY ListKept
  <2>2. \A grid, n : Answered(grid, n) => Answered(grid, n)'
    BY <1>3 DEF Answered
  <2> QED BY <1>1, <1>3, <2>1, <2>2 DEF PairsInv
<1>4. /\ DevicesInv /\ devices' = devices
      /\ Behind("devices", Len(devices)) => Behind("devices", Len(devices))'
      => DevicesInv'
  BY DEF DevicesInv
<1> QED BY <1>2, <1>3, <1>4

\* A run that goes on within a stage only has its loops to look at.
LEMMA WithinStage ==
    ASSUME ProgressInv, UNCHANGED <<opts, stage, probes, exit, file>>,
           exit # 1 => MatrixInv' /\ PairsInv' /\ DevicesInv'
    PROVE  ProgressInv'
  BY DEF ProgressInv, should_run

\* main begins with nothing behind it.
LEMMA InitP == Init => ProgressInv
<1> SUFFICES ASSUME Init PROVE ProgressInv
  OBVIOUS
<1>1. PICK j \in 1 .. 7 : /\ stage = Stages[j] /\ should_run(stage)
                          /\ \A l \in 1 .. (j - 1) : ~should_run(Stages[l])
  BY NextStage DEF Init
<1>2. TypeOK /\ stage \in AllStages
  <2>1. \A n : n \in 1 .. 7 <=> n \in {1, 2, 3, 4, 5, 6, 7}
    OBVIOUS
  <2> QED BY InitG, <1>1, <2>1 DEF GInv, AllStages, Stages, Probes, GpuProbes
<1>3. \A s \in Earlier(stage) : ~should_run(s)
  BY <1>1, Order DEF Earlier
<1>4. ASSUME NEW s \in Loops, should_run(s) PROVE Behind(s, 0)
  <2>1. s \in AllStages /\ s \notin Earlier(stage)
    BY <1>3, <1>4 DEF Loops, AllStages, Probes
  <2>2. stage \in Earlier(s) \/ stage = s
    BY <1>2, <2>1, Ordered
  <2>3. ~open /\ 0 \in 0 .. Len(LoopList(s))
    <3>1. LoopList(s) \in Seq(Pairs \cup Nat)
      BY <1>2, ListFacts
    <3> QED BY <3>1 DEF Init
  <2> QED BY <2>2, <2>3 DEF Behind
<1>5. should_run("devices")
  BY DEF should_run
<1>6. MatrixInv /\ DevicesInv
  BY <1>4, <1>5 DEF Init, MatrixInv, DevicesInv, Loops
<1>7. PairsInv
  <2>1. Answered(Grid(selected_gpus), 0)
    <3>1. Apart(Grid(selected_gpus), 0) = {}
      BY DEF Apart
    <3> QED BY <3>1, FS_EmptySet DEF Init, Answered
  <2>2. 0 \in 0 .. Len(Grid(selected_gpus))
    <3>1. Grid(selected_gpus) \in Seq(Pairs)
      BY <1>2, ListFacts
    <3> QED BY <3>1
  <2> QED BY <1>4, <2>1, <2>2 DEF PairsInv, Loops
<1>8. stage # "stop" /\ probes = {} /\ file = "old" /\ exit = -1
  BY <1>2 DEF Init, AllStages, Probes, GpuProbes
<1> QED BY <1>3, <1>6, <1>7, <1>8 DEF ProgressInv

\* An exception ends a run that has not written anything.
LEMMA ThrowP ==
    ASSUME ProgressInv, stage # "stop", NEW why, Throw(why)
    PROVE  ProgressInv'
  BY DEF ProgressInv, Throw

\* A loop begins.
LEMMA BeginP ==
    ASSUME GInv, ProgressInv, NEW s, NEW list, Begin(s, list),
           UNCHANGED <<matrix, refused, pairs, probes, devices>>,
           s \in Loops => list = LoopList(s)
    PROVE  ProgressInv'
<1>1. TypeOK /\ stage = s /\ UNCHANGED <<opts, stage, exit, file>>
  BY DEF Begin, GInv
<1>2. ASSUME NEW t \in Loops, NEW n, Behind(t, n) PROVE Behind(t, n)'
  BY <1>1, <1>2, BehindBegin
<1>3. "env" \in Loops /\ "fabric-smoke" \in Loops /\ "devices" \in Loops
  BY DEF Loops
<1>4. exit # 1 => MatrixInv' /\ PairsInv' /\ DevicesInv'
  <2> SUFFICES ASSUME exit # 1 PROVE MatrixInv' /\ PairsInv' /\ DevicesInv'
    OBVIOUS
  <2>1. MatrixInv /\ PairsInv /\ DevicesInv
    BY DEF ProgressInv
  <2>2. /\ Behind("env", Len(matrix)) => Behind("env", Len(matrix))'
        /\ Behind("devices", Len(devices)) => Behind("devices", Len(devices))'
    <3>1. PICK n, m : n = Len(matrix) /\ m = Len(devices)
      OBVIOUS
    <3>2. matrix' = matrix /\ devices' = devices
      OBVIOUS
    <3>3. /\ Behind("env", n) => Behind("env", n)'
          /\ Behind("devices", m) => Behind("devices", m)'
      BY <1>2, <1>3
    <3> QED BY <3>1, <3>2, <3>3
  <2> QED BY <1>1, <1>2, <1>3, <2>1, <2>2, LoopsKept
<1> QED BY <1>1, <1>4, WithinStage

\* A stage ends with its loop done.
LEMMA EndP ==
    ASSUME GInv, ProgressInv, stage \in Probes \cup {"devices"}, End,
           stage \in Loops => open /\ todo = <<>>
    PROVE  ProgressInv'
<1>1. TypeOK /\ EarlyErrorInv /\ UNCHANGED <<opts, matrix, pairs, devices, exit, file>>
  BY DEF GInv, End
<1>2. stage # "stop" /\ stage' # "stop" /\ exit # 1
  BY GoesOn DEF Probes, GpuProbes, ProgressInv
<1>3. MatrixInv /\ PairsInv /\ DevicesInv
  BY <1>2 DEF ProgressInv
<1>4. ASSUME NEW t \in Loops, should_run(t), NEW n, Behind(t, n)
      PROVE  Behind(t, n)'
  BY <1>1, <1>4, BehindEnd
<1>5. /\ "env" \in Loops /\ "fabric-smoke" \in Loops /\ "devices" \in Loops
      /\ should_run("devices")
  BY DEF Loops, should_run
<1>6. MatrixInv' /\ PairsInv' /\ DevicesInv'
  <2>1. /\ should_run("env") /\ Behind("env", Len(matrix)) =>
             Behind("env", Len(matrix))'
        /\ Behind("devices", Len(devices)) => Behind("devices", Len(devices))'
    <3>1. PICK n, m : n = Len(matrix) /\ m = Len(devices)
      OBVIOUS
    <3>2. /\ should_run("env") /\ Behind("env", n) => Behind("env", n)'
          /\ Behind("devices", m) => Behind("devices", m)'
      BY <1>4, <1>5
    <3> QED BY <3>1, <3>2, <1>1
  <2> QED BY <1>1, <1>3, <1>4, <1>5, <2>1, LoopsKept
<1>7. probes' = {p \in Probes : should_run(p) /\ p \in Earlier(stage')}
  <2>1. probes = {p \in Probes : should_run(p) /\ p \in Earlier(stage)}
    BY <1>2 DEF ProgressInv
  <2>2. probes' = probes \cup ({stage} \cap Probes)
    BY DEF End
  <2>3. stage \in Probes => should_run(stage)
    BY <1>1 DEF EarlyErrorInv
  <2>4. \A p \in Probes : should_run(p) =>
           (p \in Earlier(stage') <=> p = stage \/ p \in Earlier(stage))
    BY GoesOn
  <2> QED BY <2>1, <2>2, <2>3, <2>4
<1>8. \A p : should_run(p)' <=> should_run(p)
  BY <1>1 DEF should_run
<1> QED BY <1>1, <1>2, <1>6, <1>7, <1>8 DEF ProgressInv

\* The steps by stage: a cell of the matrix, ...
LEMMA EnvP ==
    /\ GInv /\ ProgressInv
    /\ BeginEnv \/ QueryPair \/ QueryPairFails \/ EndEnv
    => ProgressInv'
<1> SUFFICES ASSUME GInv, ProgressInv,
                    BeginEnv \/ QueryPair \/ QueryPairFails \/ EndEnv
             PROVE  ProgressInv'
  OBVIOUS
<1>1. TypeOK /\ "env" \in Loops /\ "fabric-smoke" # "env" /\ "devices" # "env"
  BY DEF GInv, Loops
<1>2. CASE BeginEnv
  <2>1. Begin("env", Grid(visible))
        /\ UNCHANGED <<matrix, refused, pairs, probes, devices>>
    BY <1>2 DEF BeginEnv, results
  <2>2. Grid(visible) = LoopList("env")
    BY <1>1, ListFacts
  <2> QED BY <2>1, <2>2, BeginP
<1>3. CASE QueryPair \/ QueryPairFails
  <2>1. /\ InLoop("env") /\ todo' = Tail(todo)
        /\ UNCHANGED <<opts, stage, open, exit, file, pairs, probes, devices>>
        /\ \E can \in BOOLEAN : matrix' = Append(matrix, <<src, dst, can>>)
    BY <1>3 DEF QueryPair, QueryPairFails
  <2>2. stage = "env" /\ stage # "fabric-smoke" /\ stage # "devices"
    BY <2>1 DEF InLoop
  <2>3. exit # 1 /\ should_run("env")
    <3>1. "env" \in Probes
      BY DEF Probes
    <3> QED BY <2>2, <3>1 DEF ProgressInv, GInv, EarlyErrorInv
  <2>4. MatrixInv /\ PairsInv /\ DevicesInv
    BY <2>3 DEF ProgressInv
  <2>5. PairsInv' /\ DevicesInv'
    <3>1. \A s, n : s # "env" /\ Behind(s, n) => Behind(s, n)'
      BY <2>1, <2>2, BehindSame
    <3>2. \A n : Behind("fabric-smoke", n) => Behind("fabric-smoke", n)'
      BY <3>1
    <3>3. Behind("devices", Len(devices)) => Behind("devices", Len(devices))'
      <4>1. PICK n : n = Len(devices)
        OBVIOUS
      <4>2. Behind("devices", n) => Behind("devices", n)'
        BY <3>1
      <4> QED BY <4>1, <4>2, <2>1
    <3> QED BY <1>1, <2>1, <2>4, <3>2, <3>3, LoopsKept
  <2>6. MatrixInv'
    <3>1. PICK n : n = Len(matrix)
      OBVIOUS
    <3>2. /\ n \in Nat /\ n + 1 \in 1 .. Len(Grid(visible))
          /\ Head(todo) = Grid(visible)[n + 1]
          /\ Behind("env", n + 1)'
      <4>1. Behind("env", n)
        BY <2>3, <2>4, <3>1 DEF MatrixInv
      <4>2. LoopList("env") = Grid(visible)
        BY <1>1, ListFacts
      <4> QED BY <1>1, <2>1, <4>1, <4>2, BehindNext
    <3>3. Head(todo) \in Pairs /\ <<src, dst>> = Grid(visible)[n + 1]
      <4>1. Grid(visible) \in Seq(Pairs)
        BY <1>1, ListFacts
      <4>2. Grid(visible)[n + 1] \in Pairs
        BY <3>2, <4>1
      <4> QED BY <3>2, <4>2 DEF src, dst, Pairs
    <3>4. PICK can \in BOOLEAN : matrix' = Append(matrix, <<src, dst, can>>)
      BY <2>1
    <3>5. /\ Len(matrix') = n + 1 /\ DOMAIN matrix = 1 .. n
          /\ DOMAIN matrix' = 1 .. (n + 1)
          /\ \A j \in 1 .. n : matrix'[j] = matrix[j]
          /\ matrix'[n + 1] = <<src, dst, can>>
      <4>1. /\ matrix \in Seq(Nat \X Nat \X BOOLEAN)
            /\ <<src, dst, can>> \in Nat \X Nat \X BOOLEAN
        BY <1>1, <3>3 DEF TypeOK, src, dst, Pairs
      <4> QED BY <3>1, <3>4, <4>1
    <3>6. \A j \in 1 .. n : Ids(matrix)[j] = Grid(visible)[j]
      BY <2>3, <2>4, <3>5 DEF MatrixInv
    <3>7. ASSUME NEW j \in 1 .. (n + 1) PROVE Ids(matrix')[j] = Grid(visible)[j]
      <4>1. CASE j = n + 1
        BY <4>1, <3>3, <3>5 DEF Ids
      <4>2. CASE j \in 1 .. n
        BY <4>2, <3>5, <3>6 DEF Ids
      <4> QED BY <4>1, <4>2, <3>2
    <3> QED BY <3>2, <3>5, <3>7 DEF MatrixInv
  <2> QED BY <2>1, <2>5, <2>6, WithinStage
<1>4. CASE EndEnv
  BY <1>4, EndP DEF EndEnv, Probes
<1> QED BY <1>2, <1>3, <1>4

\* ... the kernels, ...
LEMMA KernelsP ==
    /\ GInv /\ ProgressInv
    /\ BeginKernels \/ RejectGpu \/ Kernels \/ LaunchFails \/ StaleErrorFound
    => ProgressInv'
<1> SUFFICES ASSUME GInv, ProgressInv,
                    \/ BeginKernels \/ RejectGpu \/ Kernels
                    \/ LaunchFails \/ StaleErrorFound
             PROVE  ProgressInv'
  OBVIOUS
<1>1. GpuProbes \cap Loops = {} /\ "stop" \notin GpuProbes /\ GpuProbes \subseteq Probes
  BY DEF GpuProbes, Loops, Probes
<1>2. CASE BeginKernels
  <2>1. /\ stage \in GpuProbes /\ Begin(stage, <<>>)
        /\ UNCHANGED <<matrix, refused, pairs, probes, devices>>
    BY <1>2 DEF BeginKernels, results
  <2>2. PICK s : s = stage
    OBVIOUS
  <2>3. s \notin Loops /\ Begin(s, <<>>)
    BY <1>1, <2>1, <2>2
  <2> QED BY <2>1, <2>3, BeginP
<1>3. CASE Kernels
  BY <1>1, <1>3, EndP DEF Kernels
<1>4. CASE RejectGpu \/ LaunchFails \/ StaleErrorFound
  <2>1. stage # "stop" /\ \E why : Throw(why)
    BY <1>1, <1>4 DEF RejectGpu, LaunchFails, StaleErrorFound
  <2> QED BY <2>1, ThrowP
<1> QED BY <1>2, <1>3, <1>4

\* ... a pair of the fabric, ...
LEMMA FabricP ==
    /\ GInv /\ ProgressInv
    /\ \/ BeginFabric \/ RejectGpus \/ SkipSelf \/ AccessQueryFails \/ NoAccess
       \/ EnableFails \/ Copy \/ EndFabric
    => ProgressInv'
<1> SUFFICES ASSUME GInv, ProgressInv,
                    \/ BeginFabric \/ RejectGpus \/ SkipSelf
                    \/ AccessQueryFails \/ NoAccess \/ EnableFails
                    \/ Copy \/ EndFabric
             PROVE  ProgressInv'
  OBVIOUS
<1>1. TypeOK /\ "fabric-smoke" \in Loops /\ "fabric-smoke" \in Probes
  BY DEF GInv, Loops, Probes
<1>2. CASE BeginFabric
  <2>1. Begin("fabric-smoke", Grid(selected_gpus))
        /\ UNCHANGED <<matrix, refused, pairs, probes, devices>>
    BY <1>2 DEF BeginFabric
  <2>2. PICK list : list = Grid(selected_gpus)
    OBVIOUS
  <2>3. list = LoopList("fabric-smoke") /\ Begin("fabric-smoke", list)
    BY <1>1, <2>1, <2>2, ListFacts
  <2> QED BY <2>1, <2>3, BeginP
<1>3. CASE SkipSelf \/ AccessQueryFails \/ NoAccess \/ EnableFails \/ Copy
  <2>1. /\ InLoop("fabric-smoke") /\ todo' = Tail(todo)
        /\ UNCHANGED <<opts, stage, open, exit, file, matrix, probes, devices>>
        /\ \/ src = dst /\ pairs' = pairs
           \/ /\ src # dst
              /\ \E status \in {"ok", "failed"} :
                    pairs' = Append(pairs, <<src, dst, status>>)
    BY <1>3 DEF SkipSelf, AccessQueryFails, NoAccess, EnableFails, Copy,
                PairDone, results
  <2>2. stage = "fabric-smoke" /\ stage # "env" /\ stage # "devices"
    BY <2>1 DEF InLoop
  <2>3. exit # 1 /\ should_run("fabric-smoke")
    BY <1>1, <2>2 DEF ProgressInv, GInv, EarlyErrorInv
  <2>4. MatrixInv /\ PairsInv /\ DevicesInv
    BY <2>3 DEF ProgressInv
  <2>5. MatrixInv' /\ DevicesInv'
    <3>1. \A s, n : s # "fabric-smoke" /\ Behind(s, n) => Behind(s, n)'
      BY <2>1, <2>2, BehindSame
    <3>2. /\ Behind("env", Len(matrix)) => Behind("env", Len(matrix))'
          /\ Behind("devices", Len(devices)) => Behind("devices", Len(devices))'
      <4>1. PICK n, m : n = Len(matrix) /\ m = Len(devices)
        OBVIOUS
      <4>2. /\ Behind("env", n) => Behind("env", n)'
            /\ Behind("devices", m) => Behind("devices", m)'
        BY <3>1
      <4> QED BY <4>1, <4>2, <2>1
    <3> QED BY <1>1, <2>1, <2>4, <3>2, LoopsKept
  <2>6. PairsInv'
    <3>1. PICK n : Behind("fabric-smoke", n) /\ Answered(Grid(selected_gpus), n)
      BY <2>3, <2>4 DEF PairsInv
    <3>2. PICK grid : grid = Grid(selected_gpus)
      OBVIOUS
    <3>3. grid = LoopList("fabric-smoke") /\ grid \in Seq(Pairs)
      BY <1>1, <3>2, ListFacts
    <3>4. /\ n \in Nat /\ n + 1 \in 1 .. Len(grid) /\ Head(todo) = grid[n + 1]
          /\ Behind("fabric-smoke", n + 1)'
      BY <1>1, <2>1, <3>1, <3>3, BehindNext
    <3>5. grid[n + 1] \in Pairs /\ grid[n + 1][1] = src /\ grid[n + 1][2] = dst
      BY <3>3, <3>4 DEF src, dst
    <3>6. /\ Len(pairs') = Cardinality(Apart(grid, n + 1))
          /\ \A j \in Apart(grid, n + 1) :
                Ids(pairs')[Cardinality(Apart(grid, j))] = grid[j]
      <4>1. Answered(grid, n) /\ pairs \in Seq(Nat \X Nat \X {"ok", "failed"})
        BY <1>1, <3>1, <3>2 DEF TypeOK
      <4>2. \/ grid[n + 1][1] = grid[n + 1][2] /\ pairs' = pairs
            \/ /\ grid[n + 1][1] # grid[n + 1][2]
               /\ \E status \in {"ok", "failed"} :
                     pairs' = Append(pairs, <<grid[n + 1][1], grid[n + 1][2], status>>)
               /\ grid[n + 1] \in Pairs
        BY <2>1, <3>5
      <4> QED BY <3>4, <4>1, <4>2, Answer
    <3>7. Grid(selected_gpus)' = grid
      BY <2>1, <3>2, ListKept
    <3>8. Answered(Grid(selected_gpus), n + 1)'
      BY <3>6, <3>7 DEF Answered
    <3>9. n + 1 \in 0 .. Len(Grid(selected_gpus)')
      BY <3>4, <3>7
    <3> QED BY <3>4, <3>8, <3>9 DEF PairsInv
  <2> QED BY <2>1, <2>5, <2>6, WithinStage
<1>4. CASE EndFabric
  BY <1>1, <1>4, EndP DEF EndFabric
<1>5. CASE RejectGpus
  BY <1>5, ThrowP DEF RejectGpus
<1> QED BY <1>2, <1>3, <1>4, <1>5

\* ... a device and the report.
LEMMA ReportP ==
    /\ GInv /\ ProgressInv
    /\ \/ BeginDevices \/ DescribeDevice \/ DescribeUnknown \/ EndDevices
       \/ CallFails \/ OpenFails \/ Write
    => ProgressInv'
<1> SUFFICES ASSUME GInv, ProgressInv,
                    \/ BeginDevices \/ DescribeDevice \/ DescribeUnknown
                    \/ EndDevices \/ CallFails \/ OpenFails \/ Write
             PROVE  ProgressInv'
  OBVIOUS
<1>1. TypeOK /\ "devices" \in Loops
  BY DEF GInv, Loops
<1>2. CASE BeginDevices
  <2>1. Begin("devices", visible)
        /\ UNCHANGED <<matrix, refused, pairs, probes, devices>>
    BY <1>2 DEF BeginDevices, results
  <2>2. visible = LoopList("devices")
    BY <1>1, ListFacts
  <2> QED BY <2>1, <2>2, BeginP
<1>3. CASE DescribeDevice \/ DescribeUnknown
  <2>1. /\ InLoop("devices") /\ todo' = Tail(todo)
        /\ UNCHANGED <<opts, stage, open, exit, file, matrix, pairs, probes>>
        /\ devices' = Append(devices, Head(todo))
    BY <1>3 DEF DescribeDevice, DescribeUnknown
  <2>2. stage = "devices" /\ stage # "env" /\ stage # "fabric-smoke"
    BY <2>1 DEF InLoop
  <2>3. exit # 1
    BY <2>2 DEF ProgressInv
  <2>4. MatrixInv /\ PairsInv /\ DevicesInv
    BY <2>3 DEF ProgressInv
  <2>5. MatrixInv' /\ PairsInv'
    <3>1. \A s, n : s # "devices" /\ Behind(s, n) => Behind(s, n)'
      BY <2>1, <2>2, BehindSame
    <3>2. \A n : Behind("fabric-smoke", n) => Behind("fabric-smoke", n)'
      BY <3>1
    <3>3. Behind("env", Len(matrix)) => Behind("env", Len(matrix))'
      <4>1. PICK n : n = Len(matrix)
        OBVIOUS
      <4>2. Behind("env", n) => Behind("env", n)'
        BY <3>1
      <4> QED BY <4>1, <4>2, <2>1
    <3> QED BY <1>1, <2>1, <2>4, <3>2, <3>3, LoopsKept
  <2>6. DevicesInv'
    <3>1. PICK n : n = Len(devices)
      OBVIOUS
    <3>2. /\ n \in Nat /\ n + 1 \in 1 .. Len(visible) /\ Head(todo) = visible[n + 1]
          /\ Behind("devices", n + 1)'
      <4>1. Behind("devices", n) /\ LoopList("devices") = visible
        BY <1>1, <2>4, <3>1, ListFacts DEF DevicesInv
      <4> QED BY <1>1, <2>1, <4>1, BehindNext
    <3>3. /\ Len(devices') = n + 1 /\ DOMAIN devices = 1 .. n
          /\ DOMAIN devices' = 1 .. (n + 1)
          /\ \A j \in 1 .. n : devices'[j] = devices[j]
          /\ devices'[n + 1] = visible[n + 1]
      <4>1. visible[n + 1] \in Nat
        BY <1>1, <3>2, ListFacts
      <4>2. devices \in Seq(Nat)
        BY <1>1 DEF TypeOK
      <4> QED BY <2>1, <3>1, <3>2, <4>1, <4>2
    <3>4. ASSUME NEW j \in 1 .. (n + 1) PROVE devices'[j] = visible[j]
      <4>1. CASE j = n + 1
        BY <4>1, <3>3
      <4>2. CASE j \in 1 .. n
        BY <4>2, <3>3, <2>4 DEF DevicesInv
      <4> QED BY <4>1, <4>2, <3>2
    <3> QED BY <3>2, <3>3, <3>4 DEF DevicesInv
  <2> QED BY <2>1, <2>5, <2>6, WithinStage
<1>4. CASE EndDevices
  BY <1>1, <1>4, EndP DEF EndDevices
<1>5. CASE CallFails \/ OpenFails
  <2>1. stage # "stop" /\ \E why : Throw(why)
    BY <1>5 DEF CallFails, OpenFails
  <2> QED BY <2>1, ThrowP
<1>6. CASE Write
  <2>1. /\ stage = "write" /\ stage' = "stop" /\ exit' = 0 /\ exit # 1
        /\ UNCHANGED <<opts, open, todo, matrix, pairs, probes, devices>>
    BY <1>6 DEF Write, results, ProgressInv
  <2>2. MatrixInv /\ PairsInv /\ DevicesInv
        /\ probes = {p \in Probes : should_run(p) /\ p \in Earlier("write")}
    BY <2>1 DEF ProgressInv
  <2>3. ASSUME NEW s \in Loops, NEW n, Behind(s, n) PROVE Behind(s, n)'
    <3>1. /\ "write" \notin Earlier(s) /\ "write" # s
          /\ "stop" \notin Earlier(s) /\ "stop" # s
      BY Order DEF Loops, Probes, GpuProbes
    <3> QED BY <2>1, <2>3, <3>1, ListKept DEF Behind
  <2>4. "env" \in Loops /\ "fabric-smoke" \in Loops
    BY DEF Loops
  <2>5. MatrixInv' /\ PairsInv' /\ DevicesInv'
    <3>1. /\ Behind("env", Len(matrix)) => Behind("env", Len(matrix))'
          /\ Behind("devices", Len(devices)) => Behind("devices", Len(devices))'
      <4>1. PICK n, m : n = Len(matrix) /\ m = Len(devices)
        OBVIOUS
      <4>2. /\ Behind("env", n) => Behind("env", n)'
            /\ Behind("devices", m) => Behind("devices", m)'
        BY <1>1, <2>3, <2>4
      <4> QED BY <4>1, <4>2, <2>1
    <3> QED BY <1>1, <2>1, <2>2, <2>3, <2>4, <3>1, LoopsKept
  <2>6. probes' = {p \in Probes : should_run(p)'}
    <3>1. Probes \subseteq Earlier("write")
      BY Order
    <3> QED BY <2>1, <2>2, <3>1 DEF should_run
  <2> QED BY <2>1, <2>5, <2>6 DEF ProgressInv
<1> QED BY <1>2, <1>3, <1>4, <1>5, <1>6

-----------------------------------------------------------------------------
(* What the warnings say and what the ids have passed *)

\* Appending adds one value.
LEMMA RangeGrows ==
    ASSUME NEW S, NEW s \in Seq(S), NEW x \in S
    PROVE  Range(Append(s, x)) = Range(s) \cup {x}
<1>1. /\ Len(Append(s, x)) = Len(s) + 1 /\ Len(s) \in Nat
      /\ \A j \in 1 .. Len(s) : Append(s, x)[j] = s[j]
      /\ Append(s, x)[Len(s) + 1] = x
      /\ Append(s, x) \in Seq(S)
  OBVIOUS
<1>2. DOMAIN s = 1 .. Len(s) /\ DOMAIN Append(s, x) = 1 .. (Len(s) + 1)
  BY <1>1
<1>3. \A j : j \in 1 .. (Len(s) + 1) <=> (j \in 1 .. Len(s) \/ j = Len(s) + 1)
  BY <1>1
<1> QED BY <1>1, <1>2, <1>3, Zenon DEF Range

\* A step that is not about the warnings.
LEMMA WarnSame ==
    ASSUME WarnInv, UNCHANGED <<opts, exit, matrix, refused, warnings>>,
           FabricBegun' <=> FabricBegun
    PROVE  WarnInv'
<1>1. selected_gpus' = selected_gpus
  BY ListKept
<1>2. Range(warnings)' = Range(warnings)
  BY DEF Range
<1> QED BY <1>1, <1>2 DEF WarnInv

\* An end of a stage neither begins nor forgets fabric-smoke.
LEMMA BegunEnd ==
    ASSUME TypeOK, stage \in Probes \cup {"devices"}, End,
           stage = "fabric-smoke" => open
    PROVE  FabricBegun' <=> FabricBegun
<1>1. /\ stage \in AllStages /\ stage' \in AllStages
      /\ "fabric-smoke" \in AllStages /\ open' = FALSE
      /\ should_run("fabric-smoke")' <=> should_run("fabric-smoke")
  BY GoesOn DEF AllStages, Probes, End, should_run
<1>2. Earlier("fabric-smoke")' = Earlier("fabric-smoke")
  BY DEF Earlier, Place
<1> SUFFICES ASSUME should_run("fabric-smoke") PROVE FabricBegun' <=> FabricBegun
  BY <1>1 DEF FabricBegun
<1>3. CASE stage \in Earlier("fabric-smoke")
  <2>1. "fabric-smoke" \notin Earlier(stage) \cup {stage}
    BY <1>1, <1>3, Ordered
  <2>2. "fabric-smoke" \notin Earlier(stage')
    BY <2>1, GoesOn
  <2>3. stage' \in Earlier("fabric-smoke") \/ stage' = "fabric-smoke"
    BY <1>1, <2>2, Ordered
  <2> QED BY <1>1, <1>2, <1>3, <2>3 DEF FabricBegun
<1>4. CASE stage \notin Earlier("fabric-smoke")
  <2>1. "fabric-smoke" \in Earlier(stage) \cup {stage}
    BY <1>1, <1>4, Ordered
  <2>2. "fabric-smoke" \in Earlier(stage')
    BY <2>1, GoesOn
  <2>3. stage' \notin Earlier("fabric-smoke") /\ stage' # "fabric-smoke"
    BY <1>1, <2>2, Ordered
  <2> QED BY <1>1, <1>2, <1>4, <2>3 DEF FabricBegun
<1> QED BY <1>3, <1>4

\* Nothing is refused and nothing warned of at the beginning.
LEMMA InitW == Init => WarnInv /\ CheckedInv
<1> SUFFICES ASSUME Init PROVE WarnInv /\ CheckedInv
  OBVIOUS
<1>1. PICK j \in 1 .. 7 : /\ stage = Stages[j] /\ should_run(stage)
                          /\ \A l \in 1 .. (j - 1) : ~should_run(Stages[l])
  BY NextStage DEF Init
<1>2. stage \in AllStages /\ "fabric-smoke" \in AllStages
  <2>1. \A n : n \in 1 .. 7 <=> n \in {1, 2, 3, 4, 5, 6, 7}
    OBVIOUS
  <2> QED BY <1>1, <2>1 DEF AllStages, Stages, Probes, GpuProbes
<1>3. \A s \in Earlier(stage) : ~should_run(s)
  BY <1>1, Order DEF Earlier
<1>4. ~FabricBegun
  BY <1>2, <1>3, Ordered DEF FabricBegun, Init
<1>5. Range(warnings) = {} /\ matrix = <<>> /\ refused = {} /\ ~open
  BY DEF Init, Range
<1> QED BY <1>4, <1>5 DEF WarnInv, CheckedInv

\* The cells and the warnings of env.
LEMMA EnvW ==
    /\ GInv /\ ProgressInv /\ WarnInv
    /\ BeginEnv \/ QueryPair \/ QueryPairFails \/ EndEnv
    => WarnInv'
<1> SUFFICES ASSUME GInv, ProgressInv, WarnInv,
                    BeginEnv \/ QueryPair \/ QueryPairFails \/ EndEnv
             PROVE  WarnInv'
  OBVIOUS
<1>1. TypeOK
  BY DEF GInv
<1>2. stage = "env" /\ exit # 1
  <2>1. stage = "env"
    BY DEF BeginEnv, Begin, QueryPair, QueryPairFails, InLoop, EndEnv
  <2> QED BY <2>1 DEF ProgressInv
<1>3. CASE BeginEnv
  <2>1. FabricBegun' <=> FabricBegun
    BY <1>2, <1>3 DEF BeginEnv, Begin, FabricBegun, should_run, Earlier, Place
  <2>2. UNCHANGED <<opts, exit, matrix, refused, warnings>>
    BY <1>3 DEF BeginEnv, Begin, results
  <2> QED BY <2>1, <2>2, WarnSame
<1>4. CASE EndEnv
  <2>1. End /\ stage # "fabric-smoke" /\ stage \in Probes
        /\ UNCHANGED <<opts, exit, matrix, refused, warnings>>
    BY <1>2, <1>4 DEF EndEnv, End, Probes
  <2> QED BY <1>1, <2>1, BegunEnd, WarnSame
<1>5. CASE QueryPair \/ QueryPairFails
  <2>1. /\ UNCHANGED <<opts, stage, open, exit>>
        /\ todo # <<>> /\ open
    BY <1>5 DEF QueryPair, QueryPairFails, InLoop
  <2>2. ~FabricBegun /\ ~FabricBegun'
    <3>1. "env" \in Earlier("fabric-smoke")
      BY Order
    <3>2. Earlier("fabric-smoke")' = Earlier("fabric-smoke")
      BY DEF Earlier, Place
    <3> QED BY <1>2, <2>1, <3>1, <3>2 DEF FabricBegun
  <2>3. <<src, dst>> \in Pairs
    <3>1. todo \in Seq(Pairs)
      BY <1>1, <1>2, <2>1 DEF TypeOK
    <3>2. Head(todo) \in Pairs
      BY <2>1, <3>1
    <3> QED BY <3>2 DEF src, dst, Pairs
  <2>4. PICK can \in BOOLEAN :
           /\ matrix' = Append(matrix, <<src, dst, can>>)
           /\ src = dst => can
           /\ \/ refused' = refused /\ warnings' = warnings
              \/ /\ ~can
                 /\ refused' = refused \cup {<<src, dst>>}
                 /\ warnings' = Append(warnings, <<src, dst>>)
    <3>1. CASE QueryPair
      BY <3>1 DEF QueryPair
    <3>2. CASE QueryPairFails
      BY <3>2 DEF QueryPairFails
    <3> QED BY <1>5, <3>1, <3>2
  <2>5. PICK n : n = Len(matrix)
    OBVIOUS
  <2>6. /\ n \in Nat /\ DOMAIN matrix = 1 .. n /\ DOMAIN matrix' = 1 .. (n + 1)
        /\ \A j \in 1 .. n : matrix'[j] = matrix[j]
        /\ matrix'[n + 1] = <<src, dst, can>>
    <3>1. /\ matrix \in Seq(Nat \X Nat \X BOOLEAN)
          /\ <<src, dst, can>> \in Nat \X Nat \X BOOLEAN
      BY <1>1, <2>3 DEF TypeOK, Pairs
    <3> QED BY <2>4, <2>5, <3>1
  <2>7. \A j : j \in 1 .. (n + 1) <=> (j \in 1 .. n \/ j = n + 1)
    BY <2>6
  <2>8. \A j \in DOMAIN matrix' : matrix'[j][1] = matrix'[j][2] => matrix'[j][3]
    BY <1>2, <2>4, <2>6, <2>7 DEF WarnInv
  <2>9. \A p \in refused' : \E j \in DOMAIN matrix' :
           p = <<matrix'[j][1], matrix'[j][2]>> /\ ~matrix'[j][3]
    <3> SUFFICES ASSUME NEW p \in refused'
                 PROVE  \E j \in DOMAIN matrix' :
                           p = <<matrix'[j][1], matrix'[j][2]>> /\ ~matrix'[j][3]
      OBVIOUS
    <3>1. CASE p \in refused
      <4>1. PICK j \in DOMAIN matrix :
               p = <<matrix[j][1], matrix[j][2]>> /\ ~matrix[j][3]
        BY <1>2, <3>1 DEF WarnInv
      <4> QED BY <2>6, <2>7, <4>1
    <3>2. CASE p \notin refused
      <4>1. p = <<src, dst>> /\ ~can
        BY <2>4, <3>2
      <4> QED BY <2>6, <2>7, <4>1
    <3> QED BY <3>1, <3>2
  <2>10. Range(warnings') = refused'
    <3>1. Range(warnings) = refused
      BY <1>2, <2>2 DEF WarnInv
    <3>2. warnings \in Seq(Warnings) /\ <<src, dst>> \in Warnings
      BY <1>1, <2>3 DEF TypeOK, Warnings
    <3>3. Range(Append(warnings, <<src, dst>>)) = Range(warnings) \cup {<<src, dst>>}
      BY <3>2, RangeGrows
    <3> QED BY <2>4, <3>1, <3>3
  <2> QED BY <2>2, <2>8, <2>9, <2>10 DEF WarnInv
<1> QED BY <1>3, <1>4, <1>5

\* The other stages warn of nothing but the lack of GPUs.
LEMMA OtherW ==
    ASSUME GInv, ProgressInv, WarnInv, Next,
           ~(BeginEnv \/ QueryPair \/ QueryPairFails \/ EndEnv)
    PROVE  WarnInv'
<1>1. TypeOK /\ EarlyErrorInv
  BY DEF GInv
<1>2. CASE BeginFabric
  <2>1. /\ stage = "fabric-smoke" /\ ~open /\ open'
        /\ UNCHANGED <<opts, stage, exit, matrix, refused>>
        /\ warnings' = IF Len(selected_gpus) < 2 THEN Append(warnings, TooFew)
                                                 ELSE warnings
    BY <1>2 DEF BeginFabric, Begin
  <2>2. exit # 1 /\ should_run("fabric-smoke")
    BY <1>1, <2>1 DEF ProgressInv, EarlyErrorInv, Probes
  <2>3. stage \notin Earlier("fabric-smoke") /\ stage' \notin Earlier("fabric-smoke")'
    <3>1. "fabric-smoke" \notin Earlier("fabric-smoke")
      BY Order DEF GpuProbes
    <3>2. Earlier("fabric-smoke")' = Earlier("fabric-smoke")
      BY DEF Earlier, Place
    <3> QED BY <2>1, <3>1, <3>2
  <2>4. ~FabricBegun /\ FabricBegun'
    BY <2>1, <2>2, <2>3 DEF FabricBegun, should_run
  <2>5. selected_gpus' = selected_gpus
    BY <2>1, ListKept
  <2>6. Range(warnings) = refused
    BY <2>2, <2>4 DEF WarnInv
  <2>7. Range(warnings') = refused \cup
           (IF Len(selected_gpus) < 2 THEN {TooFew} ELSE {})
    <3>1. warnings \in Seq(Warnings) /\ TooFew \in Warnings
      BY <1>1 DEF TypeOK, Warnings
    <3>2. Range(Append(warnings, TooFew)) = Range(warnings) \cup {TooFew}
      BY <3>1, RangeGrows
    <3>3. CASE Len(selected_gpus) < 2
      BY <2>1, <2>6, <3>2, <3>3
    <3>4. CASE ~(Len(selected_gpus) < 2)
      BY <2>1, <2>6, <3>4
    <3> QED BY <3>3, <3>4
  <2>8. Range(warnings)' = Range(warnings')
    BY DEF Range
  <2>9. Range(warnings)' = refused' \cup
           (IF FabricBegun' /\ Len(selected_gpus') < 2 THEN {TooFew} ELSE {})
    BY <2>1, <2>4, <2>5, <2>7, <2>8
  <2>10. /\ \A j \in DOMAIN matrix' : matrix'[j][1] = matrix'[j][2] => matrix'[j][3]
         /\ \A p \in refused' : \E j \in DOMAIN matrix' :
               p = <<matrix'[j][1], matrix'[j][2]>> /\ ~matrix'[j][3]
    BY <2>1, <2>2 DEF WarnInv
  <2> QED BY <2>9, <2>10 DEF WarnInv
<1>3. CASE BeginKernels \/ BeginDevices
  <2>1. /\ UNCHANGED <<opts, stage, exit, matrix, refused, warnings>>
        /\ stage # "fabric-smoke"
    BY <1>3 DEF BeginKernels, BeginDevices, Begin, results, GpuProbes
  <2>2. FabricBegun' <=> FabricBegun
    BY <2>1 DEF FabricBegun, should_run, Earlier, Place
  <2> QED BY <2>1, <2>2, WarnSame
<1>4. CASE Kernels \/ EndFabric \/ EndDevices
  <2>1. /\ End /\ stage \in Probes \cup {"devices"} /\ open
        /\ UNCHANGED <<opts, exit, matrix, refused, warnings>>
    BY <1>4 DEF Kernels, EndFabric, EndDevices, End, Probes
  <2> QED BY <1>1, <2>1, BegunEnd, WarnSame
<1>5. CASE \/ SkipSelf \/ AccessQueryFails \/ NoAccess \/ EnableFails \/ Copy
           \/ DescribeDevice \/ DescribeUnknown
  <2>1. UNCHANGED <<opts, stage, open, exit, matrix, refused, warnings>>
    BY <1>5 DEF SkipSelf, AccessQueryFails, NoAccess, EnableFails, Copy, PairDone,
                DescribeDevice, DescribeUnknown, results
  <2>2. FabricBegun' <=> FabricBegun
    BY <2>1 DEF FabricBegun, should_run, Earlier, Place
  <2> QED BY <2>1, <2>2, WarnSame
<1>6. CASE \/ RejectGpu \/ LaunchFails \/ StaleErrorFound \/ RejectGpus
           \/ CallFails \/ OpenFails
  <2>1. exit' = 1
    BY <1>6 DEF RejectGpu, LaunchFails, StaleErrorFound, RejectGpus,
                CallFails, OpenFails, Throw
  <2> QED BY <2>1 DEF WarnInv
<1>7. CASE Write
  <2>1. /\ UNCHANGED <<opts, open, matrix, refused, warnings>>
        /\ stage = "write" /\ stage' = "stop" /\ exit # 1
    BY <1>7 DEF Write, results, ProgressInv
  <2>2. "write" \notin Earlier("fabric-smoke") /\ "stop" \notin Earlier("fabric-smoke")
    BY Order DEF GpuProbes
  <2>3. FabricBegun' <=> FabricBegun
    BY <2>1, <2>2 DEF FabricBegun, should_run, Earlier, Place
  <2>4. selected_gpus' = selected_gpus
    BY <2>1, ListKept
  <2>5. Range(warnings)' = Range(warnings)
    BY <2>1 DEF Range
  <2> QED BY <2>1, <2>3, <2>4, <2>5 DEF WarnInv
<1> QED BY <1>2, <1>3, <1>4, <1>5, <1>6, <1>7 DEF Next

\* No stage works on a GPU that is not there.
LEMMA StepC == GInv /\ CheckedInv /\ [Next]_vars => CheckedInv'
<1> SUFFICES ASSUME GInv, CheckedInv, [Next]_vars PROVE CheckedInv'
  OBVIOUS
<1>1. CASE UNCHANGED <<opts, stage, open>>
  BY <1>1 DEF CheckedInv
<1>2. CASE ~open' \/ stage' \notin GpuProbes \cup {"fabric-smoke"}
  BY <1>2 DEF CheckedInv
<1>3. CASE BeginKernels
  <2>1. stage' \in GpuProbes /\ opts' = opts /\ opts.gpu < NumGpus
    BY <1>3 DEF BeginKernels, Begin
  <2> QED BY <2>1 DEF CheckedInv, GpuProbes
<1>4. CASE BeginFabric
  <2>1. /\ stage' = "fabric-smoke" /\ opts' = opts
        /\ \A j \in DOMAIN opts.gpus : opts.gpus[j] < NumGpus
    BY <1>4 DEF BeginFabric, Begin
  <2> QED BY <2>1 DEF CheckedInv, GpuProbes
<1>5. CASE BeginEnv \/ BeginDevices
  <2>1. stage' \in {"env", "devices"}
    BY <1>5 DEF BeginEnv, BeginDevices, Begin
  <2> QED BY <1>2, <2>1 DEF GpuProbes
<1>6. CASE \/ EndEnv \/ Kernels \/ EndFabric \/ EndDevices
  BY <1>2, <1>6 DEF EndEnv, Kernels, EndFabric, EndDevices, End
<1>7. CASE \/ RejectGpu \/ LaunchFails \/ StaleErrorFound \/ RejectGpus
           \/ CallFails \/ OpenFails \/ Write
  <2>1. stage' = "stop"
    BY <1>7 DEF RejectGpu, LaunchFails, StaleErrorFound, RejectGpus,
                CallFails, OpenFails, Write, Throw
  <2> QED BY <1>2, <2>1 DEF GpuProbes
<1>8. CASE \/ QueryPair \/ QueryPairFails \/ SkipSelf \/ AccessQueryFails
           \/ NoAccess \/ EnableFails \/ Copy \/ DescribeDevice \/ DescribeUnknown
  BY <1>1, <1>8 DEF QueryPair, QueryPairFails, SkipSelf, AccessQueryFails, NoAccess,
                    EnableFails, Copy, PairDone, DescribeDevice, DescribeUnknown
<1>9. CASE UNCHANGED vars
  BY <1>1, <1>9 DEF vars
<1> QED BY <1>3, <1>4, <1>5, <1>6, <1>7, <1>8, <1>9 DEF Next

\* Every step keeps how far the run has come.
LEMMA StepP == GInv /\ ProgressInv /\ [Next]_vars => ProgressInv'
<1> SUFFICES ASSUME GInv, ProgressInv, [Next]_vars PROVE ProgressInv'
  OBVIOUS
<1>1. CASE UNCHANGED vars
  <2>1. UNCHANGED <<opts, stage, open, todo, matrix, pairs, devices, probes, exit, file>>
        /\ TypeOK
    BY <1>1 DEF vars, GInv
  <2>2. \A s, n : Behind(s, n) => Behind(s, n)'
    BY <2>1, BehindSame
  <2>3. /\ Behind("env", Len(matrix)) => Behind("env", Len(matrix))'
        /\ Behind("devices", Len(devices)) => Behind("devices", Len(devices))'
    <3>1. PICK n, m : n = Len(matrix) /\ m = Len(devices)
      OBVIOUS
    <3>2. /\ Behind("env", n) => Behind("env", n)'
          /\ Behind("devices", m) => Behind("devices", m)'
      BY <2>2
    <3> QED BY <3>1, <3>2, <2>1
  <2>4. exit # 1 => MatrixInv' /\ PairsInv' /\ DevicesInv'
    BY <2>1, <2>2, <2>3, LoopsKept DEF ProgressInv
  <2> QED BY <2>1, <2>4, WithinStage
<1> QED BY <1>1, EnvP, KernelsP, FabricP, ReportP DEF Next

\* RunInv is inductive: main keeps it through every stage.
THEOREM RunInvariance == Spec => []RunInv
<1>1. Init => RunInv
  BY InitG, InitP, InitW DEF RunInv
<1>2. RunInv /\ [Next]_vars => RunInv'
  <2> SUFFICES ASSUME GInv, ProgressInv, WarnInv, CheckedInv, [Next]_vars
               PROVE  GInv' /\ ProgressInv' /\ WarnInv' /\ CheckedInv'
    BY DEF RunInv
  <2>1. WarnInv'
    <3>1. CASE UNCHANGED vars
      <4>1. UNCHANGED <<opts, stage, open, exit, matrix, refused, warnings>>
        BY <3>1 DEF vars
      <4>2. FabricBegun' <=> FabricBegun
        BY <4>1 DEF FabricBegun, should_run, Earlier, Place
      <4> QED BY <4>1, <4>2, WarnSame
    <3> QED BY <3>1, EnvW, OtherW
  <2> QED BY <2>1, StepG, StepP, StepC
<1> QED BY <1>1, <1>2, PTL DEF Spec

\* A report leaves nothing out: no selected probe, no device, no cell and no pair.
THEOREM CompleteReport == Spec => []ReportComplete
<1>1. RunInv => ReportComplete
  <2> SUFFICES ASSUME RunInv, file # "old"
               PROVE  /\ exit = 0
                      /\ probes = {p \in Probes : should_run(p)}
                      /\ devices = visible
                      /\ "env" \in probes => Ids(matrix) = Grid(visible)
                      /\ "fabric-smoke" \in probes =>
                            Answered(Grid(selected_gpus), Len(Grid(selected_gpus)))
    BY DEF ReportComplete
  <2>1. TypeOK /\ exit = 0 /\ stage = "stop"
        /\ MatrixInv /\ PairsInv /\ DevicesInv
        /\ probes = {p \in Probes : should_run(p)}
    BY DEF RunInv, GInv, ProgressInv
  <2>2. ASSUME NEW s \in Loops, NEW n, Behind(s, n) PROVE n = Len(LoopList(s))
    <3>1. "stop" \notin Earlier(s) /\ "stop" # s
      BY Order DEF Loops, Probes, GpuProbes
    <3> QED BY <2>1, <2>2, <3>1 DEF Behind
  <2>3. "env" \in Loops /\ "fabric-smoke" \in Loops /\ "devices" \in Loops
    BY DEF Loops
  <2>4. devices = visible
    <3>1. Len(devices) = Len(visible)
      BY <2>1, <2>2, <2>3, ListFacts DEF DevicesInv
    <3>2. devices \in Seq(Nat) /\ visible \in Seq(Nat)
          /\ \A j \in DOMAIN devices : devices[j] = visible[j]
      BY <2>1, ListFacts DEF DevicesInv, TypeOK
    <3>3. \A j \in 1 .. Len(devices) : devices[j] = visible[j]
      BY <3>2
    <3> QED BY <3>1, <3>2, <3>3, SameSequence
  <2>5. ASSUME should_run("env") PROVE Ids(matrix) = Grid(visible)
    <3>1. Len(matrix) = Len(Grid(visible))
          /\ \A j \in DOMAIN matrix : Ids(matrix)[j] = Grid(visible)[j]
      BY <2>1, <2>2, <2>3, <2>5, ListFacts DEF MatrixInv
    <3>2. /\ Grid(visible) \in Seq(Pairs) /\ matrix \in Seq(Nat \X Nat \X BOOLEAN)
      BY <2>1, ListFacts DEF TypeOK
    <3>3. DOMAIN matrix = DOMAIN Grid(visible)
      BY <3>1, <3>2
    <3>4. /\ Ids(matrix) = [j \in DOMAIN matrix |-> Ids(matrix)[j]]
          /\ Grid(visible) = [j \in DOMAIN Grid(visible) |-> Grid(visible)[j]]
      BY <3>2 DEF Ids
    <3> QED BY <3>1, <3>3, <3>4
  <2>6. should_run("fabric-smoke") =>
          Answered(Grid(selected_gpus), Len(Grid(selected_gpus)))
    BY <2>1, <2>2, <2>3, ListFacts DEF PairsInv
  <2> QED BY <2>1, <2>4, <2>5, <2>6
<1> QED BY RunInvariance, <1>1, PTL

\* Only a query that failed in env, in a run of all probes, can make a later
\* launch check find an error that is not the launch's.
THEOREM StaleErrors == Spec => []StaleOnlyFromEnv
<1>1. RunInv => StaleOnlyFromEnv
  BY DEF RunInv, GInv, EarlyErrorInv, StaleOnlyFromEnv, GpuProbes
<1> QED BY RunInvariance, <1>1, PTL

\* Every variable keeps its type: a loop has a list of its own kind to go over.
THEOREM RunTypes == Spec => []TypeOK
<1>1. RunInv => TypeOK
  BY DEF RunInv, GInv
<1> QED BY RunInvariance, <1>1, PTL

\* Every query that failed has its warning.
THEOREM FailuresWarned == Spec => []RefusalsWarned
<1>1. RunInv => RefusalsWarned
  BY DEF RunInv, GInv
<1> QED BY RunInvariance, <1>1, PTL

\* Every copy between two GPUs had access enabled both ways.
THEOREM CopiesHadAccess == Spec => []CopiedWithAccess
<1>1. RunInv => CopiedWithAccess
  BY DEF RunInv, GInv
<1> QED BY RunInvariance, <1>1, PTL
-----------------------------------------------------------------------------
(* The run implements the report *)

\* The cell of two places of a list, and the places of a cell.
LEMMA GridCells ==
    ASSUME NEW list \in Seq(Nat)
    PROVE  LET n == Len(list)
           IN  /\ Len(Grid(list)) = n * n /\ n \in Nat
               /\ \A a, b \in 1 .. n :
                     /\ (a - 1) * n + b \in 1 .. (n * n)
                     /\ Grid(list)[(a - 1) * n + b] = <<list[a], list[b]>>
               /\ \A j \in 1 .. (n * n) : \E a, b \in 1 .. n :
                     j = (a - 1) * n + b
<1> DEFINE n == Len(list)
<1>1. n \in Nat /\ n * n \in Nat
  OBVIOUS
<1>2. Grid(list) = [j \in 1 .. (n * n) |-> <<list[((j - 1) \div n) + 1],
                                            list[((j - 1) % n) + 1]>>]
  BY DEF Grid
<1>3. \A j \in 1 .. (n * n) :
         Grid(list)[j] = <<list[((j - 1) \div n) + 1], list[((j - 1) % n) + 1]>>
  BY <1>2
<1>4. Len(Grid(list)) = n * n
  BY <1>1, <1>2
<1> HIDE DEF n
<1>5. ASSUME NEW a \in 1 .. n, NEW b \in 1 .. n
      PROVE  /\ (a - 1) * n + b \in 1 .. (n * n)
             /\ Grid(list)[(a - 1) * n + b] = <<list[a], list[b]>>
  <2>1. n \in Nat \ {0} /\ a - 1 \in 0 .. (n - 1) /\ b - 1 \in 0 .. (n - 1)
    BY <1>1
  <2>2. PICK q : q = a - 1
    OBVIOUS
  <2>3. n * 0 <= n * q /\ n * q <= n * (n - 1) /\ n * (n - 1) = n * n - n
    <3>1. q \in Int /\ n - 1 \in Int /\ 0 <= q /\ q <= n - 1 /\ 0 \in Int
      BY <2>1, <2>2
    <3>2. n * (n - 1) = n * n - n
      BY <1>1
    <3> QED BY <1>1, <3>1, <3>2, Monotone
  <2>4. /\ n * q \in Int /\ q * n = n * q /\ n * 0 = 0 /\ q \in Int
    BY <1>1, <2>1, <2>2
  <2>5. q * n + b \in 1 .. (n * n) /\ (q * n + b) - 1 = n * q + (b - 1)
    BY <1>1, <2>1, <2>3, <2>4
  <2>6. (n * q + (b - 1)) % n = b - 1 /\ (n * q + (b - 1)) \div n = q
    BY <2>1, <2>4, ModUnique
  <2>7. Grid(list)[q * n + b] = <<list[q + 1], list[(b - 1) + 1]>>
    BY <1>3, <2>5, <2>6
  <2>8. q + 1 = a /\ (b - 1) + 1 = b
    BY <2>1, <2>2
  <2> QED BY <2>2, <2>5, <2>7, <2>8
<1>6. ASSUME NEW j \in 1 .. (n * n)
      PROVE  \E a, b \in 1 .. n : j = (a - 1) * n + b
  <2>1. n \in Nat \ {0} /\ j - 1 \in Int /\ j \in Int
    <3>1. n # 0
      BY <1>1
    <3> QED BY <1>1, <3>1
  <2>2. PICK q, r : q = (j - 1) \div n /\ r = (j - 1) % n
    OBVIOUS
  <2>3. q \in Int /\ r \in 0 .. (n - 1) /\ j - 1 = n * q + r
    BY <2>1, <2>2, DivMod
  <2>4. q >= 0
    <3>1. CASE q <= -1
      <4>1. n * q <= n * (-1) /\ n * (-1) = -n
        BY <2>1, <2>3, <3>1, Monotone
      <4> QED BY <2>1, <2>3, <4>1
    <3> QED BY <2>3, <3>1
  <2>5. q < n
    <3>1. CASE q >= n
      <4>1. n * n <= n * q
        BY <2>1, <2>3, <3>1, Monotone
      <4> QED BY <1>1, <2>1, <2>3, <4>1
    <3> QED BY <2>1, <2>3, <3>1
  <2>6. q + 1 \in 1 .. n /\ r + 1 \in 1 .. n
    BY <2>1, <2>3, <2>4, <2>5
  <2>7. j = ((q + 1) - 1) * n + (r + 1)
    <3>1. (q + 1) - 1 = q /\ q * n = n * q /\ n * q \in Int
      BY <2>1, <2>3
    <3> QED BY <2>1, <2>3, <3>1
  <2> QED BY <2>6, <2>7
<1> QED BY <1>1, <1>4, <1>5, <1>6 DEF n

\* The lists and the request have their types.
LEMMA Typed ==
    ASSUME TypeOK
    PROVE  /\ NumGpus \in Nat \ {0} /\ Len(visible) = NumGpus
           /\ visible = Report!Listed
           /\ \A a \in 1 .. NumGpus : visible[a] = a - 1
           /\ visible \in Seq(Nat) /\ selected_gpus \in Seq(Nat)
           /\ opts.gpu \in Nat /\ opts.gpus \in Seq(Nat)
           /\ opts \in Requests
           /\ selected_gpus = Report!Selected
<1>1. visible \in Seq(Nat) /\ NumGpus \in Nat \ {0} /\ Len(visible) = NumGpus
  BY RequestAssumption DEF visible
<1>2. opts \in [probe : Probes \cup {"all"}, gpu : Nat, gpus : Seq(Nat)]
      /\ opts \in Requests
  BY RequestAssumption DEF TypeOK
<1>3. opts.gpu \in Nat /\ opts.gpus \in Seq(Nat)
  BY <1>2
<1>4. selected_gpus \in Seq(Nat)
  BY <1>1, <1>3 DEF selected_gpus
<1>5. visible = Report!Listed
  BY DEF visible, Report!Listed
<1>6. \A a \in 1 .. NumGpus : visible[a] = a - 1
  BY DEF visible
<1> QED BY <1>1, <1>2, <1>3, <1>4, <1>5, <1>6 DEF selected_gpus, Report!Selected

\* What a run that goes on has made: nothing of the stage it is in or of a later
\* one.
LEMMA NotMade ==
    ASSUME GInv, ProgressInv, exit # 1, stage \in AllStages
    PROVE  /\ stage \notin probes
           /\ stage = "env" => probes = {}
           /\ "fabric-smoke" \in probes => FabricBegun /\ stage # "fabric-smoke"
           /\ outcomeOf = "none" /\ exit = -1
           /\ probes = {p \in Probes : should_run(p) /\ p \in Earlier(stage)}
<1>1. stage # "stop" /\ exit = -1
  BY DEF ProgressInv, AllStages, Probes, GpuProbes
<1>2. probes = {p \in Probes : should_run(p) /\ p \in Earlier(stage)}
  BY <1>1 DEF ProgressInv
<1>3. stage \notin Earlier(stage)
  BY Ordered
<1>4. stage = "env" => probes = {}
  BY <1>2, Order
<1>5. ASSUME "fabric-smoke" \in probes
      PROVE  FabricBegun /\ stage # "fabric-smoke"
  <2>1. should_run("fabric-smoke") /\ "fabric-smoke" \in Earlier(stage)
    BY <1>2, <1>5
  <2>2. stage # "fabric-smoke" /\ stage \notin Earlier("fabric-smoke")
    BY <2>1, Ordered DEF AllStages, Probes
  <2> QED BY <2>1, <2>2 DEF FabricBegun
<1>6. outcomeOf = "none"
  BY <1>1 DEF outcomeOf
<1> QED BY <1>1, <1>2, <1>3, <1>4, <1>5, <1>6

\* A warning about a pair is not the one about the number of GPUs.
LEMMA NoPair == TooFew \notin Pairs
<1>1. Len(TooFew) = 1
  BY DEF TooFew
<1>2. \A p \in Pairs : Len(p) = 2
  BY DEF Pairs
<1> QED BY <1>1, <1>2

\* The outcomes are read from the list of GPUs and the results.
LEMMA CopiesSame ==
    ASSUME UNCHANGED opts, Kept("fabric-smoke")' <=> Kept("fabric-smoke"),
           Kept("fabric-smoke") => pairs' = pairs
    PROVE  copiesOf' = copiesOf
<1>1. CASE ~Kept("fabric-smoke")
  BY <1>1 DEF copiesOf
<1>2. CASE Kept("fabric-smoke")
  <2>1. PICK list, ps : list = selected_gpus /\ ps = pairs
    OBVIOUS
  <2>2. list = selected_gpus' /\ ps = pairs'
    BY <1>2, <2>1, ListKept
  <2> DEFINE of(l, q) ==
        LET n == Len(l)
            grid == Grid(l)
        IN  [p \in {p \in (1 .. n) \X (1 .. n) : l[p[1]] # l[p[2]]} |->
               q[Cardinality(Apart(grid, (p[1] - 1) * n + p[2]))][3]]
  <2>3. copiesOf = of(selected_gpus, pairs)
    BY ONLY <1>2 DEF copiesOf
  <2>4. copiesOf' = of(selected_gpus', pairs')
    BY ONLY <1>2, Kept("fabric-smoke")' <=> Kept("fabric-smoke")
       DEF copiesOf, Grid, Apart
  <2>5. of(selected_gpus, pairs) = of(list, ps)
    BY ONLY <2>1
  <2>6. of(selected_gpus', pairs') = of(list, ps)
    BY ONLY <2>2
  <2> HIDE DEF of
  <2> QED BY ONLY <2>3, <2>4, <2>5, <2>6
<1> QED BY <1>1, <1>2

\* What happens within a stage is not seen in the report.
LEMMA Unseen ==
    ASSUME GInv, ProgressInv, stage \in AllStages, exit # 1,
           UNCHANGED <<opts, stage, probes, exit, file>>,
           stage # "env" => UNCHANGED <<matrix, refused>>,
           stage # "fabric-smoke" => UNCHANGED pairs,
           stage # "devices" => UNCHANGED devices,
           stage # "env" =>
             Range(warnings') \ {TooFew} = Range(warnings) \ {TooFew},
           stage \notin {"env", "fabric-smoke"} => UNCHANGED warnings
    PROVE  UNCHANGED Report!vars
<1>1. /\ stage = "env" => ~Kept("env") /\ ~Kept("fabric-smoke")
      /\ stage = "fabric-smoke" => ~Kept("fabric-smoke")
      /\ stage = "devices" => ~Described
  BY NotMade DEF Kept, Described
<1>2. /\ \A p : Kept(p)' <=> Kept(p)
      /\ Described' <=> Described
  BY DEF Kept, Described
<1>3. doneOf' = doneOf /\ outcomeOf' = outcomeOf
  BY <1>2 DEF doneOf, outcomeOf
<1>4. accessOf' = accessOf /\ refusedOf' = refusedOf
  BY <1>1, <1>2 DEF accessOf, refusedOf
<1>5. copiesOf' = copiesOf
  BY <1>1, <1>2, CopiesSame
<1>6. devicesOf' = devicesOf
  BY <1>1, <1>2 DEF devicesOf
<1>7. warningsOf' = warningsOf
  <2>1. Range(warnings)' = Range(warnings')
    BY DEF Range
  <2>2. CASE stage = "env"
    BY <1>1, <1>2, <2>2 DEF warningsOf
  <2>3. CASE stage = "fabric-smoke"
    BY <1>1, <1>2, <2>1, <2>3 DEF warningsOf
  <2>4. CASE stage \notin {"env", "fabric-smoke"}
    BY <1>1, <1>2, <2>1, <2>4 DEF warningsOf
  <2> QED BY <2>2, <2>3, <2>4
<1> QED BY <1>3, <1>4, <1>5, <1>6, <1>7 DEF Report!vars

\* An exception is a report that fails.
LEMMA ThrowR ==
    ASSUME ProgressInv, stage \in AllStages, NEW why, Throw(why)
    PROVE  Report!Fail
<1>1. exit = -1 /\ exit' = 1 /\ opts' = opts
  BY DEF Throw, ProgressInv, AllStages, Probes, GpuProbes
<1>2. outcomeOf = "none" /\ outcomeOf' = "failed"
  BY <1>1 DEF outcomeOf
<1>3. ~Kept("env")' /\ ~Kept("fabric-smoke")' /\ ~Described'
  BY <1>1 DEF Kept, Described
<1>4. /\ doneOf' = {} /\ accessOf' = <<>> /\ refusedOf' = {} /\ copiesOf' = <<>>
      /\ devicesOf' = <<>> /\ warningsOf' = {}
  BY <1>1, <1>3 DEF doneOf, accessOf, refusedOf, copiesOf, devicesOf, warningsOf
<1> QED BY <1>1, <1>2, <1>4 DEF Report!Fail

\* The end of a stage makes its section, the next of those asked for.
LEMMA MakeR ==
    ASSUME GInv, ProgressInv, stage \in Probes \cup {"devices"}, End
    PROVE  /\ Report!Make(stage)
           /\ exit = -1 /\ exit' = -1 /\ ~Described
           /\ Described' <=> stage = "devices"
           /\ \A p : Kept(p)' <=> Kept(p) \/ (p = stage /\ p \in Probes)
<1>1. /\ UNCHANGED <<opts, exit, file>> /\ stage \in AllStages /\ stage # "stop"
      /\ probes' = probes \cup ({stage} \cap Probes)
  BY DEF End, AllStages, Probes, GpuProbes
<1>2. exit = -1 /\ exit' = -1 /\ exit # 1 /\ exit' # 1
  BY <1>1 DEF ProgressInv
<1>3. /\ stage \notin probes /\ outcomeOf = "none"
      /\ probes = {p \in Probes : should_run(p) /\ p \in Earlier(stage)}
  BY <1>1, <1>2, NotMade
<1>4. stage \notin {"write", "stop"}
  BY DEF Probes, GpuProbes
<1>5. stage' \in {"write", "stop"} <=> stage = "devices"
  <2>1. /\ stage' \in Probes \cup {"devices", "write"}
        /\ stage' \notin Earlier(stage) \cup {stage}
        /\ \A s \in Earlier(stage') :
              s = stage \/ s \in Earlier(stage) \/ ~should_run(s)
    BY GoesOn
  <2>2. CASE stage = "devices"
    BY <2>1, <2>2, Order
  <2>3. CASE stage # "devices"
    <3>1. stage \in Earlier("devices")
      BY <2>3, Order
    <3>2. "devices" \notin Earlier(stage)
      BY <1>1, <3>1, Ordered DEF AllStages
    <3>3. stage' # "write"
      BY <2>1, <2>3, <3>2, Order DEF should_run
    <3> QED BY <2>1, <2>3, <3>3 DEF Probes, GpuProbes
  <2> QED BY <2>2, <2>3
<1>6. ~Described /\ (Described' <=> stage = "devices")
  BY <1>2, <1>4, <1>5 DEF Described
<1>7. \A p : Kept(p)' <=> Kept(p) \/ (p = stage /\ p \in Probes)
  BY <1>1, <1>2 DEF Kept
<1>8. doneOf = probes /\ doneOf' = probes \cup {stage}
  <2>1. doneOf = probes
    BY <1>2, <1>6 DEF doneOf
  <2>2. doneOf' = probes' \cup (IF stage = "devices" THEN {"devices"} ELSE {})
    BY <1>2, <1>6 DEF doneOf
  <2>3. "devices" \notin Probes
    BY DEF Probes, GpuProbes
  <2> QED BY <1>1, <2>1, <2>2, <2>3
<1>9. outcomeOf' = outcomeOf
  BY <1>1 DEF outcomeOf
<1>10. Report!Asked(stage)
  BY DEF GInv, EarlyErrorInv, should_run, Report!Asked, Probes, GpuProbes
<1>11. \E n \in DOMAIN Report!Order :
          /\ stage = Report!Order[n]
          /\ probes = {Report!Order[m] : m \in {m \in 1 .. (n - 1) :
                                                  Report!Asked(Report!Order[m])}}
  <2>1. DOMAIN Report!Order = 1 .. 6 /\ \A m \in 1 .. 6 : Report!Order[m] = Stages[m]
    <3>1. \A m : m \in 1 .. 6 <=> m \in {1, 2, 3, 4, 5, 6}
      OBVIOUS
    <3> QED BY <3>1 DEF Report!Order, Stages
  <2>2. \A m : m \in 1 .. 6 <=> m \in {1, 2, 3, 4, 5, 6}
    OBVIOUS
  <2>3. PICK n \in 1 .. 6 : stage = Stages[n]
    BY <2>2 DEF Stages, Probes, GpuProbes
  <2>4. Earlier(stage) = {Stages[m] : m \in 1 .. (n - 1)}
    <3>1. Place(stage) = n
      BY <2>3, Order
    <3> QED BY <3>1 DEF Earlier
  <2>5. \A m \in 1 .. (n - 1) : /\ m \in 1 .. 6 /\ m \in 1 .. 5
    BY <2>3
  <2>6. \A m \in 1 .. 5 : /\ Stages[m] \in Probes
                          /\ should_run(Stages[m]) <=> Report!Asked(Stages[m])
    <3>1. \A m : m \in 1 .. 5 <=> m \in {1, 2, 3, 4, 5}
      OBVIOUS
    <3>2. \A m \in 1 .. 5 : Stages[m] \in Probes
      BY <3>1 DEF Stages, Probes, GpuProbes
    <3>3. \A p \in Probes : should_run(p) <=> Report!Asked(p)
      BY DEF should_run, Report!Asked, Probes, GpuProbes
    <3> QED BY <3>2, <3>3
  <2>7. probes = {Stages[m] : m \in {m \in 1 .. (n - 1) :
                                        Report!Asked(Stages[m])}}
    BY <1>3, <2>4, <2>5, <2>6
  <2>8. {Stages[m] : m \in {m \in 1 .. (n - 1) : Report!Asked(Stages[m])}} =
        {Report!Order[m] : m \in {m \in 1 .. (n - 1) :
                                     Report!Asked(Report!Order[m])}}
    BY <2>1, <2>5
  <2> QED BY <2>1, <2>3, <2>7, <2>8
<1>12. Report!Make(stage)
  BY <1>1, <1>3, <1>8, <1>9, <1>10, <1>11 DEF Report!Make
<1> QED BY <1>2, <1>6, <1>7, <1>12

\* What the end of a stage leaves as it was.
LEMMA EndKeeps ==
    ASSUME GInv, ProgressInv, stage \in Probes \cup {"devices"}, End
    PROVE  /\ stage # "env" => UNCHANGED <<accessOf, refusedOf>>
           /\ stage # "fabric-smoke" => UNCHANGED copiesOf
           /\ stage # "devices" => UNCHANGED devicesOf
           /\ stage \notin {"env", "fabric-smoke"} => UNCHANGED warningsOf
<1>1. UNCHANGED <<opts, matrix, refused, pairs, warnings, devices>>
  BY DEF End
<1>2. /\ stage # "env" => (Kept("env")' <=> Kept("env"))
      /\ stage # "fabric-smoke" => (Kept("fabric-smoke")' <=> Kept("fabric-smoke"))
      /\ stage # "devices" => (Described' <=> Described)
  BY MakeR
<1>4. stage # "env" => accessOf' = accessOf /\ refusedOf' = refusedOf
  BY <1>1, <1>2 DEF accessOf, refusedOf
<1>5. stage # "fabric-smoke" => copiesOf' = copiesOf
  <2> SUFFICES ASSUME stage # "fabric-smoke" PROVE copiesOf' = copiesOf
    OBVIOUS
  <2>1. Kept("fabric-smoke")' <=> Kept("fabric-smoke")
    BY <1>2
  <2> QED BY ONLY <1>1, <2>1, CopiesSame
<1>6. stage # "devices" => devicesOf' = devicesOf
  BY <1>1, <1>2 DEF devicesOf
<1>7. stage \notin {"env", "fabric-smoke"} => warningsOf' = warningsOf
  BY <1>1, <1>2 DEF warningsOf, Range
<1> QED BY <1>4, <1>5, <1>6, <1>7

\* The warnings, taken apart.
LEMMA Causes ==
    ASSUME GInv, WarnInv, exit # 1
    PROVE  /\ Range(warnings) \ {TooFew} = refused
           /\ Range(warnings) \cap {TooFew} =
                (IF FabricBegun /\ Len(selected_gpus) < 2 THEN {TooFew} ELSE {})
<1>1. refused \subseteq Pairs
  BY DEF GInv, TypeOK
<1>2. TooFew \notin refused
  BY <1>1, NoPair
<1>3. Range(warnings) = refused \cup
         (IF FabricBegun /\ Len(selected_gpus) < 2 THEN {TooFew} ELSE {})
  BY DEF WarnInv
<1> QED BY <1>2, <1>3

\* The end of env: a whole table, and a warning for every guess.
LEMMA EnvR ==
    ASSUME RunInv, EndEnv
    PROVE  Report!Env
<1> DEFINE N == NumGpus
<1>1. /\ GInv /\ ProgressInv /\ WarnInv /\ TypeOK
      /\ stage = "env" /\ open /\ todo = <<>> /\ End
      /\ stage \in Probes \cup {"devices"} /\ stage \in Probes
  BY DEF RunInv, GInv, EndEnv, Probes
<1>2. /\ Report!Make("env") /\ exit # 1 /\ ~Kept("env") /\ Kept("env")'
      /\ ~Kept("fabric-smoke") /\ ~Kept("fabric-smoke")'
      /\ UNCHANGED <<copiesOf, devicesOf>>
  <2>1. exit # 1 /\ stage \in AllStages
    BY <1>1, MakeR DEF AllStages
  <2>2. probes = {}
    BY <1>1, <2>1, NotMade
  <2>3. ~Kept("env") /\ ~Kept("fabric-smoke")
    BY <2>2 DEF Kept
  <2>4. Kept("env")' /\ ~Kept("fabric-smoke")'
    BY <1>1, <2>3, MakeR
  <2>5. UNCHANGED <<copiesOf, devicesOf>>
    BY <1>1, EndKeeps
  <2> QED BY <1>1, <2>1, <2>3, <2>4, <2>5, MakeR
<1>3. UNCHANGED <<opts, matrix, refused, warnings>>
  BY <1>1 DEF End
<1>4. /\ N \in Nat \ {0} /\ Len(visible) = N /\ visible \in Seq(Nat)
      /\ \A a \in 1 .. N : visible[a] = a - 1
  BY <1>1, Typed
<1>5. /\ Len(matrix) = N * N /\ DOMAIN matrix = 1 .. (N * N)
      /\ matrix \in Seq(Nat \X Nat \X BOOLEAN)
      /\ \A j \in 1 .. (N * N) : <<matrix[j][1], matrix[j][2]>> = Grid(visible)[j]
  <2>1. should_run("env") /\ MatrixInv
    BY <1>1, <1>2 DEF ProgressInv, GInv, EarlyErrorInv
  <2>2. PICK n : n = Len(matrix)
    OBVIOUS
  <2>3. Behind("env", n) /\ Grid(visible) = LoopList("env")
        /\ Grid(visible) \in Seq(Pairs)
    BY <1>1, <2>1, <2>2, ListFacts DEF MatrixInv
  <2>4. "env" \notin Earlier("env")
    BY Order
  <2>5. /\ n \in 0 .. Len(Grid(visible))
        /\ <<>> = SubSeq(Grid(visible), n + 1, Len(Grid(visible)))
    BY <1>1, <2>3, <2>4 DEF Behind
  <2>6. n = Len(Grid(visible))
    BY <2>3, <2>5, Rest
  <2>7. n = N * N
    BY <1>4, <2>6, GridCells
  <2>8. matrix \in Seq(Nat \X Nat \X BOOLEAN) /\ DOMAIN matrix = 1 .. Len(matrix)
    BY <1>1 DEF TypeOK
  <2>9. \A j \in DOMAIN matrix : <<matrix[j][1], matrix[j][2]>> = Grid(visible)[j]
    BY <2>1 DEF MatrixInv, Ids
  <2> QED BY <2>2, <2>7, <2>8, <2>9
<1>6. ASSUME NEW a \in 0 .. (N - 1), NEW b \in 0 .. (N - 1)
      PROVE  /\ a * N + b + 1 \in 1 .. (N * N)
             /\ Grid(visible)[a * N + b + 1] = <<a, b>>
  <2>1. /\ a + 1 \in 1 .. N /\ b + 1 \in 1 .. N
        /\ ((a + 1) - 1) * N + (b + 1) = a * N + b + 1
    <3>1. (a + 1) - 1 = a /\ a * N \in Int
      BY <1>4
    <3> QED BY <1>4, <3>1
  <2>2. /\ ((a + 1) - 1) * N + (b + 1) \in 1 .. (N * N)
        /\ Grid(visible)[((a + 1) - 1) * N + (b + 1)] =
             <<visible[a + 1], visible[b + 1]>>
    BY <1>4, <2>1, GridCells
  <2>3. visible[a + 1] = a /\ visible[b + 1] = b
    BY <1>4, <2>1
  <2> QED BY <2>1, <2>2, <2>3
<1>7. /\ accessOf' = [p \in (0 .. (N - 1)) \X (0 .. (N - 1)) |->
                        matrix[p[1] * N + p[2] + 1][3]]
      /\ refusedOf' = refused
  BY <1>2, <1>3 DEF accessOf, refusedOf
<1>8. Report!Gpus = 0 .. (N - 1)
  BY DEF Report!Gpus
<1>9. accessOf' \in [Report!Gpus \X Report!Gpus -> BOOLEAN]
  <2>1. \A p \in (0 .. (N - 1)) \X (0 .. (N - 1)) :
           matrix[p[1] * N + p[2] + 1][3] \in BOOLEAN
    <3> SUFFICES ASSUME NEW a \in 0 .. (N - 1), NEW b \in 0 .. (N - 1)
                 PROVE  matrix[a * N + b + 1][3] \in BOOLEAN
      OBVIOUS
    <3>1. matrix[a * N + b + 1] \in Nat \X Nat \X BOOLEAN
      BY <1>5, <1>6
    <3> QED BY <3>1
  <2> HIDE DEF N
  <2> QED BY <1>7, <1>8, <2>1
<1>10. \A g \in Report!Gpus : accessOf'[<<g, g>>]
  <2> SUFFICES ASSUME NEW g \in 0 .. (N - 1) PROVE accessOf'[<<g, g>>]
    BY <1>8
  <2>1. accessOf'[<<g, g>>] = matrix[g * N + g + 1][3]
    BY <1>7
  <2>2. g * N + g + 1 \in DOMAIN matrix
        /\ <<matrix[g * N + g + 1][1], matrix[g * N + g + 1][2]>> = <<g, g>>
    BY <1>5, <1>6
  <2>3. matrix[g * N + g + 1][1] = matrix[g * N + g + 1][2]
    BY <2>2
  <2>4. matrix[g * N + g + 1][3]
    BY <1>1, <1>2, <2>2, <2>3 DEF WarnInv
  <2> QED BY <2>1, <2>4
<1>11. refusedOf' \subseteq {p \in Report!Gpus \X Report!Gpus : ~accessOf'[p]}
  <2> SUFFICES ASSUME NEW p \in refused
               PROVE  p \in (0 .. (N - 1)) \X (0 .. (N - 1)) /\ ~accessOf'[p]
    BY <1>7, <1>8
  <2>1. PICK j \in DOMAIN matrix :
           p = <<matrix[j][1], matrix[j][2]>> /\ ~matrix[j][3]
    BY <1>1, <1>2 DEF WarnInv
  <2>2. j \in 1 .. (N * N) /\ p = Grid(visible)[j]
    BY <1>5, <2>1
  <2>3. PICK a \in 1 .. N, b \in 1 .. N : j = (a - 1) * N + b
    BY <1>4, <2>2, GridCells
  <2>4. /\ a - 1 \in 0 .. (N - 1) /\ b - 1 \in 0 .. (N - 1)
        /\ (a - 1) * N + (b - 1) + 1 = j
    <3>1. (a - 1) * N \in Int /\ a \in Int /\ b \in Int
      BY <1>4
    <3> QED BY <1>4, <2>3, <3>1
  <2>5. p = <<a - 1, b - 1>>
    BY <1>6, <2>2, <2>4
  <2>6. accessOf'[<<a - 1, b - 1>>] = matrix[(a - 1) * N + (b - 1) + 1][3]
    <3>1. <<a - 1, b - 1>> \in (0 .. (N - 1)) \X (0 .. (N - 1))
      BY <2>4
    <3>2. <<a - 1, b - 1>>[1] = a - 1 /\ <<a - 1, b - 1>>[2] = b - 1
      OBVIOUS
    <3> HIDE DEF N
    <3> QED BY <1>7, <3>1, <3>2
  <2> QED BY <2>1, <2>4, <2>5, <2>6
<1>12. warningsOf = {} /\ warningsOf' = refused
  <2>1. warningsOf = {}
    BY <1>2 DEF warningsOf
  <2>2. Range(warnings)' = Range(warnings)
    BY <1>3 DEF Range
  <2>3. warningsOf' = Range(warnings) \ {TooFew}
    BY <1>2, <2>2 DEF warningsOf
  <2> QED BY <1>1, <1>2, <2>1, <2>3, Causes
<1>13. warningsOf' = warningsOf \cup refusedOf'
  BY <1>7, <1>12
<1> QED BY <1>2, <1>9, <1>10, <1>11, <1>13 DEF Report!Env

\* The end of a kernel probe: its GPU was one of the machine's.
LEMMA KernelsR ==
    ASSUME RunInv, Kernels
    PROVE  Report!Kernels
<1>1. /\ GInv /\ ProgressInv /\ TypeOK /\ CheckedInv
      /\ stage \in GpuProbes /\ open /\ End
      /\ stage \in Probes \cup {"devices"}
  BY DEF RunInv, GInv, Kernels, Probes
<1>2. Report!Make(stage)
  BY <1>1, MakeR
<1>3. UNCHANGED <<accessOf, refusedOf, copiesOf, devicesOf, warningsOf>>
  BY <1>1, EndKeeps DEF GpuProbes
<1>4. opts.gpu \in Report!Gpus
  <2>1. opts.gpu \in Nat /\ NumGpus \in Nat \ {0}
    BY <1>1, Typed
  <2>2. opts.gpu < NumGpus
    BY <1>1 DEF CheckedInv
  <2> QED BY <2>1, <2>2 DEF Report!Gpus
<1> QED BY <1>1, <1>2, <1>3, <1>4 DEF Report!Kernels, GpuProbes

\* The end of fabric-smoke: an outcome for every ordered pair.
LEMMA FabricR ==
    ASSUME RunInv, EndFabric
    PROVE  Report!FabricSmoke
<1> DEFINE n == Len(selected_gpus)
           grid == Grid(selected_gpus)
           places == {p \in (1 .. n) \X (1 .. n) :
                        selected_gpus[p[1]] # selected_gpus[p[2]]}
<1>1. /\ GInv /\ ProgressInv /\ WarnInv /\ CheckedInv /\ TypeOK
      /\ stage = "fabric-smoke" /\ open /\ todo = <<>> /\ End
      /\ stage \in Probes \cup {"devices"} /\ stage \in Probes
  BY DEF RunInv, GInv, EndFabric, Probes
<1>2. /\ Report!Make("fabric-smoke") /\ exit = -1 /\ exit # 1 /\ exit' # 1
      /\ ~Kept("fabric-smoke") /\ Kept("fabric-smoke")'
      /\ Kept("env")' <=> Kept("env")
      /\ UNCHANGED <<accessOf, refusedOf, devicesOf>>
      /\ should_run("fabric-smoke")
  <2>1. exit = -1 /\ exit' = -1 /\ exit # 1 /\ stage \in AllStages
    BY <1>1, MakeR DEF AllStages
  <2>2. "fabric-smoke" \notin probes
    BY <1>1, <2>1, NotMade
  <2>3. ~Kept("fabric-smoke")
    BY <2>2 DEF Kept
  <2>4. Kept("fabric-smoke")' /\ (Kept("env")' <=> Kept("env"))
    BY <1>1, MakeR
  <2>5. UNCHANGED <<accessOf, refusedOf, devicesOf>>
    BY <1>1, EndKeeps
  <2>6. should_run("fabric-smoke")
    BY <1>1 DEF GInv, EarlyErrorInv
  <2>7. Report!Make("fabric-smoke")
    BY <1>1, MakeR
  <2> QED BY <2>1, <2>3, <2>4, <2>5, <2>6, <2>7
<1>3. UNCHANGED <<opts, pairs, warnings>> /\ selected_gpus' = selected_gpus
  BY <1>1, ListKept DEF End
<1>4. n \in Nat /\ selected_gpus \in Seq(Nat) /\ selected_gpus = Report!Selected
      /\ Len(grid) = n * n /\ n * n \in Nat
  BY <1>1, Typed, GridCells
<1>5. Answered(grid, n * n)
  <2>1. PICK m : Behind("fabric-smoke", m) /\ Answered(grid, m)
    <3>1. PairsInv
      BY <1>1, <1>2 DEF ProgressInv
    <3> QED BY <1>2, <3>1 DEF PairsInv
  <2>2. "fabric-smoke" \notin Earlier("fabric-smoke")
    BY Order DEF GpuProbes
  <2>3. LoopList("fabric-smoke") = grid /\ grid \in Seq(Pairs)
    BY <1>1, ListFacts
  <2> HIDE DEF grid
  <2>4. m \in 0 .. Len(grid) /\ <<>> = SubSeq(grid, m + 1, Len(grid))
    BY <1>1, <2>1, <2>2, <2>3 DEF Behind
  <2>5. m = Len(grid)
    BY <2>3, <2>4, Rest
  <2> QED BY <1>4, <2>1, <2>5
<1>6. ASSUME NEW a \in 1 .. n, NEW b \in 1 .. n, selected_gpus[a] # selected_gpus[b]
      PROVE  pairs[Cardinality(Apart(grid, (a - 1) * n + b))][3] \in {"ok", "failed"}
  <2>1. PICK j : j = (a - 1) * n + b
    OBVIOUS
  <2>2. j \in 1 .. (n * n) /\ grid[j] = <<selected_gpus[a], selected_gpus[b]>>
    BY <1>4, <2>1, GridCells
  <2>3. grid[j][1] # grid[j][2]
    BY <1>6, <2>2
  <2> HIDE DEF grid
  <2>4. j \in Apart(grid, n * n)
    BY <2>2, <2>3 DEF Apart
  <2>5. Cardinality(Apart(grid, j)) \in 1 .. Cardinality(Apart(grid, n * n))
    BY <1>4, <2>4, ApartFacts
  <2>6. Cardinality(Apart(grid, j)) \in 1 .. Len(pairs)
    BY <1>5, <2>5 DEF Answered
  <2>7. pairs \in Seq(Nat \X Nat \X {"ok", "failed"})
    BY <1>1 DEF TypeOK
  <2>8. pairs[Cardinality(Apart(grid, j))] \in Nat \X Nat \X {"ok", "failed"}
    BY <2>6, <2>7
  <2> QED BY <2>1, <2>8
<1>7. copiesOf' = [p \in places |->
                     pairs[Cardinality(Apart(grid, (p[1] - 1) * n + p[2]))][3]]
  <2>1. copiesOf' = LET m == Len(selected_gpus')
                        g == Grid(selected_gpus')
                    IN  [p \in {p \in (1 .. m) \X (1 .. m) :
                                  selected_gpus'[p[1]] # selected_gpus'[p[2]]} |->
                           pairs'[Cardinality(Apart(g, (p[1] - 1) * m + p[2]))][3]]
    BY <1>2 DEF copiesOf, Grid, Apart
  <2> QED BY <1>3, <2>1
<1>8. places = Report!PairsOfPlaces
  BY <1>4 DEF Report!PairsOfPlaces
<1>9. copiesOf' \in [Report!PairsOfPlaces -> {"ok", "failed"}]
  <2>1. \A p \in places :
           pairs[Cardinality(Apart(grid, (p[1] - 1) * n + p[2]))][3] \in {"ok", "failed"}
    <3> SUFFICES ASSUME NEW p \in places
                 PROVE  pairs[Cardinality(Apart(grid, (p[1] - 1) * n + p[2]))][3]
                          \in {"ok", "failed"}
      OBVIOUS
    <3>1. p[1] \in 1 .. n /\ p[2] \in 1 .. n
          /\ selected_gpus[p[1]] # selected_gpus[p[2]]
      OBVIOUS
    <3> HIDE DEF n, grid, places
    <3> QED BY <1>6, <3>1
  <2> HIDE DEF n, grid, places
  <2> QED BY <1>7, <1>8, <2>1
<1>10. \A j \in DOMAIN opts.gpus : opts.gpus[j] \in Report!Gpus
  <2>1. opts.gpus \in Seq(Nat) /\ NumGpus \in Nat \ {0}
    BY <1>1, Typed
  <2>2. \A j \in DOMAIN opts.gpus : opts.gpus[j] \in Nat /\ opts.gpus[j] < NumGpus
    BY <1>1, <2>1 DEF CheckedInv
  <2> QED BY <2>1, <2>2 DEF Report!Gpus
<1>11. warningsOf' = IF Len(Report!Selected) < 2
                     THEN warningsOf \cup {Report!TooFew} ELSE warningsOf
  <2>1. Range(warnings)' = Range(warnings)
    BY <1>3 DEF Range
  <2>2. warningsOf' = (IF Kept("env") THEN refused ELSE {})
                        \cup (Range(warnings) \cap {TooFew})
    BY <1>1, <1>2, <2>1, Causes DEF warningsOf
  <2>3. warningsOf = (IF Kept("env") THEN refused ELSE {})
    BY <1>1, <1>2, Causes DEF warningsOf
  <2>4. FabricBegun
    <3>1. stage \notin Earlier("fabric-smoke")
      BY <1>1, Order DEF GpuProbes
    <3> QED BY <1>1, <1>2, <3>1 DEF FabricBegun
  <2>5. Range(warnings) \cap {TooFew} = IF n < 2 THEN {TooFew} ELSE {}
    BY <1>1, <1>2, <2>4, Causes
  <2>6. TooFew = Report!TooFew
    BY DEF TooFew, Report!TooFew
  <2> QED BY <1>4, <2>2, <2>3, <2>5, <2>6
<1> QED BY <1>2, <1>9, <1>10, <1>11 DEF Report!FabricSmoke

\* The end of the devices: all of them, in their order.
LEMMA DevicesR ==
    ASSUME RunInv, EndDevices
    PROVE  Report!Devices
<1>1. /\ GInv /\ ProgressInv /\ TypeOK
      /\ stage = "devices" /\ open /\ todo = <<>> /\ End
      /\ stage \in Probes \cup {"devices"}
  BY DEF RunInv, GInv, EndDevices
<1>2. Report!Make("devices") /\ exit # 1 /\ Described'
  BY <1>1, MakeR
<1>3. UNCHANGED <<accessOf, refusedOf, copiesOf, warningsOf>>
  BY <1>1, EndKeeps
<1>4. devices = visible
  <2>1. DevicesInv
    BY <1>2, <1>1 DEF ProgressInv
  <2>2. PICK n : n = Len(devices)
    OBVIOUS
  <2>3. Behind("devices", n) /\ LoopList("devices") = visible /\ visible \in Seq(Nat)
    BY <1>1, <2>1, <2>2, ListFacts DEF DevicesInv
  <2>4. "devices" \notin Earlier("devices")
    BY Order DEF Probes, GpuProbes
  <2>5. n \in 0 .. Len(visible) /\ <<>> = SubSeq(visible, n + 1, Len(visible))
    BY <1>1, <2>3, <2>4 DEF Behind
  <2>6. n = Len(visible)
    BY <2>3, <2>5, Rest
  <2>7. devices \in Seq(Nat) /\ \A j \in 1 .. Len(devices) : devices[j] = visible[j]
    BY <1>1, <2>1 DEF DevicesInv, TypeOK
  <2> QED BY <2>2, <2>3, <2>6, <2>7, SameSequence
<1>5. devicesOf' = Report!Listed
  <2>1. visible = Report!Listed /\ devices' = devices
    BY <1>1, Typed DEF End
  <2> QED BY <1>2, <1>4, <2>1 DEF devicesOf
<1> QED BY <1>2, <1>3, <1>5 DEF Report!Devices

\* The report is written, or cut.
LEMMA WriteR ==
    ASSUME RunInv, Write
    PROVE  Report!Publish
<1>1. /\ ProgressInv /\ stage = "write" /\ stage' = "stop" /\ exit' = 0
      /\ file' \in {"report", "cut"}
      /\ UNCHANGED <<opts, matrix, refused, pairs, warnings, probes, devices>>
  BY DEF RunInv, Write, results
<1>2. exit = -1
  BY <1>1 DEF ProgressInv
<1>3. (\A p : Kept(p)' <=> Kept(p)) /\ Described /\ Described'
  BY <1>1, <1>2 DEF Kept, Described
<1>4. outcomeOf = "none" /\ outcomeOf' \in {"report", "cut"}
  BY <1>1, <1>2 DEF outcomeOf
<1>5. doneOf' = doneOf /\ "devices" \in doneOf
  BY <1>1, <1>2, <1>3 DEF doneOf
<1>6. accessOf' = accessOf /\ refusedOf' = refusedOf /\ devicesOf' = devicesOf
  BY <1>1, <1>3 DEF accessOf, refusedOf, devicesOf
<1>7. copiesOf' = copiesOf
  <2>1. Kept("fabric-smoke")' <=> Kept("fabric-smoke")
    BY <1>3
  <2> QED BY ONLY <1>1, <2>1, CopiesSame
<1>8. warningsOf' = warningsOf
  BY <1>1, <1>3 DEF warningsOf, Range
<1> QED BY <1>1, <1>4, <1>5, <1>6, <1>7, <1>8 DEF Report!Publish

\* A run begins with nothing of the report made.
LEMMA InitR == Init => Report!Init
<1> SUFFICES ASSUME Init PROVE Report!Init
  OBVIOUS
<1>1. exit = -1 /\ probes = {} /\ opts \in Requests /\ stage \in AllStages
  <2>1. TypeOK /\ ProgressInv
    BY InitG, InitP DEF GInv
  <2> QED BY <2>1 DEF Init, TypeOK, ProgressInv, AllStages
<1>2. ~Kept("env") /\ ~Kept("fabric-smoke")
  BY <1>1 DEF Kept
<1>3. ~Described
  <2>1. PICK j \in 1 .. 7 : /\ stage = Stages[j]
                            /\ \A l \in 1 .. (j - 1) : ~should_run(Stages[l])
    BY NextStage DEF Init
  <2>2. should_run("devices") /\ Stages[6] = "devices" /\ Stages[7] = "write"
    BY DEF should_run, Stages
  <2>3. stage # "write"
    <3>1. CASE j = 7
      <4>1. 6 \in 1 .. (7 - 1)
        OBVIOUS
      <4> QED BY <2>1, <2>2, <3>1, <4>1
    <3>2. CASE j # 7
      BY <2>1, <2>2, <3>2, Order
    <3> QED BY <3>1, <3>2
  <2> QED BY <1>1, <2>3 DEF Described, AllStages, Probes, GpuProbes
<1> QED BY <1>1, <1>2, <1>3 DEF Report!Init, doneOf, accessOf, refusedOf, copiesOf,
                                devicesOf, warningsOf, outcomeOf

\* A step of the run is one of the report, or none that its reader sees.
LEMMA StepR == RunInv /\ [Next]_vars => [Report!Next]_(Report!vars)
<1> SUFFICES ASSUME RunInv, [Next]_vars PROVE Report!Next \/ UNCHANGED Report!vars
  OBVIOUS
<1>1. GInv /\ ProgressInv /\ TypeOK
  BY DEF RunInv, GInv
<1>2. stage \in AllStages => exit # 1
  BY <1>1 DEF ProgressInv, AllStages, Probes, GpuProbes
<1>3. CASE UNCHANGED vars
  <2>1. UNCHANGED <<doneOf, accessOf, refusedOf, devicesOf, warningsOf, outcomeOf>>
    BY <1>3 DEF vars, doneOf, accessOf, refusedOf, devicesOf, warningsOf, outcomeOf,
                Kept, Described, Range
  <2>2. UNCHANGED copiesOf
    <3>1. pairs' = pairs /\ opts' = opts
      BY <1>3 DEF vars
    <3>2. Kept("fabric-smoke")' <=> Kept("fabric-smoke")
      BY <1>3 DEF vars, Kept
    <3> QED BY ONLY <3>1, <3>2, CopiesSame
  <2> QED BY <1>3, <2>1, <2>2 DEF vars, Report!vars
<1>4. CASE BeginEnv \/ QueryPair \/ QueryPairFails
  <2>1. /\ stage = "env" /\ UNCHANGED <<opts, stage, probes, exit, file, pairs, devices>>
    BY <1>4 DEF BeginEnv, QueryPair, QueryPairFails, Begin, InLoop, results
  <2> QED BY <1>1, <1>2, <2>1, Unseen DEF AllStages, Probes
<1>5. CASE BeginKernels \/ BeginDevices
  <2>1. /\ stage \in GpuProbes \cup {"devices"}
        /\ UNCHANGED <<opts, stage, probes, exit, file, matrix, refused, pairs,
                       warnings, devices>>
    BY <1>5 DEF BeginKernels, BeginDevices, Begin, results
  <2>2. stage \in AllStages
    BY <2>1 DEF AllStages, Probes
  <2> QED BY <1>1, <1>2, <2>1, <2>2, Unseen
<1>6. CASE BeginFabric
  <2>1. /\ stage = "fabric-smoke"
        /\ UNCHANGED <<opts, stage, probes, exit, file, matrix, refused, pairs, devices>>
        /\ warnings' \in {warnings, Append(warnings, TooFew)}
    BY <1>6 DEF BeginFabric, Begin
  <2>2. Range(warnings') \ {TooFew} = Range(warnings) \ {TooFew}
    <3>1. warnings \in Seq(Warnings) /\ TooFew \in Warnings
      BY <1>1 DEF TypeOK, Warnings
    <3>2. Range(Append(warnings, TooFew)) = Range(warnings) \cup {TooFew}
      BY <3>1, RangeGrows
    <3> QED BY <2>1, <3>2
  <2> QED BY <1>1, <1>2, <2>1, <2>2, Unseen DEF AllStages, Probes
<1>7. CASE SkipSelf \/ AccessQueryFails \/ NoAccess \/ EnableFails \/ Copy
  <2>1. /\ stage = "fabric-smoke"
        /\ UNCHANGED <<opts, stage, probes, exit, file, matrix, refused, warnings,
                       devices>>
    BY <1>7 DEF SkipSelf, AccessQueryFails, NoAccess, EnableFails, Copy, PairDone,
                InLoop, results
  <2> QED BY <1>1, <1>2, <2>1, Unseen DEF AllStages, Probes
<1>8. CASE DescribeDevice \/ DescribeUnknown
  <2>1. /\ stage = "devices"
        /\ UNCHANGED <<opts, stage, probes, exit, file, matrix, refused, pairs,
                       warnings>>
    BY <1>8 DEF DescribeDevice, DescribeUnknown, InLoop
  <2> QED BY <1>1, <1>2, <2>1, Unseen DEF AllStages
<1>9. CASE \/ RejectGpu \/ LaunchFails \/ StaleErrorFound \/ RejectGpus
           \/ CallFails \/ OpenFails
  <2>1. stage \in AllStages /\ \E why : Throw(why)
    <3>1. \E why : Throw(why)
      BY <1>9 DEF RejectGpu, LaunchFails, StaleErrorFound, RejectGpus, CallFails,
                  OpenFails
    <3>2. stage # "stop"
      BY <1>9 DEF RejectGpu, LaunchFails, StaleErrorFound, RejectGpus, CallFails,
                  OpenFails, GpuProbes
    <3> QED BY <1>1, <3>1, <3>2 DEF TypeOK, AllStages
  <2> QED BY <1>1, <2>1, ThrowR DEF Report!Next
<1>10. CASE EndEnv \/ Kernels \/ EndFabric \/ EndDevices \/ Write
  BY <1>10, EnvR, KernelsR, FabricR, DevicesR, WriteR DEF Report!Next
<1> QED BY <1>3, <1>4, <1>5, <1>6, <1>7, <1>8, <1>9, <1>10 DEF Next

\* A run implements the abstract report: whatever the calls of a probe do, the
\* reader gets whole sections in main's order, an answer for every pair of GPUs
\* and a warning for each that is a guess, or no report.
THEOREM RunIsReport == Spec => Refinement
<1> QED BY RunInvariance, InitR, StepR, PTL DEF Spec, Refinement, Report!Spec
=============================================================================
