----------------------------- MODULE GpuProbeRun -----------------------------
(***************************************************************************)
(* One run of nvidia_gb200_probe: main (nvidia/src/main.cpp) runs the      *)
(* selected probes in a fixed order, collects the devices and writes one   *)
(* JSON report; whatever throws on the way ends the run with exit code 1   *)
(* and no report.                                                          *)
(*                                                                         *)
(* What the probes share is the CUDA runtime, and of it the error that a   *)
(* failed call leaves behind until cudaGetLastError takes it, and the peer *)
(* accesses that have been enabled.  A call that is wrapped in CUDA_CHECK  *)
(* throws when it fails; four calls are not wrapped, and what becomes of   *)
(* their failures is spelled out.  How long anything takes is left out.    *)
(***************************************************************************)
EXTENDS Integers, Sequences, FiniteSets, SequencesExt

CONSTANTS
    NumGpus,    \* devices visible to the process (without any, calls fail)
    Requests    \* command lines that parse_options accepts

GpuProbes == {"ptx-latency", "mem-chase", "hbm-bandwidth"}
Probes == {"env", "fabric-smoke"} \cup GpuProbes

\* A slip the properties must catch: the fabric probe before the kernels.
FabricFirst == <<"env", "fabric-smoke", "ptx-latency", "mem-chase",
                 "hbm-bandwidth", "devices", "write">>

\* main's order; every run ends with the last two.
Stages == <<"env", "ptx-latency", "mem-chase", "hbm-bandwidth", "fabric-smoke",
            "devices", "write">>

ASSUME RequestAssumption ==
    /\ NumGpus \in Nat \ {0}
    /\ Requests \subseteq [probe : Probes \cup {"all"}, gpu : Nat,
                           gpus : Seq(Nat)]

VARIABLES
    opts,       \* the command line
    stage,      \* the probe running, "devices", "write" or "stop"
    open,       \* has the stage begun
    todo,       \* what its loop has still to do
    lastError,  \* the call whose error the runtime still holds, or "none"
    peers,      \* enabled accesses: <<a, b>> when a may access b's memory
    matrix,     \* env: the cells so far, <<src, dst, can_access>>
    refused,    \* env: the pairs whose query failed
    pairs,      \* fabric-smoke: the results so far, <<src, dst, status>>
    warnings,   \* the warnings so far
    probes,     \* the probes with a result
    devices,    \* the devices described so far
    file,       \* "old": untouched; "report": complete; "cut": not all written
    exit,       \* the exit code, -1 before
    blame       \* what threw, "none" before

vars == <<opts, stage, open, todo, lastError, peers, matrix, refused, pairs,
          warnings, probes, devices, file, exit, blame>>

results == <<matrix, refused, pairs, warnings, probes, devices>>

-----------------------------------------------------------------------------
should_run(s) == s \in {"devices", "write", opts.probe} \/ opts.probe = "all"

\* The first stage to run from the n-th on.
FirstFrom(n) ==
    Stages[CHOOSE j \in n .. Len(Stages) :
              /\ should_run(Stages[j])
              /\ \A i \in n .. (j - 1) : ~should_run(Stages[i])]

Place(s) == CHOOSE n \in DOMAIN Stages : Stages[n] = s

\* for (src : list) for (dst : list)
Grid(list) ==
    LET n == Len(list)
    IN  [j \in 1 .. (n * n) |-> <<list[((j - 1) \div n) + 1],
                                 list[((j - 1) % n) + 1]>>]

visible == [j \in 1 .. NumGpus |-> j - 1]

\* --gpus, or every visible GPU.
selected_gpus == IF opts.gpus = <<>> THEN visible ELSE opts.gpus

Throw(why) ==
    /\ stage' = "stop" /\ exit' = 1 /\ blame' = why
    /\ UNCHANGED <<opts, open, todo, lastError, peers, file>>
    /\ UNCHANGED results

Begin(s, list) ==
    /\ stage = s /\ ~open
    /\ open' = TRUE /\ todo' = list
    /\ UNCHANGED <<opts, stage, lastError, peers, file, exit, blame>>

\* The stage's result is stored; main goes on to the next one.
End ==
    /\ open' = FALSE /\ stage' = FirstFrom(Place(stage) + 1)
    /\ probes' = probes \cup ({stage} \cap Probes)
    /\ UNCHANGED <<opts, todo, lastError, peers, file, exit, blame>>
    /\ UNCHANGED <<matrix, refused, pairs, warnings, devices>>

InLoop(s) == stage = s /\ open /\ todo # <<>>

\* The warning of a fabric-smoke that has no pair to copy between; the others
\* are the pairs whose query failed.
TooFew == <<"need at least two GPUs">>

\* The pair a loop over pairs is at.
src == Head(todo)[1]
dst == Head(todo)[2]

-----------------------------------------------------------------------------
(* Slips the properties must catch; no specification uses them. *)

\* An attribute the device does not have: the error stays in the runtime.
DescribeUnknownKept ==
    /\ InLoop("devices")
    /\ devices' = Append(devices, Head(todo)) /\ todo' = Tail(todo)
    /\ lastError' = "cudaDeviceGetAttribute"
    /\ UNCHANGED <<opts, stage, open, peers, file, exit, blame>>
    /\ UNCHANGED <<matrix, refused, pairs, warnings, probes>>

\* The failed query is not mentioned in the warnings.
QueryFailsSilently ==
    /\ InLoop("env") /\ src # dst
    /\ matrix' = Append(matrix, <<src, dst, FALSE>>)
    /\ refused' = refused \cup {<<src, dst>>}
    /\ lastError' = "cudaDeviceCanAccessPeer"
    /\ todo' = Tail(todo)
    /\ UNCHANGED <<opts, stage, open, peers, file, exit, blame>>
    /\ UNCHANGED <<pairs, warnings, probes, devices>>

\* Only the direction of the copy is enabled.
EnableOneWay ==
    /\ InLoop("fabric-smoke") /\ src # dst
    /\ peers' = peers \cup {<<dst, src>>}
    /\ pairs' = Append(pairs, <<src, dst, "ok">>)
    /\ todo' = Tail(todo)
    /\ UNCHANGED <<opts, stage, open, lastError, file, exit, blame>>
    /\ UNCHANGED <<matrix, refused, warnings, probes, devices>>

\* A pair without access leaves no result.
PairSkipped ==
    /\ InLoop("fabric-smoke") /\ src # dst
    /\ todo' = Tail(todo)
    /\ UNCHANGED <<opts, stage, open, lastError, peers, file, exit, blame>>
    /\ UNCHANGED results

-----------------------------------------------------------------------------
(* env *)

Init ==
    /\ opts \in Requests
    /\ stage = FirstFrom(1)
    /\ open = FALSE
    /\ todo = <<>>
    /\ lastError = "none"
    /\ peers = {}
    /\ matrix = <<>> /\ refused = {}
    /\ pairs = <<>>
    /\ warnings = <<>>
    /\ probes = {}
    /\ devices = <<>>
    /\ file = "old"
    /\ exit = -1
    /\ blame = "none"

BeginEnv == Begin("env", Grid(visible)) /\ UNCHANGED results

\* A device reaches its own memory; about another one the runtime is asked.
QueryPair ==
    /\ InLoop("env")
    /\ \E can \in BOOLEAN :
          /\ src = dst => can
          /\ matrix' = Append(matrix, <<src, dst, can>>)
    /\ todo' = Tail(todo)
    /\ UNCHANGED <<opts, stage, open, lastError, peers, file, exit, blame>>
    /\ UNCHANGED <<refused, pairs, warnings, probes, devices>>

\* The failed query counts as "no access" and becomes a warning; its error is
\* not taken from the runtime.
QueryPairFails ==
    /\ InLoop("env") /\ src # dst
    /\ matrix' = Append(matrix, <<src, dst, FALSE>>)
    /\ refused' = refused \cup {<<src, dst>>}
    /\ warnings' = Append(warnings, <<src, dst>>)
    /\ lastError' = "cudaDeviceCanAccessPeer"
    /\ todo' = Tail(todo)
    /\ UNCHANGED <<opts, stage, open, peers, file, exit, blame>>
    /\ UNCHANGED <<pairs, probes, devices>>

EndEnv == stage = "env" /\ open /\ todo = <<>> /\ End

-----------------------------------------------------------------------------
(* ptx-latency, mem-chase, hbm-bandwidth: what they have in common *)

\* require_gpu_id and cudaSetDevice.
BeginKernels ==
    /\ stage \in GpuProbes /\ opts.gpu < NumGpus
    /\ Begin(stage, <<>>)
    /\ UNCHANGED results

RejectGpu ==
    /\ stage \in GpuProbes /\ ~open /\ opts.gpu >= NumGpus
    /\ Throw("require_gpu_id")

\* Every launch is followed by CUDA_CHECK(cudaGetLastError()): the runtime must
\* hold no error, of this launch or of anything before it.
Kernels ==
    /\ stage \in GpuProbes /\ open
    /\ lastError = "none"
    /\ End

LaunchFails ==
    /\ stage \in GpuProbes /\ open
    /\ lastError = "none"
    /\ Throw("launch")

\* The check after the first launch throws although the launch did not fail.
StaleErrorFound ==
    /\ stage \in GpuProbes /\ open
    /\ lastError # "none"
    /\ Throw(lastError)

-----------------------------------------------------------------------------
(* fabric-smoke *)

BeginFabric ==
    /\ \A j \in DOMAIN opts.gpus : opts.gpus[j] < NumGpus
    /\ Begin("fabric-smoke", Grid(selected_gpus))
    /\ warnings' = IF Len(selected_gpus) < 2 THEN Append(warnings, TooFew)
                                             ELSE warnings
    /\ UNCHANGED <<matrix, refused, pairs, probes, devices>>

RejectGpus ==
    /\ stage = "fabric-smoke" /\ ~open
    /\ \E j \in DOMAIN opts.gpus : opts.gpus[j] >= NumGpus
    /\ Throw("require_gpu_id")

SkipSelf ==
    /\ InLoop("fabric-smoke") /\ src = dst
    /\ todo' = Tail(todo)
    /\ UNCHANGED <<opts, stage, open, lastError, peers, file, exit, blame>>
    /\ UNCHANGED results

\* copy_pair or failed_pair is done with the pair.
PairDone(status) ==
    /\ InLoop("fabric-smoke") /\ src # dst
    /\ pairs' = Append(pairs, <<src, dst, status>>)
    /\ todo' = Tail(todo)
    /\ UNCHANGED <<opts, stage, open, file, exit, blame>>
    /\ UNCHANGED <<matrix, refused, warnings, probes, devices>>

\* cudaDeviceCanAccessPeer fails, or says no.
AccessQueryFails ==
    /\ PairDone("failed")
    /\ lastError' = "cudaDeviceCanAccessPeer"
    /\ UNCHANGED peers

NoAccess == PairDone("failed") /\ UNCHANGED <<lastError, peers>>

\* enable_peer_access_if_needed(dst, src), then (src, dst): what is enabled
\* already is no failure, and the error that says so is taken from the runtime.
EnableFails ==
    /\ PairDone("failed")
    /\ \/ /\ <<dst, src>> \notin peers
          /\ UNCHANGED peers
       \/ /\ <<src, dst>> \notin peers
          /\ peers' = peers \cup {<<dst, src>>}
    /\ lastError' = "cudaDeviceEnablePeerAccess"

Copy ==
    /\ PairDone("ok")
    /\ LET both == {<<dst, src>>, <<src, dst>>}
       IN  /\ peers' = peers \cup both
           /\ lastError' = IF both \cap peers # {} THEN "none" ELSE lastError

EndFabric == stage = "fabric-smoke" /\ open /\ todo = <<>> /\ End

-----------------------------------------------------------------------------
(* collect_devices, write_json_file *)

BeginDevices == Begin("devices", visible) /\ UNCHANGED results

DescribeDevice ==
    /\ InLoop("devices")
    /\ devices' = Append(devices, Head(todo)) /\ todo' = Tail(todo)
    /\ UNCHANGED <<opts, stage, open, lastError, peers, file, exit, blame>>
    /\ UNCHANGED <<matrix, refused, pairs, warnings, probes>>

\* device_attribute: an attribute that cannot be had is -1, and its error is
\* taken from the runtime.
DescribeUnknown ==
    /\ InLoop("devices")
    /\ devices' = Append(devices, Head(todo)) /\ todo' = Tail(todo)
    /\ lastError' = "none"
    /\ UNCHANGED <<opts, stage, open, peers, file, exit, blame>>
    /\ UNCHANGED <<matrix, refused, pairs, warnings, probes>>

EndDevices == stage = "devices" /\ open /\ todo = <<>> /\ End

\* Any call wrapped in CUDA_CHECK.
CallFails == stage \notin {"write", "stop"} /\ open /\ Throw("CUDA_CHECK")

\* create_directories throws, or the file does not open.
OpenFails == stage = "write" /\ Throw("output file")

\* The stream is not looked at after the insertion: a full disk goes unnoticed.
Write ==
    /\ stage = "write"
    /\ file' \in {"report", "cut"}
    /\ stage' = "stop" /\ exit' = 0
    /\ UNCHANGED <<opts, open, todo, lastError, peers, blame>>
    /\ UNCHANGED results

Next ==
    \/ BeginEnv \/ QueryPair \/ QueryPairFails \/ EndEnv
    \/ BeginKernels \/ RejectGpu \/ Kernels \/ LaunchFails \/ StaleErrorFound
    \/ BeginFabric \/ RejectGpus \/ SkipSelf
    \/ AccessQueryFails \/ NoAccess \/ EnableFails \/ Copy \/ EndFabric
    \/ BeginDevices \/ DescribeDevice \/ DescribeUnknown \/ EndDevices
    \/ CallFails \/ OpenFails \/ Write

Spec == Init /\ [][Next]_vars

-----------------------------------------------------------------------------
(* Properties *)

Pairs == Nat \X Nat
Warnings == Pairs \cup {TooFew}

\* Every variable has its type.
TypeOK ==
    /\ opts \in Requests
    /\ stage \in Probes \cup {"devices", "write", "stop"}
    /\ open \in BOOLEAN
    /\ open /\ stage \in {"env", "fabric-smoke"} => todo \in Seq(Pairs)
    /\ open /\ stage = "devices" => todo \in Seq(Nat)
    /\ lastError \in {"none", "cudaDeviceCanAccessPeer",
                      "cudaDeviceEnablePeerAccess"}
    /\ peers \subseteq Pairs
    /\ matrix \in Seq(Nat \X Nat \X BOOLEAN)
    /\ refused \subseteq Pairs
    /\ pairs \in Seq(Nat \X Nat \X {"ok", "failed"})
    /\ warnings \in Seq(Warnings)
    /\ probes \subseteq Probes
    /\ devices \in Seq(Nat)
    /\ file \in {"old", "report", "cut"}
    /\ exit \in {-1, 0, 1}

Ids(s) == [n \in DOMAIN s |-> <<s[n][1], s[n][2]>>]

\* The cells for different GPUs among the first n of a grid.
Apart(grid, n) == {j \in 1 .. n : grid[j][1] # grid[j][2]}

\* The results so far are about just these cells, in their order.
Answered(grid, n) ==
    /\ Len(pairs) = Cardinality(Apart(grid, n))
    /\ \A j \in Apart(grid, n) : Ids(pairs)[Cardinality(Apart(grid, j))] = grid[j]

\* A report is written by a successful run only, and leaves nothing out: every
\* selected probe, every device, a cell for every pair of devices, and a result
\* for every ordered pair of different selected GPUs, each once and in order.
ReportComplete ==
    file # "old" =>
      /\ exit = 0
      /\ probes = {p \in Probes : should_run(p)}
      /\ devices = visible
      /\ "env" \in probes => Ids(matrix) = Grid(visible)
      /\ "fabric-smoke" \in probes =>
            Answered(Grid(selected_gpus), Len(Grid(selected_gpus)))

\* A cell that says "no access" because its query failed has its warning.
RefusalsWarned == refused \subseteq Range(warnings)

\* An error that is not the launch's own reaches a launch check only in a run
\* of all probes whose env probe had a query fail.  No probe run alone, no device
\* attribute and no enabled peer access can bring it about.
StaleOnlyFromEnv ==
    stage \in GpuProbes /\ lastError # "none" =>
      opts.probe = "all" /\ refused # {}

\* What was copied between two GPUs was copied with access enabled both ways.
CopiedWithAccess ==
    \A n \in DOMAIN pairs :
       pairs[n][3] = "ok" =>
         {<<pairs[n][1], pairs[n][2]>>, <<pairs[n][2], pairs[n][1]>>}
           \subseteq peers

\* "cudaDeviceCanAccessPeer failed" is a warning: it is not what ends a run.
QueryFailureTolerated == blame # "cudaDeviceCanAccessPeer"

\* "wrote <output>" and exit code 0: the output is there.
WroteMeansWritten == exit = 0 => file = "report"

-----------------------------------------------------------------------------
(* The inductive invariant behind the safety properties *)

\* A stage that runs was asked for; an error that was there before the first
\* kernels comes from env, which runs before them in a run of all probes only.
EarlyErrorInv ==
    /\ stage \in Probes => should_run(stage)
    /\ stage \in {"env"} \cup GpuProbes /\ lastError # "none" => refused # {}
    /\ stage \in GpuProbes /\ lastError # "none" => opts.probe = "all"

GInv == TypeOK /\ RefusalsWarned /\ CopiedWithAccess /\ EarlyErrorInv

Earlier(s) == {Stages[n] : n \in 1 .. (Place(s) - 1)}

\* What the loop of a stage goes over.
LoopList(s) ==
    CASE s = "env" -> Grid(visible)
      [] s = "fabric-smoke" -> Grid(selected_gpus)
      [] s = "devices" -> visible

\* The loop of stage s has n elements of its list behind it: none before the
\* stage has begun, all of them when it is over.
Behind(s, n) ==
    LET list == LoopList(s)
    IN  /\ n \in 0 .. Len(list)
        /\ IF stage \in Earlier(s) THEN n = 0
           ELSE IF stage = s
           THEN IF open THEN todo = SubSeq(list, n + 1, Len(list)) ELSE n = 0
           ELSE n = Len(list)

MatrixInv ==
    should_run("env") =>
      /\ Behind("env", Len(matrix))
      /\ \A j \in DOMAIN matrix : Ids(matrix)[j] = Grid(visible)[j]

PairsInv ==
    should_run("fabric-smoke") =>
      \E n \in 0 .. Len(Grid(selected_gpus)) :
         Behind("fabric-smoke", n) /\ Answered(Grid(selected_gpus), n)

DevicesInv ==
    /\ Behind("devices", Len(devices))
    /\ \A j \in DOMAIN devices : devices[j] = visible[j]

\* How far a run has come that has not thrown.
ProgressInv ==
    /\ exit = -1 <=> stage # "stop"
    /\ file # "old" => exit = 0
    /\ exit # 1 =>
         /\ probes = {p \in Probes : /\ should_run(p)
                                     /\ stage = "stop" \/ p \in Earlier(stage)}
         /\ MatrixInv /\ PairsInv /\ DevicesInv

\* A cell says yes of a device and itself and no of a refused query, and the
\* warnings are those queries and, once fabric-smoke has begun, its lack of GPUs.
FabricBegun ==
    should_run("fabric-smoke") /\ stage \notin Earlier("fabric-smoke")
      /\ (stage = "fabric-smoke" => open)

WarnInv ==
    exit # 1 =>
      /\ \A j \in DOMAIN matrix : matrix[j][1] = matrix[j][2] => matrix[j][3]
      /\ \A p \in refused : \E j \in DOMAIN matrix :
            p = <<matrix[j][1], matrix[j][2]>> /\ ~matrix[j][3]
      /\ Range(warnings) = refused \cup
            (IF FabricBegun /\ Len(selected_gpus) < 2 THEN {TooFew} ELSE {})

\* What a probe works on has passed require_gpu_id.
CheckedInv ==
    open =>
      /\ stage \in GpuProbes => opts.gpu < NumGpus
      /\ stage = "fabric-smoke" =>
            \A j \in DOMAIN opts.gpus : opts.gpus[j] < NumGpus

RunInv == GInv /\ ProgressInv /\ WarnInv /\ CheckedInv

-----------------------------------------------------------------------------
(* The abstract specification this one implements *)

\* The results of a probe reach main when it is over, and the reader when the
\* run is.
Kept(p) == exit # 1 /\ p \in probes
Described == exit # 1 /\ stage \in {"write", "stop"}

doneOf == IF exit = 1 THEN {}
          ELSE probes \cup (IF Described THEN {"devices"} ELSE {})

\* The table by its cells, row after row.
accessOf ==
    IF ~Kept("env") THEN <<>>
    ELSE [p \in (0 .. (NumGpus - 1)) \X (0 .. (NumGpus - 1)) |->
            matrix[p[1] * NumGpus + p[2] + 1][3]]

refusedOf == IF Kept("env") THEN refused ELSE {}

\* The result for two places of the list is that of their cell, the cells for
\* twice the same GPU left out.
copiesOf ==
    IF ~Kept("fabric-smoke") THEN <<>>
    ELSE LET n == Len(selected_gpus)
             grid == Grid(selected_gpus)
         IN  [p \in {p \in (1 .. n) \X (1 .. n) :
                        selected_gpus[p[1]] # selected_gpus[p[2]]} |->
                pairs[Cardinality(Apart(grid, (p[1] - 1) * n + p[2]))][3]]

devicesOf == IF Described THEN devices ELSE <<>>

warningsOf ==
    (IF Kept("env") THEN Range(warnings) \ {TooFew} ELSE {})
      \cup (IF Kept("fabric-smoke") THEN Range(warnings) \cap {TooFew} ELSE {})

outcomeOf == IF exit = 1 THEN "failed" ELSE IF exit = 0 THEN file ELSE "none"

Report == INSTANCE ProbeReport
            WITH request <- opts, done <- doneOf, access <- accessOf,
                 refused <- refusedOf, copies <- copiesOf, devices <- devicesOf,
                 warnings <- warningsOf, outcome <- outcomeOf

\* Whatever a probe does call by call, the reader sees whole sections in their
\* order, with the entries of each answered as they were found, no guess without
\* a warning and no warning without a cause, or no report at all.
Refinement == Report!Spec
=============================================================================
