------------------------------ MODULE ProbeReport ------------------------------
(***************************************************************************)
(* What a run of nvidia_gb200_probe promises the reader of its report.     *)
(* The sections that were asked for are made one after another, each whole *)
(* or not at all: a table of which GPU reaches which, with a warning for   *)
(* each entry that is a guess; the kernel probes, of a GPU that exists; a  *)
(* copy for every ordered pair of the selected GPUs; the devices.  With    *)
(* the last of them the report is published.  The run may give up at any   *)
(* moment, and then there is no report.                                    *)
(*                                                                         *)
(* GpuProbeRun implements this specification.                              *)
(***************************************************************************)
EXTENDS Integers, Sequences, FiniteSets

CONSTANTS
    NumGpus,    \* devices visible to the process
    Requests    \* what may be asked for

VARIABLES
    request,    \* what was asked for: a probe or all, a GPU, a list of GPUs
    done,       \* the sections that are made
    access,     \* of env: for two GPUs, does the first reach the second
    refused,    \* of env: the entries that are "no" because nobody could say
    copies,     \* of fabric-smoke: for two places of the list, the outcome
    devices,    \* the devices described
    warnings,   \* refused entries, and TooFew
    outcome     \* "none" before the end, then "failed", or the file: "report",
                \* or "cut"

vars == <<request, done, access, refused, copies, devices, warnings, outcome>>

Order == <<"env", "ptx-latency", "mem-chase", "hbm-bandwidth", "fabric-smoke",
           "devices">>

Gpus == 0 .. (NumGpus - 1)
Listed == [n \in 1 .. NumGpus |-> n - 1]

\* The warning of a fabric-smoke that has no pair to copy between.
TooFew == <<"need at least two GPUs">>

Selected == IF request.gpus = <<>> THEN Listed ELSE request.gpus
PairsOfPlaces ==
    {p \in (1 .. Len(Selected)) \X (1 .. Len(Selected)) :
       Selected[p[1]] # Selected[p[2]]}

Asked(s) == s = "devices" \/ request.probe \in {"all", s}

\* Section s is the next: just those before it that were asked for are made.
Make(s) ==
    /\ outcome = "none" /\ Asked(s)
    /\ \E n \in DOMAIN Order :
          /\ s = Order[n]
          /\ done = {Order[m] : m \in {m \in 1 .. (n - 1) : Asked(Order[m])}}
    /\ done' = done \cup {s}
    /\ UNCHANGED <<request, outcome>>

-----------------------------------------------------------------------------
Init ==
    /\ request \in Requests
    /\ done = {} /\ outcome = "none"
    /\ access = <<>> /\ refused = {} /\ copies = <<>> /\ devices = <<>>
    /\ warnings = {}

Env ==
    /\ Make("env")
    /\ access' \in [Gpus \X Gpus -> BOOLEAN]
    /\ \A g \in Gpus : access'[<<g, g>>]
    /\ refused' \subseteq {p \in Gpus \X Gpus : ~access'[p]}
    /\ warnings' = warnings \cup refused'
    /\ UNCHANGED <<copies, devices>>

Kernels ==
    /\ \E s \in {"ptx-latency", "mem-chase", "hbm-bandwidth"} : Make(s)
    /\ request.gpu \in Gpus
    /\ UNCHANGED <<access, refused, copies, devices, warnings>>

FabricSmoke ==
    /\ Make("fabric-smoke")
    /\ \A n \in DOMAIN request.gpus : request.gpus[n] \in Gpus
    /\ copies' \in [PairsOfPlaces -> {"ok", "failed"}]
    /\ warnings' = IF Len(Selected) < 2 THEN warnings \cup {TooFew} ELSE warnings
    /\ UNCHANGED <<access, refused, devices>>

Devices ==
    /\ Make("devices")
    /\ devices' = Listed
    /\ UNCHANGED <<access, refused, copies, warnings>>

\* The file may be cut, and nobody notices.
Publish ==
    /\ outcome = "none" /\ "devices" \in done
    /\ outcome' \in {"report", "cut"}
    /\ UNCHANGED <<request, done, access, refused, copies, devices, warnings>>

\* What was made is lost.
Fail ==
    /\ outcome = "none"
    /\ outcome' = "failed"
    /\ done' = {} /\ access' = <<>> /\ refused' = {} /\ copies' = <<>>
    /\ devices' = <<>> /\ warnings' = {}
    /\ UNCHANGED request

Next == Env \/ Kernels \/ FabricSmoke \/ Devices \/ Publish \/ Fail

Spec == Init /\ [][Next]_vars
=============================================================================
