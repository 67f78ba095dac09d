---------------------------- MODULE MCGpuProbeRun ----------------------------
(* A request for each probe and for all of them, and the GPU ids that matter. *)
EXTENDS GpuProbeRun

Request(p, g, list) == [probe |-> p, gpu |-> g, gpus |-> list]

MCRequests ==
    {Request(p, 0, <<>>) : p \in Probes \cup {"all"}}
      \cup {Request("all", 3, <<>>), Request("all", 0, <<1, 0>>),
            Request("all", 0, <<1>>),
            Request("fabric-smoke", 0, <<0>>),
            Request("fabric-smoke", 0, <<0, 1, 0>>),
            Request("fabric-smoke", 0, <<0, 3>>)}
=============================================================================
