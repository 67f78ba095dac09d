------------------------------ MODULE MCGpuTiming ------------------------------
(* Two GPUs; buffers with fewer elements than the grid has threads, and more. *)
EXTENDS GpuTiming

\* A kernel that takes less than bench_loop_overhead, one that takes more by less
\* than the noise, and one by more.
MCCost ==
    [x \in Kernels |-> CASE x = "loop-overhead" -> 2
                         [] x = "add.s32" -> 1
                         [] x = "add.u64" -> 3
                         [] x = "fma.rn.f32" -> 6]

MCGpus == {0, 1}
MCPairs == <<<<0, 1>>, <<1, 0>>>>
MCElements == {1, 3, 4, 5, 9, 14}
=============================================================================
