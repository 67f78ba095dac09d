---------------------------- MODULE MCPointerRing ----------------------------
(* The walks on fewer nodes, with fewer loads.  The multipliers of the random *)
(* tables, 8191 and 65537, would be no more than a step on so few.            *)
EXTENDS PointerRing

Ring(kind, n, f, streams, count) ==
    [kind |-> kind, nodes |-> n, factor |-> f, streams |-> streams, count |-> count]

\* Two sweeps, with and without a round more than asked for; the parallel
\* chases; random accesses fewer than the elements, and more.
AllRows == <<Ring("sweep", 64, 97, 1, 300), Ring("sweep", 4, 97, 1, 75),
             Ring("mlp", 8, 97, 2, 36), Ring("mlp", 8, 13, 4, 76),
             Ring("kernel", 8, 131071, 8, 28), Ring("kernel", 8, 131071, 1, 20),
             Ring("random", 32, 13, 1, 20), Ring("random", 16, 13, 1, 40)>>

\* The first two rows of the TLB sweep.
TlbRows == <<Ring("sweep", 16, 97, 1, 300), Ring("sweep", 32, 97, 1, 300)>>

\* The rows of the code, which are too large to walk here, meet what the module
\* assumes: the cache sweeps in KiB of 64-byte nodes, the TLB sweep in pages,
\* the parallel chases in nodes, the random accesses in KiB of 8-byte elements.
CacheKiB == {4, 8, 16, 32, 64, 128, 256, 512, 1024, 2048, 4096, 8192, 16384, 32768}
TlbPages == {16, 32, 64, 128, 256, 512, 1024, 2048, 4096}
ParallelNodes == {4096, 16384}
RandomKiB == {64, 128, 256, 1024, 4096, 16384}
Factors == {97, 131071, 8191, 65537}

ASSUME CodeRowAssumption ==
    /\ {(n * 1024) \div 64 : n \in CacheKiB} \cup TlbPages \cup ParallelNodes
          \cup {(n * 1024) \div 8 : n \in RandomKiB} \subseteq PowersOfTwo
    /\ \A f \in Factors : f % 2 = 1

\* The steps of the parallel chases, with --smoke and without, are whole blocks
\* of four, and no walk is shorter than its ring: of up to four streams each
\* gets its share of the steps on 4096 nodes, of up to eight all on 16384.
ParallelSteps == {32768, 131072}

ASSUME ParallelAssumption ==
    \A n \in ParallelSteps : n % 4 = 0 /\ n \div 4 >= 4096 /\ n >= 16384

\* The accesses of the random rows are those of --iters, whatever their size:
\* with the defaults the two largest rows have fewer than elements, and with
\* --smoke its largest.
ASSUME ShortRowsAssumption ==
    /\ {n \in RandomKiB : (n * 1024) \div 8 > 200000} = {4096, 16384}
    /\ {n \in {64, 256, 4096} : (n * 1024) \div 8 > 40000} = {4096}
=============================================================================
