------------------------------- MODULE MemChase -------------------------------
(***************************************************************************)
(* run_size of nvidia/src/mem_chase.cu, for one working set after another: *)
(* the host links the elements of a vector into a ring, copies it to the   *)
(* device, and launches a kernel of one thread that walks along it, twice; *)
(* the second launch is the one that is reported.                          *)
(*                                                                         *)
(* The host waits for each launch, so that host and device take turns.     *)
(* What a load costs is left out; which elements are loaded is what the    *)
(* row is about.  Indices are uint32_t, of Word values.                    *)
(***************************************************************************)
EXTENDS Integers, Sequences

CONSTANTS
    Sizes,       \* the bytes of each working set, in order
    Iterations,  \* the loads of one launch
    Word         \* 2^32

ElementBytes == 4    \* sizeof(std::uint32_t)

Elements(bytes) == (bytes \div ElementBytes) % Word

\* std::gcd(a, b) = 1
Coprime(a, b) ==
    \A d \in 2 .. a : ~ (a % d = 0 /\ b % d = 0)

\* A slip the properties must catch: the first candidate, coprime or not.
half_stride(n) == IF n \div 2 > 1 THEN n \div 2 - 1 ELSE 1

\* The first coprime number from half of the elements downwards.
coprime_stride(n) ==
    LET first == IF n \div 2 > 1 THEN n \div 2 - 1 ELSE 1
    IN  CHOOSE s \in 1 .. first :
           /\ Coprime(s, n)
           /\ \A t \in (s + 1) .. first : ~ Coprime(t, n)

\* parse_u64_csv takes any positive number.  Of those, the sizes that are whole
\* elements and whose indices a uint32_t can count, a stride added.
ASSUME SizesAssumption ==
    /\ Iterations \in Nat \ {0} /\ Word \in Nat \ {0}
    /\ Sizes \in Seq(Nat \ {0}) /\ Len(Sizes) > 0
    /\ \A k \in 1 .. Len(Sizes) :
          LET n == Sizes[k] \div ElementBytes
          IN  Sizes[k] % ElementBytes = 0 /\ n + n \div 2 < Word

VARIABLES
    pc,      \* where run_size is, or its caller
    k,       \* the working set
    next,    \* host_next, and its copy d_next
    rows,    \* the working sets reported, with the elements loaded for each
    index,   \* where the kernel's walk is
    left,    \* the loads it has still to do
    loaded,  \* the elements the current launch has loaded
    warm     \* the elements the launch before it has loaded

host == <<k, next, rows>>
walk == <<index, left, loaded, warm>>
vars == <<pc, host, walk>>

elements == Elements(Sizes[k])
stride == coprime_stride(elements)
Indices == 0 .. (elements - 1)
Link(j) == ((j + stride) % Word) % elements

-----------------------------------------------------------------------------
(* Slips the properties must catch; no specification uses them. *)

\* The walk of the timed launch goes on where the first one stopped.
LaunchFromSink ==
    /\ pc = "timed" /\ pc' = "timing"
    /\ left' = Iterations /\ loaded' = {} /\ warm' = loaded
    /\ UNCHANGED <<index, host>>

\* The loop fills one element too many.
FillOneMore ==
    /\ pc = "fill" /\ pc' = "first"
    /\ next' = [j \in 0 .. elements |-> Link(j)]
    /\ UNCHANGED <<k, rows, walk>>

-----------------------------------------------------------------------------
(* The host *)

Init ==
    /\ pc = "fill" /\ k = 1
    /\ next = <<>> /\ rows = <<>>
    /\ index = 0 /\ left = 0 /\ loaded = {} /\ warm = {}

\* The loop over host_next, the three buffers and the copy.
Fill ==
    /\ pc = "fill" /\ pc' = "first"
    /\ next' = [j \in Indices |-> Link(j)]
    /\ UNCHANGED <<k, rows, walk>>

\* The launch whose cycles are overwritten, and the one that is reported.
Launch(from, to) ==
    /\ pc = from /\ pc' = to
    /\ index' = 0 /\ left' = Iterations /\ loaded' = {} /\ warm' = loaded
    /\ UNCHANGED host

LaunchFirst == Launch("first", "warming")
LaunchTimed == Launch("timed", "timing")

\* cudaDeviceSynchronize returns when the kernel has ended.
SyncFirst ==
    /\ pc = "warming" /\ left = 0
    /\ pc' = "timed"
    /\ UNCHANGED <<host, walk>>

\* The second one; the cycles are read, the buffers freed, the row is stored.
SyncTimed ==
    /\ pc = "timing" /\ left = 0
    /\ rows' = Append(rows, [bytes |-> Sizes[k], loaded |-> loaded])
    /\ \/ k < Len(Sizes) /\ k' = k + 1 /\ pc' = "fill"
       \/ k = Len(Sizes) /\ k' = k /\ pc' = "done"
    /\ loaded' = {} /\ warm' = {}
    /\ UNCHANGED <<next, index, left>>

\* A call in CUDA_CHECK fails: the exception ends the probe.
CallFails ==
    /\ pc \notin {"done", "thrown"}
    /\ pc' = "thrown"
    /\ UNCHANGED <<host, walk>>

-----------------------------------------------------------------------------
(* The device: pointer_chase_kernel *)

Load ==
    /\ pc \in {"warming", "timing"} /\ left > 0
    /\ index' = next[index]
    /\ loaded' = loaded \cup {index}
    /\ left' = left - 1
    /\ UNCHANGED <<pc, host, warm>>

Next ==
    \/ Fill \/ LaunchFirst \/ SyncFirst \/ LaunchTimed \/ SyncTimed
    \/ CallFails
    \/ Load

Spec == Init /\ [][Next]_vars

-----------------------------------------------------------------------------
(* Properties *)

\* Every variable has its type; the walk never leaves the elements of the ring.
TypeOK ==
    /\ pc \in {"fill", "first", "warming", "timed", "timing", "done", "thrown"}
    /\ k \in 1 .. Len(Sizes)
    /\ pc \in {"first", "warming", "timed", "timing"} =>
          next \in [Indices -> Indices]
    /\ pc \in {"warming", "timing"} => index \in Indices
    /\ left \in 0 .. Iterations
    /\ loaded \subseteq Indices /\ warm \subseteq Indices
    /\ rows \in Seq([bytes : Nat, loaded : SUBSET Nat])

\* The elements are linked into a single ring: a walk from the first element
\* comes back to it when it has gone round all of them, and never before.
OneRing ==
    pc \in {"warming", "timing"} =>
      (index = 0 <=> (Iterations - left) % elements = 0)

\* The reported launch loads nothing for the first time: the launch before it,
\* whose cycles are thrown away, has loaded every element it comes to.
TimedIsWarm == pc = "timing" => loaded \subseteq warm

\* A row whose launches have at least as many loads as the working set has
\* elements is about the whole of it: every element has been loaded.
RowsCover ==
    \A n \in 1 .. Len(rows) :
       Elements(rows[n].bytes) <= Iterations =>
          rows[n].loaded = 0 .. (Elements(rows[n].bytes) - 1)

\* "sweep small cache, intermediate cache, L2-scale, and HBM-scale regions": a
\* row is about as many bytes as it says.
WholeWorkingSet ==
    \A n \in 1 .. Len(rows) :
       rows[n].loaded = 0 .. (Elements(rows[n].bytes) - 1)

-----------------------------------------------------------------------------
(* The inductive invariant behind the safety properties *)

\* Where a walk is after n loads, and what it has loaded.
At(n) == (n * stride) % elements
Visited(n) == {At(j) : j \in 0 .. (n - 1)}

FillInv ==
    pc \in {"first", "warming", "timed", "timing"} =>
       \A j \in Indices : next[j] = (j + stride) % elements

WalkInv ==
    /\ pc \in {"fill", "first"} => loaded = {} /\ warm = {}
    /\ pc \in {"warming", "timing"} =>
          /\ index = At(Iterations - left)
          /\ loaded = Visited(Iterations - left)
    /\ pc = "timed" => loaded = Visited(Iterations)
    /\ pc = "timing" => warm = Visited(Iterations)

ChaseInv == TypeOK /\ FillInv /\ WalkInv /\ RowsCover
=============================================================================
