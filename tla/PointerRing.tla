----------------------------- MODULE PointerRing -----------------------------
(***************************************************************************)
(* The probes that walk a permutation of a buffer's slots.  The sweeps     *)
(* (run_cache_tlb of apple/src/deep_cpu_probes.c, run_cache_sweep of       *)
(* cpu_probes.c) and the parallel chases (measure_mlp of the deep probe,   *)
(* run_mlp_scaling of advanced_cpu_probes.c) link the slots into rings and *)
(* follow the pointers, one ring or several at once; the random accesses   *)
(* (run_random_load_store of the advanced probe) go through a table of     *)
(* indices, for three kernels in turn.                                     *)
(*                                                                         *)
(* A pointer is the index of the node it points to.  What a walk costs is  *)
(* left out; which slots it loads, and how often, is what decides whether  *)
(* the row is about the working set it names.                              *)
(***************************************************************************)
EXTENDS Integers, Sequences, FiniteSets

CONSTANTS
    Rows,       \* the rows measured, in order
    WarmSteps,  \* loads before the timed walks of "sweep" and "mlp" (4096)
    Samples     \* opts->samples

Kinds == {"sweep", "mlp", "kernel", "random"}

PowersOfTwo == {2 ^ e : e \in 0 .. 30}

\* factor: node j of a walk is slot j * factor.  count: the loads, iterations
\* or accesses that the caller asks for.
RowType == [kind: Kinds, nodes: Nat \ {0}, factor: Nat \ {0},
            streams: Nat \ {0}, count: Nat \ {0}]

ASSUME RowAssumption ==
    /\ Rows \in Seq(RowType) /\ Len(Rows) > 0
    /\ {WarmSteps, Samples} \subseteq Nat \ {0}

\* The node counts are powers of two, which two of the three make_pointer_ring
\* check, so that (j * factor) & (nodes - 1) is (j * factor) % nodes; and the
\* factors are odd, so that each has an inverse modulo its node count.
ASSUME MaskAssumption ==
    \A n \in 1 .. Len(Rows) :
       /\ Rows[n].nodes \in PowersOfTwo
       /\ \E inverse \in 0 .. (Rows[n].nodes - 1) :
             (Rows[n].factor * inverse) % Rows[n].nodes = 1 % Rows[n].nodes

\* Only the parallel chases have several rings; a block of mlp_chase is four
\* loads, whatever the streams.
ASSUME StreamAssumption ==
    \A n \in 1 .. Len(Rows) :
       CASE Rows[n].kind = "kernel" -> Rows[n].streams \in {1, 2, 4, 8}
         [] Rows[n].kind = "mlp" -> /\ Rows[n].streams \in {1, 2, 4}
                                    /\ Rows[n].count % 4 = 0
         [] OTHER -> Rows[n].streams = 1

VARIABLES
    pc,      \* where the measurement is, or its caller
    k,       \* the row
    pass,    \* the kernel of the row, of those measured on the same memory
    c,       \* the rings, or tables, allocated
    i,       \* the loop counter of make_pointer_ring or fill_permutation
    next,    \* per ring: the pointer in each slot, or the table's entries
    p,       \* per ring: the pointer the walk has reached
    left,    \* the loads the walk still has to do on each ring
    loads,   \* per ring: the loads of the current walk, per slot
    seen,    \* <<ring, slot>> of every load since the row's memory was set
    taken    \* the samples recorded: the loads of each timed walk

vars == <<pc, k, pass, c, i, next, p, left, loads, seen, taken>>

row == Rows[k]
nodes == row.nodes
Slots == 0 .. (nodes - 1)
Streams == 1 .. row.streams

NULL == -1     \* what memset leaves in a slot

Place(j) == (j * row.factor) % nodes

Indexed == row.kind = "random"

\* Loads, stores, and both: three kernels use the memory of a random row.
Passes == IF Indexed THEN 3 ELSE 1

Turns == 16    \* a sweep goes round its ring at least this often

\* Slips the properties must catch: every stream makes all the loads of a
\* block; a timed walk has the length asked for, whatever the ring.
PerStreamAll(steps) == steps
StepsWithoutTurns == row.count

\* Four loads of a block of mlp_chase, shared among the streams.
PerStream(steps) == (steps \div 4) * (4 \div row.streams)

\* The loads of a timed walk on each ring, and of the walk before the first.
Steps ==
    CASE row.kind = "sweep" ->
            IF row.count < nodes * Turns THEN nodes * Turns ELSE row.count
      [] row.kind = "mlp" -> PerStream(row.count)
      [] OTHER -> row.count

WarmUp ==
    CASE row.kind = "sweep" -> WarmSteps
      [] row.kind = "mlp" -> PerStream(WarmSteps)
      [] OTHER -> row.count \div 16 + 1

\* A read-modify-write counts as two operations.
PerVisit == IF Indexed /\ pass = 3 THEN 2 ELSE 1

\* What the time of a sample is divided by.
ops ==
    CASE row.kind = "sweep" -> Steps
      [] row.kind = "mlp" -> row.count
      [] OTHER -> row.count * row.streams * PerVisit

done == (IF pc = "warm" THEN WarmUp ELSE Steps) - left

NoLoads == [r \in Streams |-> [s \in Slots |-> 0]]

-----------------------------------------------------------------------------
(* Slips the properties must catch; no specification uses them. *)

\* The link goes to the next slot of the buffer instead of the next of the walk.
LinkToNextSlot ==
    /\ pc = "build" /\ i < nodes
    /\ next' = [next EXCEPT ![c][IF Indexed THEN i ELSE Place(i)] =
                               IF Indexed THEN Place(i) ELSE (i + 1) % nodes]
    /\ i' = i + 1
    /\ UNCHANGED <<pc, k, pass, c, p, left, loads, seen, taken>>

\* The loop stops one node early.
BuiltOneLess == pc = "build" /\ i >= nodes - 1

\* The random index runs on from sample to sample instead of starting again.
SlotRunningOn(r) ==
    IF Indexed THEN next[r][(Len(taken) * Steps + done) % nodes] ELSE p[r]

-----------------------------------------------------------------------------
(* Building the rings, and walking them *)

Init ==
    /\ pc = "alloc"
    /\ k = 1 /\ pass = 1
    /\ c = 0 /\ i = 0
    /\ next = <<>>
    /\ p = <<>> /\ left = 0 /\ loads = <<>>
    /\ seen = {} /\ taken = <<>>

Built == pc = "build" /\ i = nodes

\* posix_memalign, and memset, of the row's next ring.
Alloc ==
    /\ pc = "alloc" \/ (Built /\ c < row.streams)
    /\ c' = c + 1
    /\ next' = [r \in 1 .. (c + 1) |->
                   IF r <= c THEN next[r] ELSE [s \in Slots |-> NULL]]
    /\ i' = 0
    /\ pc' = "build"
    /\ UNCHANGED <<k, pass, p, left, loads, seen, taken>>

\* No memory for a ring, or for the samples: exit(2).
AllocFails ==
    /\ pc = "alloc" \/ Built
    /\ pc' = "exit"
    /\ UNCHANGED <<k, pass, c, i, next, p, left, loads, seen, taken>>

\* One round of the loop of make_pointer_ring, or of fill_permutation.
Link ==
    /\ pc = "build" /\ i < nodes
    /\ next' = [next EXCEPT ![c][IF Indexed THEN i ELSE Place(i)] =
                               Place(IF Indexed THEN i ELSE i + 1)]
    /\ i' = i + 1
    /\ UNCHANGED <<pc, k, pass, c, p, left, loads, seen, taken>>

\* A walk starts at the first slot of every ring.
Start(steps) ==
    /\ p' = [r \in Streams |-> 0]
    /\ left' = steps
    /\ loads' = NoLoads
    /\ UNCHANGED <<k, pass, c, i, next, seen, taken>>

\* Every ring is built: the walk before the samples.
StartWarmUp == Built /\ c = row.streams /\ pc' = "warm" /\ Start(WarmUp)

\* The slot that the next load on a ring meets.
Slot(r) == IF Indexed THEN next[r][done % nodes] ELSE p[r]

\* One load on each ring.  The code unrolls eight of them and does the rest one
\* by one, or has four in a block, by turns; the loads are the same.
Hop ==
    /\ pc \in {"warm", "timed"} /\ left > 0
    /\ loads' = [r \in Streams |-> [loads[r] EXCEPT ![Slot(r)] = @ + 1]]
    /\ seen' = seen \cup {<<r, Slot(r)>> : r \in Streams}
    /\ p' = IF Indexed THEN p ELSE [r \in Streams |-> next[r][p[r]]]
    /\ left' = left - 1
    /\ UNCHANGED <<pc, k, pass, c, i, next, taken>>

EndWarmUp ==
    /\ pc = "warm" /\ left = 0
    /\ pc' = "time"
    /\ UNCHANGED <<k, pass, c, i, next, p, left, loads, seen, taken>>

StartSample ==
    pc = "time" /\ Len(taken) < Samples /\ pc' = "timed" /\ Start(Steps)

EndSample ==
    /\ pc = "timed" /\ left = 0
    /\ taken' = Append(taken, loads)
    /\ pc' = "time"
    /\ UNCHANGED <<k, pass, c, i, next, p, left, loads, seen>>

\* Summary and free of the samples; on to the next kernel on the same memory.
NextPass ==
    /\ pc = "time" /\ Len(taken) = Samples /\ pass < Passes
    /\ pass' = pass + 1
    /\ taken' = <<>>
    /\ pc' = "build"
    /\ UNCHANGED <<k, c, i, next, p, left, loads, seen>>

\* The rings are freed, the row is printed; on to the next row.
Finish ==
    /\ pc = "time" /\ Len(taken) = Samples /\ pass = Passes
    /\ next' = <<>> /\ p' = <<>> /\ loads' = <<>> /\ taken' = <<>>
    /\ seen' = {} /\ c' = 0 /\ pass' = 1
    /\ IF k < Len(Rows) THEN k' = k + 1 /\ pc' = "alloc"
                        ELSE k' = k /\ pc' = "done"
    /\ UNCHANGED <<i, left>>

Next ==
    \/ Alloc \/ AllocFails
    \/ Link \/ StartWarmUp
    \/ Hop \/ EndWarmUp
    \/ StartSample \/ EndSample
    \/ NextPass \/ Finish

Spec == Init /\ [][Next]_vars

-----------------------------------------------------------------------------
(* Properties *)

Walking == pc \in {"warm", "time", "timed"}

\* Every variable has its type; a walk never stands on a slot without a link.
TypeOK ==
    /\ pc \in {"alloc", "build", "warm", "time", "timed", "done", "exit"}
    /\ k \in 1 .. Len(Rows)
    /\ pass \in 1 .. Passes
    /\ c \in 0 .. row.streams
    /\ i \in Nat
    /\ left \in Nat
    /\ next \in [1 .. c -> [Slots -> Slots \cup {NULL}]]
    /\ seen \subseteq Streams \X Slots
    /\ pc \in {"build", "warm", "time", "timed"} => i <= nodes /\ c > 0
    /\ Walking => /\ p \in [Streams -> Slots]
                  /\ loads \in [Streams -> [Slots -> Nat]]
    /\ taken \in Seq([Streams -> [Slots -> Nat]]) /\ Len(taken) <= Samples

\* The slots that a timed walk has loaded.
Reached(n, r) == {s \in Slots : taken[n][r][s] > 0}

\* A timed walk loads the slots of every ring as evenly as its length allows:
\* each as often as there are whole rounds in it, or once more.  So it reaches
\* as many slots as it has loads, or all of them, and a row is about the memory
\* it names only if its walks are no shorter than its rings.  The sweeps see to
\* that themselves, Turns times over; the random accesses do not, and a row of
\* them with fewer accesses than elements leaves the others untouched.
EvenWalks ==
    \A n \in 1 .. Len(taken) : \A r \in Streams :
       /\ \A s \in Slots :
             taken[n][r][s] \in (Steps \div nodes) .. (Steps \div nodes + 1)
       /\ Cardinality(Reached(n, r)) = IF Steps < nodes THEN Steps ELSE nodes
       /\ row.kind = "sweep" => \A s \in Slots : taken[n][r][s] >= Turns

\* Only the first sample of a row can meet memory that no walk has loaded: the
\* walk before the samples is a fixed number of loads, or a sixteenth of a
\* timed walk, and need not go round the ring; a timed walk does what every
\* later one will do.
OnlyFirstCold ==
    pc = "timed" /\ left > 0 /\ (Len(taken) > 0 \/ pass > 1) =>
       \A r \in Streams : <<r, Slot(r)>> \in seen

\* The loads of the current walk: the ring, the slot, and which of its loads.
Loaded == UNION {UNION {{<<r, s, t>> : t \in 1 .. loads[r][s]} : s \in Slots}
                 : r \in Streams}

\* The operations that the time of a sample is divided by are those of the
\* walk that has just been timed, over all its rings.
OpsCounted ==
    pc = "time" /\ taken # <<>> => ops = PerVisit * Cardinality(Loaded)

\* What make_pointer_ring and fill_permutation store is a permutation: every
\* slot has a link, or entry, and every slot is met by one.  (That it is one ring
\* and not several is in WalkInv: a walk of as many loads meets all slots.)
RingClosed ==
    Walking => \A r \in Streams : {next[r][s] : s \in Slots} = Slots

\* "a pseudo-random permutation to reduce prefetch usefulness": the walk of a
\* sweep does not simply step to the neighbouring slot, load after load.
NotSequential ==
    Walking /\ row.kind = "sweep" /\ nodes > 2 =>
      /\ \E s \in Slots : next[1][s] # (s + 1) % nodes
      /\ \E s \in Slots : next[1][s] # (s - 1) % nodes
-----------------------------------------------------------------------------
(* The inductive invariant: slot and walk positions in closed form *)

\* What the loop has written to the slots, or entries, it has come to.
LinkInv ==
    \A r \in 1 .. c : \A j \in Slots :
       r < c \/ j < i =>
          next[r][IF Indexed THEN j ELSE Place(j)] =
             Place(IF Indexed THEN j ELSE j + 1)

\* The walk is at the node its number of loads says.
WalkInv ==
    /\ pc = "alloc" => c = 0
    /\ Walking => c = row.streams /\ i = nodes
    /\ pc = "warm" => left <= WarmUp
    /\ pc = "timed" => left <= Steps /\ Len(taken) < Samples
    /\ pc \in {"warm", "timed"} /\ ~Indexed =>
          \A r \in Streams : p[r] = Place(done)

\* A walk comes to node j with its load number j, counted from 0, and once in
\* every round after that.
Visits(j, steps) == (steps + nodes - 1 - j) \div nodes

LoadInv ==
    \A r \in Streams : \A j \in Slots :
       /\ pc = "timed" => loads[r][Place(j)] = Visits(j, done)
       /\ \A n \in 1 .. Len(taken) : taken[n][r][Place(j)] = Visits(j, Steps)

SeenInv ==
    \A r \in Streams : \A j \in Slots :
       \/ pc = "timed" /\ j < done
       \/ (taken # <<>> \/ pass > 1) /\ j < Steps
       => <<r, Place(j)>> \in seen

RInv == TypeOK /\ LinkInv /\ WalkInv /\ LoadInv /\ SeenInv
=============================================================================
