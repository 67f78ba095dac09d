------------------------- MODULE ThreadScalingProofs -------------------------
(***************************************************************************)
(* Proofs about ThreadScaling, for every sequence of thread counts and     *)
(* every number of blocks per worker.                                      *)
(***************************************************************************)
EXTENDS ThreadScaling, TLAPS

\* The thread count of a row.
LEMMA ThreadsType ==
    ASSUME round \in 1 .. Len(Counts)
    PROVE  /\ Threads \in 1 .. MaxThreads
           /\ Threads \in Nat
  BY CountsAssumption DEF Threads

\* Before the first row nothing has been created or printed.
LEMMA InitInv == Init => IInv
<1> SUFFICES ASSUME Init PROVE IInv
  OBVIOUS
<1> USE CountsAssumption, BlocksAssumption DEF Init
<1>0. round \in 1 .. Len(Counts)
  OBVIOUS
<1>1. i \in 1 .. Threads
  BY <1>0, ThreadsType
<1>2. rows \in Seq(RowType)
  OBVIOUS
<1>3. TypeOK
  BY <1>0, <1>1, <1>2 DEF TypeOK, Locations, Workers, WorkerStates
<1>4. MainInv
  BY DEF MainInv
<1>5. WorkerInv
  BY DEF WorkerInv, Idle
<1>6. WorkInv
  BY DEF WorkInv, AtGate, Workers
<1>7. RowInv
  BY DEF RowInv
<1>8. NoUseAfterFree /\ RowsHonest /\ EveryResultSunk
  BY DEF Init, NoUseAfterFree, RowsHonest, EveryResultSunk, Workers
<1> QED BY <1>3, <1>4, <1>5, <1>6, <1>7, <1>8 DEF IInv

\* The steps of main, one case per action.
LEMMA MainStep == IInv /\ Main => IInv'
<1> SUFFICES ASSUME IInv, Main PROVE IInv'
  OBVIOUS
<1>t. TypeOK /\ MainInv /\ WorkerInv /\ WorkInv /\ RowInv
  BY DEF IInv
<1>s. NoUseAfterFree /\ RowsHonest /\ EveryResultSunk
  BY DEF IInv
<1>n. /\ Threads \in 1 .. MaxThreads
      /\ Threads \in Nat
      /\ MaxThreads \in Nat \ {0}
  BY <1>t, ThreadsType, CountsAssumption DEF TypeOK
<1>u. round' = round => Threads' = Threads
  BY DEF Threads
<1>1. CASE Alloc
  <2> USE <1>1, <1>u DEF Alloc
  <2>1. TypeOK'
    <3>1. i' \in 1 .. Threads' /\ round' \in 1 .. Len(Counts)
      BY <1>t, <1>n DEF TypeOK
    <3>2. result' \in [Workers -> BOOLEAN] /\ sink' \in SUBSET Workers
      OBVIOUS
    <3> QED BY <1>t, <3>1, <3>2 DEF TypeOK, Locations
  <2>2. MainInv' /\ RowInv'
    BY <1>t DEF MainInv, RowInv
  <2>3. WorkerInv' /\ WorkInv'
    BY <1>t, <1>n DEF TypeOK, WorkerInv, WorkInv, Idle, AtGate, Workers
  <2>4. NoUseAfterFree' /\ RowsHonest' /\ EveryResultSunk'
    BY <1>s DEF NoUseAfterFree, RowsHonest, EveryResultSunk
  <2> QED BY <2>1, <2>2, <2>3, <2>4 DEF IInv
<1>2. CASE Exit
  <2> USE <1>2, <1>u DEF Exit, workVars
  <2>1. TypeOK'
    BY <1>t DEF TypeOK, Locations
  <2>2. MainInv' /\ WorkerInv' /\ WorkInv' /\ RowInv'
    BY <1>t DEF MainInv, WorkerInv, WorkInv, RowInv, AtGate
  <2>3. NoUseAfterFree' /\ RowsHonest' /\ EveryResultSunk'
    BY <1>s DEF NoUseAfterFree, RowsHonest, EveryResultSunk
  <2> QED BY <2>1, <2>2, <2>3 DEF IInv
<1>3. CASE Create
  <2>1. TypeOK'
    <3>1. i' \in 1 .. Threads' /\ round' \in 1 .. Len(Counts)
      BY <1>3, <1>t, <1>n, <1>u DEF TypeOK, Create
    <3>2. worker' \in [Workers -> WorkerStates]
      BY <1>3, <1>t DEF TypeOK, WorkerStates, Create
    <3>3. inside' \in [Workers -> Nat] /\ outside' \in [Workers -> Nat]
      BY <1>3, <1>t DEF TypeOK, Create
    <3> QED BY <1>3, <1>t, <3>1, <3>2, <3>3 DEF TypeOK, Locations, Create
  <2>2. MainInv'
    BY <1>3, <1>t, <1>n DEF TypeOK, MainInv, Create
  <2>3. WorkerInv'
    <3>1. i \in Workers /\ i \in Nat /\ MaxThreads \in Nat
      BY <1>t, <1>n DEF TypeOK, Workers
    <3>6. /\ worker' = [worker EXCEPT ![i] = "created"]
          /\ worker \in [Workers -> WorkerStates]
          /\ \A w \in 1 .. (i - 1) : AtGate(w)
          /\ \A w \in i .. MaxThreads : Idle(w)
      BY <1>3, <1>t DEF TypeOK, WorkerInv, Create
    <3>2. \A w \in 1 .. i : AtGate(w)'
      BY <3>1, <3>6 DEF AtGate, Workers
    <3>3. \A w \in (i + 1) .. MaxThreads : Idle(w)'
      BY <3>1, <3>6 DEF Idle, Workers
    <3>4. CASE i < Threads
      <4>1. pc' = "create" /\ i' = i + 1 /\ i' - 1 = i
        BY <1>3, <3>1, <3>4 DEF Create
      <4> QED BY <3>2, <3>3, <4>1 DEF WorkerInv
    <3>5. CASE i = Threads
      <4>1. pc' = "sleep" /\ Threads' = Threads
        BY <1>3, <1>u, <3>1, <3>5 DEF Create
      <4>2. /\ \A w \in 1 .. Threads' : AtGate(w)'
            /\ \A w \in (Threads' + 1) .. MaxThreads : Idle(w)'
        BY <3>2, <3>3, <3>5, <4>1
      <4> QED BY <4>1, <4>2 DEF WorkerInv
    <3> QED BY <3>4, <3>5, <1>t, <1>n DEF TypeOK
  <2>4. WorkInv'
    BY <1>3, <1>t, <1>n, BlocksAssumption
    DEF TypeOK, WorkInv, AtGate, Workers, Create
  <2>5. RowInv'
    BY <1>3, <1>t, <1>n DEF TypeOK, RowInv, Create
  <2>6. NoUseAfterFree' /\ RowsHonest' /\ EveryResultSunk'
    BY <1>3, <1>s, <1>t
    DEF MainInv, NoUseAfterFree, RowsHonest, EveryResultSunk, Create
  <2> QED BY <2>1, <2>2, <2>3, <2>4, <2>5, <2>6 DEF IInv
<1>4. CASE Sleep \/ Stamp \/ Release
  <2> USE <1>4, <1>u DEF Sleep, Stamp, Release, workVars
  <2>1. TypeOK'
    BY <1>t DEF TypeOK, Locations
  <2>2. MainInv' /\ WorkerInv'
    BY <1>t, <1>n DEF MainInv, WorkerInv, Idle, AtGate
  <2>3. WorkInv'
    BY <1>t DEF WorkInv, AtGate
  <2>4. RowInv'
    <3>1. i = 1
      BY <1>t DEF MainInv
    <3>2. 1 .. (1 - 1) = {}
      OBVIOUS
    <3> QED BY <1>t, <3>1, <3>2 DEF RowInv
  <2>5. NoUseAfterFree' /\ RowsHonest' /\ EveryResultSunk'
    BY <1>s DEF NoUseAfterFree, RowsHonest, EveryResultSunk
  <2> QED BY <2>1, <2>2, <2>3, <2>4, <2>5 DEF IInv
<1>5. CASE Join
  <2>1. /\ i \in Workers /\ i \in Nat /\ MaxThreads \in Nat
        /\ i < Threads \/ i = Threads
    BY <1>t, <1>n DEF TypeOK, Workers
  <2>2. sink' = 1 .. i
    <3>1. result[i]
      BY <1>5, <2>1, <1>t DEF WorkInv, Join
    <3>2. sink' = (1 .. (i - 1)) \cup {i}
      BY <1>5, <3>1, <1>t DEF RowInv, Join
    <3>3. (1 .. (i - 1)) \cup {i} = 1 .. i
      BY <2>1, <1>t DEF TypeOK
    <3> QED BY <3>2, <3>3
  <2>3. /\ Len(rows') = round' - 1
        /\ Threads' = Threads
    BY <1>5, <1>t, <1>u DEF RowInv, Join
  <2>4. TypeOK'
    <3>1. i' \in 1 .. Threads' /\ round' \in 1 .. Len(Counts)
      BY <1>5, <1>t, <1>n, <1>u DEF TypeOK, Join
    <3>2. worker' \in [Workers -> WorkerStates]
      BY <1>5, <1>t DEF TypeOK, WorkerStates, Join
    <3>3. sink' \in SUBSET Workers
      BY <2>1, <2>2 DEF Workers
    <3> QED BY <1>5, <1>t, <3>1, <3>2, <3>3 DEF TypeOK, Locations, Join
  <2>5. MainInv'
    BY <1>5, <1>t, <1>n DEF TypeOK, MainInv, Join
  <2>6. WorkInv'
    BY <1>5, <1>t, <2>1 DEF TypeOK, WorkInv, AtGate, Workers, Join
  <2>7. \A w \in 1 .. i : worker'[w] = "joined"
    <3>1. \A w \in 1 .. (i - 1) : worker[w] = "joined"
      BY <1>5, <1>t DEF WorkerInv, Join
    <3>2. \A w \in Workers : worker'[w] = IF w = i THEN "joined" ELSE worker[w]
      BY <1>5, <1>t DEF TypeOK, Join
    <3> QED BY <2>1, <3>1, <3>2 DEF Workers
  <2>8. \A w \in (i + 1) .. Threads : worker'[w] \notin {"none", "joined"}
    <3>1. \A w \in i .. Threads : worker[w] \notin {"none", "joined"}
      BY <1>5, <1>t DEF WorkerInv, Join
    <3>2. \A w \in (i + 1) .. Threads : worker'[w] = worker[w]
      BY <1>5, <2>1, <1>t, <1>n DEF TypeOK, Workers, Join
    <3> QED BY <2>1, <3>1, <3>2, <1>n
  <2>9. \A w \in (Threads + 1) .. MaxThreads : Idle(w)'
    BY <1>5, <2>1, <1>t, <1>n DEF TypeOK, WorkerInv, Idle, Workers, Join
  <2>10. ASSUME i < Threads PROVE WorkerInv' /\ RowInv'
    <3>1. pc' = "join" /\ i' = i + 1 /\ i' - 1 = i
      BY <1>5, <2>1, <2>10 DEF Join
    <3>2. WorkerInv'
      BY <3>1, <2>3, <2>7, <2>8, <2>9 DEF WorkerInv
    <3>3. RowInv'
      <4>1. sink' = 1 .. (i' - 1)
        BY <3>1, <2>2
      <4> QED BY <3>1, <2>3, <4>1 DEF RowInv
    <3> QED BY <3>2, <3>3
  <2>11. ASSUME i = Threads PROVE WorkerInv' /\ RowInv'
    <3>1. pc' = "stop"
      BY <1>5, <2>1, <2>11 DEF Join
    <3>2. \A w \in Workers : Idle(w)'
      BY <2>1, <2>7, <2>9, <2>11, <1>n DEF Idle, Workers
    <3>3. WorkerInv'
      BY <3>1, <3>2 DEF WorkerInv
    <3>4. RowInv'
      <4>1. /\ sink' = 1 .. Threads'
            /\ \A w \in 1 .. Threads' : worker'[w] = "joined"
        BY <2>2, <2>3, <2>7, <2>11
      <4> QED BY <3>1, <2>3, <4>1 DEF RowInv
    <3> QED BY <3>3, <3>4
  <2>12. NoUseAfterFree' /\ RowsHonest' /\ EveryResultSunk'
    BY <1>5, <1>s, <1>t
    DEF TypeOK, NoUseAfterFree, RowsHonest, EveryResultSunk, Join
  <2> QED
    BY <2>1, <2>4, <2>5, <2>6, <2>10, <2>11, <2>12 DEF IInv
<1>6. CASE Stop \/ Variant
  <2> USE <1>6, <1>u DEF Stop, Variant, workVars
  <2>1. TypeOK'
    BY <1>t, VariantAssumption DEF TypeOK, Locations
  <2>2. MainInv'
    BY <1>t DEF MainInv
  <2>3. WorkerInv' /\ WorkInv' /\ RowInv'
    BY <1>t DEF WorkerInv, WorkInv, RowInv, Idle, AtGate
  <2>4. NoUseAfterFree' /\ RowsHonest' /\ EveryResultSunk'
    BY <1>s DEF NoUseAfterFree, RowsHonest, EveryResultSunk
  <2> QED BY <2>1, <2>2, <2>3, <2>4 DEF IInv
<1>7. CASE Row
  <2> USE <1>7, <1>u DEF Row, workVars
  <2> DEFINE row == [threads |-> Threads,
                     ops     |-> Threads * Blocks * OpsPerBlock,
                     inside  |-> inside,
                     sink    |-> sink]
  <2>1. /\ rows \in Seq(RowType)
        /\ round \in 1 .. Len(Counts)
        /\ Len(rows) = round - 1
    BY <1>t DEF TypeOK, RowInv
  <2>2. row \in RowType
    <3>1. Threads * Blocks * OpsPerBlock \in Nat
      BY <1>n, BlocksAssumption DEF OpsPerBlock
    <3> QED BY <3>1, <1>t, <1>n DEF TypeOK, RowType, Workers
  <2>3. /\ rows' \in Seq(RowType)
        /\ Len(rows') = round
        /\ \A k \in 1 .. (round - 1) : rows'[k] = rows[k]
        /\ rows'[round] = row
    <3> HIDE DEF row
    <3>1. rows' = Append(rows, row)
      BY DEF row
    <3> QED BY <3>1, <2>1, <2>2
  <2>4. /\ row.threads = Counts[round]
        /\ \A w \in 1 .. row.threads : row.inside[w] = Blocks
        /\ row.ops = row.threads * Blocks * OpsPerBlock
        /\ row.sink = 1 .. row.threads
    <3>1. sink = 1 .. Threads
      BY <1>t DEF RowInv
    <3>2. \A w \in 1 .. Threads : inside[w] = Blocks
      BY <1>t, <1>n DEF WorkInv, RowInv, Workers
    <3> QED BY <3>1, <3>2 DEF Threads
  <2>5. RowsHonest' /\ EveryResultSunk'
    <3> HIDE DEF row, Row
    <3>1. ASSUME NEW k \in 1 .. Len(rows')
          PROVE  k = round \/ (k \in 1 .. Len(rows) /\ rows'[k] = rows[k])
      <4>1. Len(rows') = round /\ Len(rows) = round - 1
        BY <2>1, <2>3
      <4>2. k \in 1 .. (round - 1) \/ k = round
        BY <4>1, <2>1
      <4>3. CASE k \in 1 .. (round - 1)
        <5>1. rows'[k] = rows[k]
          BY <4>3, <2>3
        <5> QED BY <4>1, <4>3, <5>1
      <4> QED BY <4>2, <4>3
    <3> QED BY <3>1, <2>3, <2>4, <1>s DEF RowsHonest, EveryResultSunk
  <2>6. TypeOK'
    BY <2>3, <1>t DEF TypeOK, Locations
  <2>7. MainInv' /\ WorkerInv' /\ WorkInv'
    BY <1>t DEF MainInv, WorkerInv, WorkInv, Idle, AtGate
  <2>8. RowInv'
    BY <2>3, <1>t DEF RowInv
  <2>9. NoUseAfterFree'
    BY <1>s DEF NoUseAfterFree
  <2> QED BY <2>5, <2>6, <2>7, <2>8, <2>9 DEF IInv
<1>8. CASE Free
  <2> USE <1>8 DEF Free, workVars
  <2>1. round' \in 1 .. Len(Counts) /\ i' = 1
    BY <1>t DEF TypeOK, MainInv
  <2>2. Threads' \in 1 .. MaxThreads
    BY <2>1, CountsAssumption DEF Threads
  <2>3. TypeOK'
    BY <2>1, <2>2, <1>t DEF TypeOK, Locations
  <2>4. MainInv'
    BY <2>1, <1>t DEF MainInv
  <2>5. WorkerInv' /\ WorkInv'
    BY <1>t DEF WorkerInv, WorkInv, Idle, AtGate
  <2>6. RowInv'
    BY <1>t DEF TypeOK, RowInv
  <2>7. NoUseAfterFree'
    BY <1>t DEF WorkerInv, Idle, NoUseAfterFree
  <2>8. RowsHonest' /\ EveryResultSunk'
    BY <1>s DEF RowsHonest, EveryResultSunk
  <2> QED BY <2>3, <2>4, <2>5, <2>6, <2>7, <2>8 DEF IInv
<1> QED
  BY <1>1, <1>2, <1>3, <1>4, <1>5, <1>6, <1>7, <1>8
  DEF Main, Proceed, GiveUp, AllocFails, CreateFails, JoinFails, VariantFails

\* A worker that is neither idle nor at the gate exists only while main joins,
\* and main has not joined it yet.
LEMMA Located ==
    ASSUME TypeOK, WorkerInv, Running, NEW w \in Workers, ~Idle(w)
    PROVE  /\ pc \in {"create", "sleep", "stamp", "release", "join"}
           /\ pc = "join" => w \in i .. Threads
           /\ ~AtGate(w) => pc = "join"
<1>1. /\ w \in 1 .. MaxThreads /\ MaxThreads \in Nat
      /\ i \in 1 .. Threads /\ Threads \in Nat
  BY ThreadsType, CountsAssumption DEF TypeOK, Workers
<1>2. pc \in {"create", "sleep", "stamp", "release", "join"}
  BY DEF TypeOK, Locations, WorkerInv, Running
<1>3. ASSUME pc = "join" PROVE w \in i .. Threads
  <2>1. /\ \A v \in 1 .. (i - 1) : Idle(v)
        /\ \A v \in (Threads + 1) .. MaxThreads : Idle(v)
    BY <1>3 DEF WorkerInv, Idle
  <2>2. w \notin 1 .. (i - 1) /\ w \notin (Threads + 1) .. MaxThreads
    BY <2>1
  <2> QED BY <1>1, <2>2
<1>4. ASSUME ~AtGate(w) PROVE pc = "join"
  <2>1. CASE pc = "create"
    <3>1. w \in 1 .. (i - 1) \/ w \in i .. MaxThreads
      BY <1>1
    <3> QED BY <1>4, <2>1, <3>1 DEF WorkerInv
  <2>2. CASE pc \in {"sleep", "stamp", "release"}
    <3>1. w \in 1 .. Threads \/ w \in (Threads + 1) .. MaxThreads
      BY <1>1
    <3> QED BY <1>4, <2>2, <3>1 DEF WorkerInv
  <2> QED BY <1>2, <2>1, <2>2
<1> QED BY <1>2, <1>3, <1>4

\* The steps of a worker, one case per action.
LEMMA WorkStep == ASSUME NEW w \in Workers PROVE IInv /\ Work(w) => IInv'
<1> SUFFICES ASSUME IInv, Work(w) PROVE IInv'
  OBVIOUS
<1>t. TypeOK /\ MainInv /\ WorkerInv /\ WorkInv /\ RowInv
  BY DEF IInv
<1>s. NoUseAfterFree /\ RowsHonest /\ EveryResultSunk
  BY DEF IInv
<1>m. UNCHANGED mainVars /\ Running /\ UNCHANGED start
  BY DEF Work, Begin, PassGate, Block, Return
<1>u. Threads' = Threads
  BY <1>m DEF mainVars, Threads
<1>n. /\ w \in Nat /\ 1 <= w /\ w <= MaxThreads
      /\ MaxThreads \in Nat \ {0}
      /\ Threads \in 1 .. MaxThreads
      /\ i \in 1 .. Threads
  BY <1>t, ThreadsType, CountsAssumption DEF Workers, TypeOK
<1>h. MainInv' /\ RowsHonest' /\ EveryResultSunk'
  BY <1>t, <1>s, <1>m
  DEF mainVars, MainInv, RowsHonest, EveryResultSunk
<1>1. CASE Begin(w)
  <2>1. worker' = [worker EXCEPT ![w] = "spin"] /\ worker[w] = "created"
    BY <1>1 DEF Begin
  <2>2. TypeOK'
    BY <1>1, <1>t, <1>m, <1>u DEF Begin, mainVars, TypeOK, WorkerStates
  <2>3. WorkerInv'
    <3>1. \A v \in Workers : worker'[v] = IF v = w THEN "spin" ELSE worker[v]
      BY <2>1, <1>t DEF TypeOK
    <3>2. /\ pc \in {"create", "sleep", "stamp", "release", "join"}
          /\ pc = "join" => w \in i .. Threads
      BY <2>1, <1>t, <1>m, Located DEF Idle
    <3>3. \A v \in Workers : /\ Idle(v) => Idle(v)'
                             /\ AtGate(v) => AtGate(v)'
      BY <2>1, <3>1 DEF Idle, AtGate
    <3>4. pc' = pc /\ i' = i
      BY <1>m DEF mainVars
    <3>5. CASE pc = "join"
      <4>1. /\ \A v \in 1 .. (i - 1) : worker'[v] = "joined"
            /\ \A v \in i .. Threads : worker'[v] \notin {"none", "joined"}
            /\ \A v \in (Threads + 1) .. MaxThreads : Idle(v)'
        BY <3>1, <3>2, <3>3, <3>5, <1>t, <1>n DEF WorkerInv, Workers
      <4> QED BY <3>4, <3>5, <4>1, <1>u DEF WorkerInv
    <3>6. CASE pc = "create"
      <4>1. /\ \A v \in 1 .. (i - 1) : AtGate(v)'
            /\ \A v \in i .. MaxThreads : Idle(v)'
        BY <3>3, <3>6, <1>t, <1>n DEF WorkerInv, Workers
      <4> QED BY <3>4, <3>6, <4>1 DEF WorkerInv
    <3>7. CASE pc \in {"sleep", "stamp", "release"}
      <4>1. /\ \A v \in 1 .. Threads : AtGate(v)'
            /\ \A v \in (Threads + 1) .. MaxThreads : Idle(v)'
        BY <3>3, <3>7, <1>t, <1>n DEF WorkerInv, Workers
      <4> QED BY <3>4, <3>7, <4>1, <1>u DEF WorkerInv
    <3> QED BY <3>2, <3>5, <3>6, <3>7
  <2>4. WorkInv'
    BY <1>1, <1>t DEF Begin, TypeOK, WorkInv, AtGate
  <2>5. RowInv'
    BY <2>1, <1>t, <1>m, <1>u, <1>n DEF mainVars, TypeOK, RowInv, Workers
  <2>6. NoUseAfterFree'
    BY <2>1, <1>s, <1>t, <1>m DEF mainVars, TypeOK, NoUseAfterFree
  <2> QED BY <1>h, <2>2, <2>3, <2>4, <2>5, <2>6 DEF IInv
<1>2. CASE PassGate(w)
  <2>1. worker' = [worker EXCEPT ![w] = "kernel"] /\ worker[w] = "spin"
    BY <1>2 DEF PassGate
  <2>7. pc = "join" /\ w \in i .. Threads
    <3>1. ~Idle(w) /\ start = 1
      BY <1>2 DEF PassGate, Idle
    <3> QED BY <3>1, <1>t, <1>m, Located DEF MainInv
  <2>2. TypeOK'
    BY <1>2, <1>t, <1>m, <1>u DEF PassGate, mainVars, TypeOK, WorkerStates
  <2>3. WorkerInv'
    <3>1. \A v \in Workers : worker'[v] = IF v = w THEN "kernel" ELSE worker[v]
      BY <2>1, <1>t DEF TypeOK
    <3>2. /\ \A v \in 1 .. (i - 1) : worker'[v] = "joined"
          /\ \A v \in i .. Threads : worker'[v] \notin {"none", "joined"}
          /\ \A v \in (Threads + 1) .. MaxThreads : Idle(v)'
      BY <3>1, <2>7, <1>t, <1>n DEF WorkerInv, Idle, Workers
    <3>3. pc' = "join" /\ i' = i
      BY <2>7, <1>m DEF mainVars
    <3> QED BY <3>2, <3>3, <1>u DEF WorkerInv
  <2>4. WorkInv'
    BY <1>2, <1>t DEF PassGate, TypeOK, WorkInv, AtGate
  <2>5. RowInv'
    BY <2>7, <1>t, <1>m, <1>u DEF mainVars, RowInv
  <2>6. NoUseAfterFree'
    BY <2>1, <1>s, <1>t, <1>m DEF mainVars, TypeOK, NoUseAfterFree
  <2> QED BY <1>h, <2>2, <2>3, <2>4, <2>5, <2>6 DEF IInv
<1>3. CASE Block(w)
  <2>1. pc = "join" /\ window = TRUE
    <3>1. ~Idle(w) /\ ~AtGate(w)
      BY <1>3 DEF Block, Idle, AtGate
    <3>2. pc = "join"
      BY <3>1, <1>t, <1>m, Located
    <3> QED BY <3>2, <1>t DEF TypeOK, MainInv
  <2>2. /\ inside' = [inside EXCEPT ![w] = @ + 1]
        /\ UNCHANGED <<outside, worker, result>>
        /\ worker[w] = "kernel"
        /\ inside[w] + outside[w] < Blocks
    BY <1>3, <2>1 DEF Block, Executed
  <2>3. TypeOK'
    BY <2>2, <1>t, <1>m, <1>u DEF mainVars, TypeOK
  <2>4. WorkerInv'
    BY <2>1, <2>2, <1>t, <1>m, <1>u DEF mainVars, WorkerInv, Idle
  <2>5. WorkInv'
    BY <2>2, <1>t, BlocksAssumption DEF TypeOK, WorkInv, AtGate
  <2>6. RowInv'
    BY <2>1, <1>t, <1>m, <1>u DEF mainVars, RowInv
  <2>7. NoUseAfterFree'
    BY <2>2, <1>s, <1>m DEF mainVars, NoUseAfterFree
  <2> QED BY <1>h, <2>3, <2>4, <2>5, <2>6, <2>7 DEF IInv
<1>4. CASE Return(w)
  <2>1. /\ worker' = [worker EXCEPT ![w] = "returned"]
        /\ worker[w] = "kernel"
        /\ result' = [result EXCEPT ![w] = TRUE]
        /\ UNCHANGED <<inside, outside>>
    BY <1>4 DEF Return
  <2>7. pc = "join" /\ w \in i .. Threads
    <3>1. ~Idle(w) /\ ~AtGate(w)
      BY <2>1 DEF Idle, AtGate
    <3> QED BY <3>1, <1>t, <1>m, Located
  <2>8. inside[w] = Blocks
    BY <1>4, <1>t, BlocksAssumption DEF Return, Executed, TypeOK, WorkInv
  <2>2. TypeOK'
    BY <2>1, <1>t, <1>m, <1>u DEF mainVars, TypeOK, WorkerStates
  <2>3. WorkerInv'
    <3>1. \A v \in Workers : worker'[v] = IF v = w THEN "returned" ELSE worker[v]
      BY <2>1, <1>t DEF TypeOK
    <3>2. /\ \A v \in 1 .. (i - 1) : worker'[v] = "joined"
          /\ \A v \in i .. Threads : worker'[v] \notin {"none", "joined"}
          /\ \A v \in (Threads + 1) .. MaxThreads : Idle(v)'
      BY <3>1, <2>7, <1>t, <1>n DEF WorkerInv, Idle, Workers
    <3>3. pc' = "join" /\ i' = i
      BY <2>7, <1>m DEF mainVars
    <3> QED BY <3>2, <3>3, <1>u DEF WorkerInv
  <2>4. WorkInv'
    BY <2>1, <2>8, <1>t DEF TypeOK, WorkInv, AtGate
  <2>5. RowInv'
    BY <2>7, <1>t, <1>m, <1>u DEF mainVars, RowInv
  <2>6. NoUseAfterFree'
    BY <2>1, <1>s, <1>t, <1>m DEF mainVars, TypeOK, NoUseAfterFree
  <2> QED BY <1>h, <2>2, <2>3, <2>4, <2>5, <2>6 DEF IInv
<1> QED BY <1>1, <1>2, <1>3, <1>4 DEF Work

\* A step that changes nothing.
LEMMA StutterStep == IInv /\ UNCHANGED vars => IInv'
<1> SUFFICES ASSUME IInv, UNCHANGED vars PROVE IInv'
  OBVIOUS
<1>1. TypeOK' /\ MainInv' /\ WorkerInv' /\ WorkInv' /\ RowInv'
  BY DEF vars, IInv, TypeOK, MainInv, WorkerInv, WorkInv, RowInv, Threads,
         Idle, AtGate
<1>2. NoUseAfterFree' /\ RowsHonest' /\ EveryResultSunk'
  BY DEF vars, IInv, NoUseAfterFree, RowsHonest, EveryResultSunk
<1> QED BY <1>1, <1>2 DEF IInv

\* IInv is inductive: it holds at the start and every step preserves it.
THEOREM Invariance == Spec => []IInv
<1>1. IInv /\ [Next]_vars => IInv'
  BY MainStep, WorkStep, StutterStep DEF Next
<1> QED BY InitInv, <1>1, PTL DEF Spec

\* Every variable keeps its type; main's index stays within the row's arrays.
THEOREM TypeCorrect == Spec => []TypeOK
<1>1. IInv => TypeOK
  BY DEF IInv
<1> QED BY Invariance, <1>1, PTL

\* No worker ever touches the row's arrays or its gate after they are gone.
THEOREM MemorySafe == Spec => []NoUseAfterFree
<1>1. IInv => NoUseAfterFree
  BY DEF IInv
<1> QED BY Invariance, <1>1, PTL

\* Every row's time covers exactly the work the row claims.
THEOREM HonestRows == Spec => []RowsHonest
<1>1. IInv => RowsHonest
  BY DEF IInv
<1> QED BY Invariance, <1>1, PTL

\* No worker does a block before the window opens or after it closes.
THEOREM GateHolds == Spec => []WorkOnlyInWindow
<1>1. IInv => WorkOnlyInWindow
  BY DEF IInv, WorkInv, WorkOnlyInWindow
<1> QED BY Invariance, <1>1, PTL

\* Every row has received the result of each of its workers.
THEOREM ResultsSunk == Spec => []EveryResultSunk
<1>1. IInv => EveryResultSunk
  BY DEF IInv
<1> QED BY Invariance, <1>1, PTL

-----------------------------------------------------------------------------
(* ThreadScaling implements TimedForkJoin *)

\* The abstract phase of each of main's locations.
LEMMA PhaseValues ==
    ASSUME NEW p \in Locations
    PROVE  /\ PhaseAt(p) = "timing" <=> p \in {"release", "join", "stop"}
           /\ PhaseAt(p) = "timed" <=> p \in {"variant", "row"}
           /\ PhaseAt(p) = "ended" <=> p = "done"
           /\ PhaseAt(p) = "aborted" <=> p = "exit"
           /\ PhaseAt(p) = "idle" <=> p \in {"alloc", "create", "sleep",
                                             "stamp", "free"}
  BY DEF Locations, PhaseAt

\* What is published are the thread counts of the first rows.
LEMMA PublishedValues ==
    ASSUME TypeOK
    PROVE  /\ Len(publishedOf) = Len(rows)
           /\ Len(rows) \in Nat
           /\ publishedOf \in Seq(Nat)
           /\ Promise!Current = Counts[Len(rows) + 1]
<1>1. Len(rows) \in Nat
  BY DEF TypeOK
<1>2. ASSUME NEW k \in 1 .. Len(rows) PROVE rows[k].threads \in Nat
  <2>1. rows[k] \in RowType
    BY DEF TypeOK
  <2> QED BY <2>1, CountsAssumption DEF RowType, Workers
<1>3. publishedOf \in Seq(Nat) /\ Len(publishedOf) = Len(rows)
  BY <1>1, <1>2 DEF publishedOf
<1> QED BY <1>1, <1>3 DEF Promise!Current

\* The first state maps to the first state of the fork-join.
LEMMA RefinementInit == Init => Promise!Init
<1> SUFFICES ASSUME Init PROVE Promise!Init
  OBVIOUS
<1>1. phaseOf = "idle"
  BY DEF Init, phaseOf, PhaseAt
<1>2. publishedOf = <<>>
  BY DEF Init, publishedOf
<1> QED BY <1>1, <1>2 DEF Promise!Init, todoOf

\* Every step maps to a step of the fork-join or to none.
LEMMA RefinementStep ==
    ASSUME IInv, IInv', Next
    PROVE  Promise!Next \/ UNCHANGED Promise!vars
<1>t. TypeOK /\ MainInv /\ WorkerInv /\ WorkInv /\ RowInv
  BY DEF IInv
<1>v. pc \in Locations /\ pc' \in Locations
  BY DEF IInv, TypeOK
<1>c. /\ round \in 1 .. Len(Counts) /\ Len(Counts) \in Nat
      /\ i \in 1 .. Threads
      /\ Threads \in 1 .. MaxThreads /\ MaxThreads \in Nat
  BY <1>t, ThreadsType, CountsAssumption DEF TypeOK
<1>r. rows' = rows => publishedOf' = publishedOf
  BY DEF publishedOf
<1>u. round' = round => Threads' = Threads
  BY DEF Threads
<1>1. CASE Alloc \/ Create \/ Sleep
  <2>1. phaseOf = "idle" /\ phaseOf' = "idle" /\ rows' = rows
    BY <1>1, <1>v, PhaseValues DEF Alloc, Create, Sleep, phaseOf
  <2> QED BY <2>1, <1>r DEF todoOf, Promise!vars
<1>2. CASE Exit /\ Running
  <2>1. /\ phaseOf \notin {"ended", "aborted"} /\ phaseOf' = "aborted"
        /\ rows' = rows
    BY <1>2, <1>v, PhaseValues DEF Exit, Running, phaseOf
  <2> QED BY <2>1, <1>r DEF todoOf, Promise!Next, Promise!Abort
<1>3. CASE Stamp
  <2>1. phaseOf = "idle" /\ phaseOf' = "timing" /\ rows' = rows
    BY <1>3, <1>v, PhaseValues DEF Stamp, phaseOf
  <2>2. Len(publishedOf) < Len(Counts) /\ Promise!Current = Threads
    BY <1>3, <1>t, <1>c, PublishedValues DEF Stamp, RowInv, Threads
  <2>3. todoOf' = 1 .. Threads
    <3>1. todoOf' = {w \in 1 .. Threads : worker[w] \notin {"returned", "joined"}}
      BY <1>3, <2>1, <1>u DEF Stamp, workVars, todoOf
    <3>2. \A w \in 1 .. Threads : worker[w] \notin {"returned", "joined"}
      BY <1>3, <1>t DEF Stamp, WorkerInv, AtGate
    <3> QED BY <3>1, <3>2
  <2> QED BY <2>1, <2>2, <2>3, <1>r DEF Promise!Next, Promise!Open
<1>4. CASE Release
  <2>1. phaseOf = "timing" /\ phaseOf' = "timing" /\ rows' = rows
    BY <1>4, <1>v, PhaseValues DEF Release, phaseOf
  <2>2. todoOf' = todoOf
    BY <1>4, <2>1, <1>u DEF Release, workVars, todoOf
  <2> QED BY <2>1, <2>2, <1>r DEF Promise!vars
<1>5. CASE Join
  <2>1. phaseOf = "timing" /\ phaseOf' = "timing" /\ rows' = rows
    BY <1>5, <1>v, PhaseValues DEF Join, phaseOf
  <2>2. \A w \in 1 .. Threads : worker'[w] = IF w = i THEN "joined" ELSE worker[w]
    BY <1>5, <1>t, <1>c DEF Join, TypeOK, Workers
  <2>3. todoOf' = todoOf
    <3>1. \A w \in 1 .. Threads :
             worker'[w] \in {"returned", "joined"} <=>
             worker[w] \in {"returned", "joined"}
      BY <1>5, <2>2 DEF Join
    <3> QED BY <1>5, <2>1, <3>1, <1>u DEF Join, todoOf
  <2> QED BY <2>1, <2>3, <1>r DEF Promise!vars
<1>6. CASE Stop
  <2>1. phaseOf = "timing" /\ phaseOf' = "timed" /\ rows' = rows
    BY <1>6, <1>v, PhaseValues DEF Stop, phaseOf
  <2>2. todoOf = {} /\ todoOf' = {}
    BY <1>6, <2>1, <1>t DEF Stop, RowInv, todoOf
  <2> QED BY <2>1, <2>2, <1>r DEF Promise!Next, Promise!Close
<1>7. CASE Variant
  <2>1. phaseOf = "timed" /\ phaseOf' = "timed" /\ rows' = rows
    BY <1>7, <1>v, PhaseValues DEF Variant, phaseOf
  <2> QED BY <2>1, <1>r DEF todoOf, Promise!vars
<1>8. CASE Row
  <2>1. phaseOf = "timed" /\ phaseOf' = "idle"
    BY <1>8, <1>v, PhaseValues DEF Row, phaseOf
  <2>2. Promise!Current = Threads
    BY <1>8, <1>t, <1>c, PublishedValues DEF Row, RowInv, Threads
  <2>3. publishedOf' = Append(publishedOf, Threads)
    <3> DEFINE row == [threads |-> Threads,
                       ops     |-> Threads * Blocks * OpsPerBlock,
                       inside  |-> inside,
                       sink    |-> sink]
    <3>1. rows \in Seq(RowType) /\ rows' = Append(rows, row)
      BY <1>8, <1>t DEF Row, TypeOK
    <3>2. row.threads = Threads
      OBVIOUS
    <3> HIDE DEF row
    <3>3. /\ Len(rows) \in Nat /\ Len(rows') = Len(rows) + 1
          /\ \A k \in 1 .. Len(rows) : rows'[k] = rows[k]
          /\ rows'[Len(rows) + 1] = row
      BY <3>1
    <3>4. /\ publishedOf' = [k \in 1 .. (Len(rows) + 1) |->
                              IF k = Len(rows) + 1 THEN Threads
                                                   ELSE rows[k].threads]
          /\ publishedOf \in Seq(Nat) /\ Len(publishedOf) = Len(rows)
      BY <3>2, <3>3, <1>t, PublishedValues DEF publishedOf
    <3> QED BY <3>3, <3>4 DEF publishedOf
  <2> QED BY <2>1, <2>2, <2>3 DEF todoOf, Promise!Next, Promise!Publish
<1>9. CASE Free
  <2>1. CASE round < Len(Counts)
    <3>1. phaseOf = "idle" /\ phaseOf' = "idle" /\ rows' = rows
      BY <1>9, <2>1, <1>v, PhaseValues DEF Free, phaseOf
    <3> QED BY <3>1, <1>r DEF todoOf, Promise!vars
  <2>2. CASE round = Len(Counts)
    <3>1. phaseOf = "idle" /\ phaseOf' = "ended" /\ rows' = rows
      BY <1>9, <2>2, <1>v, <1>c, PhaseValues DEF Free, phaseOf
    <3>2. Len(publishedOf) = Len(Counts)
      BY <1>9, <2>2, <1>t, PublishedValues DEF Free, RowInv
    <3> QED BY <3>1, <3>2, <1>r DEF todoOf, Promise!Next, Promise!End
  <2> QED BY <2>1, <2>2, <1>c
<1>10. CASE \E w \in Workers : Work(w)
  <2>1. PICK w \in Workers : Work(w)
    BY <1>10
  <2>2. /\ phaseOf' = phaseOf /\ rows' = rows /\ pc' = pc
        /\ Threads' = Threads /\ Running
    BY <2>1, <1>u DEF Work, mainVars, phaseOf
  <2>3. CASE Begin(w) \/ PassGate(w) \/ Block(w)
    <3>1. \A v \in Workers : worker'[v] \in {"returned", "joined"} <=>
                             worker[v] \in {"returned", "joined"}
      BY <2>3, <1>t DEF Begin, PassGate, Block, TypeOK
    <3>2. \A v \in 1 .. Threads : worker'[v] \notin {"returned", "joined"} <=>
                                   worker[v] \notin {"returned", "joined"}
      BY <3>1, <1>c DEF Workers
    <3>3. todoOf' = todoOf
      BY <2>2, <3>2 DEF todoOf
    <3> QED BY <2>2, <3>3, <1>r DEF Promise!vars
  <2>4. CASE Return(w)
    <3>1. pc = "join" /\ w \in i .. Threads
      <4>1. ~Idle(w) /\ ~AtGate(w)
        BY <2>4 DEF Return, Idle, AtGate
      <4> QED BY <4>1, <2>2, <1>t, Located
    <3>2. phaseOf = "timing" /\ w \in 1 .. Threads
      BY <3>1, <1>v, <1>c, PhaseValues DEF phaseOf
    <3>3. \A v \in 1 .. Threads :
             worker'[v] = IF v = w THEN "returned" ELSE worker[v]
      BY <2>4, <1>t, <1>c DEF Return, TypeOK, Workers
    <3>4. w \in todoOf
      BY <2>4, <3>2 DEF Return, todoOf
    <3>5. todoOf' = todoOf \ {w}
      BY <2>2, <3>2, <3>3 DEF todoOf
    <3> QED BY <2>2, <3>2, <3>4, <3>5, <1>r
            DEF Promise!Next, Promise!Finish
  <2> QED BY <2>1, <2>3, <2>4 DEF Work
<1> QED
  BY <1>1, <1>2, <1>3, <1>4, <1>5, <1>6, <1>7, <1>8, <1>9, <1>10
  DEF Next, Main, Proceed, GiveUp, AllocFails, CreateFails, JoinFails, VariantFails, Running

\* The threaded program keeps the promise of the timed fork-join: rows in the
\* order of Counts, one window each, every worker's share done inside it.
THEOREM Implements == Spec => Refinement
<1>1. IInv /\ IInv' /\ [Next]_vars => [Promise!Next]_(Promise!vars)
  <2>1. ASSUME UNCHANGED vars PROVE UNCHANGED Promise!vars
    BY <2>1 DEF vars, Promise!vars, phaseOf, todoOf, publishedOf, Threads
  <2> QED BY <2>1, RefinementStep
<1> QED BY RefinementInit, Invariance, <1>1, PTL
        DEF Spec, Refinement, Promise!Spec
=============================================================================
