-------------------------- MODULE CommandLineProofs --------------------------
(***************************************************************************)
(* Proofs about CommandLine, for lines of any length over any arguments    *)
(* and for any width of the numbers.                                       *)
(***************************************************************************)
EXTENDS CommandLine, IntegerFacts

AppleOptions == [smoke : BOOLEAN, csv : BOOLEAN,
                 samples : 1 .. 1000, count : 1 .. Word]
GpuOptions == [probe : Words, gpu : 0 .. IntMax, gpus : Seq(0 .. IntMax),
               mode : Words, iterations : 0 .. IntMax,
               mem_sizes : Seq(1 .. Word), bytes : 0 .. Word,
               output : Words, help : BOOLEAN]

\* A sequence whose elements are all in S is a sequence over S.
LEMMA SeqOver ==
    ASSUME NEW S, NEW s \in Seq(Int), \A j \in DOMAIN s : s[j] \in S
    PROVE  s \in Seq(S)
  OBVIOUS

\* And all elements of a sequence over S are in S.
LEMMA AllElements ==
    ASSUME NEW S, NEW s \in Seq(S)
    PROVE  \A j \in DOMAIN s : s[j] \in S
  OBVIOUS

\* A sequence without an element is the empty one.
LEMMA NotEmpty ==
    ASSUME NEW S, NEW s \in Seq(S), s # <<>>
    PROVE  DOMAIN s # {}
<1>1. Len(s) \in Nat /\ DOMAIN s = 1 .. Len(s) /\ Len(s) # 0
  OBVIOUS
<1>2. 1 \in DOMAIN s
  BY <1>1
<1> QED BY <1>2

\* A multiple of the quarter of a word is all that a multiplication with four
\* takes to zero.
LEMMA TimesFourType ==
    ASSUME NEW n \in Nat
    PROVE  TimesFour(n) \in Nat /\ (n % (Word \div 4) # 0 => TimesFour(n) > 0)
<1> DEFINE q == Word \div 4
<1>1. q \in Nat \ {0}
  <2>1. Word \in Nat /\ 1000000000 < Word /\ Word % 4 = 0
    BY CommandLineAssumption
  <2> QED BY ONLY <2>1
<1> HIDE DEF q
<1>2. n % q \in 0 .. (q - 1)
  BY ONLY <1>1, DivMod, n \in Int
<1>3. TimesFour(n) = (n % q) * 4
  BY DEF TimesFour, q
<1>4. TimesFour(n) \in Nat /\ (n % q # 0 => TimesFour(n) > 0)
  BY ONLY <1>1, <1>2, <1>3
<1> QED BY <1>4 DEF q

\* The sizes of the smoke mode have elements, and no more than fit.
LEMMA SmokeElements ==
    ASSUME NEW bytes \in SmokeSizes
    PROVE  bytes \div 4 \in Nat /\ 0 < bytes \div 4 /\ bytes \div 4 <= 67108864
  BY DEF SmokeSizes

\* A number below the modulus is its own remainder.
LEMMA SmallMod ==
    ASSUME NEW N \in Nat, NEW x \in Nat, x < N
    PROVE  x % N = x
<1>1. N \in Nat \ {0} /\ x \in 0 .. (N - 1) /\ 0 \in Int /\ N * 0 + x = x
  OBVIOUS
<1> QED BY ONLY <1>1, ModUnique

\* A size without an element is one of a few bytes more than all the elements
\* a 32-bit count goes round in.
LEMMA ElementsType ==
    ASSUME NEW bytes \in Nat
    PROVE  Elements(bytes) > 0 \/ bytes % (4 * Word32) < 4
<1> DEFINE e == bytes \div 4
           q == e \div Word32
           r == bytes % 4
<1>c. Word32 \in Nat \ {0} /\ 4 * Word32 \in Nat \ {0} /\ 4 <= 4 * Word32
  <2>1. Word32 \in Nat /\ 100000000 < Word32
    BY CommandLineAssumption
  <2> QED BY ONLY <2>1
<1>1. e \in Nat /\ r \in 0 .. 3 /\ bytes = 4 * e + r
  OBVIOUS
<1> HIDE DEF e, r
<1>2. /\ e % Word32 \in 0 .. (Word32 - 1) /\ q \in Int
      /\ e = Word32 * q + (e % Word32)
  BY ONLY <1>c, <1>1, DivMod, e \in Int DEF q
<1> HIDE DEF q
<1>3. CASE e % Word32 = 0
  <2>1. e = Word32 * q
    BY ONLY <1>2, <1>3, <1>c
  <2>2. 4 * (Word32 * q) = (4 * Word32) * q
    BY ONLY <1>2, <1>c
  <2>3. bytes = (4 * Word32) * q + r
    BY ONLY <1>1, <2>1, <2>2
  <2>4. r \in 0 .. (4 * Word32 - 1)
    BY ONLY <1>1, <1>c
  <2>5. ((4 * Word32) * q + r) % (4 * Word32) = r
    BY ONLY <1>c, <1>2, <2>4, ModUnique
  <2> QED BY ONLY <1>1, <2>3, <2>5
<1>4. CASE e % Word32 # 0
  BY ONLY <1>2, <1>4, <1>c DEF Elements, e
<1> QED BY <1>3, <1>4

\* The program starts at the first argument with its defaults.
LEMMA InitC == Init => TypeOK /\ OptionsFit
<1> SUFFICES ASSUME Init PROVE TypeOK /\ OptionsFit
  OBVIOUS
<1>c. /\ Word \in Nat /\ IntMax \in Nat /\ 1000000000 < Word
      /\ prog \in Apple \cup {"nvidia"}
  BY CommandLineAssumption DEF Init
<1>1. argv \in Seq(Args[prog])
  <2>1. PICK n \in 0 .. MaxArgs[prog] : argv \in [1 .. n -> Args[prog]]
    BY DEF Init, Line
  <2>2. MaxArgs[prog] \in Nat
    BY CommandLineAssumption DEF Init
  <2> QED BY <2>1, <2>2
<1>2. opts = Defaults(prog)
  BY DEF Init
<1>3. CASE prog \in Apple
  <2>1. Default(prog) \in 1 .. Word
    BY <1>3, <1>c DEF Default, Apple
  <2>2. opts \in AppleOptions
    BY <1>2, <1>3, <1>c, <2>1 DEF Defaults, AppleOptions
  <2>3. TypeOK
    BY <1>1, <1>3, <2>2 DEF TypeOK, Init, AppleOptions
  <2> QED BY <2>3 DEF Init, OptionsFit
<1>4. CASE prog \notin Apple
  <2>1. opts \in GpuOptions
    <3>1. /\ {"all", "smoke", "results/latest.json"} \subseteq Words
          /\ 0 \in 0 .. IntMax /\ 0 \in 0 .. Word
      BY <1>c, CommandLineAssumption
    <3>2. opts = [probe |-> "all", gpu |-> 0, gpus |-> <<>>, mode |-> "smoke",
                  iterations |-> 0, mem_sizes |-> <<>>, bytes |-> 0,
                  output |-> "results/latest.json", help |-> FALSE]
      BY <1>2, <1>4 DEF Defaults
    <3> QED BY <3>1, <3>2 DEF GpuOptions
  <2>2. TypeOK
    BY <1>1, <1>4, <2>1 DEF TypeOK, Init, GpuOptions
  <2> QED BY <2>2 DEF Init, OptionsFit
<1> QED BY <1>3, <1>4

\* A step of the loop keeps the types if the options it sets have theirs.
LEMMA TakeC ==
    ASSUME TypeOK, NEW f, NEW ok, NEW o, Take(f, ok, o),
           i < Len(argv) /\ ok =>
             o \in IF prog \in Apple THEN AppleOptions ELSE GpuOptions
    PROVE  TypeOK' /\ OptionsFit'
<1>1. CASE i < Len(argv) /\ ok
  <2>1. /\ opts' = o /\ i' = i + 2 /\ prog' = prog /\ argv' = argv
        /\ pc' = pc /\ pc = "parse"
    BY <1>1 DEF Take, At, Set
  <2>2. argv \in Seq(Args[prog]) /\ i \in 1 .. (Len(argv) + 1)
    BY DEF TypeOK
  <2>3. i' \in 1 .. (Len(argv') + 1)
    BY <2>1, <2>2, <1>1
  <2>4. TypeOK'
    BY <1>1, <2>1, <2>2, <2>3 DEF TypeOK, AppleOptions, GpuOptions
  <2> QED BY <2>1, <2>4 DEF OptionsFit
<1>2. CASE ~(i < Len(argv) /\ ok)
  <2>1. /\ opts' = opts /\ i' = i /\ prog' = prog /\ argv' = argv
        /\ pc' = "refused"
    BY <1>2 DEF Take, Refuse, Stop
  <2>2. TypeOK'
    BY <2>1 DEF TypeOK
  <2> QED BY <2>1, <2>2 DEF OptionsFit
<1> QED BY <1>1, <1>2

\* And so does a step over an option without a value.
LEMMA NextC ==
    ASSUME TypeOK, NEW f, NEW o, At(f), Set(o, 1),
           opts' \in IF prog \in Apple THEN AppleOptions ELSE GpuOptions
    PROVE  TypeOK' /\ OptionsFit'
<1>1. /\ i' = i + 1 /\ prog' = prog /\ argv' = argv /\ pc' = pc /\ pc = "parse"
      /\ i <= Len(argv) /\ argv \in Seq(Args[prog]) /\ i \in 1 .. (Len(argv) + 1)
  BY DEF At, Set, TypeOK
<1>2. i' \in 1 .. (Len(argv') + 1)
  BY <1>1
<1>3. TypeOK'
  BY <1>1, <1>2 DEF TypeOK, AppleOptions, GpuOptions
<1> QED BY <1>1, <1>3 DEF OptionsFit

\* The value of an option, if there is one, is an argument.
LEMMA ValueType ==
    ASSUME TypeOK, i < Len(argv)
    PROVE  Value \in Arg
<1>1. i + 1 \in 1 .. Len(argv) /\ Args[prog] \subseteq Arg
  BY CommandLineAssumption DEF TypeOK
<1> QED BY <1>1 DEF TypeOK, Value

\* What is left of a number of blocks.
LEMMA CountType ==
    ASSUME NEW n \in 1 .. Word, prog \in Apple
    PROVE  /\ Count(n) \in 1 .. Word
           /\ prog # "advanced" => Count(n) >= 8 /\ Count(n) % 8 = 0
<1>1. Word \in Nat /\ 1000000000 < Word
  BY CommandLineAssumption
<1>2. ASSUME NEW x \in Nat
      PROVE  /\ Rounded(x) \in Nat /\ Rounded(x) <= x /\ Rounded(x) % 8 = 0
             /\ x >= 8 => Rounded(x) >= 8
  BY DEF Rounded
<1>3. n \in Nat /\ Rounded(n) \in Nat /\ 8 \in Nat
  BY <1>1, <1>2
<1> QED BY <1>1, <1>2, <1>3 DEF Count, Apple

\* The steps of the Apple programs.
LEMMA AppleC ==
    ASSUME TypeOK, Smoke \/ Csv \/ Samples \/ Blocks \/ Usage \/ Accept
    PROVE  TypeOK' /\ OptionsFit'
<1>c. Word \in Nat /\ 1000000000 < Word
  BY CommandLineAssumption
<1>a. prog \in Apple /\ opts \in AppleOptions
  BY DEF Smoke, Csv, Samples, Blocks, Usage, Accept, TypeOK, AppleOptions
<1>1. CASE Smoke
  <2>1. SmokeCount \in 1 .. Word
    BY <1>a, <1>c DEF SmokeCount, Apple
  <2>2. opts' \in AppleOptions
    <3>1. opts' = [smoke |-> TRUE, csv |-> opts.csv, samples |-> 3,
                   count |-> SmokeCount]
      BY <1>1 DEF Smoke, Set
    <3> QED BY ONLY <2>1, <3>1, <1>a DEF AppleOptions
  <2> QED BY <1>1, <1>a, <2>2, NextC DEF Smoke
<1>2. CASE Csv
  <2>1. opts' \in AppleOptions
    <3>1. opts' = [opts EXCEPT !.csv = TRUE]
      BY <1>2 DEF Csv, Set
    <3>2. ASSUME NEW b \in BOOLEAN PROVE [opts EXCEPT !.csv = b] \in AppleOptions
      BY ONLY <1>a DEF AppleOptions
    <3> QED BY ONLY <3>1, <3>2
  <2> QED BY <1>2, <1>a, <2>1, NextC DEF Csv
<1>3. CASE Samples
  <2> DEFINE ok == parse_u64_ok(Value) /\ parse_u64(Value) \in 1 .. 1000
             o == [opts EXCEPT !.samples = parse_u64(Value)]
  <2>1. ASSUME ok PROVE o \in AppleOptions
    <3>1. parse_u64(Value) \in 1 .. 1000
      BY <2>1
    <3> QED BY ONLY <3>1, <1>a DEF AppleOptions
  <2>2. Take("--samples", ok, o)
    BY <1>3 DEF Samples
  <2> HIDE DEF ok, o
  <2> QED BY <2>1, <2>2, <1>a, TakeC
<1>4. CASE Blocks
  <2> DEFINE ok == parse_u64_ok(Value) /\ parse_u64(Value) # 0
             o == [opts EXCEPT !.count = parse_u64(Value)]
  <2>1. ASSUME i < Len(argv), ok PROVE o \in AppleOptions
    <3>1. Value.pieces[1] \in Int
      BY <2>1, <1>a, <1>c DEF parse_u64_ok
    <3>2. parse_u64(Value) \in 1 .. Word
      BY <2>1, <3>1, <1>c DEF parse_u64
    <3> QED BY ONLY <3>2, <1>a DEF AppleOptions
  <2>2. Take(CountOption, ok, o)
    BY <1>4 DEF Blocks
  <2> HIDE DEF ok, o
  <2> QED BY <2>1, <2>2, <1>a, TakeC
<1>5. CASE Usage
  BY <1>5 DEF Usage, Stop, TypeOK, OptionsFit
<1>6. CASE Accept
  <2>1. /\ Count(opts.count) \in 1 .. Word
        /\ prog # "advanced" =>
             Count(opts.count) >= 8 /\ Count(opts.count) % 8 = 0
    BY <1>a, CountType DEF AppleOptions
  <2>2. /\ opts' = [opts EXCEPT !.count = Count(opts.count)]
        /\ pc' = "run" /\ UNCHANGED <<prog, argv, i>>
    BY <1>6 DEF Accept
  <2>3. opts' \in AppleOptions /\ opts'.count = Count(opts.count)
    BY <2>1, <2>2, <1>a DEF AppleOptions
  <2>4. TypeOK'
    BY <2>2, <2>3, <1>a DEF TypeOK, AppleOptions
  <2>5. OptionsFit'
    <3>1. /\ opts'.count \in Nat /\ opts'.count > 0 /\ prog' = prog
          /\ prog # "advanced" => opts'.count >= 8 /\ opts'.count % 8 = 0
          /\ opts'.samples \in 1 .. 1000
      BY <2>1, <2>2, <2>3, <1>a, <1>c DEF AppleOptions
    <3>2. /\ TimesFour(opts'.count) \in Nat
          /\ opts'.count % (Word \div 4) # 0 => TimesFour(opts'.count) > 0
      <4>1. opts'.count \in Nat
        BY <3>1
      <4> QED BY ONLY <4>1, TimesFourType
    <3>3. \/ \A n \in Shares' : n > 0
          \/ /\ prog' = "advanced" /\ ~opts'.smoke
             /\ opts'.count % (Word \div 4) = 0
      <4>1. CASE prog' = "advanced" /\ ~opts'.smoke
        <5>1. Shares' = {opts'.count, AtLeast(opts'.count \div 4, 1000),
                         TimesFour(opts'.count)}
          BY <4>1 DEF Shares, AtLeast, TimesFour
        <5>2. AtLeast(opts'.count \div 4, 1000) > 0
          BY <3>1 DEF AtLeast
        <5> QED BY <5>1, <5>2, <3>1, <3>2, <4>1
      <4>2. CASE prog' = "advanced" /\ opts'.smoke
        <5>1. Shares' = {opts'.count, AtLeast(opts'.count \div 8, 1000)}
          BY <4>2 DEF Shares, AtLeast
        <5>2. AtLeast(opts'.count \div 8, 1000) > 0
          BY <3>1 DEF AtLeast
        <5> QED BY <5>1, <5>2, <3>1
      <4>3. CASE prog' # "advanced"
        BY <3>1, <4>3 DEF Shares, AtLeast
      <4> QED BY <4>1, <4>2, <4>3
    <3> QED BY <3>1, <3>3, <1>a, <2>2 DEF OptionsFit
  <2> QED BY <2>4, <2>5
<1> QED BY <1>1, <1>2, <1>3, <1>4, <1>5, <1>6

\* The steps of the program for the GPUs.
LEMMA GpuC ==
    ASSUME TypeOK, Help \/ Text \/ Gpu \/ IterationsOption \/ Memory \/ Check
    PROVE  TypeOK' /\ OptionsFit'
<1>c. Word \in Nat /\ IntMax \in Nat /\ 1000000000 < IntMax /\ IntMax < Word
  BY CommandLineAssumption
<1>a. prog \notin Apple /\ prog = "nvidia" /\ opts \in GpuOptions
  <2>1. prog = "nvidia"
    BY DEF Help, Text, Gpu, IterationsOption, Memory, Check
  <2>2. prog \notin Apple
    BY ONLY <2>1 DEF Apple
  <2> QED BY ONLY <2>1, <2>2, TypeOK DEF TypeOK, GpuOptions
<1>v. ASSUME i < Len(argv)
      PROVE  Value.word \in Words /\ Value.pieces \in Seq(Int)
  BY <1>v, ValueType DEF Arg
<1>1. CASE Help
  <2>1. opts' \in GpuOptions
    <3>1. opts' = [opts EXCEPT !.help = TRUE]
      BY <1>1 DEF Help, Set
    <3> QED BY ONLY <3>1, <1>a DEF GpuOptions
  <2> QED BY <1>1, <1>a, <2>1, NextC DEF Help
<1>2. CASE Text
  <2>1. i < Len(argv) =>
          /\ [opts EXCEPT !.probe = Value.word] \in GpuOptions
          /\ [opts EXCEPT !.mode = Value.word] \in GpuOptions
          /\ [opts EXCEPT !.output = Value.word] \in GpuOptions
    BY ONLY <1>v, <1>a DEF GpuOptions
  <2> QED BY <1>2, <2>1, <1>a, TakeC DEF Text
<1>3. CASE Gpu
  <2>1. CASE Take("--gpu", parse_int_ok(Value),
                  [opts EXCEPT !.gpu = Value.pieces[1]])
    <3>1. parse_int_ok(Value) =>
            [opts EXCEPT !.gpu = Value.pieces[1]] \in GpuOptions
      BY ONLY <1>a DEF parse_int_ok, GpuOptions
    <3> QED BY <2>1, <3>1, <1>a, TakeC
  <2>2. CASE Take("--gpus", parse_gpu_csv_ok(Value),
                  [opts EXCEPT !.gpus = Value.pieces])
    <3>1. ASSUME i < Len(argv), parse_gpu_csv_ok(Value)
          PROVE  [opts EXCEPT !.gpus = Value.pieces] \in GpuOptions
      <4>1. Value.pieces \in Seq(0 .. IntMax)
        BY <3>1, <1>v, SeqOver DEF parse_gpu_csv_ok
      <4> QED BY ONLY <4>1, <1>a DEF GpuOptions
    <3> QED BY <2>2, <3>1, <1>a, TakeC
  <2> QED BY <1>3, <2>1, <2>2 DEF Gpu
<1>4. CASE IterationsOption
  <2>1. parse_int_ok(Value) =>
          [opts EXCEPT !.iterations = Value.pieces[1]] \in GpuOptions
    BY ONLY <1>a DEF parse_int_ok, GpuOptions
  <2> QED BY <1>4, <2>1, <1>a, TakeC DEF IterationsOption
<1>5. CASE Memory
  <2>1. CASE Take("--mem-sizes", parse_u64_csv_ok(Value),
                  [opts EXCEPT !.mem_sizes = Value.pieces])
    <3>1. ASSUME i < Len(argv), parse_u64_csv_ok(Value)
          PROVE  [opts EXCEPT !.mem_sizes = Value.pieces] \in GpuOptions
      <4>1. Value.pieces \in Seq(1 .. Word)
        BY <3>1, <1>v, <1>c, SeqOver DEF parse_u64_csv_ok
      <4> QED BY ONLY <4>1, <1>a DEF GpuOptions
    <3> QED BY <2>1, <3>1, <1>a, TakeC
  <2>2. CASE Take("--bytes", parse_u64_ok(Value),
                  [opts EXCEPT !.bytes = parse_u64(Value)])
    <3>1. ASSUME parse_u64_ok(Value)
          PROVE  [opts EXCEPT !.bytes = parse_u64(Value)] \in GpuOptions
      <4>1. parse_u64(Value) \in 0 .. Word
        BY <3>1, <1>a, <1>c DEF parse_u64_ok, parse_u64
      <4> QED BY ONLY <4>1, <1>a DEF GpuOptions
    <3> QED BY <2>2, <3>1, <1>a, TakeC
  <2> QED BY <1>5, <2>1, <2>2 DEF Memory
<1>6. CASE Check
  <2>1. /\ UNCHANGED <<prog, argv, i, opts>>
        /\ pc' \in {"run", "help", "refused"}
        /\ pc' = "run" => is_valid_probe(opts.probe) /\ is_valid_mode(opts.mode)
                            /\ opts.output # "" /\ ~opts.help
    <3> DEFINE right == /\ is_valid_probe(opts.probe)
                        /\ is_valid_mode(opts.mode) /\ opts.output # ""
    <3>1. Stop(IF right THEN IF opts.help THEN "help" ELSE "run"
                        ELSE "refused")
      BY <1>6 DEF Check
    <3> HIDE DEF right
    <3>2. /\ UNCHANGED <<prog, argv, i, opts>>
          /\ pc' \in {"run", "help", "refused"}
          /\ pc' = "run" => right /\ ~opts.help
      BY ONLY <3>1 DEF Stop
    <3> QED BY <3>2 DEF right
  <2>2. TypeOK'
    <3>1. prog' = prog /\ argv' = argv /\ i' = i /\ opts' = opts
      BY ONLY <2>1
    <3>2. pc' \in {"parse", "run", "help", "refused"}
      BY ONLY <2>1
    <3> QED BY ONLY <3>1, <3>2, TypeOK DEF TypeOK
  <2>3. OptionsFit'
    <3>1. /\ opts.gpu \in 0 .. IntMax
          /\ \A j \in DOMAIN opts.gpus : opts.gpus[j] \in 0 .. IntMax
      <4>1. opts.gpu \in 0 .. IntMax
        BY <1>a DEF GpuOptions
      <4>2. opts.gpus \in Seq(0 .. IntMax)
        BY <1>a DEF GpuOptions
      <4> QED BY <4>1, <4>2, AllElements
    <3>2. Iterations \in 1 .. IntMax /\ Bytes > 0
      BY <1>a, <1>c DEF GpuOptions, Iterations, Bytes
    <3>3. Sizes # {}
      <4>1. CASE opts.mem_sizes = <<>>
        BY <4>1 DEF Sizes, SmokeSizes
      <4>2. CASE opts.mem_sizes # <<>>
        <5>1. opts.mem_sizes \in Seq(1 .. Word)
          BY <1>a DEF GpuOptions
        <5>2. DOMAIN opts.mem_sizes # {}
          BY <5>1, <4>2, NotEmpty
        <5>3. Sizes = {opts.mem_sizes[j] : j \in DOMAIN opts.mem_sizes}
          BY <4>2 DEF Sizes
        <5> QED BY ONLY <5>2, <5>3
      <4> QED BY <4>1, <4>2
    <3>4. ASSUME NEW bytes \in Sizes
          PROVE  \/ Elements(bytes) > 0
                 \/ /\ opts.mem_sizes # <<>>
                    /\ bytes > 0 /\ bytes % (4 * Word32) < 4
      <4>1. CASE opts.mem_sizes = <<>>
        <5>1. bytes \in SmokeSizes
          BY <4>1 DEF Sizes
        <5>2. bytes \div 4 \in Nat /\ 0 < bytes \div 4 /\ bytes \div 4 <= 67108864
          BY ONLY <5>1, SmokeElements
        <5>3. Word32 \in Nat /\ 100000000 < Word32
          BY CommandLineAssumption
        <5>4. (bytes \div 4) % Word32 = bytes \div 4
          BY ONLY <5>2, <5>3, SmallMod
        <5>5. Elements(bytes) = bytes \div 4
          BY ONLY <5>4 DEF Elements
        <5>6. Elements(bytes) > 0
          BY ONLY <5>2, <5>5
        <5> QED BY ONLY <5>6
      <4>2. CASE opts.mem_sizes # <<>>
        <5>1. opts.mem_sizes \in Seq(1 .. Word)
          BY <1>a DEF GpuOptions
        <5>2. \A j \in DOMAIN opts.mem_sizes : opts.mem_sizes[j] \in 1 .. Word
          BY <5>1, AllElements
        <5>3. bytes \in 1 .. Word
          BY ONLY <5>2, <4>2, <3>4 DEF Sizes
        <5>4. bytes \in Nat /\ bytes > 0
          BY ONLY <5>3, <1>c
        <5> QED BY ONLY <5>4, <4>2, ElementsType
      <4> QED BY <4>1, <4>2
    <3>5. Iterations' = Iterations /\ Bytes' = Bytes /\ Sizes' = Sizes
      <4>1. opts' = opts
        BY <2>1
      <4>2. Sizes' = Sizes
        BY <4>1 DEF Sizes
      <4> QED BY <4>1, <4>2 DEF Iterations, Bytes
    <3>6. ASSUME pc' = "run"
          PROVE  OptionsFit'
      <4>1. /\ prog' = prog /\ opts' = opts
            /\ is_valid_probe(opts.probe) /\ is_valid_mode(opts.mode)
            /\ opts.output # "" /\ ~opts.help
        BY ONLY <2>1, <3>6
      <4>2. /\ is_valid_probe(opts.probe)' = is_valid_probe(opts.probe)
            /\ is_valid_mode(opts.mode)' = is_valid_mode(opts.mode)
        BY <4>1 DEF is_valid_probe, is_valid_mode
      <4> QED BY <4>1, <4>2, <3>1, <3>2, <3>3, <3>4, <3>5, <1>a
              DEF OptionsFit, Elements
    <3> QED BY <3>6 DEF OptionsFit
  <2> QED BY <2>2, <2>3
<1> QED BY <1>1, <1>2, <1>3, <1>4, <1>5, <1>6

\* Every step of a program, or none.
LEMMA StepC == TypeOK /\ OptionsFit /\ [Next]_vars => TypeOK' /\ OptionsFit'
<1> SUFFICES ASSUME TypeOK, OptionsFit, [Next]_vars
             PROVE  TypeOK' /\ OptionsFit'
  OBVIOUS
<1>1. CASE Unknown
  BY <1>1 DEF Unknown, Refuse, Stop, TypeOK, OptionsFit
<1>2. CASE UNCHANGED vars
  <2>1. TypeOK'
    BY <1>2 DEF vars, TypeOK
  <2>2. OptionsFit'
    <3>1. pc' = pc /\ prog' = prog /\ opts' = opts
      BY <1>2 DEF vars
    <3>2. Sizes' = Sizes /\ Shares' = Shares
      BY <3>1 DEF Sizes, Shares, AtLeast, TimesFour
    <3>3. /\ Iterations' = Iterations /\ Bytes' = Bytes
          /\ is_valid_probe(opts.probe)' = is_valid_probe(opts.probe)
          /\ is_valid_mode(opts.mode)' = is_valid_mode(opts.mode)
      BY <3>1 DEF Iterations, Bytes, is_valid_probe, is_valid_mode
    <3> QED BY <3>1, <3>2, <3>3 DEF OptionsFit, Elements
  <2> QED BY <2>1, <2>2
<1> QED BY <1>1, <1>2, AppleC, GpuC DEF Next

\* Whatever the line, what a program goes on with is what its probes are made
\* for, and no argument past the last is read.
THEOREM FittingOptions == Spec => [](TypeOK /\ OptionsFit)
  BY InitC, StepC, PTL DEF Spec

\* The same for the types alone.
THEOREM LineTypes == Spec => []TypeOK
  BY FittingOptions, PTL

-----------------------------------------------------------------------------
(* What a line means, read from its start *)

\* The equation IsOption is defined by, for a line of N arguments.
Solves(f, N, V, a) ==
    f = [j \in 1 .. N |-> j = 1 \/ ~(f[j - 1] /\ a[j - 1].word \in V)]

\* Which arguments are options and which are their values: the definition by
\* recursion has a solution, as the last argument that is no option with a
\* value is at an even or an odd distance.
LEMMA OptionsExist ==
    ASSUME NEW N \in Nat, NEW V, NEW a
    PROVE  \E f : Solves(f, N, V, a)
<1> DEFINE Starts(j, n) ==
             /\ n \in 0 .. (j - 1)
             /\ n = 0 \/ a[n].word \notin V
             /\ \A l \in (n + 1) .. (j - 1) : a[l].word \in V
           Even(j) == \E n \in Nat : Starts(j, n) /\ (j - 1 - n) % 2 = 0
           f == [j \in 1 .. N |-> Even(j)]
<1>1. ASSUME NEW j \in 1 .. N PROVE \E n \in Nat : Starts(j, n)
  <2> DEFINE T == {x \in Nat : x <= j - 1 /\ (x = j - 1 \/ a[j - 1 - x].word \notin V)}
  <2>1. j - 1 \in T
    OBVIOUS
  <2>2. PICK x \in T : \A y \in T : x <= y
    <3>1. T \subseteq Nat /\ T # {}
      BY <2>1
    <3> HIDE DEF T
    <3> QED BY <3>1, NatMin
  <2>3. ASSUME NEW l \in (j - x) .. (j - 1) PROVE a[l].word \in V
    <3>1. j - 1 - l \in Nat /\ j - 1 - l < x /\ l = j - 1 - (j - 1 - l)
      BY <2>3
    <3>2. j - 1 - l \notin T
      BY <2>2, <3>1
    <3> QED BY <3>1, <3>2
  <2>4. j - 1 - x \in Nat /\ (j - 1 - x) + 1 = j - x
    BY <2>2
  <2>5. Starts(j, j - 1 - x)
    BY <2>2, <2>3, <2>4
  <2> HIDE DEF Starts, T
  <2> QED BY <2>4, <2>5
<1>2. ASSUME NEW j \in 1 .. N, NEW m \in Nat, NEW n \in Nat,
             Starts(j, m), Starts(j, n)
      PROVE  m = n
  <2>1. ~(m < n)
    BY <1>2
  <2>2. ~(n < m)
    BY <1>2
  <2> QED BY <2>1, <2>2
<1>3. ASSUME NEW j \in 2 .. N, NEW n \in Nat
      PROVE  Starts(j, n) <=> \/ n = j - 1 /\ a[j - 1].word \notin V
                              \/ a[j - 1].word \in V /\ Starts(j - 1, n)
  <2>1. CASE n = j - 1
    BY <2>1
  <2>2. CASE n # j - 1
    <3>1. n \in 0 .. (j - 1) <=> n \in 0 .. ((j - 1) - 1)
      BY <2>2
    <3>2. n \in 0 .. (j - 1) =>
            (n + 1) .. (j - 1) = ((n + 1) .. ((j - 1) - 1)) \cup {j - 1}
      BY <2>2
    <3>3. n \in 0 .. (j - 1) =>
            ((\A l \in (n + 1) .. (j - 1) : a[l].word \in V)
              <=> /\ \A l \in (n + 1) .. ((j - 1) - 1) : a[l].word \in V
                  /\ a[j - 1].word \in V)
      BY <3>2
    <3> QED BY <2>2, <3>1, <3>3
  <2> QED BY <2>1, <2>2
<1>4. ASSUME NEW j \in 1 .. N
      PROVE  Even(j) <=> (j = 1 \/ ~(Even(j - 1) /\ a[j - 1].word \in V))
  <2>1. CASE j = 1
    <3>1. PICK n \in Nat : Starts(j, n)
      BY <1>1
    <3>2. n = 0
      BY <3>1, <2>1
    <3> QED BY <3>1, <3>2, <2>1
  <2>2. CASE j # 1 /\ a[j - 1].word \notin V
    <3>1. j \in 2 .. N /\ j - 1 \in Nat
      BY <2>2
    <3>2. Starts(j, j - 1) /\ (j - 1 - (j - 1)) % 2 = 0
      BY <2>2, <3>1, <1>3
    <3> QED BY <2>2, <3>1, <3>2
  <2>3. CASE j # 1 /\ a[j - 1].word \in V
    <3>1. j \in 2 .. N /\ j - 1 \in 1 .. N
      BY <2>3
    <3>2. PICK n \in Nat : Starts(j - 1, n)
      BY <3>1, <1>1
    <3>3. Starts(j, n)
      BY <3>1, <3>2, <2>3, <1>3
    <3>4. n \in 0 .. ((j - 1) - 1)
      BY <3>2
    <3>5. Even(j) <=> (j - 1 - n) % 2 = 0
      <4> HIDE DEF Starts
      <4> QED BY <3>3, <1>2
    <3>6. Even(j - 1) <=> ((j - 1) - 1 - n) % 2 = 0
      <4> HIDE DEF Starts
      <4> QED BY <3>1, <3>2, <1>2
    <3>7. (j - 1 - n) % 2 = 0 <=> ~(((j - 1) - 1 - n) % 2 = 0)
      BY <3>4
    <3> HIDE DEF Even
    <3> QED BY <3>5, <3>6, <3>7, <2>3
  <2> QED BY <2>1, <2>2, <2>3
<1>5. Solves(f, N, V, a)
  <2>1. ASSUME NEW j \in 1 .. N
        PROVE  f[j] = (j = 1 \/ ~(f[j - 1] /\ a[j - 1].word \in V))
    <3> DEFINE rest == j = 1 \/ ~(f[j - 1] /\ a[j - 1].word \in V)
    <3>1. f[j] \in BOOLEAN /\ (f[j] <=> Even(j))
      <4>1. f[j] = Even(j) /\ Even(j) \in BOOLEAN
        OBVIOUS
      <4> HIDE DEF f, Even
      <4> QED BY <4>1
    <3>2. j # 1 => (f[j - 1] <=> Even(j - 1))
      <4>1. j # 1 => j - 1 \in 1 .. N
        OBVIOUS
      <4>2. j # 1 => f[j - 1] = Even(j - 1)
        <5> HIDE DEF Even
        <5> QED BY <4>1, Zenon
      <4> HIDE DEF f, Even
      <4> QED BY <4>2
    <3>3. rest \in BOOLEAN /\ (rest <=> Even(j))
      <4> HIDE DEF f, Even
      <4> QED BY <3>2, <1>4, Zenon
    <3> HIDE DEF f, Even, rest
    <3>4. f[j] = rest
      BY <3>1, <3>3, Zenon
    <3> QED BY <3>4 DEF rest
  <2>2. f = [j \in 1 .. N |-> f[j]]
    OBVIOUS
  <2> HIDE DEF f
  <2> QED BY <2>1, <2>2, Zenon DEF Solves
<1> QED BY <1>5

\* IsOption solves its equation.
LEMMA OptionRecursion ==
    ASSUME TypeOK
    PROVE  \A j \in 1 .. Len(argv) :
              IsOption[j] = (j = 1 \/ ~(IsOption[j - 1] /\ argv[j - 1].word \in Valued))
<1>1. Len(argv) \in Nat
  BY DEF TypeOK
<1>2. \E f : Solves(f, Len(argv), Valued, argv)
  BY <1>1, OptionsExist
<1>3. IsOption = CHOOSE f : Solves(f, Len(argv), Valued, argv)
  BY DEF IsOption, Solves
<1>4. Solves(IsOption, Len(argv), Valued, argv)
  BY <1>2, <1>3
<1> HIDE DEF IsOption
<1> QED BY <1>4, Zenon DEF Solves

\* What follows from it: the first argument is an option, and another one is
\* unless the one before it is an option that takes a value.
LEMMA OptionSteps ==
    ASSUME TypeOK
    PROVE  /\ Len(argv) >= 1 => IsOption[1]
           /\ \A j \in 1 .. Len(argv) : IsOption[j] \in BOOLEAN
           /\ \A j \in 1 .. Len(argv) : j + 1 \in 1 .. Len(argv) =>
                 (IsOption[j + 1] <=> ~(IsOption[j] /\ argv[j].word \in Valued))
<1>1. Len(argv) \in Nat
  BY DEF TypeOK
<1> HIDE DEF IsOption
<1>2. ASSUME NEW j \in 1 .. Len(argv)
      PROVE  /\ IsOption[j] \in BOOLEAN
             /\ IsOption[j] <=> (j = 1 \/ ~(IsOption[j - 1] /\ argv[j - 1].word \in Valued))
  BY OptionRecursion, Zenon
<1>3. Len(argv) >= 1 => IsOption[1]
  BY <1>1, <1>2
<1>4. ASSUME NEW j \in 1 .. Len(argv), j + 1 \in 1 .. Len(argv)
      PROVE  IsOption[j + 1] <=> ~(IsOption[j] /\ argv[j].word \in Valued)
  <2>1. j + 1 # 1 /\ (j + 1) - 1 = j
    OBVIOUS
  <2> QED BY <2>1, <1>2, <1>4
<1> QED BY <1>2, <1>3, <1>4

-----------------------------------------------------------------------------
(* What was read of the line so far *)

\* The options of fs among the arguments before n; the last of them, if there
\* is one, gives v, as w reads it, and v is d if there is none.
Before(opt, a, n, fs) == {j \in 1 .. (n - 1) : opt[j] /\ a[j].word \in fs}
Reads(B, v, d, w) ==
    \/ B = {} /\ v = d
    \/ \E j \in B : (\A k \in B : k <= j) /\ v = w[j]

\* The loop goes on after the value of an option that has one.
After(n) == IF argv[n].word \in Valued THEN n + 2 ELSE n + 1

\* A step over an option adds it, and nothing else, to what was read.
LEMMA OneRead ==
    ASSUME TypeOK, i <= Len(argv), IsOption[i], After(i) <= Len(argv) + 1, NEW fs
    PROVE  /\ Before(IsOption, argv, After(i), fs) =
                IF argv[i].word \in fs THEN Before(IsOption, argv, i, fs) \cup {i}
                                       ELSE Before(IsOption, argv, i, fs)
           /\ After(i) <= Len(argv) => IsOption[After(i)]
<1>1. Len(argv) \in Nat /\ i \in 1 .. Len(argv)
  BY DEF TypeOK
<1> HIDE DEF IsOption
<1>2. CASE argv[i].word \in Valued
  <2>1. After(i) = i + 2 /\ i + 1 \in 1 .. Len(argv)
    BY <1>1, <1>2 DEF After
  <2>2. ~IsOption[i + 1]
    BY <1>1, <1>2, <2>1, OptionSteps
  <2>3. i + 2 <= Len(argv) => IsOption[i + 2]
    <3>1. i + 2 <= Len(argv) =>
            (i + 1) + 1 \in 1 .. Len(argv) /\ (i + 1) + 1 = i + 2
      BY <1>1
    <3> QED BY <3>1, <2>1, <2>2, OptionSteps
  <2>4. 1 .. ((i + 2) - 1) = (1 .. (i - 1)) \cup {i, i + 1}
    BY <1>1
  <2> QED BY <2>1, <2>2, <2>3, <2>4 DEF Before
<1>3. CASE argv[i].word \notin Valued
  <2>1. After(i) = i + 1
    BY <1>3 DEF After
  <2>2. i + 1 <= Len(argv) => IsOption[i + 1]
    <3>1. i + 1 <= Len(argv) => i + 1 \in 1 .. Len(argv)
      BY <1>1
    <3> QED BY <3>1, <1>1, <1>3, OptionSteps
  <2>3. 1 .. ((i + 1) - 1) = (1 .. (i - 1)) \cup {i}
    BY <1>1
  <2> QED BY <2>1, <2>2, <2>3 DEF Before
<1> QED BY <1>2, <1>3

\* So what it says replaces what was said before.
LEMMA Advance ==
    ASSUME TypeOK, i <= Len(argv), IsOption[i], After(i) <= Len(argv) + 1,
           NEW fs, NEW v, NEW x, NEW d, NEW w,
           Reads(Before(IsOption, argv, i, fs), v, d, w),
           argv[i].word \in fs => x = w[i],
           argv[i].word \notin fs => x = v
    PROVE  Reads(Before(IsOption, argv, After(i), fs), x, d, w)
<1> DEFINE B == Before(IsOption, argv, i, fs)
           C == Before(IsOption, argv, After(i), fs)
<1>1. C = IF argv[i].word \in fs THEN B \cup {i} ELSE B
  BY OneRead
<1>2. i \in Nat /\ B \subseteq 1 .. (i - 1)
  BY DEF Before, TypeOK
<1>3. Reads(B, v, d, w)
  OBVIOUS
<1> HIDE DEF B, C
<1>4. ASSUME argv[i].word \notin fs PROVE Reads(C, x, d, w)
  <2>1. C = B /\ x = v
    BY <1>1, <1>4
  <2> QED BY ONLY <2>1, <1>3
<1>5. ASSUME argv[i].word \in fs PROVE Reads(C, x, d, w)
  <2>1. i \in C /\ (\A k \in C : k <= i) /\ x = w[i]
    BY <1>1, <1>2, <1>5
  <2> QED BY <2>1 DEF Reads
<1>6. Reads(C, x, d, w)
  BY <1>4, <1>5
<1> QED BY <1>6 DEF C

\* At the end of the line, what was read is what the last option said.
LEMMA Whole ==
    ASSUME NEW B \in SUBSET Nat, NEW v, NEW d, NEW w, Reads(B, v, d, w)
    PROVE  v = IF B = {} THEN d
               ELSE w[CHOOSE n \in B : \A k \in B : k <= n]
<1>1. CASE B = {}
  BY <1>1 DEF Reads
<1>2. CASE B # {}
  <2>1. PICK j \in B : (\A k \in B : k <= j) /\ v = w[j]
    BY <1>2 DEF Reads
  <2>2. PICK m : m = CHOOSE n \in B : \A k \in B : k <= n
    OBVIOUS
  <2>3. m \in B /\ \A k \in B : k <= m
    BY <2>1, <2>2
  <2>4. m = j
    BY ONLY <2>1, <2>3, B \in SUBSET Nat
  <2> QED BY <2>1, <2>2, <2>4, <1>2
<1> QED BY <1>1, <1>2

\* The line stays as it is, and with it which of its arguments are options.
TheOptions(n, v, a) == CHOOSE f : Solves(f, n, v, a)

\* IsOption is the function chosen for the line.
LEMMA OptionsChosen == IsOption = TheOptions(Len(argv), Valued, argv)
  BY DEF IsOption, TheOptions, Solves

\* What is read off the line alone stays.
LEMMA SameLine ==
    ASSUME argv' = argv, prog' = prog
    PROVE  /\ IsOption' = IsOption /\ Valued' = Valued /\ Options' = Options
           /\ CountOption' = CountOption /\ SmokeCount' = SmokeCount
<1>1. Valued' = Valued /\ CountOption' = CountOption
  BY DEF Valued, CountOption
<1>2. IsOption' = IsOption
  <2>1. IsOption' = TheOptions(Len(argv'), Valued', argv')
    BY DEF IsOption, TheOptions, Solves
  <2> HIDE DEF IsOption, Valued
  <2> QED BY <1>1, <2>1, OptionsChosen
<1>3. Options' = Options /\ SmokeCount' = SmokeCount
  <2> HIDE DEF Valued
  <2> QED BY <1>1 DEF Options, SmokeCount
<1> QED BY <1>1, <1>2, <1>3

-----------------------------------------------------------------------------
(* The invariant: the options are what the part of the line that was read    *)
(* says.                                                                     *)

\* What an option at each place of the line says.
SmokeOr(a, s) == [j \in 1 .. Len(a) |->
                    IF a[j].word = "--smoke" THEN s ELSE parse_u64(a[j + 1])]
Numbers(a) == [j \in 1 .. Len(a) |-> a[j + 1].pieces[1]]
Lists(a) == [j \in 1 .. Len(a) |-> a[j + 1].pieces]
Texts(a) == [j \in 1 .. Len(a) |-> a[j + 1].word]

Read(fs) == Before(IsOption, argv, i, fs)

AppleMeaning ==
    /\ opts.smoke <=> Read({"--smoke"}) # {}
    /\ opts.csv <=> Read({"--csv"}) # {}
    /\ Reads(Read({"--samples", "--smoke"}), opts.samples,
             Defaults(prog).samples, SmokeOr(argv, 3))
    /\ Reads(Read({CountOption, "--smoke"}), opts.count,
             Defaults(prog).count, SmokeOr(argv, SmokeCount))

GpuMeaning ==
    /\ opts.help <=> Read({"--help"}) # {}
    /\ Reads(Read({"--probe"}), opts.probe, "all", Texts(argv))
    /\ Reads(Read({"--mode"}), opts.mode, "smoke", Texts(argv))
    /\ Reads(Read({"--output"}), opts.output, "results/latest.json", Texts(argv))
    /\ Reads(Read({"--gpu"}), opts.gpu, 0, Numbers(argv))
    /\ Reads(Read({"--gpus"}), opts.gpus, <<>>, Lists(argv))
    /\ Reads(Read({"--iterations"}), opts.iterations, 0, Numbers(argv))
    /\ Reads(Read({"--mem-sizes"}), opts.mem_sizes, <<>>, Lists(argv))
    /\ Reads(Read({"--bytes"}), Bytes, 536870912, Numbers(argv))

\* Only an option that takes any text took the name of an option for its value.
Textual == {"--probe", "--mode", "--output"}
Swallowed ==
    \A j \in 2 .. Len(argv) :
       j < i /\ ~IsOption[j] /\ argv[j].word \in Options =>
          argv[j - 1].word \in Textual

Meaning ==
    pc = "parse" =>
      /\ i <= Len(argv) => IsOption[i]
      /\ Swallowed
      /\ IF prog \in Apple THEN AppleMeaning ELSE GpuMeaning

\* At the start nothing is read.
LEMMA InitM == Init => Meaning
<1> SUFFICES ASSUME Init PROVE Meaning
  OBVIOUS
<1>1. TypeOK /\ i = 1 /\ opts = Defaults(prog)
  BY InitC DEF Init
<1>2. ASSUME NEW fs PROVE Read(fs) = {}
  BY <1>1 DEF Read, Before
<1>3. i <= Len(argv) => IsOption[i]
  BY <1>1, OptionSteps
<1>4. Swallowed
  BY <1>1 DEF Swallowed
<1> HIDE DEF IsOption
<1>5. CASE prog \in Apple
  <2>1. AppleMeaning
    BY <1>1, <1>2, <1>5 DEF AppleMeaning, Reads, Defaults
  <2> QED BY <1>3, <1>4, <1>5, <2>1 DEF Meaning
<1>6. CASE prog \notin Apple
  <2>1. opts = [probe |-> "all", gpu |-> 0, gpus |-> <<>>, mode |-> "smoke",
                iterations |-> 0, mem_sizes |-> <<>>, bytes |-> 0,
                output |-> "results/latest.json", help |-> FALSE]
    BY <1>1, <1>6 DEF Defaults
  <2>2. Bytes = 536870912
    BY <2>1 DEF Bytes
  <2>3. GpuMeaning
    BY <1>2, <2>1, <2>2 DEF GpuMeaning, Reads
  <2> QED BY <1>3, <1>4, <1>6, <2>3 DEF Meaning
<1> QED BY <1>5, <1>6

\* A step of the loop over an option with its value, if it has one.
Over ==
    /\ pc = "parse" /\ i <= Len(argv)
    /\ i' = After(i) /\ After(i) <= Len(argv) + 1
    /\ UNCHANGED <<prog, argv, pc>>

\* A value that has the name of an option was taken by one that takes any text.
Harmless ==
    argv[i].word \in Valued /\ argv[i + 1].word \in Options =>
       argv[i].word \in Textual

\* What such a step does to the invariant: the next argument is an option,
LEMMA OverNext ==
    ASSUME TypeOK, Meaning, Over, Harmless
    PROVE  /\ IsOption' = IsOption /\ IsOption[i]
           /\ i' <= Len(argv') => IsOption'[i']
           /\ Swallowed'
<1>1. IsOption[i] /\ argv' = argv /\ prog' = prog /\ i' = After(i)
  BY DEF Meaning, Over
<1>2. IsOption' = IsOption /\ Options' = Options
  BY <1>1, SameLine
<1>3. i <= Len(argv) /\ After(i) <= Len(argv) + 1
  BY DEF Over
<1>4. After(i) <= Len(argv) => IsOption[After(i)]
  BY <1>1, <1>3, OneRead
<1>5. Swallowed'
  <2> HIDE DEF IsOption
  <2> SUFFICES ASSUME NEW j \in 2 .. Len(argv), j < After(i), ~IsOption[j],
                      argv[j].word \in Options
               PROVE  argv[j - 1].word \in Textual
    BY <1>1, <1>2 DEF Swallowed
  <2>1. i \in Nat /\ Len(argv) \in Nat
    BY DEF TypeOK
  <2>2. CASE j < i
    <3>1. Swallowed
      BY DEF Meaning, Over
    <3> QED BY <2>2, <3>1 DEF Swallowed
  <2>3. CASE j >= i
    <3>1. argv[i].word \in Valued /\ j = i + 1
      BY <2>1, <2>3, <1>1 DEF After
    <3>2. j - 1 = i
      BY <2>1, <3>1
    <3> QED BY <3>1, <3>2 DEF Harmless
  <2> QED BY <2>1, <2>2, <2>3
<1> HIDE DEF IsOption
<1> QED BY <1>1, <1>2, <1>4, <1>5

\* an option counts as given if it was or if the step reads it,
LEMMA OverGiven ==
    ASSUME TypeOK, Meaning, Over, NEW fs
    PROVE  Before(IsOption', argv', i', fs) # {}
             <=> argv[i].word \in fs \/ Before(IsOption, argv, i, fs) # {}
<1>1. /\ IsOption[i] /\ argv' = argv /\ prog' = prog /\ i' = After(i)
      /\ i <= Len(argv) /\ After(i) <= Len(argv) + 1
  BY DEF Meaning, Over
<1>2. IsOption' = IsOption
  BY <1>1, SameLine
<1>3. Before(IsOption, argv, After(i), fs) =
        IF argv[i].word \in fs THEN Before(IsOption, argv, i, fs) \cup {i}
                               ELSE Before(IsOption, argv, i, fs)
  BY <1>1, OneRead
<1> HIDE DEF IsOption, Before
<1> QED BY <1>1, <1>2, <1>3

\* and a field set as the option says is what the last of its options says.
LEMMA OverSays ==
    ASSUME TypeOK, Meaning, Over, NEW fs, NEW v, NEW x, NEW d, NEW w,
           Reads(Before(IsOption, argv, i, fs), v, d, w),
           argv[i].word \in fs => x = w[i],
           argv[i].word \notin fs => x = v
    PROVE  Reads(Before(IsOption', argv', i', fs), x, d, w)
<1>1. /\ IsOption[i] /\ argv' = argv /\ prog' = prog /\ i' = After(i)
      /\ i <= Len(argv) /\ After(i) <= Len(argv) + 1
  BY DEF Meaning, Over
<1>2. IsOption' = IsOption
  BY <1>1, SameLine
<1>3. Reads(Before(IsOption, argv, After(i), fs), x, d, w)
  BY <1>1, Advance
<1> HIDE DEF IsOption
<1> QED BY <1>1, <1>2, <1>3

\* The steps of the Apple programs.
LEMMA AppleOver ==
    ASSUME TypeOK, Meaning, Over, Harmless, prog \in Apple,
           opts'.smoke <=> argv[i].word = "--smoke" \/ opts.smoke,
           opts'.csv <=> argv[i].word = "--csv" \/ opts.csv,
           opts'.samples = IF argv[i].word \in {"--samples", "--smoke"}
                           THEN SmokeOr(argv, 3)[i] ELSE opts.samples,
           opts'.count = IF argv[i].word \in {CountOption, "--smoke"}
                         THEN SmokeOr(argv, SmokeCount)[i] ELSE opts.count
    PROVE  Meaning'
<1>1. /\ argv' = argv /\ prog' = prog /\ CountOption' = CountOption
      /\ SmokeCount' = SmokeCount
  BY SameLine DEF Over
<1>2. AppleMeaning
  BY DEF Meaning, Over
<1>3. /\ opts'.smoke <=> Before(IsOption', argv', i', {"--smoke"}) # {}
      /\ opts'.csv <=> Before(IsOption', argv', i', {"--csv"}) # {}
  <2>1. /\ opts.smoke <=> Before(IsOption, argv, i, {"--smoke"}) # {}
        /\ opts.csv <=> Before(IsOption, argv, i, {"--csv"}) # {}
    BY <1>2 DEF AppleMeaning, Read
  <2>2. /\ Before(IsOption', argv', i', {"--smoke"}) # {}
             <=> argv[i].word \in {"--smoke"} \/ Before(IsOption, argv, i, {"--smoke"}) # {}
        /\ Before(IsOption', argv', i', {"--csv"}) # {}
             <=> argv[i].word \in {"--csv"} \/ Before(IsOption, argv, i, {"--csv"}) # {}
    BY OverGiven
  <2> HIDE DEF IsOption, Before
  <2> QED BY <2>1, <2>2
<1>4. Reads(Before(IsOption', argv', i', {"--samples", "--smoke"}), opts'.samples,
            Defaults(prog).samples, SmokeOr(argv, 3))
  <2>1. Reads(Before(IsOption, argv, i, {"--samples", "--smoke"}), opts.samples,
              Defaults(prog).samples, SmokeOr(argv, 3))
    BY <1>2 DEF AppleMeaning, Read
  <2> HIDE DEF IsOption
  <2> QED BY <2>1, OverSays
<1>5. Reads(Before(IsOption', argv', i', {CountOption, "--smoke"}), opts'.count,
            Defaults(prog).count, SmokeOr(argv, SmokeCount))
  <2>1. Reads(Before(IsOption, argv, i, {CountOption, "--smoke"}), opts.count,
              Defaults(prog).count, SmokeOr(argv, SmokeCount))
    BY <1>2 DEF AppleMeaning, Read
  <2> HIDE DEF IsOption
  <2> QED BY <2>1, OverSays
<1>6. AppleMeaning'
  <2> HIDE DEF IsOption, CountOption, SmokeCount
  <2> QED BY <1>1, <1>3, <1>4, <1>5 DEF AppleMeaning, Read
<1>7. (i' <= Len(argv') => IsOption'[i']) /\ Swallowed'
  BY OverNext
<1> HIDE DEF IsOption
<1> QED BY <1>1, <1>6, <1>7 DEF Meaning, Over

\* Those of the program for the GPUs: Said(f, x, v, w) is that x is what the
\* option f says if the step is over it, and v otherwise.
Said(f, x, v, w) == x = IF argv[i].word = f THEN w[i] ELSE v

\* A step over an option that sets a field, or leaves it, keeps its meaning.
LEMMA OneField ==
    ASSUME TypeOK, Meaning, Over, NEW f, NEW x, NEW v, NEW d, NEW w,
           Reads(Before(IsOption, argv, i, {f}), v, d, w), Said(f, x, v, w)
    PROVE  Reads(Before(IsOption', argv', i', {f}), x, d, w)
<1>1. /\ argv[i].word \in {f} => x = w[i]
      /\ argv[i].word \notin {f} => x = v
  BY DEF Said
<1> HIDE DEF IsOption
<1> QED BY <1>1, OverSays

\* All the fields of the program for the GPUs.
GpuSaid ==
    /\ opts'.help <=> argv[i].word = "--help" \/ opts.help
    /\ Said("--probe", opts'.probe, opts.probe, Texts(argv))
    /\ Said("--mode", opts'.mode, opts.mode, Texts(argv))
    /\ Said("--output", opts'.output, opts.output, Texts(argv))
    /\ Said("--gpu", opts'.gpu, opts.gpu, Numbers(argv))
    /\ Said("--gpus", opts'.gpus, opts.gpus, Lists(argv))
    /\ Said("--iterations", opts'.iterations, opts.iterations, Numbers(argv))
    /\ Said("--mem-sizes", opts'.mem_sizes, opts.mem_sizes, Lists(argv))
    /\ Said("--bytes", Bytes', Bytes, Numbers(argv))

\* Fields set so keep the meaning of all.
LEMMA GpuOver ==
    ASSUME TypeOK, Meaning, Over, Harmless, prog \notin Apple, GpuSaid
    PROVE  Meaning'
<1>1. argv' = argv /\ prog' = prog
  BY DEF Over
<1>2. GpuMeaning
  BY DEF Meaning, Over
<1>g. /\ opts'.help <=> argv[i].word = "--help" \/ opts.help
      /\ Said("--probe", opts'.probe, opts.probe, Texts(argv))
      /\ Said("--mode", opts'.mode, opts.mode, Texts(argv))
      /\ Said("--output", opts'.output, opts.output, Texts(argv))
      /\ Said("--gpu", opts'.gpu, opts.gpu, Numbers(argv))
      /\ Said("--gpus", opts'.gpus, opts.gpus, Lists(argv))
      /\ Said("--iterations", opts'.iterations, opts.iterations, Numbers(argv))
      /\ Said("--mem-sizes", opts'.mem_sizes, opts.mem_sizes, Lists(argv))
      /\ Said("--bytes", Bytes', Bytes, Numbers(argv))
  BY DEF GpuSaid
<1>3. opts'.help <=> Before(IsOption', argv', i', {"--help"}) # {}
  <2>1. opts.help <=> Before(IsOption, argv, i, {"--help"}) # {}
    BY <1>2 DEF GpuMeaning, Read
  <2>2. Before(IsOption', argv', i', {"--help"}) # {}
           <=> argv[i].word \in {"--help"} \/ Before(IsOption, argv, i, {"--help"}) # {}
    BY OverGiven
  <2> HIDE DEF IsOption, Before
  <2> QED BY <2>1, <2>2, <1>g
<1> HIDE DEF IsOption
<1>4. Reads(Before(IsOption', argv', i', {"--bytes"}), Bytes', 536870912, Numbers(argv))
  BY <1>2, <1>g, OneField DEF GpuMeaning, Read
<1>5. /\ Reads(Before(IsOption', argv', i', {"--probe"}), opts'.probe, "all", Texts(argv))
      /\ Reads(Before(IsOption', argv', i', {"--mode"}), opts'.mode, "smoke", Texts(argv))
      /\ Reads(Before(IsOption', argv', i', {"--output"}), opts'.output, "results/latest.json", Texts(argv))
      /\ Reads(Before(IsOption', argv', i', {"--gpu"}), opts'.gpu, 0, Numbers(argv))
      /\ Reads(Before(IsOption', argv', i', {"--gpus"}), opts'.gpus, <<>>, Lists(argv))
      /\ Reads(Before(IsOption', argv', i', {"--iterations"}), opts'.iterations, 0, Numbers(argv))
      /\ Reads(Before(IsOption', argv', i', {"--mem-sizes"}), opts'.mem_sizes, <<>>, Lists(argv))
  BY <1>2, <1>g, OneField DEF GpuMeaning, Read
<1>6. GpuMeaning'
  BY <1>1, <1>3, <1>4, <1>5 DEF GpuMeaning, Read
<1>7. (i' <= Len(argv') => IsOption'[i']) /\ Swallowed'
  BY OverNext
<1> QED BY <1>1, <1>6, <1>7 DEF Meaning, Over

\* The name of an option is no number.
LEMMA NoName ==
    ASSUME TypeOK, i < Len(argv), argv[i + 1].word \in Options
    PROVE  ~parse_u64_ok(Value) /\ ~parse_int_ok(Value)
           /\ ~parse_gpu_csv_ok(Value) /\ ~parse_u64_csv_ok(Value)
<1>c. Word \in Nat /\ IntMax \in Nat /\ 1000000000 < IntMax /\ IntMax < Word
  BY CommandLineAssumption
<1>1. i + 1 \in 1 .. Len(argv) /\ argv \in Seq(Args[prog]) /\ prog \in Programs
  BY DEF TypeOK
<1>2. Options \subseteq OptionNames
  BY DEF Options, Valued, CountOption, OptionNames
<1>3. argv[i + 1] \in Args[prog]
  BY <1>1
<1>4. argv[i + 1].pieces = <<Word>>
  BY <1>1, <1>2, <1>3, NamesAssumption DEF NoNumber
<1> DEFINE s == Value.pieces
<1>5. Len(s) = 1 /\ DOMAIN s = {1} /\ s[1] = Word
  BY <1>4 DEF Value
<1> HIDE DEF s
<1>6. ~parse_u64_ok(Value)
  BY <1>5, <1>c DEF parse_u64_ok, s
<1>7. ~parse_int_ok(Value)
  BY <1>5, <1>c DEF parse_int_ok, s
<1>8. ~parse_gpu_csv_ok(Value)
  BY <1>5, <1>c DEF parse_gpu_csv_ok, s
<1>9. ~parse_u64_csv_ok(Value)
  BY <1>5, <1>c DEF parse_u64_csv_ok, s
<1> QED BY <1>6, <1>7, <1>8, <1>9

\* A step over an option with a value, and one over an option without.
LEMMA TakeOver ==
    ASSUME TypeOK, NEW f, NEW ok, NEW o, Take(f, ok, o), f \in Valued,
           i < Len(argv) /\ ok
    PROVE  Over /\ argv[i].word = f /\ opts' = o
<1>1. /\ pc = "parse" /\ i <= Len(argv) /\ argv[i].word = f
      /\ opts' = o /\ i' = i + 2 /\ UNCHANGED <<prog, argv, pc>>
  BY DEF Take, At, Set
<1>2. i \in Nat /\ Len(argv) \in Nat
  BY DEF TypeOK
<1>3. After(i) = i + 2
  BY <1>1 DEF After
<1> QED BY <1>1, <1>2, <1>3 DEF Over

\* A value that is missing or refused ends the loop.
LEMMA TakeStop ==
    ASSUME NEW f, NEW ok, NEW o, Take(f, ok, o), ~(i < Len(argv) /\ ok)
    PROVE  Meaning' /\ pc' = "refused"
  BY DEF Take, Refuse, Stop, Meaning

\* An option without a value is a step of one argument.
LEMMA NextOver ==
    ASSUME TypeOK, NEW f, NEW o, At(f), Set(o, 1), f \notin Valued
    PROVE  Over /\ Harmless /\ argv[i].word = f /\ opts' = o
<1>1. /\ pc = "parse" /\ i <= Len(argv) /\ argv[i].word = f
      /\ opts' = o /\ i' = i + 1 /\ UNCHANGED <<prog, argv, pc>>
  BY DEF At, Set
<1>2. i \in Nat /\ Len(argv) \in Nat
  BY DEF TypeOK
<1>3. After(i) = i + 1
  BY <1>1 DEF After
<1> QED BY <1>1, <1>2, <1>3 DEF Over, Harmless

\* The options of the Apple programs keep the meaning of the line.
LEMMA AppleM ==
    ASSUME TypeOK, Meaning, Smoke \/ Csv \/ Samples \/ Blocks
    PROVE  Meaning'
<1>a. prog \in Apple /\ opts \in AppleOptions
  BY DEF Smoke, Csv, Samples, Blocks, TypeOK, AppleOptions
<1>b. /\ CountOption \in {"--iters", "--blocks"}
      /\ Valued = {"--samples", CountOption}
  BY <1>a DEF CountOption, Valued
<1>c. ASSUME i <= Len(argv)
      PROVE  /\ argv[i].word = "--smoke" => SmokeOr(argv, 3)[i] = 3
             /\ argv[i].word = "--smoke" => SmokeOr(argv, SmokeCount)[i] = SmokeCount
             /\ argv[i].word # "--smoke" => SmokeOr(argv, 3)[i] = parse_u64(Value)
             /\ argv[i].word # "--smoke" =>
                   SmokeOr(argv, SmokeCount)[i] = parse_u64(Value)
  <2>1. i \in 1 .. Len(argv)
    BY <1>c DEF TypeOK
  <2> QED BY <2>1 DEF SmokeOr, Value
<1>d. pc = "parse" /\ i <= Len(argv)
  BY DEF Smoke, Csv, Samples, Blocks, Take, At
<1>1. CASE Smoke
  <2>1. /\ Over /\ Harmless /\ argv[i].word = "--smoke"
        /\ opts' = [smoke |-> TRUE, csv |-> opts.csv, samples |-> 3,
                    count |-> SmokeCount]
    BY <1>1, <1>b, NextOver DEF Smoke
  <2> HIDE DEF SmokeCount, CountOption
  <2>2. opts'.smoke /\ opts'.csv = opts.csv /\ opts'.samples = 3
          /\ opts'.count = SmokeCount
    BY <2>1
  <2> QED BY <2>1, <2>2, <1>a, <1>b, <1>c, <1>d, AppleOver
<1>2. CASE Csv
  <2>1. /\ Over /\ Harmless /\ argv[i].word = "--csv"
        /\ opts' = [opts EXCEPT !.csv = TRUE]
    BY <1>2, <1>b, NextOver DEF Csv
  <2>2. opts'.smoke = opts.smoke /\ opts'.csv /\ opts'.samples = opts.samples
          /\ opts'.count = opts.count
    BY ONLY <2>1, <1>a DEF AppleOptions
  <2> QED BY <2>1, <2>2, <1>a, <1>b, <1>c, <1>d, AppleOver
<1>3. CASE Samples
  <2> DEFINE ok == parse_u64_ok(Value) /\ parse_u64(Value) \in 1 .. 1000
             o == [opts EXCEPT !.samples = parse_u64(Value)]
  <2>1. Take("--samples", ok, o)
    BY <1>3 DEF Samples
  <2>2. CASE i < Len(argv) /\ ok
    <3>1. Over /\ argv[i].word = "--samples" /\ opts' = o
      <4> HIDE DEF ok, o
      <4> QED BY <2>1, <2>2, <1>b, TakeOver
    <3>2. Harmless
      BY <2>2, NoName DEF Harmless
    <3>3. opts'.smoke = opts.smoke /\ opts'.csv = opts.csv
            /\ opts'.samples = parse_u64(Value) /\ opts'.count = opts.count
      BY ONLY <3>1, <1>a DEF AppleOptions
    <3> HIDE DEF ok, o
    <3> QED BY <3>1, <3>2, <3>3, <1>a, <1>b, <1>c, <1>d, AppleOver
  <2>3. CASE ~(i < Len(argv) /\ ok)
    <3> HIDE DEF ok, o
    <3> QED BY <2>1, <2>3, TakeStop
  <2> QED BY <2>2, <2>3
<1>4. CASE Blocks
  <2> DEFINE ok == parse_u64_ok(Value) /\ parse_u64(Value) # 0
             o == [opts EXCEPT !.count = parse_u64(Value)]
  <2>1. Take(CountOption, ok, o)
    BY <1>4 DEF Blocks
  <2>2. CASE i < Len(argv) /\ ok
    <3>1. Over /\ argv[i].word = CountOption /\ opts' = o
      <4> HIDE DEF ok, o
      <4> QED BY <2>1, <2>2, <1>b, TakeOver
    <3>2. Harmless
      BY <2>2, NoName DEF Harmless
    <3>3. opts'.smoke = opts.smoke /\ opts'.csv = opts.csv
            /\ opts'.samples = opts.samples /\ opts'.count = parse_u64(Value)
      BY ONLY <3>1, <1>a DEF AppleOptions
    <3> HIDE DEF ok, o
    <3> QED BY <3>1, <3>2, <3>3, <1>a, <1>b, <1>c, <1>d, AppleOver
  <2>3. CASE ~(i < Len(argv) /\ ok)
    <3> HIDE DEF ok, o
    <3> QED BY <2>1, <2>3, TakeStop
  <2> QED BY <2>2, <2>3
<1> QED BY <1>1, <1>2, <1>3, <1>4

\* An option that is given a number, a list or a text.
LEMMA GpuTake ==
    ASSUME TypeOK, Meaning, prog = "nvidia", NEW f \in Valued, NEW ok, NEW o,
           Take(f, ok, o),
           i < Len(argv) /\ ok /\ argv[i].word = f /\ opts' = o => GpuSaid,
           ok /\ i < Len(argv) => f \in Textual \/ argv[i + 1].word \notin Options
    PROVE  Meaning'
<1>1. CASE i < Len(argv) /\ ok
  <2>1. Over /\ argv[i].word = f /\ opts' = o
    BY <1>1, TakeOver
  <2>2. Harmless
    BY <1>1, <2>1 DEF Harmless
  <2>3. prog \notin Apple
    BY DEF Apple
  <2> QED BY <1>1, <2>1, <2>2, <2>3, GpuOver
<1>2. CASE ~(i < Len(argv) /\ ok)
  BY <1>2, TakeStop
<1> QED BY <1>1, <1>2

\* So do the options of the program for the GPUs.
LEMMA GpuM ==
    ASSUME TypeOK, Meaning, Help \/ Text \/ Gpu \/ IterationsOption \/ Memory
    PROVE  Meaning'
<1>c. Word \in Nat
  BY CommandLineAssumption
<1>a. prog = "nvidia" /\ prog \notin Apple /\ opts \in GpuOptions
  <2>1. prog = "nvidia"
    BY DEF Help, Text, Gpu, IterationsOption, Memory
  <2>2. prog \notin Apple
    BY ONLY <2>1 DEF Apple
  <2> QED BY ONLY <2>1, <2>2, TypeOK DEF TypeOK, GpuOptions
<1>b. Valued = {"--probe", "--gpu", "--gpus", "--mode", "--iterations",
                "--mem-sizes", "--bytes", "--output"}
  BY <1>a DEF Valued
<1>d. i \in 1 .. Len(argv)
  BY DEF TypeOK, Help, Text, Gpu, IterationsOption, Memory, Take, At
<1>e. /\ Numbers(argv)[i] = Value.pieces[1] /\ Lists(argv)[i] = Value.pieces
      /\ Texts(argv)[i] = Value.word
  BY <1>d DEF Numbers, Lists, Texts, Value
<1>1. CASE Help
  <2>1. /\ Over /\ Harmless /\ argv[i].word = "--help"
        /\ opts' = [opts EXCEPT !.help = TRUE]
    BY <1>1, <1>b, NextOver DEF Help
  <2>2. GpuSaid
    <3>1. Bytes' = Bytes
      BY ONLY <2>1, <1>a DEF Bytes, GpuOptions
    <3> QED BY ONLY <2>1, <3>1, <1>a DEF GpuSaid, Said, GpuOptions
  <2> QED BY <2>1, <2>2, <1>a, GpuOver
<1>2. CASE Text
  <2>1. CASE Take("--probe", TRUE, [opts EXCEPT !.probe = Value.word])
    <3> DEFINE o == [opts EXCEPT !.probe = Value.word]
    <3>1. ASSUME i < Len(argv), TRUE, argv[i].word = "--probe", opts' = o
          PROVE  GpuSaid
      <4>1. Bytes' = Bytes
        BY ONLY <3>1, <1>a DEF Bytes, GpuOptions
      <4> QED BY ONLY <3>1, <4>1, <1>a, <1>e DEF GpuSaid, Said, GpuOptions
    <3>2. TRUE /\ i < Len(argv) =>
            "--probe" \in Textual \/ argv[i + 1].word \notin Options
      BY DEF Textual
    <3> HIDE DEF o
    <3>3. Take("--probe", TRUE, o)
      BY <2>1 DEF o
    <3> QED BY <3>1, <3>2, <3>3, <1>a, <1>b, GpuTake
  <2>2. CASE Take("--mode", TRUE, [opts EXCEPT !.mode = Value.word])
    <3> DEFINE o == [opts EXCEPT !.mode = Value.word]
    <3>1. ASSUME i < Len(argv), TRUE, argv[i].word = "--mode", opts' = o
          PROVE  GpuSaid
      <4>1. Bytes' = Bytes
        BY ONLY <3>1, <1>a DEF Bytes, GpuOptions
      <4> QED BY ONLY <3>1, <4>1, <1>a, <1>e DEF GpuSaid, Said, GpuOptions
    <3>2. TRUE /\ i < Len(argv) =>
            "--mode" \in Textual \/ argv[i + 1].word \notin Options
      BY DEF Textual
    <3> HIDE DEF o
    <3>3. Take("--mode", TRUE, o)
      BY <2>2 DEF o
    <3> QED BY <3>1, <3>2, <3>3, <1>a, <1>b, GpuTake
  <2>3. CASE Take("--output", TRUE, [opts EXCEPT !.output = Value.word])
    <3> DEFINE o == [opts EXCEPT !.output = Value.word]
    <3>1. ASSUME i < Len(argv), TRUE, argv[i].word = "--output", opts' = o
          PROVE  GpuSaid
      <4>1. Bytes' = Bytes
        BY ONLY <3>1, <1>a DEF Bytes, GpuOptions
      <4> QED BY ONLY <3>1, <4>1, <1>a, <1>e DEF GpuSaid, Said, GpuOptions
    <3>2. TRUE /\ i < Len(argv) =>
            "--output" \in Textual \/ argv[i + 1].word \notin Options
      BY DEF Textual
    <3> HIDE DEF o
    <3>3. Take("--output", TRUE, o)
      BY <2>3 DEF o
    <3> QED BY <3>1, <3>2, <3>3, <1>a, <1>b, GpuTake
  <2> QED BY <1>2, <2>1, <2>2, <2>3 DEF Text
<1>3. CASE Gpu
  <2>1. CASE Take("--gpu", parse_int_ok(Value), [opts EXCEPT !.gpu = Value.pieces[1]])
    <3> DEFINE o == [opts EXCEPT !.gpu = Value.pieces[1]]
    <3>1. ASSUME i < Len(argv), parse_int_ok(Value), argv[i].word = "--gpu", opts' = o
          PROVE  GpuSaid
      <4>1. Bytes' = Bytes
        BY ONLY <3>1, <1>a DEF Bytes, GpuOptions
      <4> QED BY ONLY <3>1, <4>1, <1>a, <1>e DEF GpuSaid, Said, GpuOptions
    <3>2. parse_int_ok(Value) /\ i < Len(argv) =>
            "--gpu" \in Textual \/ argv[i + 1].word \notin Options
      BY NoName
    <3> HIDE DEF o
    <3>3. Take("--gpu", parse_int_ok(Value), o)
      BY <2>1 DEF o
    <3> QED BY <3>1, <3>2, <3>3, <1>a, <1>b, GpuTake
  <2>2. CASE Take("--gpus", parse_gpu_csv_ok(Value), [opts EXCEPT !.gpus = Value.pieces])
    <3> DEFINE o == [opts EXCEPT !.gpus = Value.pieces]
    <3>1. ASSUME i < Len(argv), parse_gpu_csv_ok(Value), argv[i].word = "--gpus", opts' = o
          PROVE  GpuSaid
      <4>1. Bytes' = Bytes
        BY ONLY <3>1, <1>a DEF Bytes, GpuOptions
      <4> QED BY ONLY <3>1, <4>1, <1>a, <1>e DEF GpuSaid, Said, GpuOptions
    <3>2. parse_gpu_csv_ok(Value) /\ i < Len(argv) =>
            "--gpus" \in Textual \/ argv[i + 1].word \notin Options
      BY NoName
    <3> HIDE DEF o
    <3>3. Take("--gpus", parse_gpu_csv_ok(Value), o)
      BY <2>2 DEF o
    <3> QED BY <3>1, <3>2, <3>3, <1>a, <1>b, GpuTake
  <2> QED BY <1>3, <2>1, <2>2 DEF Gpu
<1>4. CASE IterationsOption
  <2> DEFINE o == [opts EXCEPT !.iterations = Value.pieces[1]]
  <2>1. ASSUME i < Len(argv), parse_int_ok(Value), argv[i].word = "--iterations", opts' = o
        PROVE  GpuSaid
    <3>1. Bytes' = Bytes
      BY ONLY <2>1, <1>a DEF Bytes, GpuOptions
    <3> QED BY ONLY <2>1, <3>1, <1>a, <1>e DEF GpuSaid, Said, GpuOptions
  <2>2. parse_int_ok(Value) /\ i < Len(argv) =>
          "--iterations" \in Textual \/ argv[i + 1].word \notin Options
    BY NoName
  <2> HIDE DEF o
  <2>3. Take("--iterations", parse_int_ok(Value), o)
    BY <1>4 DEF IterationsOption, o
  <2> QED BY <2>1, <2>2, <2>3, <1>a, <1>b, GpuTake
<1>5. CASE Memory
  <2>1. CASE Take("--mem-sizes", parse_u64_csv_ok(Value), [opts EXCEPT !.mem_sizes = Value.pieces])
    <3> DEFINE o == [opts EXCEPT !.mem_sizes = Value.pieces]
    <3>1. ASSUME i < Len(argv), parse_u64_csv_ok(Value), argv[i].word = "--mem-sizes", opts' = o
          PROVE  GpuSaid
      <4>1. Bytes' = Bytes
        BY ONLY <3>1, <1>a DEF Bytes, GpuOptions
      <4> QED BY ONLY <3>1, <4>1, <1>a, <1>e DEF GpuSaid, Said, GpuOptions
    <3>2. parse_u64_csv_ok(Value) /\ i < Len(argv) =>
            "--mem-sizes" \in Textual \/ argv[i + 1].word \notin Options
      BY NoName
    <3> HIDE DEF o
    <3>3. Take("--mem-sizes", parse_u64_csv_ok(Value), o)
      BY <2>1 DEF o
    <3> QED BY <3>1, <3>2, <3>3, <1>a, <1>b, GpuTake
  <2>2. CASE Take("--bytes", parse_u64_ok(Value), [opts EXCEPT !.bytes = parse_u64(Value)])
    <3> DEFINE o == [opts EXCEPT !.bytes = parse_u64(Value)]
    <3>1. ASSUME i < Len(argv), parse_u64_ok(Value), argv[i].word = "--bytes", opts' = o
          PROVE  GpuSaid
      <4>1. Value.pieces[1] \in 1 .. (Word - 1)
        BY <3>1, <1>a DEF parse_u64_ok
      <4>2. opts'.bytes = Value.pieces[1] /\ opts'.bytes > 0
        <5>1. opts'.bytes = parse_u64(Value)
          BY ONLY <3>1, <1>a DEF GpuOptions
        <5>2. parse_u64(Value) = Value.pieces[1] /\ Value.pieces[1] > 0
          BY ONLY <4>1, <1>c DEF parse_u64
        <5> QED BY ONLY <5>1, <5>2
      <4>3. Bytes' = Value.pieces[1]
        BY <4>2 DEF Bytes
      <4> QED BY ONLY <3>1, <4>3, <1>a, <1>e DEF GpuSaid, Said, GpuOptions
    <3>2. parse_u64_ok(Value) /\ i < Len(argv) =>
            "--bytes" \in Textual \/ argv[i + 1].word \notin Options
      BY NoName
    <3> HIDE DEF o
    <3>3. Take("--bytes", parse_u64_ok(Value), o)
      BY <2>2 DEF o
    <3> QED BY <3>1, <3>2, <3>3, <1>a, <1>b, GpuTake
  <2> QED BY <1>5, <2>1, <2>2 DEF Memory
<1> QED BY <1>1, <1>2, <1>3, <1>4, <1>5

-----------------------------------------------------------------------------
(* The whole line *)

\* The properties, of a line a with the options opt in it.
GivenIn(opt, a, fs) == {j \in 1 .. Len(a) : opt[j] /\ a[j].word \in fs}
Greatest(B) == CHOOSE j \in B : \A n \in B : n <= j
DecidedIn(opt, a, f, default, smoke) ==
    IF GivenIn(opt, a, {f, "--smoke"}) = {} THEN default
    ELSE IF a[Greatest(GivenIn(opt, a, {f, "--smoke"}))].word = "--smoke" THEN smoke
    ELSE parse_u64(a[Greatest(GivenIn(opt, a, {f, "--smoke"})) + 1])
ChosenIn(opt, a, f, default, value(_)) ==
    IF GivenIn(opt, a, {f}) = {} THEN default
    ELSE value(a[Greatest(GivenIn(opt, a, {f})) + 1])

AppleWins(opt, a, p, c, s, o) ==
    LET asked == DecidedIn(opt, a, c, Defaults(p).count, s)
    IN  /\ o.smoke = (GivenIn(opt, a, {"--smoke"}) # {})
        /\ o.csv = (GivenIn(opt, a, {"--csv"}) # {})
        /\ o.samples = DecidedIn(opt, a, "--samples", Defaults(p).samples, 3)
        /\ \/ o.count <= asked /\ asked - o.count < 8
           \/ o.count = 8 /\ asked < 8
        /\ p = "advanced" => o.count = asked

GpuWins(opt, a, o) ==
    /\ o.probe = ChosenIn(opt, a, "--probe", "all", word)
    /\ o.mode = ChosenIn(opt, a, "--mode", "smoke", word)
    /\ o.output = ChosenIn(opt, a, "--output", "results/latest.json", word)
    /\ o.gpu = ChosenIn(opt, a, "--gpu", 0, number)
    /\ o.gpus = ChosenIn(opt, a, "--gpus", <<>>, pieces)
    /\ o.iterations = ChosenIn(opt, a, "--iterations", 0, number)
    /\ o.mem_sizes = ChosenIn(opt, a, "--mem-sizes", <<>>, pieces)
    /\ (IF o.bytes > 0 THEN o.bytes ELSE 536870912) =
         ChosenIn(opt, a, "--bytes", 536870912, number)
    /\ GivenIn(opt, a, {"--help"}) = {}

Harmed(opt, a, names) ==
    \E j \in 2 .. Len(a) :
       /\ ~opt[j] /\ a[j].word \in names
       /\ LET f == a[j - 1].word
          IN  ~ \/ f = "--output"
                \/ f \in {"--probe", "--mode"} /\ Greatest(GivenIn(opt, a, {f})) > j - 1

\* LastWins in terms of the line, before and after a step.
LEMMA LastWinsIs ==
    /\ LastWins <=>
         (pc = "run" =>
            IF prog \in Apple
            THEN AppleWins(IsOption, argv, prog, CountOption, SmokeCount, opts)
            ELSE GpuWins(IsOption, argv, opts))
    /\ LastWins' <=>
         (pc' = "run" =>
            IF prog' \in Apple
            THEN AppleWins(IsOption', argv', prog', CountOption', SmokeCount', opts')
            ELSE GpuWins(IsOption', argv', opts'))
<1> HIDE DEF IsOption, CountOption, SmokeCount
<1> QED BY DEF LastWins, Decided, Chosen, Given, Last, Bytes, AppleWins, GpuWins,
               DecidedIn, ChosenIn, GivenIn, Greatest

\* And NothingSwallowed.
LEMMA SwallowedIs ==
    /\ NothingSwallowed <=> (pc = "run" => ~Harmed(IsOption, argv, Options))
    /\ NothingSwallowed' <=> (pc' = "run" => ~Harmed(IsOption', argv', Options'))
<1> HIDE DEF IsOption, Options
<1> QED BY DEF NothingSwallowed, Last, Given, Harmed, GivenIn, Greatest

\* A program that does not go on to measure has nothing to show.
LEMMA NotRunning == pc' # "run" => LastWins' /\ NothingSwallowed'
  BY DEF LastWins, NothingSwallowed

\* What was read at the end is what the whole line gives.
LEMMA AllRead ==
    ASSUME TypeOK, i > Len(argv), NEW fs
    PROVE  /\ Before(IsOption, argv, i, fs) = GivenIn(IsOption, argv, fs)
           /\ GivenIn(IsOption, argv, fs) \subseteq 1 .. Len(argv)
           /\ GivenIn(IsOption, argv, fs) \in SUBSET Nat
<1>1. i - 1 = Len(argv) /\ Len(argv) \in Nat
  BY DEF TypeOK
<1> HIDE DEF IsOption
<1> QED BY <1>1 DEF Before, GivenIn

\* And what its last option says is what the program has.
LEMMA AtLast ==
    ASSUME TypeOK, i > Len(argv), NEW fs, NEW v, NEW d, NEW w,
           Reads(Before(IsOption, argv, i, fs), v, d, w)
    PROVE  /\ v = IF GivenIn(IsOption, argv, fs) = {} THEN d
                  ELSE w[Greatest(GivenIn(IsOption, argv, fs))]
           /\ GivenIn(IsOption, argv, fs) # {} =>
                 /\ Greatest(GivenIn(IsOption, argv, fs)) \in GivenIn(IsOption, argv, fs)
                 /\ Greatest(GivenIn(IsOption, argv, fs)) \in 1 .. Len(argv)
<1> DEFINE B == GivenIn(IsOption, argv, fs)
<1>1. Reads(B, v, d, w) /\ B \in SUBSET Nat /\ B \subseteq 1 .. Len(argv)
  BY AllRead
<1> HIDE DEF B
<1>2. v = IF B = {} THEN d ELSE w[Greatest(B)]
  BY <1>1, Whole DEF Greatest
<1>3. B # {} => Greatest(B) \in B
  BY <1>1 DEF Greatest, Reads
<1>4. /\ v = IF B = {} THEN d ELSE w[Greatest(B)]
      /\ B # {} => Greatest(B) \in B /\ Greatest(B) \in 1 .. Len(argv)
  BY <1>1, <1>2, <1>3
<1> QED BY <1>4 DEF B

\* The number that --smoke or the option f gives.
LEMMA DecidedAtEnd ==
    ASSUME TypeOK, i > Len(argv), NEW f, NEW v, NEW d, NEW s,
           Reads(Before(IsOption, argv, i, {f, "--smoke"}), v, d, SmokeOr(argv, s))
    PROVE  v = DecidedIn(IsOption, argv, f, d, s)
<1> DEFINE g == Greatest(GivenIn(IsOption, argv, {f, "--smoke"}))
<1>1. /\ v = IF GivenIn(IsOption, argv, {f, "--smoke"}) = {} THEN d
             ELSE SmokeOr(argv, s)[g]
      /\ GivenIn(IsOption, argv, {f, "--smoke"}) # {} => g \in 1 .. Len(argv)
  BY AtLast
<1> HIDE DEF g, IsOption
<1>2. GivenIn(IsOption, argv, {f, "--smoke"}) # {} =>
        SmokeOr(argv, s)[g] = IF argv[g].word = "--smoke" THEN s
                              ELSE parse_u64(argv[g + 1])
  BY <1>1 DEF SmokeOr
<1> QED BY <1>1, <1>2 DEF DecidedIn, g

\* The text, number or list that the option f gives.
LEMMA ChosenAtEnd ==
    ASSUME TypeOK, i > Len(argv), NEW f, NEW v, NEW d
    PROVE  /\ Reads(Before(IsOption, argv, i, {f}), v, d, Texts(argv)) =>
                v = ChosenIn(IsOption, argv, f, d, word)
           /\ Reads(Before(IsOption, argv, i, {f}), v, d, Numbers(argv)) =>
                v = ChosenIn(IsOption, argv, f, d, number)
           /\ Reads(Before(IsOption, argv, i, {f}), v, d, Lists(argv)) =>
                v = ChosenIn(IsOption, argv, f, d, pieces)
<1> DEFINE B == GivenIn(IsOption, argv, {f})
           g == Greatest(B)
<1>1. ASSUME NEW w, Reads(Before(IsOption, argv, i, {f}), v, d, w)
      PROVE  v = (IF B = {} THEN d ELSE w[g]) /\ (B # {} => g \in 1 .. Len(argv))
  BY <1>1, AtLast
<1> HIDE DEF g, B
<1>2. ASSUME Reads(Before(IsOption, argv, i, {f}), v, d, Texts(argv))
      PROVE  v = IF B = {} THEN d ELSE argv[g + 1].word
  <2>1. /\ v = IF B = {} THEN d ELSE Texts(argv)[g]
        /\ B # {} => g \in 1 .. Len(argv)
    BY <1>1, <1>2
  <2>2. g \in 1 .. Len(argv) => Texts(argv)[g] = argv[g + 1].word
    BY DEF Texts
  <2> QED BY ONLY <2>1, <2>2
<1>3. ASSUME Reads(Before(IsOption, argv, i, {f}), v, d, Numbers(argv))
      PROVE  v = IF B = {} THEN d ELSE argv[g + 1].pieces[1]
  <2>1. /\ v = IF B = {} THEN d ELSE Numbers(argv)[g]
        /\ B # {} => g \in 1 .. Len(argv)
    BY <1>1, <1>3
  <2>2. g \in 1 .. Len(argv) => Numbers(argv)[g] = argv[g + 1].pieces[1]
    BY DEF Numbers
  <2> QED BY ONLY <2>1, <2>2
<1>4. ASSUME Reads(Before(IsOption, argv, i, {f}), v, d, Lists(argv))
      PROVE  v = IF B = {} THEN d ELSE argv[g + 1].pieces
  <2>1. /\ v = IF B = {} THEN d ELSE Lists(argv)[g]
        /\ B # {} => g \in 1 .. Len(argv)
    BY <1>1, <1>4
  <2>2. g \in 1 .. Len(argv) => Lists(argv)[g] = argv[g + 1].pieces
    BY DEF Lists
  <2> QED BY ONLY <2>1, <2>2
<1> HIDE DEF IsOption
<1> QED BY <1>2, <1>3, <1>4 DEF ChosenIn, B, g, word, number, pieces

\* Each of the three by itself.
LEMMA ChosenText ==
    ASSUME TypeOK, i > Len(argv), NEW f, NEW v, NEW d,
           Reads(Before(IsOption, argv, i, {f}), v, d, Texts(argv))
    PROVE  v = ChosenIn(IsOption, argv, f, d, word)
  BY ChosenAtEnd

\* For an option that is a number.
LEMMA ChosenNumber ==
    ASSUME TypeOK, i > Len(argv), NEW f, NEW v, NEW d,
           Reads(Before(IsOption, argv, i, {f}), v, d, Numbers(argv))
    PROVE  v = ChosenIn(IsOption, argv, f, d, number)
  BY ChosenAtEnd

\* For an option that is a list.
LEMMA ChosenList ==
    ASSUME TypeOK, i > Len(argv), NEW f, NEW v, NEW d,
           Reads(Before(IsOption, argv, i, {f}), v, d, Lists(argv))
    PROVE  v = ChosenIn(IsOption, argv, f, d, pieces)
  BY ChosenAtEnd

\* The value of an option is no option, and its option takes a value.
LEMMA ValueOf ==
    ASSUME TypeOK, NEW j \in 2 .. Len(argv), ~IsOption[j]
    PROVE  /\ j - 1 \in 1 .. Len(argv) /\ IsOption[j - 1]
           /\ argv[j - 1].word \in Valued
<1>1. j - 1 \in 1 .. Len(argv) /\ (j - 1) + 1 = j
  BY DEF TypeOK
<1> HIDE DEF IsOption
<1> QED BY <1>1, OptionSteps

\* When the line is read, the fields are what its last words say.
LEMMA EndApple ==
    ASSUME TypeOK, Meaning, Accept
    PROVE  LastWins' /\ NothingSwallowed'
<1>1. /\ pc = "parse" /\ i > Len(argv) /\ prog \in Apple /\ AppleMeaning
      /\ argv' = argv /\ prog' = prog
      /\ opts' = [opts EXCEPT !.count = Count(opts.count)]
  <2>1. pc = "parse" /\ prog \in Apple
    BY DEF Accept, AtEnd
  <2> QED BY <2>1 DEF Accept, AtEnd, Meaning
<1>2. /\ IsOption' = IsOption /\ Options' = Options
      /\ CountOption' = CountOption /\ SmokeCount' = SmokeCount
  BY <1>1, SameLine
<1>3. opts \in AppleOptions
  BY <1>1 DEF TypeOK, AppleOptions
<1>4. /\ opts'.smoke = opts.smoke /\ opts'.csv = opts.csv
      /\ opts'.samples = opts.samples /\ opts'.count = Count(opts.count)
      /\ opts.smoke \in BOOLEAN /\ opts.csv \in BOOLEAN /\ opts.count \in 1 .. Word
  BY ONLY <1>1, <1>3 DEF AppleOptions
<1>5. /\ opts.smoke = (GivenIn(IsOption, argv, {"--smoke"}) # {})
      /\ opts.csv = (GivenIn(IsOption, argv, {"--csv"}) # {})
  <2>1. /\ opts.smoke <=> Before(IsOption, argv, i, {"--smoke"}) # {}
        /\ opts.csv <=> Before(IsOption, argv, i, {"--csv"}) # {}
    BY <1>1 DEF AppleMeaning, Read
  <2>2. /\ Before(IsOption, argv, i, {"--smoke"}) = GivenIn(IsOption, argv, {"--smoke"})
        /\ Before(IsOption, argv, i, {"--csv"}) = GivenIn(IsOption, argv, {"--csv"})
    BY <1>1, AllRead
  <2> HIDE DEF IsOption
  <2>3. /\ opts.smoke <=> GivenIn(IsOption, argv, {"--smoke"}) # {}
        /\ opts.csv <=> GivenIn(IsOption, argv, {"--csv"}) # {}
    BY <2>1, <2>2
  <2> QED BY <2>3, <1>4, Zenon
<1>6. opts.samples = DecidedIn(IsOption, argv, "--samples", Defaults(prog).samples, 3)
  <2>1. Reads(Before(IsOption, argv, i, {"--samples", "--smoke"}), opts.samples,
              Defaults(prog).samples, SmokeOr(argv, 3))
    BY <1>1 DEF AppleMeaning, Read
  <2> QED BY <1>1, <2>1, DecidedAtEnd
<1>7. opts.count = DecidedIn(IsOption, argv, CountOption, Defaults(prog).count, SmokeCount)
  <2>1. Reads(Before(IsOption, argv, i, {CountOption, "--smoke"}), opts.count,
              Defaults(prog).count, SmokeOr(argv, SmokeCount))
    BY <1>1 DEF AppleMeaning, Read
  <2> QED BY <1>1, <2>1, DecidedAtEnd
<1>8. /\ \/ Count(opts.count) <= opts.count /\ opts.count - Count(opts.count) < 8
         \/ Count(opts.count) = 8 /\ opts.count < 8
      /\ prog = "advanced" => Count(opts.count) = opts.count
  <2>1. opts.count \in Nat
    BY <1>4, CommandLineAssumption
  <2>2. /\ Rounded(opts.count) <= opts.count /\ opts.count - Rounded(opts.count) < 8
        /\ Rounded(8) = 8
    BY <2>1 DEF Rounded
  <2> QED BY <2>1, <2>2, <1>1 DEF Count
<1>9. LastWins'
  <2> HIDE DEF IsOption, CountOption, SmokeCount
  <2>1. AppleWins(IsOption, argv, prog, CountOption, SmokeCount, opts')
    BY <1>4, <1>5, <1>6, <1>7, <1>8 DEF AppleWins
  <2> QED BY <1>1, <1>2, <2>1, LastWinsIs
<1>10. NothingSwallowed'
  <2> HIDE DEF IsOption
  <2>1. ASSUME NEW j \in 2 .. Len(argv), ~IsOption[j], argv[j].word \in Options
        PROVE  FALSE
    <3>1. argv[j - 1].word \in Valued
      BY <2>1, ValueOf
    <3>2. j < i
      BY <1>1 DEF TypeOK
    <3>3. argv[j - 1].word \in Textual
      BY <1>1, <2>1, <3>2 DEF Meaning, Swallowed
    <3> QED BY <1>1, <3>1, <3>3 DEF Valued, CountOption, Textual
  <2>2. ~Harmed(IsOption, argv, Options)
    BY <2>1 DEF Harmed
  <2> QED BY <1>2, <1>1, <2>2, SwallowedIs
<1> QED BY <1>9, <1>10

\* The same, after the checks of cli.cpp.
LEMMA EndGpu ==
    ASSUME TypeOK, Meaning, Check, pc' = "run"
    PROVE  LastWins' /\ NothingSwallowed'
<1>1. /\ pc = "parse" /\ i > Len(argv) /\ prog \notin Apple /\ GpuMeaning
      /\ argv' = argv /\ prog' = prog /\ opts' = opts
      /\ is_valid_probe(opts.probe) /\ is_valid_mode(opts.mode) /\ ~opts.help
  <2>1. pc = "parse" /\ prog \notin Apple
    BY DEF Check, AtEnd, Apple
  <2> QED BY <2>1 DEF Check, AtEnd, Stop, Meaning
<1>2. IsOption' = IsOption /\ Options' = Options
  BY <1>1, SameLine
<1>3. GivenIn(IsOption, argv, {"--help"}) = {}
  <2>1. Before(IsOption, argv, i, {"--help"}) = {}
    BY <1>1, SMT DEF GpuMeaning, Read
  <2> QED BY <1>1, <2>1, AllRead
<1>4. GpuWins(IsOption, argv, opts)
  <2> HIDE DEF IsOption
  <2>1. opts.probe = ChosenIn(IsOption, argv, "--probe", "all", word)
    <3>1. Reads(Before(IsOption, argv, i, {"--probe"}), opts.probe, "all", Texts(argv))
      BY ONLY <1>1, SMT DEF GpuMeaning, Read
    <3> QED BY <1>1, <3>1, ChosenText, SMT
  <2>2. opts.mode = ChosenIn(IsOption, argv, "--mode", "smoke", word)
    <3>1. Reads(Before(IsOption, argv, i, {"--mode"}), opts.mode, "smoke", Texts(argv))
      BY ONLY <1>1, SMT DEF GpuMeaning, Read
    <3> QED BY <1>1, <3>1, ChosenText, SMT
  <2>3. opts.output = ChosenIn(IsOption, argv, "--output", "results/latest.json", word)
    <3>1. Reads(Before(IsOption, argv, i, {"--output"}), opts.output, "results/latest.json", Texts(argv))
      BY ONLY <1>1, SMT DEF GpuMeaning, Read
    <3> QED BY <1>1, <3>1, ChosenText, SMT
  <2>4. opts.gpu = ChosenIn(IsOption, argv, "--gpu", 0, number)
    <3>1. Reads(Before(IsOption, argv, i, {"--gpu"}), opts.gpu, 0, Numbers(argv))
      BY ONLY <1>1, SMT DEF GpuMeaning, Read
    <3> QED BY <1>1, <3>1, ChosenNumber, SMT
  <2>5. opts.gpus = ChosenIn(IsOption, argv, "--gpus", <<>>, pieces)
    <3>1. Reads(Before(IsOption, argv, i, {"--gpus"}), opts.gpus, <<>>, Lists(argv))
      BY ONLY <1>1, SMT DEF GpuMeaning, Read
    <3> QED BY <1>1, <3>1, ChosenList, SMT
  <2>6. opts.iterations = ChosenIn(IsOption, argv, "--iterations", 0, number)
    <3>1. Reads(Before(IsOption, argv, i, {"--iterations"}), opts.iterations, 0, Numbers(argv))
      BY ONLY <1>1, SMT DEF GpuMeaning, Read
    <3> QED BY <1>1, <3>1, ChosenNumber, SMT
  <2>7. opts.mem_sizes = ChosenIn(IsOption, argv, "--mem-sizes", <<>>, pieces)
    <3>1. Reads(Before(IsOption, argv, i, {"--mem-sizes"}), opts.mem_sizes, <<>>, Lists(argv))
      BY ONLY <1>1, SMT DEF GpuMeaning, Read
    <3> QED BY <1>1, <3>1, ChosenList, SMT
  <2>8. Bytes = ChosenIn(IsOption, argv, "--bytes", 536870912, number)
    <3>1. Reads(Before(IsOption, argv, i, {"--bytes"}), Bytes, 536870912, Numbers(argv))
      BY ONLY <1>1, SMT DEF GpuMeaning, Read
    <3> QED BY <1>1, <3>1, ChosenNumber, SMT
  <2> QED BY <2>1, <2>2, <2>3, <2>4, <2>5, <2>6, <2>7, <2>8, <1>3,
             SMTT(20) DEF GpuWins, Bytes
<1>5. LastWins'
  <2> HIDE DEF IsOption
  <2> QED BY <1>1, <1>2, <1>4, LastWinsIs
<1>6. NothingSwallowed'
  <2> HIDE DEF IsOption
  <2>1. ASSUME NEW j \in 2 .. Len(argv), ~IsOption[j], argv[j].word \in Options,
               argv[j - 1].word # "--output"
        PROVE  /\ argv[j - 1].word \in {"--probe", "--mode"}
               /\ Greatest(GivenIn(IsOption, argv, {argv[j - 1].word})) > j - 1
    <3>1. j - 1 \in 1 .. Len(argv) /\ IsOption[j - 1]
      BY <2>1, ValueOf
    <3>2. j < i
      BY <1>1 DEF TypeOK
    <3>3. argv[j - 1].word \in {"--probe", "--mode"}
      BY <1>1, <2>1, <3>2 DEF Meaning, Swallowed, Textual
    <3> DEFINE f == argv[j - 1].word
               B == GivenIn(IsOption, argv, {f})
               v == IF f = "--probe" THEN opts.probe ELSE opts.mode
               d == IF f = "--probe" THEN "all" ELSE "smoke"
    <3>4. Reads(Before(IsOption, argv, i, {f}), v, d, Texts(argv))
      <4>1. CASE f = "--probe"
        BY <1>1, <4>1, SMT DEF GpuMeaning, Read
      <4>2. CASE f # "--probe"
        <5>1. f = "--mode"
          BY <3>3, <4>2
        <5> HIDE DEF f
        <5> QED BY <1>1, <5>1, SMT DEF GpuMeaning, Read
      <4> QED BY <4>1, <4>2
    <3>5. j - 1 \in B
      BY <3>1 DEF GivenIn
    <3>6. v \notin Options
      BY <1>1, <3>3 DEF is_valid_probe, is_valid_mode, Options, Valued
    <3>7. /\ v = IF B = {} THEN d ELSE Texts(argv)[Greatest(B)]
          /\ B # {} => Greatest(B) \in B /\ Greatest(B) \in 1 .. Len(argv)
      <4> HIDE DEF v, d, f
      <4> QED BY <1>1, <3>4, AtLast DEF B
    <3>8. Texts(argv)[j - 1] = argv[j].word
      BY <3>1 DEF Texts
    <3> HIDE DEF v, d, B
    <3>9. Greatest(B) # j - 1
      BY <3>5, <3>6, <3>7, <3>8, <2>1
    <3>10. Greatest(B) >= j - 1
      <4>1. \E m \in B : \A n \in B : n <= m
        <5>1. Reads(B, v, d, Texts(argv))
          BY <1>1, <3>4, AllRead DEF B
        <5> QED BY <5>1, <3>5 DEF Reads
      <4>2. \A n \in B : n <= Greatest(B)
        BY <4>1 DEF Greatest
      <4> QED BY <3>1, <3>5, <3>7, <4>2
    <3>11. Greatest(B) > j - 1
      BY <3>1, <3>5, <3>7, <3>9, <3>10
    <3> QED BY <3>3, <3>11 DEF B
  <2>2. ~Harmed(IsOption, argv, Options)
    BY <2>1 DEF Harmed
  <2> QED BY <1>2, <1>1, <2>2, SwallowedIs
<1> QED BY <1>5, <1>6

\* Every step of a program, or none.
LEMMA StepM ==
    ASSUME TypeOK, Meaning, LastWins, NothingSwallowed, [Next]_vars
    PROVE  Meaning' /\ LastWins' /\ NothingSwallowed'
<1>1. CASE Smoke \/ Csv \/ Samples \/ Blocks
  <2>1. pc' # "run"
    BY <1>1 DEF Smoke, Csv, Samples, Blocks, Take, Refuse, Stop, Set, At
  <2> QED BY <1>1, <2>1, AppleM, NotRunning
<1>2. CASE Help \/ Text \/ Gpu \/ IterationsOption \/ Memory
  <2>1. pc' # "run"
    BY <1>2 DEF Help, Text, Gpu, IterationsOption, Memory, Take, Refuse, Stop, Set, At
  <2> QED BY <1>2, <2>1, GpuM, NotRunning
<1>3. CASE Usage \/ Unknown
  <2>1. pc' \in {"help", "refused"}
    BY <1>3 DEF Usage, Unknown, Refuse, Stop
  <2> QED BY <2>1, NotRunning DEF Meaning
<1>4. CASE Accept
  <2>1. pc' = "run"
    BY <1>4 DEF Accept
  <2> QED BY <1>4, <2>1, EndApple DEF Meaning
<1>5. CASE Check
  <2>1. pc' # "parse"
    BY <1>5 DEF Check, Stop
  <2> QED BY <1>5, <2>1, EndGpu, NotRunning DEF Meaning
<1>6. CASE UNCHANGED vars
  <2>1. /\ argv' = argv /\ prog' = prog /\ opts' = opts /\ i' = i /\ pc' = pc
    BY <1>6 DEF vars
  <2>2. /\ IsOption' = IsOption /\ Options' = Options
        /\ CountOption' = CountOption /\ SmokeCount' = SmokeCount
    BY <2>1, SameLine
  <2> HIDE DEF IsOption, Options, CountOption, SmokeCount
  <2>3. LastWins'
    BY <2>1, <2>2, LastWinsIs
  <2>4. NothingSwallowed'
    BY <2>1, <2>2, SwallowedIs
  <2>5. Swallowed <=> Swallowed'
    BY <2>1, <2>2 DEF Swallowed
  <2>6. AppleMeaning <=> AppleMeaning'
    BY <2>1, <2>2 DEF AppleMeaning, Read
  <2>7. GpuMeaning <=> GpuMeaning'
    BY <2>1, <2>2, SMTT(20) DEF GpuMeaning, Read, Bytes
  <2> QED BY <2>1, <2>2, <2>3, <2>4, <2>5, <2>6, <2>7 DEF Meaning
<1> QED BY <1>1, <1>2, <1>3, <1>4, <1>5, <1>6 DEF Next

\* The invariant, and what it means at the end of a line.
LEMMA MeaningOfLines == Spec => [](Meaning /\ LastWins /\ NothingSwallowed)
<1>1. Init => Meaning /\ LastWins /\ NothingSwallowed
  BY InitM DEF Init, LastWins, NothingSwallowed
<1>2. TypeOK /\ (Meaning /\ LastWins /\ NothingSwallowed) /\ [Next]_vars
        => (Meaning /\ LastWins /\ NothingSwallowed)'
  BY StepM
<1> QED BY <1>1, <1>2, LineTypes, PTL DEF Spec

\* Whatever the line and however long, the last thing it says about an option
\* is what the program uses.
THEOREM TheLastWins == Spec => []LastWins
  BY MeaningOfLines, PTL

\* And no option is taken for the value of another one and lost, except for a
\* path, and for the name of a probe or mode that is replaced.
THEOREM NoOptionSwallowed == Spec => []NothingSwallowed
  BY MeaningOfLines, PTL
=============================================================================
