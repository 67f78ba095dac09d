----------------------------- MODULE CommandLine -----------------------------
(***************************************************************************)
(* The command lines of the four programs: parse_options of                *)
(* deep_cpu_probes.c, advanced_cpu_probes.c and cpu_probes.c, which differ *)
(* in their defaults and in how they round the count of blocks, and that   *)
(* of cli.cpp with the checks at its end, the help of main.cpp and the     *)
(* defaults the GPU probes put in the place of what was not given.         *)
(*                                                                         *)
(* An argument is a word and the numbers its comma-separated pieces spell; *)
(* a piece that spells none counts as NoNumber, which no parser takes.     *)
(***************************************************************************)
EXTENDS Integers, Sequences, FiniteSets

CONSTANTS
    Programs,  \* the programs looked at
    Words,     \* the texts an argument may be
    Args,      \* the arguments a line of each may be made of
    MaxArgs,   \* the longest line looked at, of each
    Word,      \* the number of values of a uint64_t
    Word32,    \* and of a uint32_t
    IntMax     \* the largest int

Apple == {"deep", "advanced", "first"}
NoNumber == Word
Arg == [word : Words, pieces : Seq(Int)]
Line(p) == UNION {[1 .. n -> Args[p]] : n \in 0 .. MaxArgs[p]}

ASSUME CommandLineAssumption ==
    /\ Programs \subseteq Apple \cup {"nvidia"}
    /\ {"all", "smoke", "results/latest.json"} \subseteq Words
    /\ Args \in [Programs -> SUBSET Arg]
    /\ MaxArgs \in [Programs -> Nat]
    /\ Word \in Nat /\ IntMax \in Nat
    /\ IntMax < Word /\ 1000000000 < IntMax
    /\ Word % 4 = 0
    /\ Word32 \in Nat /\ 100000000 < Word32

\* The texts that are options of one of the programs.
OptionNames ==
    {"--smoke", "--csv", "--help", "--samples", "--blocks", "--iters",
     "--probe", "--gpu", "--gpus", "--mode", "--iterations", "--mem-sizes",
     "--bytes", "--output"}

\* None of them spells a number.
ASSUME NamesAssumption ==
    \A p \in Programs : \A a \in Args[p] :
       a.word \in OptionNames => a.pieces = <<NoNumber>>

VARIABLES
    prog,  \* the program
    argv,  \* its arguments
    i,     \* the next to read
    opts,  \* the options
    pc     \* "parse", then "run", "help" or "refused"

vars == <<prog, argv, i, opts, pc>>

-----------------------------------------------------------------------------
(* Values *)

\* strtoull takes a sign and negates in 64 bits; from_chars takes no sign for
\* an unsigned, and parse_u64 of cli.cpp no zero.
parse_u64_ok(a) ==
    /\ Len(a.pieces) = 1
    /\ a.pieces[1] \in IF prog \in Apple THEN (1 - Word) .. (Word - 1)
                                         ELSE 1 .. (Word - 1)
parse_u64(a) == a.pieces[1] % Word

\* parse_int, and the callers' refusal of what is negative.
parse_int_ok(a) == Len(a.pieces) = 1 /\ a.pieces[1] \in 0 .. IntMax
parse_gpu_csv_ok(a) == \A j \in DOMAIN a.pieces : a.pieces[j] \in 0 .. IntMax
parse_u64_csv_ok(a) == \A j \in DOMAIN a.pieces : a.pieces[j] \in 1 .. (Word - 1)

is_valid_probe(w) == w \in {"env", "ptx-latency", "mem-chase", "hbm-bandwidth",
                            "fabric-smoke", "all"}
is_valid_mode(w) == w \in {"smoke", "custom"}

CountOption == IF prog = "advanced" THEN "--iters" ELSE "--blocks"

Default(p) == [deep |-> 400000, advanced |-> 200000, first |-> 1000000][p]
SmokeCount == [deep |-> 50000, advanced |-> 40000, first |-> 100000][prog]

Defaults(p) ==
    IF p \in Apple
    THEN [smoke |-> FALSE, csv |-> FALSE,
          samples |-> IF p = "first" THEN 9 ELSE 7, count |-> Default(p)]
    ELSE [probe |-> "all", gpu |-> 0, gpus |-> <<>>, mode |-> "smoke",
          iterations |-> 0, mem_sizes |-> <<>>, bytes |-> 0,
          output |-> "results/latest.json", help |-> FALSE]

Rounded(n) == n - (n % 8)

\* opts->iters * 4U in the width of a word: the two highest bits are lost.
TimesFour(n) == (n % (Word \div 4)) * 4

\* The counts the sections of the Apple programs make of it.
AtLeast(n, least) == IF n < least THEN least ELSE n
Shares ==
    {opts.count} \cup
    IF prog = "deep"
    THEN {opts.count \div 2, opts.count \div 4, AtLeast(opts.count \div 16, 1024)}
    ELSE IF prog = "advanced"
    THEN {AtLeast(opts.count \div (IF opts.smoke THEN 8 ELSE 4), 1000),
          IF opts.smoke THEN opts.count ELSE TimesFour(opts.count)}
    ELSE {}

\* What the GPU probes use in the place of an option that was not given.
Iterations == IF opts.iterations > 0 THEN opts.iterations ELSE 1000000
Bytes == IF opts.bytes > 0 THEN opts.bytes ELSE 536870912
SmokeSizes == {4096, 32768, 262144, 1048576, 4194304, 8388608, 33554432,
               134217728, 268435456}
Sizes == IF opts.mem_sizes = <<>> THEN SmokeSizes
         ELSE {opts.mem_sizes[j] : j \in DOMAIN opts.mem_sizes}

\* The elements of mem-chase's ring, cut to 32 bits.
Elements(bytes) == (bytes \div 4) % Word32

-----------------------------------------------------------------------------
(* The steps of the loop over the arguments *)

Stop(e) == pc' = e /\ UNCHANGED <<prog, argv, i, opts>>
Refuse == Stop("refused")
Set(o, n) == opts' = o /\ i' = i + n /\ UNCHANGED <<prog, argv, pc>>

At(f) == pc = "parse" /\ i <= Len(argv) /\ argv[i].word = f
Value == argv[i + 1]

\* An option with a value: the value is there and is right, or the line is
\* refused.
Take(f, ok, o) == At(f) /\ IF i < Len(argv) /\ ok THEN Set(o, 2) ELSE Refuse

-----------------------------------------------------------------------------
(* Slips the properties must catch; no specification uses them. *)

\* Rounding down, without the one block that is always left.
RoundedOnly(n) == IF prog = "advanced" THEN n ELSE Rounded(n)

\* --csv steps over the argument after it.
CsvAndNext == prog \in Apple /\ At("--csv") /\ Set([opts EXCEPT !.csv = TRUE], 2)

\* --smoke keeps a number of samples given before it.
SmokeKeepsSamples ==
    /\ prog \in Apple
    /\ At("--smoke")
    /\ Set([opts EXCEPT !.smoke = TRUE, !.count = SmokeCount,
              !.samples = IF @ = Defaults(prog).samples THEN 3 ELSE @], 1)

\* A number that is not right leaves the default in place.
IterationsLenient ==
    /\ prog = "nvidia"
    /\ Take("--iterations", TRUE,
            IF parse_int_ok(Value)
            THEN [opts EXCEPT !.iterations = Value.pieces[1]] ELSE opts)

-----------------------------------------------------------------------------
(* The programs for the Apple CPUs *)

\* The count the kernels get: at least one whole block of eight, but for the
\* advanced program, which takes it as it is.
Count(n) ==
    IF prog = "advanced" THEN n
    ELSE IF prog = "deep" THEN Rounded(IF n < 8 THEN 8 ELSE n)
    ELSE IF Rounded(n) = 0 THEN 8 ELSE Rounded(n)

Smoke ==
    /\ prog \in Apple
    /\ At("--smoke")
    /\ Set([smoke |-> TRUE, csv |-> opts.csv, samples |-> 3, count |-> SmokeCount], 1)

Csv == prog \in Apple /\ At("--csv") /\ Set([opts EXCEPT !.csv = TRUE], 1)

Samples ==
    /\ prog \in Apple
    /\ Take("--samples",
            parse_u64_ok(Value) /\ parse_u64(Value) \in 1 .. 1000,
            [opts EXCEPT !.samples = parse_u64(Value)])

Blocks ==
    /\ prog \in Apple
    /\ Take(CountOption,
            parse_u64_ok(Value) /\ parse_u64(Value) # 0,
            [opts EXCEPT !.count = parse_u64(Value)])

\* The first --help ends the program, whatever follows it.
Usage == prog \in Apple /\ At("--help") /\ Stop("help")

-----------------------------------------------------------------------------
(* The program for the GPUs *)

\* --help is only remembered: the rest of the line must be right all the same.
Help == prog = "nvidia" /\ At("--help") /\ Set([opts EXCEPT !.help = TRUE], 1)

Text == prog = "nvidia" /\
    \/ Take("--probe", TRUE, [opts EXCEPT !.probe = Value.word])
    \/ Take("--mode", TRUE, [opts EXCEPT !.mode = Value.word])
    \/ Take("--output", TRUE, [opts EXCEPT !.output = Value.word])

Gpu == prog = "nvidia" /\
    \/ Take("--gpu", parse_int_ok(Value), [opts EXCEPT !.gpu = Value.pieces[1]])
    \/ Take("--gpus", parse_gpu_csv_ok(Value), [opts EXCEPT !.gpus = Value.pieces])

IterationsOption ==
    /\ prog = "nvidia"
    /\ Take("--iterations", parse_int_ok(Value),
            [opts EXCEPT !.iterations = Value.pieces[1]])

Memory == prog = "nvidia" /\
    \/ Take("--mem-sizes", parse_u64_csv_ok(Value),
            [opts EXCEPT !.mem_sizes = Value.pieces])
    \/ Take("--bytes", parse_u64_ok(Value), [opts EXCEPT !.bytes = parse_u64(Value)])

-----------------------------------------------------------------------------

\* The options that are followed by a value.
Valued ==
    IF prog \in Apple THEN {"--samples", CountOption}
    ELSE {"--probe", "--gpu", "--gpus", "--mode", "--iterations", "--mem-sizes",
          "--bytes", "--output"}
Options == Valued \cup (IF prog \in Apple THEN {"--smoke", "--csv", "--help"}
                                          ELSE {"--help"})

Unknown ==
    /\ pc = "parse"
    /\ i <= Len(argv)
    /\ argv[i].word \notin Options
    /\ Refuse

AtEnd == pc = "parse" /\ i > Len(argv)

Accept ==
    /\ AtEnd
    /\ prog \in Apple
    /\ opts' = [opts EXCEPT !.count = Count(@)]
    /\ pc' = "run"
    /\ UNCHANGED <<prog, argv, i>>

Check ==
    /\ AtEnd
    /\ prog = "nvidia"
    /\ Stop(IF is_valid_probe(opts.probe) /\ is_valid_mode(opts.mode)
               /\ opts.output # ""
            THEN IF opts.help THEN "help" ELSE "run"
            ELSE "refused")

Init ==
    /\ prog \in Programs
    /\ argv \in Line(prog)
    /\ i = 1
    /\ opts = Defaults(prog)
    /\ pc = "parse"

Next ==
    \/ Smoke \/ Csv \/ Samples \/ Blocks \/ Usage
    \/ Help \/ Text \/ Gpu \/ IterationsOption \/ Memory
    \/ Unknown \/ Accept \/ Check

Spec == Init /\ [][Next]_vars

-----------------------------------------------------------------------------
(* Properties *)

\* Every variable has its type, and no argument past the last is read.
TypeOK ==
    /\ prog \in Programs
    /\ argv \in Seq(Args[prog])
    /\ i \in 1 .. Len(argv) + 1
    /\ pc \in {"parse", "run", "help", "refused"}
    /\ opts \in IF prog \in Apple
                THEN [smoke : BOOLEAN, csv : BOOLEAN,
                      samples : 1 .. 1000, count : 1 .. Word]
                ELSE [probe : Words, gpu : 0 .. IntMax, gpus : Seq(0 .. IntMax),
                      mode : Words, iterations : 0 .. IntMax,
                      mem_sizes : Seq(1 .. Word), bytes : 0 .. Word,
                      output : Words, help : BOOLEAN]

\* Whatever the line, a program that goes on to measure has options that leave
\* no sample loop and no kernel without a turn, not even in the sections that
\* take a part of the count or a multiple of it, whole blocks of eight where the
\* kernels count in eights, a probe that exists, GPU ids that are no negative
\* numbers, launches, buffers and rings that are not empty, a report that has a
\* name.  Two values slip through that the parsers take and the sections do not
\* survive: of the advanced program, a count that a multiplication with four
\* takes to zero, so that the threads of its scaling rows have nothing to do and
\* the time is divided by no operations; and of mem-chase, a size given with less
\* than one element, or with just as many as a 32-bit count shows as none.
OptionsFit ==
    pc = "run" =>
      IF prog \in Apple
      THEN /\ opts.samples \in 1 .. 1000
           /\ \/ \A n \in Shares : n > 0
              \/ /\ prog = "advanced" /\ ~opts.smoke
                 /\ opts.count % (Word \div 4) = 0 /\ opts.count > 0
           /\ prog # "advanced" => opts.count % 8 = 0
      ELSE /\ is_valid_probe(opts.probe) /\ is_valid_mode(opts.mode)
           /\ {opts.gpu} \cup {opts.gpus[j] : j \in DOMAIN opts.gpus}
                \subseteq 0 .. IntMax
           /\ Iterations \in 1 .. IntMax
           /\ Bytes > 0 /\ Sizes # {}
           /\ \A bytes \in Sizes :
                 \/ Elements(bytes) > 0
                 \/ /\ opts.mem_sizes # <<>>
                    /\ bytes > 0 /\ bytes % (4 * Word32) < 4
           /\ opts.output # "" /\ ~opts.help

\* Reading the line from its start, an argument is an option unless it is the
\* value of the option before it.
IsOption[j \in 1 .. Len(argv)] ==
    j = 1 \/ ~(IsOption[j - 1] /\ argv[j - 1].word \in Valued)

Given(fs) == {j \in 1 .. Len(argv) : IsOption[j] /\ argv[j].word \in fs}
Last(fs) == CHOOSE j \in Given(fs) : \A n \in Given(fs) : n <= j
Chosen(f, default, value(_)) ==
    IF Given({f}) = {} THEN default ELSE value(argv[Last({f}) + 1])

\* Of --smoke and the options f, the last one decides.
Decided(f, default, smoke) ==
    IF Given({f, "--smoke"}) = {} THEN default
    ELSE IF argv[Last({f, "--smoke"})].word = "--smoke" THEN smoke
    ELSE parse_u64(argv[Last({f, "--smoke"}) + 1])

word(a) == a.word
pieces(a) == a.pieces
number(a) == a.pieces[1]

\* Reading the line backwards, the first thing said about an option is what
\* the parser hands on; --smoke says something about the samples and the count.
\* The count loses less than a block of eight, and never its last.  What a text
\* is as a number is the parser's affair (a signed one wraps), and so is that
\* --iterations 0 is the same as no --iterations.
LastWins ==
    pc = "run" =>
      IF prog \in Apple
      THEN LET asked == Decided(CountOption, Defaults(prog).count, SmokeCount)
           IN  /\ opts.smoke = (Given({"--smoke"}) # {})
               /\ opts.csv = (Given({"--csv"}) # {})
               /\ opts.samples = Decided("--samples", Defaults(prog).samples, 3)
               /\ \/ opts.count <= asked /\ asked - opts.count < 8
                  \/ opts.count = 8 /\ asked < 8
               /\ prog = "advanced" => opts.count = asked
      ELSE /\ opts.probe = Chosen("--probe", "all", word)
           /\ opts.mode = Chosen("--mode", "smoke", word)
           /\ opts.output = Chosen("--output", "results/latest.json", word)
           /\ opts.gpu = Chosen("--gpu", 0, number)
           /\ opts.gpus = Chosen("--gpus", <<>>, pieces)
           /\ opts.iterations = Chosen("--iterations", 0, number)
           /\ opts.mem_sizes = Chosen("--mem-sizes", <<>>, pieces)
           /\ Bytes = Chosen("--bytes", 536870912, number)
           /\ Given({"--help"}) = {}

\* An option whose value was forgotten does not take the option after it for
\* its value and go on: only a path may look like an option, and the name of a
\* probe or mode that another one replaces later in the line.
NothingSwallowed ==
    pc = "run" =>
      \A j \in 2 .. Len(argv) :
         ~IsOption[j] /\ argv[j].word \in Options =>
           LET f == argv[j - 1].word
           IN  \/ f = "--output"
               \/ f \in {"--probe", "--mode"} /\ Last({f}) > j - 1
=============================================================================
