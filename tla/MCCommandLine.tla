---------------------------- MODULE MCCommandLine ----------------------------
(* Every line of up to five (deep) or four arguments over small alphabets of  *)
(* options, names and numbers: a negative one, zero, numbers around a block   *)
(* of eight and beyond the limit of the samples, a quarter of a word, lists,  *)
(* one of them of sizes without an element or with too many, and pieces that  *)
(* are no number.                                                             *)
EXTENDS CommandLine

MCWord(w) == [word |-> w, pieces |-> <<NoNumber>>]
MCNumbers(s) == [word |-> "number", pieces |-> s]

MCArgs ==
    [p \in {"deep", "advanced", "first", "nvidia"} |->
       IF p # "nvidia"
       THEN {MCWord(w) : w \in {"--smoke", "--csv", "--help", "--samples",
                                IF p = "advanced" THEN "--iters" ELSE "--blocks"}}
            \cup {MCNumbers(<<n>>) : n \in {-3, 0, 5, 20, 1001, 268435456}}
       ELSE {MCWord(w) : w \in {"--help", "--probe", "--gpu", "--gpus", "--mode",
                                "--iterations", "--mem-sizes", "--bytes",
                                "--output", "all", "env", "custom", ""}}
            \cup {MCNumbers(s) : s \in {<<-1>>, <<0>>, <<5>>, <<0, 5>>,
                                        <<3, 536870912>>, <<5, NoNumber>>}}]

MCWords == {"results/latest.json", "smoke", "number"}
              \cup UNION {{a.word : a \in MCArgs[p]} : p \in DOMAIN MCArgs}

MCMaxArgs == [p \in {"deep", "advanced", "first", "nvidia"} |->
                IF p = "deep" THEN 5 ELSE 4]
=============================================================================
