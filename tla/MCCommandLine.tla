----------------------------- MODULE MCCommandLine -----------------------------
(***************************************************************************)
(* CommandLine with build on every file of up to FileLength bytes, among   *)
(* them lines of one word more than the buffer holds; and with query and   *)
(* every list of up to MaxArguments arguments behind it, on six words, of  *)
(* which one alone is far and long; with a query that is too long; and     *)
(* with arguments that main refuses.                                       *)
(***************************************************************************)
EXTENDS CommandLine, TLC

CONSTANTS FileLength, MaxArguments

Builds == {[args |-> <<"build", "words", "index">>, file |-> f] :
              f \in BoundedSeq({List!NUL, List!NL, List!CR, 97}, FileLength)}

Vocabulary == {"--distance", "--metric", "--algorithm", "2", "-1", "damerau", "levenshtein", "dfa", "bit-parallel"}
Queries == {[args |-> <<"query", "index", "word">> \o rest, file |-> << >>] :
               rest \in BoundedSeq(Vocabulary, MaxArguments)} \cup
           {[args |-> <<"query", "index", "long">> \o rest, file |-> << >>] :
               rest \in BoundedSeq(Vocabulary, 2)}
Refused == {[args |-> a, file |-> << >>] :
               a \in {<< >>, <<"search", "index", "word">>, <<"query", "index">>, <<"build", "words">>,
                      <<"build", "words", "index", "2">>}}
AllCommands == Builds \cup Queries \cup Refused

Atoi(argument) == CASE argument = "2" -> 2 [] argument = "-1" -> -1 [] OTHER -> 0

Distances == ("levenshtein" :> <<2, 1, 3, 1, 0, 2>>) @@ ("damerau" :> <<1, 1, 3, 1, 0, 2>>)
Lengths == <<2, 3, 6, 4, 3, 1>>
==============================================================================
