-------------------------------- MODULE Main --------------------------------
(***************************************************************************)
(* main and command_line_helper: one run of the program, from its command  *)
(* line to its exit status.                                                *)
(*                                                                         *)
(* A command line is a record of its options: type, rules_file, a set of   *)
(* flags, random, input_files, solvability, resume (the length of its      *)
(* list), cores, streamliners, cache_type and timeout; NoName is a name    *)
(* that was not given, -1 a number.  A search is what Solver may answer of *)
(* its deal.                                                               *)
(***************************************************************************)
EXTENDS RulesParser

CONSTANTS
  CommandLines,    (* What the user may ask.                               *)
  Presets,         (* Documents of the preset games, by name.              *)
  RulesFiles,      (* Documents of the files of rules, by name: a file     *)
                   (* that is no JSON has none.                            *)
  InputFiles,      (* What the files of deals hold, by name: unreadable,   *)
                   (* refused, not a card, or a deal with its truth.       *)
  SeedDeal,        (* The deal of the seed.                                *)
  NoName

(* A deal that starts solved can be won; "seed" is the name of no file.    *)
ASSUME DealsAssumption ==
  /\ \A line \in CommandLines : line.input_files \in Seq(DOMAIN InputFiles)
  /\ "seed" \notin DOMAIN InputFiles
  /\ \A deal \in {SeedDeal} \union {InputFiles[name] : name \in DOMAIN InputFiles} :
       deal.is = "deal" /\ deal.solved => deal.winnable

VARIABLES
  cmd,             (* The command line.                                    *)
  asserts,         (* The build keeps assert().                            *)
  pc, rules,
  todo,            (* The deals still to solve, by name.                   *)
  search,          (* The search that runs: streamliner, budget, and       *)
                   (* whether the signal came before it.                   *)
  handled,         (* The signal handler is installed.                     *)
  sigint, had_error,
  answers,         (* What was printed: of which deal, and what.           *)
  exit             (* "no", "success", "failure", "abort" or "killed".     *)

vars == <<cmd, asserts, pc, rules, todo, search, handled, sigint, had_error, answers, exit>>

-----------------------------------------------------------------------------
(* parse, assess_errors, assess_sol_type                                   *)
Has(flag) == flag \in cmd.flags
IsBenchmark == cmd.flags \intersect {"benchmark", "benchmark-json"} # {}

StreamlinerOption ==
  IF cmd.streamliners # NoName THEN cmd.streamliners
  ELSE IF cmd.solvability = -1 THEN "none" ELSE "smart-solvability"

ResumeLength == IF cmd.resume = -1 THEN 3 + cmd.cores ELSE cmd.resume

IsInformation == cmd.flags \intersect {"available-game-types", "version", "describe-game-rules"} # {}

Requests ==
  {request \in {"random", "input files", "solvability", "benchmark"} :
     CASE request = "random" -> cmd.random # -1
       [] request = "input files" -> cmd.input_files # <<>>
       [] request = "solvability" -> cmd.solvability > 0
       [] request = "benchmark" -> IsBenchmark}

Understood ==
  /\ ~ Has("unknown option")
  /\ StreamlinerOption \in {"none", "auto-foundations", "suit-symmetry", "both", "smart-solvability"}
  /\ cmd.cache_type \in {"auto", "hash-only", "multiplicity", "bitmap"}

NoErrors ==
  /\ ~ Has("help")
  /\ IsInformation \/
       /\ cmd.solvability > 0 => ResumeLength = 3 + cmd.cores
       /\ Cardinality(Requests) = 1
       /\ Has("benchmark-json") \/ (cmd.type = NoName) # (cmd.rules_file = NoName)
       /\ cmd.type \in DOMAIN Presets \union {NoName}

-----------------------------------------------------------------------------
Goto(place) == pc' = place /\ UNCHANGED exit
Exit(status) == pc' = "end" /\ exit' = status

Parse ==
  /\ pc = "start"
  /\ CASE ~ Understood \/ ~ NoErrors -> Exit("failure")
       [] IsInformation /\ Understood /\ NoErrors -> Exit("success")
       [] OTHER -> Goto("rules")
  /\ UNCHANGED <<cmd, asserts, rules, todo, search, handled, sigint, had_error, answers>>

(* gen_rules, which catches a runtime_error; main calls it before its try. *)
Document ==
  IF cmd.type # NoName THEN Presets[cmd.type] ELSE RulesFiles[cmd.rules_file]
HasDocument == cmd.type # NoName \/ cmd.rules_file \in DOMAIN RulesFiles

GenRules ==
  /\ pc = "rules"
  /\ IF Has("benchmark-json") THEN rules' = rules /\ Goto("mode")
     ELSE IF HasDocument /\ Accepted(Document)
          THEN rules' = Modified(Document) /\ Goto("mode")
          ELSE /\ rules' = rules
               /\ Exit(IF HasDocument /\ Escapes(Document, asserts) THEN "abort" ELSE "failure")
  /\ UNCHANGED <<cmd, asserts, todo, search, handled, sigint, had_error, answers>>

(* Benchmark: a document of instances may name rules that are refused.  A  *)
(* benchmark of seeds is of one streamliner: the build asserts, or         *)
(* convert_streamliners throws, if smart was asked for.                    *)
BenchmarkEnds ==
  IF Has("benchmark-json") THEN {"success", "failure"}
  ELSE IF StreamlinerOption # "smart-solvability" THEN {"success"}
  ELSE IF asserts THEN {"abort"} ELSE {"failure"}

(* The first that applies.                                                 *)
Mode ==
  /\ pc = "mode"
  /\ CASE Has("deal-only") -> Exit("success") /\ UNCHANGED <<todo, answers, handled>>
       [] ~ Has("deal-only") /\ cmd.solvability > 0 ->
            /\ Goto("inputs") /\ answers' = Append(answers, [of |-> "solvability", is |-> "done"])
            /\ todo' = cmd.input_files /\ handled' = TRUE
       [] ~ Has("deal-only") /\ IsBenchmark ->
            /\ \E status \in BenchmarkEnds : Exit(status)
            /\ UNCHANGED <<todo, answers, handled>>
       [] OTHER ->
            /\ Goto("inputs") /\ UNCHANGED <<answers, handled>>
            /\ todo' = IF cmd.random # -1 THEN <<"seed">> ELSE cmd.input_files
  /\ UNCHANGED <<cmd, asserts, rules, search, sigint, had_error>>

-----------------------------------------------------------------------------
Smart == StreamlinerOption = "smart-solvability"
Input == IF cmd.random # -1 THEN SeedDeal ELSE InputFiles[Head(todo)]

Answer(what) == answers' = Append(answers, [of |-> Head(todo), is |-> what])

Starts(streamliner, budget) ==
  search' = <<[streamliner |-> streamliner, budget |-> budget, signalled |-> sigint]>>

(* solve_input_files, solve_random_game; the first search of solve_game.   *)
ReadDeal ==
  /\ pc = "inputs" /\ todo # <<>>
  /\ Input.is = "deal"
  /\ IF Smart THEN Starts("both", cmd.timeout \div 10) ELSE Starts(StreamlinerOption, cmd.timeout)
  /\ handled' = TRUE /\ Goto("search")
  /\ UNCHANGED <<cmd, asserts, rules, todo, sigint, had_error, answers>>

(* Mutant: the error leaves the loop.                                      *)
DealErrorStops ==
  /\ pc = "inputs" /\ todo # <<>>
  /\ Input.is \in {"unreadable", "refused"}
  /\ had_error' = TRUE
  /\ Answer("error") /\ todo' = <<>>
  /\ UNCHANGED <<cmd, asserts, pc, rules, search, handled, sigint, exit>>

(* get_file_json, or the constructor of the game state, throws.            *)
DealError ==
  /\ pc = "inputs" /\ todo # <<>>
  /\ Input.is \in {"unreadable", "refused"}
  /\ had_error' = TRUE
  /\ Answer("error") /\ todo' = Tail(todo)
  /\ UNCHANGED <<cmd, asserts, pc, rules, search, handled, sigint, exit>>

(* stoi throws an invalid_argument of a text such as "##".  The loop does  *)
(* not catch it; main does.                                                *)
NotACard ==
  /\ pc = "inputs" /\ todo # <<>> /\ Input.is = "not_a_card"
  /\ Exit("failure")
  /\ UNCHANGED <<cmd, asserts, rules, todo, search, handled, sigint, had_error, answers>>

(* A search misses no solution when it leaves out no move - a streamliner  *)
(* does, and legal_moves does, where deals to the piles meet cards that    *)
(* come back from the foundations - and takes no new state for a known     *)
(* one, as the hashes of a bitmap or of hash-only may.                     *)
Policy(streamliner) == PolicyOf(rules, streamliner, Has("force-lru"), cmd.cache_type)

MissesNothing(streamliner) ==
  /\ streamliner = "none" /\ Policy(streamliner) \notin {"BITMAP", "HASH_ONLY"}
  /\ ~ (rules.foundations_removable /\ rules.stock_deal_t = "tableau piles")

(* What the running search may report: a deal that starts solved is so     *)
(* whatever the budgets; the clock, then the flag, are first looked at     *)
(* before the first move.                                                  *)
Verdicts ==
  LET now == search[1]
  IN IF Input.solved THEN {"SOLVED"}
     ELSE IF now.budget = 0 THEN {"TIMEOUT"}
     ELSE IF now.signalled THEN {"TERMINATED"}
     ELSE {verdict \in {"SOLVED", "UNSOLVABLE", "TIMEOUT", "TERMINATED", "MEM_LIMIT"} :
             CASE verdict = "SOLVED" -> Input.winnable
               [] verdict = "UNSOLVABLE" -> ~ MissesNothing(now.streamliner) \/ ~ Input.winnable
               [] verdict = "TERMINATED" -> sigint
               [] verdict = "MEM_LIMIT" -> Policy(now.streamliner) = "LRU"
               [] OTHER -> TRUE}

(* Mutant: only a search out of time is run again.                         *)
RunAgainOnTimeout(verdict) == Smart /\ verdict = "TIMEOUT"

RunAgain(verdict) == Smart /\ verdict # "SOLVED"

SearchAgain ==
  /\ pc = "search"
  /\ \E verdict \in Verdicts : RunAgain(verdict)
  /\ Starts("none", cmd.timeout) /\ Goto("again")
  /\ UNCHANGED <<cmd, asserts, rules, todo, handled, sigint, had_error, answers>>

Report ==
  /\ pc \in {"search", "again"}
  /\ \E verdict \in Verdicts :
       (pc = "search" => ~ RunAgain(verdict)) /\ Answer(verdict)
  /\ todo' = Tail(todo) /\ search' = <<>> /\ Goto("inputs")
  /\ UNCHANGED <<cmd, asserts, rules, handled, sigint, had_error>>

(* A run for a solvability comes here too, with no files.                  *)
Finish ==
  /\ pc = "inputs" /\ todo = <<>>
  /\ IF asserts /\ cmd.random = -1 /\ cmd.input_files = <<>> THEN Exit("abort")
     ELSE Exit(IF had_error THEN "failure" ELSE "success")
  /\ UNCHANGED <<cmd, asserts, rules, todo, search, handled, sigint, had_error, answers>>

(* Environment: SIGINT or SIGTERM.  Nothing ever resets the flag.          *)
Signal ==
  /\ exit = "no" /\ ~ sigint
  /\ IF handled THEN sigint' = TRUE /\ UNCHANGED <<pc, exit>>
     ELSE Exit("killed") /\ UNCHANGED sigint
  /\ UNCHANGED <<cmd, asserts, rules, todo, search, handled, had_error, answers>>

Init ==
  /\ cmd \in CommandLines /\ asserts \in BOOLEAN
  /\ pc = "start" /\ rules = DefaultRules
  /\ todo = <<>> /\ search = <<>> /\ answers = <<>>
  /\ handled = FALSE /\ sigint = FALSE /\ had_error = FALSE /\ exit = "no"

Next ==
  \/ Parse \/ GenRules \/ Mode \/ ReadDeal \/ DealError \/ NotACard
  \/ SearchAgain \/ Report \/ Finish \/ Signal

Spec == Init /\ [][Next]_vars

-----------------------------------------------------------------------------
TypeOK ==
  /\ cmd \in CommandLines /\ asserts \in BOOLEAN
  /\ pc \in {"start", "rules", "mode", "inputs", "search", "again", "end"}
  /\ Len(search) <= 1 /\ (pc \in {"search", "again"}) = (search # <<>>)
  /\ handled \in BOOLEAN /\ sigint \in BOOLEAN /\ had_error \in BOOLEAN
  /\ exit \in {"no", "success", "failure", "abort", "killed"}

(* What is reported of a deal is so, although searches with streamliners   *)
(* miss solutions and smart mode discards what the first search found: a   *)
(* user who did not ask for one streamliner is not told that a deal that   *)
(* can be won is unsolvable, unless the search without streamliners misses *)
(* solutions as well: with a cache of hashes, or in those games.           *)
TruthOf(name) == IF name = "seed" THEN SeedDeal ELSE InputFiles[name]

UnsolvableIsSure ==
  StreamlinerOption \in {"none", "smart-solvability"} /\ MissesNothing("none")

ReportIsRight ==
  \A i \in DOMAIN answers :
    /\ answers[i].is = "SOLVED" => TruthOf(answers[i].of).winnable
    /\ answers[i].is = "UNSOLVABLE" /\ UnsolvableIsSure
         => ~ TruthOf(answers[i].of).winnable

(* A run that comes to its end, signal or not, has answered every file of  *)
(* the command line, in order, a file that cannot be read or dealt too,    *)
(* up to one with a text that is no card, and its exit status tells        *)
(* whether anything was wrong with one.                                    *)
NoCardAt == {i \in DOMAIN cmd.input_files : TruthOf(cmd.input_files[i]).is = "not_a_card"}

EachInputAnswered ==
  exit \in {"success", "failure"} /\ answers # <<>> /\ cmd.input_files # <<>> =>
    LET n == Len(answers)
    IN /\ n <= Len(cmd.input_files)
       /\ \A i \in 1..n : answers[i].of = cmd.input_files[i] /\ i \notin NoCardAt
       /\ n < Len(cmd.input_files) => n + 1 \in NoCardAt
       /\ (exit = "failure") = (NoCardAt # {} \/ \E i \in 1..n : answers[i].is = "error")
=============================================================================
