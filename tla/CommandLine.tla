---------------------------- MODULE CommandLine ----------------------------
(***************************************************************************)
(* command_line_helper: the words of a command line, one after the other,  *)
(* as program_options of Boost reads them; what parse makes of the         *)
(* options, what it complains of, and what the getters return.             *)
(***************************************************************************)
EXTENDS Integers, Sequences
LOCAL INSTANCE FiniteSetsExt
LOCAL INSTANCE FiniteSets

CONSTANTS
  Words,           (* What can be typed: options, numbers and texts.       *)
  MaxWords,        (* Bound: words of a command line.                      *)
  MaxUnsigned,     (* Bound: the largest unsigned number.                  *)
  PresetNames,
  HexTexts         (* Texts that begin with a digit of base 16.            *)

VARIABLES
  count,           (* Words read.                                          *)
  given,           (* The values of each option that was given.            *)
  twice,           (* An option but for a list was given twice.            *)
  open,            (* The option that may take the next word, or NoOption. *)
  files,
  outcome,         (* "reading", "accepted", "refused" or "throws".        *)
  complaint        (* Of a command line that was refused.                  *)

vars == <<count, given, twice, open, files, outcome, complaint>>

NoOption == "no option"
Option(name) == [kind |-> "option", text |-> name, n |-> 0]
Number(n) == [kind |-> "number", text |-> "digits", n |-> n]
Text(text) == [kind |-> "text", text |-> text, n |-> 0]

-----------------------------------------------------------------------------
(* The options by what follows them.  A warm-up is on or off: a number.    *)
Flags == {"help", "version", "available-game-types", "classify", "benchmark", "deal-only",
          "json", "reveal-hidden", "debug", "force-lru"}
Signed == {"random", "solvability", "benchmark-iterations", "benchmark-warmup"}
Unsigned == {"cache-capacity", "timeout", "wall-cap-mult", "max-states", "cores", "trace-break-at"}
Texts == {"type", "describe-game-rules", "custom-rules", "streamliners", "benchmark-json",
          "cache-type", "trace", "trace-find-hash"}
Lists == {"resume", "benchmark-seeds"}

Known == Flags \union Signed \union Unsigned \union Texts \union Lists

(* The word that an option stands in need of.                              *)
Needs == open \notin Flags \union {NoOption} /\ given[open] = <<>>

Given(option) == option \in DOMAIN given

-----------------------------------------------------------------------------
(* command_line_parser: an option that needs a word takes the next one (if *)
(* that names an option, the version of Boost decides whether this is an   *)
(* error); a list takes all that follows up to the next option.            *)
Count ==
  /\ outcome = "reading" /\ count < MaxWords
  /\ count' = count + 1

Refuse(why) ==
  /\ outcome' = "refused" /\ complaint' = why
  /\ UNCHANGED <<given, twice, open, files>>

ReadOption(word) ==
  /\ Count /\ word.kind = "option" /\ (Needs => word.text \in Known)
  /\ IF Needs \/ word.text \notin Known THEN Refuse("options")
     ELSE /\ given' = [o \in DOMAIN given \union {word.text} |->
                         IF Given(o) THEN given[o] ELSE <<>>]
          /\ twice' = (twice \/ (Given(word.text) /\ word.text \notin Lists))
          /\ open' = word.text
          /\ UNCHANGED <<files, outcome, complaint>>

ReadValue(word) ==
  /\ Count
  /\ Needs \/ (open \in Lists /\ word.kind # "option" /\ word.n >= 0)
  /\ given' = [given EXCEPT ![open] = Append(@, word)]
  /\ UNCHANGED <<twice, open, files, outcome, complaint>>

(* A negative number that nobody needs reads like an option.               *)
ReadFile(word) ==
  /\ Count /\ word.kind # "option"
  /\ ~ Needs /\ (open \in Lists => word.n < 0)
  /\ IF word.n < 0 THEN Refuse("options")
     ELSE /\ files' = Append(files, word.text)
          /\ UNCHANGED <<given, twice, open, outcome, complaint>>

(* store: each value is of its type.                                       *)
Stored ==
  /\ ~ Needs /\ ~ twice
  /\ \A o \in DOMAIN given \ (Flags \union Texts) :
       \A i \in DOMAIN given[o] :
         /\ given[o][i].kind = "number"
         /\ o = "benchmark-warmup" => given[o][i].n \in {0, 1}

-----------------------------------------------------------------------------
(* parse: the values of the options, or what they are without them.        *)
NumberOf(option, otherwise) == IF Given(option) THEN given[option][1].n ELSE otherwise
UnsignedOf(option, otherwise) ==
  IF NumberOf(option, otherwise) < 0 THEN MaxUnsigned + 1 + NumberOf(option, otherwise)
  ELSE NumberOf(option, otherwise)
TextOf(option, otherwise) == IF Given(option) THEN given[option][1].text ELSE otherwise

NumbersOf(option) == [i \in DOMAIN given[option] |-> given[option][i].n]

SolvabilityLimit == NumberOf("solvability", -1)
CoreCount == UnsignedOf("cores", 1)

(* Mutant: the list is made before the cores are read.                     *)
ResumeForOne == IF Given("resume") THEN NumbersOf("resume") ELSE <<0, 0, 0, 0>>

Resume ==
  IF Given("resume") THEN NumbersOf("resume")
  ELSE <<0, 0, 0>> \o [core \in 1..CoreCount |-> core - 1]

StreamlinerName ==
  IF Given("streamliners") THEN TextOf("streamliners", "")
  ELSE IF SolvabilityLimit = -1 THEN "none" ELSE "smart-solvability"

IsBenchmark == Given("benchmark") \/ Given("benchmark-seeds") \/ Given("benchmark-json")

(* get_benchmark_seeds                                                     *)
SeedsGiven ==
  IF ~ Given("benchmark-seeds") THEN IF Given("benchmark") THEN <<1, 100>> ELSE <<0, 0>>
  ELSE LET seeds == NumbersOf("benchmark-seeds")
       IN IF Len(seeds) >= 2 THEN <<seeds[1], seeds[2]>> ELSE <<seeds[1], seeds[1]>>

BenchmarkSeeds ==
  IF SeedsGiven[1] > SeedsGiven[2] THEN <<SeedsGiven[2], SeedsGiven[1]>> ELSE SeedsGiven

(* What the getters return.                                                *)
Options ==
  [solitaire_type |-> TextOf("type", ""), rules_file |-> TextOf("custom-rules", ""),
   input_files |-> files, random_deal |-> NumberOf("random", -1),
   solvability |-> SolvabilityLimit, resume |-> Resume, cores |-> CoreCount,
   flags |-> {flag \in Flags : Given(flag)}, benchmark_seeds |-> BenchmarkSeeds,
   is_benchmark |-> IsBenchmark, benchmark_json |-> TextOf("benchmark-json", ""),
   json_output |-> IsBenchmark \/ Given("json"),
   describe_game_rules |-> TextOf("describe-game-rules", ""),
   streamliners |-> StreamlinerName, cache_type |-> TextOf("cache-type", "auto"),
   cache_capacity |-> UnsignedOf("cache-capacity", MaxUnsigned),
   timeout |-> UnsignedOf("timeout", MaxUnsigned),
   wall_cap_mult |-> Max({UnsignedOf("wall-cap-mult", 10), 1}),
   max_states |-> UnsignedOf("max-states", 0),
   benchmark_iterations |-> NumberOf("benchmark-iterations", 1),
   benchmark_warmup |-> NumberOf("benchmark-warmup", 1) = 1]

-----------------------------------------------------------------------------
(* assess_errors and assess_sol_type: the first complaint.                 *)
Tasks ==
  {task \in {"random", "input files", "solvability", "benchmark"} :
     CASE task = "random"      -> Options.random_deal # -1
       [] task = "input files" -> files # <<>>
       [] task = "solvability" -> SolvabilityLimit > 0
       [] OTHER                -> IsBenchmark}

(* 3 + cores is unsigned, and so goes round.                               *)
ResumeSize == (3 + CoreCount) % (MaxUnsigned + 1)

TaskError ==
  CASE Cardinality(Tasks) > 1 -> "too many options"
    [] Tasks = {} -> "no options"
    [] OTHER -> ""

TypeError ==
  CASE Options.benchmark_json = "" /\ (Options.solitaire_type = "") = (Options.rules_file = "") ->
         "type or rules"
    [] OTHER -> IF Options.solitaire_type \in PresetNames \union {""} THEN "" ELSE "type"

Informs == Given("version") \/ Given("available-game-types") \/ Options.describe_game_rules # ""

Complaint ==
  IF Given("help") THEN "help"
  ELSE IF Informs THEN ""
  ELSE IF SolvabilityLimit > 0 /\ Len(Resume) # ResumeSize THEN "resume"
  ELSE IF TaskError # "" THEN TaskError
  ELSE TypeError

StreamlinerNames == {"none", "auto-foundations", "suit-symmetry", "both", "smart-solvability"}
CacheTypes == {"auto", "hash-only", "multiplicity", "bitmap"}

(* stoull throws what nobody catches.                                      *)
HashThrows ==
  Given("trace-find-hash") /\ given["trace-find-hash"][1].kind # "number"
    /\ TextOf("trace-find-hash", "") \notin HexTexts

EndWith(why) ==
  /\ complaint' = why /\ outcome' = IF why = "" THEN "accepted" ELSE "refused"

Parse ==
  /\ outcome = "reading"
  /\ IF ~ Stored THEN EndWith("options")
     ELSE IF StreamlinerName \notin StreamlinerNames THEN EndWith("streamliner")
     ELSE IF HashThrows THEN outcome' = "throws" /\ UNCHANGED complaint
     ELSE EndWith(IF Options.cache_type \notin CacheTypes THEN "cache type" ELSE Complaint)
  /\ UNCHANGED <<count, given, twice, open, files>>

Init ==
  /\ count = 0 /\ given = <<>> /\ twice = FALSE /\ open = NoOption /\ files = <<>>
  /\ outcome = "reading" /\ complaint = ""

Next ==
  \/ \E word \in Words : ReadOption(word) \/ ReadValue(word) \/ ReadFile(word)
  \/ Parse

Spec == Init /\ [][Next]_vars

-----------------------------------------------------------------------------
(* A benchmark of seeds has seeds to run, from a first to a last, and both *)
(* are words of its command line if any were.                              *)
SeedsAreARange ==
  outcome = "accepted" /\ IsBenchmark =>
    /\ BenchmarkSeeds[1] <= BenchmarkSeeds[2]
    /\ Given("benchmark-seeds") =>
         \A i \in 1..2 : \E j \in 1..2 :
           /\ j \in DOMAIN given["benchmark-seeds"]
           /\ BenchmarkSeeds[i] = given["benchmark-seeds"][j].n
=============================================================================
