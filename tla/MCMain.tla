------------------------------- MODULE MCMain -------------------------------
(***************************************************************************)
(* Runs of the program: Main for command lines of every kind, files of     *)
(* rules that differ in what is wrong with them, and files of deals that   *)
(* can be won, that cannot, that start solved and that cannot be read or   *)
(* dealt; and Main for the lines that CommandLine reads word by word.      *)
(***************************************************************************)
EXTENDS Main, TLC

CONSTANTS
  MaxWords,        (* Bound: words that are typed.                         *)
  MaxUnsigned      (* Bound: the largest unsigned number.                  *)

VARIABLES
  words,           (* What can be typed: the options that exclude each     *)
                   (* other, and their values.                             *)
  count, given, twice, open, files, outcome, complaint

typing == <<words, count, given, twice, open, files, outcome, complaint>>

MCHexTexts == {"beef"}

Doc(says) == [says |-> says, wrong |-> {}, garbled |-> {}]

NoFoundations == <<"foundations", "present">> :> FALSE

MCPresets ==
  [freecell |-> Doc(<<"tableau piles", "build policy">> :> "red-black"
                    @@ <<"cells", "count">> :> 4),
   spider |-> Doc(<<"foundations", "only complete pile moves">> :> TRUE
                  @@ <<"stock", "size">> :> 50 @@ <<"stock", "deal type">> :> "tableau piles"
                  @@ <<"", "two decks">> :> TRUE),
   blackhole |-> Doc(<<"hole", "present">> :> TRUE @@ NoFoundations),
   accordion |-> Doc(NoFoundations @@ <<"accordion", "size">> :> 52
                     @@ <<"accordion", "moves">> :> <<-1, -3>>
                     @@ <<"accordion", "build policies">> :> {"same-suit", "same-rank"})]

MCRulesFiles ==
  [plain |-> Doc(<<"", "max rank">> :> 13),
   two_goals |-> Doc(<<"hole", "present">> :> TRUE),
   no_goal |-> Doc(NoFoundations @@ <<"accordion", "size">> :> 256),
   no_deal |-> Doc(<<"stock", "deal count">> :> 0),
   rank |-> Doc(<<"", "max rank">> :> 14),
   unknown |-> Doc(<<"foundations", "complete piles">> :> TRUE),
   wrong_hole |-> [Doc(<<"hole", "holes">> :> 1) EXCEPT !.wrong = {<<"hole", "">>}],
   wrong_count |-> [Doc(<<>>) EXCEPT !.wrong = {<<"cells", "count">>}],
   base |-> Doc(BaseCard :> 14),
   no_base |-> [Doc(<<>>) EXCEPT !.garbled = {BaseCard}],
   no_move |-> [Doc(NoFoundations @@ <<"accordion", "size">> :> 52) EXCEPT !.garbled = {Moves}],
   no_move_nor_count |-> [Doc(NoFoundations @@ <<"accordion", "size">> :> 52) EXCEPT
                            !.wrong = {<<"cells", "count">>}, !.garbled = {Moves}]]

DealOf(winnable, solved) == [is |-> "deal", winnable |-> winnable, solved |-> solved]

MCInputFiles ==
  [won |-> DealOf(TRUE, FALSE), lost |-> DealOf(FALSE, FALSE), done |-> DealOf(TRUE, TRUE),
   missing |-> [is |-> "unreadable"], bad |-> [is |-> "refused"],
   hidden |-> [is |-> "not_a_card"]]

MCSeedDeal == DealOf(TRUE, FALSE)

Plain ==
  [type |-> "freecell", rules_file |-> "", flags |-> {}, random |-> -1, input_files |-> <<>>,
   solvability |-> -1, resume |-> -1, cores |-> 1, streamliners |-> "", cache_type |-> "auto",
   timeout |-> 1000]

Solve == [Plain EXCEPT !.input_files = <<"won", "lost">>]
Styles == {"", "none", "auto-foundations", "both", "smart-solvability"}

MCCommandLines ==
  {[Plain EXCEPT !.input_files = names, !.streamliners = style, !.type = type, !.timeout = t] :
     names \in {<<"won", "lost">>, <<"missing", "won", "bad">>, <<"bad", "missing", "lost">>, <<"done">>,
               <<"won", "hidden", "bad">>},
     style \in Styles, type \in {"freecell", "spider"}, t \in {5, 1000}}
  \union {[Solve EXCEPT !.type = type, !.flags = flags, !.cache_type = cache] :
     type \in DOMAIN MCPresets \union {"", "klondyke"}, flags \in {{}, {"force-lru"}},
     cache \in {"auto", "multiplicity", "bitmap", "hash-only", "flat"}}
  \union {[Solve EXCEPT !.type = type, !.rules_file = file] :
     type \in {"", "freecell"}, file \in DOMAIN MCRulesFiles \union {"absent"}}
  \union {[Plain EXCEPT !.random = 7, !.streamliners = style] : style \in Styles \union {"smart"}}
  \union {[Plain EXCEPT !.solvability = n, !.resume = length, !.cores = 2] : n \in {0, 3}, length \in {-1, 4}}
  \union {[Solve EXCEPT !.flags = {flag}] :
     flag \in {"help", "version", "available-game-types", "deal-only", "unknown option", "benchmark"}}
  \union {[Plain EXCEPT !.flags = {flag}, !.streamliners = style] :
     flag \in {"benchmark", "benchmark-json"}, style \in Styles}

-----------------------------------------------------------------------------
Typed ==
  INSTANCE CommandLine WITH
    Words <- {}, PresetNames <- DOMAIN Presets, HexTexts <- MCHexTexts

OptionsOf(names) == {Typed!Option(name) : name \in names}

TaskWords ==
  OptionsOf({"random", "solvability", "cores", "resume", "type", "unknown"})
    \union {Typed!Number(n) : n \in {-1, 0, 2}} \union {Typed!Text("freecell")}

BenchmarkWords ==
  OptionsOf({"benchmark", "benchmark-seeds", "benchmark-json", "custom-rules", "type", "random"})
    \union {Typed!Number(n) : n \in {5, 3}} \union {Typed!Text("freecell")}

InformationWords ==
  OptionsOf({"help", "version", "describe-game-rules", "streamliners", "cache-type",
             "trace-find-hash", "type", "benchmark-warmup"})
    \union {Typed!Number(1), Typed!Number(2)}
    \union {Typed!Text(text) : text \in {"freecell", "none", "auto", "zz", "beef"}}

FileWords ==
  OptionsOf({"type", "streamliners"})
    \union {Typed!Text(text) : text \in {"freecell", "won", "lost", "smart-solvability"}}

(* The command line as Main has it; a file that is none is missing.        *)
AsCommand ==
  LET options == Typed!Options
  IN [type |-> options.solitaire_type, rules_file |-> options.rules_file,
      flags |-> options.flags
        \union (IF Typed!Given("benchmark-seeds") THEN {"benchmark"} ELSE {})
        \union {o \in {"benchmark-json", "describe-game-rules"} : Typed!Given(o)},
      random |-> options.random_deal,
      input_files |-> [i \in DOMAIN files |->
                         IF files[i] \in DOMAIN InputFiles THEN files[i] ELSE "missing"],
      solvability |-> options.solvability,
      resume |-> IF Typed!Given("resume") THEN Len(given["resume"]) ELSE -1,
      cores |-> options.cores, streamliners |-> Typed!TextOf("streamliners", ""),
      cache_type |-> options.cache_type, timeout |-> options.timeout]

-----------------------------------------------------------------------------
(* What parse makes of the words is the command line of the run, but for   *)
(* words that are no options, and an exception that nobody catches.        *)
Begin ==
  /\ pc = "typing" /\ outcome # "reading"
  /\ CASE outcome = "throws" -> Exit("abort") /\ UNCHANGED cmd
       [] complaint = "options" -> Exit("failure") /\ UNCHANGED cmd
       [] OTHER -> Goto("start") /\ cmd' = AsCommand
  /\ UNCHANGED <<asserts, rules, todo, search, handled, sigint, had_error, answers>>
  /\ UNCHANGED typing

(* Bound: what only informs is typed in short lines.                       *)
WordLimit == IF words = InformationWords THEN 4 ELSE MaxWords

Type ==
  /\ pc = "typing"
  /\ \/ count < WordLimit /\ \E word \in words :
          Typed!ReadOption(word) \/ Typed!ReadValue(word) \/ Typed!ReadFile(word)
     \/ Typed!Parse
  /\ UNCHANGED words /\ UNCHANGED vars

RunInit ==
  /\ Typed!Init
  /\ \/ Init /\ words = {}
     \/ /\ words \in {TaskWords, BenchmarkWords, InformationWords, FileWords}
        /\ cmd = Plain /\ asserts = FALSE
        /\ pc = "typing" /\ rules = DefaultRules
        /\ todo = <<>> /\ search = <<>> /\ answers = <<>>
        /\ handled = FALSE /\ sigint = FALSE /\ had_error = FALSE /\ exit = "no"

RunNext ==
  \/ Type \/ Begin
  \/ pc # "typing" /\ Next /\ UNCHANGED typing

RunSpec == RunInit /\ [][RunNext]_<<vars, typing>>

-----------------------------------------------------------------------------
(* What parse says yes to is what a run of the program goes on with: of    *)
(* the words of a line that make sense one by one, Main's record of them   *)
(* decides, as long as the cores can be counted.                           *)
MainDecides ==
  words # {} /\ pc = "start" /\ Typed!CoreCount + 3 <= MaxUnsigned =>
    ((outcome = "accepted") <=> (Understood /\ NoErrors))

(* From the words to the run, a command line means what it says.           *)
LineIsUnderstood == MainDecides /\ Typed!SeedsAreARange
=============================================================================
