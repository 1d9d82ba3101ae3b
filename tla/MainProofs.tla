----------------------------- MODULE MainProofs -----------------------------
(***************************************************************************)
(* What a run reports of its deals is so, whatever the command line, the   *)
(* rules, the files and the moment of the signal (MainInv): the deals that *)
(* are left are those of the one task that was asked for, and a search     *)
(* that may report that a deal cannot be won without an option for it has  *)
(* no streamliner; whether it misses solutions then is up to the cache and *)
(* the rules, which stay as they are once something was answered.  And it answers each of them (LedgerInv): what was      *)
(* answered and what is left are the files of the command line, in order,  *)
(* and none of them held a text that is no card.                           *)
(***************************************************************************)
EXTENDS Main, TLAPS, FiniteSetTheorems

Verdict == {"SOLVED", "UNSOLVABLE", "TIMEOUT", "TERMINATED", "MEM_LIMIT"}

Names == IF cmd.random # -1 THEN {"seed"} ELSE DOMAIN InputFiles

Answers ==
  Seq([of : DOMAIN InputFiles \union {"seed", "solvability"}, is : Verdict \union {"done", "error"}])

Searching == pc \in {"search", "again"}

MainInv ==
  /\ cmd \in CommandLines
  /\ pc \in {"start", "rules"} => answers = <<>>
  /\ pc \in {"rules", "mode"} => NoErrors /\ ~ IsInformation
  /\ todo \in Seq(Names) /\ answers \in Answers
  /\ Searching => todo # <<>> /\ Input.is = "deal"
  /\ pc = "search" /\ ~ Smart => search[1].streamliner = StreamlinerOption
  /\ pc = "again" => search[1].streamliner = "none"
  /\ ReportIsRight

(* The files answered so far and those that are left.                      *)
Ledger ==
  /\ Len(answers) + Len(todo) = Len(cmd.input_files)
  /\ \A i \in 1..Len(todo) : todo[i] = cmd.input_files[Len(answers) + i]
  /\ \A i \in 1..Len(answers) : answers[i].of = cmd.input_files[i] /\ i \notin NoCardAt
  /\ had_error = (\E i \in 1..Len(answers) : answers[i].is = "error")

LedgerInv ==
  /\ exit # "no" => pc = "end"
  /\ had_error \in BOOLEAN
  /\ pc \in {"start", "rules", "mode"} => answers = <<>> /\ ~ had_error
  /\ pc \in {"inputs", "search", "again"} /\ cmd.input_files # <<>> => cmd.random = -1 /\ Ledger
  /\ EachInputAnswered

(* The names of the deals that are left have a truth, that of the input.   *)
LEMMA InputIsTruth ==
  ASSUME cmd \in CommandLines, todo \in Seq(Names), todo # <<>>
  PROVE  /\ Head(todo) \in DOMAIN InputFiles \union {"seed"}
         /\ TruthOf(Head(todo)) = Input
         /\ Input.is = "deal" /\ Input.solved => Input.winnable
<1>1. Head(todo) \in Names
  OBVIOUS
<1>2. CASE cmd.random # -1
  BY <1>1, <1>2, DealsAssumption DEF Names, TruthOf, Input
<1>3. CASE cmd.random = -1
  BY <1>1, <1>3, DealsAssumption DEF Names, TruthOf, Input
<1> QED
  BY <1>2, <1>3

(* A verdict that is one of a deal.                                        *)
LEMMA VerdictIsSo ==
  ASSUME NEW verdict \in Verdicts, Input.solved => Input.winnable
  PROVE  /\ verdict \in Verdict
         /\ verdict = "SOLVED" => Input.winnable
         /\ verdict = "UNSOLVABLE" /\ MissesNothing(search[1].streamliner) => ~ Input.winnable
<1> DEFINE now == search[1]
           Granted == CASE verdict = "SOLVED" -> Input.winnable
                     [] verdict = "UNSOLVABLE" -> ~ MissesNothing(now.streamliner) \/ ~ Input.winnable
                     [] verdict = "TERMINATED" -> sigint
                     [] verdict = "MEM_LIMIT" -> Policy(now.streamliner) = "LRU"
                     [] OTHER -> TRUE
<1>1. \/ Input.solved /\ verdict = "SOLVED"
      \/ verdict \in {"TIMEOUT", "TERMINATED"}
      \/ verdict \in Verdict /\ Granted
  BY DEF Verdicts, Verdict
<1>2. Granted /\ verdict = "SOLVED" => Input.winnable
  OBVIOUS
<1>3. Granted /\ verdict = "UNSOLVABLE" /\ MissesNothing(now.streamliner) => ~ Input.winnable
  OBVIOUS
<1> HIDE DEF Granted
<1> QED
  BY <1>1, <1>2, <1>3 DEF Verdict

LEMMA InitMain == Init => MainInv
<1> SUFFICES ASSUME Init PROVE MainInv
  OBVIOUS
<1>1. todo \in Seq(Names) /\ answers \in Answers
  BY DEF Init, Answers
<1>2. ReportIsRight
  BY DEF Init, ReportIsRight
<1> QED
  BY <1>1, <1>2 DEF Init, MainInv, Searching

(* assess_errors lets no line through that asks for two tasks.             *)
LEMMA OneRequest ==
  ASSUME NoErrors, ~ IsInformation, NEW a \in Requests, NEW b \in Requests
  PROVE  a = b
<1>1. Cardinality(Requests) = 1
  BY DEF NoErrors
<1>2. IsFiniteSet(Requests)
  <2>1. IsFiniteSet({"random", "input files", "solvability", "benchmark"})
    <3>1. IsFiniteSet({"random"})
      BY FS_Singleton
    <3>2. IsFiniteSet({"random"} \union {"input files"})
      BY <3>1, FS_AddElement
    <3>3. IsFiniteSet(({"random"} \union {"input files"}) \union {"solvability"})
      BY <3>2, FS_AddElement
    <3>4. IsFiniteSet((({"random"} \union {"input files"}) \union {"solvability"}) \union {"benchmark"})
      BY <3>3, FS_AddElement
    <3>5. {"random", "input files", "solvability", "benchmark"}
            = (({"random"} \union {"input files"}) \union {"solvability"}) \union {"benchmark"}
      OBVIOUS
    <3> QED
      BY <3>4, <3>5
  <2> QED
    BY <2>1, FS_Subset DEF Requests
<1>3. PICK request : Requests = {request}
  BY <1>1, <1>2, FS_Singleton
<1> QED
  BY <1>3

(* A run for a solvability or of files deals no seed.                      *)
LEMMA NoSeed ==
  ASSUME NoErrors, ~ IsInformation
  PROVE  /\ cmd.solvability > 0 => cmd.random = -1
         /\ cmd.input_files # <<>> => cmd.random = -1 /\ ~ cmd.solvability > 0
<1>1. /\ cmd.random # -1 => "random" \in Requests
      /\ cmd.solvability > 0 => "solvability" \in Requests
      /\ cmd.input_files # <<>> => "input files" \in Requests
  BY DEF Requests
<1>2. \A a, b \in Requests : a = b
  BY OneRequest
<1> QED
  BY <1>1, <1>2

(* Whether "unsolvable" is sure is decided by the command line and rules.  *)
LEMMA SureStays ==
  ASSUME UNCHANGED <<cmd, rules>>
  PROVE  UnsolvableIsSure' <=> UnsolvableIsSure
<1>1. StreamlinerOption' = StreamlinerOption
  BY DEF StreamlinerOption
<1>2. Policy("none")' = Policy("none")
  BY DEF Policy, Has
<1> QED
  BY <1>1, <1>2 DEF UnsolvableIsSure, MissesNothing

(* An answer that is so does not make a report wrong.                      *)
LEMMA AnswerKeepsReport ==
  ASSUME answers \in Answers, ReportIsRight, UNCHANGED <<cmd, rules>>,
         NEW of \in DOMAIN InputFiles \union {"seed", "solvability"},
         NEW is \in Verdict \union {"done", "error"},
         answers' = Append(answers, [of |-> of, is |-> is]),
         is = "SOLVED" => TruthOf(of).winnable,
         is = "UNSOLVABLE" /\ UnsolvableIsSure => ~ TruthOf(of).winnable
  PROVE  answers' \in Answers /\ ReportIsRight'
<1>1. answers' \in Answers
  BY DEF Answers
<1>2. UnsolvableIsSure' <=> UnsolvableIsSure
  BY SureStays
<1>3. \A x \in DOMAIN answers' :
        (x \in DOMAIN answers /\ answers'[x] = answers[x])
          \/ answers'[x] = [of |-> of, is |-> is]
  BY DEF Answers
<1>4. ReportIsRight'
  BY <1>2, <1>3 DEF ReportIsRight, TruthOf
<1> QED
  BY <1>1, <1>4

LEMMA StepMain == MainInv /\ Next => MainInv'
<1> SUFFICES ASSUME MainInv, Next PROVE MainInv'
  OBVIOUS
<1>0. /\ cmd \in CommandLines /\ todo \in Seq(Names) /\ answers \in Answers /\ ReportIsRight
      /\ Searching => todo # <<>> /\ Input.is = "deal"
      /\ pc \in {"start", "rules"} => answers = <<>>
      /\ pc \in {"rules", "mode"} => NoErrors /\ ~ IsInformation
      /\ pc = "search" /\ ~ Smart => search[1].streamliner = StreamlinerOption
      /\ pc = "again" => search[1].streamliner = "none"
  BY DEF MainInv
<1>1. /\ cmd' = cmd /\ Names' = Names /\ (NoErrors <=> NoErrors')
      /\ (IsInformation <=> IsInformation') /\ (Smart <=> Smart')
      /\ StreamlinerOption' = StreamlinerOption
  <2>1. UNCHANGED cmd
    BY DEF Next, Parse, GenRules, Mode, ReadDeal, DealError, NotACard, SearchAgain, Report, Finish, Signal
  <2> QED
    BY <2>1 DEF Names, NoErrors, IsInformation, Smart, StreamlinerOption, Has, Requests, IsBenchmark,
                ResumeLength
<1>14. rules' = rules \/ pc = "rules"
  BY DEF Next, Parse, GenRules, Mode, ReadDeal, DealError, NotACard, SearchAgain, Report, Finish, Signal
<1>2. ASSUME UNCHANGED answers PROVE ReportIsRight'
  <2>1. CASE rules' = rules
    BY <1>0, <1>1, <1>2, <2>1, SureStays DEF ReportIsRight, TruthOf
  <2>2. CASE answers = <<>>
    BY <1>2, <2>2 DEF ReportIsRight
  <2> QED
    BY <1>0, <1>14, <2>1, <2>2
<1>3. ASSUME todo' = Tail(todo), todo # <<>> PROVE todo' \in Seq(Names')
  BY <1>0, <1>1, <1>3
<1>4. CASE Parse
  <2>1. /\ pc = "start" /\ pc' \in {"rules", "end"} /\ UNCHANGED answers
        /\ pc' = "rules" => NoErrors /\ ~ IsInformation
    BY <1>4 DEF Parse, Goto, Exit
  <2> QED
    BY <1>0, <1>1, <1>2, <1>4, <2>1 DEF MainInv, Parse, Searching
<1>5. CASE GenRules
  <2>1. pc = "rules" /\ pc' \in {"mode", "end"}
    BY <1>5 DEF GenRules, Goto, Exit
  <2> QED
    BY <1>0, <1>1, <1>2, <1>5, <2>1 DEF MainInv, GenRules, Searching
<1>6. CASE Mode
  <2>1. pc = "mode" /\ pc' \in {"inputs", "end"}
    BY <1>6 DEF Mode, Goto, Exit
  <2>2. todo' \in Seq(Names')
    <3>1. cmd.input_files \in Seq(DOMAIN InputFiles)
      BY <1>0, DealsAssumption
    <3>2. CASE UNCHANGED todo
      BY <3>2, <1>0, <1>1
    <3>3. CASE cmd.solvability > 0 /\ todo' = cmd.input_files
      <4>1. NoErrors /\ ~ IsInformation
        BY <1>0, <2>1
      <4>2. cmd.random = -1
        BY <3>3, <4>1, NoSeed
      <4>3. Names' = DOMAIN InputFiles
        BY <4>2, <1>1 DEF Names
      <4> QED
        BY <3>1, <3>3, <4>3
    <3>4. CASE todo' = IF cmd.random # -1 THEN <<"seed">> ELSE cmd.input_files
      <4>1. CASE cmd.random # -1
        <5>1. Names' = {"seed"} /\ todo' = <<"seed">>
          BY <3>4, <4>1, <1>1 DEF Names
        <5> QED
          BY <5>1
      <4>2. CASE cmd.random = -1
        <5>1. Names' = DOMAIN InputFiles /\ todo' = cmd.input_files
          BY <3>4, <4>2, <1>1 DEF Names
        <5> QED
          BY <3>1, <5>1
      <4> QED
        BY <4>1, <4>2
    <3> QED
      BY <1>6, <3>2, <3>3, <3>4 DEF Mode
  <2>3. answers' \in Answers /\ ReportIsRight'
    <3>1. CASE UNCHANGED answers
      BY <3>1, <1>0, <1>2
    <3>2. CASE answers' = Append(answers, [of |-> "solvability", is |-> "done"])
      <4>1. UNCHANGED rules
        BY <1>6 DEF Mode
      <4> QED
        BY <4>1, <3>2, <1>0, <1>1, AnswerKeepsReport
    <3> QED
      BY <1>6, <3>1, <3>2 DEF Mode
  <2> QED
    BY <1>0, <1>1, <2>1, <2>2, <2>3 DEF MainInv, Searching
<1>7. CASE ReadDeal
  <2>1. pc' = "search" /\ UNCHANGED <<todo, answers>> /\ todo # <<>> /\ Input.is = "deal"
    BY <1>7 DEF ReadDeal, Goto
  <2>2. Input' = Input
    BY <2>1, <1>1 DEF Input
  <2>3. ~ Smart => search'[1].streamliner = StreamlinerOption
    BY <1>7 DEF ReadDeal, Starts
  <2> QED
    BY <1>0, <1>1, <1>2, <2>1, <2>2, <2>3 DEF MainInv, Searching
<1>8. CASE DealError
  <2>1. pc' = "inputs" /\ todo' = Tail(todo) /\ todo # <<>>
    BY <1>8 DEF DealError
  <2>2. answers' \in Answers /\ ReportIsRight'
    <3>1. answers' = Append(answers, [of |-> Head(todo), is |-> "error"]) /\ UNCHANGED rules
      BY <1>8 DEF DealError, Answer
    <3> QED
      BY <3>1, <2>1, <1>0, <1>1, InputIsTruth, AnswerKeepsReport
  <2> QED
    BY <1>0, <1>1, <1>3, <2>1, <2>2 DEF MainInv, Searching
<1>9. CASE NotACard
  <2>1. pc' = "end" /\ UNCHANGED <<todo, answers>>
    BY <1>9 DEF NotACard, Exit
  <2> QED
    BY <1>0, <1>1, <1>2, <2>1 DEF MainInv, Searching
<1>10. CASE SearchAgain
  <2>1. pc = "search" /\ pc' = "again" /\ UNCHANGED <<todo, answers>>
    BY <1>10 DEF SearchAgain, Goto
  <2>2. Input' = Input
    BY <2>1, <1>1 DEF Input
  <2>3. search'[1].streamliner = "none"
    BY <1>10 DEF SearchAgain, Starts
  <2> QED
    BY <1>0, <1>1, <1>2, <2>1, <2>2, <2>3 DEF MainInv, Searching
<1>11. CASE Report
  <2>1. Searching /\ pc' = "inputs" /\ todo' = Tail(todo)
    BY <1>11 DEF Report, Goto, Searching
  <2>2. PICK verdict \in Verdicts :
          (pc = "search" => ~ RunAgain(verdict))
            /\ answers' = Append(answers, [of |-> Head(todo), is |-> verdict]) /\ UNCHANGED rules
    BY <1>11 DEF Report, Answer
  <2>3. /\ Head(todo) \in DOMAIN InputFiles \union {"seed"} /\ TruthOf(Head(todo)) = Input
        /\ Input.solved => Input.winnable
    BY <1>0, <2>1, InputIsTruth
  <2>4. /\ verdict \in Verdict
        /\ verdict = "SOLVED" => Input.winnable
        /\ verdict = "UNSOLVABLE" /\ MissesNothing(search[1].streamliner) => ~ Input.winnable
    BY <2>3, VerdictIsSo
  <2>5. verdict = "UNSOLVABLE" /\ UnsolvableIsSure => MissesNothing(search[1].streamliner)
    <3>1. verdict = "UNSOLVABLE" /\ StreamlinerOption \in {"none", "smart-solvability"}
            => search[1].streamliner = "none"
      BY <1>0, <2>1, <2>2 DEF Searching, RunAgain, Smart
    <3> QED
      BY <3>1 DEF UnsolvableIsSure
  <2>6. answers' \in Answers /\ ReportIsRight'
    BY <1>0, <1>1, <2>2, <2>3, <2>4, <2>5, AnswerKeepsReport
  <2> QED
    BY <1>0, <1>1, <1>3, <2>1, <2>6 DEF MainInv, Searching
<1>12. CASE Finish
  <2>1. pc' = "end" /\ UNCHANGED <<todo, answers>>
    BY <1>12 DEF Finish, Exit
  <2> QED
    BY <1>0, <1>1, <1>2, <2>1 DEF MainInv, Searching
<1>13. CASE Signal
  <2>1. pc' \in {pc, "end"} /\ UNCHANGED <<todo, answers, search>>
    BY <1>13 DEF Signal, Exit
  <2>2. Input' = Input
    BY <2>1, <1>1 DEF Input
  <2> QED
    BY <1>0, <1>1, <1>2, <2>1, <2>2 DEF MainInv, Searching
<1> QED
  BY <1>4, <1>5, <1>6, <1>7, <1>8, <1>9, <1>10, <1>11, <1>12, <1>13 DEF Next

(* The deals that are left and the search that runs, at every moment.      *)
THEOREM MainInvariant == Spec => []MainInv
<1>1. MainInv /\ UNCHANGED vars => MainInv'
  <2> SUFFICES ASSUME MainInv, UNCHANGED vars PROVE MainInv'
    OBVIOUS
  <2>1. /\ UNCHANGED <<cmd, pc, todo, answers, search>>
        /\ Names' = Names /\ Searching' = Searching /\ Input' = Input
    BY DEF vars, Names, Searching, Input
  <2>2. /\ (NoErrors <=> NoErrors') /\ (IsInformation <=> IsInformation') /\ (Smart <=> Smart')
        /\ StreamlinerOption' = StreamlinerOption
    BY <2>1 DEF NoErrors, IsInformation, Smart, StreamlinerOption, Has, Requests, IsBenchmark,
                ResumeLength
  <2>3. ReportIsRight'
    BY <2>1, SureStays DEF MainInv, ReportIsRight, TruthOf, vars
  <2> QED
    BY <2>1, <2>2, <2>3 DEF MainInv
<1> QED
  BY InitMain, StepMain, <1>1, PTL DEF Spec

(* Whatever is asked, dealt and signalled, a deal that is reported solved  *)
(* can be won, and a user who asked for no streamliner, or for smart mode, *)
(* is told of no deal that can be won that it is unsolvable, as long as    *)
(* the search without streamliners misses nothing: its cache compares      *)
(* states, not hashes, and no deal to the piles may be taken for a card    *)
(* that comes back from a foundation.                                      *)
THEOREM ReportsAreRight == Spec => []ReportIsRight
<1>1. MainInv => ReportIsRight
  BY DEF MainInv
<1> QED
  BY MainInvariant, <1>1, PTL

-----------------------------------------------------------------------------
LEMMA InitLedger == Init => LedgerInv
BY DEF Init, LedgerInv, EachInputAnswered

(* What Head, Tail and Append leave where.                                 *)
LEMMA HeadToEnd ==
  ASSUME NEW S, NEW T, NEW queue \in Seq(S), queue # <<>>, NEW log \in Seq(T), NEW x \in T
  PROVE  /\ Len(queue) \in Nat \ {0} /\ Head(queue) = queue[1]
         /\ Len(Tail(queue)) = Len(queue) - 1
         /\ \A i \in 1..(Len(queue) - 1) : Tail(queue)[i] = queue[i + 1]
         /\ Len(log) \in Nat /\ Len(Append(log, x)) = Len(log) + 1
         /\ \A i \in 1..Len(log) : Append(log, x)[i] = log[i]
         /\ Append(log, x)[Len(log) + 1] = x
OBVIOUS

(* An answer to the first of the deals that are left keeps the ledger.     *)
LEMMA AnswerKeepsLedger ==
  ASSUME MainInv, Ledger, UNCHANGED cmd, todo # <<>>, todo' = Tail(todo), had_error \in BOOLEAN,
         cmd.random = -1, Input.is # "not_a_card",
         NEW what \in Verdict \union {"done", "error"},
         answers' = Append(answers, [of |-> Head(todo), is |-> what]),
         had_error' <=> (had_error \/ what = "error"), had_error' \in BOOLEAN
  PROVE  Ledger'
<1> DEFINE n == Len(answers)
           m == Len(todo)
<1> HIDE DEF n, m
<1>1. todo \in Seq(Names) /\ answers \in Answers
  BY DEF MainInv
<1>0. n \in Nat /\ m \in Nat /\ m > 0
  <2>1. n \in Nat
    BY <1>1 DEF Answers, n
  <2>2. m \in Nat /\ m > 0
    BY <1>1 DEF m
  <2> QED
    BY <2>1, <2>2
<1>2. /\ Len(answers') = n + 1 /\ Len(todo') = m - 1
      /\ \A i \in 1..(m - 1) : todo'[i] = todo[i + 1]
      /\ \A i \in 1..n : answers'[i] = answers[i]
      /\ answers'[n + 1] = [of |-> Head(todo), is |-> what]
      /\ Head(todo) = todo[1]
  <2> DEFINE R == [of : DOMAIN InputFiles \union {"seed", "solvability"},
                   is : Verdict \union {"done", "error"}]
             entry == [of |-> Head(todo), is |-> what]
  <2>1. answers \in Seq(R) /\ entry \in R
    BY <1>1, InputIsTruth DEF Answers, MainInv
  <2>2. answers' = Append(answers, entry) /\ todo' = Tail(todo)
    OBVIOUS
  <2> HIDE DEF R, entry
  <2>3. /\ Len(answers') = n + 1 /\ Len(todo') = m - 1
        /\ \A i \in 1..(m - 1) : todo'[i] = todo[i + 1]
        /\ \A i \in 1..n : answers'[i] = answers[i]
        /\ answers'[n + 1] = entry
        /\ Head(todo) = todo[1]
    <3>1. /\ Len(Append(answers, entry)) = n + 1
          /\ \A i \in 1..n : Append(answers, entry)[i] = answers[i]
          /\ Append(answers, entry)[n + 1] = entry
      BY <2>1, <1>1, HeadToEnd DEF n, m
    <3>2. /\ Len(Tail(todo)) = m - 1
          /\ \A i \in 1..(m - 1) : Tail(todo)[i] = todo[i + 1]
          /\ Head(todo) = todo[1]
      BY <2>1, <1>1, HeadToEnd DEF n, m
    <3> QED
      BY <2>2, <3>1, <3>2
  <2> QED
    BY <2>3 DEF entry
<1>3. cmd' = cmd /\ NoCardAt' = NoCardAt
  BY DEF NoCardAt, TruthOf
<1>4. /\ Head(todo) = cmd.input_files[n + 1] /\ n + m = Len(cmd.input_files)
      /\ \A i \in 1..m : todo[i] = cmd.input_files[n + i]
      /\ \A i \in 1..n : answers[i].of = cmd.input_files[i] /\ i \notin NoCardAt
      /\ had_error = (\E i \in 1..n : answers[i].is = "error")
  <2>1. n + m = Len(cmd.input_files)
    BY DEF Ledger, n, m
  <2>2. \A i \in 1..m : todo[i] = cmd.input_files[n + i]
    BY DEF Ledger, n, m
  <2>3. 1 \in 1..m
    BY <1>0
  <2> QED
    BY <1>2, <2>1, <2>2, <2>3 DEF Ledger, n, m
<1>5. n + 1 \notin NoCardAt
  BY <1>1, <1>4, InputIsTruth DEF MainInv, NoCardAt
<1>51. \A i \in 1..(n + 1) : i \in 1..n \/ i = n + 1
  BY <1>0
<1>52. 1..n \subseteq 1..(n + 1) /\ n + 1 \in 1..(n + 1)
  BY <1>0
<1>6. /\ Len(answers') + Len(todo') = Len(cmd'.input_files)
      /\ \A i \in 1..Len(todo') : todo'[i] = cmd'.input_files[Len(answers') + i]
  <2>1. (n + 1) + (m - 1) = n + m
    BY <1>0
  <2>2. ASSUME NEW i \in 1..(m - 1) PROVE todo'[i] = cmd.input_files[(n + 1) + i]
    <3>1. i + 1 \in 1..m /\ n + (i + 1) = (n + 1) + i
      BY <1>0
    <3> QED
      BY <1>2, <1>4, <3>1
  <2> QED
    BY <1>2, <1>3, <1>4, <2>1, <2>2
<1>7. \A i \in 1..Len(answers') : answers'[i].of = cmd'.input_files[i] /\ i \notin NoCardAt'
  <2>1. ASSUME NEW i \in 1..n
        PROVE  answers'[i].of = cmd.input_files[i] /\ i \notin NoCardAt
    BY <1>2, <1>4
  <2>2. answers'[n + 1].of = cmd.input_files[n + 1] /\ n + 1 \notin NoCardAt
    BY <1>2, <1>4, <1>5
  <2> QED
    BY <1>2, <1>3, <1>51, <2>1, <2>2
<1>8. had_error' = (\E i \in 1..Len(answers') : answers'[i].is = "error")
  <2>1. (\E i \in 1..(n + 1) : answers'[i].is = "error")
          <=> ((\E i \in 1..n : answers[i].is = "error") \/ what = "error")
    <3>1. \A i \in 1..n : answers'[i].is = answers[i].is
      BY <1>2
    <3>2. answers'[n + 1].is = what
      BY <1>2
    <3> QED
      BY <1>51, <1>52, <3>1, <3>2
  <2> QED
    BY <1>2, <1>4, <2>1
<1> QED
  BY <1>6, <1>7, <1>8 DEF Ledger

LEMMA StepLedger == MainInv /\ LedgerInv /\ Next => LedgerInv'
<1> SUFFICES ASSUME MainInv, LedgerInv, Next PROVE LedgerInv'
  OBVIOUS
<1>0. /\ todo \in Seq(Names) /\ answers \in Answers /\ cmd.input_files \in Seq(DOMAIN InputFiles)
      /\ pc \in {"rules", "mode"} => NoErrors /\ ~ IsInformation
  BY DealsAssumption DEF MainInv
<1>1. /\ exit # "no" => pc = "end"
      /\ had_error \in BOOLEAN
      /\ pc \in {"start", "rules", "mode"} => answers = <<>> /\ ~ had_error
      /\ pc \in {"inputs", "search", "again"} /\ cmd.input_files # <<>> => cmd.random = -1 /\ Ledger
      /\ EachInputAnswered
  BY DEF LedgerInv
<1>2. cmd' = cmd /\ NoCardAt' = NoCardAt
  BY DEF Next, Parse, GenRules, Mode, ReadDeal, DealError, NotACard, SearchAgain, Report, Finish, Signal,
         NoCardAt, TruthOf
<1>3. ASSUME UNCHANGED <<todo, answers, had_error>>, Ledger PROVE Ledger'
  BY <1>2, <1>3 DEF Ledger
<1>4. ASSUME exit' \in {"no", "killed", "abort"} PROVE EachInputAnswered'
  BY <1>4 DEF EachInputAnswered
<1>5. CASE Parse \/ GenRules
  <2>1. /\ pc \in {"start", "rules"} /\ UNCHANGED <<answers, had_error>>
        /\ \/ pc' \in {"rules", "mode"} /\ exit' = exit
           \/ pc' = "end"
    BY <1>5 DEF Parse, GenRules, Goto, Exit
  <2> QED
    BY <1>1, <2>1 DEF LedgerInv, EachInputAnswered
<1>6. CASE Mode
  <2>1. pc = "mode" /\ answers = <<>> /\ ~ had_error /\ UNCHANGED had_error
    BY <1>1, <1>6 DEF Mode
  <2>2. NoErrors /\ ~ IsInformation
    BY <1>0, <2>1
  <2>3. CASE pc' = "inputs" /\ exit' = exit
    <3>1. exit' = "no"
      BY <1>1, <2>1, <2>3
    <3>2. ASSUME cmd.input_files # <<>> PROVE cmd.random = -1 /\ Ledger'
      <4>1. cmd.random = -1 /\ ~ cmd.solvability > 0
        BY <2>2, <3>2, NoSeed
      <4>2. todo' = cmd.input_files /\ answers' = <<>>
        BY <1>6, <2>1, <2>3, <4>1 DEF Mode, Exit
      <4>3. Len(answers') = 0 /\ Len(cmd.input_files) \in Nat /\ had_error' = FALSE
        BY <1>0, <1>1, <2>1, <4>2
      <4>4. \A i \in 1..Len(cmd.input_files) : 0 + i = i
        BY <4>3
      <4>5. \A i \in 1..Len(todo') : todo'[i] = cmd'.input_files[Len(answers') + i]
        BY <1>2, <4>2, <4>3, <4>4
      <4>6. Len(answers') + Len(todo') = Len(cmd'.input_files)
        BY <1>2, <4>2, <4>3
      <4>7. 1..Len(answers') = {}
        BY <4>3
      <4> QED
        BY <4>1, <4>3, <4>5, <4>6, <4>7 DEF Ledger
    <3> QED
      BY <1>1, <1>2, <1>4, <2>1, <2>3, <3>1, <3>2 DEF LedgerInv
  <2>4. CASE pc' = "end" /\ UNCHANGED answers
    BY <1>1, <2>1, <2>4 DEF LedgerInv, EachInputAnswered
  <2> QED
    BY <1>6, <2>3, <2>4 DEF Mode, Goto, Exit
<1>7. CASE ReadDeal \/ SearchAgain
  <2>1. /\ pc \in {"inputs", "search"} /\ pc' \in {"search", "again"} /\ exit' = exit
        /\ UNCHANGED <<todo, answers, had_error>>
    BY <1>7 DEF ReadDeal, SearchAgain, Goto
  <2> QED
    BY <1>1, <1>2, <1>3, <1>4, <2>1 DEF LedgerInv
<1>8. CASE DealError
  <2>1. /\ pc = "inputs" /\ pc' = "inputs" /\ exit' = exit /\ had_error' = TRUE /\ todo # <<>>
        /\ Input.is # "not_a_card" /\ todo' = Tail(todo)
        /\ answers' = Append(answers, [of |-> Head(todo), is |-> "error"])
    BY <1>8 DEF DealError, Answer
  <2>2. cmd.input_files # <<>> => cmd.random = -1 /\ Ledger'
    BY <1>1, <1>2, <2>1, AnswerKeepsLedger
  <2> QED
    BY <1>1, <1>2, <1>4, <2>1, <2>2 DEF LedgerInv
<1>9. CASE NotACard
  <2>1. /\ pc = "inputs" /\ pc' = "end" /\ exit' = "failure" /\ UNCHANGED <<answers, had_error>>
        /\ todo # <<>> /\ Input.is = "not_a_card"
    BY <1>9 DEF NotACard, Exit
  <2>2. ASSUME cmd.input_files # <<>> PROVE EachInputAnswered'
    <3>1. Ledger
      BY <1>1, <2>1, <2>2
    <3>2. /\ Len(answers) \in Nat /\ Len(todo) \in Nat \ {0} /\ Head(todo) = todo[1]
      <4>1. Len(answers) \in Nat
        BY <1>0 DEF Answers
      <4>2. todo \in Seq(Names) /\ todo # <<>>
        BY <1>0, <2>1
      <4>3. Len(todo) \in Nat \ {0} /\ Head(todo) = todo[1]
        BY <4>2
      <4> QED
        BY <4>1, <4>3
    <3>3. Head(todo) = cmd.input_files[Len(answers) + 1] /\ Len(answers) + 1 \in DOMAIN cmd.input_files
      BY <1>0, <3>1, <3>2 DEF Ledger
    <3>4. Len(answers) + 1 \in NoCardAt
      BY <1>0, <2>1, <3>3, InputIsTruth DEF MainInv, NoCardAt
    <3>5. /\ Len(answers) <= Len(cmd.input_files)
          /\ \A i \in 1..Len(answers) : answers[i].of = cmd.input_files[i] /\ i \notin NoCardAt
      BY <1>0, <3>1, <3>2 DEF Ledger
    <3>6. NoCardAt' = NoCardAt /\ NoCardAt # {} /\ answers' = answers /\ exit' = "failure"
      BY <1>2, <2>1, <3>4
    <3> QED
      BY <1>2, <3>4, <3>5, <3>6 DEF EachInputAnswered
  <2> QED
    BY <1>1, <1>2, <2>1, <2>2 DEF LedgerInv, EachInputAnswered
<1>10. CASE Report
  <2>1. /\ pc \in {"search", "again"} /\ pc' = "inputs" /\ exit' = exit /\ had_error' = had_error
        /\ todo' = Tail(todo)
    BY <1>10 DEF Report, Goto
  <2>2. PICK verdict \in Verdicts : answers' = Append(answers, [of |-> Head(todo), is |-> verdict])
    BY <1>10 DEF Report, Answer
  <2>3. todo # <<>> /\ Input.is = "deal"
    BY <2>1 DEF MainInv, Searching
  <2>4. verdict # "error"
    BY <1>0, <2>3, VerdictIsSo, InputIsTruth DEF MainInv, Verdict
  <2>5. cmd.input_files # <<>> => cmd.random = -1 /\ Ledger'
    <3>1. verdict \in Verdict \union {"done", "error"}
      BY <1>0, <2>3, VerdictIsSo, InputIsTruth DEF MainInv
    <3>2. had_error' = (had_error \/ verdict = "error")
      BY <1>1, <2>1, <2>4
    <3> QED
      BY <1>1, <1>2, <2>1, <2>2, <2>3, <3>1, <3>2, AnswerKeepsLedger
  <2> QED
    BY <1>1, <1>2, <1>4, <2>1, <2>5 DEF LedgerInv
<1>11. CASE Finish
  <2>1. pc = "inputs" /\ pc' = "end" /\ UNCHANGED <<answers, had_error>> /\ todo = <<>>
    BY <1>11 DEF Finish, Exit
  <2>2. ASSUME cmd.input_files # <<>> PROVE EachInputAnswered'
    <3>1. Ledger /\ exit' = IF had_error THEN "failure" ELSE "success"
      BY <1>1, <1>11, <2>1, <2>2 DEF Finish, Exit
    <3>2. Len(answers) = Len(cmd.input_files) /\ Len(answers) \in Nat
      BY <1>0, <2>1, <3>1 DEF Ledger, Answers
    <3>3. NoCardAt = {}
      <4>1. \A i \in 1..Len(cmd.input_files) : i \notin NoCardAt
        BY <3>1, <3>2 DEF Ledger
      <4>2. NoCardAt \subseteq 1..Len(cmd.input_files)
        <5>1. cmd.input_files \in Seq(DOMAIN InputFiles)
          BY <1>0
        <5>2. DOMAIN cmd.input_files = 1..Len(cmd.input_files)
          BY <5>1
        <5> QED
          BY <5>2 DEF NoCardAt
      <4> QED
        BY <4>1, <4>2
    <3>4. /\ \A i \in 1..Len(answers) : answers[i].of = cmd.input_files[i] /\ i \notin NoCardAt
          /\ had_error = (\E i \in 1..Len(answers) : answers[i].is = "error")
      BY <3>1 DEF Ledger
    <3>5. Len(answers) <= Len(cmd.input_files) /\ ~ (Len(answers) < Len(cmd.input_files))
      BY <3>2
    <3>6. /\ NoCardAt' = {} /\ answers' = answers /\ (exit' = "failure") = had_error
      BY <1>1, <1>2, <2>1, <3>1, <3>3
    <3> QED
      BY <1>2, <3>3, <3>4, <3>5, <3>6 DEF EachInputAnswered
  <2> QED
    BY <1>1, <1>2, <2>1, <2>2 DEF LedgerInv, EachInputAnswered
<1>12. CASE Signal
  <2>1. /\ UNCHANGED <<todo, answers, had_error>>
        /\ (pc' = pc /\ exit' = exit) \/ (pc' = "end" /\ exit' = "killed")
        /\ exit = "no"
    BY <1>12 DEF Signal, Exit
  <2> QED
    BY <1>1, <1>2, <1>3, <1>4, <2>1 DEF LedgerInv
<1> QED
  BY <1>5, <1>6, <1>7, <1>8, <1>9, <1>10, <1>11, <1>12 DEF Next

(* Whatever happens to its files and whenever the signal comes, a run that *)
(* ends by itself has answered every file of the line in order, up to one  *)
(* that is no deal at all, and its status tells of every error             *)
(* (solve_input_files, main).                                              *)
THEOREM InputsAreAnswered == Spec => []EachInputAnswered
<1>1. LedgerInv /\ UNCHANGED vars => LedgerInv'
  <2> SUFFICES ASSUME LedgerInv, UNCHANGED vars PROVE LedgerInv'
    OBVIOUS
  <2>1. UNCHANGED <<cmd, pc, todo, answers, had_error, exit>> /\ NoCardAt' = NoCardAt
    BY DEF vars, NoCardAt, TruthOf
  <2> QED
    BY <2>1 DEF LedgerInv, Ledger, EachInputAnswered
<1>2. LedgerInv => EachInputAnswered
  BY DEF LedgerInv
<1> QED
  BY InitLedger, StepLedger, MainInvariant, <1>1, <1>2, PTL DEF Spec
=============================================================================
