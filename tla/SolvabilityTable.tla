-------------------------- MODULE SolvabilityTable --------------------------
(***************************************************************************)
(* What a run for a solvability prints: the header, and under it a line    *)
(* for each seed with the results of its one or two searches; and the      *)
(* policy that each search is given to, which solve_seed chooses anew.     *)
(***************************************************************************)
EXTENDS SolvabilityCalc, SolRules

CONSTANTS
  Options          (* The rules and cache_type of runs.                    *)

VARIABLES
  stream_res, no_stream_res,      (* Of each thread: the type of a search, *)
                                  (* a set of at most one.                 *)
  lines                           (* The lines: a seed and both results.   *)

table == <<stream_res, no_stream_res, lines>>
table_vars == <<vars, table>>

-----------------------------------------------------------------------------
(* solve_seed: the list of dispatch_solve but for its head.                *)
SolvePolicy(r, streamliner, cache_type) ==
  LET suit_sym == SuitSymmetryOn(streamliner) \/ r.hole
  IN CASE cache_type = "bitmap" /\ SingleLine(r) -> "BITMAP"
       [] cache_type = "multiplicity" /\ SingleLine(r) -> "MULTIPLICITY"
       [] cache_type = "hash-only" /\ UseNewCache(r, suit_sym) -> "HASH_ONLY"
       [] OTHER -> IF UsePredecessorCache(r) THEN "PREDECESSOR"
                   ELSE IF UseNewCache(r, suit_sym) THEN "FLAT"
                   ELSE IF SingleLine(r) THEN "MULTIPLICITY" ELSE "LRU"

(* The optional of the search that a thread ends.                          *)
Keep(t, type) ==
  IF streamlined[t]
  THEN /\ stream_res' = [stream_res EXCEPT ![t] = {type}]
       /\ UNCHANGED no_stream_res
  ELSE /\ no_stream_res' = [no_stream_res EXCEPT ![t] = {type}]
       /\ UNCHANGED stream_res

-----------------------------------------------------------------------------
(* The optionals are of one turn of the loop.                              *)
TableInsert(t) ==
  /\ Insert(t)
  /\ stream_res' = [stream_res EXCEPT ![t] = {}]
  /\ no_stream_res' = [no_stream_res EXCEPT ![t] = {}]
  /\ UNCHANGED lines

TableEndSearch(t) ==
  /\ EndSearch(t)
  /\ \E type \in Outcomes(t) :
       /\ Keep(t, type)
       /\ IF pc'[t] = "record" THEN final'[t] = type ELSE SearchesAgain(t, type)
  /\ UNCHANGED lines

(* Within the lock.                                                        *)
TableRecord(t) ==
  /\ Record(t)
  /\ lines' = Append(lines, [seed |-> my_seed[t], stream_res |-> stream_res[t],
                             no_stream_res |-> no_stream_res[t]])
  /\ UNCHANGED <<stream_res, no_stream_res>>

TableStep(t) ==
  \/ TableInsert(t) \/ TableEndSearch(t) \/ TableRecord(t)
  \/ (Start(t) \/ Finish(t) \/ Work(t) \/ Fetch(t)) /\ UNCHANGED table

TableNext ==
  \/ \E t \in Thread : TableStep(t) \/ (Deadline(t) /\ UNCHANGED table)
  \/ Signal /\ UNCHANGED table

TableInit ==
  /\ Init
  /\ lines = <<>>
  /\ stream_res = [t \in Thread |-> {}] /\ no_stream_res = [t \in Thread |-> {}]

TableSpec == TableInit /\ [][TableNext]_table_vars

(* Threads are scheduled: each goes on as long as it can.                  *)
FairTableSpec == TableSpec /\ \A t \in Thread : WF_table_vars(TableStep(t))

-----------------------------------------------------------------------------
(* A cell of the header says what is below it and of which search; a cell  *)
(* of a line is that, with its value, or blank.                            *)
Cell(name, of, is) == [name |-> name, of |-> of, is |-> is]
Blank == Cell("", "", "")

(* print_header names the results of a search twice, once for each of two; *)
(* print_result_csv has a list of its own, and print_null_seed_info only   *)
(* commas.  In smart mode the header begins with a comma.                  *)
StreamlinerTitles ==
  <<"seed", "outcome", "time", "states", "unique_states", "backtracks",
    "dominance_moves", "removed", "cache_size", "cache_buckets", "max_depth", "depth">>

PlainTitles ==
  <<"seed", "outcome", "time", "states", "unique_states", "backtracks",
    "dominance_moves", "removed", "cache_size", "cache_buckets", "max_depth", "depth",
    "overall">>

Titles(names, of) ==
  [i \in DOMAIN names |-> Cell(names[i], IF names[i] = "seed" THEN "" ELSE of, "")]

Header ==
  (IF Smart THEN <<Blank>> \o Titles(StreamlinerTitles, "streamlined") ELSE <<>>)
    \o Titles(PlainTitles, "plain")

Fields ==
  <<"outcome", "time", "states", "unique_states", "backtracks", "dominance_moves",
    "removed", "cache_size", "cache_buckets", "max_depth", "depth">>

ResultCells(of, result) ==
  [i \in DOMAIN Fields |-> Cell(Fields[i], of, IF i = 1 THEN result ELSE "number")]

(* Mutant: print_null_seed_info has one comma less.                        *)
NullCellsButOne == [i \in 1..10 |-> Blank]

NullCells == [i \in 1..11 |-> Blank]

Only(results) == CHOOSE type \in results : TRUE

Overall(line) ==
  Only(IF line.no_stream_res # {} THEN line.no_stream_res ELSE line.stream_res)

SearchCells(results, of) ==
  IF results = {} THEN NullCells ELSE ResultCells(of, Only(results))

CellsOf(line) ==
  <<Cell("seed", "", "number")>>
    \o (IF Smart THEN SearchCells(line.stream_res, "streamlined") ELSE <<>>)
    \o SearchCells(line.no_stream_res, "plain")
    \o <<Cell("overall", "plain", Overall(line))>>

-----------------------------------------------------------------------------
(* Whether a seed was searched once or twice, its line has the cells of    *)
(* every other where they have theirs.                                     *)
Fits(cell, title) == cell = Blank \/ <<cell.name, cell.of>> = <<title.name, title.of>>

LinesAreAlike ==
  \A k, l \in DOMAIN lines :
    LET a == CellsOf(lines[k])  b == CellsOf(lines[l])
    IN Len(a) = Len(b) /\ \A i \in DOMAIN a : a[i] = Blank \/ Fits(b[i], a[i])

(* The names of print_header, the values of print_result_csv and the commas *)
(* of print_null_seed_info are in lists of their own: they have to agree in *)
(* order and number.  The header of smart mode has two cells that no line  *)
(* has, a blank one before the others and a second seed: but for them a    *)
(* line has its cells in the order of the names.  (There, then, they do    *)
(* not stand in the columns of their names.)                               *)
Named ==
  IF Smart
  THEN [i \in 1..(Len(Header) - 2) |->
          IF i <= Len(Fields) + 1 THEN Header[i + 1] ELSE Header[i + 2]]
  ELSE Header

CellsAreAsNamed ==
  \A k \in DOMAIN lines :
    LET cells == CellsOf(lines[k])
    IN Len(cells) = Len(Named) /\ \A i \in DOMAIN cells : Fits(cells[i], Named[i])

LastCell(line) == CellsOf(line)[Len(CellsOf(line))]

(* The overall results of the lines add up to the counts, whichever of the *)
(* searches decided, and a search that was followed by another decided     *)
(* nothing.                                                                *)
OverallIsCounted ==
  /\ \A type \in DOMAIN seed_res :
       seed_res[type] =
         ResumeCounts[type] + Cardinality({k \in DOMAIN lines : LastCell(lines[k]).is = type})
  /\ \A k \in DOMAIN lines :
       lines[k].no_stream_res # {} => lines[k].stream_res \subseteq {"UNSOLVABLE", "TIMEOUT"}

(* The help of --cache-type: a seed is searched by the policy that         *)
(* dispatch_solve would choose for its deal.  That of --force-lru is for   *)
(* single deals: solve_seed is not told of it.                             *)
SearchedAsAsked ==
  \A k \in DOMAIN lines : \A o \in Options :
    LET AsAsked(streamliner) ==
          SolvePolicy(o.rules, streamliner, o.cache_type)
            = PolicyOf(o.rules, streamliner, FALSE, o.cache_type)
    IN /\ lines[k].stream_res # {} => AsAsked("both")
       /\ lines[k].no_stream_res # {} => AsAsked("none")

(* A line of the table can be trusted.                                     *)
LinesAreRight ==
  LinesAreAlike /\ CellsAreAsNamed /\ OverallIsCounted /\ SearchedAsAsked
=============================================================================
