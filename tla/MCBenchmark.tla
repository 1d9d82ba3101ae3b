---------------------------- MODULE MCBenchmark ----------------------------
(***************************************************************************)
(* Benchmark for ranges of up to two seeds, all options of the cache, and  *)
(* a document of instances of which some are not there, not readable, or   *)
(* under rules that are refused.                                           *)
(***************************************************************************)
EXTENDS Benchmark, TLC

Free == [DefaultRules EXCEPT !.cells = 4, !.build_pol = "red-black"]
Hole == [DefaultRules EXCEPT !.hole = TRUE, !.foundations_present = FALSE]
Forty == [DefaultRules EXCEPT !.two_decks = TRUE]
Line == [DefaultRules EXCEPT !.accordion_size = 18, !.foundations_present = FALSE]

MCPresets == "free-cell" :> Free @@ "black-hole" :> Hole @@ "accordion" :> Line

MCGameOf(file) ==
  CASE file \in {"free-cell_1", "free-cell_2", "free-cell_3"} -> "free-cell"
    [] file = "accordion_1" -> "accordion"
    [] file = "chess_1" -> "chess"
    [] OTHER -> ""

Deal(nodes, type) == [is |-> "deal", nodes |-> nodes, type |-> type]
MCSeedDeal(s) == IF s = 1 THEN Deal(2, "SOLVED") ELSE Deal(6, "UNSOLVABLE")

MCRulesFiles == <<"tests", "forty">> :> Forty @@ <<"two_goals">> :> <<>>

MCDealFiles ==
  <<"free-cell_1">> :> Deal(2, "SOLVED")
  @@ <<"tests", "resources", "level1", "free-cell_2">> :> Deal(6, "UNSOLVABLE")
  @@ <<"tests", "free-cell_3">> :> [is |-> "no JSON"]
  @@ <<"accordion_1">> :> [is |-> "refused"]
  @@ <<"mine">> :> Deal(0, "SOLVED")

Nothing ==
  [is |-> "object", instance |-> <<>>, instance_name |-> <<>>, custom_rules |-> <<>>, streamliner |-> ""]
At(path) == [Nothing EXCEPT !.instance = path]
Items ==
  <<At(<<"free-cell_1">>),
    [is |-> "other"], Nothing, At(<<"chess_1">>), At(<<"free-cell_4">>),
    At(<<"tests", "free-cell_3">>),
    [Nothing EXCEPT !.instance_name = <<"instances", "level1", "free-cell_2">>, !.streamliner = "both"],
    [At(<<"accordion_1">>) EXCEPT !.custom_rules = <<"absent">>],
    [At(<<"free-cell_1">>) EXCEPT !.custom_rules = <<"tests", "forty">>, !.streamliner = "smart"],
    [At(<<"mine">>) EXCEPT !.custom_rules = <<"forty">>]>>
Refused == <<At(<<"free-cell_1">>), [At(<<"mine">>) EXCEPT !.custom_rules = <<"two_goals">>]>>

OfSeeds ==
  [is |-> "seeds", rules |-> Free, streamliner |-> "none", first |-> 1, last |-> 2, iterations |-> 1,
   warmup |-> TRUE, timeout |-> 1, force_lru |-> FALSE, cache_type |-> "auto", scarce |-> FALSE]
OfItems ==
  [is |-> "json", list |-> "JSON", items |-> Items, iterations |-> 1, warmup |-> TRUE, timeout |-> 1,
   cache_type |-> "auto", scarce |-> FALSE]

MCRequests ==
  {[OfSeeds EXCEPT !.rules = rules, !.streamliner = style, !.force_lru = lru, !.cache_type = cache,
                   !.last = 1, !.timeout = t] :
     rules \in {Free, Hole, Forty, Line}, style \in {"none", "both"}, lru \in BOOLEAN,
     cache \in {"auto", "hash-only", "multiplicity", "bitmap"}, t \in {0, 1}}
  \union {[OfSeeds EXCEPT !.iterations = n, !.warmup = w, !.last = last] :
            n \in {0, 1}, w \in BOOLEAN, last \in {0, 1, 2}}
  \union {[OfSeeds EXCEPT !.iterations = n, !.warmup = FALSE, !.last = 1] : n \in {-1, 2}}
  \union {[OfItems EXCEPT !.items = items, !.cache_type = cache] :
            items \in {SubSeq(Items, 1, 6), SubSeq(Items, 7, 8), SubSeq(Items, 9, 10)},
            cache \in {"auto", "multiplicity"}}
  \union {[OfItems EXCEPT !.items = <<Items[1], Items[7]>>, !.warmup = warm, !.scarce = few] :
            warm \in BOOLEAN, few \in BOOLEAN}
  \union {[OfItems EXCEPT !.items = <<Items[7]>>, !.iterations = n] : n \in {0, 2}}
  \union {[OfItems EXCEPT !.items = Refused], [OfItems EXCEPT !.list = "no JSON"]}
=============================================================================
