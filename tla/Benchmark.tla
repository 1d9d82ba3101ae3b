----------------------------- MODULE Benchmark -----------------------------
(***************************************************************************)
(* benchmark: run, which measures the searches of a range of seeds and     *)
(* aggregates them, and run_json, which measures the instances that a      *)
(* document lists.                                                         *)
(*                                                                         *)
(* A path is the sequence of its names.  What a search costs is its        *)
(* environment's choice; what it finds is the truth of the deal, unless    *)
(* the budget or a signal ends it.  Times are microseconds, a millisecond  *)
(* has Millisecond of them; the geometric means are given as products, and *)
(* the other means as sums.                                                *)
(***************************************************************************)
EXTENDS SolRules, Integers, Sequences, FiniteSets
LOCAL INSTANCE SequencesExt

CONSTANTS
  Requests,        (* What is asked of the benchmark.                      *)
  Presets,         (* Rules of games, by name.                             *)
  RulesFiles,      (* Rules by path, or <<>> for a file that is refused.   *)
  DealFiles,       (* Deals by path: what is in the file, nodes and type.  *)
  GameOf(_),       (* The name of a file up to its first underscore.       *)
  SeedDeal(_),     (* The deal of a seed: nodes and type.                  *)
  Times, Peaks,    (* Bounds: what a search may take, and peaks of memory. *)
  Millisecond

(* Of the command line: the seeds of a range and the number of iterations  *)
(* are any numbers.                                                        *)
ASSUME RequestsAssumption ==
  \A q \in Requests :
    /\ q.iterations \in Int
    /\ q.is = "seeds" => q.first \in Int /\ q.last \in Int

VARIABLES
  request, pc,
  seed, item,      (* What is measured: a seed, or a place in the list.    *)
  found,           (* The rules, the streamliner and the deal of an item.  *)
  i,               (* The iteration.                                       *)
  runs,            (* History: the searches of this seed or item.          *)
  row,             (* The samples of this seed or item.                    *)
  samples,         (* all_times, all_nodes, all_memory and all_sol_types.  *)
  data,            (* seed_data, or the array of run_json, as written.     *)
  aggregate, sigint, peak,
  printed,         (* What was written was flushed.                        *)
  exit             (* "no", "success" or "failure".                        *)

place == <<seed, item, found, i>>
result == <<aggregate, printed, exit>>
vars == <<request, pc, place, runs, row, samples, data, sigint, peak, result>>

Second == 1000 * Millisecond

-----------------------------------------------------------------------------
(* dispatch_run_seed and dispatch_run_deal: each with a list of its own.   *)
FirstOf(choices) == choices[CHOOSE n \in DOMAIN choices :
  choices[n][1] /\ \A m \in 1..n - 1 : ~ choices[m][1]][2]

(* Mutant: the default comes before what was asked for.                    *)
DispatchedDefaultFirst(r, streamliner, cache_type) ==
  LET suit_sym == SuitSymmetryOn(streamliner) \/ r.hole
  IN << <<UseNewCache(r, suit_sym), "FLAT">>,
        <<cache_type = "bitmap" /\ SingleLine(r), "BITMAP">>,
        <<SingleLine(r), "MULTIPLICITY">>, <<TRUE, "LRU">> >>

Dispatched(r, streamliner, cache_type) ==
  LET suit_sym == SuitSymmetryOn(streamliner) \/ r.hole
  IN << <<cache_type = "bitmap" /\ SingleLine(r), "BITMAP">>,
        <<cache_type = "multiplicity" /\ SingleLine(r), "MULTIPLICITY">>,
        <<cache_type = "hash-only" /\ UseNewCache(r, suit_sym), "HASH_ONLY">>,
        <<UsePredecessorCache(r), "PREDECESSOR">>,
        <<UseNewCache(r, suit_sym), "FLAT">>,
        <<SingleLine(r), "MULTIPLICITY">>, <<TRUE, "LRU">> >>

SeedPolicy(q) ==
  FirstOf(<< <<q.force_lru, "LRU">> >> \o Dispatched(q.rules, q.streamliner, q.cache_type))
DealPolicy(r, streamliner, q) == FirstOf(Dispatched(r, streamliner, q.cache_type))

(* run_seed_impl, run_deal_impl: a search of its own state and cache.  The *)
(* clock is the wall's, and the memory is the peak of the process.         *)
Budget == request.timeout * Millisecond

Outcomes(deal, policy) ==
  LET Sample(t, n, type) ==
        [time |-> t, nodes |-> n, type |-> type, policy |-> policy, memory |-> peak]
      Cut(t, type) == {Sample(t, n, type) : n \in 1..deal.nodes - 1}
      cuts == (UNION {Cut(t, "TIMEOUT") : t \in {x \in Times : x >= Budget}})
              \union (IF policy = "LRU" THEN UNION {Cut(t, "MEM_LIMIT") : t \in Times} ELSE {})
  IN CASE deal.nodes = 0 \/ (Budget > 0 /\ ~ sigint) ->
            {Sample(t, deal.nodes, deal.type) : t \in Times} \union cuts
       [] deal.nodes > 0 /\ Budget = 0 -> {Sample(t, 0, "TIMEOUT") : t \in Times}
       [] OTHER -> {Sample(t, 0, "TERMINATED") : t \in Times}

Warm == IF request.warmup THEN 1 ELSE 0

AllIterations == request.iterations + Warm

(* Mutant: the warm-up leaves its sample.                                  *)
KeptAlways(rows, s) == Append(rows, s)
Kept(rows, s) == IF ~ request.warmup \/ i > 0 THEN Append(rows, s) ELSE rows

Measure(deal, policy) ==
  \E s \in Outcomes(deal, policy), p \in {x \in Peaks : x >= peak} :
    LET sample == [s EXCEPT !.memory = p]
    IN /\ peak' = p /\ i' = i + 1
       /\ runs' = Append(runs, sample)
       /\ row' = Kept(row, sample)
       /\ samples' = IF request.is = "seeds" THEN Kept(samples, sample) ELSE samples

-----------------------------------------------------------------------------
(* run                                                                     *)
Column(rows, f) == [n \in DOMAIN rows |-> rows[n][f]]
Sorted(values) == SortSeq(values, LAMBDA x, y : x < y)
Total(values) == FoldLeft(LAMBDA x, y : x + y, 0, values)
AtLeastOne(values) == [n \in DOMAIN values |-> IF values[n] < 1 THEN 1 ELSE values[n]]
Product(values) == FoldLeft(LAMBDA x, y : x * y, 1, AtLeastOne(values))
Upper(values) == values[Len(values) \div 2 + 1]

TwiceMedian(values) ==
  IF Len(values) % 2 = 1 THEN 2 * Upper(values) ELSE values[Len(values) \div 2] + Upper(values)

Aggregated(rows) ==
  LET n == Len(rows)
      times == Sorted(Column(rows, "time"))
      nodes == Sorted(Column(rows, "nodes"))
      memory == Sorted(Column(rows, "memory"))
      nps == [k \in 1..n |-> (nodes[k] * Second) \div AtLeastOne(times)[k]]
      par2 == [k \in 1..n |-> IF rows[k].type = "TIMEOUT" THEN Budget * 2 ELSE times[k]]
  IN [count |-> n,
      total_time |-> Total(times), twice_median_time |-> TwiceMedian(times),
      product_time |-> Product(times), sq_sum |-> Total([k \in 1..n |-> times[k] * times[k]]),
      total_par2 |-> Total(par2),
      total_nodes |-> Total(nodes), twice_median_nodes |-> TwiceMedian(nodes),
      product_nodes |-> Product(nodes),
      total_nps |-> Total(nps), median_nps |-> Upper(Sorted(nps)), product_nps |-> Product(nps),
      aggregate_nps |-> (Total(nodes) * Second) \div AtLeastOne(<<Total(times)>>)[1],
      min_time |-> times[1], max_time |-> times[n],
      max_memory |-> memory[n], median_memory |-> Upper(memory)]

Start ==
  /\ pc = "start" /\ request.is = "seeds" /\ pc' = "seeds"
  /\ UNCHANGED <<request, place, runs, row, samples, data, sigint, peak, result>>

MeasureSeed ==
  /\ pc = "seeds" /\ seed <= request.last /\ i < AllIterations
  /\ Measure(SeedDeal(seed), SeedPolicy(request))
  /\ UNCHANGED <<request, pc, seed, item, found, data, sigint, result>>

NextSeed ==
  /\ pc = "seeds" /\ seed <= request.last /\ i >= AllIterations
  /\ data' = Append(data, [of |-> seed, row |-> row, runs |-> runs])
  /\ seed' = seed + 1 /\ i' = 0 /\ runs' = <<>> /\ row' = <<>>
  /\ UNCHANGED <<request, pc, item, found, samples, sigint, peak, result>>

Aggregate ==
  /\ pc = "seeds" /\ seed > request.last
  /\ aggregate' = IF samples = <<>> THEN <<>> ELSE <<Aggregated(samples)>>
  /\ pc' = "end" /\ printed' = TRUE /\ exit' = "success"
  /\ UNCHANGED <<request, place, runs, row, samples, data, sigint, peak>>

-----------------------------------------------------------------------------
(* run_json                                                                *)
Existing(paths, files) == SelectSeq(paths, LAMBDA path : path \in files)
InTests(path) == <<"tests">> \o path

Instance(it) == IF it.instance # <<>> THEN it.instance ELSE it.instance_name

CustomRules(it) ==
  IF it.custom_rules = <<>> THEN <<>>
  ELSE Existing(<<it.custom_rules, InTests(it.custom_rules)>>, DOMAIN RulesFiles)

(* The rules of an item, or <<>> if there are none.                        *)
RulesOf(it) ==
  LET game == GameOf(Last(Instance(it)))
  IN IF CustomRules(it) # <<>> THEN RulesFiles[Head(CustomRules(it))]
     ELSE IF game \in DOMAIN Presets THEN Presets[game] ELSE <<>>

DealPaths(path) ==
  LET at == SelectInSeq(Front(path), LAMBDA name : name = "instances")
      stripped == RemoveAt(path, at)
      inTests == <<path, InTests(path), <<"tests", "resources">> \o path>>
  IN IF at = 0 THEN inTests
     ELSE inTests \o <<<<"tests", "resources">> \o stripped, InTests(stripped)>>

Deals(it) == Existing(DealPaths(Instance(it)), DOMAIN DealFiles)

Named(it) == it.is = "object" /\ Instance(it) # <<>>
Refuses(it) == Named(it) /\ CustomRules(it) # <<>> /\ RulesOf(it) = <<>>
Usable(it) == Named(it) /\ RulesOf(it) # <<>> /\ Deals(it) # <<>>

Streamliner(it) ==
  IF it.streamliner \in {"both", "suit-symmetry", "auto-foundations"} THEN it.streamliner ELSE "none"

(* A list that is missing or no JSON is a complaint, and success.          *)
OpenList ==
  /\ pc = "start" /\ request.is = "json"
  /\ IF request.list = "no JSON"
     THEN pc' = "end" /\ exit' = "success"
     ELSE pc' = "items" /\ exit' = exit
  /\ UNCHANGED <<request, place, runs, row, samples, data, sigint, peak, aggregate, printed>>

HasItem == pc = "items" /\ item <= Len(request.items)
It == request.items[item]

SkipItem ==
  /\ HasItem /\ ~ Usable(It) /\ ~ Refuses(It)
  /\ item' = item + 1
  /\ UNCHANGED <<request, pc, seed, found, i, runs, row, samples, data, sigint, peak, result>>

TakeItem ==
  /\ HasItem /\ Usable(It)
  /\ found' = [rules |-> RulesOf(It), streamliner |-> Streamliner(It), deal |-> Head(Deals(It))]
  /\ i' = 0 /\ runs' = <<>> /\ row' = <<>> /\ pc' = "item"
  /\ UNCHANGED <<request, seed, item, samples, data, sigint, peak, result>>

(* from_file throws, out of run_json: what was written is never flushed.   *)
RulesRefused ==
  /\ HasItem /\ Refuses(It)
  /\ pc' = "end" /\ exit' = "failure"
  /\ UNCHANGED <<request, place, runs, row, samples, data, sigint, peak, aggregate, printed>>

Iterating == pc = "item" /\ i < AllIterations
File == DealFiles[found.deal]

MeasureItem ==
  /\ Iterating /\ File.is = "deal"
  /\ Measure(File, DealPolicy(found.rules, found.streamliner, request))
  /\ UNCHANGED <<request, pc, seed, item, found, samples, data, sigint, result>>

(* The file cannot be read or dealt, or memory is scarce.                  *)
IterationFails ==
  /\ Iterating /\ (File.is # "deal" \/ request.scarce)
  /\ i' = i + 1
  /\ UNCHANGED <<request, pc, seed, item, found, runs, row, samples, data, sigint, peak, result>>

ItemAggregated(rows) ==
  LET n == Len(rows)
      times == Sorted(Column(rows, "time"))
      nodes == Sorted(Column(rows, "nodes"))
      memory == Sorted(Column(rows, "memory"))
  IN [count |-> n, median_time |-> Upper(times), total_time |-> Total(times),
      median_nodes |-> Upper(nodes), total_nodes |-> Total(nodes),
      max_memory |-> memory[n], median_memory |-> Upper(memory)]

ReportItem ==
  /\ pc = "item" /\ i >= AllIterations
  /\ data' = IF row = <<>> THEN data
             ELSE Append(data, [of |-> item, stats |-> ItemAggregated(row), runs |-> runs])
  /\ item' = item + 1 /\ pc' = "items"
  /\ UNCHANGED <<request, seed, found, i, runs, row, samples, sigint, peak, result>>

CloseList ==
  /\ pc = "items" /\ item > Len(request.items)
  /\ pc' = "end" /\ printed' = TRUE /\ exit' = "success"
  /\ UNCHANGED <<request, place, runs, row, samples, data, sigint, peak, aggregate>>

-----------------------------------------------------------------------------
(* Environment: SIGINT or SIGTERM, once a search has installed the         *)
(* handler.  Nothing resets the flag.                                      *)
Signal ==
  /\ pc \in {"seeds", "items", "item"} /\ peak > 0 /\ ~ sigint
  /\ sigint' = TRUE
  /\ UNCHANGED <<request, pc, place, runs, row, samples, data, peak, result>>

Init ==
  /\ request \in Requests
  /\ pc = "start" /\ seed = (IF request.is = "seeds" THEN request.first ELSE 0)
  /\ item = 1 /\ found = <<>> /\ i = 0
  /\ runs = <<>> /\ row = <<>> /\ samples = <<>> /\ data = <<>> /\ aggregate = <<>>
  /\ sigint = FALSE /\ peak = 0 /\ printed = FALSE /\ exit = "no"

Next ==
  \/ Start \/ MeasureSeed \/ NextSeed \/ Aggregate
  \/ OpenList \/ SkipItem \/ TakeItem \/ RulesRefused \/ MeasureItem \/ IterationFails
  \/ ReportItem \/ CloseList \/ Signal

Spec == Init /\ [][Next]_vars

-----------------------------------------------------------------------------
(* Every seed of the range is there once, in order, with the searches      *)
(* after the warm-up, as many as were asked for.                           *)
AsManyAsAsked == IF request.iterations > 0 THEN request.iterations ELSE 0
AfterWarmUp(searches) == SubSeq(searches, 1 + Warm, Len(searches))

EachSeedIsMeasured ==
  request.is = "seeds" /\ printed =>
    /\ [k \in DOMAIN data |-> data[k].of] =
         [k \in 1..request.last - request.first + 1 |-> request.first + k - 1]
    /\ \A k \in DOMAIN data :
         /\ Len(data[k].row) = AsManyAsAsked
         /\ data[k].row = AfterWarmUp(data[k].runs)

(* The aggregates are those of the samples that are printed: the sums and  *)
(* extremes, and medians that have as many samples below as above.         *)
AllRows == FlattenSeq([k \in DOMAIN data |-> data[k].row])

CountIn(values, Test(_)) == Cardinality({k \in DOMAIN values : Test(values[k])})
AtRank(values, n) ==
  CHOOSE v \in Range(values) :
    /\ CountIn(values, LAMBDA x : x < v) < n
    /\ CountIn(values, LAMBDA x : x <= v) >= n
Halves(values) == AtRank(values, (Len(values) + 1) \div 2) + AtRank(values, Len(values) \div 2 + 1)

AggregatesAreOfTheSamples ==
  aggregate # <<>> =>
    LET a == aggregate[1]
        times == Column(AllRows, "time")
        nodes == Column(AllRows, "nodes")
    IN /\ a.count = Len(AllRows)
       /\ a.total_time = Total(times) /\ a.total_nodes = Total(nodes)
       /\ a.twice_median_time = Halves(times) /\ a.twice_median_nodes = Halves(nodes)
       /\ \A k \in DOMAIN times : a.min_time <= times[k] /\ times[k] <= a.max_time
       /\ {a.min_time, a.max_time} \subseteq Range(times)

(* A search is measured under the policy that the same options would solve *)
(* it with: the dispatches of benchmark.cpp and of main.cpp are three      *)
(* copies.  A document of instances knows no force_lru.                    *)
MeasuresWhatIsSolved ==
  \A k \in DOMAIN runs :
    runs[k].policy =
      IF request.is = "seeds"
      THEN PolicyOf(request.rules, request.streamliner, request.force_lru, request.cache_type)
      ELSE PolicyOf(found.rules, found.streamliner, FALSE, request.cache_type)

(* A document that is worked off has an entry for each instance with rules *)
(* and a deal of which a search after the warm-up came to its end, in      *)
(* order, and each entry is of its own searches.                           *)
Evaluated(it) ==
  /\ Usable(it)
  /\ DealFiles[Head(Deals(it))].is = "deal" /\ request.iterations > 0

ItemsAreReported ==
  request.is = "json" /\ printed =>
    /\ \A k \in DOMAIN data :
         /\ Evaluated(request.items[data[k].of])
         /\ k > 1 => data[k - 1].of < data[k].of
         /\ data[k].stats.count <= request.iterations
         /\ data[k].stats.total_nodes <= Total(Column(data[k].runs, "nodes"))
         /\ data[k].stats.max_memory <= peak
    /\ ~ request.scarce =>
         /\ {data[k].of : k \in DOMAIN data} =
              {k \in DOMAIN request.items : Evaluated(request.items[k])}
         /\ \A k \in DOMAIN data :
              data[k].stats = ItemAggregated(AfterWarmUp(data[k].runs))

(* What is printed at the end is of what was searched: of the seeds with   *)
(* their aggregates, or of the instances of a document.                    *)
ReportTellsTheSamples ==
  EachSeedIsMeasured /\ AggregatesAreOfTheSamples /\ ItemsAreReported
=============================================================================
