# A verification of ReSolvitaire

ReSolvitaire decides whether a deal of a solitaire game can be won. It reads
the rules of the game and a deal (or the seed of one), searches the game by
depth-first search with a transposition table, and answers *solved*,
*unsolvable*, or that a budget ran out. These modules model the program in
`src/src/main`: its search, its caches, its games, its rules, its threads and
its command line. TLC checks them on small instances; TLAPS proves what the
solver with its LRU cache, the flat caches, the threads of a solvability run
and `main` promise, for every game, every hash and every size.

The one thing the program must not do is to answer wrongly. Most of what could
make it do so is hidden: a cache that takes one position for another, a move
that is not generated because it seems useless, a move that is made without
alternatives because it seems safe, an undo that is not quite one, a search
that is run again or counted twice. The properties are about these.

## 1. Inventory

| Component | State | Operations | What is hard | What makes it correct |
|---|---|---|---|---|
| Depth-first solver (`solver/`) | one game state, changed in place; the frontier (moves, child lists, iterators into the cache); counters | `run`, `dfs`, `set_to_child`, `revert_to_last_node_with_children`, `print_solution`, the signal handler | budgets that are looked at on different turns, recursion of the step back, states forgotten by the cache | verdicts are right, nothing is lost, the state is that of the frontier, the counters add up, it ends |
| LRU cache (`game/global_cache.*`) | a list with an index, live bits, an eviction count | `insert_with_iterator`, `set_non_live`, `contains` | eviction that must spare the open path; all items live | live items are the path, a full memory is reported only when it is |
| Flat caches (`generic_flat_cache*.h`) | buckets of two slots, hash guards, counts | `insert_t`, `contains_t`, `clear`, four policies | the cascade from slot to slot and the guards left behind, hash 0 | no state is made up, none twice in a bucket, the shallowest kept, the eviction count honest |
| Bitmap cache (`bitmap_cache.h`) | bits | `probe_and_insert`, `probe` | two states with one bit | a solution shown is one; counts |
| Game state (`game/search-state/game_state.*`, `pile_order`) | piles, ordered lists of piles, descriptors, headers, predecessors, waste pointer | construction from a seed or a document, the shuffle, six kinds of `make_move` and `undo_move`, `is_solved` | incremental descriptors, reordered piles, redeals, face-down cards | an undo gives back the state; incremental is from-scratch; order kept |
| Legal moves, dominance moves | none (functions of the state and the last move) | `get_legal_moves`, `get_dominance_move` | moves left out, moves forced | the verdict is that of the rules |
| Flat descriptors (`flat_descriptor_engine.h`, `compact_state.*`, `hash_descriptor_store.h`) | a value for each card, foundation, waste pointer or hole; a hash kept by exclusive or; 32 packed bytes, or a byte for each | `init`, `update_*`, `write_slot`, `matches` | two values in a byte, the foundations and the hole in the same one; a hash that is never recomputed | packed is unpacked, kept is recomputed, a slot matches its state only |
| Multiplicity descriptors (`multiplicity_descriptor_engine.h`) | slots of all cards, sums of random numbers for each class | `incremental_update`, `recompute_from_descriptors` | a slot names a card by its place in the payload, which depends on slots: a change spreads | incremental is from-scratch, alike cards share slots |
| Predecessors, canonical states | the payload that a cache compares; beside the predecessors of an accordion, flat descriptors that no cache compares | `cached_game_state`, the undo frames | symmetries: two positions with one payload must be one for the rules; a second payload that only an assertion looks at | seen means seen, up to the order of piles; both payloads are those of the piles |
| Zobrist tables (`multiplicity_zobrist.h`, `predecessor_zobrist.h`) | tables of random numbers, a flag | `init`, by every thread that makes a game | no lock | a number that was read never changes |
| Rules and their parser (`rules_parser.cpp`, `sol_rules.*`, `cache_interface.h`) | the rules, from the defaults section by section | `modify_sol_rules`, the schema, `use_*_cache` | two descriptions of one format; casts to a byte | what a document says is what is played |
| Solvability calculation (`evaluation/solvability_calc.*`) | atomic seed counter, results and seeds in progress under a mutex, the process clock, a wall deadline for each search | `calculate_solvability_percentage`, `solver_thread`, `add_result` | threads, resuming, two searches for a seed, a clock that all threads share | each seed once, none dropped, counts and verdicts right, lines that fit their header, all threads end |
| Command line and `main` | options, the signal flag, the exit status | `parse`, `gen_rules`, `solve_input_files`, `solve_game`, `dispatch_solve` | one bad file of several, smart mode's second search, a signal at any time, builds with and without `assert` | every file answered, reports right |
| Deal documents (`deal_parser.cpp`, `print_game_state_as_json`) | none | printing a state, reading one | sections that are missing, too short or too long; face-down cards; assertions | a deal printed is the deal read, no card is lost |
| Preset games (`sol_preset_types.cpp`) | none | lookup of a document | data | they parse, deal the whole deck and can be played |
| Printers (`state_printer.cpp`, `print_solution`) | none | the picture of a state, the solution | rows that are cut at the longest pile, empty piles | a picture is read back; what is printed is a solution |
| Benchmark (`evaluation/benchmark.*`) | samples, a document of items | `run`, `run_json` | aggregates over sorted columns, items that fail, a signal between | each is measured as asked, aggregates are of the samples |
| Search trace (`solver/search_trace.*`) | number of the operation, places to halt | an event for each step of the search | an event too many or too few is in no other output | replayed, the trace is the search |
| Binomial intervals, platform memory | - | statistics, operating-system calls | - | not modelled (see section 7) |

**How they interact.** `main` parses the options, makes the rules
(`rules_parser`), and calls `solve_game` for each deal or
`solvability_calc` for many seeds. Either picks a *policy* (`dispatch_solve`):
which cache, and which description of a state goes into it. The solver asks
its game state for a dominance move, else inserts it into the cache; if it is
new it asks for the legal moves, goes down the last of them, and otherwise
goes back. Everything runs on the calling thread, except for the threads of
`solvability_calc`, which share a counter, a mutex, the process CPU clock, the
flag of the signal handler and a few static tables.

## 2. Modules

| Module | Models | State and actions |
|---|---|---|
| `DepthFirstSearch`, `DepthFirstSearchProofs` | what the solver promises: a depth-first search over any game and a cache that may forget; proofs | `frontier` holds nodes with their states; `Dominate`, `Expand`, `DeadEnd`, `Duplicate`, `Solve`, `Stop` are the ways a turn of `dfs` can go |
| `FlatCluster`, `SolverCache` | the caches as operators on their values; `SolverCache` has the LRU list, the bitmap and the flat buckets, and is the cache of the constant `Policy` | |
| `FlatCache` (proofs in `StoresProofs`) | a flat cache by itself | `Insert`, `Clear` |
| `Solver`, `SolverProofs` | `solver_impl<Policy>`: in-place state, frontier of moves, iterators, counters, budgets, the solution that is printed; proofs, with those of the LRU cache | an action is one turn of the loop; `Clock` and `Signal` come in between; composes `SolverCache` and refines `DepthFirstSearch` |
| `SearchTrace` | the events of a turn of the solver, the breaks at an operation and at a hash | the turns of `Solver` with what they write |
| `TraceAgreement` | two searches of one deal under two caches, and their traces, with the instance that is checked | `SearchTrace` twice |
| `TraceProofs`, `AgreementProofs` | proofs about `SearchTrace`, and about `TraceAgreement` | |
| `Games` | a family of small games to check the search on: 60 graphs, two goals, three styles (a model of no code) | |
| `GameState`, `Deal` | cards and their orders, piles, the moves and their undo, the pile order, `is_solved`, the deal of a shuffled deck | functions of the state |
| `LegalMoves` | both generators, legal and dominance moves, in the order of the code | functions of the state |
| `Descriptors`, `CanonicalState` | `make_move` and `undo_move` with what they do to flat descriptors, multiplicity descriptors, and the predecessors and flat descriptors of an accordion; the key that each policy compares | `MakeMove`, `UndoMove`, `KeyOf` |
| `Rulebook` | the games as their rules say they are played: every move, none left out, none forced (written independently of the generators, not mapped) | `RuleSteps` |
| `StatePrinter` | the picture of a state, as sections of rows of cells | functions |
| `SolRules`, `RulesParser` | the default rules and the policy of a game; what a document of rules makes of the defaults, which are refused, and which end the program (a text in which `stoi` finds no number) | functions |
| `PresetGames` | the documents of the presets, in the format of `RulesParser` | functions |
| `DealDocuments` | `print_game_state_as_json` and `deal_parser`: what is written of a state, what is made of a document | functions |
| `DealCycle` | composes presets, parser, deal, documents, games and policies: the way of a deal from the name of a game to its play | `MakeRules`, `PrintDeal`, an edit, `ReadBack`, `Play` and the undo of each move |
| `CommandLine` | the words of a command line as Boost reads them, what `parse` makes of the options, its complaints | functions of the words |
| `Main`, `MainProofs` | one run of the program, from the command line to the exit status; proofs | `Parse`, `GenRules`, `Mode`, `ReadDeal`, `DealError`, `SearchAgain`, `Report`, `Finish`, `Signal` |
| `SolvabilityCalc` | the threads of a solvability run, step by step between their accesses to shared state; `seeds_in_progress` is kept as the code keeps it, which prints it nowhere | `Start`, `Insert`, `Work`, `Deadline`, `EndSearch`, `Record`, `Fetch`, `Finish`, `Signal` |
| `SolvabilityTable`, `SolvabilityTableProofs` | what that run prints - the header, the cells of a result and those of a missing one are the three lists of the code - and the policy `solve_seed` gives each search to; composes `SolvabilityCalc` and `SolRules`; proofs of both | its steps with their cells |
| `Benchmark`, `BenchmarkProofs` | both benchmarks, search by search; proofs | ranges, items, samples, aggregates |
| `HashDescriptorStore`, `CompactState`, and `StoresProofs` with proofs of both | `flat_descriptor_engine` over a field for each value, and over 32 bytes; the second implements the first | `update_card`, `update_foundation`, `update_waste_ptr`, `update_hole_top`, `set_payload_depth`, `write_slot` |
| `MultiplicityCascade` (proofs in `StoresProofs`) | `incremental_update`, `incremental_update_none` and `recompute_from_descriptors`, one change, one class and one card of their loops at a time, and the sums of the hash; `Descriptors` has their fixpoint | `Move`, `DealToAll`, `Undo`; `Describe`, `CascadeClass`, `MoveChild`, `WriteBack`; `Recompute`, `Sort`, `SettleCard`, `Write` |
| `HashTables` (proofs in `StoresProofs`) | `init` of the multiplicity and predecessor tables by several threads, one write at a time; proofs | `MakeGame`, `Fill`, `Search` |

The composed models that TLC runs are `MCDepthFirstSearch`,
`MCSolver` (solver, LRU cache, trace and printed solution), `TraceAgreement`
(solver over flat caches and the bitmap), `MCGames` (solver over the modelled
games), `MCSolvabilityTable`, `MCMain` (command line and program),
`MCDealCycle`, `MCBenchmark` and `MCStores` (a flat cache and the three things that
payload and hash rest on, side by side). `Solver` is parameterised by a game (`LegalMoves`,
`Apply`, `Undo`, `Key`, ...): `MCSolver` gives it the family of `Games`, `MCGames`
the modelled games themselves, so that what runs there is the program's search
over the program's states.

A mutant, an operator marked so in a comment, is a plausible bug that a
property is known to catch: `PROJECT.json` says which.

History variables: `expanded`, `overdue` (solver), `stored`, `inserted`
(cache), `rows`, `first_seed` (calculation), `written` (compact state), `keys`
(tables). No action reads them to decide what to do.

## 3. Runs

Each run asks one question of a composition; its properties are conjunctions
of named parts, which the comments of the modules explain.

| Run | Question and answer | Bounds, and why they are enough |
|---|---|---|
| `dfs` | Does the abstract search lose a successor, or answer wrongly? No: `NothingLost`, `UnsolvableIsRight`, `SolvedIsShown`. | 360 games: graphs of five positions with cycles, dead ends, two positions of one key, forced and pruned moves, a goal that may not be reachable. Frontier of at most 6 nodes: five positions cannot make a longer path, for a state on the path is a duplicate. |
| `solver_lru` | Is the solver over an LRU cache a depth-first search (`IsDepthFirstSearch`)? Is the open path kept (`OpenPathIsKept`) and MEM_LIMIT said only when it alone is too long (`MemLimitIsHonest`)? Are the in-place state, the counters and the budgets right (`BooksAreRight`), does the trace replay the search (`TraceTellsTheSearch`), is the printed solution a play (`SolutionIsAPlay`), does it end (`Termination`)? Yes. | The family of games; a cache of two states, shorter than the paths, so that evictions happen, duplicates are forgotten, and memory runs out; caps of 0 and 4 states; the clock looked at every third turn; traces through, or broken off at three places. |
| `agreement` | Do a flat and a hash-only search leave the same trace until something is evicted, and a flat and a bitmap search until two positions share a bit (`AgreeUntilEvict`)? Is each search sound by itself, its counts, solutions and breaks (`EachSearchIsSound`)? Yes. (*Unsolvable* of a bitmap need not be right, which is what that policy is documented to give up.) | The family of games; buckets that drive states out, a state of hash 0, two positions with one bit, breaks at four operations and two hashes. |
| `games` | Are the verdicts those of the rulebook (`VerdictIsRight`)? Is a state recognised if and only if it was seen (`KnownIsSearched`)? Are descriptors (`StoreIsRight`: of an accordion, the predecessors), piles, pile order and face-down cards (`PilesAreRight`) right after every move and undo, and can the picture be read back (`PicturesAreRight`)? Yes. | Deals of 30 small games: Klondike (one, two and three cards, redeals, face-down, worrying back), Canfield (stacked reserve, random base), FreeCell, Seahaven, Black Hole, Golf, Spider and Spiderette, Fortune's Favor, Accordion, Gaps, Forty Thieves (two decks), Flower Garden, each under the policy that dispatch chooses and several also under LRU, multiplicity and the streamliners. Up to four ranks: the least for which groups, wraps and buried cards occur. The seeds were chosen for the searches to be long and the verdicts mixed. The cache is large enough never to forget. |
| `calc` | Is each seed solved once (`OncePerSeed`), none dropped (`NoSeedDropped`), is every verdict one of its seed (`VerdictsAreRight`), has each line the cells of the others, in the order of the header's names, and the result that is counted (`LinesAreRight`), do all threads end (`Completion`)? Yes. | Two threads, three seeds (that need no work; just the tenth of the budget; just the budget), the second of a deal whose states the cache may confuse; two lists to resume from, a wall deadline and a signal at any time; rules of five kinds and four cache types, so that every policy is chosen. The process clock stops at 12: no run gets there, as each search ends at its budget. |
| `main` | Is what is reported of each deal so (`ReportIsRight`), is every file answered, bad ones too (`EachInputAnswered`)? Does `parse` make of typed words the options and the task that they say, and refuse the others (`LineIsUnderstood`)? Yes. | Command lines of every kind, valid or not, and those typed in up to six words of the options that exclude or need each other; rules that are accepted, refused or end the program, games of whole-state and of hash caches; deals that can be won, cannot, start solved, cannot be read or dealt; builds with and without assertions; a signal at any time. |
| `deal_cycle` | Does the printed deal of each preset come back as the deal, every card once (`DealIsReadBack`)? Do the first moves keep what the policy compares, and does undo give it back (`PlayIsKept`)? Is a card that a document names ever lost without an error (`EditIsRead`)? Yes; no. | All presets but `lucas` and `fortunes-favor` (section 5), with full decks of 52 or 104 cards in one order each, three options of the cache, face-down cards printed or not; eight moves of each game. For nine small presets every section dropped, shortened, blanked, lengthened or added, ranks out of range, in builds with and without assertions. |
| `benchmark` | Is each seed and item measured once, in its own sample, as asked or reported as missing (`ReportTellsTheSamples`)? Is what is measured the search that a game by itself would have (`MeasuresWhatIsSolved`)? Yes, but for two aggregates (section 5). | Up to two seeds, every option of the cache, ten items, searches of two lengths, a signal between any two searches. |
| `stores` | Does a bucket of a flat cache make states up (`NoFalsePositive`), hold one twice, lose the shallowest or count wrongly (`BucketsAreRight`), forget without counting it (`NothingForgotten`), or miss what was just put in (`InsertedIsFound`), under any of the four policies? No. Do the bytes implement the store with a field for each value (`IsHashDescriptorStore`)? Does a slot match just its state, with the hash of its fields (`SlotsAreRight`)? Does the cascade of a move end in the payload and hash of a scratch computation (`IncrementalIsScratch`), and do cards that are alike share slots (`AlikeShareSlots`)? Does a search read a number that changes later (`KeysAreFinal`)? Yes; no, though nothing is locked: every thread writes the same numbers. | Four parts side by side. Five states: two with one hash, one with hash 0, two in another bucket; three depths (with ties); six insertions: enough to fill a bucket and displace each of its slots twice. Cards that share a byte and cards that do not, the least and largest value of each field, a game with a hole and one without (`dispatch_solve` sends no game with a hole to this engine; that part is about the class). Twelve cards in classes of one, two and four on boards with face-down cards, equal ranks on one another, alike piles and a stock; moves, groups, plays from the stock that uncover another card of the waste, none, or leave its top, deals, and the undo of each. Three threads, two games each, a table of two numbers; threads are symmetric. |
| `east_haven` (violation) | `VerdictIsRight` for a game that deals to all piles and takes cards back from foundations: see section 5. | One deal. |
| `calc_shared_clock` (violation) | `BudgetIsOwnWork`: is a budget that of the search's own work? Not with two threads. | Three seeds, without smart mode. |
| `accordion_payload` (violation) | `PayloadIsConsistent`: are the flat descriptors of an accordion those of its piles? Not after a move: see section 5. | One deal. |

A search in `Main` and `SolvabilityCalc` may give any verdict that `Solver` can give for
such a deal. UNSOLVABLE is wrong there whenever it may be: with a streamliner; with a
bitmap or the hash-only cache, which may take a new state for a known one
(`bitmap_cache.h:33`); and in games that deal to all piles and take cards back from
foundations (section 5). `Main` reads this off the options and the rules
(`MissesNothing`); in `SolvabilityCalc`, which has no rules, the constant `Confused`
names the deals that it may happen to, for any of these reasons. A wrong
UNSOLVABLE of these kinds is the choice of the user or a finding
of its own, and `VerdictsAreRight` and `ReportIsRight` except it; they are about
everything else that could make a wrong report: the rerun of smart mode, a signal,
budgets, threads and mixed-up deals. TIMEOUT is the answer of a CPU budget or of a
wall deadline, which may pass at any moment.

In `MCGames` the constant `State` is empty, as the states of a game cannot be
enumerated beforehand, so `UndoAssumption` says nothing there: `BoardIsReplayed`
and `StoreIsRight` check the undo in every state that the search visits instead.

**Deadlock.** It is not checked where a run of the system ends (the searches,
the calculation, `main`, a benchmark, a trace that is broken off, the threads of
`stores` that have played their games).

**Fairness.** `Solver` assumes weak fairness of `Dfs` alone: the loop turns as
long as it can. `SolvabilityCalc` assumes weak fairness of each thread's steps:
the operating system schedules every thread, and the mutex is held for a bounded
piece of straight code. Clock and signal are not fair: nothing depends on a
budget running out or a signal coming.

## 4. What is proved

`DepthFirstSearchProofs` proves for every game, every cache and every length of
the frontier:

- `SearchLosesNothing`, `UnsolvableVerdict`, `SolvedVerdict`: the three invariants
  of the run `dfs`, and `TypeCorrect`.

Assumptions: the game's operators stay in its states and moves
(`GameAssumption`); states of one key are both solved or neither, and their
successors have the same keys (`KeyAssumption`, what canonical forms and
symmetry promise); a move that `get_legal_moves` skips because of the last one
leads where another move of the parent state leads (`PruningAssumption`, the
argument of the comments for skipping). TLC evaluates all three on the family of
games. On the modelled games the run `games` checks what they are for: verdicts.

The argument: `NothingLost` alone is not inductive, because going back drops
child lists and the state that replaces the current one must be known to have
been expanded. `SearchInv` adds that the frontier is a play from the deal whose
child moves are legal (`Shape`, `Branch`), that every node above the current one
was expanded (`ParentsExpanded`), that no expanded state is solved
(`ExpandedUnsolved`), that a running search whose frontier is the root alone has
expanded nothing yet (`RootFirst`), and that after UNSOLVABLE only the root is
left and the deal was expanded (`Exhausted`). The step for a move that was
skipped uses `PruningAssumption` and the parent. For `UnsolvableVerdict`, the
states whose key was expanded contain the deal and are closed under moves once
nothing waits; so they contain every reachable state, and none is solved.

`SolverProofs` proves about `Solver`, which mutates one state, keeps its own
counters and searches with a real cache, for every game, every size of the
cache and any budgets:

| Theorem | Property | For |
|---|---|---|
| `BooksStayRight` | `BooksAreRight` | every cache |
| `MemLimitStaysHonest` | `MemLimitIsHonest` | every cache |
| `UniqueStatesStayCounted` | `UniqueStatesAddUp`, a part of `EachSearchIsSound` | every cache, but a bitmap without a bit |
| `SolvedStaysShown` | `SolvedIsShown`, a part of `EachSearchIsSound` | every cache, whatever states it confuses |
| `OpenPathStaysKept` | `OpenPathIsKept` | the LRU cache |
| `SolutionStaysAPlay` | `SolutionIsAPlay` | the LRU cache |
| `SolverIsDepthFirstSearch` | `IsDepthFirstSearch`, the refinement | the LRU cache |
| `UnsolvableStaysRight` | `UnsolvableIsRight` of the search it refines | the LRU cache |

The LRU cache has theorems of its own because the others forget the path: with
a flat cache or a bitmap a state may be taken for one above it or come twice on
the path, so that the search is no depth-first search in the sense of
`DepthFirstSearch` (whose `Duplicate` needs a state that was expanded).

The argument has three layers.

- *The path.* `BooksInv` says that the frontier is a path of moves of the game
  from the deal (`SearchPath`), whose states were expanded and are unsolved but
  for the last, which is the state that was mutated (`PathInv`), that depth and
  backtracks account for the turns (`CountInv`), and how many turns began after
  a budget was used up (`BudgetInv`: as many as since the last look at the
  clock). `BooksAreRight` alone is not inductive: it knows nothing of the moves
  left on the frontier, which lead out of states the search is not in. The step
  back is the hard one. `UndoneIsPath` says that taking back the moves one by
  one arrives at the path's state of the target (`TargetIsLast`: the last node
  above with a move left, or the root); it needs of the game that `undo_move`
  undoes (`UndoAssumption`). `DownStep` and `BackStep` say what every turn makes
  of the path, and everything below them is about paths, no longer about turns.
- *The cache.* `LRUInv` adds that the list has every key once (`GoodLRU`), that
  its keys were expanded, that its live items are the path's states above the
  current one (`CacheInv`) and that each of their nodes holds the iterator to its
  own item (`IteratorsHeld`): that is what makes `set_non_live` turn off the bits
  of the states that are left and no others. An insertion reorders the list and
  may evict: `EvictionDraws` and `RelocationDraws` say that the list afterwards is
  drawn from the one before, with every live item in it (`Draws`); `InsertOld` and
  `InsertNew` follow. `MemLimitStaysHonest` counts: all items are live, each is
  the state of a node, and no two of the same.
- *The refinement.* A node of `DepthFirstSearch` has its state, a node of the
  solver has not; `Nodes` adds the state that the path has there. `InitRefines`
  and `NextRefines` map every turn to the action of the same name (`MemLimit`,
  `TimeOut` and `Terminate` to `Stop`, the clock and the signal to a stutter). A
  duplicate is a state that was expanded because the keys of the list are
  those of expanded states. With it `UnsolvableStaysRight` carries the verdict of
  the abstract search over to the solver: however small the cache and however
  often it forgot a state, *unsolvable* means that no sequence of moves solves
  the deal.

`UniqueInv` counts: what an insertion adds to `size()` and to the evictions
(`InsertionCounts`) is what the turn adds to the unique states, and a node below
which a dominance move was taken has no other (`MovesAreMarked`).

Assumed of the game: `GameIsSound` (operators stay in states and moves, and what
is legal after some move is legal after none), `UndoAssumption`, for the counts
`MovesAreMarked`, and for the verdict the three assumptions of
`DepthFirstSearch`, which are stated again of the solver's game
(`PositionsAreClosed`, `KeyIsExact`, `PruningIsExact`). TLC evaluates the first
three and `PositionsAreClosed` in the run `solver_lru` and the others in `dfs`,
on the same family of games.

*What a cache knows.* `CacheKnowsWhatItWasGiven` says of the LRU list, the flat table
and its hash-only form, of any size, that as long as they have forgotten nothing they
answer *seen* for a state of the deal just if its key was given to them; and of a
bitmap of at least one bit that it answers so at least then. What forgets counts it: a
list that evicts or a bucket that replaces a state raises `states_removed`, and
the invariant `KnowInv` says that while nothing is counted, every key that was
given is still answered for.
Two policies are left out: one with a guard forgets without an eviction, when a
second slot cascades away and only the guard stays behind. The hash-only form needs
`HashesTell`: no two positions of a deal that differ for the cache have one hash, 0
taken for 1. TLC evaluates that assumption in the run `agreement`.

`TraceProofs` and, of two searches, `AgreementProofs` prove what the trace of a search is
worth, again for every game, cache, budget and request to halt:

| Theorem | Property | For |
|---|---|---|
| `TracingChangesNothing` | every traced search is a search of `Solver` | every cache |
| `TracedSearchHaltsRight` | `HaltsWhereAsked`, a part of `EachSearchIsSound` | every cache |
| `TraceTellsItsSearch` | `TraceTellsTheSearch` | every cache, but a bitmap without a bit |
| `SecondSearchLeavesTheFirst` | the first of two searches is a traced search | every pair of caches |
| `EachSearchStaysSound` | `EachSearchIsSound` | any cache first, the hash-only cache or a bitmap of at least one bit second |
| `TracesAgreeUntilEvict` | `AgreeUntilEvict` | the flat table or the hash-only cache first; second as above |

- *What a trace tells.* `Replay` is a loop over the trace; `Tell` says the same step by
  step: that an event sequence leads from a state and a depth to others, every
  event on the way telling of the state and the depth it should. `TellInv` says that
  the trace tells the way from the deal to the state and the depth that the search
  has now (or, once halted, to the state that is shown), and `CountsTold` that the
  counters are the counts of its events. Nothing of a whole trace has to be computed
  for that: one lemma for each kind of turn says what its events tell, and
  `TellJoined`, `CountJoined` and `ReplayIs` carry it over to the trace with them
  appended. The step back is the hard one again: two events are
  written for each node that is left, and `UpsTell` follows them through the states
  that `undo_move` leads back through (`Undone`, by `UndoneIsPath`); `UpsCounts` counts
  them. That the counts of unique states agree with the events needs `UniqueInv`, the
  reason for `MovesAreMarked` and the bit. Assumed (`RequestsAssumption`): a break is
  asked for at one operation at most, a natural number, as the command line has it.
- *Where it halts.* A turn may be cut after any of its events. `Written` says which
  part of a turn's events was written, and `HaltInv` what the trace was before: not
  yet at the break, no missed state with the hash that is looked for.
- *The second search.* It begins when the first has ended, with the flags of the process
  and the budgets that the first had. `SecondInv` instantiates the invariants of
  `SolverProofs` for it (`ForgetfulInv`). `OnTime` is what keeps the two apart, though they
  share the clock and the signal: until one of these says so no turn of either is overdue,
  and afterwards the second has no turn.
- *That they agree.* The two do not run in step: the second begins when the first is over.
  So neither is compared with the other, but each with a third that is a function of the
  deal: the *ideal* search, whose cache forgets nothing. `NextOf` makes a turn of it from
  its frontier (without iterators), the keys it gave to its cache and the lines it wrote;
  `Plays` says that a function is such a search, and `PlaysAreOne` that a deal has just
  one, whose lines only grow. `IdealInv` says of a search that its trace is, line by
  line, that of the ideal search up to the first place where it went its own way (`Bad`:
  an eviction, a budget used up, a state taken for another), and that as long as there
  is no such place it stands where the ideal one does, with the same frontier and the same keys
  given. One lemma for each kind of turn (`ExpandIdeal`, `DuplicateIdeal`, ...)
  compares the events with the lines; that a hit is a hit of the ideal search comes from
  `CacheKnowsWhatItWasGiven`, and a hit of a bitmap that is none is `Mistaken`, for what
  was missed was given (`MissesGiven`). A turn cut by a break writes the first part of its lines
  (`WrittenIdeal`). `SecondCourse` carries the same through the second search, and
  `BothAgree` compares the two. The ideal search is the same for every policy
  (`HashOnlyPlays`, `BitmapPlays`). Assumed besides the above: `PositionsAreClosed` and
  `HashesTell`. The caches with a guard are not among the first ones, for the reason
  given above. Neither is the LRU list: its game sorts its piles
  (`skip_pile_ordering` is false) and lists its moves in another order, so that its
  trace differs from the first line on (`search_trace_agreement_test.cpp:19-24`,
  issue 20 of `docs/known-issues.md`), while both searches of `TraceAgreement` play one game.

`MainProofs` proves, for any command lines, files, rules and moment of the
signal, `ReportsAreRight` (`ReportIsRight` of the run `main`: SOLVED only of what can
be won, and UNSOLVABLE, to a user who did not ask for one streamliner and whose plain
search misses nothing, only of what cannot) and
`InputsAreAnswered` (`EachInputAnswered`): a run that ends by itself has answered
each file of its line in order, up to one that is no deal at all, and its exit
status tells of every error. It assumes that a deal that starts solved can be
won and that no file is named like the seed (`DealsAssumption`). `MainInv` adds
what makes the first inductive: the deals left are those of the one task that
was asked for, and a search whose *unsolvable* is believed has no streamliner;
`Names` and `TruthOf` agree by the checks that `parse` made before (`NoErrors`).
`LedgerInv` is the second: what was answered so far and what is left make up
the files of the line, in their order.

`StoresProofs` proves `HashesAreRecomputed`, of `HashDescriptorStore`, for tables and
fields of any size: what an update takes out of the hash is the key of that field alone,
and no other field has it or the one that is put in (`RekeyReplaces`). It needs
the value that `clear` writes to be one that a field may have (`FieldsHaveZero`).

It proves `BytesImplementStore`, the refinement of the packed
engine to the unpacked one, for any fields that fit (`FieldsAssumption`, at most
52 cards and four suits, ranks up to 13, values below 10). `NibbleWritten` says that a
write to half a byte leaves the other half, `HalvesDiffer` that two fields of a
kind do not share a half, `FieldsApart` that a field is what its bytes are; then
each operation has one lemma. Why the foundations may share a byte with the
hole is seen there: a game has one of the two.

`SlotsStayRight` (`SlotsAreRight` of the run `stores`) is about the bytes that a
cache compares: a slot matches the payload of just the state it was written for and
remembers its own depth. One half needs more than that fields are kept apart: the
29 bytes that are compared must hold nothing but the fields, or a state could
miss itself. `Clean` says so (the halves of cards and suits that a game has not,
the bits above the card of the hole); `SlotInv` adds that the slot is clean and
what it was written with, and `FieldsAreAll` reads the bytes back from the fields. The
hash comes from `HashesAreRecomputed`, through the refinement.

It also proves `KeysFinal`, of `HashTables`, for any number of threads, games and columns:
a number is missing or final (`TableInv`), and a thread searches only after all
are final.

Of `MultiplicityCascade` it proves `IncrementalStaysScratch` (`IncrementalIsScratch`),
for any number of ranks, any board on which no card lies twice
(`CascadeAssumption`), each of the three symmetries, and moves, deals and undos in
any order and number: whenever the engine rests, each slot is the one that its
card's place and the other slots give, the payload and the sums are of these
slots, and `children` inverts what lies on what. It is what
`verify_against_scratch` asserts, in debug builds only, after every move.
The bound of twenty rounds is any number here; behind it the model stops, as a debug
build does, so nothing is said of a release build that goes on from there. A
regular move from the waste is no move of the model (see section 5).

The inductive invariant `EngineInv` says why, in the middle of the loops, what is
wrong is not forgotten:

- `CascadeInv`, of the cascade: a card whose slot is not settled lies on a card that is
  still to be looked at (`waiting`) or on one of a class that is dirty, now or for the
  next round; a class that is neither is in order; and a class of no changed
  card has its payload and sum right, which is why `WriteBack` may leave it out.
  Slots are changed in place while classes are sorted by older ones. `SlotGiven` says
  why that is safe: a slot that is news makes its class dirty, and in every class
  that is not, a position by the order last sorted is one by the slots of now
  (`CollapsedIsPosition`).
- `SettleInv`, of the scratch computation: a round that has changed no slot so far has
  found right what it has looked at.
- `GameInv`, of the moves: the descriptors, and those that undoing would lead
  through one after the other (`Chain`), have no two cards on one, and cards only on cards of the
  tableau (`Tree`, `Grounded`), and a list of changes has each card once with only the first laid on
  another (`Fits`), so that making the changes one by one never gives a card
  two children.

Of `FlatCache` it proves for every policy, every hash function, every number of
buckets and any depths: `NoFalseAnswers` (`NoFalsePositive`), `BucketsStayRight`
(`BucketsAreRight`), `EvictionCountIsHonest` (`NothingForgotten`) and
`InsertedStateIsFound` (`InsertedIsFound`). The inductive invariant (`CacheInvariant`) adds that
the second slot is used only after the first, that what a slot holds was given to
the cache in that bucket, and what the counters count; with it each property
follows from one lemma about what `do_replacement` makes of a bucket.

`SolvabilityTableProofs` proves, of `SolvabilityCalc`, for any number of threads and seeds, any resumed
run and any CPU times: `CalcTypes`, `SeedsAreSolvedOnce`, `SeedsAreKept`,
`PrintedVerdicts` and `CountsAreRight`: what the run `calc`
checks of `SolvabilityCalc`, and that every line is counted on top of the counts
that a resumed run starts from. Assumed
(`CalcAssumption`): at least one thread, as many seeds to resume as threads, and
budgets, CPU times and resumed counts that are natural numbers. `OncePerSeed` is not
inductive: a thread that fetches could take a seed that a thread not yet started
is to resume, or one already printed. `CalcInv` speaks of the seeds that threads
*hold*, those that wait for a thread to start included (`HeldOnce`): they lie below
`current_seed`, as do the printed ones (`RowsOnce`), and no two are equal. It adds
that a thread with a result has one of its seed (`SearchesBelow`,
`FinalIsRight`). `SeedsKept` carries all of this through the steps that take no
seed and print no line. `BudgetOfOneThread` is the other side of the finding
`calc_shared_clock`: with one thread a search that times out before its wall deadline has used up its own
budget (`ClockInv`: what the process clock gained since the search began is its own work).

Of the table it proves `LinesStayRight` (`LinesAreRight` of the run
`calc`) for any number of threads and seeds and any options: the lines have the
same cells, in the order of the names of the header, the last cells of the lines add
up to the counts, and each search had the policy that the dispatch of a single
deal gives it. (The header of smart mode has two cells that no line has, an empty one at
its beginning and the seed a second time; `Named` takes them out before it compares, so nothing
is said of the column that a cell is printed in.) The lines are not inductive by themselves: a line is put together
of two optionals that a thread fills one search at a time, possibly long before it has
the lock. `TableInv` says which results a thread may have between its searches
(`ThreadResults`), so that the one that is counted is the last cell
(`RightResults`), and keeps `CalcInv` by `TableIsCalc`, which maps each
step to one of `SolvabilityCalc`. The rest is about the table alone: a line is joined of lists of
known lengths (`IsJoin`), and its cells are compared place by place.

`BenchmarkProofs` proves two of the promises of a benchmark for any rules, options,
files and costs of the searches. `MeasuredAsSolved` (`MeasuresWhatIsSolved`): the
dispatches of `benchmark.cpp` are lists that are tried in order, `PolicyOf` is the
nested conditions of `main.cpp`; `FirstIs` says what a list yields, and the two
agree whatever the rules are (`DealIsMeasuredAsSolved`, and
`SeedIsMeasuredAsSolved` for the list that begins with `force_lru`). `PolicyInv`
adds which of the two loops is running. `SeedsAreReported`
(`EachSeedIsMeasured`, a part of `ReportTellsTheSamples`): what is printed has
every seed once, in order, with all samples after the warm-up. `SeedsInv` says
that the samples lag behind the searches by the warm-up (`SkipsWarmUp`), and
that a seed is left only with all its iterations, of which there may be none.
Assumed (`RequestsAssumption`): the ends of the range and the iterations are
integers, as the options that `program_options` reads are.

Only model-checked:

- liveness (`Termination`, `Completion`), which the prover has no rules for;
- the games and their rules (`VerdictIsRight`, `StoreIsRight` and the other
  properties of `games`): what their operators compute is recursion over cards,
  and `Descriptors` declares recursive operators;
- what is said of a whole trace, document, picture or column by a fold over it
  (`DealIsReadBack`, `PlayIsKept`, `EditIsRead`, `LineIsUnderstood`, the aggregates and the items of
  `ReportTellsTheSamples`): induction over data;
- that alike cards share slots (`AlikeShareSlots`): what lies under a card is read down
  its whole pile, by a recursive operator, and the proof is an induction over piles;
- that the scratch computation and the cascade end;
- `BudgetIsOwnWork` for two threads, where it does not hold.

## 5. Where code and documents disagree

Three disagreements have runs of their own:

- **East Haven** (`east_haven`). `get_stock_to_all_tableau_move`
  (`game_state.legal_moves.cpp:255`) gives a deal to all piles the destination 0. In
  a game without a hole that is the foundation of clubs, and `get_legal_moves` does
  not take back the card that the last move put on a foundation. After a deal, no
  club comes back. A deal that can be won is answered *unsolvable*.
- **Shared clock** (`calc_shared_clock`). The CPU clock of the process measures the
  work of all threads (`solver.cpp:98`); the comment says that the solver is
  single-threaded.
- **Payload of an accordion** (`accordion_payload`). `make_accordion_move` moves its
  cards with `make_built_group_move` (`game_state.cpp:1293`), which describes the lowest
  card by the card it comes to lie on; the piles of an accordion are no tableau
  piles, so that a recomputation leaves every card as it started. The assertion of
  debug builds fails, as issue 7 of `docs/known-issues.md` says. Verdicts do not
  suffer: the cache compares the predecessors, which `StoreIsRight` and `PlayIsKept`
  check; the flat descriptors of an accordion are left to this run.

The others were met while the modules were written, and are kept out of the
inputs of the passing runs, or are modelled there as the code has them:

- **Complete piles.** The parser reads `"complete piles"` (`rules_parser.cpp:286`), the
  schema and the presets of Spider say `"only complete pile moves"`. The rule is never
  set. (`games` checks the rule itself in a game that sets it directly.)
- **Accordion to the right.** A move to the next pile on the right marks the card it
  buries as final and then gives it a predecessor again (`game_state.cpp:1250`). No
  preset has such moves; the schema allows them.
- **Undo assertion.** When the stored depth saturates (65535), a child can push its
  parent into the second slot behind an empty guard: the assertion of `solver.cpp:297`
  that the parent is in the cache fails although nothing was evicted. The depths of
  `solver_lru` and `agreement` stay below saturation.
- **Lucas from a file.** `parse_foundations` (`deal_parser.cpp:315`) puts each card of the
  section on the foundation of its suit. A game of two decks with filled foundations
  gets both aces on one.
- **Fortune's Favor under multiplicity.** A regular move from the waste leaves the
  descriptor of the card below it as it was (`game_state.cpp:520`). The comment of the
  engine promises that incremental is from-scratch.
- **Score of timeouts, nodes per second.** The columns of a benchmark are sorted each by
  itself before rows are combined (`benchmark.cpp:333`, `:347`).
- **Twenty rounds.** The scratch computation of multiplicity slots settles one level of
  alike piles a round, and stops after twenty (`multiplicity_descriptor_engine.h:492`).
- **Break at 0.** The operation is counted before it is compared (`search_trace.cpp:133`).
- **Header of a smart run.** It has two cells more than a line (`solver.cpp:409`): one
  before the seed, and the seed again. `LinesAreRight` compares the others.
- **Seeds in progress.** `solvability_calc` keeps the set (`:95`, `:121`) and prints it
  nowhere; a user who resumes a run must have noted the seeds himself.
- **`--force-lru` of a solvability run.** `solve_seed` is not given it
  (`solvability_calc.cpp:182`); `SearchedAsAsked` compares with a single deal
  without it.
- **A solution of one move.** The counter is 1 after one descent, and moves are printed
  if it is more than 1 (`main.cpp:116`): of such a deal only the deal itself is printed.
  `SolutionIsAPlay` excepts that case.
- **Text for `--trace-find-hash`.** `stoull` throws outside of the `try`
  (`command_line_helper.cpp:274`).
- **`--cores -1`.** `3 + cores` goes round, and a list of two numbers is taken for one to
  resume from (`command_line_helper.cpp:297`).

## 6. Conventions and abstractions

Suits are 0..3 in the order of the code, piles are sequences with the top card
first, and a pile reference is a number, as in `game_state`. The order in which
moves are generated is kept, because the search takes the last. A hash is an
operator of the model, so that collisions can be chosen. `make_move` computes the
descriptors it changes, one at a time, as the code does; the model also defines
them from scratch, and the two are compared. In `Descriptors` the cascade by which
`multiplicity_descriptor_engine::incremental_update` renames slots is represented
by its fixpoint (`Settled`); `MultiplicityCascade` has the cascade itself. In `Deal`
a shuffled deck is an order that the run gives. A hash kept by
exclusive or is the set of the keys in it, a sum of random numbers the bag of
their slots, a document a function from settings or sections to values, a text
of a card the card, a picture rows of cells. Layout, logging and wording are
left out. Memory is read as last written, in the order of the program, by
every thread.

## 7. Not modelled

- *Binomial intervals* (`binomial_ci`): floating-point statistics, printed only.
- *Platform memory* (`mmap`, huge pages, the size of a slot in bytes): calls of
  the operating system. What a cache does when memory runs out is in `SolverCache`.
- *The numbers of the random tables*: that two of them differ is assumed; runs
  with collisions choose them.
- *The shuffle* (`gen_shuffled_deck`) and the random generator: a deal starts from any
  order that a run names.
- *Texts*: the reader of JSON, Boost's own messages, the move in words, the debug
  log. Nothing reads them back.
- *Vendored code* (`lib/`: rapidjson, googletest), generated build files, and the
  Python scripts around the program.
- *The constructor of a game state that only tests use.*

Not listed as hazards, because no document says what should happen: preconditions of
the caller (no cores, a bitmap of less than a byte), undefined accesses whose value is
not used, byte casts of counts above 255 that a game then divides by, and exceptions
that end the process before anything is solved (`stoi` of a base card or a move of an
accordion, past the handler of `gen_rules`). The modules follow the code there (`Byte` and
`Escapes` in `RulesParser`, `RulesRefused` in `Benchmark`, `GenRules` and `Finish` in `Main`).

## 8. Plan

All of what was planned is done: the search, the caches and the solver as a
refinement; the games against a rulebook; the calculation; the rules, `main`
and the command line; deals as documents and all presets played; the cascade
slot by slot; what is printed, traced and measured; and the proofs above.

What could follow: a run of Fortune's Favor with its whole search under
multiplicity once the descriptor of the waste is kept up.
