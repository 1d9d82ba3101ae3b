-------------------------- MODULE SolvabilityCalc --------------------------
(***************************************************************************)
(* solvability_calc: threads that solve the deals of the seeds up to       *)
(* seed_count, each taking the next from an atomic counter, and put their  *)
(* results together under a mutex.  A run may resume one that was stopped: *)
(* the user gives the seeds that were in progress.  In smart mode a seed   *)
(* is first searched with the streamliners and a tenth of the budget.      *)
(*                                                                         *)
(* A search is reduced to the CPU time its deal needs and the verdict that *)
(* waits at its end; a tick of the process clock is one unit of work of    *)
(* one thread.                                                             *)
(***************************************************************************)
EXTENDS Integers, Sequences, FiniteSets

CONSTANTS
  Cores,           (* Threads are 0..(Cores - 1).                          *)
  SeedCount,       (* Seeds are below it.                                  *)
  Resumes,         (* The sets of seeds in progress to start from.         *)
  ResumeCounts,    (* The results counted before; none of memory limits.   *)
  Smart,           (* stream_opt is SMART.                                 *)
  Timeout,         (* The CPU budget of a search.                          *)
  SmartTimeout,    (* That of a search with streamliners: timeout / 10.    *)
  Solvable,        (* The seeds whose deal can be solved.                  *)
  Confused,        (* Those of whose states the cache that was asked for   *)
                   (* may take a new one for another: a bitmap or the      *)
                   (* hash-only cache, bitmap_cache.h:33.                  *)
  Works(_),        (* The CPU times that a deal may need.                  *)
  MaxCpu           (* Bound: the process clock.                            *)

ASSUME CalcAssumption ==
  /\ Cores \in Nat \ {0} /\ SeedCount \in Nat /\ Smart \in BOOLEAN
  /\ Timeout \in Nat /\ SmartTimeout \in Nat
  /\ ResumeCounts \in [{"SOLVED", "UNSOLVABLE", "TIMEOUT", "MEM_LIMIT"} -> Nat]
  /\ \A seed \in 0..(SeedCount - 1) : Works(seed) \subseteq Nat
  /\ \A r \in Resumes : r \subseteq Nat /\ IsFiniteSet(r) /\ Cardinality(r) = Cores

Types == {"SOLVED", "UNSOLVABLE", "TIMEOUT", "MEM_LIMIT", "TERMINATED"}

Thread == 0..(Cores - 1)
NoSeed == -1

VARIABLES
  resume_seeds, current_seed, seeds_in_progress, seed_res,
                                  (* Members of solvability_calc.          *)
  sigint,                         (* The flag of the signal handler.       *)
  cpu,                            (* The clock of the process.             *)
  pc, my_seed, streamlined, work, spent, start, late, final,
                                  (* Locals of each thread: the search is  *)
                                  (* streamlined; it needs work, has spent *)
                                  (* its own, and began at start; its wall *)
                                  (* deadline has passed.                  *)
  rows,                           (* The lines printed: seed and type.     *)
  first_seed                      (* History: current_seed at the start.   *)

shared == <<resume_seeds, current_seed, seeds_in_progress, seed_res, sigint,
            cpu, rows, first_seed>>
locals == <<pc, my_seed, streamlined, work, spent, start, late, final>>
vars == <<shared, locals>>

-----------------------------------------------------------------------------
Ascending(seeds) ==
  {s \in [1..Cores -> seeds] : \A i, j \in 1..Cores : i < j => s[i] < s[j]}

(* current_seed is the last of the sorted seeds.                           *)
Init ==
  /\ \E r \in Resumes : \E sorted \in Ascending(r) :
       /\ resume_seeds = SubSeq(sorted, 1, Cores - 1)
       /\ current_seed = sorted[Cores]
  /\ first_seed = current_seed
  /\ seeds_in_progress = {}
  /\ seed_res = ResumeCounts
  /\ sigint = FALSE /\ cpu = 0 /\ rows = <<>>
  /\ pc = [t \in Thread |-> "start"]
  /\ my_seed = [t \in Thread |-> NoSeed]
  /\ streamlined = [t \in Thread |-> FALSE]
  /\ work = [t \in Thread |-> 0] /\ spent = [t \in Thread |-> 0]
  /\ start = [t \in Thread |-> 0] /\ late = [t \in Thread |-> FALSE]
  /\ final = [t \in Thread |-> "NONE"]

Goto(t, label) == pc' = [pc EXCEPT ![t] = label]

(* current_seed++                                                          *)
FetchNext(t) ==
  /\ my_seed' = [my_seed EXCEPT ![t] = current_seed]
  /\ current_seed' = current_seed + 1

(* The first seed of a thread is one of those in progress, if any is left. *)
Start(t) ==
  /\ pc[t] = "start" /\ Goto(t, "loop")
  /\ IF Len(resume_seeds) > t
     THEN /\ my_seed' = [my_seed EXCEPT ![t] = resume_seeds[t + 1]]
          /\ UNCHANGED current_seed
     ELSE FetchNext(t)
  /\ UNCHANGED <<resume_seeds, seeds_in_progress, seed_res, sigint, cpu, rows,
                 first_seed, streamlined, work, spent, start, late,
                 final>>

Finish(t) ==
  /\ pc[t] = "loop" /\ my_seed[t] >= SeedCount
  /\ Goto(t, "done")
  /\ UNCHANGED <<shared, my_seed, streamlined, work, spent, start, late, final>>

(* solver_impl::run begins.                                                *)
BeginSearch(t, smart) ==
  /\ Goto(t, "search")
  /\ streamlined' = [streamlined EXCEPT ![t] = smart]
  /\ \E w \in Works(my_seed[t]) : work' = [work EXCEPT ![t] = w]
  /\ spent' = [spent EXCEPT ![t] = 0]
  /\ start' = [start EXCEPT ![t] = cpu]
  /\ late' = [late EXCEPT ![t] = FALSE]

Insert(t) ==
  /\ pc[t] = "loop" /\ my_seed[t] < SeedCount
  /\ seeds_in_progress' = seeds_in_progress \union {my_seed[t]}
  /\ BeginSearch(t, Smart)
  /\ UNCHANGED <<resume_seeds, current_seed, seed_res, sigint, cpu, rows,
                 first_seed, my_seed, final>>

Budget(t) == IF streamlined[t] THEN SmartTimeout ELSE Timeout

OverBudget(t) == cpu - start[t] >= Budget(t)
AtEnd(t) == spent[t] = work[t]

(* The loop of dfs, between two looks at its budgets.                      *)
Work(t) ==
  /\ pc[t] = "search" /\ ~ AtEnd(t) /\ ~ OverBudget(t) /\ ~ late[t] /\ ~ sigint
  /\ cpu < MaxCpu
  /\ cpu' = cpu + 1
  /\ spent' = [spent EXCEPT ![t] = @ + 1]
  /\ UNCHANGED <<resume_seeds, current_seed, seeds_in_progress, seed_res,
                 sigint, rows, first_seed, pc, my_seed, streamlined, work,
                 start, late, final>>

(* The wall clock passes ten times the budget, which it may do at any time *)
(* if the process is not scheduled; what dfs looks at first decides.       *)
Deadline(t) ==
  /\ pc[t] = "search" /\ ~ late[t] /\ ~ AtEnd(t) /\ ~ OverBudget(t)
  /\ late' = [late EXCEPT ![t] = TRUE]
  /\ UNCHANGED <<shared, pc, my_seed, streamlined, work, spent, start, final>>

(* A search with the streamliners, or with a cache that confuses states,   *)
(* can miss the solutions of a deal.                                       *)
MayMiss(t) == streamlined[t] \/ my_seed[t] \in Confused

(* How the search may end now.  Any search can exhaust the memory.         *)
Outcomes(t) ==
  IF AtEnd(t)
  THEN {"MEM_LIMIT"}
         \union (IF my_seed[t] \in Solvable THEN {"SOLVED"} ELSE {"UNSOLVABLE"})
         \union (IF MayMiss(t) THEN {"UNSOLVABLE"} ELSE {})
  ELSE IF OverBudget(t) \/ late[t] THEN {"TIMEOUT"}
  ELSE IF sigint THEN {"TERMINATED"}
  ELSE {}

(* Mutants: only a timeout is searched again; a second search, too.        *)
RerunTimeout(t, type) == streamlined[t] /\ type = "TIMEOUT"
RerunAlways(t, type) == type \in {"UNSOLVABLE", "TIMEOUT"}

SearchesAgain(t, type) ==
  streamlined[t] /\ type \in {"UNSOLVABLE", "TIMEOUT"}

EndSearch(t) ==
  /\ pc[t] = "search"
  /\ \E type \in Outcomes(t) :
       IF SearchesAgain(t, type)
       THEN BeginSearch(t, FALSE) /\ UNCHANGED final
       ELSE /\ Goto(t, "record")
            /\ final' = [final EXCEPT ![t] = type]
            /\ UNCHANGED <<streamlined, work, spent, start, late>>
  /\ UNCHANGED <<shared, my_seed>>

(* add_result: a search that was terminated is not counted.                *)
Counted(type) ==
  IF type = "TERMINATED" THEN seed_res ELSE [seed_res EXCEPT ![type] = @ + 1]

(* Whether the search has ended with some of its CPU budget left, and      *)
(* before its wall deadline.                                               *)
Within(t) == ~ streamlined[t] /\ spent[t] < Timeout /\ ~ late[t]

Record(t) ==
  /\ pc[t] = "record" /\ Goto(t, "fetch")
  /\ seeds_in_progress' = seeds_in_progress \ {my_seed[t]}
  /\ seed_res' = Counted(final[t])
  /\ rows' = Append(rows, [seed |-> my_seed[t], type |-> final[t], within |-> Within(t)])
  /\ UNCHANGED <<resume_seeds, current_seed, sigint, cpu, first_seed, my_seed,
                 streamlined, work, spent, start, late, final>>

(* Mutants: the counter is read and written in two steps, which another    *)
(* thread may come between; it is put up before it is read.                *)
FetchInTwo(t) ==
  /\ pc[t] = "fetch" /\ Goto(t, "loop")
  /\ my_seed' = [my_seed EXCEPT ![t] = current_seed]
  /\ current_seed' \in {current_seed, current_seed + 1}
  /\ UNCHANGED <<resume_seeds, seeds_in_progress, seed_res, sigint, cpu, rows,
                 first_seed, streamlined, work, spent, start, late,
                 final>>
FetchAfter(t) ==
  /\ pc[t] = "fetch" /\ Goto(t, "loop")
  /\ my_seed' = [my_seed EXCEPT ![t] = current_seed + 1]
  /\ current_seed' = current_seed + 1
  /\ UNCHANGED <<resume_seeds, seeds_in_progress, seed_res, sigint, cpu, rows,
                 first_seed, streamlined, work, spent, start, late,
                 final>>

Fetch(t) ==
  /\ pc[t] = "fetch" /\ Goto(t, "loop")
  /\ FetchNext(t)
  /\ UNCHANGED <<resume_seeds, seeds_in_progress, seed_res, sigint, cpu, rows,
                 first_seed, streamlined, work, spent, start, late,
                 final>>

(* The handler is installed by the first search.                           *)
Signal ==
  /\ ~ sigint /\ \E t \in Thread : pc[t] \notin {"start", "loop"}
  /\ sigint' = TRUE
  /\ UNCHANGED <<resume_seeds, current_seed, seeds_in_progress, seed_res, cpu,
                 rows, first_seed, locals>>

Step(t) == \/ Start(t) \/ Finish(t) \/ Insert(t) \/ Work(t) \/ EndSearch(t)
           \/ Record(t) \/ Fetch(t)

Next == (\E t \in Thread : Step(t) \/ Deadline(t)) \/ Signal

Spec == Init /\ [][Next]_vars

(* Threads are scheduled: each goes on as long as it can.                  *)
FairSpec == Spec /\ \A t \in Thread : WF_vars(Step(t))

-----------------------------------------------------------------------------
Reported == {rows[i].seed : i \in 1..Len(rows)}

(* A thread is at a seed from taking it until its line is printed.         *)
AtSeed(t) == pc[t] \in {"loop", "search", "record"}

TypeOK ==
  /\ resume_seeds \in Seq(Nat) /\ current_seed \in Nat /\ first_seed \in Nat
  /\ seeds_in_progress \subseteq Nat
  /\ seed_res \in [Types \ {"TERMINATED"} -> Nat]
  /\ sigint \in BOOLEAN /\ cpu \in Nat
  /\ rows \in Seq([seed : Nat, type : Types, within : BOOLEAN])
  /\ pc \in [Thread -> {"start", "loop", "search", "record", "fetch", "done"}]
  /\ my_seed \in [Thread -> Nat \union {NoSeed}]
  /\ streamlined \in [Thread -> BOOLEAN]
  /\ work \in [Thread -> Nat] /\ spent \in [Thread -> Nat]
  /\ start \in [Thread -> Nat] /\ late \in [Thread -> BOOLEAN]
  /\ final \in [Thread -> Types \union {"NONE"}]

(* No seed is solved twice: no two threads are at one seed, and none is at *)
(* a seed whose line is printed.                                           *)
OncePerSeed ==
  /\ \A i, j \in 1..Len(rows) : rows[i].seed = rows[j].seed => i = j
  /\ \A t \in Thread : AtSeed(t) =>
       /\ my_seed[t] \notin Reported
       /\ \A u \in Thread : AtSeed(u) /\ my_seed[u] = my_seed[t] => u = t

(* No seed is dropped: each that was handed out is printed, at a thread,   *)
(* beyond seed_count, or waits for the thread that resumes it.             *)
HandedOut ==
  {resume_seeds[i] : i \in 1..Len(resume_seeds)}
    \union (first_seed..(current_seed - 1))

NoSeedDropped ==
  \A s \in HandedOut :
    \/ s \in Reported \/ s >= SeedCount
    \/ \E t \in Thread : AtSeed(t) /\ my_seed[t] = s
    \/ \E t \in Thread : pc[t] = "start" /\ t < Len(resume_seeds)
                        /\ resume_seeds[t + 1] = s

(* The counters go up with the lines, but for the terminated searches.     *)
CountsAddUp ==
  \A type \in Types \ {"TERMINATED"} :
    seed_res[type] =
      ResumeCounts[type] + Cardinality({i \in 1..Len(rows) : rows[i].type = type})

(* A deal is reported unsolvable only when it is, after a search without   *)
(* streamliners, which could have missed its solutions; but for the deals  *)
(* of which the cache that was asked for confuses states.                  *)
VerdictsAreRight ==
  \A i \in 1..Len(rows) :
    /\ rows[i].type = "SOLVED" => rows[i].seed \in Solvable
    /\ rows[i].type = "UNSOLVABLE" => rows[i].seed \notin Solvable \ Confused

(* process_cpu_ns is the work done by the search: a search that times out  *)
(* before its wall deadline has used up its budget itself.                 *)
BudgetIsOwnWork ==
  \A i \in 1..Len(rows) : rows[i].type = "TIMEOUT" => ~ rows[i].within

(* All threads come to their end, with a signal or without.                *)
Completion == <>(\A t \in Thread : pc[t] = "done")
=============================================================================
