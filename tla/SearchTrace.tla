----------------------------- MODULE SearchTrace -----------------------------
(***************************************************************************)
(* trace_writer: what a build with SOLVITAIRE_SEARCH_TRACE writes of a     *)
(* search, event by event, and the places where it halts the program to    *)
(* show the state.  Each turn of the solver writes its events in the order *)
(* of the code; a turn in which the program halts writes only the first of *)
(* them, and the variables of the solver mean nothing after it.            *)
(***************************************************************************)
EXTENDS Solver, SequencesExt

CONSTANTS
  Requests         (* --trace, --trace-break-at and --trace-find-hash.     *)

(* A break is asked for at one operation at most.                          *)
ASSUME RequestsAssumption ==
  \A r \in Requests :
    /\ r.enabled \in BOOLEAN
    /\ r.break_at \subseteq Nat /\ \A m, n \in r.break_at : m = n

VARIABLES
  request,         (* enabled_, break_at_ (a set of at most one), find_hash_. *)
  trace,           (* The events, of which op_ is the number.              *)
  halted,          (* "no", or why the program halted: "break" or "found". *)
  shown            (* The state that was printed then.                     *)

tracing == <<request, trace, halted, shown>>
traced_vars == <<vars, tracing>>

(* An event, with the state that the program has when it writes it.        *)
Event(is, mv, n, at) == [is |-> is, mv |-> mv, n |-> n, at |-> at]
Plain(is, at) == Event(is, NullMove, 0, at)

-----------------------------------------------------------------------------
(* The events of a turn.                                                   *)
Down(m, to, depth) == <<Event("MOVE", m, 0, to), Event("DEPTH", NullMove, depth, to)>>

(* Mutant: the move is written before it is taken back.                    *)
UpBefore(i) ==
  <<Event("UNDO", frontier[i + 1].mv, 0, Undone[i + 1]),
    Event("DEPTH", NullMove, res.depth - (Len(frontier) - i), Undone[i])>>

UpTo(i) ==
  <<Event("UNDO", frontier[i + 1].mv, 0, Undone[i]),
    Event("DEPTH", NullMove, res.depth - (Len(frontier) - i), Undone[i])>>

(* Back to the target, two events for each node on the way, and down from  *)
(* there, or to the end of the search.                                     *)
Ups ==
  [k \in 1..(2 * (Len(frontier) - Target)) |->
     UpTo(Len(frontier) - (k + 1) \div 2)[IF k % 2 = 1 THEN 1 ELSE 2]]

Back ==
  LET m == Last(frontier[Target].child_moves)
  IN Ups \o (IF OpenNodes = {} THEN <<Plain("UNSOLV", StateAt)>>
             ELSE Down(m, Apply(StateAt, m), res.depth - (Len(frontier) - Target) + 1))

(* The cache evicts within its insertion.                                  *)
Asked ==
  <<Plain("QUERY", state)>>
    \o (IF StatesRemoved(Inserted.cache) > StatesRemoved(cache)
        THEN <<Plain("EVICT", state)>> ELSE <<>>)

Missed == <<Plain("MISS", state), Plain("INSERT", state), Event("LEGAL", NullMove, Len(Moves), state)>>

-----------------------------------------------------------------------------
(* check_break, after an event, and check_hash_break, after the first      *)
(* queried events of a turn whose state is new: the counter is up by one   *)
(* when check_break looks at it, and does not move without a file.         *)
BreaksIn(events) ==
  {n \in DOMAIN events : request.enabled /\ Len(trace) + n \in request.break_at}

Finds(fresh) == fresh /\ ComputesHash /\ request.find_hash # 0 /\ Hash(Key(state)) = request.find_hash

Writes(events) == trace' = IF request.enabled THEN trace \o events ELSE trace

Emits(events, queried, fresh) ==
  LET before == IF Finds(fresh) THEN SubSeq(events, 1, queried) ELSE events
  IN CASE BreaksIn(before) # {} ->
            \E n \in BreaksIn(before) :
              /\ Writes(SubSeq(events, 1, n)) /\ halted' = "break" /\ shown' = {events[n].at}
       [] BreaksIn(before) = {} /\ Finds(fresh) ->
            Writes(before) /\ halted' = "found" /\ shown' = {state}
       [] OTHER -> Writes(events) /\ UNCHANGED <<halted, shown>>

Unhalted == halted = "no" /\ UNCHANGED request

TracedDominate ==
  LET m == DominanceMove(state)
  IN Unhalted /\ Dominate /\ Emits(Down(m, Apply(state, m), res.depth + 1), 0, FALSE)

TracedExpand ==
  LET m == Last(Moves)
  IN /\ Unhalted /\ Expand
     /\ Emits(Asked \o Missed \o Down(m, Apply(state, m), res.depth + 1), Len(Asked), TRUE)

TracedDeadEnd == Unhalted /\ DeadEnd /\ Emits(Asked \o Missed \o Back, Len(Asked), TRUE)
TracedDuplicate == Unhalted /\ Duplicate /\ Emits(Asked \o <<Plain("HIT", state)>> \o Back, Len(Asked), FALSE)

(* The exception of the cache leaves no event but the query.               *)
TracedMemLimit == Unhalted /\ MemLimit /\ Emits(<<Plain("QUERY", state)>>, 0, FALSE)

TracedEnd ==
  /\ Unhalted
  /\ \/ TimeOut /\ Emits(<<Plain("TIMEOUT", state)>>, 0, FALSE)
     \/ Terminate /\ Emits(<<Plain("TERMINATED", state)>>, 0, FALSE)
     \/ Solve /\ Emits(<<Plain("SOLVED", state)>>, 0, FALSE)

TracedEnvironment == halted = "no" /\ (Clock \/ Signal) /\ UNCHANGED tracing

TracedInit ==
  /\ Init
  /\ request \in Requests /\ trace = <<>> /\ halted = "no" /\ shown = {}

TracedDfs ==
  \/ TracedDominate \/ TracedExpand \/ TracedDeadEnd \/ TracedDuplicate
  \/ TracedMemLimit \/ TracedEnd

TracedNext == TracedDfs \/ TracedEnvironment

TracedSpec == TracedInit /\ [][TracedNext]_traced_vars

(* The search runs on its own thread: the loop turns as long as it can.    *)
FairSpec == TracedSpec /\ WF_traced_vars(TracedDfs)

-----------------------------------------------------------------------------
(* Who replays the moves of a trace from the deal has before each event    *)
(* the state and the depth that the search had: the state that a break     *)
(* shows, and in the end that of the search.                               *)
Replayed(at, event) ==
  CASE event.is = "MOVE" -> [state |-> Apply(at.state, event.mv), depth |-> at.depth + 1, right |-> at.right]
    [] event.is = "UNDO" -> [state |-> Undo(at.state, event.mv), depth |-> at.depth - 1, right |-> at.right]
    [] event.is = "DEPTH" -> [at EXCEPT !.right = @ /\ event.n = at.depth /\ event.at = at.state]
    [] OTHER -> [at EXCEPT !.right = @ /\ event.at = at.state]

Replay ==
  LET at[k \in 0..Len(trace)] ==
        IF k = 0 THEN [state |-> init_state, depth |-> 0, right |-> TRUE]
        ELSE Replayed(at[k - 1], trace[k])
  IN at[Len(trace)]

TraceIsReplayed ==
  request.enabled =>
    /\ Replay.right
    /\ halted = "no" => Replay.state = state /\ Replay.depth = res.depth
    /\ halted # "no" => shown = {Replay.state}

(* The counts of the result are those of the events, so that two equal     *)
(* traces are of equal results.                                            *)
Events(is) == Cardinality({k \in DOMAIN trace : trace[k].is = is})
Forced == Cardinality({k \in DOMAIN trace : trace[k].is = "MOVE" /\ trace[k].mv.dominance_move})

ResultIsOfTheTrace ==
  request.enabled /\ halted = "no" =>
    /\ res.backtracks = Events("UNDO") /\ res.dominance_moves = Forced
    /\ res.unique_states_searched = Events("MISS") + Forced
    /\ res.states_searched = Events("MISS") + Events("HIT") + Forced
    /\ res.max_depth = Max({0} \union {trace[k].n : k \in {j \in DOMAIN trace : trace[j].is = "DEPTH"}})
    /\ result # "MEM_LIMIT" => StatesRemoved(cache) = Events("EVICT")

(* A trace tells the search: both of the above.                            *)
TraceTellsTheSearch == TraceIsReplayed /\ ResultIsOfTheTrace

(* A search ends with a verdict, even without a budget and whatever its    *)
(* cache forgets, unless it was asked to halt.                             *)
Termination == <>(result # "NONE" \/ halted # "no")

(* testing-guide.md, of --trace-find-hash: the program halts at the first  *)
(* state with the hash that is recorded as new.                            *)
FoundIsTheFirst ==
  /\ halted = "found" =>
       /\ \A s \in shown : Hash(Key(s)) = request.find_hash
       /\ request.enabled => trace[Len(trace)].is \in {"QUERY", "EVICT"}
  /\ ComputesHash /\ request.find_hash # 0 =>
       \A k \in DOMAIN trace : trace[k].is = "MISS" => Hash(Key(trace[k].at)) # request.find_hash

(* The help of --trace-break-at: the program halts at operation N.  The    *)
(* operations are counted from 1, so that a break at 0 is never met.       *)
BreaksWhereAsked ==
  request.enabled =>
    \A n \in request.break_at \ {0} :
      Len(trace) <= n /\ (halted = "break" => Len(trace) = n)

(* A traced search halts where it was asked to and nowhere else.           *)
HaltsWhereAsked == FoundIsTheFirst /\ BreaksWhereAsked

-----------------------------------------------------------------------------
(* How two traces are compared: line by line, without the states, and as   *)
(* long as neither cache forgot a state nor took one for another.          *)
Line(event) == <<event.is, event.mv, event.n>>

(* A hit on a state that was never missed: the bitmap took it for another. *)
Mistaken(t) ==
  {k \in DOMAIN t :
     /\ t[k].is = "HIT"
     /\ \A j \in 1..k : t[j].is = "MISS" => Key(t[j].at) # Key(t[k].at)}

(* Where a search goes its own way, for its cache or its budgets.          *)
Own(t) == {k \in DOMAIN t : t[k].is \in {"EVICT", "TIMEOUT", "TERMINATED"}}
=============================================================================
