---------------------------- MODULE TraceAgreement ----------------------------
(***************************************************************************)
(* SearchTraceAgreementTest: one deal is searched twice, under two         *)
(* policies with caches of one size, and the traces are compared.  The     *)
(* test compares the flat cache with the hash-only one; the bitmap is      *)
(* searched with here as well.                                             *)
(***************************************************************************)
EXTENDS SearchTrace, Games

VARIABLES
  other,           (* The policy of the other search.                      *)
  state2, frontier2, cache2, res2, iter2, result2, expanded2, trace2

search2 == <<state2, frontier2, cache2, res2, iter2, result2, expanded2, trace2>>

(* The other search has the deal and the budgets of the first.             *)
HashOnly ==
  INSTANCE SearchTrace WITH
    Policy <- "HASH_ONLY", state <- state2, frontier <- frontier2, cache <- cache2,
    res <- res2, iter <- iter2, result <- result2, expanded <- expanded2,
    trace <- trace2

Bitmap ==
  INSTANCE SearchTrace WITH
    Policy <- "BITMAP", state <- state2, frontier <- frontier2, cache <- cache2,
    res <- res2, iter <- iter2, result <- result2, expanded <- expanded2,
    trace <- trace2

AgreementInit ==
  /\ TracedInit
  /\ \/ other = "HASH_ONLY" /\ HashOnly!TracedInit
     \/ other = "BITMAP" /\ Bitmap!TracedInit

(* The second search runs when the first is over, untroubled by signals,   *)
(* and is traced through.                                                  *)
SecondRuns ==
  /\ result # "NONE" /\ ~ late /\ ~ sigint
  /\ request = [enabled |-> TRUE, break_at |-> {}, find_hash |-> 0]

AgreementNext ==
  \/ TracedNext /\ UNCHANGED <<other, search2>>
  \/ /\ SecondRuns
     /\ \/ other = "HASH_ONLY" /\ HashOnly!TracedDfs
        \/ other = "BITMAP" /\ Bitmap!TracedDfs
     /\ UNCHANGED <<search, iter, result, expanded, trace, other>>

AgreementSpec ==
  AgreementInit /\ [][AgreementNext]_<<traced_vars, other, search2>>

-----------------------------------------------------------------------------
(* "HIT/MISS decisions must agree exactly as long as neither cache has     *)
(* evicted anything" (testing-guide.md): the traces are line by line the   *)
(* same up to the first eviction in either, the first budget used up, or   *)
(* the first state that a bitmap took for another.                         *)
AgreeUntilEvict ==
  \A k \in DOMAIN trace \intersect DOMAIN trace2 :
    (Own(trace) \union Own(trace2)
       \union (IF other = "BITMAP" THEN Mistaken(trace2) ELSE {})) \intersect 1..k = {}
    => Line(trace[k]) = Line(trace2[k])

(* Whichever cache a search has, what it counts as unique states are those *)
(* that the cache took and those of the dominance moves; and a solution    *)
(* that it reports is one, though the bitmap confuses states.  It halts    *)
(* where it was asked to.                                                  *)
EachSearchIsSound ==
  /\ HaltsWhereAsked
  /\ UniqueStatesAddUp /\ SolvedIsShown
  /\ other = "HASH_ONLY" => HashOnly!UniqueStatesAddUp /\ HashOnly!SolvedIsShown
  /\ other = "BITMAP" => Bitmap!UniqueStatesAddUp /\ Bitmap!SolvedIsShown

-----------------------------------------------------------------------------
(* The instance that is checked.  No two positions have one hash, the deal *)
(* has a cluster to itself, so that the others drive each other out, two   *)
(* positions share a bit, and position 4 has the hash 0, which a hash-only *)
(* slot cannot hold.                                                       *)
OwnHash(s) == IF s.at = 1 THEN 7 ELSE s.at % 4

(* What the agreement rests on, of the family of games and their hash.     *)
ASSUME GamesAssumption ==
  GameIsSound /\ PositionsAreClosed /\ MovesAreMarked /\ HashesTell

(* Traced through; to an event; to a hash, traced or not.                  *)
AgreementRequests ==
  [enabled : {TRUE}, break_at : {{}, {1}, {8}, {16}}, find_hash : {0}]
    \union [enabled : BOOLEAN, break_at : {{}, {3}}, find_hash : {1, 2}]
=============================================================================
