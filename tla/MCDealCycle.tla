---------------------------- MODULE MCDealCycle ----------------------------
(***************************************************************************)
(* DealCycle for all presets with full decks, and for small presets with   *)
(* edited documents.                                                       *)
(***************************************************************************)
EXTENDS DealCycle

(* Cards sorted by a multiple of a square of their number, modulo a prime. *)
MCDeck(r, k) ==
  LET n == 4 * r.max_rank * Decks(r)
      At(i) == ((k + 1) * (i * i + 3 * i + 5)) % 211
      order == SortSeq([i \in 1..n |-> i],
                       LAMBDA i, j : At(i) < At(j) \/ (At(i) = At(j) /\ i < j))
  IN [p \in 1..n |-> Card(order[p] % 4, ((order[p] \div 4) % r.max_rank) + 1)]

Auto == [streamliner |-> "none", force_lru |-> FALSE, cache_type |-> "auto"]
MCOptions == {Auto, [Auto EXCEPT !.force_lru = TRUE], [Auto EXCEPT !.cache_type = "multiplicity"]}

(* All presets but the two whose disagreements README names.               *)
MCGamesPlayed == DOMAIN Presets!PresetDocuments \ {"lucas", "fortunes-favor"}

(* The small presets are run in both builds, and things are done to their  *)
(* documents.                                                              *)
SmallGames == {"-test-free-cell", "-test-black-hole", "-test-fortunes-favor", "-test-flower-garden",
               "-test-canfield", "-test-spider", "-test-klondike", "-test-gaps", "-test-accordion"}

MCBuilds(g) == IF g \in SmallGames THEN {TRUE, FALSE} ELSE {TRUE}

MCEdits(g) ==
  IF g \notin SmallGames THEN {}
  ELSE [is : {"drop section", "drop last", "blank", "add", "new section"}, name : Sections]
         \union [is : {"rank"}, name : Sections, rank : {0, 14}]
         \union [is : {"new section"}, name : {"holes"}]
=============================================================================
