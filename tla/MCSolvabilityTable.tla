------------------------- MODULE MCSolvabilityTable -------------------------
(***************************************************************************)
(* SolvabilityTable on a few seeds: one that needs no work, one that fits  *)
(* the tenth of the budget, one that just fits the budget if no other      *)
(* thread works beside it; with games that each take to a policy of their  *)
(* own.  The cache confuses states of the second deal.                     *)
(***************************************************************************)
EXTENDS SolvabilityTable

(* The results of the run that was stopped.                                *)
MCResumeCounts == [SOLVED |-> 2, UNSOLVABLE |-> 0, TIMEOUT |-> 1, MEM_LIMIT |-> 0]

(* A solvable deal may be solved when it is dealt.                         *)
MCWorks(seed) == CASE seed = 0 -> {0} [] seed = 1 -> {1} [] OTHER -> {2}

Games ==
  {[DefaultRules EXCEPT !.cells = 4],
   [DefaultRules EXCEPT !.hole = TRUE, !.foundations_present = FALSE],
   [DefaultRules EXCEPT !.two_decks = TRUE],
   [DefaultRules EXCEPT !.accordion_size = 18, !.foundations_present = FALSE],
   [DefaultRules EXCEPT !.stock_size = 24, !.stock_deal_t = "tableau piles"]}
CacheTypes == {"auto", "hash-only", "multiplicity", "bitmap"}

MCOptions == [rules : Games, cache_type : CacheTypes]
=============================================================================
