------------------------------ MODULE SolRules ------------------------------
(***************************************************************************)
(* sol_rules: what the rules of a game say, the rules that a rules file    *)
(* starts from, and which policy searches a game.                          *)
(***************************************************************************)
LOCAL INSTANCE Naturals

(* The preset "default", as the parser reads it.  A base or a hole of 0 is *)
(* drawn at random.                                                        *)
DefaultRules ==
  [tableau_pile_count |-> 8, build_pol |-> "any-suit", spaces_pol |-> "any",
   diagonal_deal |-> FALSE, move_built_group |-> "no", built_group_pol |-> "any-suit",
   face_up |-> "all",
   foundations_present |-> TRUE, foundations_init_cards |-> "none",
   foundations_base |-> 1, foundations_removable |-> FALSE,
   foundations_only_comp_piles |-> FALSE,
   hole |-> FALSE, hole_base |-> 1, hole_build_loops |-> TRUE,
   cells |-> 0, cells_pre_filled |-> 0,
   stock_size |-> 0, stock_deal_t |-> "waste", stock_deal_count |-> 1, stock_redeal |-> FALSE,
   reserve_size |-> 0, reserve_stacked |-> FALSE,
   accordion_size |-> 0, accordion_moves |-> <<>>, accordion_pol |-> {},
   sequence_count |-> 0, sequence_direction |-> "L", sequence_build_pol |-> "same-suit",
   sequence_fixed_suit |-> FALSE,
   max_rank |-> 13, two_decks |-> FALSE]

-----------------------------------------------------------------------------
SingleLine(r) == ~ r.two_decks /\ r.sequence_count = 0 /\ r.accordion_size = 0

(* use_new_cache, use_predecessor_cache; use_multiplicity_cache and        *)
(* use_bitmap_cache are SingleLine.                                        *)
UseNewCache(r, suit_sym) ==
  /\ ~ suit_sym /\ SingleLine(r)
  /\ r.stock_size = 0 \/ r.stock_deal_t # "tableau piles"

UsePredecessorCache(r) == r.accordion_size > 0

SuitSymmetryOn(streamliner) == streamliner \in {"suit-symmetry", "both"}
AutoFoundationsOn(streamliner) == streamliner \in {"auto-foundations", "both"}

(* dispatch_solve                                                          *)
PolicyOf(r, streamliner, force_lru, cache_type) ==
  LET suit_sym == SuitSymmetryOn(streamliner) \/ r.hole
  IN CASE force_lru -> "LRU"
       [] ~ force_lru /\ cache_type = "bitmap" /\ SingleLine(r) -> "BITMAP"
       [] ~ force_lru /\ cache_type = "multiplicity" /\ SingleLine(r) -> "MULTIPLICITY"
       [] ~ force_lru /\ cache_type = "hash-only" /\ UseNewCache(r, suit_sym) -> "HASH_ONLY"
       [] OTHER -> IF UsePredecessorCache(r) THEN "PREDECESSOR"
                   ELSE IF UseNewCache(r, suit_sym) THEN "FLAT"
                   ELSE IF SingleLine(r) THEN "MULTIPLICITY" ELSE "LRU"

(* The rules with what the search makes of them.                           *)
Searched(r, streamliner, force_lru, cache_type) ==
  [f \in DOMAIN r \union {"policy", "suit_symmetry", "auto_foundations"} |->
     CASE f = "policy" -> PolicyOf(r, streamliner, force_lru, cache_type)
       [] f = "suit_symmetry" ->
            r.hole \/ SuitSymmetryOn(streamliner)
       [] f = "auto_foundations" -> AutoFoundationsOn(streamliner)
       [] OTHER -> r[f]]
=============================================================================
