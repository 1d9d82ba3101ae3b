---------------------------- MODULE PresetGames ----------------------------
(***************************************************************************)
(* sol_preset_types: the documents of the games that have a name, in the   *)
(* format of RulesParser.                                                  *)
(***************************************************************************)
LOCAL INSTANCE Naturals
LOCAL INSTANCE Integers
LOCAL INSTANCE TLC

In(section, settings) == [key \in {section} \X DOMAIN settings |-> settings[key[2]]]

(* What documents say, in words of one setting or of a few that often come *)
(* together.                                                               *)
Piles(n) == <<"tableau piles", "count">> :> n
Build(policy) == <<"tableau piles", "build policy">> :> policy
PilesOf(n, policy) == Piles(n) @@ Build(policy)
Spaces(policy) == <<"tableau piles", "spaces policy">> :> policy
Groups(kind) == <<"tableau piles", "move built group">> :> kind
GroupsOf(policy) == <<"tableau piles", "move built group policy">> :> policy
Diagonal == <<"tableau piles", "diagonal deal">> :> TRUE
TopsFaceUp == <<"tableau piles", "face up cards">> :> "top"

NoFoundations == <<"foundations", "present">> :> FALSE
Removable == <<"foundations", "removable">> :> TRUE
CompletePiles == <<"foundations", "only complete pile moves">> :> TRUE
Filled(which) == <<"foundations", "initial cards">> :> which
RandomBase == Filled("one") @@ <<"foundations", "base card">> :> 0

Free(n) == <<"cells", "count">> :> n
PreFilled(n) == <<"cells", "pre-filled">> :> n
HasHole == <<"hole", "present">> :> TRUE

StockOf(size) == <<"stock", "size">> :> size
DealsTo(type) == <<"stock", "deal type">> :> type
Redeal(is) == <<"stock", "redeal">> :> is
Deals(count, redeal) == <<"stock", "deal count">> :> count @@ Redeal(redeal)
ReserveOf(size) == <<"reserve", "size">> :> size
StackedReserve(size) == ReserveOf(size) @@ <<"reserve", "stacked">> :> TRUE

MaxRank(n) == <<"", "max rank">> :> n
TwoDecks == <<"", "two decks">> :> TRUE

-----------------------------------------------------------------------------
Default ==
  In("tableau piles",
     "count" :> 8 @@ "build policy" :> "any-suit" @@ "spaces policy" :> "any"
     @@ "diagonal deal" :> FALSE @@ "move built group" :> "no"
     @@ "move built group policy" :> "same-as-build" @@ "face up cards" :> "all")
  @@ In("foundations",
        "present" :> TRUE @@ "initial cards" :> "none" @@ "base card" :> 1
        @@ "removable" :> FALSE @@ "only complete pile moves" :> FALSE)
  @@ In("hole", "present" :> FALSE @@ "base card" :> 1 @@ "build loops" :> TRUE)
  @@ In("cells", "count" :> 0 @@ "pre-filled" :> 0)
  @@ In("stock", "size" :> 0 @@ "deal type" :> "waste" @@ "deal count" :> 1 @@ "redeal" :> FALSE)
  @@ In("reserve", "size" :> 0 @@ "stacked" :> FALSE)
  @@ In("accordion", "size" :> 0 @@ "moves" :> <<>> @@ "build policies" :> {})
  @@ In("sequences", "count" :> 0 @@ "direction" :> "L" @@ "build policy" :> "same-suit"
                     @@ "fixed suit" :> FALSE)
  @@ MaxRank(13) @@ <<"", "two decks">> :> FALSE

FirstGames ==
  "spanish-patience" :> (Piles(13) @@ Removable)
  @@ "free-cell" :> (Build("red-black") @@ Free(4))
  @@ "black-hole" :> (PilesOf(17, "no-build") @@ NoFoundations @@ HasHole)
  @@ "fortunes-favor" :> (PilesOf(12, "same-suit") @@ Spaces("auto-waste-then-stock")
                          @@ Filled("all") @@ StockOf(36))
  @@ "flower-garden" :> (Piles(6) @@ ReserveOf(16) @@ Removable)

Canfield(groups, spaces) ==
  PilesOf(4, "red-black") @@ Groups(groups) @@ Spaces(spaces) @@ RandomBase
  @@ StockOf(34) @@ Deals(3, TRUE) @@ StackedReserve(13)

Canfields ==
  "canfield-strict" :> Canfield("whole-pile", "auto-reserve-then-waste")
  @@ "canfield-auto-reserve-then-waste" :>
       Canfield("partial-if-card-above-buildable", "auto-reserve-then-waste")
  @@ [name \in {"canfield-partial-piles-restricted", "canfield"} |->
        Canfield("partial-if-card-above-buildable", "auto-reserve-then-any")]
  @@ "canfield-arbitrary-built-moves" :> Canfield("yes", "auto-reserve-then-any")

SomersetToRaglan ==
  "somerset" :> (PilesOf(10, "red-black") @@ Diagonal @@ Removable)
  @@ "alpha-star" :> (PilesOf(12, "same-suit") @@ Groups("yes") @@ Filled("all"))
  @@ "spider" :> (PilesOf(10, "any-suit") @@ Groups("yes") @@ GroupsOf("same-suit") @@ TopsFaceUp
                  @@ CompletePiles @@ StockOf(50) @@ DealsTo("tableau piles") @@ TwoDecks)
  @@ "raglan" :> (PilesOf(9, "red-black") @@ Diagonal @@ ReserveOf(6) @@ Removable @@ Filled("all"))

Klondike(piles, groups) ==
  PilesOf(piles, "red-black") @@ Spaces("kings") @@ Groups(groups) @@ Diagonal @@ TopsFaceUp
  @@ Removable

KlondikesDealingOne ==
  LET One(groups) == Klondike(7, groups) @@ StockOf(24) @@ Deals(1, TRUE)
  IN "klondike-deal-1-arbitrary-built-moves" :> One("yes")
     @@ [name \in {"klondike-deal-1", "klondike-deal-1-partial-piles-restricted"} |->
           One("partial-if-card-above-buildable")]
     @@ "klondike-reserve" :> (Klondike(7, "yes") @@ ReserveOf(24))

KlondikesDealingThree ==
  LET Three(groups) == Klondike(7, groups) @@ StockOf(24) @@ Deals(3, TRUE)
  IN [name \in {"klondike", "klondike-partial-piles-restricted"} |->
        Three("partial-if-card-above-buildable")]
     @@ "klondike-arbitrary-built-moves" :> Three("yes")

AlinaToTwoCell ==
  "alina" :> (PilesOf(13, "any-suit") @@ Spaces("no-build") @@ Removable @@ Free(1))
  @@ "castles-of-spain" :> (PilesOf(13, "red-black") @@ Removable)
  @@ "delta-star" :> (PilesOf(12, "same-suit") @@ Filled("all"))
  @@ "one-cell" :> (PilesOf(13, "red-black") @@ Filled("all") @@ Removable @@ Free(1))
  @@ "two-cell" :> (PilesOf(13, "red-black") @@ Filled("all") @@ Removable @@ Free(2))

FreeCells ==
  "free-cell-3-cell" :> (Build("red-black") @@ Free(3))
  @@ "free-cell-2-cell" :> (Build("red-black") @@ Free(2))
  @@ "free-cell-1-cell" :> (Build("red-black") @@ Free(1))
  @@ "free-cell-0-cell" :> Build("red-black")
  @@ "free-cell-7-pile" :> (PilesOf(7, "red-black") @@ Free(4))
  @@ "free-cell-6-pile" :> (PilesOf(6, "red-black") @@ Free(4))
  @@ "free-cell-5-pile" :> (PilesOf(5, "red-black") @@ Free(4))
  @@ "free-cell-4-pile" :> (PilesOf(4, "red-black") @@ Free(4))

FilledCells ==
  "bakers-game" :> (Build("same-suit") @@ Free(4))
  @@ "eight-off" :> (Build("same-suit") @@ Spaces("kings") @@ Free(8) @@ PreFilled(4))
  @@ "eight-off-any-card-spaces" :> (Build("same-suit") @@ Free(8) @@ PreFilled(4))
  @@ "fore-cell" :> (Build("red-black") @@ Spaces("kings") @@ Free(4) @@ PreFilled(4))
  @@ "fore-cell-same-suit" :> (Build("same-suit") @@ Spaces("kings") @@ Free(4) @@ PreFilled(4))
  @@ "seahaven-towers" :> (PilesOf(10, "same-suit") @@ Groups("no") @@ Spaces("kings")
                           @@ Free(4) @@ PreFilled(2))

DuchessToEastHaven ==
  "duchess" :> (PilesOf(4, "red-black") @@ Groups("yes") @@ Filled("all")
                @@ ReserveOf(12) @@ StockOf(36))
  @@ "chameleon" :> (PilesOf(3, "any-suit") @@ Groups("yes") @@ StackedReserve(13) @@ StockOf(36))
  @@ "fan" :> (PilesOf(18, "same-suit") @@ Spaces("kings") @@ Removable)
  @@ "scotch-patience" :> (PilesOf(18, "red-black") @@ Spaces("no-build") @@ Removable)
  @@ "east-haven" :> (PilesOf(7, "red-black") @@ Groups("yes") @@ TopsFaceUp @@ Removable
                      @@ StockOf(31) @@ DealsTo("tableau piles"))

NorthwestTerritory(groups) ==
  Build("red-black") @@ Groups(groups) @@ Spaces("kings") @@ Diagonal @@ TopsFaceUp
  @@ Removable @@ ReserveOf(16)

NorthwestTerritories ==
  "northwest-territory-arbitrary-built-moves" :> NorthwestTerritory("yes")
  @@ [name \in {"northwest-territory-partial-piles-restricted", "northwest-territory"} |->
        NorthwestTerritory("partial-if-card-above-buildable")]
  @@ "king-albert" :> (PilesOf(9, "red-black") @@ Diagonal @@ Removable @@ ReserveOf(7))

Spiderettes ==
  LET Suited(n) == Piles(n) @@ Groups("yes") @@ GroupsOf("same-suit") @@ CompletePiles
  IN "spiderette" :> (Suited(7) @@ Build("any-suit") @@ Diagonal @@ TopsFaceUp
                      @@ StockOf(24) @@ DealsTo("tableau piles"))
     @@ "will-o-the-wisp" :> (Suited(7) @@ Build("any-suit")
                              @@ StockOf(31) @@ DealsTo("tableau piles"))
     @@ "simple-simon" :> (Suited(10) @@ Diagonal)

OfSequences == In("sequences", "count" :> 4 @@ "direction" :> "L" @@ "build policy" :> "same-suit")
FixedSuit(is) == <<"sequences", "fixed suit">> :> is

AccordionOf(size) ==
  In("accordion", "size" :> size @@ "moves" :> <<-1, -3>>
                  @@ "build policies" :> {"same-suit", "same-rank"})

LineGames ==
  LET NoPiles == NoFoundations @@ Piles(0)
  IN "gaps-one-deal" :> (NoPiles @@ OfSequences @@ FixedSuit(FALSE))
     @@ "gaps-basic-variant" :> (NoPiles @@ OfSequences @@ FixedSuit(TRUE))
     @@ [name \in {"late-binding-solitaire", "accordion-knuth"} |-> NoPiles @@ AccordionOf(18)]
     @@ "accordion" :> (NoPiles @@ AccordionOf(52))

TwoDeckGames ==
  LET Forty(piles, build, stock) ==
        PilesOf(piles, build) @@ StockOf(stock) @@ Redeal(FALSE) @@ TwoDecks
  IN "forty-thieves" :> Forty(10, "same-suit", 64)
     @@ "lucas" :> (Forty(13, "same-suit", 61) @@ Filled("all"))
     @@ "maria" :> Forty(9, "red-black", 68)
     @@ "limited" :> Forty(12, "same-suit", 68)
     @@ "streets" :> Forty(10, "red-black", 64)
     @@ "rank-and-file" :> (Forty(10, "red-black", 64) @@ TopsFaceUp @@ Groups("yes"))
     @@ "american-toad" :>
          (Forty(8, "same-suit", 75) @@ Deals(1, FALSE) @@ Groups("whole-pile")
           @@ Spaces("auto-reserve-then-waste") @@ RandomBase @@ StackedReserve(20))

TwoDeckKlondikes ==
  LET Of(piles, stock, count, redeal) ==
        Klondike(piles, "yes") @@ StockOf(stock) @@ Deals(count, redeal) @@ TwoDecks
  IN "gargantua" :> Of(9, 59, 1, FALSE)
     @@ "gargantua-redeal" :> Of(9, 59, 1, TRUE)
     @@ "ultra-klondike-2-deck" :> Of(12, 26, 3, TRUE)

CanistersToSiegecraft ==
  "american-canister" :> (PilesOf(8, "red-black") @@ Groups("yes") @@ Spaces("any"))
  @@ "british-canister" :> (PilesOf(8, "red-black") @@ Groups("no") @@ Spaces("kings"))
  @@ "beleaguered-castle" :> (PilesOf(8, "any-suit") @@ Filled("all"))
  @@ "klondike-two-deck-9" :> (Klondike(9, "yes") @@ StockOf(59) @@ Deals(3, TRUE) @@ TwoDecks)
  @@ "mrs-mop" :> (PilesOf(13, "any-suit") @@ Groups("yes") @@ GroupsOf("same-suit")
                   @@ Spaces("any") @@ CompletePiles @@ TwoDecks)
  @@ "streets-and-alleys" :> (PilesOf(8, "any-suit") @@ Filled("none"))
  @@ "siegecraft" :> (PilesOf(8, "any-suit") @@ Filled("all") @@ Free(1))

StrongholdToGolf ==
  "stronghold" :> (PilesOf(8, "any-suit") @@ Filled("none") @@ Free(1))
  @@ "thirty" :>
       (PilesOf(5, "any-suit") @@ Groups("yes") @@ Spaces("any") @@ ReserveOf(2) @@ MaxRank(8)
        @@ <<"tableau piles", "diagonal deal">> :> FALSE @@ <<"foundations", "removable">> :> FALSE)
  @@ "thirtysix" :> (PilesOf(6, "any-suit") @@ Groups("yes") @@ StockOf(16) @@ Deals(1, FALSE))
  @@ "trigon" :>
       (<<"foundations", "removable">> :> FALSE @@ Build("same-suit") @@ Klondike(7, "yes")
        @@ StockOf(24) @@ Deals(1, TRUE))
  @@ "worm-hole" :> (PilesOf(17, "no-build") @@ NoFoundations @@ Free(1) @@ HasHole)
  @@ "golf" :>
       (PilesOf(7, "no-build") @@ NoFoundations @@ StockOf(16) @@ DealsTo("hole")
        @@ In("hole", "present" :> TRUE @@ "base card" :> 0 @@ "build loops" :> FALSE))

(* Small games for the tests of the repository.                            *)
TestsToCanfield ==
  "-test-spanish-patience" :> (Piles(3) @@ Removable @@ MaxRank(2))
  @@ "-test-free-cell" :> (PilesOf(4, "red-black") @@ Free(1) @@ MaxRank(4))
  @@ "-test-bakers-dozen" :> (Piles(3) @@ Spaces("no-build") @@ Removable @@ MaxRank(3))
  @@ "-test-black-hole" :> (PilesOf(4, "no-build") @@ NoFoundations @@ HasHole @@ MaxRank(5))
  @@ "-test-fortunes-favor" :> (PilesOf(3, "same-suit") @@ Filled("all") @@ StockOf(3) @@ MaxRank(4))
  @@ "-test-flower-garden" :> (Piles(3) @@ ReserveOf(3) @@ Removable @@ MaxRank(3))
  @@ "-test-canfield" :>
       (PilesOf(3, "red-black") @@ Groups("whole-pile") @@ Spaces("auto-reserve-then-waste")
        @@ RandomBase @@ StockOf(6) @@ Deals(3, TRUE) @@ StackedReserve(2) @@ MaxRank(3))

TestsFromSomerset ==
  "-test-somerset" :> (PilesOf(4, "red-black") @@ Diagonal @@ Removable @@ MaxRank(2))
  @@ "-test-alpha-star" :> (PilesOf(3, "same-suit") @@ Groups("yes") @@ Filled("all") @@ MaxRank(6))
  @@ "-test-spider" :>
       (PilesOf(4, "any-suit") @@ Groups("yes") @@ GroupsOf("same-suit") @@ TopsFaceUp
        @@ CompletePiles @@ StockOf(12) @@ DealsTo("tableau piles") @@ TwoDecks @@ MaxRank(3))
  @@ "-test-klondike" :>
       (PilesOf(4, "red-black") @@ Groups("yes") @@ Diagonal @@ TopsFaceUp
        @@ StockOf(6) @@ Deals(3, TRUE) @@ MaxRank(4))
  @@ "-test-gaps" :> (NoFoundations @@ Piles(0) @@ OfSequences @@ MaxRank(4))
  @@ "-test-accordion" :> (NoFoundations @@ Piles(0) @@ AccordionOf(10))

-----------------------------------------------------------------------------
(* mp                                                                      *)
PresetSays ==
  "default" :> Default @@ FirstGames @@ Canfields @@ SomersetToRaglan
  @@ KlondikesDealingOne @@ KlondikesDealingThree @@ AlinaToTwoCell @@ FreeCells @@ FilledCells
  @@ DuchessToEastHaven @@ NorthwestTerritories @@ Spiderettes @@ LineGames @@ TwoDeckGames
  @@ TwoDeckKlondikes @@ CanistersToSiegecraft @@ StrongholdToGolf
  @@ TestsToCanfield @@ TestsFromSomerset

PresetDocuments == [name \in DOMAIN PresetSays |-> [says |-> PresetSays[name], wrong |-> {}, garbled |-> {}]]
=============================================================================
