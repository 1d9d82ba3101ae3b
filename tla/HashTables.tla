----------------------------- MODULE HashTables -----------------------------
(***************************************************************************)
(* A table of random numbers of multiplicity_zobrist or of the             *)
(* predecessors.  Each game state that is made fills it unless a flag says *)
(* that it is filled, without a lock, while the threads of a run for a     *)
(* solvability make game states and search.  The flag and the numbers are  *)
(* plain memory: a thread reads what was last written, in the order of the *)
(* program, which is what the builds for x86-64 do.                        *)
(***************************************************************************)
EXTENDS Integers, FiniteSets

CONSTANTS
  Threads,
  Columns,         (* Numbers in the table.                                *)
  Games            (* Bound: game states that a thread makes.              *)

ASSUME TableAssumption == Columns \in Nat \ {0} /\ Games \in Nat

VARIABLES
  Z, initialized,  (* The table, 0 where nothing was written.              *)
  pc, next, rng,   (* Of each thread: where it is, the column to fill, the *)
                   (* numbers that its generator has drawn.                *)
  games,
  keys             (* History: of each thread, the keys it has hashed with. *)

tables == <<Z, initialized, pc, next, rng, games, keys>>

Column == 1..Columns

(* The generator is seeded with a constant: its n-th number is always the  *)
(* same.                                                                   *)
Drawn(n) == n

Draws(t) == rng[t]

-----------------------------------------------------------------------------
(* The constructor of the engine, or of an accordion, calls init.          *)
MakeGame(t) ==
  /\ pc[t] = "idle" /\ games[t] < Games
  /\ games' = [games EXCEPT ![t] = @ + 1]
  /\ IF initialized
     THEN /\ pc' = [pc EXCEPT ![t] = "search"]
          /\ UNCHANGED <<next, rng>>
     ELSE /\ pc' = [pc EXCEPT ![t] = "fill"]
          /\ next' = [next EXCEPT ![t] = 1] /\ rng' = [rng EXCEPT ![t] = 0]
  /\ UNCHANGED <<Z, initialized, keys>>

Fills(t) == next[t] <= Columns

Fill(t) ==
  /\ pc[t] = "fill" /\ Fills(t)
  /\ Z' = [Z EXCEPT ![next[t]] = Drawn(Draws(t) + 1)]
  /\ rng' = [rng EXCEPT ![t] = @ + 1]
  /\ next' = [next EXCEPT ![t] = @ + 1]
  /\ UNCHANGED <<initialized, pc, games, keys>>

(* Mutant: the flag may be set before the last number is.                  *)
FilledButOne(t) == next[t] = Columns
Filled(t) == next[t] > Columns

SetFlag(t) ==
  /\ pc[t] = "fill" /\ Filled(t)
  /\ initialized' = TRUE
  /\ pc' = [pc EXCEPT ![t] = "search"]
  /\ UNCHANGED <<Z, next, rng, games, keys>>

GetHash(t) ==
  /\ pc[t] = "search"
  /\ \E c \in Column : keys' = [keys EXCEPT ![t] = @ \union {<<c, Z[c]>>}]
  /\ UNCHANGED <<Z, initialized, pc, next, rng, games>>

SearchEnds(t) ==
  /\ pc[t] = "search"
  /\ pc' = [pc EXCEPT ![t] = "idle"]
  /\ UNCHANGED <<Z, initialized, next, rng, games, keys>>

TablesInit ==
  /\ Z = [c \in Column |-> 0] /\ initialized = FALSE
  /\ pc = [t \in Threads |-> "idle"] /\ next = [t \in Threads |-> 1]
  /\ rng = [t \in Threads |-> 0] /\ games = [t \in Threads |-> 0]
  /\ keys = [t \in Threads |-> {}]

TablesNext ==
  \E t \in Threads : MakeGame(t) \/ Fill(t) \/ SetFlag(t) \/ GetHash(t) \/ SearchEnds(t)

TablesSpec == TablesInit /\ [][TablesNext]_tables

-----------------------------------------------------------------------------
TablesTypeOK ==
  /\ Z \in [Column -> Nat] /\ initialized \in BOOLEAN
  /\ pc \in [Threads -> {"idle", "fill", "search"}]
  /\ next \in [Threads -> 1..(Columns + 1)] /\ rng \in [Threads -> 0..Columns]
  /\ keys \in [Threads -> SUBSET (Column \X Nat)]

(* However many threads fill the table over each other while others search *)
(* already, no search ever hashes with a number but the final one: a state *)
(* that was inserted is found again by the hash it had.                    *)
KeysAreFinal ==
  \A t \in Threads : \A key \in keys[t] : key[2] = Drawn(key[1])
=============================================================================
