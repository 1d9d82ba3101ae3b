----------------------- MODULE SolvabilityTableProofs -----------------------
(***************************************************************************)
(* What solvability_calc guarantees for any number of threads and seeds,   *)
(* any interrupted run it resumes, and any signal: every seed is handed    *)
(* out once and solved once, none is dropped, and the verdicts are right.  *)
(* A thread holds a seed while it is at it, and while the seed waits for   *)
(* it to start; CalcInv says that what was handed out lies below           *)
(* current_seed and that nothing is held twice.                            *)
(*                                                                         *)
(* And the table of such a run can be trusted: its lines are of one form,  *)
(* in the order of the names of the header, and their results are those    *)
(* that were counted.  TableInv says which results a thread, and a line,   *)
(* may have of its two searches.                                           *)
(***************************************************************************)
EXTENDS SolvabilityTable, SequenceTheorems, FiniteSetTheorems, TLAPS

Waiting(t) == pc[t] = "start" /\ t < Len(resume_seeds)
Holds(t) == AtSeed(t) \/ Waiting(t)
SeedOf(t) == IF pc[t] = "start" THEN resume_seeds[t + 1] ELSE my_seed[t]

HeldOnce ==
  /\ \A t \in Thread : Holds(t) => SeedOf(t) < current_seed
  /\ \A t, u \in Thread : Holds(t) /\ Holds(u) /\ SeedOf(t) = SeedOf(u) => t = u
  /\ \A t \in Thread : Holds(t) =>
       \A i \in 1..Len(rows) : rows[i].seed # SeedOf(t)

RowsOnce ==
  /\ \A i \in 1..Len(rows) : rows[i].seed < current_seed
  /\ \A i, j \in 1..Len(rows) : rows[i].seed = rows[j].seed => i = j

(* Of a thread that searches, and of one that has a result.                *)
SearchesBelow ==
  \A t \in Thread :
    /\ pc[t] # "start" => my_seed[t] \in Nat
    /\ pc[t] \in {"search", "record"} => my_seed[t] < SeedCount
    /\ pc[t] = "record" => final[t] \in Types

FinalIsRight ==
  \A t \in Thread : pc[t] = "record" =>
    /\ final[t] = "SOLVED" => my_seed[t] \in Solvable
    /\ final[t] = "UNSOLVABLE" => my_seed[t] \notin Solvable \ Confused

CalcInv ==
  /\ TypeOK /\ Len(resume_seeds) = Cores - 1
  /\ SearchesBelow
  /\ HeldOnce /\ RowsOnce
  /\ NoSeedDropped
  /\ FinalIsRight /\ VerdictsAreRight

Row == [seed : Nat, type : Types, within : BOOLEAN]

(* The parts of CalcInv that only look at what a thread holds; every step  *)
(* but Start, Record and Fetch leaves them as they are.                    *)
Seeds == HeldOnce /\ RowsOnce /\ NoSeedDropped

-----------------------------------------------------------------------------
(* A calculation starts with the seeds to resume waiting.                  *)
LEMMA InitInv ==
  ASSUME Init PROVE CalcInv
<1>1. Cores \in Nat \ {0}
  BY CalcAssumption
<1>2. PICK r \in Resumes : \E sorted \in Ascending(r) :
        /\ resume_seeds = SubSeq(sorted, 1, Cores - 1)
        /\ current_seed = sorted[Cores]
  BY DEF Init
<1>3. PICK sorted \in Ascending(r) :
        /\ resume_seeds = SubSeq(sorted, 1, Cores - 1)
        /\ current_seed = sorted[Cores]
  BY <1>2
<1>4. r \subseteq Nat
  BY CalcAssumption
<1>5. /\ \A i \in 1..Cores : sorted[i] \in Nat
      /\ \A i, j \in 1..Cores : i < j => sorted[i] < sorted[j]
  BY <1>3, <1>4 DEF Ascending
<1>6. /\ SubSeq(sorted, 1, Cores - 1) \in Seq(Nat)
      /\ Len(SubSeq(sorted, 1, Cores - 1)) = Cores - 1
      /\ \A i \in 1..(Cores - 1) : SubSeq(sorted, 1, Cores - 1)[i] = sorted[i]
  <2>1. \A i \in 1..(Cores - 1) : sorted[i] \in Nat
    BY <1>1, <1>5
  <2>2. /\ SubSeq(sorted, 1, Cores - 1) \in Seq(Nat)
        /\ Len(SubSeq(sorted, 1, Cores - 1))
             = IF 1 <= Cores - 1 THEN (Cores - 1) - 1 + 1 ELSE 0
        /\ \A i \in 1..((Cores - 1) - 1 + 1) :
             SubSeq(sorted, 1, Cores - 1)[i] = sorted[1 + i - 1]
    BY <1>1, <2>1, SubSeqProperties
  <2> QED BY <1>1, <2>2
<1>7. /\ resume_seeds \in Seq(Nat) /\ Len(resume_seeds) = Cores - 1
      /\ current_seed \in Nat
      /\ \A i \in 1..(Cores - 1) : resume_seeds[i] \in Nat /\ resume_seeds[i] < current_seed
      /\ \A i, j \in 1..(Cores - 1) : resume_seeds[i] = resume_seeds[j] => i = j
  <2>1. \A i \in 1..(Cores - 1) : resume_seeds[i] = sorted[i]
    BY <1>3, <1>6
  <2>2. \A i \in 1..(Cores - 1) : i \in 1..Cores /\ i < Cores /\ Cores \in 1..Cores
    BY <1>1
  <2>3. \A i, j \in 1..(Cores - 1) : sorted[i] = sorted[j] => i = j
    <3> SUFFICES ASSUME NEW i \in 1..(Cores - 1), NEW j \in 1..(Cores - 1),
                        sorted[i] = sorted[j], i # j
                 PROVE  FALSE
      OBVIOUS
    <3>1. i < j \/ j < i
      BY <1>1
    <3>2. sorted[i] < sorted[j] \/ sorted[j] < sorted[i]
      BY <3>1, <2>2, <1>5
    <3>3. sorted[i] \in Nat /\ sorted[j] \in Nat
      BY <2>2, <1>5
    <3> QED BY <3>2, <3>3
  <2>4. current_seed \in Nat
    BY <1>1, <1>3, <1>5
  <2>5. \A i \in 1..(Cores - 1) : sorted[i] \in Nat /\ sorted[i] < current_seed
    BY <1>3, <1>5, <2>2
  <2> QED BY <1>3, <1>6, <2>1, <2>3, <2>4, <2>5
<1>8. TypeOK
  <2>1. rows \in Seq(Row)
    BY DEF Init
  <2>2. seed_res \in [Types \ {"TERMINATED"} -> Nat]
    BY CalcAssumption DEF Init, Types
  <2>3. sigint \in BOOLEAN /\ cpu \in Nat /\ seeds_in_progress \subseteq Nat
    BY DEF Init
  <2>4. /\ pc \in [Thread -> {"start", "loop", "search", "record", "fetch", "done"}]
        /\ my_seed \in [Thread -> Nat \union {NoSeed}]
        /\ streamlined \in [Thread -> BOOLEAN]
        /\ work \in [Thread -> Nat] /\ spent \in [Thread -> Nat]
        /\ start \in [Thread -> Nat] /\ late \in [Thread -> BOOLEAN]
        /\ final \in [Thread -> Types \union {"NONE"}]
    BY DEF Init
  <2>5. first_seed \in Nat
    BY <1>7 DEF Init
  <2> QED BY <1>7, <2>1, <2>2, <2>3, <2>4, <2>5 DEF TypeOK, Row
<1>9. /\ \A t \in Thread : pc[t] = "start"
      /\ Len(rows) = 0 /\ rows = <<>> /\ seeds_in_progress = {}
      /\ first_seed = current_seed
  BY DEF Init, Thread
<1>10. HeldOnce
  <2>1. \A t \in Thread : Holds(t) => t + 1 \in 1..(Cores - 1) /\ SeedOf(t) = resume_seeds[t + 1]
    BY <1>1, <1>7, <1>9 DEF Holds, Waiting, AtSeed, SeedOf, Thread
  <2>2. \A t, u \in Thread : t + 1 = u + 1 => t = u
    BY <1>1 DEF Thread
  <2> QED BY <1>7, <1>9, <2>1, <2>2 DEF HeldOnce
<1>11. RowsOnce /\ VerdictsAreRight
  BY <1>9 DEF RowsOnce, VerdictsAreRight
<1>12. SearchesBelow /\ FinalIsRight
  BY <1>9 DEF SearchesBelow, FinalIsRight
<1>14. NoSeedDropped
  <2> SUFFICES ASSUME NEW s \in HandedOut
               PROVE  \E t \in Thread : pc[t] = "start" /\ t < Len(resume_seeds)
                                         /\ resume_seeds[t + 1] = s
    BY DEF NoSeedDropped
  <2>1. first_seed..(current_seed - 1) = {}
    BY <1>7, <1>9
  <2>2. PICK i \in 1..Len(resume_seeds) : s = resume_seeds[i]
    BY <2>1 DEF HandedOut
  <2>3. i - 1 \in Thread /\ i - 1 < Len(resume_seeds) /\ (i - 1) + 1 = i
    BY <1>1, <1>7 DEF Thread
  <2> QED BY <2>2, <2>3, <1>9
<1> QED BY <1>7, <1>8, <1>10, <1>11, <1>12, <1>14 DEF CalcInv

-----------------------------------------------------------------------------
(* A step that hands out no seed and prints no line, and in which threads  *)
(* only leave seeds that are beyond seed_count, keeps the seeds in order.  *)
LEMMA SeedsKept ==
  ASSUME TypeOK, Seeds,
         UNCHANGED <<resume_seeds, current_seed, first_seed, rows, my_seed>>,
         \A t \in Thread : pc'[t] = "start" <=> pc[t] = "start",
         \A t \in Thread : AtSeed(t)' => AtSeed(t),
         \A t \in Thread : AtSeed(t) => AtSeed(t)' \/ my_seed[t] >= SeedCount
  PROVE  Seeds'
<1>1. \A t \in Thread : /\ Waiting(t)' <=> Waiting(t)
                        /\ Holds(t)' => Holds(t)
                        /\ SeedOf(t)' = SeedOf(t)
  BY DEF Waiting, Holds, SeedOf
<1>2. HeldOnce'
  BY <1>1 DEF Seeds, HeldOnce
<1>3. RowsOnce'
  BY DEF Seeds, RowsOnce
<1>4. NoSeedDropped'
  BY DEF Seeds, NoSeedDropped, HandedOut, Reported
<1> QED BY <1>2, <1>3, <1>4 DEF Seeds

(* What was printed is of seeds.                                           *)
LEMMA RowSeeds ==
  ASSUME TypeOK
  PROVE  rows \in Seq(Row) /\ \A i \in 1..Len(rows) : rows[i].seed \in Nat
<1>1. rows \in Seq(Row)
  BY DEF TypeOK, Row
<1>2. \A i \in 1..Len(rows) : rows[i] \in Row
  BY <1>1, ElementOfSeq
<1> QED BY <1>1, <1>2 DEF Row

(* Only seeds are held.                                                    *)
LEMMA HeldIsNatural ==
  ASSUME CalcInv, NEW t \in Thread, Holds(t)
  PROVE  SeedOf(t) \in Nat
<1>1. CASE pc[t] # "start"
  BY <1>1 DEF CalcInv, SearchesBelow, SeedOf
<1>2. CASE pc[t] = "start"
  <2>1. resume_seeds \in Seq(Nat) /\ t + 1 \in 1..Len(resume_seeds)
    BY <1>2, CalcAssumption DEF CalcInv, TypeOK, Holds, Waiting, AtSeed, Thread
  <2> QED BY <1>2, <2>1, ElementOfSeq DEF SeedOf
<1> QED BY <1>1, <1>2

(* A search begins: its thread's locals.                                   *)
LEMMA SearchBegun ==
  ASSUME TypeOK, NEW t \in Thread, NEW smart \in BOOLEAN, BeginSearch(t, smart),
         my_seed[t] \in Nat, my_seed[t] < SeedCount
  PROVE  /\ pc' = [pc EXCEPT ![t] = "search"]
         /\ pc' \in [Thread -> {"start", "loop", "search", "record", "fetch", "done"}]
         /\ streamlined' \in [Thread -> BOOLEAN]
         /\ work' \in [Thread -> Nat] /\ spent' \in [Thread -> Nat]
         /\ start' \in [Thread -> Nat] /\ late' \in [Thread -> BOOLEAN]
<1>1. Works(my_seed[t]) \subseteq Nat
  <2>1. my_seed[t] \in 0..(SeedCount - 1)
    BY CalcAssumption
  <2> QED BY <2>1, CalcAssumption
<1>2. PICK w \in Works(my_seed[t]) : work' = [work EXCEPT ![t] = w]
  BY DEF BeginSearch
<1> QED BY <1>1, <1>2 DEF BeginSearch, Goto, TypeOK

-----------------------------------------------------------------------------
(* A thread takes the seed that waits for it, or the next.                 *)
LEMMA StartInv ==
  ASSUME CalcInv, NEW t \in Thread, Start(t) PROVE CalcInv'
<1> USE DEF CalcInv
<1>1. /\ pc[t] = "start" /\ pc' = [pc EXCEPT ![t] = "loop"]
      /\ UNCHANGED <<resume_seeds, first_seed, rows, seeds_in_progress, seed_res, sigint, cpu,
                     streamlined, work, spent, start, late, final>>
      /\ \A u \in Thread : pc'[u] = IF u = t THEN "loop" ELSE pc[u]
  BY DEF Start, Goto, TypeOK
<1>2. /\ Len(resume_seeds) \in Nat /\ current_seed \in Nat /\ t \in Nat
      /\ resume_seeds \in Seq(Nat)
  BY CalcAssumption DEF TypeOK, Thread
<1>3. PICK seed \in Nat :
        /\ my_seed' = [my_seed EXCEPT ![t] = seed]
        /\ \/ /\ t < Len(resume_seeds) /\ seed = resume_seeds[t + 1]
              /\ current_seed' = current_seed
           \/ /\ ~ (t < Len(resume_seeds)) /\ seed = current_seed
              /\ current_seed' = current_seed + 1
  <2>1. CASE Len(resume_seeds) > t
    <3>1. t + 1 \in 1..Len(resume_seeds)
      BY <1>2, <2>1
    <3>2. resume_seeds[t + 1] \in Nat
      BY <1>2, <3>1, ElementOfSeq
    <3> QED BY <1>2, <2>1, <3>2 DEF Start
  <2>2. CASE ~ (Len(resume_seeds) > t)
    BY <1>2, <2>2 DEF Start, FetchNext
  <2> QED BY <2>1, <2>2
<1>4. /\ my_seed' \in [Thread -> Nat \union {NoSeed}] /\ current_seed' \in Nat
      /\ \A u \in Thread : my_seed'[u] = IF u = t THEN seed ELSE my_seed[u]
      /\ current_seed' >= current_seed /\ seed < current_seed'
  <2>1. my_seed' \in [Thread -> Nat \union {NoSeed}] /\ current_seed' \in Nat
    BY <1>2, <1>3 DEF TypeOK
  <2>2. \A u \in Thread : my_seed'[u] = IF u = t THEN seed ELSE my_seed[u]
    BY <1>3 DEF TypeOK
  <2>3. t < Len(resume_seeds) => resume_seeds[t + 1] < current_seed
    BY <1>1 DEF HeldOnce, Holds, Waiting, SeedOf
  <2> QED BY <1>2, <1>3, <2>1, <2>2, <2>3
<1>5. TypeOK'
  BY <1>1, <1>4 DEF TypeOK
<1>6. /\ Holds(t)' /\ SeedOf(t)' = seed
      /\ \A u \in Thread \ {t} : (Holds(u)' <=> Holds(u)) /\ SeedOf(u)' = SeedOf(u)
      /\ Waiting(t) <=> t < Len(resume_seeds)
      /\ Waiting(t) => SeedOf(t) = seed /\ Holds(t)
  BY <1>1, <1>3, <1>4 DEF Holds, Waiting, AtSeed, SeedOf
<1>7. \A u \in Thread : Holds(u) => SeedOf(u) \in Nat /\ SeedOf(u) < current_seed
  BY HeldIsNatural DEF HeldOnce
<1>8. HeldOnce'
  <2>1. \A u \in Thread : Holds(u)' => SeedOf(u)' < current_seed'
    BY <1>2, <1>4, <1>6, <1>7
  <2>2. \A u \in Thread \ {t} : Holds(u) => SeedOf(u) # seed
    <3>1. CASE t < Len(resume_seeds)
      BY <1>6, <3>1 DEF HeldOnce
    <3>2. CASE ~ (t < Len(resume_seeds))
      BY <1>2, <1>3, <1>7, <3>2
    <3> QED BY <3>1, <3>2
  <2>3. \A u, v \in Thread : Holds(u)' /\ Holds(v)' /\ SeedOf(u)' = SeedOf(v)' => u = v
    BY <1>6, <2>2 DEF HeldOnce
  <2>4. \A i \in 1..Len(rows) : rows[i].seed # seed
    <3>1. CASE t < Len(resume_seeds)
      BY <1>6, <3>1 DEF HeldOnce
    <3>2. CASE ~ (t < Len(resume_seeds))
      BY <1>2, <1>3, <3>2 DEF RowsOnce
    <3> QED BY <3>1, <3>2
  <2>5. \A u \in Thread : Holds(u)' => \A i \in 1..Len(rows') : rows'[i].seed # SeedOf(u)'
    BY <1>1, <1>6, <2>4 DEF HeldOnce
  <2> QED BY <2>1, <2>3, <2>5 DEF HeldOnce
<1>9. RowsOnce'
  <2>1. \A i \in 1..Len(rows) : rows[i].seed \in Nat
    BY RowSeeds
  <2>2. \A i \in 1..Len(rows) : rows[i].seed < current_seed'
    <3>1. \A i \in 1..Len(rows) : rows[i].seed < current_seed
      BY DEF RowsOnce
    <3>2. \A k \in Nat : k < current_seed => k < current_seed'
      BY <1>2, <1>4
    <3> QED BY <2>1, <3>1, <3>2
  <2> QED BY <1>1, <2>2 DEF RowsOnce
<1>10. NoSeedDropped'
  <2> SUFFICES ASSUME NEW s \in HandedOut'
               PROVE  \/ s \in Reported' \/ s >= SeedCount
                      \/ \E u \in Thread : AtSeed(u)' /\ my_seed'[u] = s
                      \/ \E u \in Thread : pc'[u] = "start" /\ u < Len(resume_seeds')
                                          /\ resume_seeds'[u + 1] = s
    BY DEF NoSeedDropped
  <2>1. CASE s = seed
    BY <1>1, <1>4, <2>1 DEF AtSeed
  <2>2. CASE s # seed
    <3>1. first_seed \in Nat
      BY DEF TypeOK
    <3>2. s \in HandedOut
      BY <1>1, <1>2, <1>3, <2>2, <3>1 DEF HandedOut
    <3>3. \/ s \in Reported \/ s >= SeedCount
          \/ \E u \in Thread : AtSeed(u) /\ my_seed[u] = s
          \/ \E u \in Thread : pc[u] = "start" /\ u < Len(resume_seeds)
                              /\ resume_seeds[u + 1] = s
      BY <3>2 DEF NoSeedDropped
    <3>4. Reported' = Reported
      BY <1>1 DEF Reported
    <3>5. ASSUME NEW u \in Thread, AtSeed(u), my_seed[u] = s
          PROVE  AtSeed(u)' /\ my_seed'[u] = s
      BY <1>1, <1>4, <3>5 DEF AtSeed
    <3>6. ASSUME NEW u \in Thread, pc[u] = "start", u < Len(resume_seeds),
                 resume_seeds[u + 1] = s
          PROVE  pc'[u] = "start" /\ u < Len(resume_seeds') /\ resume_seeds'[u + 1] = s
      BY <1>1, <1>3, <2>2, <3>6
    <3> QED BY <3>3, <3>4, <3>5, <3>6
  <2> QED BY <2>1, <2>2
<1>11. SearchesBelow' /\ FinalIsRight'
  BY <1>1, <1>4 DEF SearchesBelow, FinalIsRight
<1>13. VerdictsAreRight' /\ Len(resume_seeds') = Cores - 1
  BY <1>1 DEF VerdictsAreRight
<1> QED BY <1>5, <1>8, <1>9, <1>10, <1>11, <1>13

(* A thread takes the next seed (current_seed++).                          *)
LEMMA FetchInv ==
  ASSUME CalcInv, NEW t \in Thread, Fetch(t) PROVE CalcInv'
<1> USE DEF CalcInv
<1>1. /\ pc[t] = "fetch" /\ pc' = [pc EXCEPT ![t] = "loop"]
      /\ my_seed' = [my_seed EXCEPT ![t] = current_seed] /\ current_seed' = current_seed + 1
      /\ UNCHANGED <<resume_seeds, first_seed, rows, seeds_in_progress, seed_res, sigint, cpu,
                     streamlined, work, spent, start, late, final>>
      /\ \A u \in Thread : pc'[u] = IF u = t THEN "loop" ELSE pc[u]
      /\ \A u \in Thread : my_seed'[u] = IF u = t THEN current_seed ELSE my_seed[u]
  BY DEF Fetch, FetchNext, Goto, TypeOK
<1>2. current_seed \in Nat /\ first_seed \in Nat
  BY DEF TypeOK
<1>3. TypeOK'
  BY <1>1, <1>2 DEF TypeOK
<1>4. /\ ~ Holds(t) /\ SeedOf(t)' = current_seed
      /\ \A u \in Thread \ {t} : (Holds(u)' <=> Holds(u)) /\ SeedOf(u)' = SeedOf(u)
  BY <1>1 DEF Holds, Waiting, AtSeed, SeedOf
<1>5. \A u \in Thread : Holds(u) => SeedOf(u) \in Nat /\ SeedOf(u) < current_seed
  BY HeldIsNatural DEF HeldOnce
<1>6. HeldOnce'
  <2>1. \A u \in Thread : Holds(u)' => SeedOf(u)' < current_seed'
    BY <1>1, <1>2, <1>4, <1>5
  <2>2. \A u, v \in Thread : Holds(u)' /\ Holds(v)' /\ SeedOf(u)' = SeedOf(v)' => u = v
    BY <1>2, <1>4, <1>5 DEF HeldOnce
  <2>3. \A i \in 1..Len(rows) : rows[i].seed # current_seed
    BY <1>2, RowSeeds DEF RowsOnce
  <2>4. \A u \in Thread : Holds(u)' => \A i \in 1..Len(rows') : rows'[i].seed # SeedOf(u)'
    BY <1>1, <1>4, <2>3 DEF HeldOnce
  <2> QED BY <2>1, <2>2, <2>4 DEF HeldOnce
<1>7. RowsOnce'
  <2>1. \A i \in 1..Len(rows) : rows[i].seed \in Nat
    BY RowSeeds
  <2>2. \A i \in 1..Len(rows) : rows[i].seed < current_seed'
    BY <1>1, <1>2, <2>1 DEF RowsOnce
  <2> QED BY <1>1, <2>2 DEF RowsOnce
<1>8. NoSeedDropped'
  <2> SUFFICES ASSUME NEW s \in HandedOut'
               PROVE  \/ s \in Reported' \/ s >= SeedCount
                      \/ \E u \in Thread : AtSeed(u)' /\ my_seed'[u] = s
                      \/ \E u \in Thread : pc'[u] = "start" /\ u < Len(resume_seeds')
                                          /\ resume_seeds'[u + 1] = s
    BY DEF NoSeedDropped
  <2>1. CASE s = current_seed
    BY <1>1, <2>1 DEF AtSeed
  <2>2. CASE s # current_seed
    <3>1. s \in HandedOut
      BY <1>1, <1>2, <2>2 DEF HandedOut
    <3>2. \/ s \in Reported \/ s >= SeedCount
          \/ \E u \in Thread : AtSeed(u) /\ my_seed[u] = s
          \/ \E u \in Thread : pc[u] = "start" /\ u < Len(resume_seeds)
                              /\ resume_seeds[u + 1] = s
      BY <3>1 DEF NoSeedDropped
    <3>3. Reported' = Reported
      BY <1>1 DEF Reported
    <3>4. \A u \in Thread : AtSeed(u) => AtSeed(u)' /\ my_seed'[u] = my_seed[u]
      BY <1>1 DEF AtSeed
    <3>5. \A u \in Thread : pc[u] = "start" => pc'[u] = "start"
      BY <1>1
    <3> QED BY <1>1, <3>2, <3>3, <3>4, <3>5
  <2> QED BY <2>1, <2>2
<1>9. SearchesBelow' /\ FinalIsRight'
  BY <1>1, <1>2 DEF SearchesBelow, FinalIsRight
<1>11. VerdictsAreRight' /\ Len(resume_seeds') = Cores - 1
  BY <1>1 DEF VerdictsAreRight
<1> QED BY <1>3, <1>6, <1>7, <1>8, <1>9, <1>11

(* A thread ends at a seed beyond seed_count.                              *)
LEMMA FinishInv ==
  ASSUME CalcInv, NEW t \in Thread, Finish(t) PROVE CalcInv'
<1> USE DEF CalcInv
<1>1. /\ pc[t] = "loop" /\ my_seed[t] >= SeedCount
      /\ \A u \in Thread : pc'[u] = IF u = t THEN "done" ELSE pc[u]
      /\ UNCHANGED <<shared, my_seed, streamlined, work, spent, start, late, final>>
  BY DEF Finish, Goto, TypeOK
<1>2. TypeOK'
  BY DEF Finish, Goto, shared, TypeOK
<1>3. Seeds'
  BY <1>1, SeedsKept DEF Seeds, shared, AtSeed
<1>4. SearchesBelow' /\ FinalIsRight'
  BY <1>1 DEF SearchesBelow, FinalIsRight
<1>6. VerdictsAreRight' /\ Len(resume_seeds') = Cores - 1
  BY <1>1 DEF VerdictsAreRight, shared
<1> QED BY <1>2, <1>3, <1>4, <1>6 DEF Seeds

(* A seed is in progress and its search begins.                            *)
LEMMA InsertInv ==
  ASSUME CalcInv, NEW t \in Thread, Insert(t) PROVE CalcInv'
<1> USE DEF CalcInv
<1>1. /\ pc[t] = "loop" /\ my_seed[t] < SeedCount /\ my_seed[t] \in Nat
      /\ seeds_in_progress' = seeds_in_progress \union {my_seed[t]}
      /\ BeginSearch(t, Smart)
      /\ UNCHANGED <<resume_seeds, current_seed, seed_res, sigint, cpu, rows, first_seed,
                     my_seed, final>>
  BY DEF Insert, SearchesBelow
<1>2. /\ pc' = [pc EXCEPT ![t] = "search"]
      /\ pc' \in [Thread -> {"start", "loop", "search", "record", "fetch", "done"}]
      /\ streamlined' \in [Thread -> BOOLEAN]
      /\ work' \in [Thread -> Nat] /\ spent' \in [Thread -> Nat]
      /\ start' \in [Thread -> Nat] /\ late' \in [Thread -> BOOLEAN]
  BY <1>1, SearchBegun, CalcAssumption
<1>3. \A u \in Thread : pc'[u] = IF u = t THEN "search" ELSE pc[u]
  BY <1>2 DEF TypeOK
<1>4. TypeOK'
  BY <1>1, <1>2 DEF TypeOK
<1>5. Seeds'
  BY <1>1, <1>3, SeedsKept DEF Seeds, AtSeed
<1>6. SearchesBelow' /\ FinalIsRight'
  BY <1>1, <1>3 DEF SearchesBelow, FinalIsRight
<1>8. VerdictsAreRight' /\ Len(resume_seeds') = Cores - 1
  BY <1>1 DEF VerdictsAreRight
<1> QED BY <1>4, <1>5, <1>6, <1>8 DEF Seeds

(* A search goes on.                                                       *)
LEMMA WorkInv ==
  ASSUME CalcInv, NEW t \in Thread, Work(t) PROVE CalcInv'
<1> USE DEF CalcInv
<1>1. UNCHANGED <<resume_seeds, current_seed, seeds_in_progress, seed_res, sigint, rows,
                  first_seed, pc, my_seed, streamlined, work, start, late, final>>
  BY DEF Work
<1>2. TypeOK'
  BY <1>1 DEF Work, TypeOK
<1>3. Seeds'
  BY <1>1, SeedsKept DEF Seeds, AtSeed
<1>4. SearchesBelow' /\ FinalIsRight' /\ VerdictsAreRight'
  BY <1>1 DEF SearchesBelow, FinalIsRight, VerdictsAreRight
<1> QED BY <1>1, <1>2, <1>3, <1>4 DEF Seeds

(* A search ends, or begins again without streamliners.                    *)
LEMMA EndSearchInv ==
  ASSUME CalcInv, NEW t \in Thread, EndSearch(t) PROVE CalcInv'
<1> USE DEF CalcInv
<1>1. /\ pc[t] = "search" /\ my_seed[t] \in Nat /\ my_seed[t] < SeedCount
      /\ UNCHANGED <<shared, my_seed>>
  BY DEF EndSearch, SearchesBelow
<1>2. PICK type \in Outcomes(t) :
        IF SearchesAgain(t, type)
        THEN BeginSearch(t, FALSE) /\ UNCHANGED final
        ELSE /\ Goto(t, "record")
             /\ final' = [final EXCEPT ![t] = type]
             /\ UNCHANGED <<streamlined, work, spent, start, late>>
  BY DEF EndSearch
<1>3. type \in Types
  BY DEF Outcomes, Types
<1>4. /\ TypeOK'
      /\ \A u \in Thread \ {t} : pc'[u] = pc[u] /\ final'[u] = final[u]
      /\ \/ pc'[t] = "search"
         \/ pc'[t] = "record" /\ final'[t] = type /\ ~ SearchesAgain(t, type)
  <2>1. CASE SearchesAgain(t, type)
    <3>1. BeginSearch(t, FALSE) /\ UNCHANGED final
      BY <1>2, <2>1
    <3>2. /\ pc' = [pc EXCEPT ![t] = "search"]
          /\ pc' \in [Thread -> {"start", "loop", "search", "record", "fetch", "done"}]
          /\ streamlined' \in [Thread -> BOOLEAN]
          /\ work' \in [Thread -> Nat] /\ spent' \in [Thread -> Nat]
          /\ start' \in [Thread -> Nat] /\ late' \in [Thread -> BOOLEAN]
      BY <1>1, <3>1, SearchBegun
    <3> QED BY <1>1, <3>1, <3>2 DEF TypeOK, shared
  <2>2. CASE ~ SearchesAgain(t, type)
    <3>1. /\ pc' = [pc EXCEPT ![t] = "record"] /\ final' = [final EXCEPT ![t] = type]
          /\ UNCHANGED <<streamlined, work, spent, start, late>>
      BY <1>2, <2>2 DEF Goto
    <3>2. /\ pc' \in [Thread -> {"start", "loop", "search", "record", "fetch", "done"}]
          /\ final' \in [Thread -> Types \union {"NONE"}]
      BY <1>1, <1>3, <3>1 DEF TypeOK
    <3>3. TypeOK'
      BY <1>1, <3>1, <3>2 DEF TypeOK, shared
    <3> QED BY <1>1, <2>2, <3>1, <3>3 DEF TypeOK
  <2> QED BY <2>1, <2>2
<1>5. Seeds'
  BY <1>1, <1>4, SeedsKept DEF Seeds, shared, AtSeed
<1>6. SearchesBelow'
  BY <1>1, <1>3, <1>4 DEF SearchesBelow
<1>7. FinalIsRight'
  <2>1. ~ SearchesAgain(t, type) => /\ type = "SOLVED" => my_seed[t] \in Solvable
                                    /\ type = "UNSOLVABLE" => my_seed[t] \notin Solvable \ Confused
    BY DEF Outcomes, MayMiss, SearchesAgain
  <2> QED BY <1>1, <1>4, <2>1 DEF FinalIsRight
<1>9. VerdictsAreRight' /\ Len(resume_seeds') = Cores - 1
  BY <1>1 DEF VerdictsAreRight, shared
<1> QED BY <1>4, <1>5, <1>6, <1>7, <1>9 DEF Seeds

(* A line is printed.                                                      *)
LEMMA RowPrinted ==
  ASSUME CalcInv, NEW t \in Thread, Record(t)
  PROVE  /\ rows' \in Seq(Row) /\ Len(rows) \in Nat /\ Len(rows') = Len(rows) + 1
         /\ \A i \in 1..Len(rows) : rows'[i] = rows[i]
         /\ rows'[Len(rows')].seed = my_seed[t] /\ rows'[Len(rows')].type = final[t]
         /\ \A i \in 1..Len(rows') : i \in 1..Len(rows) \/ i = Len(rows')
         /\ final[t] \in Types /\ my_seed[t] \in Nat
<1> DEFINE row == [seed |-> my_seed[t], type |-> final[t],
                   within |-> Within(t)]
<1>1. rows' = Append(rows, row)
  BY DEF Record
<1>2. my_seed[t] \in Nat /\ final[t] \in Types
  BY DEF CalcInv, SearchesBelow, Record
<1>3. row \in Row /\ row.seed = my_seed[t] /\ row.type = final[t]
  <2>1. Within(t) \in BOOLEAN
    BY DEF Within
  <2> QED BY <1>2, <2>1 DEF Row
<1>4. rows \in Seq(Row)
  BY RowSeeds DEF CalcInv
<1>5. Len(rows) \in Nat
  BY <1>4
<1> HIDE DEF row
<1>6. /\ Append(rows, row) \in Seq(Row)
      /\ Len(Append(rows, row)) = Len(rows) + 1
      /\ \A i \in 1..Len(rows) : Append(rows, row)[i] = rows[i]
      /\ Append(rows, row)[Len(rows) + 1] = row
  BY <1>3, <1>4, AppendProperties
<1> QED BY <1>1, <1>2, <1>3, <1>5, <1>6

(* A seed is printed, counted and no longer in progress.                   *)
LEMMA RecordInv ==
  ASSUME CalcInv, NEW t \in Thread, Record(t) PROVE CalcInv'
<1> USE DEF CalcInv
<1>1. /\ pc[t] = "record"
      /\ seeds_in_progress' = seeds_in_progress \ {my_seed[t]}
      /\ UNCHANGED <<resume_seeds, current_seed, sigint, cpu, first_seed, my_seed,
                     streamlined, work, spent, start, late, final>>
      /\ \A u \in Thread : pc'[u] = IF u = t THEN "fetch" ELSE pc[u]
  BY DEF Record, Goto, TypeOK
<1>2. /\ rows' \in Seq(Row) /\ Len(rows) \in Nat /\ Len(rows') = Len(rows) + 1
      /\ \A i \in 1..Len(rows) : rows'[i] = rows[i]
      /\ rows'[Len(rows')].seed = my_seed[t] /\ rows'[Len(rows')].type = final[t]
      /\ \A i \in 1..Len(rows') : i \in 1..Len(rows) \/ i = Len(rows')
      /\ final[t] \in Types /\ my_seed[t] \in Nat
  BY RowPrinted
<1>3. TypeOK'
  <2>1. pc' \in [Thread -> {"start", "loop", "search", "record", "fetch", "done"}]
    BY DEF Record, Goto, TypeOK
  <2>2. seed_res' \in [Types \ {"TERMINATED"} -> Nat]
    BY <1>2 DEF Record, Counted, TypeOK
  <2> QED BY <1>1, <1>2, <2>1, <2>2 DEF TypeOK, Row
<1>4. /\ Holds(t) /\ SeedOf(t) = my_seed[t] /\ ~ Holds(t)'
      /\ \A u \in Thread \ {t} : (Holds(u)' <=> Holds(u)) /\ SeedOf(u)' = SeedOf(u)
  BY <1>1 DEF Holds, Waiting, AtSeed, SeedOf
<1>5. HeldOnce'
  <2>1. \A u \in Thread : Holds(u)' => u # t /\ Holds(u)
    BY <1>4
  <2>2. \A u \in Thread : Holds(u)' => \A i \in 1..Len(rows') : rows'[i].seed # SeedOf(u)'
    BY <1>2, <1>4, <2>1 DEF HeldOnce
  <2> QED BY <1>1, <1>4, <2>1, <2>2 DEF HeldOnce
<1>6. RowsOnce'
  <2>1. \A i \in 1..Len(rows) : rows[i].seed # my_seed[t]
    BY <1>4 DEF HeldOnce
  <2>2. my_seed[t] < current_seed
    BY <1>4 DEF HeldOnce
  <2>3. \A i \in 1..Len(rows') : rows'[i].seed < current_seed'
    BY <1>1, <1>2, <2>2 DEF RowsOnce
  <2>4. \A i, j \in 1..Len(rows') : rows'[i].seed = rows'[j].seed => i = j
    BY <1>2, <2>1 DEF RowsOnce
  <2> QED BY <2>3, <2>4 DEF RowsOnce
<1>7. NoSeedDropped'
  <2>1. Reported \subseteq Reported' /\ my_seed[t] \in Reported'
    <3>1. Len(rows') \in 1..Len(rows') /\ 1..Len(rows) \subseteq 1..Len(rows')
      BY <1>2
    <3>2. \A i \in 1..Len(rows) : rows'[i].seed = rows[i].seed
      BY <1>2
    <3>3. Reported \subseteq Reported'
      BY <3>1, <3>2 DEF Reported
    <3>4. my_seed[t] \in Reported'
      BY <1>2, <3>1 DEF Reported
    <3> QED BY <3>3, <3>4
  <2>2. \A u \in Thread \ {t} : AtSeed(u) => AtSeed(u)'
    BY <1>1 DEF AtSeed
  <2>3. \A u \in Thread : pc[u] = "start" => pc'[u] = "start"
    BY <1>1
  <2>4. HandedOut' = HandedOut
    BY <1>1 DEF HandedOut
  <2> QED BY <1>1, <2>1, <2>2, <2>3, <2>4 DEF NoSeedDropped
<1>8. SearchesBelow' /\ FinalIsRight'
  BY <1>1 DEF SearchesBelow, FinalIsRight
<1>10. VerdictsAreRight'
  BY <1>1, <1>2 DEF VerdictsAreRight, FinalIsRight
<1> QED BY <1>1, <1>3, <1>5, <1>6, <1>7, <1>8, <1>10

(* The wall clock of a search runs out.                                    *)
LEMMA DeadlineInv ==
  ASSUME CalcInv, NEW t \in Thread, Deadline(t) PROVE CalcInv'
<1> USE DEF CalcInv
<1>1. UNCHANGED <<resume_seeds, current_seed, seeds_in_progress, seed_res, sigint, cpu, rows,
                  first_seed, pc, my_seed, streamlined, work, spent, start, final>>
  BY DEF Deadline, shared
<1>2. late' \in [Thread -> BOOLEAN]
  BY DEF Deadline, TypeOK
<1>3. TypeOK'
  BY <1>1, <1>2 DEF TypeOK
<1>4. Seeds'
  BY <1>1, SeedsKept DEF Seeds, AtSeed
<1>5. SearchesBelow' /\ FinalIsRight' /\ VerdictsAreRight'
  BY <1>1 DEF SearchesBelow, FinalIsRight, VerdictsAreRight
<1> QED BY <1>1, <1>3, <1>4, <1>5 DEF Seeds

(* A signal comes, or nothing happens.                                     *)
LEMMA SignalInv ==
  ASSUME CalcInv, Signal \/ UNCHANGED vars PROVE CalcInv'
<1> USE DEF CalcInv
<1>1. UNCHANGED <<resume_seeds, current_seed, seeds_in_progress, seed_res, cpu, rows,
                  first_seed, pc, my_seed, streamlined, work, spent, start, late, final>>
  BY DEF Signal, vars, shared, locals
<1>2. sigint' \in BOOLEAN
  BY DEF Signal, TypeOK, vars, shared
<1>3. TypeOK'
  BY <1>1, <1>2 DEF TypeOK
<1>4. Seeds'
  BY <1>1, SeedsKept DEF Seeds, AtSeed
<1>5. SearchesBelow' /\ FinalIsRight' /\ VerdictsAreRight'
  BY <1>1 DEF SearchesBelow, FinalIsRight, VerdictsAreRight
<1> QED BY <1>1, <1>3, <1>4, <1>5 DEF Seeds

-----------------------------------------------------------------------------
(* CalcInv holds in every state of a calculation.                          *)
THEOREM CalcInvariant == Spec => []CalcInv
<1>1. CalcInv /\ [Next]_vars => CalcInv'
  BY StartInv, FinishInv, InsertInv, WorkInv, EndSearchInv, RecordInv, FetchInv,
     DeadlineInv, SignalInv
     DEF Next, Step
<1> QED BY <1>1, InitInv, PTL DEF Spec

(* Every variable of the calculation keeps to its type.                    *)
THEOREM CalcTypes == Spec => []TypeOK
<1>1. CalcInv => TypeOK
  BY DEF CalcInv
<1> QED BY <1>1, CalcInvariant, PTL

(* However the threads of solve_seeds interleave, no seed is solved twice. *)
THEOREM SeedsAreSolvedOnce == Spec => []OncePerSeed
<1>1. CalcInv => OncePerSeed
  <2> SUFFICES ASSUME CalcInv PROVE OncePerSeed
    OBVIOUS
  <2>1. \A t \in Thread : AtSeed(t) => Holds(t) /\ SeedOf(t) = my_seed[t]
    BY DEF Holds, AtSeed, SeedOf
  <2> QED BY <2>1 DEF CalcInv, HeldOnce, RowsOnce, OncePerSeed, Reported
<1> QED BY <1>1, CalcInvariant, PTL

(* And none is dropped, those of a resumed run included.                   *)
THEOREM SeedsAreKept == Spec => []NoSeedDropped
<1>1. CalcInv => NoSeedDropped
  BY DEF CalcInv
<1> QED BY <1>1, CalcInvariant, PTL

(* A deal is printed as solved only when it is, and as unsolvable only     *)
(* when it is or the cache that was asked for confuses its states: the     *)
(* misses of the first search of smart mode are never printed.             *)
THEOREM PrintedVerdicts == Spec => []VerdictsAreRight
<1>1. CalcInv => VerdictsAreRight
  BY DEF CalcInv
<1> QED BY <1>1, CalcInvariant, PTL

-----------------------------------------------------------------------------
(* The lines of one type.                                                  *)
RowsOf(type) == {i \in 1..Len(rows) : rows[i].type = type}

(* The line printed is the one counted.                                    *)
LEMMA RowCounted ==
  ASSUME CalcInv, CountsAddUp, NEW t \in Thread, Record(t) PROVE CountsAddUp'
<1>1. /\ Len(rows) \in Nat /\ Len(rows') = Len(rows) + 1
      /\ \A i \in 1..Len(rows) : rows'[i] = rows[i]
      /\ rows'[Len(rows')].type = final[t]
      /\ final[t] \in Types
  BY RowPrinted
<1>2. SUFFICES ASSUME NEW type \in Types \ {"TERMINATED"}
               PROVE  seed_res'[type] = ResumeCounts[type] + Cardinality(RowsOf(type)')
  BY DEF CountsAddUp, RowsOf
<1>3. /\ IsFiniteSet(RowsOf(type)) /\ Cardinality(RowsOf(type)) \in Nat
      /\ seed_res[type] = ResumeCounts[type] + Cardinality(RowsOf(type))
      /\ ResumeCounts[type] \in Nat
  <2>1. IsFiniteSet(1..Len(rows)) /\ RowsOf(type) \in SUBSET (1..Len(rows))
    BY <1>1, FS_Interval DEF RowsOf
  <2>2. IsFiniteSet(RowsOf(type))
    BY <2>1, FS_Subset
  <2>3. ResumeCounts[type] \in Nat
    BY CalcAssumption DEF Types
  <2> QED BY <2>2, <2>3, FS_CardinalityType DEF CountsAddUp, RowsOf
<1>4. seed_res'[type] = IF type = final[t] THEN seed_res[type] + 1 ELSE seed_res[type]
  BY <1>1 DEF Record, Counted, CalcInv, TypeOK
<1>5. CASE type = final[t]
  <2>1. RowsOf(type)' = RowsOf(type) \union {Len(rows) + 1}
    BY <1>1, <1>5 DEF RowsOf
  <2>2. Len(rows) + 1 \notin RowsOf(type)
    BY <1>1 DEF RowsOf
  <2>3. Cardinality(RowsOf(type) \union {Len(rows) + 1}) = Cardinality(RowsOf(type)) + 1
    BY <1>3, <2>2, FS_AddElement
  <2> QED BY <1>3, <1>4, <1>5, <2>1, <2>3
<1>6. CASE type # final[t]
  <2>1. RowsOf(type)' = RowsOf(type)
    BY <1>1, <1>6 DEF RowsOf
  <2> QED BY <1>3, <1>4, <1>6, <2>1
<1> QED BY <1>5, <1>6

(* The counts that are printed agree with the lines, but for the searches  *)
(* that a signal stopped (add_result).                                     *)
THEOREM CountsAreRight == Spec => []CountsAddUp
<1>1. Init => CountsAddUp
  <2> SUFFICES ASSUME Init, NEW type \in Types \ {"TERMINATED"}
               PROVE  seed_res[type] = ResumeCounts[type] + Cardinality(RowsOf(type))
    BY DEF CountsAddUp, RowsOf
  <2>1. /\ RowsOf(type) = {} /\ seed_res[type] = ResumeCounts[type]
        /\ ResumeCounts[type] \in Nat
    BY CalcAssumption DEF Init, RowsOf, Types
  <2> QED BY <2>1, FS_EmptySet
<1>2. CalcInv /\ CountsAddUp /\ [Next]_vars => CountsAddUp'
  <2> SUFFICES ASSUME CalcInv, CountsAddUp, [Next]_vars PROVE CountsAddUp'
    OBVIOUS
  <2>1. CASE \E t \in Thread : Record(t)
    BY <2>1, RowCounted
  <2>2. CASE ~ \E t \in Thread : Record(t)
    <3>1. UNCHANGED <<rows, seed_res>>
      BY <2>2 DEF Next, Step, Start, Finish, Insert, Work, EndSearch, Fetch, Deadline,
                  Signal, vars, shared
    <3> QED BY <3>1 DEF CountsAddUp
  <2> QED BY <2>1, <2>2
<1> QED BY <1>1, <1>2, CalcInvariant, PTL DEF Spec

-----------------------------------------------------------------------------
(* A thread that is alone has the clock of the process for itself.         *)
ClockInv ==
  \A t \in Thread :
    /\ pc[t] = "search" => cpu - start[t] = spent[t]
    /\ pc[t] = "record" /\ final[t] = "TIMEOUT" =>
         streamlined[t] \/ spent[t] >= Timeout \/ late[t]

LEMMA ClockStep ==
  ASSUME Cores = 1, CalcInv, ClockInv, BudgetIsOwnWork, NEW t \in Thread, Step(t)
  PROVE  ClockInv' /\ BudgetIsOwnWork'
<1> USE DEF CalcInv
<1>1. Thread = {t} /\ Timeout \in Nat /\ SmartTimeout \in Nat
  BY CalcAssumption DEF Thread
<1>2. /\ cpu \in Nat
      /\ pc \in [Thread -> {"start", "loop", "search", "record", "fetch", "done"}]
      /\ streamlined \in [Thread -> BOOLEAN] /\ final \in [Thread -> Types \union {"NONE"}]
      /\ work \in [Thread -> Nat] /\ spent \in [Thread -> Nat] /\ start \in [Thread -> Nat]
      /\ late \in [Thread -> BOOLEAN]
  BY DEF TypeOK
<1>3. ASSUME UNCHANGED rows PROVE BudgetIsOwnWork'
  BY <1>3 DEF BudgetIsOwnWork
<1>4. ASSUME pc'[t] \notin {"search", "record"} PROVE ClockInv'
  BY <1>1, <1>4 DEF ClockInv
<1>5. ASSUME NEW smart, BeginSearch(t, smart), UNCHANGED cpu PROVE ClockInv'
  <2>1. pc'[t] = "search" /\ spent'[t] = 0 /\ start'[t] = cpu /\ cpu' = cpu
    BY <1>2, <1>5 DEF BeginSearch, Goto
  <2> QED BY <1>1, <1>2, <2>1 DEF ClockInv
<1>6. CASE Start(t) \/ Finish(t) \/ Fetch(t)
  <2>1. UNCHANGED rows /\ pc'[t] \in {"loop", "done"}
    BY <1>2, <1>6 DEF Start, Finish, Fetch, Goto, shared
  <2> QED BY <1>3, <1>4, <2>1
<1>7. CASE Insert(t)
  BY <1>3, <1>5, <1>7 DEF Insert
<1>8. CASE Work(t)
  <2>1. pc'[t] = "search" /\ spent'[t] = spent[t] + 1 /\ start'[t] = start[t] /\ cpu' = cpu + 1
    BY <1>2, <1>8 DEF Work
  <2>2. cpu - start[t] = spent[t]
    BY <1>8 DEF Work, ClockInv
  <2>3. (cpu + 1) - start[t] = spent[t] + 1
    BY <1>2, <2>2
  <2>4. ClockInv'
    BY <1>1, <2>1, <2>3 DEF ClockInv
  <2> QED BY <1>3, <1>8, <2>4 DEF Work
<1>9. CASE EndSearch(t)
  <2>1. pc[t] = "search" /\ UNCHANGED <<rows, cpu>> /\ cpu - start[t] = spent[t]
    BY <1>9 DEF EndSearch, shared, ClockInv
  <2>2. PICK type \in Outcomes(t) :
          IF SearchesAgain(t, type)
          THEN BeginSearch(t, FALSE) /\ UNCHANGED final
          ELSE /\ Goto(t, "record")
               /\ final' = [final EXCEPT ![t] = type]
               /\ UNCHANGED <<streamlined, work, spent, start, late>>
    BY <1>9 DEF EndSearch
  <2>3. CASE SearchesAgain(t, type)
    BY <1>3, <1>5, <2>1, <2>2, <2>3
  <2>4. CASE ~ SearchesAgain(t, type)
    <3>1. /\ pc'[t] = "record" /\ final'[t] = type
          /\ streamlined' = streamlined /\ spent' = spent /\ late' = late
      BY <1>2, <2>2, <2>4 DEF Goto
    <3>2. ASSUME type = "TIMEOUT", ~ streamlined[t], ~ late[t] PROVE spent[t] >= Timeout
      <4>1. OverBudget(t)
        BY <2>2, <3>2 DEF Outcomes
      <4>2. cpu - start[t] >= Timeout
        BY <3>2, <4>1 DEF OverBudget, Budget
      <4> QED BY <2>1, <4>2
    <3>3. ClockInv'
      BY <1>1, <3>1, <3>2 DEF ClockInv
    <3> QED BY <1>3, <2>1, <3>3
  <2> QED BY <2>3, <2>4
<1>10. CASE Record(t)
  <2>1. /\ Len(rows) \in Nat /\ Len(rows') = Len(rows) + 1
        /\ \A i \in 1..Len(rows) : rows'[i] = rows[i]
        /\ rows'[Len(rows) + 1] = [seed |-> my_seed[t], type |-> final[t],
                                   within |-> Within(t)]
        /\ pc'[t] = "fetch" /\ pc[t] = "record"
    <3>1. rows \in Seq(Row)
      BY RowSeeds
    <3> QED BY <1>2, <1>10, <3>1 DEF Record, Goto
  <2>2. final[t] = "TIMEOUT" => streamlined[t] \/ spent[t] >= Timeout \/ late[t]
    BY <2>1 DEF ClockInv
  <2>3. ASSUME final[t] = "TIMEOUT" PROVE ~ Within(t)
    <3>1. spent[t] \in Nat
      BY <1>2
    <3>2. spent[t] >= Timeout => ~ (spent[t] < Timeout)
      BY <1>1, <3>1
    <3> QED BY <2>2, <2>3, <3>2 DEF Within
  <2>4. ASSUME NEW i \in 1..Len(rows'), rows'[i].type = "TIMEOUT" PROVE ~ rows'[i].within
    <3>1. CASE i \in 1..Len(rows)
      BY <2>1, <2>4, <3>1 DEF BudgetIsOwnWork
    <3>2. CASE i = Len(rows) + 1
      <4>1. /\ rows'[i].type = final[t]
            /\ rows'[i].within = Within(t)
        BY <2>1, <3>2
      <4> QED BY <2>3, <2>4, <4>1
    <3> QED BY <2>1, <3>1, <3>2
  <2> QED BY <1>4, <2>1, <2>4 DEF BudgetIsOwnWork
<1> QED BY <1>6, <1>7, <1>8, <1>9, <1>10 DEF Step

(* With one thread, a search that times out before its wall deadline has   *)
(* used up its budget itself: process_cpu_ns is its own work.              *)
THEOREM BudgetOfOneThread == Cores = 1 /\ Spec => []BudgetIsOwnWork
<1>1. Init => ClockInv /\ BudgetIsOwnWork
  BY DEF Init, ClockInv, BudgetIsOwnWork
<1>2. Cores = 1 /\ CalcInv /\ ClockInv /\ BudgetIsOwnWork /\ [Next]_vars
        => ClockInv' /\ BudgetIsOwnWork'
  <2> SUFFICES ASSUME Cores = 1, CalcInv, ClockInv, BudgetIsOwnWork, [Next]_vars
               PROVE  ClockInv' /\ BudgetIsOwnWork'
    OBVIOUS
  <2>1. CASE Signal \/ UNCHANGED vars
    BY <2>1 DEF Signal, vars, shared, locals, ClockInv, BudgetIsOwnWork
  <2>2. ASSUME NEW t \in Thread, Step(t) PROVE ClockInv' /\ BudgetIsOwnWork'
    BY <2>2, ClockStep
  <2>3. ASSUME NEW t \in Thread, Deadline(t) PROVE ClockInv' /\ BudgetIsOwnWork'
    <3>1. /\ UNCHANGED <<rows, cpu, pc, streamlined, spent, start, final>>
          /\ pc[t] = "search"
          /\ \A u \in Thread \ {t} : late'[u] = late[u]
      BY <2>3 DEF Deadline, shared, CalcInv, TypeOK
    <3> QED BY <3>1 DEF ClockInv, BudgetIsOwnWork
  <2> QED BY <2>1, <2>2, <2>3 DEF Next
<1>3. CASE Cores = 1
  BY <1>1, <1>2, <1>3, CalcInvariant, PTL DEF Spec
<1> QED BY <1>3

-----------------------------------------------------------------------------
(* The table.                                                              *)

Inconclusive == {"UNSOLVABLE", "TIMEOUT"}

(* Of the search with streamliners, when another follows it or none was    *)
(* made; of both searches, when type is the result of the seed.            *)
PutAside(first) ==
  \/ first = {}
  \/ Smart /\ \E type \in Inconclusive : first = {type}

RightResults(first, second, type) ==
  \/ Smart /\ first = {type} /\ second = {}
  \/ PutAside(first) /\ second = {type}

ThreadResults(t) ==
  /\ pc[t] = "search" =>
       /\ no_stream_res[t] = {}
       /\ IF streamlined[t] THEN Smart /\ stream_res[t] = {} ELSE PutAside(stream_res[t])
  /\ pc[t] = "record" => RightResults(stream_res[t], no_stream_res[t], final[t])

Line == [seed : Nat, stream_res : SUBSET Types, no_stream_res : SUBSET Types]

TableInv ==
  /\ stream_res \in [Thread -> SUBSET Types] /\ no_stream_res \in [Thread -> SUBSET Types]
  /\ lines \in Seq(Line) /\ Len(lines) = Len(rows)
  /\ \A t \in Thread : ThreadResults(t)
  /\ \A k \in 1..Len(lines) :
       RightResults(lines[k].stream_res, lines[k].no_stream_res, rows[k].type)

-----------------------------------------------------------------------------
(* SolvabilityTable adds to SolvabilityCalc and leaves its steps as they   *)
(* are.                                                                    *)
LEMMA TableIsCalc == TableSpec => Spec
<1>1. TableInit => Init
  BY DEF TableInit
<1>2. [TableNext]_table_vars => [Next]_vars
  BY DEF TableNext, TableStep, TableInsert, TableEndSearch, TableRecord, Next, Step, table_vars
<1> QED BY <1>1, <1>2, PTL DEF TableSpec, Spec

LEMMA TableInitInv ==
  ASSUME TableInit PROVE TableInv
<1>1. /\ lines = <<>> /\ rows = <<>> /\ \A t \in Thread : pc[t] = "start"
      /\ stream_res = [t \in Thread |-> {}] /\ no_stream_res = [t \in Thread |-> {}]
  BY DEF TableInit, Init
<1>2. lines \in Seq(Line) /\ Len(lines) = 0 /\ Len(rows) = 0
  BY <1>1
<1> QED BY <1>1, <1>2 DEF TableInv, ThreadResults

(* A step that leaves the results, the lines and the other threads as they *)
(* are needs to be looked at for its own thread only.                      *)
LEMMA OtherThreads ==
  ASSUME TableInv, UNCHANGED <<rows, lines>>, NEW t \in Thread,
         stream_res' \in [Thread -> SUBSET Types], no_stream_res' \in [Thread -> SUBSET Types],
         \A u \in Thread \ {t} :
           /\ pc'[u] = pc[u] /\ streamlined'[u] = streamlined[u] /\ final'[u] = final[u]
           /\ stream_res'[u] = stream_res[u] /\ no_stream_res'[u] = no_stream_res[u],
         ThreadResults(t)'
  PROVE  TableInv'
<1>1. ASSUME NEW u \in Thread \ {t} PROVE ThreadResults(u)'
  <2>1. /\ ThreadResults(u)
        /\ pc'[u] = pc[u] /\ streamlined'[u] = streamlined[u] /\ final'[u] = final[u]
        /\ stream_res'[u] = stream_res[u] /\ no_stream_res'[u] = no_stream_res[u]
    BY DEF TableInv
  <2> QED BY <2>1 DEF ThreadResults, PutAside, RightResults
<1> QED BY <1>1 DEF TableInv

(* Outside of its searches a thread has no results to look at.             *)
LEMMA Elsewhere ==
  ASSUME CalcInv, TableInv, NEW t \in Thread, UNCHANGED table,
         Start(t) \/ Finish(t) \/ Work(t) \/ Fetch(t)
  PROVE  TableInv'
<1>1. /\ UNCHANGED <<rows, lines, stream_res, no_stream_res, streamlined, final>>
      /\ pc' = pc \/ pc' = [pc EXCEPT ![t] = "loop"] \/ pc' = [pc EXCEPT ![t] = "done"]
  BY DEF table, Start, Finish, Work, Fetch, FetchNext, Goto, shared
<1>2. pc \in [Thread -> {"start", "loop", "search", "record", "fetch", "done"}]
  BY DEF CalcInv, TypeOK
<1>3. /\ \A u \in Thread \ {t} : pc'[u] = pc[u]
      /\ pc'[t] = pc[t] \/ pc'[t] \in {"loop", "done"}
  BY <1>1, <1>2
<1>4. ThreadResults(t)'
  <2>1. CASE pc'[t] = pc[t]
    BY <1>1, <2>1 DEF TableInv, ThreadResults, PutAside, RightResults
  <2>2. CASE pc'[t] \in {"loop", "done"}
    BY <2>2 DEF ThreadResults
  <2> QED BY <1>3, <2>1, <2>2
<1>5. stream_res' \in [Thread -> SUBSET Types] /\ no_stream_res' \in [Thread -> SUBSET Types]
  BY <1>1 DEF TableInv
<1> QED BY <1>1, <1>3, <1>4, <1>5, OtherThreads

LEMMA TableInsertInv ==
  ASSUME CalcInv, TableInv, NEW t \in Thread, TableInsert(t)
  PROVE  TableInv'
<1>1. /\ UNCHANGED <<rows, lines, final>> /\ Smart \in BOOLEAN
      /\ stream_res' = [stream_res EXCEPT ![t] = {}]
      /\ no_stream_res' = [no_stream_res EXCEPT ![t] = {}]
      /\ pc' = [pc EXCEPT ![t] = "search"] /\ streamlined' = [streamlined EXCEPT ![t] = Smart]
  BY CalcAssumption DEF TableInsert, Insert, BeginSearch, Goto
<1>2. /\ pc \in [Thread -> {"start", "loop", "search", "record", "fetch", "done"}]
      /\ streamlined \in [Thread -> BOOLEAN]
      /\ stream_res \in [Thread -> SUBSET Types] /\ no_stream_res \in [Thread -> SUBSET Types]
  BY DEF CalcInv, TypeOK, TableInv
<1>3. /\ pc'[t] = "search" /\ streamlined'[t] = Smart
      /\ stream_res'[t] = {} /\ no_stream_res'[t] = {}
      /\ \A u \in Thread \ {t} :
           /\ pc'[u] = pc[u] /\ streamlined'[u] = streamlined[u] /\ final'[u] = final[u]
           /\ stream_res'[u] = stream_res[u] /\ no_stream_res'[u] = no_stream_res[u]
  BY <1>1, <1>2
<1>4. stream_res' \in [Thread -> SUBSET Types] /\ no_stream_res' \in [Thread -> SUBSET Types]
  BY <1>1, <1>2
<1>5. ThreadResults(t)'
  <2>1. \A first : first = {} => PutAside(first)
    BY DEF PutAside
  <2>2. streamlined'[t] => Smart
    BY <1>3
  <2> QED BY <1>3, <2>1, <2>2 DEF ThreadResults
<1> QED BY <1>1, <1>3, <1>4, <1>5, OtherThreads
(* A search that ends leaves its result with the thread; one with          *)
(* streamliners that decided nothing is followed by another.               *)
LEMMA TableEndSearchInv ==
  ASSUME CalcInv, TableInv, NEW t \in Thread, TableEndSearch(t)
  PROVE  TableInv'
<1>1. /\ EndSearch(t) /\ pc[t] = "search" /\ UNCHANGED <<rows, lines>>
      /\ stream_res \in [Thread -> SUBSET Types] /\ no_stream_res \in [Thread -> SUBSET Types]
      /\ pc \in [Thread -> {"start", "loop", "search", "record", "fetch", "done"}]
      /\ streamlined \in [Thread -> BOOLEAN] /\ final \in [Thread -> Types \union {"NONE"}]
  BY DEF TableEndSearch, EndSearch, shared, CalcInv, TypeOK, TableInv
<1>2. PICK type \in Outcomes(t) :
        /\ Keep(t, type)
        /\ IF pc'[t] = "record" THEN final'[t] = type ELSE SearchesAgain(t, type)
  BY DEF TableEndSearch
<1>3. type \in Types
  BY DEF Outcomes, Types
<1>4. /\ no_stream_res[t] = {}
      /\ streamlined[t] = TRUE => Smart /\ stream_res[t] = {}
      /\ streamlined[t] = FALSE => PutAside(stream_res[t])
  BY <1>1 DEF TableInv, ThreadResults
<1>5. /\ streamlined[t] = TRUE => /\ stream_res' = [stream_res EXCEPT ![t] = {type}]
                                  /\ no_stream_res' = no_stream_res
      /\ streamlined[t] = FALSE => /\ no_stream_res' = [no_stream_res EXCEPT ![t] = {type}]
                                   /\ stream_res' = stream_res
  BY <1>2 DEF Keep
<1>6. streamlined[t] \in BOOLEAN
  BY <1>1
<1>7. /\ stream_res' \in [Thread -> SUBSET Types] /\ no_stream_res' \in [Thread -> SUBSET Types]
      /\ \A u \in Thread \ {t} :
           stream_res'[u] = stream_res[u] /\ no_stream_res'[u] = no_stream_res[u]
      /\ streamlined[t] = TRUE => stream_res'[t] = {type} /\ no_stream_res'[t] = {}
      /\ streamlined[t] = FALSE => no_stream_res'[t] = {type} /\ stream_res'[t] = stream_res[t]
  <2>1. {type} \in SUBSET Types
    BY <1>3
  <2>2. CASE streamlined[t] = TRUE
    BY <1>1, <1>4, <1>5, <2>1, <2>2
  <2>3. CASE streamlined[t] = FALSE
    BY <1>1, <1>4, <1>5, <2>1, <2>3
  <2> QED BY <1>6, <2>2, <2>3
<1>8. PICK last \in Outcomes(t) :
        IF SearchesAgain(t, last)
        THEN BeginSearch(t, FALSE) /\ UNCHANGED final
        ELSE /\ Goto(t, "record")
             /\ final' = [final EXCEPT ![t] = last]
             /\ UNCHANGED <<streamlined, work, spent, start, late>>
  BY <1>1 DEF EndSearch
<1>9. CASE SearchesAgain(t, last)
  <2>1. /\ pc' = [pc EXCEPT ![t] = "search"] /\ streamlined' = [streamlined EXCEPT ![t] = FALSE]
        /\ final' = final
    BY <1>8, <1>9 DEF BeginSearch, Goto
  <2>2. /\ pc'[t] = "search" /\ streamlined'[t] = FALSE
        /\ \A u \in Thread \ {t} :
             pc'[u] = pc[u] /\ streamlined'[u] = streamlined[u] /\ final'[u] = final[u]
    BY <1>1, <2>1
  <2>3. streamlined[t] = TRUE /\ type \in Inconclusive
    BY <1>2, <1>6, <2>2 DEF SearchesAgain, Inconclusive
  <2>4. ThreadResults(t)'
    BY <1>4, <1>7, <2>2, <2>3 DEF ThreadResults, PutAside
  <2> QED BY <1>1, <1>7, <2>2, <2>4, OtherThreads
<1>10. CASE ~ SearchesAgain(t, last)
  <2>1. /\ pc' = [pc EXCEPT ![t] = "record"] /\ final' = [final EXCEPT ![t] = last]
        /\ streamlined' = streamlined
    BY <1>8, <1>10 DEF Goto
  <2>2. /\ pc'[t] = "record"
        /\ \A u \in Thread \ {t} :
             pc'[u] = pc[u] /\ streamlined'[u] = streamlined[u] /\ final'[u] = final[u]
    BY <1>1, <2>1
  <2>3. final'[t] = type
    BY <1>2, <2>2
  <2>4. RightResults(stream_res'[t], no_stream_res'[t], type)
    BY <1>4, <1>6, <1>7 DEF RightResults
  <2>5. ThreadResults(t)'
    BY <2>2, <2>3, <2>4 DEF ThreadResults
  <2> QED BY <1>1, <1>7, <2>2, <2>5, OtherThreads
<1> QED BY <1>9, <1>10

(* The line of a seed tells its results.                                   *)
LEMMA TableRecordInv ==
  ASSUME CalcInv, TableInv, NEW t \in Thread, TableRecord(t)
  PROVE  TableInv'
<1> DEFINE line == [seed |-> my_seed[t], stream_res |-> stream_res[t],
                    no_stream_res |-> no_stream_res[t]]
<1>1. /\ Record(t) /\ pc[t] = "record" /\ lines' = Append(lines, line)
      /\ UNCHANGED <<stream_res, no_stream_res, streamlined, final>>
      /\ pc' = [pc EXCEPT ![t] = "fetch"]
      /\ rows' = Append(rows, [seed |-> my_seed[t], type |-> final[t],
                               within |-> Within(t)])
  BY DEF TableRecord, Record, Goto
<1>2. /\ stream_res \in [Thread -> SUBSET Types] /\ no_stream_res \in [Thread -> SUBSET Types]
      /\ pc \in [Thread -> {"start", "loop", "search", "record", "fetch", "done"}]
      /\ lines \in Seq(Line) /\ Len(lines) = Len(rows) /\ my_seed[t] \in Nat
  BY <1>1 DEF CalcInv, TypeOK, SearchesBelow, TableInv
<1>3. line \in Line
  BY <1>2 DEF Line
<1> HIDE DEF line
<1>4. /\ lines' \in Seq(Line) /\ Len(lines') = Len(lines) + 1 /\ lines'[Len(lines) + 1] = line
      /\ \A k \in 1..Len(lines) : lines'[k] = lines[k]
  BY <1>1, <1>2, <1>3
<1>5. /\ Len(rows') = Len(rows) + 1 /\ rows'[Len(rows) + 1].type = final[t]
      /\ \A k \in 1..Len(rows) : rows'[k] = rows[k]
  <2>1. rows \in Seq(Row)
    BY RowSeeds DEF CalcInv
  <2>2. /\ Len(rows') = Len(rows) + 1
        /\ rows'[Len(rows) + 1] = [seed |-> my_seed[t], type |-> final[t],
                                   within |-> Within(t)]
        /\ \A k \in 1..Len(rows) : rows'[k] = rows[k]
    BY <1>1, <2>1
  <2> QED BY <2>2
<1>6. RightResults(stream_res[t], no_stream_res[t], final[t])
  BY <1>1 DEF TableInv, ThreadResults
<1>7. /\ line.stream_res = stream_res[t] /\ line.no_stream_res = no_stream_res[t]
  BY DEF line
<1>8. ASSUME NEW k \in 1..Len(lines')
      PROVE  RightResults(lines'[k].stream_res, lines'[k].no_stream_res, rows'[k].type)
  <2>1. CASE k \in 1..Len(lines)
    <3>1. RightResults(lines[k].stream_res, lines[k].no_stream_res, rows[k].type)
      BY <2>1 DEF TableInv
    <3>2. lines'[k] = lines[k] /\ rows'[k] = rows[k]
      BY <1>2, <1>4, <1>5, <2>1
    <3> QED BY <3>1, <3>2
  <2>2. CASE k = Len(lines) + 1
    <3>1. lines'[k] = line /\ rows'[k].type = final[t]
      BY <1>2, <1>4, <1>5, <2>2
    <3> QED BY <1>6, <1>7, <3>1
  <2>3. Len(lines) \in Nat
    BY <1>2
  <2> QED BY <1>4, <2>1, <2>2, <2>3
<1>9. ASSUME NEW u \in Thread PROVE ThreadResults(u)'
  <2>1. CASE u = t
    <3>1. pc'[t] = "fetch"
      BY <1>1, <1>2
    <3> QED BY <2>1, <3>1 DEF ThreadResults
  <2>2. CASE u # t
    <3>1. pc'[u] = pc[u]
      BY <1>1, <1>2, <2>2
    <3> QED BY <1>1, <3>1 DEF TableInv, ThreadResults, PutAside, RightResults
  <2> QED BY <2>1, <2>2
<1> QED BY <1>1, <1>2, <1>4, <1>5, <1>8, <1>9 DEF TableInv

(* What TableInv says holds of every table.                                *)
THEOREM TableInvariant == TableSpec => []TableInv
<1>1. TableInit => TableInv
  BY TableInitInv
<1>2. CalcInv /\ TableInv /\ [TableNext]_table_vars => TableInv'
  <2> SUFFICES ASSUME CalcInv, TableInv, [TableNext]_table_vars PROVE TableInv'
    OBVIOUS
  <2>1. ASSUME UNCHANGED <<pc, streamlined, final, rows, table>> PROVE TableInv'
    BY <2>1 DEF table, TableInv, ThreadResults, PutAside, RightResults
  <2>2. CASE UNCHANGED table_vars
    BY <2>1, <2>2 DEF table_vars, vars, shared, locals
  <2>3. CASE \/ Signal /\ UNCHANGED table
             \/ \E t \in Thread : Deadline(t) /\ UNCHANGED table
    BY <2>1, <2>3 DEF Signal, Deadline, locals, shared
  <2>4. ASSUME NEW t \in Thread, TableStep(t) PROVE TableInv'
    BY <2>4, TableInsertInv, TableEndSearchInv, TableRecordInv, Elsewhere DEF TableStep
  <2> QED BY <2>2, <2>3, <2>4 DEF TableNext
<1> QED BY <1>1, <1>2, TableIsCalc, CalcInvariant, PTL DEF TableSpec

-----------------------------------------------------------------------------
(* What CellsOf, Header and Named are made of, place by place.             *)
Name == {Fields[i] : i \in 1..11} \union {"", "seed", "overall"}
ACell == [name : Name, of : {"", "streamlined", "plain"}, is : Types \union {"", "number"}]

(* Rows of n cells.                                                        *)
Cells(n) == {s \in Seq(ACell) : Len(s) = n}

LEMMA ElevenFields == Len(Fields) = 11 /\ DOMAIN Fields = 1..11
  BY DEF Fields

(* The three lists agree: both of print_header name, after the seed, what  *)
(* print_result_csv prints, in its order.                                  *)
LEMMA ListsAgree ==
  /\ DOMAIN StreamlinerTitles = 1..12 /\ DOMAIN PlainTitles = 1..13
  /\ StreamlinerTitles[1] = "seed" /\ PlainTitles[1] = "seed"
  /\ PlainTitles[13] = "overall"
  /\ \A i \in 1..11 : /\ StreamlinerTitles[1 + i] = Fields[i]
                       /\ PlainTitles[1 + i] = Fields[i]
                       /\ Fields[i] # "seed"
<1>1. ASSUME NEW i \in 1..11
      PROVE  i \in {1, 2, 3, 4, 5, 6, 7, 8, 9, 10, 11}
  OBVIOUS
<1>2. /\ \A i \in {1, 2, 3, 4} : /\ StreamlinerTitles[1 + i] = Fields[i]
                                 /\ PlainTitles[1 + i] = Fields[i] /\ Fields[i] # "seed"
      /\ \A i \in {5, 6, 7, 8} : /\ StreamlinerTitles[1 + i] = Fields[i]
                                 /\ PlainTitles[1 + i] = Fields[i] /\ Fields[i] # "seed"
      /\ \A i \in {9, 10, 11} : /\ StreamlinerTitles[1 + i] = Fields[i]
                                /\ PlainTitles[1 + i] = Fields[i] /\ Fields[i] # "seed"
  BY DEF StreamlinerTitles, PlainTitles, Fields
<1>3. /\ DOMAIN StreamlinerTitles = 1..12 /\ DOMAIN PlainTitles = 1..13
      /\ StreamlinerTitles[1] = "seed" /\ PlainTitles[1] = "seed"
      /\ PlainTitles[13] = "overall"
  BY DEF StreamlinerTitles, PlainTitles
<1> QED BY <1>1, <1>2, <1>3

LEMMA RowsAreCells ==
  ASSUME NEW n \in Nat, NEW f \in [1..n -> ACell]
  PROVE  f \in Cells(n)
BY DEF Cells

LEMMA SomeCells ==
  ASSUME NEW f, f = [i \in DOMAIN Fields |-> f[i]], \A i \in 1..11 : f[i] \in ACell
  PROVE  f \in Cells(11)
<1>1. f = [i \in 1..11 |-> f[i]]
  BY ElevenFields
<1>2. f \in [1..11 -> ACell]
  BY <1>1
<1> QED BY <1>2, RowsAreCells

LEMMA FieldNames == \A i \in 1..11 : Fields[i] \in Name
  BY DEF Name

(* The cells of a search are blank or named by its fields.                 *)
LEMMA SearchCellsAre ==
  ASSUME NEW results \in SUBSET Types, NEW of \in {"streamlined", "plain"}
  PROVE  /\ SearchCells(results, of) \in Cells(11)
         /\ \A i \in 1..11 :
              \/ SearchCells(results, of)[i] = Blank
              \/ /\ SearchCells(results, of)[i].name = Fields[i]
                 /\ SearchCells(results, of)[i].of = of
<1>1. CASE results = {}
  <2>1. /\ SearchCells(results, of) = NullCells
        /\ \A i \in 1..11 : NullCells[i] = Blank /\ Blank \in ACell
        /\ NullCells = [i \in DOMAIN Fields |-> NullCells[i]]
    BY <1>1, ElevenFields DEF SearchCells, NullCells, Blank, Cell, ACell, Name
  <2> QED BY <2>1, SomeCells
<1>2. CASE results # {}
  <2> DEFINE result == Only(results)
             cells == ResultCells(of, result)
  <2>1. SearchCells(results, of) = cells /\ result \in Types
    BY <1>2 DEF SearchCells, Only
  <2> HIDE DEF result
  <2>2. \A i \in 1..11 : cells[i] = Cell(Fields[i], of, IF i = 1 THEN result ELSE "number")
    BY ElevenFields DEF ResultCells
  <2>3. cells = [i \in DOMAIN Fields |-> cells[i]]
    BY DEF ResultCells
  <2>4. \A i \in 1..11 : (IF i = 1 THEN result ELSE "number") \in Types \union {"number"}
    BY <2>1
  <2>5. \A i \in 1..11 : cells[i] \in ACell /\ cells[i].name = Fields[i] /\ cells[i].of = of
    <3> TAKE i \in 1..11
    <3> DEFINE is == IF i = 1 THEN result ELSE "number"
    <3>1. cells[i] = [name |-> Fields[i], of |-> of, is |-> is] /\ Fields[i] \in Name
      BY <2>2, FieldNames DEF Cell
    <3>2. is \in Types \union {"", "number"} /\ of \in {"", "streamlined", "plain"}
      BY <2>4
    <3> HIDE DEF is, cells
    <3>3. [name |-> Fields[i], of |-> of, is |-> is] \in ACell
      BY <3>1, <3>2 DEF ACell
    <3> QED BY <3>1, <3>3
  <2> HIDE DEF cells
  <2> QED BY <2>1, <2>3, <2>5, SomeCells
<1> QED BY <1>1, <1>2

(* A row of l cells is one of m and one of n.                              *)
IsJoin(q, l, s, m, r, n) ==
  /\ q \in Cells(l)
  /\ \A i \in 1..m : q[i] = s[i]
  /\ \A i \in 1..n : q[m + i] = r[i]

LEMMA TwoParts ==
  ASSUME NEW m \in Nat, NEW n \in Nat, NEW l, l = m + n, NEW s \in Cells(m), NEW r \in Cells(n)
  PROVE  IsJoin(s \o r, l, s, m, r, n)
<1>1. s \in Seq(ACell) /\ r \in Seq(ACell) /\ Len(s) = m /\ Len(r) = n
  BY DEF Cells
<1>2. /\ s \o r \in Seq(ACell) /\ Len(s \o r) = Len(s) + Len(r)
      /\ \A i \in 1..(Len(s) + Len(r)) : (s \o r)[i] = IF i <= Len(s) THEN s[i] ELSE r[i - Len(s)]
  BY <1>1, ConcatProperties
<1>3. /\ s \o r \in Seq(ACell) /\ Len(s \o r) = m + n
      /\ \A i \in 1..(m + n) : (s \o r)[i] = IF i <= m THEN s[i] ELSE r[i - m]
  BY <1>1, <1>2
<1>4. ASSUME NEW i \in 1..n PROVE (s \o r)[m + i] = r[i]
  <2>1. m + i \in 1..(m + n) /\ ~ (m + i <= m) /\ (m + i) - m = i
    OBVIOUS
  <2> QED BY <1>3, <2>1
<1>5. \A i \in 1..m : i \in 1..(m + n) /\ i <= m
  OBVIOUS
<1> QED BY <1>3, <1>4, <1>5 DEF Cells, IsJoin

LEMMA OneCell ==
  ASSUME NEW c \in ACell
  PROVE  <<c>> \in Cells(1) /\ <<c>>[1] = c
BY DEF Cells

LEMMA Sums ==
  /\ 1 \in Nat /\ 11 \in Nat /\ 12 \in Nat /\ 13 \in Nat /\ 23 \in Nat
  /\ 12 = 1 + 11 /\ 13 = 1 + 12 /\ 13 = 12 + 1 /\ 23 = 12 + 11 /\ 24 = 23 + 1
  /\ 26 = 13 + 13
OBVIOUS

-----------------------------------------------------------------------------
(* The sets of results that a line has.                                    *)
LEMMA LineIs ==
  ASSUME TableInv, CalcInv, NEW k \in DOMAIN lines
  PROVE  /\ k \in 1..Len(lines) /\ k \in 1..Len(rows) /\ rows[k].type \in Types
         /\ lines[k].stream_res \in SUBSET Types /\ lines[k].no_stream_res \in SUBSET Types
         /\ RightResults(lines[k].stream_res, lines[k].no_stream_res, rows[k].type)
<1>1. /\ lines \in Seq(Line) /\ Len(lines) = Len(rows) /\ rows \in Seq(Row)
  BY RowSeeds DEF TableInv, CalcInv
<1>2. k \in 1..Len(lines) /\ k \in 1..Len(rows)
  BY <1>1
<1>3. lines[k] \in Line /\ rows[k] \in Row
  BY <1>1, <1>2
<1> QED BY <1>2, <1>3 DEF TableInv, Line, Row

LEMMA OverallIs ==
  ASSUME TableInv, CalcInv, NEW k \in DOMAIN lines
  PROVE  Overall(lines[k]) = rows[k].type
<1> DEFINE line == lines[k]
           type == rows[k].type
<1>1. RightResults(line.stream_res, line.no_stream_res, type)
  BY LineIs
<1> HIDE DEF line, type
<1>2. \A S, x : S = {x} => Only(S) = x
  BY DEF Only
<1>3. ASSUME line.stream_res = {type}, line.no_stream_res = {} PROVE Overall(line) = type
  BY <1>2, <1>3 DEF Overall
<1>4. ASSUME line.no_stream_res = {type} PROVE Overall(line) = type
  BY <1>2, <1>4 DEF Overall
<1>5. Overall(line) = type
  BY <1>1, <1>3, <1>4 DEF RightResults
<1> QED BY <1>5 DEF line, type

(* A line: the seed, in smart mode the cells of the search with            *)
(* streamliners, those of the search without, and the result.              *)
LEMMA LineCells ==
  ASSUME TableInv, CalcInv, NEW k \in DOMAIN lines
  PROVE  LET cells == CellsOf(lines[k])
             width == IF Smart THEN 24 ELSE 13
             plain == IF Smart THEN 12 ELSE 1
         IN /\ cells \in Cells(width)
            /\ cells[1] = Cell("seed", "", "number")
            /\ Smart => \A i \in 1..11 :
                 cells[1 + i] = SearchCells(lines[k].stream_res, "streamlined")[i]
            /\ \A i \in 1..11 : cells[plain + i] = SearchCells(lines[k].no_stream_res, "plain")[i]
            /\ cells[width] = Cell("overall", "plain", rows[k].type)
<1> DEFINE smart == SearchCells(lines[k].stream_res, "streamlined")
           alone == SearchCells(lines[k].no_stream_res, "plain")
           seed == Cell("seed", "", "number")
           overall == Cell("overall", "plain", rows[k].type)
           cells == CellsOf(lines[k])
<1>1. /\ smart \in Cells(11)
      /\ alone \in Cells(11)
  BY LineIs, SearchCellsAre
<1>2. seed \in ACell /\ overall \in ACell
  <2>1. rows[k].type \in Types
    BY LineIs
  <2> QED BY <2>1 DEF Cell, ACell, Name
<1>3. cells = ((<<seed>> \o (IF Smart THEN smart ELSE <<>>)) \o alone) \o <<overall>>
  BY OverallIs DEF CellsOf
<1> HIDE DEF smart, alone, seed, overall, cells
<1>4. <<seed>> \in Cells(1) /\ <<seed>>[1] = seed /\ <<overall>> \in Cells(1) /\ <<overall>>[1] = overall
  BY <1>2, OneCell
<1>5. CASE Smart
  <2> DEFINE a == <<seed>> \o smart
             b == a \o alone
             c == b \o <<overall>>
  <2>1. cells = c
    BY <1>3, <1>5
  <2>2. IsJoin(a, 12, <<seed>>, 1, smart, 11)
    BY <1>1, <1>4, Sums, TwoParts, Zenon
  <2> HIDE DEF a
  <2>3. a \in Cells(12)
    BY <2>2 DEF IsJoin
  <2>4. IsJoin(b, 23, a, 12, alone, 11)
    BY <1>1, <2>3, Sums, TwoParts, Zenon
  <2> HIDE DEF b
  <2>5. b \in Cells(23)
    BY <2>4 DEF IsJoin
  <2>6. IsJoin(c, 24, b, 23, <<overall>>, 1)
    BY <1>4, <2>5, Sums, TwoParts, Zenon
  <2> HIDE DEF c
  <2>7. /\ \A i \in 1..11 : 1 + i \in 1..12 /\ 1 + i \in 1..23 /\ 12 + i \in 1..23
        /\ 1 \in 1..1 /\ 1 \in 1..12 /\ 1 \in 1..23 /\ 23 + 1 = 24
    OBVIOUS
  <2>8. \A i \in 1..11 : c[1 + i] = smart[i] /\ c[12 + i] = alone[i]
    BY <2>2, <2>4, <2>6, <2>7 DEF IsJoin
  <2>9. c \in Cells(24) /\ c[1] = seed /\ c[24] = overall
    BY <1>4, <2>2, <2>4, <2>6, <2>7 DEF IsJoin
  <2> QED BY <1>5, <2>1, <2>8, <2>9 DEF cells, smart, alone, seed, overall
<1>6. CASE ~ Smart
  <2> DEFINE a == <<seed>> \o alone
             c == a \o <<overall>>
  <2>1. cells = c
    <3>1. <<seed>> \o <<>> = <<seed>>
      BY <1>4, ConcatEmptySeq DEF Cells
    <3> QED BY <1>3, <1>6, <3>1
  <2>2. IsJoin(a, 12, <<seed>>, 1, alone, 11)
    BY <1>1, <1>4, Sums, TwoParts, Zenon
  <2> HIDE DEF a
  <2>3. a \in Cells(12)
    BY <2>2 DEF IsJoin
  <2>4. IsJoin(c, 13, a, 12, <<overall>>, 1)
    BY <1>4, <2>3, Sums, TwoParts, Zenon
  <2> HIDE DEF c
  <2>5. /\ \A i \in 1..11 : 1 + i \in 1..12
        /\ 1 \in 1..1 /\ 1 \in 1..12 /\ 12 + 1 = 13
    OBVIOUS
  <2>6. \A i \in 1..11 : c[1 + i] = alone[i]
    BY <2>2, <2>4, <2>5 DEF IsJoin
  <2>7. c \in Cells(13) /\ c[1] = seed /\ c[13] = overall
    BY <1>4, <2>2, <2>4, <2>5 DEF IsJoin
  <2> QED BY <1>6, <2>1, <2>6, <2>7 DEF cells, smart, alone, seed, overall
<1> QED BY <1>5, <1>6

(* The names of the header, in the same places.                            *)
LEMMA TitlesAre ==
  /\ Titles(StreamlinerTitles, "streamlined") \in Cells(12)
  /\ Titles(StreamlinerTitles, "streamlined")[1] = Cell("seed", "", "")
  /\ \A i \in 1..11 :
       Titles(StreamlinerTitles, "streamlined")[1 + i] = Cell(Fields[i], "streamlined", "")
  /\ Titles(PlainTitles, "plain") \in Cells(13)
  /\ Titles(PlainTitles, "plain")[1] = Cell("seed", "", "")
  /\ \A i \in 1..11 : Titles(PlainTitles, "plain")[1 + i] = Cell(Fields[i], "plain", "")
  /\ Titles(PlainTitles, "plain")[13] = Cell("overall", "plain", "")
<1>1. \A i \in 1..12 : i = 1 \/ (i - 1 \in 1..11 /\ i = 1 + (i - 1))
  OBVIOUS
<1>2. \A i \in 1..13 : i = 1 \/ i = 13 \/ (i - 1 \in 1..11 /\ i = 1 + (i - 1))
  OBVIOUS
<1>3. \A i \in 1..11 : 1 + i \in 1..12 /\ 1 + i \in 1..13 /\ 1 \in 1..12 /\ 1 \in 1..13
                      /\ 13 \in 1..13
  OBVIOUS
<1>4. ASSUME NEW name \in Name, NEW of \in {"", "streamlined", "plain"}
      PROVE  Cell(name, of, "") \in ACell
  BY DEF Cell, ACell
<1>5. "seed" \in Name /\ "overall" \in Name /\ "overall" # "seed"
  BY DEF Name
<1>6. /\ Titles(StreamlinerTitles, "streamlined")[1] = Cell("seed", "", "")
      /\ \A i \in 1..11 :
           Titles(StreamlinerTitles, "streamlined")[1 + i] = Cell(Fields[i], "streamlined", "")
      /\ Titles(StreamlinerTitles, "streamlined") \in Cells(12)
  <2> DEFINE f == Titles(StreamlinerTitles, "streamlined")
  <2>1. f = [i \in 1..12 |-> f[i]]
    BY ListsAgree DEF Titles
  <2>2. f[1] = Cell("seed", "", "")
    <3>1. 1 \in DOMAIN StreamlinerTitles
      BY <1>3, ListsAgree
    <3> QED BY <1>5, <3>1, ListsAgree DEF Titles
  <2>3. ASSUME NEW i \in 1..11 PROVE f[1 + i] = Cell(Fields[i], "streamlined", "")
    <3>1. 1 + i \in DOMAIN StreamlinerTitles
      BY <1>3, ListsAgree
    <3>2. StreamlinerTitles[1 + i] = Fields[i] /\ Fields[i] # "seed"
      BY ListsAgree
    <3> QED BY <3>1, <3>2 DEF Titles
  <2>4. ASSUME NEW i \in 1..12 PROVE f[i] \in ACell
    BY <1>1, <1>4, <1>5, <2>2, <2>3, FieldNames
  <2> HIDE DEF f
  <2>6. f \in [1..12 -> ACell]
    BY <2>1, <2>4
  <2> QED BY <2>2, <2>3, <2>6, RowsAreCells DEF f
<1>7. /\ Titles(PlainTitles, "plain")[1] = Cell("seed", "", "")
      /\ \A i \in 1..11 : Titles(PlainTitles, "plain")[1 + i] = Cell(Fields[i], "plain", "")
      /\ Titles(PlainTitles, "plain")[13] = Cell("overall", "plain", "")
      /\ Titles(PlainTitles, "plain") \in Cells(13)
  <2> DEFINE f == Titles(PlainTitles, "plain")
  <2>1. f = [i \in 1..13 |-> f[i]]
    BY ListsAgree DEF Titles
  <2>2. f[1] = Cell("seed", "", "") /\ f[13] = Cell("overall", "plain", "")
    <3>1. 1 \in DOMAIN PlainTitles /\ 13 \in DOMAIN PlainTitles
      BY <1>3, ListsAgree
    <3> QED BY <1>5, <3>1, ListsAgree DEF Titles
  <2>3. ASSUME NEW i \in 1..11 PROVE f[1 + i] = Cell(Fields[i], "plain", "")
    <3>1. 1 + i \in DOMAIN PlainTitles
      BY <1>3, ListsAgree
    <3>2. PlainTitles[1 + i] = Fields[i] /\ Fields[i] # "seed"
      BY ListsAgree
    <3> QED BY <3>1, <3>2 DEF Titles
  <2>4. ASSUME NEW i \in 1..13 PROVE f[i] \in ACell
    BY <1>2, <1>4, <1>5, <2>2, <2>3, FieldNames
  <2> HIDE DEF f
  <2>6. f \in [1..13 -> ACell]
    BY <2>1, <2>4
  <2> QED BY <2>2, <2>3, <2>6, RowsAreCells DEF f
<1> QED BY <1>6, <1>7

LEMMA NamedCells ==
  LET width == IF Smart THEN 24 ELSE 13
      plain == IF Smart THEN 12 ELSE 1
  IN /\ Named \in Cells(width)
     /\ Named[1] = Cell("seed", "", "")
     /\ Smart => \A i \in 1..11 : Named[1 + i] = Cell(Fields[i], "streamlined", "")
     /\ \A i \in 1..11 : Named[plain + i] = Cell(Fields[i], "plain", "")
     /\ Named[width] = Cell("overall", "plain", "")
<1> DEFINE smart == Titles(StreamlinerTitles, "streamlined")
           alone == Titles(PlainTitles, "plain")
           first == IF Smart THEN <<Blank>> \o smart ELSE <<>>
           b == first \o alone
<1>1. /\ smart \in Cells(12) /\ smart[1] = Cell("seed", "", "")
      /\ \A i \in 1..11 : smart[1 + i] = Cell(Fields[i], "streamlined", "")
      /\ alone \in Cells(13) /\ alone[1] = Cell("seed", "", "")
      /\ \A i \in 1..11 : alone[1 + i] = Cell(Fields[i], "plain", "")
      /\ alone[13] = Cell("overall", "plain", "")
  BY TitlesAre
<1>2. Header = b
  BY DEF Header
<1> HIDE DEF smart, alone
<1>3. <<Blank>> \in Cells(1)
  <2>1. Blank \in ACell
    BY DEF Blank, Cell, ACell, Name
  <2> QED BY <2>1, OneCell
<1>4. CASE Smart
  <2>1. first = <<Blank>> \o smart
    BY <1>4
  <2> HIDE DEF first
  <2>2. IsJoin(first, 13, <<Blank>>, 1, smart, 12)
    BY <1>1, <1>3, <2>1, Sums, TwoParts, Zenon
  <2>3. first \in Cells(13)
    BY <2>2 DEF IsJoin
  <2>4. IsJoin(b, 26, first, 13, alone, 13)
    BY <1>1, <2>3, Sums, TwoParts, Zenon
  <2> HIDE DEF b
  <2>5. b \in Seq(ACell) /\ Len(b) = 26
    BY <2>4 DEF IsJoin, Cells
  <2>6. Named = [i \in 1..24 |-> IF i <= 12 THEN b[i + 1] ELSE b[i + 2]]
    <3>1. Len(Header) - 2 = 24 /\ Len(Fields) + 1 = 12
      BY <1>2, <2>5, ElevenFields
    <3> QED BY <1>2, <1>4, <3>1 DEF Named
  <2>7. Named \in Cells(24)
    <3>1. \A i \in 1..Len(b) : b[i] \in ACell
      BY <2>5, ElementOfSeq, Zenon
    <3>2. \A i \in 1..24 : i + 1 \in 1..Len(b) /\ i + 2 \in 1..Len(b)
      BY <2>5
    <3>3. \A i \in 1..24 : (IF i <= 12 THEN b[i + 1] ELSE b[i + 2]) \in ACell
      BY <3>1, <3>2
    <3>4. Named \in [1..24 -> ACell]
      BY <2>6, <3>3
    <3> QED BY <3>4, RowsAreCells
  <2>8. ASSUME NEW i \in 1..12 PROVE Named[i] = smart[i]
    <3>1. i \in 1..24 /\ i <= 12 /\ i + 1 = 1 + i /\ 1 + i \in 1..13
      OBVIOUS
    <3>2. Named[i] = b[1 + i]
      BY <2>6, <3>1
    <3> QED BY <2>2, <2>4, <3>1, <3>2 DEF IsJoin
  <2>9. ASSUME NEW i \in 1..12 PROVE Named[12 + i] = alone[1 + i]
    <3>1. /\ 12 + i \in 1..24 /\ ~ (12 + i <= 12) /\ (12 + i) + 2 = 13 + (1 + i)
          /\ 1 + i \in 1..13
      OBVIOUS
    <3>2. Named[12 + i] = b[13 + (1 + i)]
      BY <2>6, <3>1
    <3> QED BY <2>4, <3>1, <3>2 DEF IsJoin
  <2>10. /\ 1 \in 1..12 /\ \A i \in 1..11 : 1 + i \in 1..12 /\ i \in 1..12
         /\ 12 \in 1..12 /\ 12 + 12 = 24 /\ 1 + 12 = 13
    OBVIOUS
  <2> QED BY <1>1, <1>4, <2>7, <2>8, <2>9, <2>10
<1>5. CASE ~ Smart
  <2>1. first = <<>>
    BY <1>5
  <2> HIDE DEF first
  <2>2. b = alone
    BY <1>1, <2>1, ConcatEmptySeq DEF b, Cells
  <2>3. Named = alone
    BY <1>2, <1>5, <2>2 DEF Named
  <2> QED BY <1>1, <1>5, <2>3
<1> QED BY <1>4, <1>5

-----------------------------------------------------------------------------
(* Every cell of a line has the name that the header gives it, or is       *)
(* blank.                                                                  *)
LEMMA NamesFit ==
  ASSUME TableInv, CalcInv, NEW k \in DOMAIN lines
  PROVE  /\ Len(CellsOf(lines[k])) = Len(Named)
         /\ DOMAIN CellsOf(lines[k]) = 1..Len(Named)
         /\ \A i \in 1..Len(Named) : Fits(CellsOf(lines[k])[i], Named[i])
<1> DEFINE cells == CellsOf(lines[k])
           smart == SearchCells(lines[k].stream_res, "streamlined")
           alone == SearchCells(lines[k].no_stream_res, "plain")
           width == IF Smart THEN 24 ELSE 13
           plain == IF Smart THEN 12 ELSE 1
<1>1. /\ cells \in Cells(width)
      /\ cells[1] = Cell("seed", "", "number")
      /\ Smart => \A i \in 1..11 : cells[1 + i] = smart[i]
      /\ \A i \in 1..11 : cells[plain + i] = alone[i]
      /\ cells[width] = Cell("overall", "plain", rows[k].type)
  BY LineCells
<1>2. /\ Named \in Cells(width)
      /\ Named[1] = Cell("seed", "", "")
      /\ Smart => \A i \in 1..11 : Named[1 + i] = Cell(Fields[i], "streamlined", "")
      /\ \A i \in 1..11 : Named[plain + i] = Cell(Fields[i], "plain", "")
      /\ Named[width] = Cell("overall", "plain", "")
  BY NamedCells
<1>3. /\ \A i \in 1..11 : Fits(smart[i], Cell(Fields[i], "streamlined", ""))
      /\ \A i \in 1..11 : Fits(alone[i], Cell(Fields[i], "plain", ""))
  BY LineIs, SearchCellsAre DEF Fits, Cell
<1> HIDE DEF cells, smart, alone, width, plain
<1>4. Fits(cells[1], Named[1]) /\ Fits(cells[width], Named[width])
  <2>1. /\ cells[1] = Cell("seed", "", "number")
        /\ cells[width] = Cell("overall", "plain", rows[k].type)
        /\ Named[1] = Cell("seed", "", "") /\ Named[width] = Cell("overall", "plain", "")
    BY <1>1, <1>2
  <2>2. /\ Fits(Cell("seed", "", "number"), Cell("seed", "", ""))
        /\ \A type : Fits(Cell("overall", "plain", type), Cell("overall", "plain", ""))
    BY DEF Fits, Cell
  <2> QED BY <2>1, <2>2
<1>5. \A i \in 1..11 : Fits(cells[plain + i], Named[plain + i])
  BY <1>1, <1>2, <1>3
<1>6. Smart => \A i \in 1..11 : Fits(cells[1 + i], Named[1 + i])
  BY <1>1, <1>2, <1>3
<1>7. /\ cells \in Seq(ACell) /\ Len(cells) = width /\ Len(Named) = width
      /\ DOMAIN cells = 1..Len(cells)
  <2>1. cells \in Cells(width) /\ Named \in Cells(width)
    BY <1>1, <1>2
  <2>2. cells \in Seq(ACell) /\ Len(cells) = width /\ Len(Named) = width
    BY <2>1 DEF Cells
  <2> QED BY <2>2
<1>8. ASSUME NEW i \in 1..width PROVE Fits(cells[i], Named[i])
  <2>1. CASE i = 1 \/ i = width
    BY <1>4, <2>1
  <2>2. CASE \E j \in 1..11 : i = plain + j
    BY <1>5, <2>2
  <2>3. CASE Smart /\ \E j \in 1..11 : i = 1 + j
    BY <1>6, <2>3
  <2>4. \/ i = 1 \/ i = width \/ \E j \in 1..11 : i = plain + j
        \/ Smart /\ \E j \in 1..11 : i = 1 + j
    <3>1. CASE Smart
      <4>1. i \in 1..24 /\ width = 24 /\ plain = 12
        BY <3>1 DEF width, plain
      <4>2. i = 1 \/ i - 1 \in 1..11 \/ i - 12 \in 1..11 \/ i = 24
        BY <4>1
      <4>3. i = 1 + (i - 1) /\ i = 12 + (i - 12)
        BY <4>1
      <4> QED BY <3>1, <4>1, <4>2, <4>3
    <3>2. CASE ~ Smart
      <4>1. i \in 1..13 /\ width = 13 /\ plain = 1
        BY <3>2 DEF width, plain
      <4>2. i = 1 \/ i - 1 \in 1..11 \/ i = 13
        BY <4>1
      <4>3. i = 1 + (i - 1)
        BY <4>1
      <4> QED BY <4>1, <4>2, <4>3
    <3> QED BY <3>1, <3>2
  <2> QED BY <2>1, <2>2, <2>3, <2>4
<1> QED BY <1>7, <1>8 DEF cells

(* Two lines that fit the names are alike.                                 *)
LEMMA AlikeIs ==
  ASSUME TableInv, CalcInv PROVE LinesAreAlike /\ CellsAreAsNamed
<1>1. CellsAreAsNamed
  BY NamesFit DEF CellsAreAsNamed
<1>2. ASSUME NEW k \in DOMAIN lines, NEW l \in DOMAIN lines
      PROVE  /\ Len(CellsOf(lines[k])) = Len(CellsOf(lines[l]))
             /\ \A i \in DOMAIN CellsOf(lines[k]) :
                  \/ CellsOf(lines[k])[i] = Blank
                  \/ Fits(CellsOf(lines[l])[i], CellsOf(lines[k])[i])
  <2>1. /\ Len(CellsOf(lines[k])) = Len(Named) /\ Len(CellsOf(lines[l])) = Len(Named)
        /\ DOMAIN CellsOf(lines[k]) = 1..Len(Named)
        /\ \A i \in 1..Len(Named) : /\ Fits(CellsOf(lines[k])[i], Named[i])
                                     /\ Fits(CellsOf(lines[l])[i], Named[i])
    BY NamesFit
  <2> QED BY <2>1 DEF Fits
<1> QED BY <1>1, <1>2 DEF LinesAreAlike

(* The result of a line is the one of its seed that was counted.           *)
LEMMA CountedIs ==
  ASSUME TableInv, CalcInv, CountsAddUp PROVE OverallIsCounted
<1>1. ASSUME NEW k \in DOMAIN lines PROVE LastCell(lines[k]).is = rows[k].type
  <2>1. CellsOf(lines[k])[Len(CellsOf(lines[k]))] = Cell("overall", "plain", rows[k].type)
    BY LineCells DEF Cells
  <2> QED BY <2>1 DEF LastCell, Cell
<1>2. DOMAIN lines = 1..Len(rows) /\ DOMAIN seed_res = Types \ {"TERMINATED"}
  BY DEF TableInv, CalcInv, TypeOK
<1>3. ASSUME NEW type \in DOMAIN seed_res
      PROVE  seed_res[type] =
               ResumeCounts[type]
                 + Cardinality({k \in DOMAIN lines : LastCell(lines[k]).is = type})
  <2>1. {k \in DOMAIN lines : LastCell(lines[k]).is = type}
          = {i \in 1..Len(rows) : rows[i].type = type}
    BY <1>1, <1>2
  <2> QED BY <1>2, <2>1 DEF CountsAddUp
<1>4. ASSUME NEW k \in DOMAIN lines, lines[k].no_stream_res # {}
      PROVE  lines[k].stream_res \subseteq Inconclusive
  BY <1>4, LineIs DEF RightResults, PutAside
<1> QED BY <1>3, <1>4 DEF OverallIsCounted, Inconclusive

(* The list of solve_seed is that of dispatch_solve.                       *)
LEMMA PolicyIs == SearchedAsAsked
<1>1. \A r, streamliner, cache_type :
        SolvePolicy(r, streamliner, cache_type) = PolicyOf(r, streamliner, FALSE, cache_type)
  BY DEF SolvePolicy, PolicyOf
<1> QED BY <1>1 DEF SearchedAsAsked

(* A line of the table can be trusted, whatever the threads did: all have  *)
(* the same cells, in the order of the names of the header, and their last *)
(* ones are those that were counted.                                       *)
THEOREM LinesStayRight == TableSpec => []LinesAreRight
<1>1. TableInv /\ CalcInv /\ CountsAddUp => LinesAreRight
  BY AlikeIs, CountedIs, PolicyIs DEF LinesAreRight
<1> QED BY <1>1, TableInvariant, TableIsCalc, CalcInvariant, CountsAreRight, PTL
=============================================================================
