-------------------------- MODULE BenchmarkProofs --------------------------
(***************************************************************************)
(* What a benchmark says of its searches, for any rules, options, files    *)
(* and costs: each was measured under the policy that the same options     *)
(* would solve it with, and a range of seeds is reported seed by seed,     *)
(* without the warm-up.                                                    *)
(***************************************************************************)
EXTENDS Benchmark, SequenceTheorems, TLAPS

-----------------------------------------------------------------------------
(* The three dispatches.  The first choice that holds is taken.            *)
IsFirst(choices, n) == choices[n][1] /\ \A m \in 1..n - 1 : ~ choices[m][1]

LEMMA FirstIs ==
  ASSUME NEW choices, NEW l \in Nat, DOMAIN choices = 1..l, NEW n \in 1..l, IsFirst(choices, n)
  PROVE  FirstOf(choices) = choices[n][2]
<1> DEFINE k == CHOOSE x \in DOMAIN choices : IsFirst(choices, x)
<1>1. n \in DOMAIN choices /\ IsFirst(choices, n)
  OBVIOUS
<1>2. k \in DOMAIN choices /\ IsFirst(choices, k)
  BY <1>1, Zenon
<1>3. FirstOf(choices) = choices[k][2]
  BY Zenon DEF FirstOf, IsFirst
<1> HIDE DEF k
<1>4. k \in 1..l
  BY <1>2
<1>5. ~ (k < n) /\ ~ (n < k)
  BY <1>1, <1>2, <1>4 DEF IsFirst
<1> QED
  BY <1>3, <1>4, <1>5

LEMMA FirstOfSeven ==
  ASSUME NEW d, DOMAIN d = 1..7, d[7][1]
  PROVE  FirstOf(d) = IF d[1][1] THEN d[1][2] ELSE IF d[2][1] THEN d[2][2]
                      ELSE IF d[3][1] THEN d[3][2] ELSE IF d[4][1] THEN d[4][2]
                      ELSE IF d[5][1] THEN d[5][2] ELSE IF d[6][1] THEN d[6][2] ELSE d[7][2]
<1>1. ASSUME d[1][1] PROVE FirstOf(d) = d[1][2]
  <2>1. IsFirst(d, 1) /\ 1 \in 1..7 /\ 7 \in Nat
    BY <1>1 DEF IsFirst
  <2> QED
    BY <2>1, FirstIs, Zenon
<1>2. ASSUME ~ d[1][1], d[2][1] PROVE FirstOf(d) = d[2][2]
  <2>1. IsFirst(d, 2) /\ 2 \in 1..7 /\ 7 \in Nat
    BY <1>2 DEF IsFirst
  <2> QED
    BY <2>1, FirstIs, Zenon
<1>3. ASSUME ~ d[1][1], ~ d[2][1], d[3][1] PROVE FirstOf(d) = d[3][2]
  <2>1. IsFirst(d, 3) /\ 3 \in 1..7 /\ 7 \in Nat
    BY <1>3 DEF IsFirst
  <2> QED
    BY <2>1, FirstIs, Zenon
<1>4. ASSUME ~ d[1][1], ~ d[2][1], ~ d[3][1], d[4][1] PROVE FirstOf(d) = d[4][2]
  <2>1. IsFirst(d, 4) /\ 4 \in 1..7 /\ 7 \in Nat
    BY <1>4 DEF IsFirst
  <2> QED
    BY <2>1, FirstIs, Zenon
<1>5. ASSUME ~ d[1][1], ~ d[2][1], ~ d[3][1], ~ d[4][1], d[5][1] PROVE FirstOf(d) = d[5][2]
  <2>1. IsFirst(d, 5) /\ 5 \in 1..7 /\ 7 \in Nat
    BY <1>5 DEF IsFirst
  <2> QED
    BY <2>1, FirstIs, Zenon
<1>6. ASSUME ~ d[1][1], ~ d[2][1], ~ d[3][1], ~ d[4][1], ~ d[5][1], d[6][1] PROVE FirstOf(d) = d[6][2]
  <2>1. IsFirst(d, 6) /\ 6 \in 1..7 /\ 7 \in Nat
    BY <1>6 DEF IsFirst
  <2> QED
    BY <2>1, FirstIs, Zenon
<1>7. ASSUME ~ d[1][1], ~ d[2][1], ~ d[3][1], ~ d[4][1], ~ d[5][1], ~ d[6][1], d[7][1] PROVE FirstOf(d) = d[7][2]
  <2>1. IsFirst(d, 7) /\ 7 \in 1..7 /\ 7 \in Nat
    BY <1>7 DEF IsFirst
  <2> QED
    BY <2>1, FirstIs, Zenon
<1> QED
  BY <1>1, <1>2, <1>3, <1>4, <1>5, <1>6, <1>7

LEMMA SomeIsFirst ==
  ASSUME NEW d, d[7][1]
  PROVE  \E n \in 1..7 : IsFirst(d, n)
<1>1. CASE d[1][1]
  BY <1>1 DEF IsFirst
<1>2. CASE ~ d[1][1] /\ d[2][1]
  BY <1>2 DEF IsFirst
<1>3. CASE ~ d[1][1] /\ ~ d[2][1] /\ d[3][1]
  BY <1>3 DEF IsFirst
<1>4. CASE ~ d[1][1] /\ ~ d[2][1] /\ ~ d[3][1] /\ d[4][1]
  BY <1>4 DEF IsFirst
<1>5. CASE ~ d[1][1] /\ ~ d[2][1] /\ ~ d[3][1] /\ ~ d[4][1] /\ d[5][1]
  BY <1>5 DEF IsFirst
<1>6. CASE ~ d[1][1] /\ ~ d[2][1] /\ ~ d[3][1] /\ ~ d[4][1] /\ ~ d[5][1] /\ d[6][1]
  BY <1>6 DEF IsFirst
<1>7. CASE ~ d[1][1] /\ ~ d[2][1] /\ ~ d[3][1] /\ ~ d[4][1] /\ ~ d[5][1] /\ ~ d[6][1] /\ d[7][1]
  BY <1>7 DEF IsFirst
<1> QED
  BY <1>1, <1>2, <1>3, <1>4, <1>5, <1>6, <1>7

LEMMA Pair == \A a, b : <<a, b>>[1] = a /\ <<a, b>>[2] = b
OBVIOUS

Choices(x1, x2, x3, x4, x5, x6, x7) == <<x1, x2, x3, x4, x5, x6, x7>>

LEMMA ChoicesAre ==
  ASSUME NEW x1, NEW x2, NEW x3, NEW x4, NEW x5, NEW x6, NEW x7
  PROVE  LET d == Choices(x1, x2, x3, x4, x5, x6, x7)
         IN /\ DOMAIN d = 1..7
            /\ d[1] = x1 /\ d[2] = x2 /\ d[3] = x3 /\ d[4] = x4 /\ d[5] = x5 /\ d[6] = x6 /\ d[7] = x7
BY DEF Choices

LEMMA DispatchIsSeven ==
  ASSUME NEW r, NEW streamliner, NEW c
  PROVE  LET d == Dispatched(r, streamliner, c)
         IN d \in Seq({d[k] : k \in 1..7}) /\ Len(d) = 7 /\ d[7][1]
<1> DEFINE sym == SuitSymmetryOn(streamliner) \/ r.hole
           x1 == <<c = "bitmap" /\ SingleLine(r), "BITMAP">>
           x2 == <<c = "multiplicity" /\ SingleLine(r), "MULTIPLICITY">>
           x3 == <<c = "hash-only" /\ UseNewCache(r, sym), "HASH_ONLY">>
           x4 == <<UsePredecessorCache(r), "PREDECESSOR">>
           x5 == <<UseNewCache(r, sym), "FLAT">>
           x6 == <<SingleLine(r), "MULTIPLICITY">>
           x7 == <<TRUE, "LRU">>
           d == Dispatched(r, streamliner, c)
<1>1. d = Choices(x1, x2, x3, x4, x5, x6, x7)
  BY Zenon DEF Dispatched, Choices
<1>2. x7[1]
  BY Pair, Zenon
<1> HIDE DEF d, x1, x2, x3, x4, x5, x6, x7
<1>3. d = <<x1, x2, x3, x4, x5, x6, x7>>
  BY <1>1 DEF Choices
<1>4. d[7] = x7 /\ Len(d) = 7 /\ d \in Seq({d[k] : k \in 1..7})
  BY <1>3
<1>5. d[7][1]
  BY <1>2, <1>4, Zenon
<1> QED
  BY <1>4, <1>5 DEF d

(* Of the dispatches with the same list.                                   *)
LEMMA DealIsMeasuredAsSolved ==
  ASSUME NEW r, NEW streamliner, NEW q
  PROVE  DealPolicy(r, streamliner, q) = PolicyOf(r, streamliner, FALSE, q.cache_type)
<1> DEFINE c == q.cache_type
           sym == SuitSymmetryOn(streamliner) \/ r.hole
           bits == c = "bitmap" /\ SingleLine(r)
           multi == c = "multiplicity" /\ SingleLine(r)
           hashed == c = "hash-only" /\ UseNewCache(r, sym)
           x1 == <<bits, "BITMAP">>
           x2 == <<multi, "MULTIPLICITY">>
           x3 == <<hashed, "HASH_ONLY">>
           x4 == <<UsePredecessorCache(r), "PREDECESSOR">>
           x5 == <<UseNewCache(r, sym), "FLAT">>
           x6 == <<SingleLine(r), "MULTIPLICITY">>
           x7 == <<TRUE, "LRU">>
           d == Dispatched(r, streamliner, c)
           p == PolicyOf(r, streamliner, FALSE, c)
<1>1. d = Choices(x1, x2, x3, x4, x5, x6, x7)
  BY Zenon DEF Dispatched, Choices
<1>2. /\ bits => p = "BITMAP"
      /\ ~ bits /\ multi => p = "MULTIPLICITY"
      /\ ~ bits /\ ~ multi /\ hashed => p = "HASH_ONLY"
      /\ ~ bits /\ ~ multi /\ ~ hashed =>
           p = IF UsePredecessorCache(r) THEN "PREDECESSOR"
               ELSE IF UseNewCache(r, sym) THEN "FLAT"
               ELSE IF SingleLine(r) THEN "MULTIPLICITY" ELSE "LRU"
  BY DEF PolicyOf
<1>3. DealPolicy(r, streamliner, q) = FirstOf(d)
  BY Zenon DEF DealPolicy
<1>4. (x1[1] <=> bits) /\ x1[2] = "BITMAP"
  BY Pair, Zenon
<1>5. (x2[1] <=> multi) /\ x2[2] = "MULTIPLICITY"
  BY Pair, Zenon
<1>6. (x3[1] <=> hashed) /\ x3[2] = "HASH_ONLY"
  BY Pair, Zenon
<1>7. (x4[1] <=> UsePredecessorCache(r)) /\ x4[2] = "PREDECESSOR"
  BY Pair, Zenon
<1>8. (x5[1] <=> UseNewCache(r, sym)) /\ x5[2] = "FLAT"
  BY Pair, Zenon
<1>9. (x6[1] <=> SingleLine(r)) /\ x6[2] = "MULTIPLICITY"
  BY Pair, Zenon
<1>10. x7[1] /\ x7[2] = "LRU"
  BY Pair, Zenon
<1> HIDE DEF d, p, bits, multi, hashed, x1, x2, x3, x4, x5, x6, x7
<1>11. /\ DOMAIN d = 1..7
       /\ d[1] = x1 /\ d[2] = x2 /\ d[3] = x3 /\ d[4] = x4 /\ d[5] = x5 /\ d[6] = x6 /\ d[7] = x7
  BY <1>1, ChoicesAre
<1>12. FirstOf(d) = IF d[1][1] THEN d[1][2] ELSE IF d[2][1] THEN d[2][2]
                    ELSE IF d[3][1] THEN d[3][2] ELSE IF d[4][1] THEN d[4][2]
                    ELSE IF d[5][1] THEN d[5][2] ELSE IF d[6][1] THEN d[6][2] ELSE d[7][2]
  <2>1. d[7][1]
    BY <1>10, <1>11, Zenon
  <2> QED
    BY <1>11, <2>1, FirstOfSeven, Zenon
<1>13. FirstOf(d) = IF bits THEN "BITMAP" ELSE IF multi THEN "MULTIPLICITY"
                    ELSE IF hashed THEN "HASH_ONLY" ELSE IF UsePredecessorCache(r) THEN "PREDECESSOR"
                    ELSE IF UseNewCache(r, sym) THEN "FLAT"
                    ELSE IF SingleLine(r) THEN "MULTIPLICITY" ELSE "LRU"
  BY <1>4, <1>5, <1>6, <1>7, <1>8, <1>9, <1>10, <1>11, <1>12, Zenon
<1>14. FirstOf(d) = p
  <2>1. CASE bits
    BY <1>2, <1>13, <2>1, Zenon
  <2>2. CASE ~ bits /\ multi
    BY <1>2, <1>13, <2>2, Zenon
  <2>3. CASE ~ bits /\ ~ multi /\ hashed
    BY <1>2, <1>13, <2>3, Zenon
  <2>4. CASE ~ bits /\ ~ multi /\ ~ hashed
    <3> DEFINE rest == IF UsePredecessorCache(r) THEN "PREDECESSOR"
                       ELSE IF UseNewCache(r, sym) THEN "FLAT"
                       ELSE IF SingleLine(r) THEN "MULTIPLICITY" ELSE "LRU"
    <3>1. p = rest
      BY <1>2, <2>4, Zenon
    <3>2. FirstOf(d) = rest
      BY <1>13, <2>4, Zenon
    <3> QED
      BY <3>1, <3>2, Zenon
  <2> QED
    BY <2>1, <2>2, <2>3, <2>4
<1> QED
  BY <1>3, <1>14 DEF p

LEMMA HeadBefore ==
  ASSUME NEW S, NEW y \in S, NEW d \in Seq(S)
  PROVE  /\ Len(<<y>> \o d) = 1 + Len(d) /\ <<y>> \o d \in Seq(S)
         /\ \A k \in 1..(1 + Len(d)) : (<<y>> \o d)[k] = IF k <= 1 THEN <<y>>[k] ELSE d[k - 1]
<1>1. <<y>> \in Seq(S) /\ Len(<<y>>) = 1
  OBVIOUS
<1> QED
  BY <1>1, ConcatProperties

(* A seed's dispatch asks for force_lru before all others.                 *)
LEMMA SeedIsMeasuredAsSolved ==
  ASSUME NEW q
  PROVE  SeedPolicy(q) = PolicyOf(q.rules, q.streamliner, q.force_lru, q.cache_type)
<1> DEFINE d == Dispatched(q.rules, q.streamliner, q.cache_type)
           y == <<q.force_lru, "LRU">>
           e == <<y>> \o d
<1>1. SeedPolicy(q) = FirstOf(e)
  BY Zenon DEF SeedPolicy
<1>2. FirstOf(d) = PolicyOf(q.rules, q.streamliner, FALSE, q.cache_type)
  <2>1. DealPolicy(q.rules, q.streamliner, q) = FirstOf(d)
    BY Zenon DEF DealPolicy
  <2> QED
    BY <2>1, DealIsMeasuredAsSolved, Zenon
<1>3. /\ q.force_lru => PolicyOf(q.rules, q.streamliner, q.force_lru, q.cache_type) = "LRU"
      /\ ~ q.force_lru => PolicyOf(q.rules, q.streamliner, q.force_lru, q.cache_type)
                            = PolicyOf(q.rules, q.streamliner, FALSE, q.cache_type)
  BY DEF PolicyOf
<1>4. (y[1] <=> q.force_lru) /\ y[2] = "LRU"
  BY Pair, Zenon
<1>5. d \in Seq({d[k] : k \in 1..7}) /\ Len(d) = 7 /\ d[7][1]
  BY DispatchIsSeven
<1> HIDE DEF d, y
<1>6. /\ DOMAIN e = 1..8 /\ e[1] = y
      /\ \A k \in 1..7 : e[k + 1] = d[k]
  <2> DEFINE S == {y} \union {d[k] : k \in 1..7}
  <2>1. y \in S /\ <<y>>[1] = y
    OBVIOUS
  <2>2. d \in Seq(S)
    BY <1>5
  <2> HIDE DEF S
  <2>3. /\ Len(e) = 1 + Len(d) /\ e \in Seq(S)
        /\ \A k \in 1..(1 + Len(d)) : e[k] = IF k <= 1 THEN <<y>>[k] ELSE d[k - 1]
    BY <2>1, <2>2, HeadBefore, Zenon
  <2> HIDE DEF e
  <2>4. Len(d) = 7
    BY <1>5
  <2>5. Len(e) = 8 /\ DOMAIN e = 1..8
    BY <2>3, <2>4
  <2>6. \A k \in 1..8 : e[k] = IF k <= 1 THEN <<y>>[k] ELSE d[k - 1]
    BY <2>3, <2>4
  <2> QED
    BY <2>1, <2>5, <2>6
<1> HIDE DEF e
<1>7. CASE q.force_lru
  <2>1. IsFirst(e, 1)
    BY <1>4, <1>6, <1>7 DEF IsFirst
  <2>2. 8 \in Nat /\ 1 \in 1..8
    OBVIOUS
  <2>3. FirstOf(e) = e[1][2]
    BY <1>6, <2>1, <2>2, FirstIs, Zenon
  <2> QED
    BY <1>1, <1>3, <1>4, <1>6, <1>7, <2>3, Zenon
<1>8. CASE ~ q.force_lru
  <2>1. DOMAIN d = 1..7
    BY <1>5
  <2>2. PICK n \in 1..7 : IsFirst(d, n)
    BY <1>5, <2>1, SomeIsFirst, Zenon
  <2>3. FirstOf(d) = d[n][2]
    <3>1. 7 \in Nat
      OBVIOUS
    <3> QED
      BY <2>1, <2>2, <3>1, FirstIs, Zenon
  <2>4. n + 1 \in 1..8 /\ 8 \in Nat /\ e[n + 1] = d[n]
    BY <1>6
  <2>5. IsFirst(e, n + 1)
    <3>1. e[n + 1][1]
      BY <2>2, <2>4 DEF IsFirst
    <3>2. ASSUME NEW m \in 1..n PROVE ~ e[m][1]
      <4>1. CASE m = 1
        BY <1>4, <1>6, <1>8, <4>1, Zenon
      <4>2. CASE m # 1
        <5>1. m - 1 \in 1..7 /\ m - 1 \in 1..n - 1 /\ m = (m - 1) + 1
          BY <4>2
        <5>2. e[m] = d[m - 1]
          BY <1>6, <5>1
        <5> QED
          BY <2>2, <5>1, <5>2 DEF IsFirst
      <4> QED
        BY <4>1, <4>2
    <3>3. (n + 1) - 1 = n
      OBVIOUS
    <3> QED
      BY <3>1, <3>2, <3>3 DEF IsFirst
  <2>6. FirstOf(e) = e[n + 1][2]
    BY <1>6, <2>4, <2>5, FirstIs, Zenon
  <2> QED
    BY <1>1, <1>2, <1>3, <1>8, <2>3, <2>4, <2>6, Zenon
<1> QED
  BY <1>7, <1>8

-----------------------------------------------------------------------------
IsSequence(s) == \E S : s \in Seq(S)

LEMMA Appended ==
  ASSUME NEW s, IsSequence(s), NEW e
  PROVE  /\ IsSequence(Append(s, e)) /\ Len(s) \in Nat /\ DOMAIN s = 1..Len(s)
         /\ Len(Append(s, e)) = Len(s) + 1 /\ DOMAIN Append(s, e) = 1..(Len(s) + 1)
         /\ \A k \in 1..Len(s) : Append(s, e)[k] = s[k]
         /\ Append(s, e)[Len(s) + 1] = e
<1>1. PICK S : s \in Seq(S)
  BY DEF IsSequence
<1> DEFINE T == S \union {e}
<1>2. s \in Seq(T) /\ e \in T
  BY <1>1
<1> HIDE DEF T
<1>3. /\ Append(s, e) \in Seq(T) /\ Len(Append(s, e)) = Len(s) + 1
      /\ \A k \in 1..Len(s) : Append(s, e)[k] = s[k]
      /\ Append(s, e)[Len(s) + 1] = e
  BY <1>2, AppendProperties
<1> QED
  BY <1>2, <1>3 DEF IsSequence

LEMMA NoSamples == IsSequence(<<>>) /\ Len(<<>>) = 0 /\ DOMAIN <<>> = {}
<1>1. <<>> \in Seq({})
  OBVIOUS
<1> QED
  BY <1>1 DEF IsSequence

(* A search says which policy it had.                                      *)
IsSample(s, policy) ==
  \E t, n, type, m : s = [time |-> t, nodes |-> n, type |-> type, policy |-> policy, memory |-> m]

LEMMA OutcomeIsSample ==
  ASSUME NEW deal, NEW policy, NEW s \in Outcomes(deal, policy)
  PROVE  IsSample(s, policy)
BY DEF Outcomes, IsSample

(* Which loop of the program is running, and what it has measured.         *)
PolicyInv ==
  /\ pc = "seeds" => request.is = "seeds"
  /\ pc \in {"items", "item"} => request.is = "json"
  /\ IsSequence(runs)
  /\ MeasuresWhatIsSolved

LEMMA MeasureKeepsPolicies ==
  ASSUME PolicyInv, NEW deal, NEW policy, Measure(deal, policy), UNCHANGED <<request, found, pc>>,
         policy = IF request.is = "seeds"
                  THEN PolicyOf(request.rules, request.streamliner, request.force_lru, request.cache_type)
                  ELSE PolicyOf(found.rules, found.streamliner, FALSE, request.cache_type)
  PROVE  PolicyInv'
<1>1. PICK s \in Outcomes(deal, policy), p \in Peaks : runs' = Append(runs, [s EXCEPT !.memory = p])
  BY DEF Measure
<1> DEFINE sample == [s EXCEPT !.memory = p]
<1>2. sample.policy = policy
  <2>1. IsSample(s, policy)
    BY OutcomeIsSample
  <2> QED
    BY <2>1 DEF IsSample
<1> HIDE DEF sample
<1>3. runs' = Append(runs, sample)
  BY <1>1 DEF sample
<1>4. /\ IsSequence(runs') /\ DOMAIN runs = 1..Len(runs) /\ DOMAIN runs' = 1..(Len(runs) + 1)
      /\ Len(runs) \in Nat /\ runs'[Len(runs) + 1] = sample
      /\ \A k \in 1..Len(runs) : runs'[k] = runs[k]
  BY <1>3, Appended DEF PolicyInv
<1>5. ASSUME NEW k \in DOMAIN runs' PROVE runs'[k].policy = policy
  <2>1. CASE k = Len(runs) + 1
    BY <1>2, <1>4, <2>1
  <2>2. CASE k # Len(runs) + 1
    <3>1. k \in DOMAIN runs /\ runs'[k] = runs[k]
      BY <1>4, <2>2
    <3> QED
      BY <3>1 DEF PolicyInv, MeasuresWhatIsSolved
  <2> QED
    BY <2>1, <2>2
<1> QED
  BY <1>4, <1>5 DEF PolicyInv, MeasuresWhatIsSolved

LEMMA StepKeepsPolicies == PolicyInv /\ [Next]_vars => PolicyInv'
<1> SUFFICES ASSUME PolicyInv, [Next]_vars PROVE PolicyInv'
  OBVIOUS
<1>1. CASE MeasureSeed
  <2>1. Measure(SeedDeal(seed), SeedPolicy(request)) /\ UNCHANGED <<request, found, pc>> /\ pc = "seeds"
    BY <1>1 DEF MeasureSeed
  <2>2. request.is = "seeds"
    BY <2>1 DEF PolicyInv
  <2> QED
    BY <2>1, <2>2, SeedIsMeasuredAsSolved, MeasureKeepsPolicies
<1>2. CASE MeasureItem
  <2>1. /\ Measure(File, DealPolicy(found.rules, found.streamliner, request))
        /\ UNCHANGED <<request, found, pc>> /\ pc = "item"
    BY <1>2 DEF MeasureItem, Iterating
  <2>2. request.is # "seeds"
    BY <2>1 DEF PolicyInv
  <2> QED
    BY <2>1, <2>2, DealIsMeasuredAsSolved, MeasureKeepsPolicies
<1>3. CASE Start \/ OpenList
  <2>1. /\ UNCHANGED <<request, runs, found>>
        /\ \/ pc' = "seeds" /\ request.is = "seeds"
           \/ pc' = "items" /\ request.is = "json"
           \/ pc' = "end"
    BY <1>3 DEF Start, OpenList, place
  <2> QED
    BY <2>1 DEF PolicyInv, MeasuresWhatIsSolved
<1>4. CASE NextSeed \/ TakeItem
  <2>1. /\ runs' = <<>> /\ UNCHANGED request
        /\ \/ pc = "seeds" /\ pc' = pc
           \/ pc = "items" /\ pc' = "item"
    BY <1>4 DEF NextSeed, TakeItem, HasItem
  <2> QED
    BY <2>1, NoSamples DEF PolicyInv, MeasuresWhatIsSolved
<1>5. CASE Aggregate \/ RulesRefused \/ CloseList
  <2>1. UNCHANGED <<request, runs, found>> /\ pc' = "end"
    BY <1>5 DEF Aggregate, RulesRefused, CloseList, place
  <2> QED
    BY <2>1 DEF PolicyInv, MeasuresWhatIsSolved
<1>6. CASE SkipItem \/ IterationFails \/ ReportItem \/ Signal \/ UNCHANGED vars
  <2>1. /\ UNCHANGED <<request, runs, found>>
        /\ pc' = pc \/ (pc = "item" /\ pc' = "items")
    BY <1>6 DEF SkipItem, IterationFails, ReportItem, Signal, vars, place
  <2> QED
    BY <2>1 DEF PolicyInv, MeasuresWhatIsSolved
<1> QED
  BY <1>1, <1>2, <1>3, <1>4, <1>5, <1>6 DEF Next

(* Whatever the rules, the streamliner and the options: a search that is   *)
(* measured has the policy of one that solves, though each has a dispatch  *)
(* of its own.                                                             *)
THEOREM MeasuredAsSolved == Spec => []MeasuresWhatIsSolved
<1>1. Init => PolicyInv
  BY NoSamples DEF Init, PolicyInv, MeasuresWhatIsSolved
<1>2. PolicyInv => MeasuresWhatIsSolved
  BY DEF PolicyInv
<1> QED
  BY <1>1, <1>2, StepKeepsPolicies, PTL DEF Spec
-----------------------------------------------------------------------------
(* A range of seeds.  The samples of a seed lag behind its searches by the *)
(* warm-up.                                                                *)
SkipsWarmUp(rows, searches) ==
  /\ IsSequence(rows)
  /\ Len(rows) = IF Len(searches) > Warm THEN Len(searches) - Warm ELSE 0
  /\ \A k \in 1..Len(rows) : rows[k] = searches[k + Warm]

LEMMA WarmIs == Warm \in 0..1 /\ (request.warmup <=> Warm = 1)
BY DEF Warm

LEMMA SkippedIsSubSeq ==
  ASSUME NEW rows, NEW searches, IsSequence(searches), SkipsWarmUp(rows, searches)
  PROVE  rows = AfterWarmUp(searches)
<1>1. PICK S : rows \in Seq(S)
  BY DEF SkipsWarmUp, IsSequence
<1>2. PICK T : searches \in Seq(T)
  BY DEF IsSequence
<1> DEFINE n == Len(searches)
           sub == SubSeq(searches, 1 + Warm, n)
<1>3. n \in Nat /\ Warm \in 0..1
  BY <1>2, WarmIs
<1>4. /\ Len(sub) = IF 1 + Warm <= n THEN n - Warm ELSE 0
      /\ DOMAIN sub = 1..Len(sub)
      /\ \A k \in 1..Len(sub) : sub[k] = searches[k + Warm]
  BY <1>2, <1>3
<1>5. sub = [k \in 1..Len(sub) |-> sub[k]]
  BY <1>2, <1>3
<1> HIDE DEF n, sub
<1>6. Len(rows) = Len(sub)
  BY <1>3, <1>4 DEF SkipsWarmUp, n
<1>7. rows = [k \in 1..Len(rows) |-> rows[k]]
  BY <1>1
<1>8. \A k \in 1..Len(sub) : rows[k] = sub[k]
  BY <1>4, <1>6 DEF SkipsWarmUp
<1>9. rows = sub
  BY <1>5, <1>6, <1>7, <1>8
<1> QED
  BY <1>9 DEF sub, n, AfterWarmUp

(* What a seed leaves behind once its iterations are over.                 *)
RightEntry(entry, k) ==
  /\ entry.of = request.first + k - 1
  /\ Len(entry.row) = AsManyAsAsked
  /\ entry.row = AfterWarmUp(entry.runs)

SeedsInv ==
  request.is = "seeds" =>
    /\ request \in Requests /\ seed \in Int /\ i \in Nat
    /\ pc \in {"start", "seeds", "end"} /\ (printed => seed > request.last)
    /\ IsSequence(data) /\ Len(data) = seed - request.first
    /\ Len(data) = 0 \/ seed <= request.last + 1
    /\ \A k \in 1..Len(data) : RightEntry(data[k], k)
    /\ IsSequence(runs) /\ Len(runs) = i
    /\ i = 0 \/ i <= AllIterations
    /\ SkipsWarmUp(row, runs)

LEMMA KeptSkipsWarmUp ==
  ASSUME NEW rows, NEW searches, IsSequence(searches), SkipsWarmUp(rows, searches), NEW e,
         Len(searches) = i, i \in Nat
  PROVE  SkipsWarmUp(Kept(rows, e), Append(searches, e))
<1> DEFINE n == Len(searches)
           more == Append(searches, e)
<1>1. /\ IsSequence(more) /\ n \in Nat /\ Len(more) = n + 1
      /\ \A k \in 1..n : more[k] = searches[k]
      /\ more[n + 1] = e
  BY Appended
<1>2. IsSequence(rows) /\ Warm \in 0..1 /\ (request.warmup <=> Warm = 1)
  BY WarmIs DEF SkipsWarmUp
<1> HIDE DEF more
<1>3. CASE ~ request.warmup \/ i > 0
  <2> DEFINE l == Len(rows)
             longer == Append(rows, e)
  <2>1. Kept(rows, e) = longer
    BY <1>3 DEF Kept
  <2>2. /\ IsSequence(longer) /\ l \in Nat /\ Len(longer) = l + 1
        /\ \A k \in 1..l : longer[k] = rows[k]
        /\ longer[l + 1] = e
    BY <1>2, Appended
  <2>3. l = n - Warm
    BY <1>1, <1>2, <1>3 DEF SkipsWarmUp
  <2>4. \A k \in 1..l : rows[k] = searches[k + Warm]
    BY DEF SkipsWarmUp
  <2> HIDE DEF l, n, longer
  <2>5. Len(longer) = IF Len(more) > Warm THEN Len(more) - Warm ELSE 0
    BY <1>1, <1>2, <2>2, <2>3
  <2>6. ASSUME NEW k \in 1..Len(longer) PROVE longer[k] = more[k + Warm]
    <3>1. CASE k = l + 1
      <4>1. k + Warm = n + 1
        BY <1>1, <1>2, <2>2, <2>3, <3>1
      <4> QED
        BY <1>1, <2>2, <3>1, <4>1
    <3>2. CASE k # l + 1
      <4>1. k \in 1..l /\ k + Warm \in 1..n
        BY <1>1, <1>2, <2>2, <2>3, <3>2
      <4> QED
        BY <1>1, <2>2, <2>4, <4>1
    <3> QED
      BY <3>1, <3>2
  <2> QED
    BY <2>1, <2>2, <2>5, <2>6, Zenon DEF SkipsWarmUp, more
<1>4. CASE request.warmup /\ i = 0
  <2>1. Kept(rows, e) = rows /\ n = 0 /\ Len(rows) = 0
    BY <1>1, <1>2, <1>4 DEF Kept, SkipsWarmUp
  <2> QED
    BY <1>1, <1>2, <1>4, <2>1 DEF SkipsWarmUp, more
<1> QED
  BY <1>3, <1>4

LEMMA MeasureKeepsSeeds == SeedsInv /\ MeasureSeed => SeedsInv'
<1> SUFFICES ASSUME SeedsInv, MeasureSeed, request.is = "seeds" PROVE SeedsInv'
  BY DEF SeedsInv, MeasureSeed
<1>1. PICK e : i' = i + 1 /\ runs' = Append(runs, e) /\ row' = Kept(row, e)
  BY DEF MeasureSeed, Measure
<1>2. UNCHANGED <<request, seed, pc, printed, data>> /\ i < AllIterations
  BY DEF MeasureSeed, result
<1>3. IsSequence(runs') /\ Len(runs') = Len(runs) + 1
  BY <1>1, Appended DEF SeedsInv
<1>4. i' \in Nat /\ Len(runs') = i' /\ i' <= AllIterations
  BY <1>1, <1>2, <1>3, RequestsAssumption, WarmIs DEF SeedsInv, AllIterations
<1>5. SkipsWarmUp(row', runs')
  BY <1>1, KeptSkipsWarmUp DEF SeedsInv
<1>6. AllIterations' = AllIterations /\ Warm' = Warm
  BY <1>2 DEF AllIterations, Warm
<1>7. SkipsWarmUp(row, runs)'
  BY <1>5, <1>6 DEF SkipsWarmUp
<1>8. ASSUME NEW k \in 1..Len(data) PROVE RightEntry(data[k], k)'
  BY <1>2, <1>8 DEF SeedsInv, RightEntry, AsManyAsAsked, AfterWarmUp, Warm
<1> QED
  BY <1>2, <1>3, <1>4, <1>6, <1>7, <1>8 DEF SeedsInv

LEMMA NextKeepsSeeds == SeedsInv /\ NextSeed => SeedsInv'
<1> SUFFICES ASSUME SeedsInv, NextSeed, request.is = "seeds" PROVE SeedsInv'
  BY DEF SeedsInv, NextSeed
<1> DEFINE e == [of |-> seed, row |-> row, runs |-> runs]
           n == Len(data)
<1>1. /\ data' = Append(data, e) /\ seed' = seed + 1 /\ i' = 0 /\ runs' = <<>> /\ row' = <<>>
      /\ UNCHANGED <<request, pc, printed>> /\ seed <= request.last /\ i >= AllIterations /\ pc = "seeds"
  BY DEF NextSeed, result
<1>2. /\ IsSequence(data') /\ n \in Nat /\ Len(data') = n + 1
      /\ \A k \in 1..n : data'[k] = data[k]
      /\ data'[n + 1] = e
  BY <1>1, Appended DEF SeedsInv
<1>3. /\ request.first \in Int /\ request.last \in Int /\ request.iterations \in Int /\ Warm \in 0..1
      /\ seed \in Int /\ n = seed - request.first /\ i \in Nat
  BY RequestsAssumption, WarmIs DEF SeedsInv
<1>4. RightEntry(e, n + 1)
  <2>1. e.of = request.first + (n + 1) - 1
    BY <1>3
  <2>2. Len(row) = AsManyAsAsked
    <3>1. Len(row) = IF i > Warm THEN i - Warm ELSE 0
      BY DEF SeedsInv, SkipsWarmUp
    <3>2. i = 0 \/ i = request.iterations + Warm
      BY <1>1, <1>3 DEF SeedsInv, AllIterations
    <3>3. i = 0 => request.iterations + Warm <= 0
      BY <1>1, <1>3 DEF AllIterations
    <3> QED
      BY <1>3, <3>1, <3>2, <3>3 DEF AsManyAsAsked
  <2>3. row = AfterWarmUp(runs)
    BY SkippedIsSubSeq DEF SeedsInv
  <2> QED
    BY <2>1, <2>2, <2>3 DEF RightEntry
<1> HIDE DEF e, n
<1>5. ASSUME NEW k \in 1..n + 1 PROVE RightEntry(data'[k], k)
  <2>1. CASE k = n + 1
    BY <1>2, <1>4, <2>1
  <2>2. CASE k # n + 1
    <3>1. k \in 1..n
      BY <1>2, <2>2
    <3> QED
      BY <1>2, <3>1 DEF SeedsInv, n
  <2> QED
    BY <2>1, <2>2
<1>6. \A k \in 1..n + 1 : RightEntry(data[k], k)'
  BY <1>1, <1>5 DEF RightEntry, AsManyAsAsked, AfterWarmUp, Warm
<1>7. SkipsWarmUp(row, runs)'
  BY <1>1, NoSamples, WarmIs DEF SkipsWarmUp, Warm
<1>8. seed' \in Int /\ Len(data') = seed' - request'.first /\ seed' <= request'.last + 1
  BY <1>1, <1>2, <1>3
<1>9. ~ printed'
  BY <1>1, <1>3 DEF SeedsInv
<1>10. \A k \in 1..Len(data') : RightEntry(data[k], k)'
  BY <1>2, <1>6
<1>11. IsSequence(runs') /\ Len(runs') = i' /\ i' = 0
  BY <1>1, NoSamples
<1>12. request' \in Requests /\ pc' = "seeds" /\ IsSequence(data')
  BY <1>1, <1>2 DEF SeedsInv
<1> QED
  BY <1>7, <1>8, <1>9, <1>10, <1>11, <1>12 DEF SeedsInv

LEMMA StepKeepsSeeds == SeedsInv /\ [Next]_vars => SeedsInv'
<1> SUFFICES ASSUME SeedsInv, [Next]_vars PROVE SeedsInv'
  OBVIOUS
<1>1. CASE Start \/ Aggregate \/ Signal \/ UNCHANGED vars
  <2>1. /\ UNCHANGED <<request, seed, i, runs, row, data>>
        /\ \/ UNCHANGED <<pc, printed>>
           \/ pc' \in {"seeds", "end"} /\ (printed' => printed \/ seed > request.last)
    BY <1>1 DEF Start, Aggregate, Signal, vars, place, result
  <2> QED
    BY <2>1 DEF SeedsInv, RightEntry, AsManyAsAsked, AfterWarmUp, Warm, AllIterations, SkipsWarmUp
<1>2. CASE OpenList \/ SkipItem \/ TakeItem \/ RulesRefused \/ MeasureItem \/ IterationFails \/ ReportItem
           \/ CloseList
  <2>1. UNCHANGED request /\ (request.is = "json" \/ pc \in {"items", "item"})
    BY <1>2 DEF OpenList, SkipItem, TakeItem, RulesRefused, MeasureItem, IterationFails, ReportItem,
                CloseList, HasItem, Iterating
  <2> QED
    BY <2>1 DEF SeedsInv
<1> QED
  BY <1>1, <1>2, MeasureKeepsSeeds, NextKeepsSeeds DEF Next

(* Whatever the range, the iterations that were asked for, and the cost of *)
(* the searches: a benchmark that is printed has every seed of the range   *)
(* once, in order, with all samples after the warm-up and no other.        *)
THEOREM SeedsAreReported == Spec => []EachSeedIsMeasured
<1>1. Init => SeedsInv
  BY NoSamples, RequestsAssumption, WarmIs DEF Init, SeedsInv, SkipsWarmUp
<1>2. SeedsInv => EachSeedIsMeasured
  <2> SUFFICES ASSUME SeedsInv, request.is = "seeds", printed PROVE EachSeedIsMeasured
    BY DEF EachSeedIsMeasured
  <2>1. PICK S : data \in Seq(S)
    BY DEF SeedsInv, IsSequence
  <2>2. request.first \in Int /\ request.last \in Int
    BY RequestsAssumption DEF SeedsInv
  <2>3. DOMAIN data = 1..Len(data) /\ 1..Len(data) = 1..request.last - request.first + 1
    BY <2>1, <2>2 DEF SeedsInv
  <2>4. \A k \in DOMAIN data : RightEntry(data[k], k)
    BY <2>3 DEF SeedsInv
  <2> QED
    BY <2>3, <2>4 DEF EachSeedIsMeasured, RightEntry
<1> QED
  BY <1>1, <1>2, StepKeepsSeeds, PTL DEF Spec
=============================================================================
