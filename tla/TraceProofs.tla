---------------------------- MODULE TraceProofs ----------------------------
(***************************************************************************)
(* What a trace tells of its search, and where a traced search halts: for  *)
(* every sound game, for caches of every size and for budgets of every     *)
(* kind.                                                                   *)
(***************************************************************************)
EXTENDS SearchTrace, SolverProofs, TLAPS

-----------------------------------------------------------------------------
(* The events of a trace: the states and the depths that they tell of.     *)
Names ==
  {"MOVE", "UNDO", "DEPTH", "QUERY", "EVICT", "HIT", "MISS", "INSERT", "LEGAL",
   "UNSOLV", "TIMEOUT", "TERMINATED", "SOLVED"}

TraceEvent == [is : Names, mv : Move, n : Int, at : State]

(* An event that is written right, of a search in state s at depth d, and  *)
(* leaves it at depth to.                                                  *)
Follows(s, d, event, to) ==
  /\ event.is = "MOVE" => event.at = Apply(s, event.mv) /\ to = d + 1
  /\ event.is = "UNDO" => event.at = Undo(s, event.mv) /\ to = d - 1
  /\ event.is \notin {"MOVE", "UNDO"} => event.at = s /\ to = d
  /\ event.is = "DEPTH" => event.n = d

(* The state after the first k events of t, from s.                        *)
After(s, t, k) == IF k = 0 THEN s ELSE t[k].at

Run(s, d, t, dep) ==
  /\ dep \in [0..Len(t) -> Int] /\ dep[0] = d
  /\ \A k \in 1..Len(t) : Follows(After(s, t, k - 1), dep[k - 1], t[k], dep[k])

(* The events t tell of a search from s at depth d to s2 at d2.            *)
Tell(s, d, t, s2, d2) ==
  /\ t \in Seq(TraceEvent)
  /\ s2 = After(s, t, Len(t))
  /\ \E dep : Run(s, d, t, dep) /\ dep[Len(t)] = d2

LEMMA TellOfOne ==
  ASSUME NEW s, NEW d \in Int, NEW e \in TraceEvent, NEW to \in Int, Follows(s, d, e, to)
  PROVE  Tell(s, d, <<e>>, e.at, to)
<1> DEFINE t == <<e>>
           dep == [k \in 0..1 |-> IF k = 0 THEN d ELSE to]
<1>1. t \in Seq(TraceEvent) /\ Len(t) = 1 /\ t[1] = e
  OBVIOUS
<1>2. dep \in [0..1 -> Int] /\ dep[0] = d /\ dep[1] = to
  OBVIOUS
<1> HIDE DEF t, dep
<1>3. \A k \in 1..1 : k = 1 /\ k - 1 = 0
  OBVIOUS
<1>4. \A k \in 1..1 : Follows(After(s, t, k - 1), dep[k - 1], t[k], dep[k])
  BY <1>1, <1>2, <1>3 DEF After
<1>5. Run(s, d, t, dep)
  BY <1>1, <1>2, <1>4 DEF Run
<1>6. e.at = After(s, t, Len(t))
  BY <1>1 DEF After
<1>7. Tell(s, d, t, e.at, to)
  BY <1>1, <1>2, <1>5, <1>6 DEF Tell
<1> QED BY <1>7 DEF t

LEMMA TellOfNone ==
  ASSUME NEW s, NEW d \in Int
  PROVE  Tell(s, d, <<>>, s, d)
<1> DEFINE dep == [k \in 0..0 |-> d]
<1>1. <<>> \in Seq(TraceEvent) /\ Len(<<>>) = 0 /\ 1..0 = {}
  OBVIOUS
<1>2. dep \in [0..0 -> Int] /\ dep[0] = d
  OBVIOUS
<1> HIDE DEF dep
<1>3. Run(s, d, <<>>, dep)
  BY <1>1, <1>2 DEF Run
<1>4. s = After(s, <<>>, Len(<<>>))
  BY <1>1 DEF After
<1> QED BY <1>1, <1>2, <1>3, <1>4 DEF Tell

LEMMA TellJoined ==
  ASSUME NEW s, NEW d, NEW t, NEW s2, NEW d2, NEW u, NEW s3, NEW d3,
         Tell(s, d, t, s2, d2), Tell(s2, d2, u, s3, d3)
  PROVE  Tell(s, d, t \o u, s3, d3)
<1> DEFINE m == Len(t)
           n == Len(u)
           v == t \o u
<1>1. PICK dt : Run(s, d, t, dt) /\ dt[m] = d2
  BY DEF Tell
<1>2. PICK du : Run(s2, d2, u, du) /\ du[n] = d3
  BY DEF Tell
<1>3. /\ t \in Seq(TraceEvent) /\ u \in Seq(TraceEvent) /\ m \in Nat /\ n \in Nat
      /\ s2 = After(s, t, m) /\ s3 = After(s2, u, n)
  BY DEF Tell
<1>4. /\ v \in Seq(TraceEvent) /\ Len(v) = m + n
      /\ \A i \in 1..(m + n) : v[i] = IF i <= m THEN t[i] ELSE u[i - m]
  BY <1>3, ConcatProperties
<1>5. /\ dt \in [0..m -> Int] /\ dt[0] = d
      /\ \A k \in 1..m : Follows(After(s, t, k - 1), dt[k - 1], t[k], dt[k])
      /\ du \in [0..n -> Int] /\ du[0] = d2
      /\ \A k \in 1..n : Follows(After(s2, u, k - 1), du[k - 1], u[k], du[k])
  BY <1>1, <1>2 DEF Run
<1> HIDE DEF v, m, n
<1> DEFINE dep == [k \in 0..(m + n) |-> IF k <= m THEN dt[k] ELSE du[k - m]]
<1>6. \A k \in 0..m : k \in 0..(m + n) /\ dep[k] = dt[k]
  BY <1>3
<1>7. \A k \in 0..n : m + k \in 0..(m + n) /\ dep[m + k] = du[k]
  <2> TAKE k \in 0..n
  <2>1. m + k \in 0..(m + n) /\ (m + k <= m <=> k = 0) /\ m + k - m = k
    BY <1>3
  <2>2. k = 0 => m + k = m
    BY <1>3
  <2> QED BY <1>1, <1>5, <2>1, <2>2 DEF m
<1>8. dep \in [0..(m + n) -> Int]
  <2>1. \A k \in 0..(m + n) : IF k <= m THEN k \in 0..m ELSE k - m \in 0..n
    BY <1>3
  <2> QED BY <1>5, <2>1
<1> HIDE DEF dep
<1>9. \A k \in 0..m : After(s, v, k) = After(s, t, k)
  <2> TAKE k \in 0..m
  <2>1. k # 0 => k \in 1..(m + n) /\ k <= m
    BY <1>3
  <2> QED BY <1>4, <2>1 DEF After
<1>10. \A k \in 0..n : After(s, v, m + k) = After(s2, u, k)
  <2> TAKE k \in 0..n
  <2>1. CASE k = 0
    <3>1. m + k = m /\ m \in 0..m
      BY <1>3, <2>1
    <3> QED BY <1>3, <1>9, <2>1, <3>1 DEF After
  <2>2. CASE k # 0
    <3> DEFINE i == m + k
    <3>1. i \in 1..(m + n) /\ ~ (i <= m) /\ i - m = k /\ i # 0
      BY <1>3, <2>2
    <3> HIDE DEF i
    <3>2. v[i] = u[k]
      BY <1>4, <3>1
    <3>3. After(s, v, i) = After(s2, u, k)
      BY <2>2, <3>1, <3>2 DEF After
    <3> QED BY <3>3 DEF i
  <2> QED BY <2>1, <2>2
<1>11. ASSUME NEW k \in 1..(m + n)
       PROVE  Follows(After(s, v, k - 1), dep[k - 1], v[k], dep[k])
  <2>1. CASE k <= m
    <3>1. k \in 1..m /\ k \in 0..m /\ k - 1 \in 0..m
      BY <1>3, <2>1
    <3>2. dep[k] = dt[k] /\ dep[k - 1] = dt[k - 1] /\ After(s, v, k - 1) = After(s, t, k - 1)
      BY <1>6, <1>9, <3>1
    <3>3. v[k] = t[k]
      BY <1>4, <2>1
    <3> QED BY <1>5, <3>1, <3>2, <3>3
  <2>2. CASE ~ (k <= m)
    <3> DEFINE j == k - m
    <3>1. /\ j \in 1..n /\ j \in 0..n /\ j - 1 \in 0..n
          /\ m + j = k /\ m + (j - 1) = k - 1
      BY <1>3, <2>2
    <3>2. v[k] = u[j]
      BY <1>4, <2>2
    <3> HIDE DEF j
    <3>3. dep[k] = du[j] /\ dep[k - 1] = du[j - 1] /\ After(s, v, k - 1) = After(s2, u, j - 1)
      BY <1>7, <1>10, <3>1
    <3> QED BY <1>5, <3>1, <3>2, <3>3
  <2> QED BY <2>1, <2>2
<1>12. Run(s, d, v, dep)
  <2>1. 0 \in 0..m
    BY <1>3
  <2>2. dep[0] = d
    BY <1>5, <1>6, <2>1
  <2> QED BY <1>4, <1>8, <1>11, <2>2 DEF Run
<1>13. s3 = After(s, v, Len(v)) /\ dep[Len(v)] = d3
  <2>1. n \in 0..n
    BY <1>3
  <2> QED BY <1>2, <1>3, <1>4, <1>7, <1>10, <2>1 DEF n
<1>14. Tell(s, d, v, s3, d3)
  BY <1>4, <1>12, <1>13 DEF Tell
<1> QED BY <1>14 DEF v

(* The first k of the events tell of the search up to there.               *)
LEMMA TellOfPart ==
  ASSUME NEW s, NEW d, NEW t, NEW s2, NEW d2, Tell(s, d, t, s2, d2), NEW k \in 0..Len(t)
  PROVE  \E d3 : Tell(s, d, SubSeq(t, 1, k), After(s, t, k), d3)
<1> DEFINE u == SubSeq(t, 1, k)
<1>1. PICK dt : Run(s, d, t, dt)
  BY DEF Tell
<1>2. t \in Seq(TraceEvent) /\ k \in Nat /\ k <= Len(t)
  BY DEF Tell
<1>3. u \in Seq(TraceEvent) /\ Len(u) = k /\ \A i \in 1..k : u[i] = t[i]
  BY <1>2, InitialPart
<1>4. /\ dt \in [0..Len(t) -> Int] /\ dt[0] = d
      /\ \A i \in 1..Len(t) : Follows(After(s, t, i - 1), dt[i - 1], t[i], dt[i])
  BY <1>1 DEF Run
<1> HIDE DEF u
<1> DEFINE dep == [i \in 0..k |-> dt[i]]
<1>5. \A i \in 0..k : i \in 0..Len(t) /\ dep[i] = dt[i]
  BY <1>2
<1>6. dep \in [0..k -> Int]
  BY <1>4, <1>5
<1> HIDE DEF dep
<1>7. \A i \in 0..k : After(s, u, i) = After(s, t, i)
  <2>1. \A i \in 0..k : i # 0 => i \in 1..k
    BY <1>2
  <2> QED BY <1>3, <2>1 DEF After
<1>8. ASSUME NEW i \in 1..k
      PROVE  Follows(After(s, u, i - 1), dep[i - 1], u[i], dep[i])
  <2>1. i \in 0..k /\ i - 1 \in 0..k /\ i \in 1..Len(t)
    BY <1>2
  <2> QED BY <1>3, <1>4, <1>5, <1>7, <2>1
<1>9. Run(s, d, u, dep)
  <2>1. 0 \in 0..k
    BY <1>2
  <2> QED BY <1>3, <1>4, <1>5, <1>6, <1>8, <2>1 DEF Run
<1>10. After(s, t, k) = After(s, u, Len(u))
  <2>1. k \in 0..k
    BY <1>2
  <2> QED BY <1>3, <1>7, <2>1
<1>11. Tell(s, d, u, After(s, t, k), dep[Len(u)])
  BY <1>3, <1>9, <1>10 DEF Tell
<1> QED BY <1>11 DEF u

(* Who replays such events is right about every one of them.               *)
At(s, d) == [state |-> s, depth |-> d, right |-> TRUE]

LEMMA RightKept ==
  ASSUME NEW s, NEW d, NEW right, NEW a, a = [state |-> s, depth |-> d, right |-> right]
  PROVE  [a EXCEPT !.right = right] = a
OBVIOUS

LEMMA ReplayedRight ==
  ASSUME NEW s, NEW d, NEW e, NEW to, Follows(s, d, e, to)
  PROVE  Replayed(At(s, d), e) = At(e.at, to)
<1> DEFINE a == At(s, d)
<1>1. a.state = s /\ a.depth = d /\ a.right = TRUE
  BY DEF At
<1>2. CASE e.is = "MOVE"
  BY <1>1, <1>2 DEF Replayed, Follows, At
<1>3. CASE e.is = "UNDO"
  BY <1>1, <1>3 DEF Replayed, Follows, At
<1>4. CASE e.is = "DEPTH"
  <2>1. e.n = d /\ e.at = s /\ to = d
    BY <1>4 DEF Follows
  <2>2. (TRUE /\ e.n = d /\ e.at = s) = TRUE
    BY <2>1
  <2>3. [a EXCEPT !.right = TRUE] = a
    BY RightKept DEF At
  <2>4. Replayed(a, e) = [a EXCEPT !.right = @ /\ e.n = a.depth /\ e.at = a.state]
    BY <1>4 DEF Replayed
  <2>5. Replayed(a, e) = [a EXCEPT !.right = TRUE]
    BY <1>1, <2>1, <2>2, <2>4
  <2> QED BY <2>1, <2>3, <2>5
<1>5. CASE e.is \notin {"MOVE", "UNDO", "DEPTH"}
  <2>1. e.at = s /\ to = d
    BY <1>5 DEF Follows
  <2>3. [a EXCEPT !.right = TRUE] = a
    BY RightKept DEF At
  <2>4. Replayed(a, e) = [a EXCEPT !.right = @ /\ e.at = a.state]
    BY <1>5 DEF Replayed
  <2>5. Replayed(a, e) = [a EXCEPT !.right = TRUE]
    BY <1>1, <2>1, <2>4
  <2> QED BY <2>1, <2>3, <2>5
<1> QED BY <1>2, <1>3, <1>4, <1>5

LEMMA ReplayIs ==
  ASSUME NEW s2, NEW d2, Tell(init_state, 0, trace, s2, d2)
  PROVE  Replay = At(s2, d2)
<1> DEFINE n == Len(trace)
           start == [state |-> init_state, depth |-> 0, right |-> TRUE]
           g == CHOOSE q : q = [k \in 0..n |-> IF k = 0 THEN start
                                              ELSE Replayed(q[k - 1], trace[k])]
<1>1. PICK dep : Run(init_state, 0, trace, dep) /\ dep[n] = d2
  BY DEF Tell
<1>2. n \in Nat /\ s2 = After(init_state, trace, n)
  BY DEF Tell
<1>3. /\ dep[0] = 0
      /\ \A k \in 1..n : Follows(After(init_state, trace, k - 1), dep[k - 1], trace[k], dep[k])
  BY <1>1 DEF Run
<1> DEFINE h == [k \in 0..n |-> At(After(init_state, trace, k), dep[k])]
<1>4. Replay = g[n]
  BY DEF Replay
<1>5. h[0] = start
  <2>1. 0 \in 0..n
    BY <1>2
  <2>2. h[0] = At(After(init_state, trace, 0), dep[0])
    BY <2>1
  <2> HIDE DEF h
  <2> QED BY <1>3, <2>2 DEF At, After
<1> HIDE DEF n
<1>6. ASSUME NEW k \in 0..n, k # 0
      PROVE  h[k] = Replayed(h[k - 1], trace[k])
  <2>1. k \in 1..n /\ k - 1 \in 0..n
    BY <1>2, <1>6
  <2>2. /\ h[k] = At(After(init_state, trace, k), dep[k])
        /\ h[k - 1] = At(After(init_state, trace, k - 1), dep[k - 1])
    BY <2>1
  <2> HIDE DEF h
  <2>3. Follows(After(init_state, trace, k - 1), dep[k - 1], trace[k], dep[k])
    BY <1>3, <2>1
  <2>4. Replayed(At(After(init_state, trace, k - 1), dep[k - 1]), trace[k]) = At(trace[k].at, dep[k])
    BY <2>3, ReplayedRight
  <2>5. After(init_state, trace, k) = trace[k].at
    BY <1>6 DEF After
  <2> QED BY <2>2, <2>4, <2>5
<1>7. h = [k \in 0..n |-> h[k]]
  OBVIOUS
<1>8. h[n] = At(s2, d2)
  <2>1. n \in 0..n
    BY <1>2
  <2> QED BY <1>1, <1>2, <2>1 DEF n
<1> HIDE DEF h, start
<1>9. h = [k \in 0..n |-> IF k = 0 THEN start ELSE Replayed(h[k - 1], trace[k])]
  BY <1>5, <1>6, <1>7
<1>10. g = [k \in 0..n |-> IF k = 0 THEN start ELSE Replayed(g[k - 1], trace[k])]
  BY <1>9
<1> HIDE DEF g
<1> DEFINE T == {k \in Nat : k \in 0..n /\ g[k] # h[k]}
<1>11. T = {}
  <2>1. SUFFICES ASSUME T # {} PROVE FALSE
    OBVIOUS
  <2>2. PICK k \in T : \A j \in T : k <= j
    BY <2>1, LeastOf
  <2>3. k \in 0..n /\ k \in Nat /\ g[k] # h[k]
    BY <2>2
  <2>4. k # 0
    <3>1. g[0] = start
      BY <1>2, <1>10
    <3> QED BY <1>5, <2>3, <3>1
  <2>5. k - 1 \in 0..n /\ k - 1 \in Nat /\ ~ (k <= k - 1)
    BY <1>2, <2>3, <2>4
  <2>6. g[k - 1] = h[k - 1]
    BY <2>2, <2>5
  <2>7. g[k] = Replayed(g[k - 1], trace[k])
    BY <1>10, <2>3, <2>4
  <2> QED BY <1>6, <2>3, <2>4, <2>6, <2>7
<1>12. g[n] = h[n]
  <2>1. n \in Nat /\ n \in 0..n
    BY <1>2
  <2> QED BY <1>11, <2>1
<1> QED BY <1>4, <1>8, <1>12 DEF n, g

-----------------------------------------------------------------------------
(* How many events of a trace are of a kind, and how deep they go.         *)
Count(t, E) == Cardinality({k \in 1..Len(t) : t[k] \in E})

Of(is) == {e \in TraceEvent : e.is = is}
Forcing == {e \in TraceEvent : e.is = "MOVE" /\ e.mv.dominance_move}

LEMMA CountedBy ==
  ASSUME NEW S, IsFiniteSet(S), NEW T, NEW f, f = [x \in S |-> f[x]],
         \A x \in S : f[x] \in T,
         \A x, y \in S : f[x] = f[y] => x = y,
         \A y \in T : \E x \in S : f[x] = y
  PROVE  IsFiniteSet(T) /\ Cardinality(T) = Cardinality(S)
<1>1. f \in Bijection(S, T)
  BY DEF Bijection, Injection, Surjection, IsInjective
<1>2. ExistsBijection(S, T)
  BY <1>1 DEF ExistsBijection
<1> QED BY <1>2, FS_Bijection

LEMMA CountIsNat ==
  ASSUME NEW t, Len(t) \in Nat, NEW E
  PROVE  Count(t, E) \in Nat /\ IsFiniteSet({k \in 1..Len(t) : t[k] \in E})
<1> DEFINE S == {k \in 1..Len(t) : t[k] \in E}
<1>1. IsFiniteSet(1..Len(t))
  BY FS_Interval
<1>2. S \in SUBSET (1..Len(t))
  OBVIOUS
<1>3. IsFiniteSet(S)
  BY <1>1, <1>2, FS_Subset
<1> QED BY <1>3, FS_CardinalityType DEF Count

LEMMA CountJoined ==
  ASSUME NEW t \in Seq(TraceEvent), NEW u \in Seq(TraceEvent), NEW E
  PROVE  Count(t \o u, E) = Count(t, E) + Count(u, E)
<1> DEFINE m == Len(t)
           n == Len(u)
           v == t \o u
           A == {k \in 1..m : t[k] \in E}
           B == {k \in 1..n : u[k] \in E}
           C == {k \in 1..(m + n) : v[k] \in E}
           D == {k \in C : k > m}
<1>1. m \in Nat /\ n \in Nat
  OBVIOUS
<1>2. Len(v) = m + n /\ \A i \in 1..(m + n) : v[i] = IF i <= m THEN t[i] ELSE u[i - m]
  BY ConcatProperties
<1>3. IsFiniteSet(A) /\ IsFiniteSet(B)
  BY <1>1, CountIsNat
<1>4. Count(v, E) = Cardinality(C) /\ Count(t, E) = Cardinality(A) /\ Count(u, E) = Cardinality(B)
  BY <1>2 DEF Count
<1> HIDE DEF v, m, n
<1>5. C = A \union D /\ A \intersect D = {}
  <2>1. ASSUME NEW k
        PROVE  k \in C <=> k \in A \/ k \in D
    <3>1. k \in 1..m => k \in 1..(m + n) /\ k <= m
      BY <1>1
    <3>2. k \in 1..(m + n) => k \in 1..m \/ k > m
      BY <1>1
    <3>3. CASE k \in 1..m
      BY <1>2, <3>1, <3>3
    <3>4. CASE k \notin 1..m
      BY <3>2, <3>4
    <3> QED BY <3>3, <3>4
  <2>2. \A k \in A : ~ (k > m)
    BY <1>1
  <2> QED BY <2>1, <2>2
<1> DEFINE f == [k \in B |-> m + k]
<1>6. \A k \in B : f[k] = m + k /\ f[k] \in D
  <2> TAKE k \in B
  <2> DEFINE i == m + k
  <2>1. i \in 1..(m + n) /\ ~ (i <= m) /\ i > m /\ i - m = k /\ u[k] \in E
    BY <1>1
  <2> HIDE DEF i
  <2>2. v[i] \in E
    BY <1>2, <2>1
  <2>3. i \in D
    BY <2>1, <2>2
  <2> QED BY <2>3 DEF i
<1>7. \A k \in D : \E j \in B : f[j] = k
  <2> TAKE k \in D
  <2>1. k - m \in 1..n /\ m + (k - m) = k /\ ~ (k <= m) /\ k \in 1..(m + n) /\ v[k] \in E
    BY <1>1
  <2>2. k - m \in B
    BY <1>2, <2>1
  <2> QED BY <1>6, <2>1, <2>2
<1>8. \A j, k \in B : f[j] = f[k] => j = k
  <2> TAKE j, k \in B
  <2>1. j \in Int /\ k \in Int /\ f[j] = m + j /\ f[k] = m + k
    BY <1>6
  <2> QED BY <1>1, <2>1
<1>9. f = [k \in B |-> f[k]]
  OBVIOUS
<1> HIDE DEF f, A, B, D
<1>10. IsFiniteSet(D) /\ Cardinality(D) = Cardinality(B)
  BY <1>3, <1>6, <1>7, <1>8, <1>9, CountedBy
<1>11. Cardinality(A \union D) = Cardinality(A) + Cardinality(D) - Cardinality(A \intersect D)
  BY <1>3, <1>10, FS_Union
<1>12. Cardinality(A \intersect D) = 0
  BY <1>5, FS_EmptySet
<1>13. Cardinality(A) \in Nat /\ Cardinality(B) \in Nat
  BY <1>3, FS_CardinalityType
<1> HIDE DEF C
<1>14. Cardinality(C) = Cardinality(A) + Cardinality(B)
  BY <1>5, <1>10, <1>11, <1>12, <1>13
<1> QED BY <1>4, <1>14 DEF v

LEMMA CountOfOne ==
  ASSUME NEW e, NEW E
  PROVE  Count(<<e>>, E) = IF e \in E THEN 1 ELSE 0
<1> DEFINE S == {k \in 1..1 : <<e>>[k] \in E}
<1>1. Count(<<e>>, E) = Cardinality(S)
  BY DEF Count
<1>2. \A k \in 1..1 : k = 1 /\ <<e>>[k] = e
  OBVIOUS
<1>3. S = IF e \in E THEN {1} ELSE {}
  BY <1>2
<1> QED BY <1>1, <1>3, FS_Singleton, FS_EmptySet

LEMMA CountOfNone ==
  ASSUME NEW E
  PROVE  Count(<<>>, E) = 0
<1>1. {k \in 1..Len(<<>>) : <<>>[k] \in E} = {}
  OBVIOUS
<1> QED BY <1>1, FS_EmptySet DEF Count

(* The depths that a trace tells of.                                       *)
Depths(t) == {t[k].n : k \in {j \in 1..Len(t) : t[j].is = "DEPTH"}}

LEMMA DepthsJoined ==
  ASSUME NEW t \in Seq(TraceEvent), NEW u \in Seq(TraceEvent)
  PROVE  Depths(t \o u) = Depths(t) \union Depths(u)
<1> DEFINE m == Len(t)
           n == Len(u)
           v == t \o u
<1>1. m \in Nat /\ n \in Nat
  OBVIOUS
<1>2. Len(v) = m + n /\ \A i \in 1..(m + n) : v[i] = IF i <= m THEN t[i] ELSE u[i - m]
  BY ConcatProperties
<1> HIDE DEF v
<1>3. ASSUME NEW d, d \in Depths(v)
      PROVE  d \in Depths(t) \union Depths(u)
  <2>1. PICK k \in 1..(m + n) : v[k].is = "DEPTH" /\ d = v[k].n
    BY <1>2, <1>3 DEF Depths
  <2> HIDE DEF m, n
  <2>2. CASE k <= m
    <3>1. k \in 1..m /\ v[k] = t[k]
      BY <1>1, <1>2, <2>2
    <3> QED BY <2>1, <3>1 DEF Depths, m
  <2>3. CASE ~ (k <= m)
    <3>1. k - m \in 1..n /\ v[k] = u[k - m]
      BY <1>1, <1>2, <2>3
    <3> QED BY <2>1, <3>1 DEF Depths, n
  <2> QED BY <2>2, <2>3
<1>4. ASSUME NEW d, d \in Depths(t)
      PROVE  d \in Depths(v)
  <2>1. PICK k \in 1..m : t[k].is = "DEPTH" /\ d = t[k].n
    BY <1>4 DEF Depths
  <2> HIDE DEF m, n
  <2>2. k \in 1..(m + n) /\ v[k] = t[k]
    BY <1>1, <1>2
  <2> QED BY <1>2, <2>1, <2>2 DEF Depths
<1>5. ASSUME NEW d, d \in Depths(u)
      PROVE  d \in Depths(v)
  <2>1. PICK k \in 1..n : u[k].is = "DEPTH" /\ d = u[k].n
    BY <1>5 DEF Depths
  <2> HIDE DEF m, n
  <2> DEFINE i == m + k
  <2>2. i \in 1..(m + n) /\ ~ (i <= m) /\ i - m = k
    BY <1>1
  <2> HIDE DEF i
  <2>3. v[i] = u[k]
    BY <1>2, <2>2
  <2> QED BY <1>2, <2>1, <2>2, <2>3 DEF Depths
<1> QED BY <1>3, <1>4, <1>5 DEF v

LEMMA DepthsOfOne ==
  ASSUME NEW e
  PROVE  Depths(<<e>>) = IF e.is = "DEPTH" THEN {e.n} ELSE {}
<1>1. Len(<<e>>) = 1 /\ \A k \in 1..1 : k = 1 /\ <<e>>[k] = e
  OBVIOUS
<1>2. 1 \in 1..1
  OBVIOUS
<1> QED BY <1>1, <1>2 DEF Depths

(* The greatest of some numbers.                                           *)
LEMMA MaxIs ==
  ASSUME NEW S, S \subseteq Int, NEW m \in S, \A x \in S : x <= m
  PROVE  Max(S) = m
<1>1. \E x \in S : \A y \in S : x >= y
  BY DEF Max
<1>2. Max(S) \in S /\ \A y \in S : Max(S) >= y
  BY <1>1, Zenon DEF Max
<1>3. Max(S) \in Int /\ m \in Int /\ Max(S) >= m /\ Max(S) <= m
  BY <1>2
<1> QED BY <1>3

-----------------------------------------------------------------------------
(* The events of a turn, part by part.                                     *)

LEMMA EventFields ==
  ASSUME NEW is \in Names, NEW mv \in Move, NEW n \in Int, NEW at \in State
  PROVE  /\ Event(is, mv, n, at) \in TraceEvent
         /\ Event(is, mv, n, at).is = is /\ Event(is, mv, n, at).mv = mv
         /\ Event(is, mv, n, at).n = n /\ Event(is, mv, n, at).at = at
BY DEF Event, TraceEvent

(* An event that changes nothing.                                          *)
LEMMA NoteTells ==
  ASSUME NullMove \in Move, NEW is \in Names \ {"MOVE", "UNDO", "DEPTH"}, NEW n \in Int,
         NEW s \in State, NEW d \in Int
  PROVE  LET t == <<Event(is, NullMove, n, s)>>
         IN /\ Tell(s, d, t, s, d) /\ Depths(t) = {} /\ Count(t, Forcing) = 0
            /\ \A x : Count(t, Of(x)) = IF x = is THEN 1 ELSE 0
<1> DEFINE e == Event(is, NullMove, n, s)
<1>1. is \in Names /\ is # "MOVE" /\ is # "UNDO" /\ is # "DEPTH"
  OBVIOUS
<1>2. e \in TraceEvent /\ e.is = is /\ e.at = s
  BY <1>1, EventFields
<1> HIDE DEF e
<1>3. Tell(s, d, <<e>>, s, d)
  <2>1. Follows(s, d, e, d)
    BY <1>1, <1>2 DEF Follows
  <2> QED BY <1>2, <2>1, TellOfOne
<1>4. e \notin Forcing /\ \A x : e \in Of(x) <=> x = is
  BY <1>1, <1>2 DEF Forcing, Of
<1>5. Count(<<e>>, Forcing) = 0 /\ \A x : Count(<<e>>, Of(x)) = IF x = is THEN 1 ELSE 0
  BY <1>4, CountOfOne
<1>6. Depths(<<e>>) = {}
  BY <1>1, <1>2, DepthsOfOne
<1> QED BY <1>3, <1>5, <1>6 DEF e

LEMMA PairIs ==
  ASSUME NEW a \in TraceEvent, NEW b \in TraceEvent
  PROVE  <<a, b>> = <<a>> \o <<b>>
<1> DEFINE t == <<a>> \o <<b>>
<1>1. /\ <<a>> \in Seq(TraceEvent) /\ <<b>> \in Seq(TraceEvent)
      /\ Len(<<a>>) = 1 /\ Len(<<b>>) = 1 /\ <<a>>[1] = a /\ <<b>>[1] = b
  OBVIOUS
<1>2. /\ t \in Seq(TraceEvent) /\ Len(t) = 1 + 1
      /\ \A i \in 1..(1 + 1) : t[i] = IF i <= 1 THEN <<a>>[i] ELSE <<b>>[i - 1]
  BY <1>1, ConcatProperties
<1> HIDE DEF t
<1>3. Len(t) = 2 /\ t[1] = a /\ t[2] = b
  <2>1. 1 \in 1..(1 + 1) /\ 2 \in 1..(1 + 1) /\ 1 <= 1 /\ ~ (2 <= 1) /\ 2 - 1 = 1
    OBVIOUS
  <2> QED BY <1>1, <1>2, <2>1
<1>4. t = <<a, b>>
  BY <1>2, <1>3
<1> QED BY <1>4 DEF t

LEMMA DownTells ==
  ASSUME NullMove \in Move, NEW s, NEW m \in Move, Apply(s, m) \in State, NEW d \in Int
  PROVE  LET t == Down(m, Apply(s, m), d + 1)
         IN /\ Tell(s, d, t, Apply(s, m), d + 1) /\ Depths(t) = {d + 1}
            /\ Count(t, Forcing) = IF m.dominance_move THEN 1 ELSE 0
            /\ \A x : x \notin {"MOVE", "DEPTH"} => Count(t, Of(x)) = 0
<1> DEFINE to == Apply(s, m)
           a == Event("MOVE", m, 0, to)
           b == Event("DEPTH", NullMove, d + 1, to)
<1>1. "MOVE" \in Names /\ "DEPTH" \in Names /\ 0 \in Int /\ d + 1 \in Int
  BY DEF Names
<1>2. /\ a \in TraceEvent /\ a.is = "MOVE" /\ a.mv = m /\ a.at = to
      /\ b \in TraceEvent /\ b.is = "DEPTH" /\ b.n = d + 1 /\ b.at = to
  BY <1>1, EventFields
<1>3. Down(m, to, d + 1) = <<a, b>>
  BY DEF Down
<1> HIDE DEF a, b
<1>4. <<a, b>> = <<a>> \o <<b>> /\ <<a>> \in Seq(TraceEvent) /\ <<b>> \in Seq(TraceEvent)
  BY <1>2, PairIs
<1>5. Tell(s, d, <<a>>, to, d + 1)
  <2>1. Follows(s, d, a, d + 1)
    BY <1>2 DEF Follows
  <2> QED BY <1>1, <1>2, <2>1, TellOfOne
<1>6. Tell(to, d + 1, <<b>>, to, d + 1)
  <2>1. Follows(to, d + 1, b, d + 1)
    BY <1>2 DEF Follows
  <2> QED BY <1>1, <1>2, <2>1, TellOfOne
<1>7. Tell(s, d, <<a, b>>, to, d + 1)
  <2>1. Tell(s, d, <<a>> \o <<b>>, to, d + 1)
    BY <1>5, <1>6, TellJoined
  <2> QED BY <1>4, <2>1
<1>8. /\ a \in Forcing <=> m.dominance_move
      /\ b \notin Forcing
      /\ \A x : x \notin {"MOVE", "DEPTH"} => a \notin Of(x) /\ b \notin Of(x)
  BY <1>2 DEF Forcing, Of
<1>9. \A E : Count(<<a, b>>, E) = (IF a \in E THEN 1 ELSE 0) + (IF b \in E THEN 1 ELSE 0)
  <2>1. \A E : Count(<<a>> \o <<b>>, E) = Count(<<a>>, E) + Count(<<b>>, E)
    BY <1>4, CountJoined
  <2>2. \A E : Count(<<a>>, E) = IF a \in E THEN 1 ELSE 0
    BY CountOfOne
  <2>3. \A E : Count(<<b>>, E) = IF b \in E THEN 1 ELSE 0
    BY CountOfOne
  <2> HIDE <1>4
  <2>4. \A E : Count(<<a, b>>, E) = Count(<<a>>, E) + Count(<<b>>, E)
    BY <1>4, <2>1, Zenon
  <2> QED BY <2>2, <2>3, <2>4
<1>10. /\ Count(<<a, b>>, Forcing) = IF m.dominance_move THEN 1 ELSE 0
       /\ \A x : x \notin {"MOVE", "DEPTH"} => Count(<<a, b>>, Of(x)) = 0
  BY <1>8, <1>9
<1>11. Depths(<<a, b>>) = {d + 1}
  <2>1. Depths(<<a, b>>) = Depths(<<a>>) \union Depths(<<b>>)
    BY <1>4, DepthsJoined
  <2> QED BY <1>2, <2>1, DepthsOfOne
<1> QED BY <1>3, <1>7, <1>10, <1>11

LEMMA DownCounts ==
  ASSUME NullMove \in Move, NEW s, NEW m \in Move, Apply(s, m) \in State, NEW d \in Int,
         NEW x, x \notin {"MOVE", "DEPTH"}
  PROVE  Count(Down(m, Apply(s, m), d + 1), Of(x)) = 0
  BY DownTells, SMT

LEMMA AskedTells ==
  ASSUME NullMove \in Move, state \in State, NEW d \in Int
  PROVE  /\ Tell(state, d, Asked, state, d) /\ Depths(Asked) = {} /\ Count(Asked, Forcing) = 0
         /\ \A x : x \notin {"QUERY", "EVICT"} => Count(Asked, Of(x)) = 0
         /\ Count(Asked, Of("EVICT")) =
              IF StatesRemoved(Inserted.cache) > StatesRemoved(cache) THEN 1 ELSE 0
         /\ Len(Asked) \in 1..2
         /\ \A k \in 1..Len(Asked) : Asked[k].is \in {"QUERY", "EVICT"} /\ Asked[k].at = state
<1> DEFINE q == Event("QUERY", NullMove, 0, state)
           e == Event("EVICT", NullMove, 0, state)
           out == StatesRemoved(Inserted.cache) > StatesRemoved(cache)
<1>1. /\ "QUERY" \in Names \ {"MOVE", "UNDO", "DEPTH"} /\ "EVICT" \in Names \ {"MOVE", "UNDO", "DEPTH"}
      /\ 0 \in Int
  BY DEF Names
<1>2. /\ q \in TraceEvent /\ q.is = "QUERY" /\ q.at = state
      /\ e \in TraceEvent /\ e.is = "EVICT" /\ e.at = state
  BY <1>1, EventFields
<1>3. /\ Tell(state, d, <<q>>, state, d) /\ Depths(<<q>>) = {} /\ Count(<<q>>, Forcing) = 0
      /\ \A x : Count(<<q>>, Of(x)) = IF x = "QUERY" THEN 1 ELSE 0
  BY <1>1, NoteTells
<1>4. /\ Tell(state, d, <<e>>, state, d) /\ Depths(<<e>>) = {} /\ Count(<<e>>, Forcing) = 0
      /\ \A x : Count(<<e>>, Of(x)) = IF x = "EVICT" THEN 1 ELSE 0
  BY <1>1, NoteTells
<1>5. Asked = <<q>> \o (IF out THEN <<e>> ELSE <<>>)
  BY DEF Asked, Plain
<1> HIDE DEF q, e, out
<1>6. <<q>> \in Seq(TraceEvent) /\ <<e>> \in Seq(TraceEvent)
  BY <1>2
<1>7. CASE out
  <2>1. Asked = <<q>> \o <<e>>
    BY <1>5, <1>7
  <2>2. Tell(state, d, Asked, state, d)
    BY <1>3, <1>4, <2>1, TellJoined
  <2>3. Depths(Asked) = {}
    BY <1>3, <1>4, <1>6, <2>1, DepthsJoined
  <2>4. \A E : Count(Asked, E) = Count(<<q>>, E) + Count(<<e>>, E)
    BY <1>6, <2>1, CountJoined
  <2>5. /\ Count(Asked, Forcing) = 0 /\ Count(Asked, Of("EVICT")) = 1
        /\ \A x : x \notin {"QUERY", "EVICT"} => Count(Asked, Of(x)) = 0
    BY <1>3, <1>4, <2>4
  <2>6. Asked = <<q, e>>
    BY <1>2, <2>1, PairIs
  <2>7. Len(Asked) = 2 /\ \A k \in 1..2 : Asked[k] = q \/ Asked[k] = e
    BY <2>6
  <2> QED BY <1>2, <1>7, <2>2, <2>3, <2>5, <2>7 DEF out
<1>8. CASE ~ out
  <2>1. Asked = <<q>>
    BY <1>5, <1>6, <1>8
  <2>2. Len(Asked) = 1 /\ \A k \in 1..1 : Asked[k] = q
    BY <2>1
  <2> QED BY <1>2, <1>3, <1>8, <2>1, <2>2 DEF out
<1> QED BY <1>7, <1>8

LEMMA MissedTells ==
  ASSUME NullMove \in Move, state \in State, Len(Moves) \in Int, NEW d \in Int
  PROVE  /\ Tell(state, d, Missed, state, d) /\ Depths(Missed) = {} /\ Count(Missed, Forcing) = 0
         /\ \A x : x \notin {"INSERT", "LEGAL"} =>
              Count(Missed, Of(x)) = IF x = "MISS" THEN 1 ELSE 0
         /\ \A k \in 1..Len(Missed) : Missed[k].at = state
<1> DEFINE a == Event("MISS", NullMove, 0, state)
           b == Event("INSERT", NullMove, 0, state)
           c == Event("LEGAL", NullMove, Len(Moves), state)
<1>1. /\ "MISS" \in Names \ {"MOVE", "UNDO", "DEPTH"} /\ "INSERT" \in Names \ {"MOVE", "UNDO", "DEPTH"}
      /\ "LEGAL" \in Names \ {"MOVE", "UNDO", "DEPTH"} /\ 0 \in Int
  BY DEF Names
<1>2. a \in TraceEvent /\ b \in TraceEvent /\ c \in TraceEvent
      /\ a.at = state /\ b.at = state /\ c.at = state
  BY <1>1, EventFields
<1>3. /\ Tell(state, d, <<a>>, state, d) /\ Depths(<<a>>) = {} /\ Count(<<a>>, Forcing) = 0
      /\ \A x : Count(<<a>>, Of(x)) = IF x = "MISS" THEN 1 ELSE 0
  BY <1>1, NoteTells
<1>4. /\ Tell(state, d, <<b>>, state, d) /\ Depths(<<b>>) = {} /\ Count(<<b>>, Forcing) = 0
      /\ \A x : Count(<<b>>, Of(x)) = IF x = "INSERT" THEN 1 ELSE 0
  BY <1>1, NoteTells
<1>5. /\ Tell(state, d, <<c>>, state, d) /\ Depths(<<c>>) = {} /\ Count(<<c>>, Forcing) = 0
      /\ \A x : Count(<<c>>, Of(x)) = IF x = "LEGAL" THEN 1 ELSE 0
  BY <1>1, NoteTells
<1>6. Missed = <<a, b, c>>
  BY DEF Missed, Plain
<1> HIDE DEF a, b, c
<1> DEFINE t == <<a>> \o <<b>>
<1>7. /\ <<a>> \in Seq(TraceEvent) /\ <<b>> \in Seq(TraceEvent) /\ <<c>> \in Seq(TraceEvent)
      /\ t \in Seq(TraceEvent) /\ Missed = t \o <<c>>
  <2>1. <<a>> \in Seq(TraceEvent) /\ <<b>> \in Seq(TraceEvent) /\ <<c>> \in Seq(TraceEvent)
    BY <1>2
  <2>2. t = <<a, b>>
    BY <1>2, PairIs
  <2> HIDE DEF t
  <2>3. t \in Seq(TraceEvent) /\ Len(t) = 2 /\ t[1] = a /\ t[2] = b
    BY <1>2, <2>2
  <2>4. /\ t \o <<c>> \in Seq(TraceEvent) /\ Len(t \o <<c>>) = Len(t) + Len(<<c>>)
        /\ \A i \in 1..(Len(t) + Len(<<c>>)) :
             (t \o <<c>>)[i] = IF i <= Len(t) THEN t[i] ELSE <<c>>[i - Len(t)]
    BY <2>1, <2>3, ConcatProperties
  <2> DEFINE w == t \o <<c>>
  <2>5. Len(<<c>>) = 1 /\ <<c>>[1] = c
    OBVIOUS
  <2>6. /\ 1 \in 1..(2 + 1) /\ 2 \in 1..(2 + 1) /\ 3 \in 1..(2 + 1)
        /\ 1 <= 2 /\ 2 <= 2 /\ ~ (3 <= 2) /\ 3 - 2 = 1 /\ 2 + 1 = 3
    OBVIOUS
  <2> HIDE DEF w
  <2>7. w \in Seq(TraceEvent) /\ Len(w) = 3 /\ w[1] = a /\ w[2] = b /\ w[3] = c
    BY <2>3, <2>4, <2>5, <2>6 DEF w
  <2>8. w = <<a, b, c>>
    BY <2>7
  <2> QED BY <1>6, <2>1, <2>3, <2>8 DEF w
<1>8. /\ Tell(state, d, t, state, d) /\ Depths(t) = Depths(<<a>>) \union Depths(<<b>>)
      /\ \A E : Count(t, E) = Count(<<a>>, E) + Count(<<b>>, E)
  BY <1>3, <1>4, <1>7, TellJoined, DepthsJoined, CountJoined
<1> HIDE DEF t
<1>9. /\ Tell(state, d, Missed, state, d) /\ Depths(Missed) = Depths(t) \union Depths(<<c>>)
      /\ \A E : Count(Missed, E) = Count(t, E) + Count(<<c>>, E)
  BY <1>5, <1>7, <1>8, TellJoined, DepthsJoined, CountJoined
<1>10. Depths(Missed) = {} /\ Count(Missed, Forcing) = 0
  BY <1>3, <1>4, <1>5, <1>8, <1>9
<1>11. \A x : x \notin {"INSERT", "LEGAL"} => Count(Missed, Of(x)) = IF x = "MISS" THEN 1 ELSE 0
  BY <1>3, <1>4, <1>5, <1>8, <1>9
<1>12. Len(Missed) = 3 /\ \A k \in 1..3 : Missed[k].at = state
  BY <1>2, <1>6
<1> QED BY <1>9, <1>10, <1>11, <1>12

LEMMA HalfUp ==
  ASSUME NEW k \in Nat
  PROVE  /\ (k + 1) \div 2 \in Nat
         /\ k % 2 = 1 => k + 1 = 2 * ((k + 1) \div 2) /\ k # 0 /\ (k - 1 + 1) \div 2 = ((k + 1) \div 2) - 1
         /\ k % 2 # 1 => k = 2 * ((k + 1) \div 2) /\ (k # 0 => (k - 1 + 1) \div 2 = (k + 1) \div 2)
OBVIOUS

(* The two events of each node on the way back.                            *)
LEMMA UpsEvents ==
  ASSUME GameIsSound, PathInv, res.depth \in Int
  PROVE  LET n == Len(frontier)
             p == n - Target
         IN /\ p \in Nat /\ Ups \in Seq(TraceEvent) /\ Len(Ups) = 2 * p
            /\ \A k \in 1..(2 * p) :
                 LET h == (k + 1) \div 2
                 IN /\ h \in 1..p
                    /\ Ups[k].at = Path[n - h]
                    /\ k % 2 = 1 => Ups[k].is = "UNDO" /\ Ups[k].mv = frontier[n - h + 1].mv
                    /\ k % 2 # 1 => Ups[k].is = "DEPTH" /\ Ups[k].n = res.depth - h
<1> DEFINE n == Len(frontier)
           p == n - Target
<1>1. /\ SearchPath(init_state, frontier) /\ state = Path[n] /\ n \in Nat /\ n > 0
      /\ frontier \in Seq(Node) /\ \A i \in 1..n : Path[i] \in State
  BY PathFacts DEF PathInv
<1>2. /\ \A i \in 1..n : Undone[i] = Path[i]
      /\ Target \in 1..n
  BY <1>1, UndoneIsPath
<1>3. p \in Nat /\ p < n
  BY <1>1, <1>2
<1>4. Ups = [k \in 1..(2 * p) |-> UpTo(n - (k + 1) \div 2)[IF k % 2 = 1 THEN 1 ELSE 2]]
  BY DEF Ups
<1>5. NullMove \in Move /\ "UNDO" \in Names /\ "DEPTH" \in Names /\ 0 \in Int
  BY DEF GameIsSound, Names
<1>6. \A i \in 1..n : frontier[i].mv \in Move
  <2>1. \A i \in 1..n : frontier[i] \in Node
    BY <1>1
  <2> QED BY <2>1 DEF Node
<1> HIDE DEF n, p
<1>7. ASSUME NEW k \in 1..(2 * p)
      PROVE  LET h == (k + 1) \div 2
             IN /\ h \in 1..p /\ Ups[k] \in TraceEvent
                /\ Ups[k].at = Path[n - h]
                /\ k % 2 = 1 => Ups[k].is = "UNDO" /\ Ups[k].mv = frontier[n - h + 1].mv
                /\ k % 2 # 1 => Ups[k].is = "DEPTH" /\ Ups[k].n = res.depth - h
  <2> DEFINE h == (k + 1) \div 2
             i == n - h
             a == Event("UNDO", frontier[i + 1].mv, 0, Undone[i])
             b == Event("DEPTH", NullMove, res.depth - (n - i), Undone[i])
  <2>1. k \in Nat
    BY <1>3
  <2>2. h \in Nat /\ (k + 1 = 2 * h \/ k = 2 * h)
    BY <2>1, HalfUp
  <2>3. UpTo(i) = <<a, b>>
    BY DEF UpTo, n
  <2>4. Ups[k] = IF k % 2 = 1 THEN a ELSE b
    <3>1. Ups[k] = UpTo(i)[IF k % 2 = 1 THEN 1 ELSE 2]
      BY <1>4
    <3> HIDE DEF i, a, b
    <3> QED BY <2>3, <3>1
  <2> HIDE DEF h
  <2>5. h \in 1..p
    BY <1>3, <2>2
  <2>6. i \in 1..n /\ i + 1 \in 1..n /\ n - i = h /\ n - h + 1 = i + 1
    BY <1>1, <1>3, <2>5 DEF p, n
  <2>7. Undone[i] = Path[i] /\ Path[i] \in State /\ frontier[i + 1].mv \in Move
        /\ res.depth - (n - i) \in Int
    BY <1>1, <1>2, <1>6, <2>5, <2>6 DEF n
  <2>8. /\ a \in TraceEvent /\ a.is = "UNDO" /\ a.mv = frontier[i + 1].mv /\ a.at = Path[i]
        /\ b \in TraceEvent /\ b.is = "DEPTH" /\ b.n = res.depth - (n - i) /\ b.at = Path[i]
    BY <1>5, <2>7, EventFields
  <2> HIDE DEF a, b
  <2> QED BY <2>4, <2>5, <2>6, <2>8 DEF h
<1>8. Ups \in Seq(TraceEvent) /\ Len(Ups) = 2 * p
  <2>1. 2 * p \in Nat
    BY <1>3
  <2>2. \A k \in 1..(2 * p) : Ups[k] \in TraceEvent
    BY <1>7
  <2>3. DOMAIN Ups = 1..(2 * p) /\ Ups = [k \in 1..(2 * p) |-> Ups[k]]
    BY <1>4
  <2> QED BY <2>1, <2>2, <2>3
<1> QED BY <1>3, <1>7, <1>8 DEF p, n

LEMMA UpsTell ==
  ASSUME GameIsSound, PathInv, res.depth \in Int
  PROVE  Tell(state, res.depth, Ups, StateAt, res.depth - (Len(frontier) - Target))
<1> DEFINE n == Len(frontier)
           p == n - Target
           d == res.depth
           at(k) == Path[n - (k + 1) \div 2]
           dep == [k \in 0..(2 * p) |-> d - (k + 1) \div 2]
<1>1. /\ SearchPath(init_state, frontier) /\ state = Path[n] /\ n \in Nat /\ n > 0
      /\ \A i \in 1..n : Path[i] \in State
  BY PathFacts DEF PathInv
<1>2. /\ p \in Nat /\ Ups \in Seq(TraceEvent) /\ Len(Ups) = 2 * p
      /\ \A k \in 1..(2 * p) :
           /\ (k + 1) \div 2 \in 1..p
           /\ Ups[k].at = at(k)
           /\ k % 2 = 1 => Ups[k].is = "UNDO" /\ Ups[k].mv = frontier[n - (k + 1) \div 2 + 1].mv
           /\ k % 2 # 1 => Ups[k].is = "DEPTH" /\ Ups[k].n = d - (k + 1) \div 2
  BY UpsEvents
<1>3. Target \in 1..n /\ StateAt = Path[Target]
  BY <1>1, UndoneIsPath
<1>4. \A i \in 1..(n - 1) : Path[i] = Undo(Path[i + 1], frontier[i + 1].mv)
  <2>1. /\ \A i \in 1..(n - 1) : Path[i + 1] = Apply(Path[i], frontier[i + 1].mv)
        /\ \A i \in 1..(n - 1) : frontier[i + 1].mv \in MovesOf(Path[i])
    BY <1>1, PathStates, PathIsPathOf DEF SearchPath
  <2>2. \A i \in 1..(n - 1) : i \in 1..n
    BY <1>1
  <2> QED BY <1>1, <2>1, <2>2, UndoAssumption
<1>5. p < n /\ n - p = Target
  BY <1>1, <1>3
<1>6. d \in Int
  OBVIOUS
<1> HIDE DEF n, p, d
<1>7. \A k \in 0..(2 * p) : dep[k] = d - (k + 1) \div 2
  OBVIOUS
<1>8. dep \in [0..(2 * p) -> Int] /\ dep[0] = d
  <2>1. \A k \in 0..(2 * p) : (k + 1) \div 2 \in Nat
    BY <1>2, HalfUp
  <2>2. 0 \in 0..(2 * p) /\ (0 + 1) \div 2 = 0
    BY <1>2
  <2>3. dep[0] = d - 0
    BY <1>7, <2>2
  <2> QED BY <1>6, <2>1, <2>3
<1> HIDE DEF dep
<1>9. \A k \in 0..(2 * p) : After(state, Ups, k) = at(k)
  <2> TAKE k \in 0..(2 * p)
  <2>1. CASE k = 0
    <3>1. (k + 1) \div 2 = 0 /\ n - 0 = n
      BY <1>1, <2>1 DEF n
    <3> QED BY <1>1, <2>1, <3>1 DEF After, n
  <2>2. CASE k # 0
    <3>1. k \in 1..(2 * p)
      BY <1>2, <2>2
    <3> QED BY <1>2, <2>2, <3>1 DEF After
  <2> QED BY <2>1, <2>2
<1>10. ASSUME NEW k \in 1..(2 * p)
       PROVE  Follows(After(state, Ups, k - 1), dep[k - 1], Ups[k], dep[k])
  <2> DEFINE h == (k + 1) \div 2
             g == (k - 1 + 1) \div 2
  <2>1. k \in Nat /\ k - 1 \in 0..(2 * p) /\ k \in 0..(2 * p) /\ k # 0
    BY <1>2
  <2>2. /\ k % 2 = 1 => g = h - 1
        /\ k % 2 # 1 => g = h
    BY <2>1, HalfUp
  <2>3. /\ After(state, Ups, k - 1) = Path[n - g] /\ dep[k - 1] = d - g
        /\ dep[k] = d - h /\ Ups[k].at = Path[n - h] /\ h \in 1..p
        /\ k % 2 = 1 => Ups[k].is = "UNDO" /\ Ups[k].mv = frontier[n - h + 1].mv
        /\ k % 2 # 1 => Ups[k].is = "DEPTH" /\ Ups[k].n = d - h
    BY <1>2, <1>7, <1>9, <2>1
  <2> HIDE DEF h, g
  <2>4. CASE k % 2 = 1
    <3>1. g = h - 1
      BY <2>2, <2>4
    <3>2. n - h \in 1..(n - 1) /\ n - g = n - h + 1 /\ d - h = (d - g) - 1
      BY <1>1, <1>2, <1>3, <1>5, <1>6, <2>3, <3>1
    <3>3. Path[n - h] = Undo(Path[n - h + 1], frontier[n - h + 1].mv)
      BY <1>4, <3>2 DEF n
    <3> QED BY <2>3, <2>4, <3>2, <3>3 DEF Follows
  <2>5. CASE k % 2 # 1
    <3>1. g = h
      BY <2>2, <2>5
    <3> QED BY <2>3, <2>5, <3>1 DEF Follows
  <2> QED BY <2>4, <2>5
<1>11. Run(state, d, Ups, dep)
  BY <1>2, <1>8, <1>10 DEF Run
<1>12. StateAt = After(state, Ups, Len(Ups)) /\ dep[Len(Ups)] = d - p
  <2>1. 2 * p \in 0..(2 * p) /\ (2 * p + 1) \div 2 = p
    BY <1>2
  <2> QED BY <1>2, <1>3, <1>5, <1>7, <1>9, <2>1
<1>13. Tell(state, d, Ups, StateAt, d - p)
  BY <1>2, <1>11, <1>12 DEF Tell
<1> QED BY <1>13 DEF d, p, n

LEMMA UpsCounts ==
  ASSUME GameIsSound, PathInv, res.depth \in Int
  PROVE  /\ Count(Ups, Of("UNDO")) = Len(frontier) - Target
         /\ Count(Ups, Forcing) = 0
         /\ \A x : x \notin {"UNDO", "DEPTH"} => Count(Ups, Of(x)) = 0
         /\ \A d \in Depths(Ups) : d \in Int /\ d <= res.depth
<1> DEFINE n == Len(frontier)
           p == n - Target
<1>1. /\ p \in Nat /\ Ups \in Seq(TraceEvent) /\ Len(Ups) = 2 * p
      /\ \A k \in 1..(2 * p) :
           /\ (k + 1) \div 2 \in 1..p
           /\ k % 2 = 1 => Ups[k].is = "UNDO"
           /\ k % 2 # 1 => Ups[k].is = "DEPTH" /\ Ups[k].n = res.depth - (k + 1) \div 2
  BY UpsEvents
<1> HIDE DEF p
<1>2. \A k \in 1..(2 * p) : Ups[k] \in TraceEvent /\ Ups[k].is \in {"UNDO", "DEPTH"}
  BY <1>1
<1>3. ASSUME NEW E, \A k \in 1..(2 * p) : Ups[k] \notin E
      PROVE  Count(Ups, E) = 0
  <2>1. {k \in 1..Len(Ups) : Ups[k] \in E} = {}
    BY <1>1, <1>3
  <2> QED BY <2>1, FS_EmptySet DEF Count
<1>4. Count(Ups, Forcing) = 0
  <2>1. \A k \in 1..(2 * p) : Ups[k] \notin Forcing
    BY <1>2 DEF Forcing
  <2> QED BY <1>3, <2>1
<1>5. ASSUME NEW x, x \notin {"UNDO", "DEPTH"}
      PROVE  Count(Ups, Of(x)) = 0
  <2>1. \A k \in 1..(2 * p) : Ups[k] \notin Of(x)
    BY <1>2, <1>5 DEF Of
  <2> QED BY <1>3, <2>1
<1>6. Count(Ups, Of("UNDO")) = p
  <2> DEFINE T == {k \in 1..Len(Ups) : Ups[k] \in Of("UNDO")}
             f == [j \in 1..p |-> 2 * j - 1]
  <2>1. \A k : k \in T <=> k \in 1..(2 * p) /\ k % 2 = 1
    BY <1>1, <1>2 DEF Of
  <2>2. \A j \in 1..p : f[j] = 2 * j - 1
    OBVIOUS
  <2>3. f = [j \in 1..p |-> f[j]]
    OBVIOUS
  <2> HIDE DEF T, f
  <2>4. \A j \in 1..p : f[j] \in T
    <3> TAKE j \in 1..p
    <3>1. 2 * j - 1 \in 1..(2 * p) /\ (2 * j - 1) % 2 = 1
      BY <1>1
    <3> QED BY <2>1, <2>2, <3>1
  <2>5. \A j, k \in 1..p : f[j] = f[k] => j = k
    BY <1>1, <2>2
  <2>6. \A k \in T : \E j \in 1..p : f[j] = k
    <3> TAKE k \in T
    <3>1. k \in 1..(2 * p) /\ k % 2 = 1
      BY <2>1
    <3>2. (k + 1) \div 2 \in 1..p
      BY <1>1, <3>1
    <3>3. k + 1 = 2 * ((k + 1) \div 2)
      BY <1>1, <3>1, HalfUp
    <3>4. f[(k + 1) \div 2] = 2 * ((k + 1) \div 2) - 1
      BY <2>2, <3>2
    <3>5. f[(k + 1) \div 2] = k
      BY <1>1, <3>1, <3>3, <3>4
    <3> QED BY <3>2, <3>5
  <2>7. IsFiniteSet(1..p) /\ Cardinality(1..p) = p
    <3>1. IsFiniteSet(1..p) /\ Cardinality(1..p) = IF 1 > p THEN 0 ELSE p - 1 + 1
      <4>1. 1 \in Int /\ p \in Int
        BY <1>1
      <4> HIDE <1>1
      <4> QED BY <4>1, FS_Interval
    <3> QED BY <1>1, <3>1
  <2>8. Cardinality(T) = p
    BY <2>3, <2>4, <2>5, <2>6, <2>7, CountedBy
  <2> QED BY <2>8 DEF T, Count
<1>7. \A d \in Depths(Ups) : d \in Int /\ d <= res.depth
  <2> TAKE d \in Depths(Ups)
  <2>1. PICK k \in 1..(2 * p) : Ups[k].is = "DEPTH" /\ d = Ups[k].n
    BY <1>1 DEF Depths
  <2>2. k % 2 # 1
    BY <1>1, <2>1
  <2>3. d = res.depth - (k + 1) \div 2 /\ (k + 1) \div 2 \in 1..p
    BY <1>1, <2>1, <2>2
  <2> QED BY <1>1, <2>3
<1> QED BY <1>4, <1>5, <1>6, <1>7 DEF p

(* How the events t and the greatest depth of a search go together.        *)
Deeper(t, old, new) ==
  /\ Depths(t) \subseteq Int /\ new \in Int /\ old <= new
  /\ new \in Depths(t) \union {old}
  /\ \A d \in Depths(t) : d <= new

LEMMA BackTells ==
  ASSUME GameIsSound, MovesAreMarked, PathInv, CountInv, UniqueInv, UNCHANGED init_state,
         NEW own, NEW c, NEW fresh \in {0, 1}, Backtrack(Marked, own, c, fresh),
         expanded \subseteq expanded', expanded' \subseteq State
  PROVE  /\ Tell(state, res.depth, Back, state', res'.depth)
         /\ res'.backtracks = res.backtracks + Count(Back, Of("UNDO"))
         /\ res'.dominance_moves = res.dominance_moves /\ Count(Back, Forcing) = 0
         /\ res'.unique_states_searched = res.unique_states_searched + fresh
         /\ res'.states_searched = res.states_searched + 1
         /\ \A x : x \in {"MISS", "HIT", "EVICT"} => Count(Back, Of(x)) = 0
         /\ Deeper(Back, res.max_depth, res'.max_depth)
<1> DEFINE n == Len(frontier)
           k == Target
           p == n - k
           moves == frontier[k].child_moves
           m == moves[Len(moves)]
           d == res.depth
<1>1. /\ frontier \in Seq(Node) /\ n \in Nat /\ n > 0 /\ res \in Counters
      /\ SearchPath(init_state, frontier) /\ state = Path[n] /\ state \in State
      /\ \A i \in 1..n : /\ Path[i] \in State
                         /\ Range(frontier[i].child_moves) \subseteq MovesOf(Path[i])
                         /\ DominanceMove(Path[i]) # NoMove => frontier[i].child_moves = <<>>
  BY PathFacts DEF PathInv, CountInv, UniqueInv
<1>2. NullMove \in Move
  BY DEF GameIsSound
<1>3. /\ d \in Nat /\ d \in Int /\ res.max_depth \in Nat /\ d <= res.max_depth
      /\ res.states_searched \in Nat /\ res.unique_states_searched \in Nat
      /\ res.backtracks \in Nat /\ res.dominance_moves \in Nat
  BY <1>1 DEF Counters, CountInv, MovesAddUp
<1>4. StateAt = Path[k] /\ k \in 1..n
  BY <1>1, UndoneIsPath
<1>5. /\ Tell(state, d, Ups, StateAt, d - p) /\ Ups \in Seq(TraceEvent)
      /\ Count(Ups, Of("UNDO")) = p /\ Count(Ups, Forcing) = 0
      /\ \A x : x \notin {"UNDO", "DEPTH"} => Count(Ups, Of(x)) = 0
      /\ \A e \in Depths(Ups) : e \in Int /\ e <= d
  BY <1>3, UpsTell, UpsCounts DEF Tell
<1>6. p \in Nat /\ Path[k] \in State
  BY <1>1, <1>4
<1>7. CASE OpenNodes = {}
  <2> DEFINE u == <<Event("UNSOLV", NullMove, 0, StateAt)>>
  <2>1. Back = Ups \o u
    BY <1>7 DEF Back, Plain
  <2>2. /\ state' = StateAt
        /\ res' = [res EXCEPT !.states_searched = @ + 1, !.unique_states_searched = @ + fresh,
                              !.backtracks = @ + p, !.depth = @ - p]
    BY <1>7 DEF Backtrack
  <2>3. "UNSOLV" \in Names \ {"MOVE", "UNDO", "DEPTH"} /\ 0 \in Int /\ d - p \in Int
    BY <1>3, <1>6 DEF Names
  <2>4. /\ Tell(StateAt, d - p, u, StateAt, d - p) /\ Depths(u) = {} /\ Count(u, Forcing) = 0
        /\ \A x : Count(u, Of(x)) = IF x = "UNSOLV" THEN 1 ELSE 0
    BY <1>2, <1>4, <1>6, <2>3, NoteTells
  <2> HIDE DEF u, p, d, k, n
  <2>5. /\ res'.depth = d - p /\ res'.backtracks = res.backtracks + p
        /\ res'.dominance_moves = res.dominance_moves
        /\ res'.unique_states_searched = res.unique_states_searched + fresh
        /\ res'.states_searched = res.states_searched + 1
        /\ res'.max_depth = res.max_depth
    BY <1>1, <2>2 DEF Counters, d
  <2>6. u \in Seq(TraceEvent)
    BY <2>4 DEF Tell
  <2>7. Tell(state, d, Back, StateAt, d - p)
    BY <1>5, <2>1, <2>4, TellJoined
  <2>8. /\ \A E : Count(Back, E) = Count(Ups, E) + Count(u, E)
        /\ Depths(Back) = Depths(Ups) \union Depths(u)
    BY <1>5, <2>1, <2>6, CountJoined, DepthsJoined
  <2>9. /\ Count(Back, Of("UNDO")) = p /\ Count(Back, Forcing) = 0
        /\ \A x : x \in {"MISS", "HIT", "EVICT"} => Count(Back, Of(x)) = 0
    BY <1>5, <1>6, <2>4, <2>8
  <2>10. Deeper(Back, res.max_depth, res'.max_depth)
    BY <1>3, <1>5, <2>4, <2>5, <2>8 DEF Deeper
  <2> QED BY <2>2, <2>5, <2>7, <2>9, <2>10 DEF d
<1>8. CASE OpenNodes # {}
  <2>1. k \in OpenNodes /\ Counted(p, m, fresh) /\ state' = Apply(Path[k], m)
    <3>1. k \in OpenNodes /\ state' = Apply(Path[k], m)
      BY <1>8, BackStep
    <3>2. Counted(p, m, fresh)
      BY <1>8 DEF Backtrack
    <3> QED BY <3>1, <3>2
  <2>2. moves # <<>> /\ moves \in Seq(Move)
    <3>1. frontier[k] \in Node
      BY <1>1, <1>4
    <3> QED BY <2>1, <3>1 DEF OpenNodes, Node
  <2>3. m \in Range(moves) /\ m \in Move
    <3>1. Len(moves) \in DOMAIN moves
      BY <2>2
    <3> QED BY <2>2, <3>1 DEF Range
  <2>4. m \in MovesOf(Path[k]) /\ DominanceMove(Path[k]) = NoMove
    BY <1>1, <1>4, <2>2, <2>3
  <2>5. m.dominance_move = FALSE /\ Apply(Path[k], m) \in State
    BY <1>6, <2>4 DEF MovesAreMarked, GameIsSound
  <2> DEFINE u == Down(m, Apply(StateAt, m), d - p + 1)
  <2>6. Back = Ups \o u
    BY <1>8 DEF Back, Last
  <2>7. d - p \in Int
    BY <1>3, <1>6
  <2> HIDE DEF p, d, k, n, m
  <2>8. /\ Tell(StateAt, d - p, u, Apply(StateAt, m), d - p + 1) /\ Depths(u) = {d - p + 1}
        /\ Count(u, Forcing) = IF m.dominance_move THEN 1 ELSE 0
        /\ \A x : x \notin {"MOVE", "DEPTH"} => Count(u, Of(x)) = 0
    BY <1>2, <1>4, <2>3, <2>5, <2>7, DownTells
  <2> HIDE DEF u
  <2>9. /\ res'.depth = d - p + 1 /\ res'.backtracks = res.backtracks + p
        /\ res'.dominance_moves = res.dominance_moves
        /\ res'.unique_states_searched = res.unique_states_searched + fresh
        /\ res'.states_searched = res.states_searched + 1
        /\ res'.max_depth = IF d - p + 1 > res.max_depth THEN d - p + 1 ELSE res.max_depth
    <3>1. res.dominance_moves + 0 = res.dominance_moves
      BY <1>3
    <3> QED BY <2>1, <2>5, <3>1 DEF Counted, d
  <2>10. u \in Seq(TraceEvent)
    BY <2>8 DEF Tell
  <2>11. Tell(state, d, Back, state', d - p + 1)
    <3>1. Tell(state, d, Ups \o u, Apply(StateAt, m), d - p + 1)
      BY <1>5, <2>8, TellJoined
    <3> QED BY <1>4, <2>1, <2>6, <3>1
  <2>12. /\ \A E : Count(Back, E) = Count(Ups, E) + Count(u, E)
         /\ Depths(Back) = Depths(Ups) \union Depths(u)
    BY <1>5, <2>6, <2>10, CountJoined, DepthsJoined
  <2>13. /\ Count(Back, Of("UNDO")) = p /\ Count(Back, Forcing) = 0
         /\ \A x : x \in {"MISS", "HIT", "EVICT"} => Count(Back, Of(x)) = 0
    BY <1>5, <1>6, <2>5, <2>8, <2>12
  <2>14. Deeper(Back, res.max_depth, res'.max_depth)
    <3> DEFINE x == d - p + 1
    <3>1. x \in Int /\ Depths(Back) = Depths(Ups) \union {x}
      BY <2>7, <2>8, <2>12
    <3>2. res'.max_depth = IF x > res.max_depth THEN x ELSE res.max_depth
      BY <2>9
    <3> HIDE DEF x
    <3>3. CASE x > res.max_depth
      BY <1>3, <1>5, <3>1, <3>2, <3>3 DEF Deeper
    <3>4. CASE ~ (x > res.max_depth)
      BY <1>3, <1>5, <3>1, <3>2, <3>4 DEF Deeper
    <3> QED BY <3>3, <3>4
  <2> QED BY <2>9, <2>11, <2>13, <2>14 DEF d
<1> QED BY <1>7, <1>8

-----------------------------------------------------------------------------
(* The events of a turn, and what they tell of it.                         *)

(* The events es of a turn tell what it did to the state and to the        *)
(* counters.                                                               *)
Told(es) ==
  /\ Tell(state, res.depth, es, state', res'.depth)
  /\ res'.backtracks = res.backtracks + Count(es, Of("UNDO"))
  /\ res'.dominance_moves = res.dominance_moves + Count(es, Forcing)
  /\ res'.unique_states_searched =
       res.unique_states_searched + (Count(es, Of("MISS")) + Count(es, Forcing))
  /\ res'.states_searched =
       res.states_searched + (Count(es, Of("MISS")) + Count(es, Of("HIT")) + Count(es, Forcing))
  /\ Deeper(es, res.max_depth, res'.max_depth)
  /\ result' # "MEM_LIMIT" =>
       StatesRemoved(cache') = StatesRemoved(cache) + Count(es, Of("EVICT"))

LEMMA NumbersOf ==
  ASSUME CountInv
  PROVE  /\ res.depth \in Nat /\ res.max_depth \in Nat /\ res.depth <= res.max_depth
         /\ res.states_searched \in Nat /\ res.unique_states_searched \in Nat
         /\ res.backtracks \in Nat /\ res.dominance_moves \in Nat
  BY DEF CountInv, Counters, MovesAddUp

(* GoDown by the last of some moves, whether they were generated or not.   *)
LEMMA WentDown ==
  ASSUME GameIsSound, PathInv, CountInv, ~ Solved(state), UNCHANGED init_state,
         NEW f \in Seq(Node), Len(f) = Len(frontier),
         \A i \in 1..Len(frontier) :
           f[i].mv = frontier[i].mv /\ f[i].child_moves = frontier[i].child_moves,
         NEW moves \in Seq(Move), moves # <<>>, Range(moves) \subseteq MovesOf(state),
         GoDown(f, moves)
  PROVE  LET m == moves[Len(moves)]
             es == Down(m, Apply(state, m), res.depth + 1)
         IN /\ m \in MovesOf(state) /\ m \in Move
            /\ Tell(state, res.depth, es, state', res'.depth)
            /\ Count(es, Forcing) = IF m.dominance_move THEN 1 ELSE 0
            /\ \A x : x \notin {"MOVE", "DEPTH"} => Count(es, Of(x)) = 0
            /\ Deeper(es, res.max_depth, res'.max_depth)
            /\ res'.backtracks = res.backtracks
            /\ res'.dominance_moves =
                 res.dominance_moves + (IF m.dominance_move THEN 1 ELSE 0)
            /\ res'.unique_states_searched = res.unique_states_searched + 1
            /\ res'.states_searched = res.states_searched + 1
<1> DEFINE m == moves[Len(moves)]
           d == res.depth
           es == Down(m, Apply(state, m), d + 1)
<1>1. state' = Apply(state, m) /\ m \in MovesOf(state)
  BY DownStep
<1>2. m \in Move
  BY DEF Range
<1>3. NullMove \in Move /\ state \in State /\ Apply(state, m) \in State
  BY <1>1, PathFacts DEF GameIsSound
<1>4. d \in Nat /\ res.max_depth \in Nat /\ d <= res.max_depth /\ res.backtracks \in Nat
  BY NumbersOf
<1>5. Counted(0, m, 1)
  BY DEF GoDown
<1>6. d - 0 + 1 = d + 1 /\ d \in Int /\ res.backtracks + 0 = res.backtracks
  BY <1>4
<1>7. /\ res'.depth = d + 1 /\ res'.backtracks = res.backtracks
      /\ res'.dominance_moves = res.dominance_moves + (IF m.dominance_move THEN 1 ELSE 0)
      /\ res'.unique_states_searched = res.unique_states_searched + 1
      /\ res'.states_searched = res.states_searched + 1
      /\ res'.max_depth = IF d + 1 > res.max_depth THEN d + 1 ELSE res.max_depth
  BY <1>5, <1>6 DEF Counted
<1> HIDE DEF m, d
<1>8. /\ Tell(state, d, es, Apply(state, m), d + 1) /\ Depths(es) = {d + 1}
      /\ Count(es, Forcing) = IF m.dominance_move THEN 1 ELSE 0
      /\ \A x : x \notin {"MOVE", "DEPTH"} => Count(es, Of(x)) = 0
  <2>1. NullMove \in Move /\ m \in Move /\ Apply(state, m) \in State /\ d \in Int
    BY <1>2, <1>3, <1>6
  <2>2. Tell(state, d, es, Apply(state, m), d + 1) /\ Depths(es) = {d + 1}
        /\ Count(es, Forcing) = IF m.dominance_move THEN 1 ELSE 0
    BY ONLY <2>1, DownTells
  <2>3. ASSUME NEW x, x \notin {"MOVE", "DEPTH"} PROVE Count(es, Of(x)) = 0
    <3>1. Count(Down(m, Apply(state, m), d + 1), Of(x)) = 0
      <4> HIDE DEF es
      <4> QED BY ONLY <2>1, <2>3, DownCounts
    <3> QED BY <3>1
  <2> QED BY <2>2, <2>3
<1> HIDE DEF es
<1>9. Deeper(es, res.max_depth, res'.max_depth)
  <2>1. CASE d + 1 > res.max_depth
    BY <1>4, <1>7, <1>8, <2>1 DEF Deeper
  <2>2. CASE ~ (d + 1 > res.max_depth)
    BY <1>4, <1>7, <1>8, <2>2 DEF Deeper
  <2> QED BY <2>1, <2>2
<1>10. Tell(state, d, es, state', res'.depth)
  BY <1>1, <1>7, <1>8
<1> QED BY <1>1, <1>2, <1>7, <1>8, <1>9, <1>10 DEF m, d, es

LEMMA DominateTold ==
  ASSUME GameIsSound, MovesAreMarked, PathInv, CountInv, UniqueInv, Dominate,
         Policy = "LRU" => CacheInv
  PROVE  LET m == DominanceMove(state)
         IN Told(Down(m, Apply(state, m), res.depth + 1))
<1> DEFINE m == DominanceMove(state)
           moves == <<m>>
           es == Down(m, Apply(state, m), res.depth + 1)
<1>1. /\ GoDown(frontier, moves) /\ UNCHANGED <<init_state, cache>>
      /\ ~ Solved(state) /\ m # NoMove
  BY DEF Dominate, Turn, InBudget, Running
<1>2. /\ moves \in Seq(Move) /\ moves # <<>> /\ Range(moves) \subseteq MovesOf(state)
      /\ MovesOf(state) = {m}
  BY <1>1, GameMoves
<1>3. frontier \in Seq(Node) /\ state \in State
  BY PathFacts
<1>4. moves[Len(moves)] = m
  OBVIOUS
<1> HIDE DEF moves, m
<1>5. /\ Tell(state, res.depth, es, state', res'.depth)
      /\ Count(es, Forcing) = IF m.dominance_move THEN 1 ELSE 0
      /\ \A x : x \notin {"MOVE", "DEPTH"} => Count(es, Of(x)) = 0
      /\ Deeper(es, res.max_depth, res'.max_depth)
      /\ res'.backtracks = res.backtracks
      /\ res'.dominance_moves = res.dominance_moves + (IF m.dominance_move THEN 1 ELSE 0)
      /\ res'.unique_states_searched = res.unique_states_searched + 1
      /\ res'.states_searched = res.states_searched + 1
  BY <1>1, <1>2, <1>3, <1>4, WentDown
<1>6. m.dominance_move = TRUE
  BY <1>1, <1>2, <1>3 DEF MovesAreMarked, m
<1> HIDE DEF es
<1>7. Count(es, Forcing) = 1 /\ Count(es, Of("UNDO")) = 0 /\ Count(es, Of("MISS")) = 0
      /\ Count(es, Of("HIT")) = 0 /\ Count(es, Of("EVICT")) = 0
  BY <1>5, <1>6
<1>8. StatesRemoved(cache') = StatesRemoved(cache) + 0
  <2>1. StatesRemoved(cache) \in Nat
    BY RemovedOnce DEF UniqueInv
  <2> QED BY <1>1, <2>1
<1>9. res.backtracks + 0 = res.backtracks
  BY NumbersOf
<1>10. Told(es)
  BY <1>5, <1>6, <1>7, <1>8, <1>9 DEF Told
<1> QED BY <1>10 DEF es, m

LEMMA ThreeCounts ==
  ASSUME NEW a \in Seq(TraceEvent), NEW b \in Seq(TraceEvent), NEW c \in Seq(TraceEvent)
  PROVE  /\ Depths(a \o b \o c) = Depths(a) \union Depths(b) \union Depths(c)
         /\ \A E : Count(a \o b \o c, E) = Count(a, E) + Count(b, E) + Count(c, E)
<1> DEFINE t == a \o b
<1>1. Depths(t) = Depths(a) \union Depths(b) /\ \A E : Count(t, E) = Count(a, E) + Count(b, E)
  BY DepthsJoined, CountJoined
<1>2. t \in Seq(TraceEvent)
  OBVIOUS
<1> HIDE DEF t
<1>3. /\ Depths(t \o c) = Depths(t) \union Depths(c)
      /\ \A E : Count(t \o c, E) = Count(t, E) + Count(c, E)
  BY <1>2, DepthsJoined, CountJoined
<1> QED BY <1>1, <1>3 DEF t

LEMMA ThreeParts ==
  ASSUME NEW s, NEW d, NEW s2, NEW d2, NEW a, NEW b, NEW c,
         Tell(s, d, a, s, d), Tell(s, d, b, s, d), Tell(s, d, c, s2, d2)
  PROVE  Tell(s, d, a \o b \o c, s2, d2)
<1> DEFINE t == a \o b
<1>1. Tell(s, d, t, s, d)
  BY TellJoined
<1> HIDE DEF t
<1>2. Tell(s, d, t \o c, s2, d2)
  BY <1>1, TellJoined
<1> QED BY <1>2 DEF t

LEMMA ExpandTold ==
  ASSUME GameIsSound, MovesAreMarked, PathInv, CountInv, UniqueInv, Expand,
         Policy = "LRU" => CacheInv
  PROVE  LET m == Last(Moves)
         IN Told(Asked \o Missed \o Down(m, Apply(state, m), res.depth + 1))
<1> DEFINE m == Moves[Len(Moves)]
           c == Down(m, Apply(state, m), res.depth + 1)
           es == Asked \o Missed \o c
           d == res.depth
<1>1. /\ GoDown(Marked, Moves) /\ UNCHANGED init_state /\ cache' = Inserted.cache
      /\ ~ Solved(state) /\ DominanceMove(state) = NoMove /\ Moves # <<>>
  BY DEF Expand, Turn, InBudget, Running
<1>2. Moves \in Seq(Move) /\ Range(Moves) \subseteq MovesOf(state)
  BY <1>1, GameMoves
<1>3. state \in State /\ NullMove \in Move /\ d \in Int /\ Len(Moves) \in Int
  BY <1>2, PathFacts, NumbersOf DEF GameIsSound
<1>4. /\ m \in MovesOf(state)
      /\ Tell(state, d, c, state', res'.depth)
      /\ Count(c, Forcing) = IF m.dominance_move THEN 1 ELSE 0
      /\ \A x : x \notin {"MOVE", "DEPTH"} => Count(c, Of(x)) = 0
      /\ Deeper(c, res.max_depth, res'.max_depth)
      /\ res'.backtracks = res.backtracks
      /\ res'.dominance_moves = res.dominance_moves + (IF m.dominance_move THEN 1 ELSE 0)
      /\ res'.unique_states_searched = res.unique_states_searched + 1
      /\ res'.states_searched = res.states_searched + 1
  BY <1>1, <1>2, MarkedNodes, WentDown
<1>5. m.dominance_move = FALSE
  BY <1>1, <1>3, <1>4 DEF MovesAreMarked
<1>6. Last(Moves) = m
  BY DEF Last
<1> HIDE DEF m, c, d
<1>7. /\ Tell(state, d, Asked, state, d) /\ Depths(Asked) = {} /\ Count(Asked, Forcing) = 0
      /\ \A x : x \notin {"QUERY", "EVICT"} => Count(Asked, Of(x)) = 0
      /\ Count(Asked, Of("EVICT")) =
           IF StatesRemoved(Inserted.cache) > StatesRemoved(cache) THEN 1 ELSE 0
  BY <1>3, AskedTells
<1>8. /\ Tell(state, d, Missed, state, d) /\ Depths(Missed) = {} /\ Count(Missed, Forcing) = 0
      /\ \A x : x \notin {"INSERT", "LEGAL"} =>
           Count(Missed, Of(x)) = IF x = "MISS" THEN 1 ELSE 0
  BY <1>3, MissedTells
<1>9. /\ Tell(state, d, es, state', res'.depth)
      /\ Depths(es) = Depths(Asked) \union Depths(Missed) \union Depths(c)
      /\ \A E : Count(es, E) = Count(Asked, E) + Count(Missed, E) + Count(c, E)
  <2>1. /\ Tell(state, d, Asked, state, d) /\ Tell(state, d, Missed, state, d)
        /\ Tell(state, d, c, state', res'.depth)
    BY <1>4, <1>7, <1>8
  <2>2. Tell(state, d, es, state', res'.depth)
    BY ONLY <2>1, ThreeParts
  <2>3. Asked \in Seq(TraceEvent) /\ Missed \in Seq(TraceEvent) /\ c \in Seq(TraceEvent)
    BY <2>1 DEF Tell
  <2>4. /\ Depths(es) = Depths(Asked) \union Depths(Missed) \union Depths(c)
        /\ \A E : Count(es, E) = Count(Asked, E) + Count(Missed, E) + Count(c, E)
    BY ONLY <2>3, ThreeCounts
  <2> QED BY <2>2, <2>4
<1> HIDE DEF es
<1>10. Deeper(es, res.max_depth, res'.max_depth)
  BY <1>4, <1>7, <1>8, <1>9 DEF Deeper
<1>11. StatesRemoved(cache') = StatesRemoved(cache) + Count(Asked, Of("EVICT"))
  BY <1>1, <1>7, RemovedOnce DEF UniqueInv
<1>12. /\ Count(Asked, Of("UNDO")) = 0 /\ Count(Missed, Of("UNDO")) = 0 /\ Count(c, Of("UNDO")) = 0
       /\ Count(Asked, Of("MISS")) = 0 /\ Count(Missed, Of("MISS")) = 1 /\ Count(c, Of("MISS")) = 0
       /\ Count(Asked, Of("HIT")) = 0 /\ Count(Missed, Of("HIT")) = 0 /\ Count(c, Of("HIT")) = 0
       /\ Count(Missed, Of("EVICT")) = 0 /\ Count(c, Of("EVICT")) = 0 /\ Count(c, Forcing) = 0
  BY <1>4, <1>5, <1>7, <1>8
<1>13. Count(Asked, Of("EVICT")) \in Nat
  BY <1>7
<1>14. /\ Count(es, Of("UNDO")) = 0 /\ Count(es, Of("MISS")) = 1 /\ Count(es, Of("HIT")) = 0
       /\ Count(es, Forcing) = 0 /\ Count(es, Of("EVICT")) = Count(Asked, Of("EVICT"))
  BY <1>7, <1>8, <1>9, <1>12, <1>13
<1>15. /\ res.backtracks + 0 = res.backtracks /\ 1 + 0 = 1 /\ 1 + 0 + 0 = 1
       /\ res'.dominance_moves = res.dominance_moves + 0
  BY <1>4, <1>5, NumbersOf
<1>16. Told(es)
  BY <1>4, <1>9, <1>10, <1>11, <1>14, <1>15 DEF Told, d
<1> QED BY <1>6, <1>16 DEF es, c

LEMMA DeadEndTold ==
  ASSUME GameIsSound, MovesAreMarked, PathInv, CountInv, UniqueInv, DeadEnd,
         Policy = "LRU" => CacheInv
  PROVE  Told(Asked \o Missed \o Back)
<1> DEFINE es == Asked \o Missed \o Back
           d == res.depth
<1>1. /\ UNCHANGED init_state /\ ~ Inserted.full /\ DominanceMove(state) = NoMove
      /\ Backtrack(Marked, {Key(state)}, Inserted.cache, 1)
      /\ expanded \subseteq expanded' /\ expanded' \subseteq State
  BY PathFacts DEF DeadEnd, Turn
<1>2. state \in State /\ NullMove \in Move /\ d \in Int /\ Len(Moves) \in Int
  BY <1>1, PathFacts, NumbersOf, GameMoves DEF GameIsSound
<1>3. /\ Tell(state, d, Back, state', res'.depth)
      /\ res'.backtracks = res.backtracks + Count(Back, Of("UNDO"))
      /\ res'.dominance_moves = res.dominance_moves /\ Count(Back, Forcing) = 0
      /\ res'.unique_states_searched = res.unique_states_searched + 1
      /\ res'.states_searched = res.states_searched + 1
      /\ \A x : x \in {"MISS", "HIT", "EVICT"} => Count(Back, Of(x)) = 0
      /\ Deeper(Back, res.max_depth, res'.max_depth)
  <2>1. 1 \in {0, 1}
    OBVIOUS
  <2> QED BY <1>1, <2>1, BackTells
<1> HIDE DEF d
<1>4. /\ Tell(state, d, Asked, state, d) /\ Depths(Asked) = {} /\ Count(Asked, Forcing) = 0
      /\ \A x : x \notin {"QUERY", "EVICT"} => Count(Asked, Of(x)) = 0
      /\ Count(Asked, Of("EVICT")) =
           IF StatesRemoved(Inserted.cache) > StatesRemoved(cache) THEN 1 ELSE 0
  BY <1>2, AskedTells
<1>5. /\ Tell(state, d, Missed, state, d) /\ Depths(Missed) = {} /\ Count(Missed, Forcing) = 0
      /\ \A x : x \notin {"INSERT", "LEGAL"} =>
           Count(Missed, Of(x)) = IF x = "MISS" THEN 1 ELSE 0
  BY <1>2, MissedTells
<1>6. /\ Tell(state, d, es, state', res'.depth)
      /\ Depths(es) = Depths(Asked) \union Depths(Missed) \union Depths(Back)
      /\ \A E : Count(es, E) = Count(Asked, E) + Count(Missed, E) + Count(Back, E)
  <2>1. /\ Tell(state, d, Asked, state, d) /\ Tell(state, d, Missed, state, d)
        /\ Tell(state, d, Back, state', res'.depth)
    BY <1>3, <1>4, <1>5
  <2>2. Tell(state, d, es, state', res'.depth)
    BY ONLY <2>1, ThreeParts
  <2>3. Asked \in Seq(TraceEvent) /\ Missed \in Seq(TraceEvent) /\ Back \in Seq(TraceEvent)
    BY <2>1 DEF Tell
  <2>4. /\ Depths(es) = Depths(Asked) \union Depths(Missed) \union Depths(Back)
        /\ \A E : Count(es, E) = Count(Asked, E) + Count(Missed, E) + Count(Back, E)
    BY ONLY <2>3, ThreeCounts
  <2> QED BY <2>2, <2>4
<1> HIDE DEF es
<1>7. Deeper(es, res.max_depth, res'.max_depth)
  BY <1>3, <1>4, <1>5, <1>6 DEF Deeper
<1>8. StatesRemoved(cache') = StatesRemoved(cache) + Count(Asked, Of("EVICT"))
  <2>1. StatesRemoved(cache') = StatesRemoved(Inserted.cache)
    BY <1>1, BackCounts
  <2> QED BY <1>4, <2>1, RemovedOnce DEF UniqueInv
<1>9. /\ Count(Asked, Of("UNDO")) = 0 /\ Count(Missed, Of("UNDO")) = 0
      /\ Count(Asked, Of("MISS")) = 0 /\ Count(Missed, Of("MISS")) = 1 /\ Count(Back, Of("MISS")) = 0
      /\ Count(Asked, Of("HIT")) = 0 /\ Count(Missed, Of("HIT")) = 0 /\ Count(Back, Of("HIT")) = 0
      /\ Count(Missed, Of("EVICT")) = 0 /\ Count(Back, Of("EVICT")) = 0
  BY <1>3, <1>4, <1>5
<1>10. Count(Asked, Of("EVICT")) \in Nat /\ Count(Back, Of("UNDO")) \in Nat
  <2>1. Back \in Seq(TraceEvent)
    BY <1>3 DEF Tell
  <2>2. Len(Back) \in Nat
    BY <2>1
  <2>3. Count(Back, Of("UNDO")) \in Nat
    BY ONLY <2>1, <2>2, CountIsNat
  <2>4. Count(Asked, Of("EVICT")) \in Nat
    BY <1>4
  <2> QED BY <2>3, <2>4
<1>11. /\ Count(es, Of("UNDO")) = Count(Back, Of("UNDO"))
       /\ Count(es, Of("MISS")) = 1 /\ Count(es, Of("HIT")) = 0
       /\ Count(es, Forcing) = 0 /\ Count(es, Of("EVICT")) = Count(Asked, Of("EVICT"))
  BY <1>3, <1>4, <1>5, <1>6, <1>9, <1>10
<1>12. res.dominance_moves + 0 = res.dominance_moves /\ 1 + 0 = 1 /\ 1 + 0 + 0 = 1
  BY NumbersOf
<1>13. Told(es)
  BY <1>3, <1>6, <1>7, <1>8, <1>11, <1>12 DEF Told, d
<1> QED BY <1>13 DEF es

LEMMA DuplicateTold ==
  ASSUME GameIsSound, MovesAreMarked, PathInv, CountInv, UniqueInv, Duplicate, ~ Inserted.full,
         Policy = "LRU" => CacheInv
  PROVE  Told(Asked \o <<Plain("HIT", state)>> \o Back)
<1> DEFINE hit == <<Event("HIT", NullMove, 0, state)>>
           es == Asked \o hit \o Back
           d == res.depth
<1>1. /\ UNCHANGED init_state /\ expanded' = expanded
      /\ Backtrack(Marked, {}, Inserted.cache, 0)
      /\ expanded \subseteq expanded' /\ expanded' \subseteq State
  BY PathFacts DEF Duplicate, Turn
<1>2. state \in State /\ NullMove \in Move /\ d \in Int
  BY <1>1, PathFacts, NumbersOf DEF GameIsSound
<1>3. /\ Tell(state, d, Back, state', res'.depth)
      /\ res'.backtracks = res.backtracks + Count(Back, Of("UNDO"))
      /\ res'.dominance_moves = res.dominance_moves /\ Count(Back, Forcing) = 0
      /\ res'.unique_states_searched = res.unique_states_searched + 0
      /\ res'.states_searched = res.states_searched + 1
      /\ \A x : x \in {"MISS", "HIT", "EVICT"} => Count(Back, Of(x)) = 0
      /\ Deeper(Back, res.max_depth, res'.max_depth)
  <2>1. 0 \in {0, 1}
    OBVIOUS
  <2> QED BY <1>1, <2>1, BackTells
<1> HIDE DEF d
<1>4. /\ Tell(state, d, Asked, state, d) /\ Depths(Asked) = {} /\ Count(Asked, Forcing) = 0
      /\ \A x : x \notin {"QUERY", "EVICT"} => Count(Asked, Of(x)) = 0
      /\ Count(Asked, Of("EVICT")) =
           IF StatesRemoved(Inserted.cache) > StatesRemoved(cache) THEN 1 ELSE 0
  BY <1>2, AskedTells
<1>5. /\ Tell(state, d, hit, state, d) /\ Depths(hit) = {} /\ Count(hit, Forcing) = 0
      /\ \A x : Count(hit, Of(x)) = IF x = "HIT" THEN 1 ELSE 0
  <2>1. "HIT" \in Names \ {"MOVE", "UNDO", "DEPTH"} /\ 0 \in Int
    BY DEF Names
  <2> QED BY <1>2, <2>1, NoteTells
<1> HIDE DEF hit
<1>6. /\ Tell(state, d, es, state', res'.depth)
      /\ Depths(es) = Depths(Asked) \union Depths(hit) \union Depths(Back)
      /\ \A E : Count(es, E) = Count(Asked, E) + Count(hit, E) + Count(Back, E)
  <2>1. /\ Tell(state, d, Asked, state, d) /\ Tell(state, d, hit, state, d)
        /\ Tell(state, d, Back, state', res'.depth)
    BY <1>3, <1>4, <1>5
  <2>2. Tell(state, d, es, state', res'.depth)
    BY ONLY <2>1, ThreeParts
  <2>3. Asked \in Seq(TraceEvent) /\ hit \in Seq(TraceEvent) /\ Back \in Seq(TraceEvent)
    BY <2>1 DEF Tell
  <2>4. /\ Depths(es) = Depths(Asked) \union Depths(hit) \union Depths(Back)
        /\ \A E : Count(es, E) = Count(Asked, E) + Count(hit, E) + Count(Back, E)
    BY ONLY <2>3, ThreeCounts
  <2> QED BY <2>2, <2>4
<1> HIDE DEF es
<1>7. Deeper(es, res.max_depth, res'.max_depth)
  BY <1>3, <1>4, <1>5, <1>6 DEF Deeper
<1>8. StatesRemoved(cache') = StatesRemoved(cache) + Count(Asked, Of("EVICT"))
  <2>1. StatesRemoved(cache') = StatesRemoved(Inserted.cache)
    BY <1>1, BackCounts
  <2> QED BY <1>4, <2>1, RemovedOnce DEF UniqueInv
<1>9. /\ Count(Asked, Of("UNDO")) = 0 /\ Count(hit, Of("UNDO")) = 0
      /\ Count(Asked, Of("MISS")) = 0 /\ Count(hit, Of("MISS")) = 0 /\ Count(Back, Of("MISS")) = 0
      /\ Count(Asked, Of("HIT")) = 0 /\ Count(hit, Of("HIT")) = 1 /\ Count(Back, Of("HIT")) = 0
      /\ Count(hit, Of("EVICT")) = 0 /\ Count(Back, Of("EVICT")) = 0
  BY <1>3, <1>4, <1>5
<1>10. Count(Asked, Of("EVICT")) \in Nat /\ Count(Back, Of("UNDO")) \in Nat
  <2>1. Back \in Seq(TraceEvent)
    BY <1>3 DEF Tell
  <2>2. Len(Back) \in Nat
    BY <2>1
  <2>3. Count(Back, Of("UNDO")) \in Nat
    BY ONLY <2>1, <2>2, CountIsNat
  <2>4. Count(Asked, Of("EVICT")) \in Nat
    BY <1>4
  <2> QED BY <2>3, <2>4
<1>11. /\ Count(es, Of("UNDO")) = Count(Back, Of("UNDO"))
       /\ Count(es, Of("MISS")) = 0 /\ Count(es, Of("HIT")) = 1
       /\ Count(es, Forcing) = 0 /\ Count(es, Of("EVICT")) = Count(Asked, Of("EVICT"))
  BY <1>3, <1>4, <1>5, <1>6, <1>9, <1>10
<1>12. res.dominance_moves + 0 = res.dominance_moves /\ 0 + 0 = 0 /\ 0 + 1 + 0 = 1
  BY NumbersOf
<1>13. Told(es)
  BY <1>3, <1>6, <1>7, <1>8, <1>11, <1>12 DEF Told, d
<1> QED BY <1>13 DEF es, hit, Plain

(* The event with which a search ends, which is none of the counted.       *)
LEMMA EndTold ==
  ASSUME GameIsSound, PathInv, CountInv, UniqueInv, Policy = "LRU" => CacheInv,
         UNCHANGED <<state, res>>, result' # "MEM_LIMIT" => UNCHANGED cache,
         NEW is \in {"QUERY", "TIMEOUT", "TERMINATED", "SOLVED"}
  PROVE  Told(<<Plain(is, state)>>)
<1> DEFINE es == <<Event(is, NullMove, 0, state)>>
           d == res.depth
<1>1. state \in State /\ NullMove \in Move /\ d \in Int /\ 0 \in Int
  BY PathFacts, NumbersOf DEF GameIsSound
<1>2. is \in Names \ {"MOVE", "UNDO", "DEPTH"} /\ is \notin {"MISS", "HIT", "EVICT"}
  BY DEF Names
<1> HIDE DEF d
<1>3. /\ Tell(state, d, es, state, d) /\ Depths(es) = {} /\ Count(es, Forcing) = 0
      /\ \A x : Count(es, Of(x)) = IF x = is THEN 1 ELSE 0
  BY <1>1, <1>2, NoteTells
<1> HIDE DEF es
<1>4. /\ Count(es, Of("UNDO")) = 0 /\ Count(es, Of("MISS")) = 0 /\ Count(es, Of("HIT")) = 0
      /\ Count(es, Of("EVICT")) = 0
  BY <1>2, <1>3
<1>5. /\ res.max_depth \in Nat
      /\ res.states_searched + (0 + 0 + 0) = res.states_searched
      /\ res.unique_states_searched + (0 + 0) = res.unique_states_searched
      /\ res.backtracks + 0 = res.backtracks
      /\ res.dominance_moves + 0 = res.dominance_moves
  BY NumbersOf
<1>6. Deeper(es, res.max_depth, res'.max_depth)
  BY <1>3, <1>5 DEF Deeper
<1>7. result' # "MEM_LIMIT" => StatesRemoved(cache') = StatesRemoved(cache) + 0
  <2>1. StatesRemoved(cache) \in Nat
    BY RemovedOnce DEF UniqueInv
  <2> QED BY <2>1
<1>8. Told(es)
  BY <1>3, <1>4, <1>5, <1>6, <1>7 DEF Told, d
<1> QED BY <1>8 DEF es, Plain

-----------------------------------------------------------------------------
(* What a turn writes, and where it halts.                                 *)

(* The events es of a turn, the first queried of them those of its query:  *)
(* a MISS comes after these, and of a state that is new.                   *)
TurnEvents(es, queried, fresh) ==
  /\ es \in Seq(TraceEvent) /\ queried \in 0..Len(es) /\ fresh \in BOOLEAN
  /\ fresh => /\ queried > 0 /\ es[queried].at = state
              /\ es[queried].is \in {"QUERY", "EVICT"}
  /\ \A k \in 1..Len(es) :
       es[k].is = "MISS" => fresh /\ k > queried /\ es[k].at = state

(* The first k of the events es are written, and why no more of them.      *)
Written(es, queried, fresh, k) ==
  /\ k \in 0..Len(es)
  /\ trace' = IF request.enabled THEN trace \o SubSeq(es, 1, k) ELSE trace
  /\ Finds(fresh) => k <= queried
  /\ \/ /\ halted' = "break" /\ shown' = {es[k].at} /\ k > 0
        /\ request.enabled /\ Len(trace) + k \in request.break_at
     \/ /\ halted' = "found" /\ shown' = {state} /\ Finds(fresh) /\ k = queried
        /\ \A j \in 1..k : request.enabled => Len(trace) + j \notin request.break_at
     \/ /\ halted' = halted /\ shown' = shown /\ ~ Finds(fresh) /\ k = Len(es)
        /\ \A j \in 1..k : request.enabled => Len(trace) + j \notin request.break_at

LEMMA EmitsWrites ==
  ASSUME NEW es, NEW queried, NEW fresh, TurnEvents(es, queried, fresh),
         Emits(es, queried, fresh)
  PROVE  \E k : Written(es, queried, fresh, k)
<1> DEFINE before == IF Finds(fresh) THEN SubSeq(es, 1, queried) ELSE es
           n == Len(es)
           B == BreaksIn(before)
<1>1. es \in Seq(TraceEvent) /\ n \in Nat /\ queried \in 0..n
  BY DEF TurnEvents
<1>2. Finds(fresh) \in BOOLEAN
  BY DEF Finds, TurnEvents
<1>3. Len(before) = (IF Finds(fresh) THEN queried ELSE n) /\ Len(before) \in 0..n
  BY <1>1, <1>2, InitialPart
<1>4. DOMAIN before = 1..Len(before)
  <2>1. before \in Seq(TraceEvent)
    BY <1>1, InitialPart
  <2> QED BY <2>1
<1>5. \A k \in 1..Len(before) : before[k] = es[k] /\ SubSeq(before, 1, k) = SubSeq(es, 1, k)
  <2>1. CASE Finds(fresh)
    <3>1. ASSUME NEW k \in 1..queried
          PROVE  SubSeq(es, 1, queried)[k] = es[k]
                 /\ SubSeq(SubSeq(es, 1, queried), 1, k) = SubSeq(es, 1, k)
      <4>1. queried \in 1..n /\ 1 \in 1..n /\ k \in 1..(queried - 1 + 1) /\ 1 \in 1..(queried - 1 + 1)
        BY <1>1, <3>1
      <4>2. SubSeq(SubSeq(es, 1, queried), 1, k) = SubSeq(es, 1 + 1 - 1, 1 + k - 1)
        BY <1>1, <4>1, SubSeqOfSubSeq
      <4>3. 1 + 1 - 1 = 1 /\ 1 + k - 1 = k
        BY <3>1
      <4> QED BY <1>1, <4>2, <4>3, InitialPart
    <3> QED BY <1>3, <2>1, <3>1
  <2>2. CASE ~ Finds(fresh)
    BY <2>2
  <2> QED BY <2>1, <2>2
<1>6. \A k : k \in B <=> k \in 1..Len(before) /\ request.enabled
                          /\ Len(trace) + k \in request.break_at
  BY <1>4 DEF BreaksIn
<1>7. SubSeq(es, 1, n) = es
  BY <1>1, SubSeqFull
<1>8. \/ \E k \in B : Writes(SubSeq(es, 1, k)) /\ halted' = "break" /\ shown' = {es[k].at}
      \/ /\ B = {} /\ Finds(fresh)
         /\ Writes(SubSeq(es, 1, queried)) /\ halted' = "found" /\ shown' = {state}
      \/ B = {} /\ ~ Finds(fresh) /\ Writes(es) /\ halted' = halted /\ shown' = shown
  <2>1. CASE B # {}
    <3>1. \E k \in B : /\ Writes(SubSeq(es, 1, k)) /\ halted' = "break"
                       /\ shown' = {es[k].at}
      BY <2>1 DEF Emits
    <3> QED BY <3>1
  <2>2. CASE B = {} /\ Finds(fresh)
    <3>1. before = SubSeq(es, 1, queried)
      BY <2>2
    <3>2. Writes(before) /\ halted' = "found" /\ shown' = {state}
      BY <2>2 DEF Emits
    <3> QED BY <2>2, <3>1, <3>2
  <2>3. CASE B = {} /\ ~ Finds(fresh)
    <3>1. Writes(es) /\ UNCHANGED <<halted, shown>>
      BY <2>3 DEF Emits
    <3> QED BY <2>3, <3>1
  <2> QED BY <2>1, <2>2, <2>3
<1> HIDE DEF before, B
<1>9. CASE \E k \in B : Writes(SubSeq(es, 1, k)) /\ halted' = "break" /\ shown' = {es[k].at}
  <2>1. PICK k \in B : Writes(SubSeq(es, 1, k)) /\ halted' = "break" /\ shown' = {es[k].at}
    BY <1>9
  <2>2. k \in 1..Len(before) /\ request.enabled /\ Len(trace) + k \in request.break_at
    BY <1>6
  <2>3. k \in 0..n /\ k > 0 /\ (Finds(fresh) => k <= queried)
    BY <1>1, <1>3, <2>2
  <2>4. Written(es, queried, fresh, k)
    BY <2>1, <2>2, <2>3 DEF Written, Writes
  <2> QED BY <2>4
<1>10. CASE /\ B = {} /\ Finds(fresh)
            /\ Writes(SubSeq(es, 1, queried)) /\ halted' = "found" /\ shown' = {state}
  <2>1. \A j \in 1..queried : request.enabled => Len(trace) + j \notin request.break_at
    BY <1>3, <1>6, <1>10
  <2>2. queried <= queried
    BY <1>1
  <2>3. Written(es, queried, fresh, queried)
    BY <1>1, <1>10, <2>1, <2>2 DEF Written, Writes
  <2> QED BY <2>3
<1>11. CASE B = {} /\ ~ Finds(fresh) /\ Writes(es) /\ halted' = halted /\ shown' = shown
  <2>1. \A j \in 1..n : request.enabled => Len(trace) + j \notin request.break_at
    BY <1>3, <1>6, <1>11
  <2>2. n \in 0..n /\ ~ Finds(fresh)
    BY <1>1, <1>11
  <2>3. trace' = IF request.enabled THEN trace \o SubSeq(es, 1, n) ELSE trace
    BY <1>7, <1>11 DEF Writes
  <2> HIDE DEF n
  <2>4. Written(es, queried, fresh, n)
    BY <1>11, <2>1, <2>2, <2>3 DEF Written, n
  <2> QED BY <2>4
<1> QED BY <1>8, <1>9, <1>10, <1>11

(* A turn that writes so leaves a search halted where it was asked to.     *)
HaltInv ==
  /\ request \in Requests /\ trace \in Seq(TraceEvent) /\ halted \in {"no", "break", "found"}
  /\ halted = "found" =>
       /\ \A s \in shown : Hash(Key(s)) = request.find_hash
       /\ request.enabled => Len(trace) > 0 /\ trace[Len(trace)].is \in {"QUERY", "EVICT"}
  /\ ComputesHash /\ request.find_hash # 0 =>
       \A k \in 1..Len(trace) :
         trace[k].is = "MISS" => Hash(Key(trace[k].at)) # request.find_hash
  /\ request.enabled =>
       \A n \in request.break_at \ {0} :
         /\ Len(trace) <= n
         /\ halted = "no" => Len(trace) < n
         /\ halted = "break" => Len(trace) = n

LEMMA WrittenHalts ==
  ASSUME HaltInv, halted = "no", UNCHANGED request,
         NEW es, NEW queried, NEW fresh, TurnEvents(es, queried, fresh),
         NEW k, Written(es, queried, fresh, k)
  PROVE  HaltInv'
<1> DEFINE p == SubSeq(es, 1, k)
           m == Len(trace)
<1>1. /\ es \in Seq(TraceEvent) /\ trace \in Seq(TraceEvent) /\ k \in 0..Len(es)
      /\ m \in Nat /\ Len(es) \in Nat
  BY DEF TurnEvents, Written, HaltInv
<1>2. p \in Seq(TraceEvent) /\ Len(p) = k /\ \A j \in 1..k : p[j] = es[j]
  BY <1>1, InitialPart
<1> HIDE DEF p
<1>3. trace' = IF request.enabled THEN trace \o p ELSE trace
  BY DEF Written, p
<1>4. /\ request.enabled => Len(trace') = m + k
      /\ ~ request.enabled => trace' = trace
      /\ trace' \in Seq(TraceEvent)
      /\ \A j \in 1..m : trace'[j] = trace[j]
      /\ request.enabled => \A j \in 1..k : trace'[m + j] = es[j]
  <2>1. CASE request.enabled
    <3>1. trace' = trace \o p
      BY <1>3, <2>1
    <3> DEFINE v == trace \o p
    <3>2. /\ v \in Seq(TraceEvent) /\ Len(v) = m + k
          /\ \A j \in 1..m : v[j] = trace[j]
      BY <1>1, <1>2, ConcatProperties
    <3>3. \A j \in 1..k : v[m + j] = es[j]
      BY <1>1, <1>2, ConcatProperties
    <3> HIDE DEF v, m
    <3>4. trace' = v
      BY <3>1 DEF v
    <3> QED BY <2>1, <3>2, <3>3, <3>4
  <2>2. CASE ~ request.enabled
    BY <1>1, <1>3, <2>2
  <2> QED BY <2>1, <2>2
<1> HIDE DEF m
<1>5. halted' = "found" =>
        /\ \A s \in shown' : Hash(Key(s)) = request'.find_hash
        /\ request'.enabled => Len(trace') > 0 /\ trace'[Len(trace')].is \in {"QUERY", "EVICT"}
  <2>1. SUFFICES ASSUME halted' = "found"
                 PROVE  /\ \A s \in shown' : Hash(Key(s)) = request'.find_hash
                        /\ request'.enabled =>
                             Len(trace') > 0 /\ trace'[Len(trace')].is \in {"QUERY", "EVICT"}
    OBVIOUS
  <2>2. shown' = {state} /\ Finds(fresh) /\ k = queried
    BY <2>1 DEF Written
  <2>3. Hash(Key(state)) = request.find_hash /\ fresh
    BY <2>2 DEF Finds
  <2>4. k > 0 /\ es[k].is \in {"QUERY", "EVICT"} /\ k \in 1..k
    BY <1>1, <2>2, <2>3 DEF TurnEvents
  <2>5. m + k > 0
    BY <1>1, <2>4
  <2> QED BY <1>4, <2>2, <2>3, <2>4, <2>5
<1>6. ComputesHash /\ request'.find_hash # 0 =>
        \A j \in 1..Len(trace') :
          trace'[j].is = "MISS" => Hash(Key(trace'[j].at)) # request'.find_hash
  <2>1. SUFFICES ASSUME ComputesHash, request.find_hash # 0, NEW j \in 1..Len(trace'),
                        trace'[j].is = "MISS"
                 PROVE  Hash(Key(trace'[j].at)) # request.find_hash
    OBVIOUS
  <2>2. CASE j \in 1..m
    <3>1. trace'[j] = trace[j]
      BY <1>4, <2>2
    <3> QED BY <2>1, <2>2, <3>1 DEF HaltInv, m
  <2>3. CASE j \notin 1..m
    <3>1. request.enabled
      BY <1>4, <2>3 DEF m
    <3>2. PICK i \in 1..k : j = m + i
      <4>1. j \in 1..(m + k)
        BY <1>4, <3>1
      <4>2. j - m \in 1..k /\ j = m + (j - m)
        BY <1>1, <2>3, <4>1
      <4> QED BY <4>2
    <3>3. trace'[j] = es[i] /\ i \in 1..Len(es)
      BY <1>1, <1>4, <3>1, <3>2
    <3>4. es[i].is = "MISS"
      BY <2>1, <3>3
    <3>5. fresh /\ i > queried /\ es[i].at = state
      BY <3>3, <3>4 DEF TurnEvents
    <3>6. ~ (k <= queried)
      <4>1. queried \in Nat
        BY DEF TurnEvents
      <4> QED BY <1>1, <3>2, <3>5, <4>1
    <3>7. ~ Finds(fresh)
      BY <3>6 DEF Written
    <3> QED BY <2>1, <3>3, <3>5, <3>7 DEF Finds
  <2> QED BY <2>2, <2>3
<1>7. request'.enabled =>
        \A n \in request'.break_at \ {0} :
          /\ Len(trace') <= n
          /\ halted' = "no" => Len(trace') < n
          /\ halted' = "break" => Len(trace') = n
  <2>1. SUFFICES ASSUME request.enabled, NEW n \in request.break_at, n # 0
                 PROVE  /\ m + k <= n
                        /\ halted' = "no" => m + k < n
                        /\ halted' = "break" => m + k = n
    BY <1>4
  <2>2. n \in Nat /\ \A x \in request.break_at : x = n
    BY RequestsAssumption DEF HaltInv
  <2>3. m < n
    BY <2>1 DEF HaltInv, m
  <2>4. CASE halted' = "break"
    <3>1. m + k \in request.break_at
      BY <2>1, <2>4 DEF Written, m
    <3>2. m + k = n
      BY <2>2, <3>1
    <3> QED BY <2>2, <2>4, <3>2
  <2>5. CASE halted' # "break"
    <3>1. \A j \in 1..k : m + j \notin request.break_at
      BY <2>1, <2>5 DEF Written, m
    <3>2. ~ (n <= m + k)
      <4>1. SUFFICES ASSUME n <= m + k PROVE FALSE
        OBVIOUS
      <4>2. n - m \in 1..k /\ m + (n - m) = n
        BY <1>1, <2>2, <2>3, <4>1
      <4> QED BY <2>1, <3>1, <4>2
    <3>3. m + k < n
      BY <1>1, <2>2, <3>2
    <3> QED BY <1>1, <2>2, <2>5, <3>3
  <2> QED BY <2>4, <2>5
<1>8. halted' \in {"no", "break", "found"}
  BY DEF Written
<1>9. request' \in Requests
  BY DEF HaltInv
<1> QED BY <1>4, <1>5, <1>6, <1>7, <1>8, <1>9 DEF HaltInv

(* The events of the turns.                                                *)
LEMMA FreshTurn ==
  ASSUME NEW a \in Seq(TraceEvent), NEW b \in Seq(TraceEvent), NEW c \in Seq(TraceEvent),
         a # <<>>, \A k \in 1..Len(a) : a[k].is \in {"QUERY", "EVICT"} /\ a[k].at = state,
         \A k \in 1..Len(b) : b[k].at = state,
         \A k \in 1..Len(c) : c[k].is # "MISS"
  PROVE  TurnEvents(a \o b \o c, Len(a), TRUE)
<1> DEFINE u == a \o b
           v == u \o c
           m == Len(a)
           n == Len(b)
<1>1. m \in Nat /\ n \in Nat /\ Len(c) \in Nat /\ m > 0
  OBVIOUS
<1>2. /\ u \in Seq(TraceEvent) /\ Len(u) = m + n
      /\ \A k \in 1..m : u[k] = a[k]
      /\ \A k \in 1..n : u[m + k] = b[k]
  BY ConcatProperties
<1> HIDE DEF u, m, n
<1>3. /\ v \in Seq(TraceEvent) /\ Len(v) = m + n + Len(c)
      /\ \A k \in 1..(m + n) : v[k] = u[k]
      /\ \A k \in 1..Len(c) : v[m + n + k] = c[k]
  <2>1. /\ v \in Seq(TraceEvent) /\ Len(v) = Len(u) + Len(c)
        /\ \A k \in 1..Len(u) : v[k] = u[k]
        /\ \A k \in 1..Len(c) : v[Len(u) + k] = c[k]
    <3>1. u \in Seq(TraceEvent) /\ c \in Seq(TraceEvent)
      BY <1>2
    <3> QED BY ONLY <3>1, ConcatProperties
  <2> HIDE DEF v
  <2> QED BY <1>2, <2>1
<1> HIDE DEF v
<1>4. m \in 1..m /\ m \in 1..(m + n) /\ m \in 0..Len(v)
  BY <1>1, <1>3
<1>5. v[m].at = state /\ v[m].is \in {"QUERY", "EVICT"}
  BY <1>2, <1>3, <1>4 DEF m
<1>6. ASSUME NEW k \in 1..Len(v), v[k].is = "MISS"
      PROVE  k > m /\ v[k].at = state
  <2>1. CASE k <= m
    <3>1. k \in 1..m /\ k \in 1..(m + n)
      BY <1>1, <2>1
    <3>2. v[k].is \in {"QUERY", "EVICT"}
      BY <1>2, <1>3, <3>1 DEF m
    <3> QED BY <1>6, <3>2
  <2>2. CASE k > m /\ k <= m + n
    <3> DEFINE i == k - m
    <3>1. i \in 1..n /\ k = m + i /\ k \in 1..(m + n)
      BY <1>1, <2>2
    <3> HIDE DEF i
    <3>2. v[k] = b[i]
      BY <1>2, <1>3, <3>1
    <3> QED BY <2>2, <3>1, <3>2 DEF n
  <2>3. CASE k > m + n
    <3> DEFINE i == k - (m + n)
    <3>1. i \in 1..Len(c) /\ k = m + n + i
      BY <1>1, <1>3, <2>3
    <3> HIDE DEF i
    <3>2. v[k] = c[i]
      BY <1>3, <3>1
    <3> QED BY <1>6, <3>1, <3>2
  <2> QED BY <1>1, <1>3, <2>1, <2>2, <2>3
<1>7. TurnEvents(v, m, TRUE)
  BY <1>1, <1>3, <1>4, <1>5, <1>6 DEF TurnEvents
<1> QED BY <1>7 DEF u, v, m

LEMMA OtherTurn ==
  ASSUME NEW es \in Seq(TraceEvent), \A k \in 1..Len(es) : es[k].is # "MISS",
         NEW queried \in 0..Len(es)
  PROVE  TurnEvents(es, queried, FALSE)
  BY DEF TurnEvents

LEMMA NoneMissed ==
  ASSUME NEW a \in Seq(TraceEvent), NEW b \in Seq(TraceEvent),
         \A k \in 1..Len(a) : a[k].is # "MISS",
         \A k \in 1..Len(b) : b[k].is # "MISS"
  PROVE  /\ a \o b \in Seq(TraceEvent) /\ Len(a) \in 0..Len(a \o b)
         /\ \A k \in 1..Len(a \o b) : (a \o b)[k].is # "MISS"
<1> DEFINE v == a \o b
           m == Len(a)
<1>1. m \in Nat /\ Len(b) \in Nat
  OBVIOUS
<1>2. /\ v \in Seq(TraceEvent) /\ Len(v) = m + Len(b)
      /\ \A k \in 1..m : v[k] = a[k]
      /\ \A k \in 1..Len(b) : v[m + k] = b[k]
  BY ConcatProperties
<1> HIDE DEF v, m
<1>3. ASSUME NEW k \in 1..Len(v)
      PROVE  v[k].is # "MISS"
  <2>1. CASE k <= m
    BY <1>1, <1>2, <2>1 DEF m
  <2>2. CASE k > m
    <3> DEFINE i == k - m
    <3>1. i \in 1..Len(b) /\ k = m + i
      BY <1>1, <1>2, <2>2
    <3> HIDE DEF i
    <3> QED BY <1>2, <3>1
  <2> QED BY <1>1, <2>1, <2>2
<1>4. m \in 0..Len(v)
  BY <1>1, <1>2
<1> QED BY <1>2, <1>3, <1>4 DEF v, m

LEMMA OneEvent ==
  ASSUME NEW is \in Names, NEW mv \in Move, NEW n \in Int, NEW at \in State
  PROVE  /\ <<Event(is, mv, n, at)>> \in Seq(TraceEvent)
         /\ \A k \in 1..Len(<<Event(is, mv, n, at)>>) :
              <<Event(is, mv, n, at)>>[k].is = is /\ <<Event(is, mv, n, at)>>[k].at = at
<1> DEFINE e == Event(is, mv, n, at)
<1>1. e \in TraceEvent /\ e.is = is /\ e.at = at
  BY EventFields
<1> HIDE DEF e
<1>2. <<e>> \in Seq(TraceEvent) /\ Len(<<e>>) = 1 /\ <<e>>[1] = e
  BY <1>1
<1> QED BY <1>1, <1>2 DEF e

LEMMA DownEvents ==
  ASSUME NEW m \in Move, NEW to \in State, NullMove \in Move, NEW depth \in Int
  PROVE  /\ Down(m, to, depth) \in Seq(TraceEvent)
         /\ \A k \in 1..Len(Down(m, to, depth)) : Down(m, to, depth)[k].is # "MISS"
<1> DEFINE a == Event("MOVE", m, 0, to)
           b == Event("DEPTH", NullMove, depth, to)
<1>1. "MOVE" \in Names /\ "DEPTH" \in Names /\ 0 \in Int
  BY DEF Names
<1>2. a \in TraceEvent /\ a.is = "MOVE" /\ b \in TraceEvent /\ b.is = "DEPTH"
  BY <1>1, EventFields
<1>3. Down(m, to, depth) = <<a, b>>
  BY DEF Down
<1> HIDE DEF a, b
<1>4. <<a, b>> \in Seq(TraceEvent) /\ Len(<<a, b>>) = 2 /\ <<a, b>>[1] = a /\ <<a, b>>[2] = b
  BY <1>2
<1> QED BY <1>2, <1>3, <1>4

LEMMA BackEvents ==
  ASSUME GameIsSound, PathInv, res.depth \in Int
  PROVE  Back \in Seq(TraceEvent) /\ \A k \in 1..Len(Back) : Back[k].is # "MISS"
<1> DEFINE m == Last(frontier[Target].child_moves)
           to == Apply(StateAt, m)
           depth == res.depth - (Len(frontier) - Target) + 1
           last == IF OpenNodes = {} THEN <<Plain("UNSOLV", StateAt)>> ELSE Down(m, to, depth)
<1>1. /\ StateAt = Path[Target] /\ Target \in 1..Len(frontier) /\ Len(frontier) \in Nat
      /\ StateAt \in State
  BY PathFacts, UndoneIsPath DEF PathInv
<1>2. Ups \in Seq(TraceEvent) /\ \A k \in 1..Len(Ups) : Ups[k].is # "MISS"
  <2>1. \A k \in 1..Len(Ups) : k % 2 = 1 \/ k % 2 # 1
    OBVIOUS
  <2> QED BY <2>1, UpsEvents
<1>3. last \in Seq(TraceEvent) /\ \A k \in 1..Len(last) : last[k].is # "MISS"
  <2>1. CASE OpenNodes = {}
    <3>1. last = <<Event("UNSOLV", NullMove, 0, StateAt)>>
      BY <2>1 DEF Plain
    <3>2. "UNSOLV" \in Names /\ "UNSOLV" # "MISS" /\ NullMove \in Move /\ 0 \in Int
      BY DEF Names, GameIsSound
    <3> HIDE DEF last
    <3> DEFINE t == <<Event("UNSOLV", NullMove, 0, StateAt)>>
    <3>3. /\ t \in Seq(TraceEvent)
          /\ \A k \in 1..Len(t) : t[k].is = "UNSOLV" /\ t[k].at = StateAt
      BY <1>1, <3>2, OneEvent
    <3> QED BY <3>1, <3>2, <3>3
  <2>2. CASE OpenNodes # {}
    <3> DEFINE moves == frontier[Target].child_moves
    <3>1. Target \in OpenNodes
      BY <1>1, <2>2, TargetIsLast
    <3>2. moves \in Seq(Move) /\ moves # <<>> /\ Range(moves) \subseteq MovesOf(StateAt)
      <4>1. frontier[Target] \in Node
        BY <1>1, PathFacts
      <4>2. moves \in Seq(Move)
        BY <4>1 DEF Node
      <4>3. moves # <<>>
        BY <3>1 DEF OpenNodes
      <4>4. Range(moves) \subseteq MovesOf(Path[Target])
        BY <1>1, PathFacts
      <4> QED BY <1>1, <4>2, <4>3, <4>4
    <3>3. m = moves[Len(moves)] /\ Len(moves) \in DOMAIN moves
      BY <3>2 DEF Last
    <3>4. m \in Move /\ m \in MovesOf(StateAt)
      BY <3>2, <3>3 DEF Range
    <3>5. to \in State /\ NullMove \in Move
      BY <1>1, <3>4 DEF GameIsSound
    <3>6. depth \in Int
      BY <1>1
    <3>7. last = Down(m, to, depth)
      BY <2>2
    <3> HIDE DEF last, m, to, depth
    <3> QED BY <3>4, <3>5, <3>6, <3>7, DownEvents
  <2> QED BY <2>1, <2>2
<1>4. Back = Ups \o last
  BY DEF Back
<1> QED BY <1>2, <1>3, <1>4, NoneMissed

(* A turn of the traced search, with the events that it emits.             *)
Emitted(es, queried, fresh) ==
  /\ halted = "no" /\ UNCHANGED request
  /\ TurnEvents(es, queried, fresh) /\ Emits(es, queried, fresh)

LEMMA TurnFacts ==
  ASSUME GameIsSound, PathInv, CountInv
  PROVE  /\ state \in State /\ NullMove \in Move /\ res.depth \in Int /\ res.depth + 1 \in Int
         /\ Asked \in Seq(TraceEvent) /\ Asked # <<>>
         /\ \A k \in 1..Len(Asked) :
              Asked[k].is \in {"QUERY", "EVICT"} /\ Asked[k].at = state
         /\ Back \in Seq(TraceEvent) /\ \A k \in 1..Len(Back) : Back[k].is # "MISS"
<1>1. state \in State /\ NullMove \in Move /\ res.depth \in Int /\ res.depth + 1 \in Int
  BY PathFacts, NumbersOf DEF GameIsSound
<1>2. /\ Tell(state, res.depth, Asked, state, res.depth) /\ Len(Asked) \in 1..2
      /\ \A k \in 1..Len(Asked) : Asked[k].is \in {"QUERY", "EVICT"} /\ Asked[k].at = state
  BY <1>1, AskedTells
<1>3. Asked \in Seq(TraceEvent)
  BY <1>2 DEF Tell
<1>4. Asked # <<>>
  <2>1. Len(<<>>) = 0
    OBVIOUS
  <2> QED BY <1>2, <2>1
<1>5. Back \in Seq(TraceEvent) /\ \A k \in 1..Len(Back) : Back[k].is # "MISS"
  BY <1>1, BackEvents
<1> QED BY <1>1, <1>2, <1>3, <1>4, <1>5

LEMMA MissedEvents ==
  ASSUME GameIsSound, PathInv, CountInv, DominanceMove(state) = NoMove
  PROVE  Missed \in Seq(TraceEvent) /\ \A k \in 1..Len(Missed) : Missed[k].at = state
<1>1. Moves \in Seq(Move)
  BY GameMoves
<1>2. Len(Moves) \in Int /\ state \in State /\ NullMove \in Move /\ res.depth \in Int
  BY <1>1, TurnFacts
<1>3. /\ Tell(state, res.depth, Missed, state, res.depth)
      /\ \A k \in 1..Len(Missed) : Missed[k].at = state
  BY <1>2, MissedTells
<1> QED BY <1>3 DEF Tell

LEMMA DominateEmits ==
  ASSUME GameIsSound, PathInv, CountInv, TracedDominate
  PROVE  LET m == DominanceMove(state)
         IN Emitted(Down(m, Apply(state, m), res.depth + 1), 0, FALSE)
<1> DEFINE m == DominanceMove(state)
           es == Down(m, Apply(state, m), res.depth + 1)
<1>1. Unhalted /\ DominanceMove(state) # NoMove /\ Emits(es, 0, FALSE)
  BY DEF TracedDominate, Dominate
<1>2. m \in Move /\ m \in MovesOf(state)
  BY <1>1, TurnFacts, GameMoves DEF GameIsSound
<1>3. Apply(state, m) \in State
  BY <1>2, TurnFacts DEF GameIsSound
<1>4. es \in Seq(TraceEvent) /\ \A k \in 1..Len(es) : es[k].is # "MISS"
  <2> HIDE DEF m
  <2> QED BY <1>2, <1>3, TurnFacts, DownEvents
<1>5. 0 \in 0..Len(es)
  BY <1>4
<1> HIDE DEF es
<1>6. TurnEvents(es, 0, FALSE)
  BY <1>4, <1>5, OtherTurn
<1>7. Emitted(es, 0, FALSE)
  BY <1>1, <1>6 DEF Emitted, Unhalted
<1> QED BY <1>7 DEF es, m

LEMMA ExpandEmits ==
  ASSUME GameIsSound, PathInv, CountInv, TracedExpand
  PROVE  LET m == Last(Moves)
         IN Emitted(Asked \o Missed \o Down(m, Apply(state, m), res.depth + 1), Len(Asked), TRUE)
<1> DEFINE m == Last(Moves)
           c == Down(m, Apply(state, m), res.depth + 1)
           es == Asked \o Missed \o c
<1>1. Unhalted /\ DominanceMove(state) = NoMove /\ Moves # <<>> /\ Emits(es, Len(Asked), TRUE)
  BY DEF TracedExpand, Expand
<1>2. m \in Move /\ m \in MovesOf(state)
  <2>1. Moves \in Seq(Move) /\ Range(Moves) \subseteq MovesOf(state)
    BY <1>1, GameMoves
  <2>2. Len(Moves) \in DOMAIN Moves
    BY <1>1, <2>1
  <2> QED BY <2>1, <2>2 DEF Last, Range
<1>3. Apply(state, m) \in State
  BY <1>2, TurnFacts DEF GameIsSound
<1>4. c \in Seq(TraceEvent) /\ \A k \in 1..Len(c) : c[k].is # "MISS"
  <2> HIDE DEF m
  <2> QED BY <1>2, <1>3, TurnFacts, DownEvents
<1>5. Missed \in Seq(TraceEvent) /\ \A k \in 1..Len(Missed) : Missed[k].at = state
  BY <1>1, MissedEvents
<1> HIDE DEF c
<1>6. TurnEvents(es, Len(Asked), TRUE)
  BY <1>4, <1>5, TurnFacts, FreshTurn
<1>7. Emitted(es, Len(Asked), TRUE)
  BY <1>1, <1>6 DEF Emitted, Unhalted
<1> QED BY <1>7 DEF c

LEMMA DeadEndEmits ==
  ASSUME GameIsSound, PathInv, CountInv, TracedDeadEnd
  PROVE  Emitted(Asked \o Missed \o Back, Len(Asked), TRUE)
<1>1. /\ Unhalted /\ DominanceMove(state) = NoMove
      /\ Emits(Asked \o Missed \o Back, Len(Asked), TRUE)
  BY DEF TracedDeadEnd, DeadEnd
<1>2. Missed \in Seq(TraceEvent) /\ \A k \in 1..Len(Missed) : Missed[k].at = state
  BY <1>1, MissedEvents
<1>3. TurnEvents(Asked \o Missed \o Back, Len(Asked), TRUE)
  BY <1>2, TurnFacts, FreshTurn
<1> QED BY <1>1, <1>3 DEF Emitted, Unhalted

LEMMA DuplicateEmits ==
  ASSUME GameIsSound, PathInv, CountInv, TracedDuplicate
  PROVE  Emitted(Asked \o <<Plain("HIT", state)>> \o Back, Len(Asked), FALSE)
<1> DEFINE hit == <<Event("HIT", NullMove, 0, state)>>
           u == Asked \o hit
           es == u \o Back
<1>1. Unhalted /\ Emits(es, Len(Asked), FALSE)
  BY DEF TracedDuplicate, Plain
<1>2. hit \in Seq(TraceEvent) /\ \A k \in 1..Len(hit) : hit[k].is # "MISS"
  <2>1. "HIT" \in Names /\ "HIT" # "MISS" /\ 0 \in Int
    BY DEF Names
  <2>2. /\ hit \in Seq(TraceEvent)
        /\ \A k \in 1..Len(hit) : hit[k].is = "HIT" /\ hit[k].at = state
    BY <2>1, TurnFacts, OneEvent
  <2> QED BY <2>1, <2>2
<1> HIDE DEF hit
<1>3. u \in Seq(TraceEvent) /\ Len(Asked) \in 0..Len(u) /\ \A k \in 1..Len(u) : u[k].is # "MISS"
  BY <1>2, TurnFacts, NoneMissed
<1> HIDE DEF u
<1>4. /\ es \in Seq(TraceEvent) /\ Len(u) \in 0..Len(es)
      /\ \A k \in 1..Len(es) : es[k].is # "MISS"
  BY <1>3, TurnFacts, NoneMissed
<1> HIDE DEF es
<1>5. Len(Asked) \in 0..Len(es)
  BY <1>3, <1>4
<1>6. TurnEvents(es, Len(Asked), FALSE)
  BY <1>4, <1>5, OtherTurn
<1>7. Emitted(es, Len(Asked), FALSE)
  BY <1>1, <1>6 DEF Emitted, Unhalted
<1> QED BY <1>7 DEF es, u, hit, Plain

LEMMA EndEmits ==
  ASSUME GameIsSound, PathInv, CountInv, Unhalted,
         NEW is \in {"QUERY", "TIMEOUT", "TERMINATED", "SOLVED"},
         Emits(<<Plain(is, state)>>, 0, FALSE)
  PROVE  Emitted(<<Plain(is, state)>>, 0, FALSE)
<1> DEFINE es == <<Event(is, NullMove, 0, state)>>
<1>1. is \in Names /\ is # "MISS" /\ 0 \in Int
  BY DEF Names
<1>2. /\ es \in Seq(TraceEvent)
      /\ \A k \in 1..Len(es) : es[k].is = is /\ es[k].at = state
  BY <1>1, TurnFacts, OneEvent
<1>3. es = <<Plain(is, state)>>
  BY DEF Plain
<1> HIDE DEF es
<1>4. 0 \in 0..Len(es)
  BY <1>2
<1>5. TurnEvents(es, 0, FALSE)
  BY <1>1, <1>2, <1>4, OtherTurn
<1> QED BY <1>3, <1>5 DEF Emitted, Unhalted

LEMMA TracedIsNext ==
  ASSUME [TracedNext]_traced_vars
  PROVE  [Next]_vars
  BY DEF TracedNext, TracedDfs, TracedDominate, TracedExpand, TracedDeadEnd, TracedDuplicate,
         TracedMemLimit, TracedEnd, TracedEnvironment, traced_vars, Next, Dfs, Uncut

(* A search that is traced, or asked to halt, makes the turns that it      *)
(* makes otherwise, as far as it goes.                                     *)
THEOREM TracingChangesNothing ==
  TracedSpec => Spec
<1>1. TracedInit => Init
  BY DEF TracedInit
<1>2. [TracedNext]_traced_vars => [Next]_vars
  BY TracedIsNext
<1> QED BY <1>1, <1>2, PTL DEF TracedSpec, Spec

LEMMA TracedBooks ==
  ASSUME GameIsSound
  PROVE  TracedSpec => []BooksInv
<1>1. Spec => []BooksInv
  BY BooksInvariant
<1> QED BY <1>1, TracingChangesNothing, PTL

LEMMA InitHalts ==
  ASSUME TracedInit
  PROVE  HaltInv
<1>1. trace = <<>> /\ Len(trace) = 0 /\ trace \in Seq(TraceEvent) /\ 1..0 = {}
  BY DEF TracedInit
<1>2. request \in Requests /\ halted = "no"
  BY DEF TracedInit
<1>3. request.enabled => \A n \in request.break_at \ {0} : 0 <= n /\ 0 < n
  BY <1>2, RequestsAssumption
<1> QED BY <1>1, <1>2, <1>3 DEF HaltInv

LEMMA NextHalts ==
  ASSUME GameIsSound, PathInv, CountInv, HaltInv, [TracedNext]_traced_vars
  PROVE  HaltInv'
<1>1. ASSUME NEW es, NEW queried, NEW fresh, Emitted(es, queried, fresh)
      PROVE  HaltInv'
  <2>1. /\ halted = "no" /\ UNCHANGED request
        /\ TurnEvents(es, queried, fresh) /\ Emits(es, queried, fresh)
    BY <1>1 DEF Emitted
  <2>2. PICK k : Written(es, queried, fresh, k)
    BY <2>1, EmitsWrites
  <2> QED BY <2>1, <2>2, WrittenHalts
<1>2. CASE TracedDominate
  BY <1>1, <1>2, DominateEmits
<1>3. CASE TracedExpand
  BY <1>1, <1>3, ExpandEmits
<1>4. CASE TracedDeadEnd
  BY <1>1, <1>4, DeadEndEmits
<1>5. CASE TracedDuplicate
  BY <1>1, <1>5, DuplicateEmits
<1>6. CASE TracedMemLimit \/ TracedEnd
  <2>1. PICK is \in {"QUERY", "TIMEOUT", "TERMINATED", "SOLVED"} :
          Unhalted /\ Emits(<<Plain(is, state)>>, 0, FALSE)
    BY <1>6 DEF TracedMemLimit, TracedEnd
  <2> QED BY <1>1, <2>1, EndEmits
<1>7. CASE TracedEnvironment \/ UNCHANGED traced_vars
  <2>1. UNCHANGED <<request, trace, halted, shown>>
    BY <1>7 DEF TracedEnvironment, traced_vars, tracing
  <2> QED BY <2>1 DEF HaltInv
<1> QED BY <1>2, <1>3, <1>4, <1>5, <1>6, <1>7 DEF TracedNext, TracedDfs

LEMMA HaltsFollow ==
  ASSUME HaltInv
  PROVE  HaltsWhereAsked
<1>1. DOMAIN trace = 1..Len(trace)
  BY DEF HaltInv
<1>2. FoundIsTheFirst
  BY <1>1 DEF FoundIsTheFirst, HaltInv
<1>3. BreaksWhereAsked
  BY DEF BreaksWhereAsked, HaltInv
<1> QED BY <1>2, <1>3 DEF HaltsWhereAsked

(* Traced or not, a search halts at a hash that it was asked for in the    *)
(* turn in which the first state with it is new, right after the query,    *)
(* and never goes on beyond one; and the trace never goes on beyond the    *)
(* operation at which a break was asked for, and ends there if it halts    *)
(* for it.                                                                 *)
THEOREM TracedSearchHaltsRight ==
  ASSUME GameIsSound
  PROVE  TracedSpec => []HaltsWhereAsked
<1>1. TracedInit => HaltInv
  BY InitHalts
<1>2. HaltInv /\ BooksInv /\ [TracedNext]_traced_vars => HaltInv'
  BY NextHalts DEF BooksInv
<1>3. HaltInv => HaltsWhereAsked
  BY HaltsFollow
<1>4. TracedSpec => []BooksInv
  BY TracedBooks
<1> QED BY <1>1, <1>2, <1>3, <1>4, PTL DEF TracedSpec

-----------------------------------------------------------------------------
(* What the whole trace tells.                                             *)
CountsTold ==
  /\ res.backtracks = Count(trace, Of("UNDO"))
  /\ res.dominance_moves = Count(trace, Forcing)
  /\ res.unique_states_searched = Count(trace, Of("MISS")) + Count(trace, Forcing)
  /\ res.states_searched = Count(trace, Of("MISS")) + Count(trace, Of("HIT")) + Count(trace, Forcing)
  /\ Deeper(trace, 0, res.max_depth)
  /\ result # "MEM_LIMIT" => StatesRemoved(cache) = Count(trace, Of("EVICT"))

TellInv ==
  request.enabled =>
    /\ halted = "no" => Tell(init_state, 0, trace, state, res.depth) /\ CountsTold
    /\ halted # "no" => \E s, d : Tell(init_state, 0, trace, s, d) /\ shown = {s}

LEMMA HaltedTells ==
  ASSUME TellInv, halted = "no", request.enabled, UNCHANGED init_state,
         NEW es, NEW queried, NEW fresh, TurnEvents(es, queried, fresh),
         NEW k, Written(es, queried, fresh, k), NEW s2, NEW d2,
         Tell(state, res.depth, es, s2, d2), halted' # "no"
  PROVE  \E s, d : Tell(init_state', 0, trace', s, d) /\ shown' = {s}
<1>1. Tell(init_state, 0, trace, state, res.depth)
  BY DEF TellInv
<1>2. k \in 0..Len(es) /\ trace' = trace \o SubSeq(es, 1, k) /\ k > 0 /\ shown' = {es[k].at}
  <2>1. k \in 0..Len(es) /\ trace' = trace \o SubSeq(es, 1, k)
    BY DEF Written
  <2>2. (shown' = {es[k].at} /\ k > 0) \/ (shown' = {state} /\ Finds(fresh) /\ k = queried)
    BY DEF Written
  <2>3. CASE shown' = {state} /\ Finds(fresh) /\ k = queried
    <3>1. fresh
      BY <2>3 DEF Finds
    <3> QED BY <2>1, <2>3, <3>1 DEF TurnEvents
  <2> QED BY <2>1, <2>2, <2>3
<1>3. PICK d3 : Tell(state, res.depth, SubSeq(es, 1, k), After(state, es, k), d3)
  BY <1>2, TellOfPart
<1>4. After(state, es, k) = es[k].at
  BY <1>2 DEF After
<1>5. Tell(init_state, 0, trace \o SubSeq(es, 1, k), es[k].at, d3)
  BY <1>1, <1>3, <1>4, TellJoined
<1> QED BY <1>2, <1>5

LEMMA CountsGoOn ==
  ASSUME CountsTold, CountInv, result # "MEM_LIMIT", NEW es \in Seq(TraceEvent), Told(es),
         trace \in Seq(TraceEvent), trace' = trace \o es
  PROVE  CountsTold'
<1> DEFINE t == trace \o es
<1>1. \A E : Count(t, E) = Count(trace, E) + Count(es, E)
  BY CountJoined
<1>2. Depths(t) = Depths(trace) \union Depths(es)
  BY DepthsJoined
<1>3. trace' = t
  OBVIOUS
<1>4. Len(trace) \in Nat /\ Len(es) \in Nat
  OBVIOUS
<1>5. \A E : Count(trace, E) \in Nat /\ Count(es, E) \in Nat
  BY <1>4, CountIsNat
<1> HIDE DEF t
<1>6. /\ Count(t, Of("UNDO")) = Count(trace, Of("UNDO")) + Count(es, Of("UNDO"))
      /\ Count(t, Forcing) = Count(trace, Forcing) + Count(es, Forcing)
      /\ Count(t, Of("MISS")) = Count(trace, Of("MISS")) + Count(es, Of("MISS"))
      /\ Count(t, Of("HIT")) = Count(trace, Of("HIT")) + Count(es, Of("HIT"))
      /\ Count(t, Of("EVICT")) = Count(trace, Of("EVICT")) + Count(es, Of("EVICT"))
  BY <1>1
<1>7. /\ Count(trace, Forcing) \in Nat /\ Count(es, Forcing) \in Nat
      /\ Count(trace, Of("MISS")) \in Nat /\ Count(es, Of("MISS")) \in Nat
      /\ Count(trace, Of("HIT")) \in Nat /\ Count(es, Of("HIT")) \in Nat
  BY <1>5
<1>8. res'.backtracks = Count(t, Of("UNDO")) /\ res'.dominance_moves = Count(t, Forcing)
  BY <1>6 DEF CountsTold, Told
<1>9. res'.unique_states_searched = Count(t, Of("MISS")) + Count(t, Forcing)
  <2>1. res'.unique_states_searched =
          (Count(trace, Of("MISS")) + Count(trace, Forcing))
            + (Count(es, Of("MISS")) + Count(es, Forcing))
    BY DEF CountsTold, Told
  <2> QED BY <1>6, <1>7, <2>1
<1>10. res'.states_searched = Count(t, Of("MISS")) + Count(t, Of("HIT")) + Count(t, Forcing)
  <2>1. res'.states_searched =
          (Count(trace, Of("MISS")) + Count(trace, Of("HIT")) + Count(trace, Forcing))
            + (Count(es, Of("MISS")) + Count(es, Of("HIT")) + Count(es, Forcing))
    BY DEF CountsTold, Told
  <2> QED BY <1>6, <1>7, <2>1
<1>11. Deeper(t, 0, res'.max_depth)
  <2>1. Deeper(trace, 0, res.max_depth) /\ Deeper(es, res.max_depth, res'.max_depth)
    BY DEF CountsTold, Told
  <2>2. /\ Depths(trace) \subseteq Int /\ res.max_depth \in Int /\ 0 <= res.max_depth
        /\ res.max_depth \in Depths(trace) \union {0}
        /\ \A d \in Depths(trace) : d <= res.max_depth
        /\ Depths(es) \subseteq Int /\ res'.max_depth \in Int
        /\ res.max_depth <= res'.max_depth
        /\ res'.max_depth \in Depths(es) \union {res.max_depth}
        /\ \A d \in Depths(es) : d <= res'.max_depth
    BY <2>1 DEF Deeper
  <2>3. 0 <= res'.max_depth /\ \A d \in Depths(trace) : d <= res'.max_depth
    BY <2>2
  <2> QED BY <1>2, <2>2, <2>3 DEF Deeper
<1>12. result' # "MEM_LIMIT" => StatesRemoved(cache') = Count(t, Of("EVICT"))
  BY <1>6 DEF CountsTold, Told
<1>13. StatesRemoved(cache)' = StatesRemoved(cache')
  BY DEF StatesRemoved
<1> QED BY <1>3, <1>8, <1>9, <1>10, <1>11, <1>12, <1>13 DEF CountsTold

LEMMA WrittenTells ==
  ASSUME TellInv, CountInv, trace \in Seq(TraceEvent), result # "MEM_LIMIT",
         halted = "no", UNCHANGED <<request, init_state>>,
         NEW es, NEW queried, NEW fresh, TurnEvents(es, queried, fresh), Told(es),
         NEW k, Written(es, queried, fresh, k)
  PROVE  TellInv'
<1>1. CASE ~ request.enabled
  BY <1>1 DEF TellInv
<1>2. CASE request.enabled /\ halted' # "no"
  <2>1. Tell(state, res.depth, es, state', res'.depth)
    BY DEF Told
  <2>2. \E s, d : Tell(init_state', 0, trace', s, d) /\ shown' = {s}
    BY <1>2, <2>1, HaltedTells
  <2> QED BY <1>2, <2>2 DEF TellInv
<1>3. CASE request.enabled /\ halted' = "no"
  <2>1. k = Len(es) /\ trace' = trace \o SubSeq(es, 1, k)
    BY <1>3 DEF Written
  <2>2. es \in Seq(TraceEvent)
    BY DEF TurnEvents
  <2>3. trace' = trace \o es
    BY <2>1, <2>2, SubSeqFull
  <2>4. Tell(init_state, 0, trace, state, res.depth) /\ CountsTold
    BY <1>3 DEF TellInv
  <2>5. Tell(state, res.depth, es, state', res'.depth)
    BY DEF Told
  <2>6. Tell(init_state, 0, trace \o es, state', res'.depth)
    BY <2>4, <2>5, TellJoined
  <2>7. CountsTold'
    BY <2>2, <2>3, <2>4, CountsGoOn
  <2> QED BY <1>3, <2>3, <2>6, <2>7 DEF TellInv
<1> QED BY <1>1, <1>2, <1>3

LEMMA NextTells ==
  ASSUME GameIsSound, MovesAreMarked, PathInv, CountInv, UniqueInv,
         Policy = "LRU" /\ result = "NONE" => CacheInv,
         HaltInv, TellInv, [TracedNext]_traced_vars
  PROVE  TellInv'
<1>1. trace \in Seq(TraceEvent)
  BY DEF HaltInv
<1>2. ASSUME NEW es, NEW queried, NEW fresh, Emitted(es, queried, fresh), Told(es),
             result = "NONE", UNCHANGED init_state
      PROVE  TellInv'
  <2>1. /\ halted = "no" /\ UNCHANGED <<request, init_state>>
        /\ TurnEvents(es, queried, fresh) /\ Emits(es, queried, fresh)
    BY <1>2 DEF Emitted
  <2>2. PICK k : Written(es, queried, fresh, k)
    BY <2>1, EmitsWrites
  <2> QED BY <1>1, <1>2, <2>1, <2>2, WrittenTells
<1>3. ASSUME result = "NONE"
      PROVE  /\ Policy = "LRU" => CacheInv
             /\ ~ Inserted.new => ~ Inserted.full
  <2>1. CASE Policy = "LRU"
    BY <1>3, <2>1, LRUInsertion
  <2>2. CASE Policy # "LRU"
    BY <2>2, OnlyLRUIsFull
  <2> QED BY <2>1, <2>2
<1>4. CASE TracedDominate
  <2>1. Dominate /\ result = "NONE" /\ UNCHANGED init_state
    BY <1>4 DEF TracedDominate, Dominate, Turn, InBudget, Running
  <2> DEFINE m == DominanceMove(state)
             es == Down(m, Apply(state, m), res.depth + 1)
  <2>2. Emitted(es, 0, FALSE)
    BY <1>4, DominateEmits
  <2>3. Told(es)
    BY <1>3, <2>1, DominateTold
  <2> HIDE DEF es
  <2> QED BY <1>2, <2>1, <2>2, <2>3
<1>5. CASE TracedExpand
  <2>1. Expand /\ result = "NONE" /\ UNCHANGED init_state
    BY <1>5 DEF TracedExpand, Expand, Turn, InBudget, Running
  <2> DEFINE m == Last(Moves)
             es == Asked \o Missed \o Down(m, Apply(state, m), res.depth + 1)
  <2>2. Emitted(es, Len(Asked), TRUE)
    BY <1>5, ExpandEmits
  <2>3. Told(es)
    BY <1>3, <2>1, ExpandTold
  <2> HIDE DEF es
  <2> QED BY <1>2, <2>1, <2>2, <2>3
<1>6. CASE TracedDeadEnd
  <2>1. DeadEnd /\ result = "NONE" /\ UNCHANGED init_state
    BY <1>6 DEF TracedDeadEnd, DeadEnd, Turn, InBudget, Running
  <2>2. Told(Asked \o Missed \o Back)
    BY <1>3, <2>1, DeadEndTold
  <2> QED BY <1>2, <1>6, <2>1, <2>2, DeadEndEmits
<1>7. CASE TracedDuplicate
  <2>1. Duplicate /\ result = "NONE" /\ UNCHANGED init_state /\ ~ Inserted.new
    BY <1>7 DEF TracedDuplicate, Duplicate, Turn, InBudget, Running
  <2>2. Told(Asked \o <<Plain("HIT", state)>> \o Back)
    BY <1>3, <2>1, DuplicateTold
  <2> QED BY <1>2, <1>7, <2>1, <2>2, DuplicateEmits
<1>8. CASE TracedMemLimit \/ TracedEnd
  <2>1. PICK is \in {"QUERY", "TIMEOUT", "TERMINATED", "SOLVED"} :
          Unhalted /\ Emits(<<Plain(is, state)>>, 0, FALSE)
    BY <1>8 DEF TracedMemLimit, TracedEnd
  <2>2. MemLimit \/ TimeOut \/ Terminate \/ Solve
    BY <1>8 DEF TracedMemLimit, TracedEnd
  <2>3. /\ UNCHANGED <<init_state, state, res>> /\ result = "NONE"
        /\ result' # "MEM_LIMIT" => UNCHANGED cache
    BY <2>2 DEF MemLimit, TimeOut, Terminate, Solve, Turn, InBudget, Running, search
  <2>4. Told(<<Plain(is, state)>>)
    BY <1>3, <2>3, EndTold
  <2>5. Emitted(<<Plain(is, state)>>, 0, FALSE)
    BY <2>1, EndEmits
  <2> QED BY <1>2, <2>3, <2>4, <2>5
<1>9. CASE TracedEnvironment \/ UNCHANGED traced_vars
  <2>1. /\ UNCHANGED <<request, trace, halted, shown, init_state, state, res, cache, result>>
    BY <1>9 DEF TracedEnvironment, Clock, Signal, search, traced_vars, vars, tracing
  <2>2. CountsTold' = CountsTold
    BY <2>1 DEF CountsTold, StatesRemoved
  <2> QED BY <2>1, <2>2 DEF TellInv
<1> QED BY <1>4, <1>5, <1>6, <1>7, <1>8, <1>9 DEF TracedNext, TracedDfs

LEMMA InitTells ==
  ASSUME TracedInit
  PROVE  TellInv
<1>1. /\ trace = <<>> /\ halted = "no" /\ state = init_state /\ res = Count0
      /\ cache = EmptyCache(MaxEntries)
  BY DEF TracedInit, Init
<1>2. /\ res.depth = 0 /\ res.max_depth = 0 /\ res.backtracks = 0 /\ res.dominance_moves = 0
      /\ res.unique_states_searched = 0 /\ res.states_searched = 0
  BY <1>1 DEF Count0
<1>3. Tell(init_state, 0, trace, state, res.depth)
  BY <1>1, <1>2, TellOfNone
<1>4. \A E : Count(trace, E) = 0
  BY <1>1, CountOfNone
<1>5. Deeper(trace, 0, res.max_depth)
  <2>1. Len(trace) = 0 /\ 1..0 = {}
    BY <1>1
  <2>2. Depths(trace) = {}
    BY <2>1 DEF Depths
  <2> QED BY <1>2, <2>2 DEF Deeper
<1>6. StatesRemoved(cache) = 0
  <2>1. CASE Policy = "LRU"
    BY <1>1, <2>1 DEF EmptyCache, EmptyLRU, StatesRemoved
  <2>2. CASE Policy = "BITMAP"
    BY <2>2 DEF StatesRemoved
  <2>3. CASE Policy # "LRU" /\ Policy # "BITMAP"
    BY <1>1, <2>3 DEF EmptyCache, StatesRemoved
  <2> QED BY <2>1, <2>2, <2>3
<1>7. CountsTold
  <2>1. 0 = 0 + 0 /\ 0 = 0 + 0 + 0
    OBVIOUS
  <2> QED BY <1>2, <1>4, <1>5, <1>6, <2>1 DEF CountsTold
<1> QED BY <1>1, <1>3, <1>7 DEF TellInv

LEMMA TellFollows ==
  ASSUME TellInv, CountInv, trace \in Seq(TraceEvent), request.enabled \in BOOLEAN
  PROVE  TraceTellsTheSearch
<1>1. TraceIsReplayed
  <2>1. SUFFICES ASSUME request.enabled
                 PROVE  /\ Replay.right
                        /\ halted = "no" => Replay.state = state /\ Replay.depth = res.depth
                        /\ halted # "no" => shown = {Replay.state}
    BY DEF TraceIsReplayed
  <2>2. CASE halted = "no"
    <3>1. Replay = At(state, res.depth)
      BY <2>1, <2>2, ReplayIs DEF TellInv
    <3> QED BY <2>2, <3>1 DEF At
  <2>3. CASE halted # "no"
    <3>1. PICK s, d : Tell(init_state, 0, trace, s, d) /\ shown = {s}
      BY <2>1, <2>3 DEF TellInv
    <3>2. Replay = At(s, d)
      BY <3>1, ReplayIs
    <3> QED BY <2>3, <3>1, <3>2 DEF At
  <2> QED BY <2>2, <2>3
<1>2. ASSUME request.enabled, halted = "no"
      PROVE  /\ res.backtracks = Events("UNDO") /\ res.dominance_moves = Forced
             /\ res.unique_states_searched = Events("MISS") + Forced
             /\ res.states_searched = Events("MISS") + Events("HIT") + Forced
             /\ res.max_depth =
                  Max({0} \union {trace[k].n : k \in {j \in DOMAIN trace : trace[j].is = "DEPTH"}})
             /\ result # "MEM_LIMIT" => StatesRemoved(cache) = Events("EVICT")
  <2>1. CountsTold
    BY <1>2 DEF TellInv
  <2>2. DOMAIN trace = 1..Len(trace) /\ \A k \in 1..Len(trace) : trace[k] \in TraceEvent
    OBVIOUS
  <2>3. \A is : Events(is) = Count(trace, Of(is))
    <3>1. ASSUME NEW is PROVE Events(is) = Count(trace, Of(is))
      <4>1. {k \in DOMAIN trace : trace[k].is = is} = {k \in 1..Len(trace) : trace[k] \in Of(is)}
        BY <2>2 DEF Of
      <4> QED BY <4>1 DEF Events, Count
    <3> QED BY <3>1
  <2>4. Forced = Count(trace, Forcing)
    <3>1. {k \in DOMAIN trace : trace[k].is = "MOVE" /\ trace[k].mv.dominance_move}
            = {k \in 1..Len(trace) : trace[k] \in Forcing}
      BY <2>2 DEF Forcing
    <3> QED BY <3>1 DEF Forced, Count
  <2>5. res.max_depth = Max({0} \union Depths(trace))
    <3> DEFINE S == {0} \union Depths(trace)
    <3>1. Deeper(trace, 0, res.max_depth)
      BY <2>1 DEF CountsTold
    <3>2. S \subseteq Int /\ res.max_depth \in S /\ \A x \in S : x <= res.max_depth
      BY <3>1 DEF Deeper
    <3> HIDE DEF S
    <3>3. Max(S) = res.max_depth
      BY <3>2, MaxIs
    <3> QED BY <3>3 DEF S
  <2>6. Depths(trace) = {trace[k].n : k \in {j \in DOMAIN trace : trace[j].is = "DEPTH"}}
    BY <2>2 DEF Depths
  <2> QED BY <2>1, <2>3, <2>4, <2>5, <2>6 DEF CountsTold
<1>3. ResultIsOfTheTrace
  BY <1>2 DEF ResultIsOfTheTrace
<1> QED BY <1>1, <1>3 DEF TraceTellsTheSearch

(* Every state that the search had can be replayed from its trace, moves   *)
(* taken back included: the states and the depths that it tells of, the    *)
(* one that is shown where the program halts, and in the end the search's  *)
(* own; and the counters of the result are the counts of its events.       *)
THEOREM TraceTellsItsSearch ==
  ASSUME GameIsSound, MovesAreMarked, Policy = "BITMAP" => NumBits # 0
  PROVE  TracedSpec => []TraceTellsTheSearch
<1> DEFINE Good == /\ BooksInv /\ (Policy = "LRU" => LRUInv) /\ UniqueInv
                   /\ HaltInv /\ TellInv
<1>1. TracedInit => Good
  <2>1. TracedInit => Init
    BY DEF TracedInit
  <2> QED BY <2>1, InitBooks, InitLRU, InitUnique, InitHalts, InitTells
<1>2. Good /\ [TracedNext]_traced_vars => Good'
  <2>1. SUFFICES ASSUME Good, [TracedNext]_traced_vars PROVE Good'
    OBVIOUS
  <2>2. PathInv /\ CountInv
    BY <2>1 DEF BooksInv
  <2>3. Policy = "LRU" /\ result = "NONE" => CacheInv
    BY <2>1 DEF LRUInv
  <2>4. [Next]_vars
    BY <2>1, TracedIsNext
  <2>5. BooksInv'
    BY <2>1, <2>4, NextBooks
  <2>6. (Policy = "LRU" => LRUInv)'
    BY <2>1, <2>2, <2>4, NextLRU
  <2>7. UniqueInv'
    BY <2>1, <2>2, <2>3, <2>4, NextUnique
  <2>8. HaltInv'
    BY <2>1, <2>2, NextHalts
  <2>9. TellInv'
    BY <2>1, <2>2, <2>3, NextTells
  <2> QED BY <2>5, <2>6, <2>7, <2>8, <2>9
<1>3. Good => TraceTellsTheSearch
  <2>1. SUFFICES ASSUME Good PROVE TraceTellsTheSearch
    OBVIOUS
  <2>2. trace \in Seq(TraceEvent) /\ request.enabled \in BOOLEAN
    BY <2>1, RequestsAssumption DEF HaltInv
  <2> QED BY <2>1, <2>2, TellFollows DEF BooksInv
<1> HIDE DEF Good
<1> QED BY <1>1, <1>2, <1>3, PTL DEF TracedSpec

-----------------------------------------------------------------------------
(* The search that every cache makes as long as it forgets nothing, as a   *)
(* function of the deal: what it knows is its frontier, the keys it gave   *)
(* to the cache, and the lines that it wrote.                              *)

(* Lines, whatever is in them.                                             *)
IsSeq(l) == \E S : l \in Seq(S)

(* The lines a are the first of b.                                         *)
Begins(a, b) == Len(a) <= Len(b) /\ \A k \in 1..Len(a) : a[k] = b[k]

LEMMA SeqsJoined ==
  ASSUME NEW a, IsSeq(a), NEW b, IsSeq(b)
  PROVE  /\ IsSeq(a \o b) /\ Len(a) \in Nat /\ Len(b) \in Nat
         /\ Len(a \o b) = Len(a) + Len(b)
         /\ \A k \in 1..Len(a) : (a \o b)[k] = a[k]
         /\ \A k \in 1..Len(b) : (a \o b)[Len(a) + k] = b[k]
         /\ Begins(a, a \o b)
<1>1. PICK A : a \in Seq(A)
  BY DEF IsSeq
<1>2. PICK B : b \in Seq(B)
  BY DEF IsSeq
<1> DEFINE C == A \union B
<1>3. a \in Seq(C) /\ b \in Seq(C)
  BY <1>1, <1>2
<1> HIDE DEF C
<1>4. /\ a \o b \in Seq(C) /\ Len(a \o b) = Len(a) + Len(b)
      /\ \A k \in 1..(Len(a) + Len(b)) :
           (a \o b)[k] = IF k <= Len(a) THEN a[k] ELSE b[k - Len(a)]
  BY <1>3, ConcatProperties
<1>5. Len(a) \in Nat /\ Len(b) \in Nat
  BY <1>3
<1>6. \A k \in 1..Len(a) : (a \o b)[k] = a[k]
  BY <1>4, <1>5
<1>7. ASSUME NEW k \in 1..Len(b)
      PROVE  (a \o b)[Len(a) + k] = b[k]
  <2>1. /\ Len(a) + k \in 1..(Len(a) + Len(b)) /\ ~ (Len(a) + k <= Len(a))
        /\ Len(a) + k - Len(a) = k
    BY <1>5
  <2> QED BY <1>4, <2>1
<1>8. Begins(a, a \o b)
  BY <1>4, <1>5, <1>6 DEF Begins
<1>9. IsSeq(a \o b)
  BY <1>4 DEF IsSeq
<1> QED BY <1>4, <1>5, <1>6, <1>7, <1>8, <1>9

(* The lines c are those of a, and those of b after them.                  *)
Joins(a, b, c) ==
  /\ Len(c) = Len(a) + Len(b) /\ Len(b) \in Nat
  /\ \A k \in 1..Len(a) : c[k] = a[k]
  /\ \A k \in 1..Len(b) : c[Len(a) + k] = b[k]

LEMMA SeqsJoin ==
  ASSUME NEW a, IsSeq(a), NEW b, IsSeq(b)
  PROVE  Joins(a, b, a \o b)
  BY SeqsJoined DEF Joins

LEMMA ListedSeq ==
  ASSUME NEW n \in Nat, NEW f, f = [k \in 1..n |-> f[k]]
  PROVE  IsSeq(f) /\ Len(f) = n
<1> DEFINE S == {f[k] : k \in 1..n}
<1>1. f \in [1..n -> S]
  OBVIOUS
<1> HIDE DEF S
<1>2. f \in Seq(S) /\ Len(f) = n
  BY <1>1
<1> QED BY <1>2 DEF IsSeq

(* The lines of a trace.                                                   *)
Lines(t) == [k \in 1..Len(t) |-> Line(t[k])]

LEMMA LinesAre ==
  ASSUME NEW t, Len(t) \in Nat
  PROVE  /\ IsSeq(Lines(t)) /\ Len(Lines(t)) = Len(t)
         /\ \A k \in 1..Len(t) : Lines(t)[k] = Line(t[k])
<1>1. Lines(t) = [k \in 1..Len(t) |-> Lines(t)[k]]
  BY DEF Lines
<1>2. \A k \in 1..Len(t) : Lines(t)[k] = Line(t[k])
  BY DEF Lines
<1> QED BY <1>1, <1>2, ListedSeq

LEMMA LinesJoined ==
  ASSUME NEW a \in Seq(TraceEvent), NEW b \in Seq(TraceEvent)
  PROVE  Lines(a \o b) = Lines(a) \o Lines(b)
<1>1. /\ a \o b \in Seq(TraceEvent) /\ Len(a \o b) = Len(a) + Len(b)
      /\ \A k \in 1..(Len(a) + Len(b)) :
           (a \o b)[k] = IF k <= Len(a) THEN a[k] ELSE b[k - Len(a)]
  BY ConcatProperties
<1> DEFINE n == Len(a)
           m == Len(b)
           l == Lines(a)
           u == Lines(b)
           j == l \o u
<1>2. n \in Nat /\ m \in Nat /\ Len(a \o b) \in Nat
  BY <1>1
<1>3. /\ IsSeq(l) /\ Len(l) = n /\ \A k \in 1..n : l[k] = Line(a[k])
      /\ IsSeq(u) /\ Len(u) = m /\ \A k \in 1..m : u[k] = Line(b[k])
  BY <1>2, LinesAre
<1> HIDE DEF l, u
<1>4. /\ IsSeq(j) /\ Len(j) = n + m
      /\ \A k \in 1..n : j[k] = l[k]
      /\ \A k \in 1..m : j[n + k] = u[k]
  <2>1. /\ IsSeq(j) /\ Len(j) = Len(l) + Len(u)
        /\ \A k \in 1..Len(l) : j[k] = l[k]
        /\ \A k \in 1..Len(u) : j[Len(l) + k] = u[k]
    <3>1. IsSeq(l) /\ IsSeq(u)
      BY <1>3
    <3> QED BY ONLY <3>1, SeqsJoined
  <2> HIDE DEF j, n, m
  <2> QED BY <1>3, <2>1
<1>5. j = [k \in 1..(n + m) |-> j[k]]
  <2>1. PICK S : j \in Seq(S)
    BY <1>4 DEF IsSeq
  <2> HIDE DEF j
  <2> QED BY <1>4, <2>1
<1> HIDE DEF j
<1>6. ASSUME NEW k \in 1..(n + m)
      PROVE  j[k] = Line((a \o b)[k])
  <2>1. CASE k <= n
    BY <1>1, <1>2, <1>3, <1>4, <2>1
  <2>2. CASE ~ (k <= n)
    <3>1. k - n \in 1..m /\ n + (k - n) = k
      BY <1>2, <2>2
    <3>2. (a \o b)[k] = b[k - n]
      BY <1>1, <2>2
    <3>3. j[k] = u[k - n]
      BY <1>4, <3>1
    <3> QED BY <1>3, <3>1, <3>2, <3>3
  <2> QED BY <2>1, <2>2
<1>7. Lines(a \o b) = [k \in 1..(n + m) |-> Line((a \o b)[k])]
  BY <1>1 DEF Lines
<1> HIDE DEF n, m
<1>8. j = Lines(a \o b)
  BY <1>5, <1>6, <1>7
<1> QED BY <1>8 DEF j, l, u

-----------------------------------------------------------------------------
(* Frontiers without their iterators.                                      *)
Bare(f) == [i \in 1..Len(f) |-> [f[i] EXCEPT !.cache_state = {}]]

WithMoves(f, moves) == [f EXCEPT ![Len(f)].child_moves = moves]

OpenIn(f) == {i \in 1..(Len(f) - 1) : f[i].child_moves # <<>>}

TargetIn(f) ==
  IF OpenIn(f) = {} THEN 1
  ELSE CHOOSE i \in OpenIn(f) : \A j \in OpenIn(f) : j <= i

LEMMA BareNodes ==
  ASSUME NEW f \in Seq(Node)
  PROVE  /\ Bare(f) \in Seq(Node) /\ Len(Bare(f)) = Len(f)
         /\ \A i \in 1..Len(f) : /\ Bare(f)[i].mv = f[i].mv
                                 /\ Bare(f)[i].child_moves = f[i].child_moves
                                 /\ Bare(f)[i].cache_state = {}
         /\ OpenIn(Bare(f)) = OpenIn(f) /\ TargetIn(Bare(f)) = TargetIn(f)
<1> DEFINE n == Len(f)
           b == Bare(f)
<1>1. n \in Nat /\ \A i \in 1..n : f[i] \in Node
  OBVIOUS
<1>2. b = [i \in 1..n |-> [f[i] EXCEPT !.cache_state = {}]]
  BY DEF Bare
<1>3. ASSUME NEW i \in 1..n
      PROVE  /\ b[i] \in Node /\ b[i].mv = f[i].mv /\ b[i].child_moves = f[i].child_moves
             /\ b[i].cache_state = {}
  <2> DEFINE g == f[i]
  <2>1. g \in [mv : Move, child_moves : Seq(Move), cache_state : SUBSET {Key(s) : s \in State}]
    BY <1>1 DEF Node
  <2>2. b[i] = [g EXCEPT !.cache_state = {}]
    BY <1>2
  <2> HIDE DEF g, b
  <2>3. /\ b[i].mv = g.mv /\ b[i].child_moves = g.child_moves /\ b[i].cache_state = {}
        /\ b[i] \in [mv : Move, child_moves : Seq(Move), cache_state : SUBSET {Key(s) : s \in State}]
    BY <2>1, <2>2
  <2> QED BY <2>3 DEF g, Node
<1> HIDE DEF b
<1>4. b \in [1..n -> Node]
  BY <1>2, <1>3
<1>5. b \in Seq(Node) /\ Len(b) = n
  BY <1>1, <1>4
<1>6. \A i \in 1..(n - 1) : b[i].child_moves = f[i].child_moves
  BY <1>1, <1>3
<1>7. OpenIn(b) = OpenIn(f)
  BY <1>5, <1>6 DEF OpenIn
<1>8. TargetIn(b) = TargetIn(f)
  BY <1>7 DEF TargetIn
<1> QED BY <1>3, <1>5, <1>7, <1>8 DEF b

(* A frontier of bare nodes is the bare one of the same moves.             *)
LEMMA IsBare ==
  ASSUME NEW f \in Seq(Node), NEW g \in Seq(Node), Len(f) = Len(g),
         \A i \in 1..Len(f) : f[i].mv = g[i].mv /\ f[i].child_moves = g[i].child_moves,
         \A i \in 1..Len(f) : g[i].cache_state = {}
  PROVE  Bare(f) = g
<1>1. Bare(f) = [i \in 1..Len(f) |-> Bare(f)[i]]
  BY DEF Bare
<1>2. g = [i \in 1..Len(f) |-> g[i]]
  OBVIOUS
<1>3. ASSUME NEW i \in 1..Len(f)
      PROVE  Bare(f)[i] = g[i]
  <2>1. g[i] \in Node /\ Bare(f)[i] \in Node
    <3>1. Bare(f) \in Seq(Node) /\ Len(Bare(f)) = Len(f)
      BY BareNodes
    <3> QED BY <3>1
  <2>2. g[i] = [mv |-> g[i].mv, child_moves |-> g[i].child_moves, cache_state |-> g[i].cache_state]
    BY <2>1 DEF Node
  <2>3. Bare(f)[i] = [mv |-> Bare(f)[i].mv, child_moves |-> Bare(f)[i].child_moves,
                      cache_state |-> Bare(f)[i].cache_state]
    BY <2>1 DEF Node
  <2>4. /\ Bare(f)[i].mv = f[i].mv /\ Bare(f)[i].child_moves = f[i].child_moves
        /\ Bare(f)[i].cache_state = {}
    BY BareNodes
  <2> QED BY <2>2, <2>3, <2>4
<1> QED BY <1>1, <1>2, <1>3

(* What is the same of two nodes at each place is the same of two bare     *)
(* frontiers.                                                              *)
LEMMA SameBare ==
  ASSUME NEW f \in Seq(Node), NEW g \in Seq(Node), Len(f) = Len(g),
         \A i \in 1..Len(f) : f[i].mv = g[i].mv /\ f[i].child_moves = g[i].child_moves
  PROVE  Bare(f) = Bare(g)
<1> DEFINE b == Bare(g)
<1>1. /\ b \in Seq(Node) /\ Len(b) = Len(f)
      /\ \A i \in 1..Len(f) : /\ f[i].mv = b[i].mv /\ f[i].child_moves = b[i].child_moves
                              /\ b[i].cache_state = {}
  BY BareNodes
<1> HIDE DEF b
<1>2. Bare(f) = b
  BY <1>1, IsBare
<1> QED BY <1>2 DEF b

LEMMA WithMovesNodes ==
  ASSUME NEW f \in Seq(Node), Len(f) > 0, NEW moves \in Seq(Move)
  PROVE  /\ WithMoves(f, moves) \in Seq(Node) /\ Len(WithMoves(f, moves)) = Len(f)
         /\ \A i \in 1..(Len(f) - 1) : WithMoves(f, moves)[i] = f[i]
         /\ WithMoves(f, moves)[Len(f)].child_moves = moves
         /\ WithMoves(f, moves)[Len(f)].mv = f[Len(f)].mv
         /\ WithMoves(f, moves)[Len(f)].cache_state = f[Len(f)].cache_state
<1> DEFINE n == Len(f)
           g == WithMoves(f, moves)
<1>1. n \in Nat /\ n \in 1..n /\ \A i \in 1..n : f[i] \in Node
  OBVIOUS
<1>2. g = [f EXCEPT ![n].child_moves = moves]
  BY DEF WithMoves
<1> HIDE DEF g
<1>3. DOMAIN f = 1..n
  OBVIOUS
<1>4. /\ g[n].child_moves = moves /\ g[n].mv = f[n].mv /\ g[n].cache_state = f[n].cache_state
      /\ g[n] \in Node
      /\ \A i \in 1..n : i # n => g[i] = f[i]
      /\ DOMAIN g = 1..n
  <2> DEFINE e == f[n]
  <2>1. e \in [mv : Move, child_moves : Seq(Move), cache_state : SUBSET {Key(s) : s \in State}]
    BY <1>1 DEF Node
  <2>2. /\ g[n] = [e EXCEPT !.child_moves = moves] /\ DOMAIN g = 1..n
        /\ \A i \in 1..n : i # n => g[i] = f[i]
    BY <1>1, <1>2, <1>3
  <2> HIDE DEF e
  <2>3. /\ g[n].child_moves = moves /\ g[n].mv = e.mv /\ g[n].cache_state = e.cache_state
        /\ g[n] \in [mv : Move, child_moves : Seq(Move), cache_state : SUBSET {Key(s) : s \in State}]
    BY <2>1, <2>2
  <2> QED BY <2>2, <2>3 DEF e, Node
<1>5. g \in [1..n -> Node]
  <2>1. g = [i \in 1..n |-> g[i]]
    BY <1>2, <1>3
  <2> QED BY <1>1, <1>4, <2>1
<1>6. g \in Seq(Node) /\ Len(g) = n
  BY <1>1, <1>5
<1>7. \A i \in 1..(n - 1) : g[i] = f[i]
  BY <1>1, <1>4
<1> QED BY <1>4, <1>6, <1>7 DEF g

LEMMA BareWithMoves ==
  ASSUME NEW f \in Seq(Node), Len(f) > 0, NEW moves \in Seq(Move)
  PROVE  Bare(WithMoves(f, moves)) = WithMoves(Bare(f), moves)
<1> DEFINE n == Len(f)
           g == WithMoves(f, moves)
           b == Bare(f)
           w == WithMoves(b, moves)
<1>1. /\ b \in Seq(Node) /\ Len(b) = n
      /\ \A i \in 1..n : /\ b[i].mv = f[i].mv /\ b[i].child_moves = f[i].child_moves
                         /\ b[i].cache_state = {}
  BY BareNodes
<1> HIDE DEF b
<1>2. n \in Nat /\ n \in 1..n /\ \A i \in 1..n : f[i] \in Node
  OBVIOUS
<1>3. /\ g \in Seq(Node) /\ Len(g) = n
      /\ \A i \in 1..(n - 1) : g[i] = f[i]
      /\ g[n].mv = f[n].mv /\ g[n].child_moves = moves
  BY WithMovesNodes
<1>4. /\ w \in Seq(Node) /\ Len(w) = n
      /\ \A i \in 1..(n - 1) : w[i] = b[i]
      /\ w[n].mv = b[n].mv /\ w[n].child_moves = moves /\ w[n].cache_state = b[n].cache_state
  BY <1>1, WithMovesNodes
<1> HIDE DEF g, w
<1>5. ASSUME NEW i \in 1..n
      PROVE  g[i].mv = w[i].mv /\ g[i].child_moves = w[i].child_moves /\ w[i].cache_state = {}
  <2>1. CASE i = n
    <3>1. w[n].mv = f[n].mv /\ w[n].child_moves = moves /\ w[n].cache_state = {}
      BY <1>1, <1>2, <1>4
    <3> QED BY <1>3, <2>1, <3>1
  <2>2. CASE i # n
    <3>1. i \in 1..(n - 1)
      BY <1>2, <2>2
    <3> QED BY <1>1, <1>3, <1>4, <3>1
  <2> QED BY <2>1, <2>2
<1>6. Bare(g) = w
  BY <1>3, <1>4, <1>5, IsBare
<1> QED BY <1>6 DEF g, w, b

LEMMA BareBelow ==
  ASSUME NEW f \in Seq(Node), Len(f) > 0, f[Len(f)].child_moves # <<>>
  PROVE  Bare(Below(f)) = Below(Bare(f)) /\ LastChild(Bare(f)) = LastChild(f)
<1> DEFINE n == Len(f)
           g == Below(f)
           b == Bare(f)
           w == Below(b)
<1>1. /\ b \in Seq(Node) /\ Len(b) = n
      /\ \A i \in 1..n : /\ b[i].mv = f[i].mv /\ b[i].child_moves = f[i].child_moves
                         /\ b[i].cache_state = {}
  BY BareNodes
<1> HIDE DEF b
<1>2. n \in Nat /\ n \in 1..n /\ \A i \in 1..n : f[i] \in Node
  OBVIOUS
<1>3. b[n].child_moves = f[n].child_moves
  BY <1>1, <1>2
<1>4. LastChild(b) = LastChild(f) /\ OtherChildren(b) = OtherChildren(f)
  BY <1>1, <1>3 DEF LastChild, OtherChildren
<1>5. /\ g \in Seq(Node) /\ Len(g) = n + 1
      /\ \A i \in 1..(n - 1) : g[i] = f[i]
      /\ g[n] = [f[n] EXCEPT !.child_moves = OtherChildren(f)]
      /\ g[n + 1] = NewNode(LastChild(f))
  BY BelowNodes
<1>6. /\ w \in Seq(Node) /\ Len(w) = n + 1
      /\ \A i \in 1..(n - 1) : w[i] = b[i]
      /\ w[n] = [b[n] EXCEPT !.child_moves = OtherChildren(f)]
      /\ w[n + 1] = NewNode(LastChild(f))
  BY <1>1, <1>3, <1>4, BelowNodes
<1> HIDE DEF g, w
<1>9. b[n] \in Node
  BY <1>1, <1>2
<1>10. OtherChildren(f) \in Seq(Move)
  BY ChildMoves
<1>7. ASSUME NEW i \in 1..(n + 1)
      PROVE  g[i].mv = w[i].mv /\ g[i].child_moves = w[i].child_moves /\ w[i].cache_state = {}
  <2>1. CASE i = n
    <3> DEFINE o == OtherChildren(f)
               e == f[n]
               a == b[n]
    <3>1. /\ e \in [mv : Move, child_moves : Seq(Move), cache_state : SUBSET {Key(s) : s \in State}]
          /\ a \in [mv : Move, child_moves : Seq(Move), cache_state : SUBSET {Key(s) : s \in State}]
          /\ a.mv = e.mv /\ a.cache_state = {}
      BY <1>1, <1>2, <1>9 DEF Node
    <3>2. g[n] = [e EXCEPT !.child_moves = o] /\ w[n] = [a EXCEPT !.child_moves = o]
      BY <1>5, <1>6
    <3> HIDE DEF e, o, a
    <3>3. /\ g[n].mv = e.mv /\ g[n].child_moves = o
          /\ w[n].mv = e.mv /\ w[n].child_moves = o /\ w[n].cache_state = {}
      BY <3>1, <3>2
    <3> QED BY <2>1, <3>3
  <2>2. CASE i = n + 1
    BY <1>5, <1>6, <2>2 DEF NewNode
  <2>3. CASE i # n /\ i # n + 1
    <3>1. i \in 1..(n - 1)
      BY <1>2, <2>3
    <3> QED BY <1>1, <1>5, <1>6, <3>1
  <2> QED BY <2>1, <2>2, <2>3
<1>8. Bare(g) = w
  BY <1>5, <1>6, <1>7, IsBare
<1> QED BY <1>4, <1>8 DEF g, w, b

LEMMA BarePart ==
  ASSUME NEW f \in Seq(Node), NEW k \in Nat, k <= Len(f)
  PROVE  Bare(SubSeq(f, 1, k)) = SubSeq(Bare(f), 1, k)
<1> DEFINE b == Bare(f)
           p == SubSeq(f, 1, k)
           q == SubSeq(b, 1, k)
<1>1. /\ b \in Seq(Node) /\ Len(b) = Len(f)
      /\ \A i \in 1..Len(f) : /\ b[i].mv = f[i].mv /\ b[i].child_moves = f[i].child_moves
                              /\ b[i].cache_state = {}
  BY BareNodes
<1> HIDE DEF b
<1>2. p \in Seq(Node) /\ Len(p) = k /\ \A i \in 1..k : p[i] = f[i]
  BY InitialPart
<1>3. q \in Seq(Node) /\ Len(q) = k /\ \A i \in 1..k : q[i] = b[i]
  BY <1>1, InitialPart
<1> HIDE DEF p, q
<1>4. \A i \in 1..k : i \in 1..Len(f)
  OBVIOUS
<1>6. \A i \in 1..Len(p) : /\ p[i].mv = q[i].mv /\ p[i].child_moves = q[i].child_moves
                           /\ q[i].cache_state = {}
  BY <1>1, <1>2, <1>3, <1>4
<1>5. Bare(p) = q
  BY <1>2, <1>3, <1>6, IsBare
<1> QED BY <1>5 DEF p, q, b

(* A frontier and its bare one lead through the same states.               *)
LEMMA BarePath ==
  ASSUME NEW d, NEW f \in Seq(Node), Len(f) > 0
  PROVE  PathOf(d, Bare(f))[Len(f)] = PathOf(d, f)[Len(f)]
<1> DEFINE b == Bare(f)
           n == Len(f)
<1>1. /\ b \in Seq(Node) /\ Len(b) = n
      /\ \A i \in 1..n : b[i].mv = f[i].mv
  BY BareNodes
<1> HIDE DEF b
<1>2. n \in Nat /\ n > 0 /\ Len(b) \in Nat /\ Len(b) > 0 /\ n <= Len(b) /\ n \in 1..n
  BY <1>1
<1>3. \A i \in 1..(n - 1) : b[i + 1].mv = f[i + 1].mv
  BY <1>1, <1>2
<1>4. \A i \in 1..n : PathOf(d, b)[i] = PathOf(d, f)[i]
  BY <1>1, <1>2, <1>3, SamePath
<1> QED BY <1>2, <1>4 DEF b

-----------------------------------------------------------------------------
(* What the search says in a turn, in lines, and where it goes.  It is at  *)
(* the end of its frontier f, from the deal d, and has given the keys      *)
(* given to its cache.                                                     *)
Note(is) == <<is, NullMove, 0>>

DownLines(m, d) == <<<<"MOVE", m, 0>>, <<"DEPTH", NullMove, d>>>>

UpLines(f) ==
  [k \in 1..(2 * (Len(f) - TargetIn(f))) |->
     IF k % 2 = 1 THEN <<"UNDO", f[Len(f) - (k + 1) \div 2 + 1].mv, 0>>
     ELSE <<"DEPTH", NullMove, Len(f) - 1 - (k + 1) \div 2>>]

ToTarget(f) == SubSeq(f, 1, TargetIn(f))

BackLines(f) ==
  UpLines(f) \o (IF OpenIn(f) = {} THEN <<Note("UNSOLV")>>
                 ELSE DownLines(LastChild(ToTarget(f)), TargetIn(f)))

Reached(d, f) == PathOf(d, f)[Len(f)]
Offered(d, f) == LegalMoves(Reached(d, f), f[Len(f)].mv)

MissLines(moves) == <<Note("MISS"), Note("INSERT"), <<"LEGAL", NullMove, Len(moves)>>>>

HitLines(f) == <<Note("QUERY")>> \o <<Note("HIT")>> \o BackLines(f)
StuckLines(f) == <<Note("QUERY")>> \o MissLines(<<>>) \o BackLines(f)
FreshLines(f, moves) ==
  <<Note("QUERY")>> \o MissLines(moves) \o DownLines(moves[Len(moves)], Len(f))

Said(d, f, given) ==
  LET s == Reached(d, f)
  IN IF Solved(s) THEN <<Note("SOLVED")>>
     ELSE IF DominanceMove(s) # NoMove THEN DownLines(DominanceMove(s), Len(f))
     ELSE IF Key(s) \in given THEN HitLines(f)
     ELSE IF Offered(d, f) = <<>> THEN StuckLines(f)
     ELSE FreshLines(f, Offered(d, f))

BackTo(f) == IF OpenIn(f) = {} THEN ToTarget(f) ELSE Below(ToTarget(f))

Goes(d, f, given) ==
  LET s == Reached(d, f)
  IN IF Solved(s) THEN f
     ELSE IF DominanceMove(s) # NoMove THEN Below(WithMoves(f, <<DominanceMove(s)>>))
     ELSE IF Key(s) \in given \/ Offered(d, f) = <<>> THEN BackTo(f)
     ELSE Below(WithMoves(f, Offered(d, f)))

Gives(d, f, given) ==
  LET s == Reached(d, f)
  IN IF Solved(s) \/ DominanceMove(s) # NoMove THEN given ELSE given \union {Key(s)}

(* The turn from c = [frontier, given, lines] of a deal d.                 *)
NextOf(d, c) ==
  [frontier |-> Goes(d, c.frontier, c.given), given |-> Gives(d, c.frontier, c.given),
   lines |-> c.lines \o Said(d, c.frontier, c.given)]

LEMMA TupleSeqs ==
  /\ \A a : IsSeq(<<a>>) /\ Len(<<a>>) = 1
  /\ \A a, b : IsSeq(<<a, b>>) /\ Len(<<a, b>>) = 2
  /\ \A a, b, c : IsSeq(<<a, b, c>>) /\ Len(<<a, b, c>>) = 3
<1>1. ASSUME NEW a PROVE <<a>> \in Seq({a}) /\ Len(<<a>>) = 1
  OBVIOUS
<1>2. ASSUME NEW a, NEW b PROVE <<a, b>> \in Seq({a, b}) /\ Len(<<a, b>>) = 2
  OBVIOUS
<1>3. ASSUME NEW a, NEW b, NEW c PROVE <<a, b, c>> \in Seq({a, b, c}) /\ Len(<<a, b, c>>) = 3
  OBVIOUS
<1> QED BY <1>1, <1>2, <1>3 DEF IsSeq

LEMMA BackLinesSeq ==
  ASSUME NEW f, Len(f) \in Nat, TargetIn(f) \in 1..Len(f)
  PROVE  IsSeq(BackLines(f))
<1> DEFINE n == 2 * (Len(f) - TargetIn(f))
           b == IF OpenIn(f) = {} THEN <<Note("UNSOLV")>>
                ELSE DownLines(LastChild(ToTarget(f)), TargetIn(f))
<1>1. n \in Nat
  OBVIOUS
<1>2. UpLines(f) = [k \in 1..n |-> UpLines(f)[k]]
  BY DEF UpLines
<1> HIDE DEF n
<1>3. IsSeq(UpLines(f))
  BY <1>1, <1>2, ListedSeq
<1>4. IsSeq(b)
  <2>1. IsSeq(<<Note("UNSOLV")>>)
    BY TupleSeqs
  <2>2. IsSeq(DownLines(LastChild(ToTarget(f)), TargetIn(f)))
    BY TupleSeqs DEF DownLines
  <2> QED BY <2>1, <2>2
<1>5. BackLines(f) = UpLines(f) \o b
  BY DEF BackLines
<1> HIDE DEF b
<1> QED BY <1>3, <1>4, <1>5, SeqsJoined

(* What is said is a sequence, and a query is where it starts.             *)
LEMMA SaidIsSeq ==
  ASSUME NEW d, NEW f, Len(f) \in Nat, TargetIn(f) \in 1..Len(f), NEW given
  PROVE  /\ IsSeq(Said(d, f, given))
         /\ ~ Solved(Reached(d, f)) /\ DominanceMove(Reached(d, f)) = NoMove =>
              Len(Said(d, f, given)) >= 1 /\ Said(d, f, given)[1] = Note("QUERY")
<1> DEFINE q == <<Note("QUERY")>>
<1>1. IsSeq(q) /\ Len(q) = 1 /\ q[1] = Note("QUERY")
  BY TupleSeqs
<1>2. IsSeq(BackLines(f))
  BY BackLinesSeq
<1> HIDE DEF q
<1>3. ASSUME NEW a, IsSeq(a), NEW b, IsSeq(b)
      PROVE  IsSeq(q \o a \o b) /\ Len(q \o a \o b) >= 1 /\ (q \o a \o b)[1] = Note("QUERY")
  <2> DEFINE u == q \o a
  <2>0. IsSeq(q) /\ IsSeq(a)
    BY <1>1, <1>3
  <2>4. IsSeq(u) /\ Len(a) \in Nat /\ Len(u) = Len(q) + Len(a) /\ \A k \in 1..Len(q) : u[k] = q[k]
    BY ONLY <2>0, SeqsJoined
  <2>1. IsSeq(u) /\ Len(a) \in Nat /\ Len(u) = 1 + Len(a) /\ u[1] = q[1]
    BY <1>1, <2>4
  <2> HIDE DEF u
  <2>2. /\ IsSeq(u \o b) /\ Len(b) \in Nat /\ Len(u \o b) = Len(u) + Len(b)
        /\ \A k \in 1..Len(u) : (u \o b)[k] = u[k]
    BY <1>3, <2>1, SeqsJoined
  <2>3. 1 \in 1..1 /\ 1 \in 1..Len(u) /\ Len(u) + Len(b) >= 1
    BY <2>1, <2>2
  <2> QED BY <1>1, <2>1, <2>2, <2>3 DEF u
<1>4. \A moves : IsSeq(MissLines(moves))
  BY TupleSeqs DEF MissLines
<1>5. \A m, e : IsSeq(DownLines(m, e))
  BY TupleSeqs DEF DownLines
<1>6. IsSeq(<<Note("SOLVED")>>) /\ IsSeq(<<Note("HIT")>>)
  BY TupleSeqs
<1>7. IsSeq(HitLines(f)) /\ Len(HitLines(f)) >= 1 /\ HitLines(f)[1] = Note("QUERY")
  BY <1>2, <1>3, <1>6 DEF HitLines, q
<1>8. IsSeq(StuckLines(f)) /\ Len(StuckLines(f)) >= 1 /\ StuckLines(f)[1] = Note("QUERY")
  BY <1>2, <1>3, <1>4 DEF StuckLines, q
<1>9. \A moves : IsSeq(FreshLines(f, moves)) /\ Len(FreshLines(f, moves)) >= 1
                 /\ FreshLines(f, moves)[1] = Note("QUERY")
  BY <1>3, <1>4, <1>5 DEF FreshLines, q
<1> QED BY <1>5, <1>6, <1>7, <1>8, <1>9 DEF Said

-----------------------------------------------------------------------------
(* The lines of the events of a turn.                                      *)
LEMMA EventLines ==
  ASSUME NullMove \in Move, NEW s \in State
  PROVE  /\ \A is \in Names : Plain(is, s) \in TraceEvent /\ Line(Plain(is, s)) = Note(is)
         /\ \A is \in Names, n \in Int :
              /\ Event(is, NullMove, n, s) \in TraceEvent
              /\ Line(Event(is, NullMove, n, s)) = <<is, NullMove, n>>
  BY DEF Plain, Event, TraceEvent, Line, Note

LEMMA DownIs ==
  ASSUME NullMove \in Move, NEW m \in Move, NEW to \in State, NEW d \in Int
  PROVE  /\ Down(m, to, d) \in Seq(TraceEvent)
         /\ Lines(Down(m, to, d)) = DownLines(m, d)
<1> DEFINE t == Down(m, to, d)
           u == DownLines(m, d)
<1>1. t \in Seq(TraceEvent)
  BY DownEvents
<1>2. /\ Len(t) = 2 /\ t[1] = Event("MOVE", m, 0, to) /\ t[2] = Event("DEPTH", NullMove, d, to)
  BY DEF Down
<1>3. Line(t[1]) = <<"MOVE", m, 0>> /\ Line(t[2]) = <<"DEPTH", NullMove, d>>
  BY <1>2 DEF Line, Event
<1>4. u = <<<<"MOVE", m, 0>>, <<"DEPTH", NullMove, d>>>>
  BY DEF DownLines
<1> HIDE DEF t, u
<1>5. u = [k \in 1..2 |-> Line(t[k])]
  BY <1>3, <1>4
<1>6. Lines(t) = [k \in 1..2 |-> Line(t[k])]
  BY <1>2 DEF Lines
<1> QED BY <1>1, <1>5, <1>6 DEF t, u

LEMMA OneIs ==
  ASSUME NullMove \in Move, NEW s \in State, NEW is \in Names
  PROVE  /\ <<Plain(is, s)>> \in Seq(TraceEvent)
         /\ Lines(<<Plain(is, s)>>) = <<Note(is)>>
<1> DEFINE e == Plain(is, s)
<1>1. e \in TraceEvent /\ Line(e) = Note(is)
  BY EventLines
<1> HIDE DEF e
<1>2. <<e>> \in Seq(TraceEvent) /\ Len(<<e>>) = 1 /\ <<e>>[1] = e
  BY <1>1
<1>3. Lines(<<e>>) = [k \in 1..1 |-> Line(<<e>>[k])]
  BY <1>2 DEF Lines
<1>4. Lines(<<e>>) = <<Line(e)>>
  BY <1>3
<1> QED BY <1>1, <1>2, <1>4 DEF e

LEMMA MissedIs ==
  ASSUME NullMove \in Move, state \in State, Moves \in Seq(Move)
  PROVE  Missed \in Seq(TraceEvent) /\ Lines(Missed) = MissLines(Moves)
<1> DEFINE a == Plain("MISS", state)
           b == Plain("INSERT", state)
           c == Event("LEGAL", NullMove, Len(Moves), state)
<1>1. Len(Moves) \in Int
  OBVIOUS
<1>2. /\ a \in TraceEvent /\ b \in TraceEvent /\ c \in TraceEvent
      /\ Line(a) = Note("MISS") /\ Line(b) = Note("INSERT")
      /\ Line(c) = <<"LEGAL", NullMove, Len(Moves)>>
  BY <1>1, EventLines DEF Names
<1>3. Missed = <<a, b, c>>
  BY DEF Missed
<1> HIDE DEF a, b, c
<1> DEFINE t == <<a, b, c>>
<1>4. t \in Seq(TraceEvent) /\ Len(t) = 3 /\ t[1] = a /\ t[2] = b /\ t[3] = c
  BY <1>2
<1> HIDE DEF t
<1>5. Lines(t) = [k \in 1..3 |-> Line(t[k])]
  BY <1>4 DEF Lines
<1>6. Lines(t) = <<Line(a), Line(b), Line(c)>>
  BY <1>4, <1>5
<1> QED BY <1>2, <1>3, <1>4, <1>6 DEF t, MissLines

LEMMA OpenIsOpen ==
  OpenIn(frontier) = OpenNodes /\ TargetIn(frontier) = Target
  BY DEF OpenIn, OpenNodes, TargetIn, Target

LEMMA UpsIs ==
  ASSUME GameIsSound, PathInv, res.depth = Len(frontier) - 1
  PROVE  Ups \in Seq(TraceEvent) /\ Lines(Ups) = UpLines(Bare(frontier))
<1> DEFINE n == Len(frontier)
           p == n - Target
           b == Bare(frontier)
<1>1. frontier \in Seq(Node) /\ n \in Nat /\ n > 0 /\ res.depth \in Int /\ res.depth = n - 1
  BY PathFacts
<1>2. /\ p \in Nat /\ Ups \in Seq(TraceEvent) /\ Len(Ups) = 2 * p
      /\ \A k \in 1..(2 * p) : (k + 1) \div 2 \in 1..p
  BY <1>1, UpsEvents
<1>3. /\ Len(b) = n /\ \A i \in 1..n : b[i].mv = frontier[i].mv
      /\ TargetIn(b) = Target
  BY <1>1, BareNodes, OpenIsOpen
<1>4. p < n
  <2>1. Target \in 1..n
    BY <1>1, TargetIsLast
  <2> QED BY <1>1, <2>1
<1>5. Ups = [k \in 1..(2 * p) |-> UpTo(n - (k + 1) \div 2)[IF k % 2 = 1 THEN 1 ELSE 2]]
  BY DEF Ups
<1>6. UpLines(b) =
        [k \in 1..(2 * p) |->
           IF k % 2 = 1 THEN <<"UNDO", b[n - (k + 1) \div 2 + 1].mv, 0>>
           ELSE <<"DEPTH", NullMove, n - 1 - (k + 1) \div 2>>]
  BY <1>3 DEF UpLines
<1>7. Lines(Ups) = [k \in 1..(2 * p) |-> Line(Ups[k])]
  BY <1>2 DEF Lines
<1> HIDE DEF p, b
<1>8. ASSUME NEW k \in 1..(2 * p)
      PROVE  Line(Ups[k]) = IF k % 2 = 1 THEN <<"UNDO", b[n - (k + 1) \div 2 + 1].mv, 0>>
                            ELSE <<"DEPTH", NullMove, n - 1 - (k + 1) \div 2>>
  <2> DEFINE h == (k + 1) \div 2
             i == n - h
  <2>1. h \in 1..p
    BY <1>2
  <2>2. h \in Nat /\ i \in Nat /\ i + 1 \in 1..n /\ n - h + 1 = i + 1 /\ n - i = h
    BY <1>1, <1>2, <1>4, <2>1
  <2>3. Ups[k] = UpTo(i)[IF k % 2 = 1 THEN 1 ELSE 2]
    BY <1>5
  <2> HIDE DEF h, i
  <2>4. UpTo(i) = <<Event("UNDO", frontier[i + 1].mv, 0, Undone[i]),
                    Event("DEPTH", NullMove, res.depth - h, Undone[i])>>
    BY <2>2 DEF UpTo
  <2>5. /\ Line(Event("UNDO", frontier[i + 1].mv, 0, Undone[i])) = <<"UNDO", frontier[i + 1].mv, 0>>
        /\ Line(Event("DEPTH", NullMove, res.depth - h, Undone[i])) = <<"DEPTH", NullMove, n - 1 - h>>
    BY <1>1 DEF Line, Event
  <2>6. b[i + 1].mv = frontier[i + 1].mv
    BY <1>3, <2>2
  <2>7. CASE k % 2 = 1
    <3>1. Line(Ups[k]) = <<"UNDO", b[i + 1].mv, 0>>
      BY <2>3, <2>4, <2>5, <2>6, <2>7
    <3>2. Line(Ups[k]) = <<"UNDO", b[n - h + 1].mv, 0>>
      BY <2>2, <3>1
    <3> QED BY <2>7, <3>2 DEF h
  <2>8. CASE k % 2 # 1
    <3>1. Line(Ups[k]) = <<"DEPTH", NullMove, n - 1 - h>>
      BY <2>3, <2>4, <2>5, <2>8
    <3> QED BY <2>8, <3>1 DEF h
  <2> QED BY <2>7, <2>8
<1>9. Lines(Ups) = UpLines(b)
  BY <1>6, <1>7, <1>8
<1> QED BY <1>2, <1>9 DEF b

(* Where the search goes back to, and down from there.                     *)
LEMMA TargetNode ==
  ASSUME GameIsSound, PathInv, OpenNodes # {}
  PROVE  LET m == Last(frontier[Target].child_moves)
             part == SubSeq(frontier, 1, Target)
         IN /\ m \in Move /\ m \in MovesOf(StateAt) /\ Apply(StateAt, m) \in State
            /\ m = LastChild(part)
            /\ part \in Seq(Node) /\ Len(part) = Target /\ Target > 0 /\ Target \in Nat
            /\ part[Len(part)].child_moves # <<>>
<1> DEFINE m == Last(frontier[Target].child_moves)
           part == SubSeq(frontier, 1, Target)
           moves == frontier[Target].child_moves
<1>1. /\ StateAt = Path[Target] /\ Target \in 1..Len(frontier) /\ Len(frontier) \in Nat
      /\ StateAt \in State /\ frontier \in Seq(Node)
  BY PathFacts, UndoneIsPath DEF PathInv
<1>2. Target \in OpenNodes
  BY <1>1, TargetIsLast
<1>3. moves \in Seq(Move) /\ moves # <<>> /\ Range(moves) \subseteq MovesOf(StateAt)
  <2>1. frontier[Target] \in Node
    BY <1>1
  <2>2. moves \in Seq(Move)
    BY <2>1 DEF Node
  <2>3. moves # <<>>
    BY <1>2 DEF OpenNodes
  <2>4. Range(moves) \subseteq MovesOf(Path[Target])
    BY <1>1, PathFacts
  <2> QED BY <1>1, <2>2, <2>3, <2>4
<1>4. m = moves[Len(moves)] /\ Len(moves) \in DOMAIN moves
  BY <1>3 DEF Last
<1>5. m \in Move /\ m \in MovesOf(StateAt)
  BY <1>3, <1>4 DEF Range
<1>6. Apply(StateAt, m) \in State
  BY <1>1, <1>5 DEF GameIsSound
<1>7. /\ part \in Seq(Node) /\ Len(part) = Target
      /\ \A i \in 1..Target : part[i] = frontier[i]
  BY <1>1, InitialPart
<1>8. Target \in Nat /\ Target > 0 /\ Target \in 1..Target
  BY <1>1
<1>9. part[Len(part)] = frontier[Target]
  BY <1>7, <1>8
<1>10. LastChild(part) = moves[Len(moves)]
  BY <1>9 DEF LastChild
<1> QED BY <1>3, <1>4, <1>5, <1>6, <1>7, <1>8, <1>9, <1>10

LEMMA BackIs ==
  ASSUME GameIsSound, PathInv, res.depth = Len(frontier) - 1
  PROVE  Back \in Seq(TraceEvent) /\ Lines(Back) = BackLines(Bare(frontier))
<1> DEFINE b == Bare(frontier)
           m == Last(frontier[Target].child_moves)
           to == Apply(StateAt, m)
           depth == res.depth - (Len(frontier) - Target) + 1
           last == IF OpenNodes = {} THEN <<Plain("UNSOLV", StateAt)>> ELSE Down(m, to, depth)
           said == IF OpenNodes = {} THEN <<Note("UNSOLV")>>
                   ELSE DownLines(LastChild(ToTarget(b)), Target)
<1>1. /\ StateAt = Path[Target] /\ Target \in 1..Len(frontier) /\ Len(frontier) \in Nat
      /\ StateAt \in State /\ frontier \in Seq(Node) /\ NullMove \in Move
  BY PathFacts, UndoneIsPath DEF PathInv, GameIsSound
<1>2. OpenIn(b) = OpenNodes /\ TargetIn(b) = Target
  BY <1>1, BareNodes, OpenIsOpen
<1>3. Ups \in Seq(TraceEvent) /\ Lines(Ups) = UpLines(b)
  BY UpsIs
<1>4. last \in Seq(TraceEvent) /\ Lines(last) = said
  <2>1. CASE OpenNodes = {}
    <3>1. "UNSOLV" \in Names
      BY DEF Names
    <3>2. <<Plain("UNSOLV", StateAt)>> \in Seq(TraceEvent)
          /\ Lines(<<Plain("UNSOLV", StateAt)>>) = <<Note("UNSOLV")>>
      BY <1>1, <3>1, OneIs
    <3> QED BY <2>1, <3>2
  <2>2. CASE OpenNodes # {}
    <3> DEFINE part == SubSeq(frontier, 1, Target)
    <3>1. /\ m \in Move /\ to \in State /\ m = LastChild(part)
          /\ part \in Seq(Node) /\ Len(part) = Target /\ Len(part) > 0
          /\ part[Len(part)].child_moves # <<>>
      BY <2>2, TargetNode
    <3>2. LastChild(Bare(part)) = LastChild(part)
      BY <3>1, BareBelow
    <3>3. Bare(part) = ToTarget(b)
      <4>1. Target \in Nat /\ Target <= Len(frontier)
        BY <1>1
      <4>2. Bare(part) = SubSeq(b, 1, Target)
        BY <1>1, <4>1, BarePart
      <4> QED BY <1>2, <4>2 DEF ToTarget
    <3>4. depth = Target /\ depth \in Int
      BY <1>1
    <3>5. last = Down(m, to, depth) /\ said = DownLines(LastChild(ToTarget(b)), Target)
      BY <2>2
    <3> HIDE DEF last, said, m, to, depth, part, b
    <3>6. Down(m, to, depth) \in Seq(TraceEvent) /\ Lines(Down(m, to, depth)) = DownLines(m, depth)
      BY <1>1, <3>1, <3>4, DownIs
    <3>7. m = LastChild(ToTarget(b))
      BY <3>1, <3>2, <3>3
    <3> QED BY <3>4, <3>5, <3>6, <3>7
  <2> QED BY <2>1, <2>2
<1>5. Back = Ups \o last
  BY DEF Back
<1>6. BackLines(b) = UpLines(b) \o said
  BY <1>2 DEF BackLines
<1> HIDE DEF last, said, b
<1>8. Ups \in Seq(TraceEvent) /\ last \in Seq(TraceEvent)
  BY <1>3, <1>4
<1>9. Lines(Ups \o last) = Lines(Ups) \o Lines(last)
  BY ONLY <1>8, LinesJoined
<1>10. Ups \o last \in Seq(TraceEvent)
  BY <1>8
<1>7. Lines(Ups \o last) = Lines(Ups) \o Lines(last) /\ Ups \o last \in Seq(TraceEvent)
  BY <1>9, <1>10
<1> QED BY <1>3, <1>4, <1>5, <1>6, <1>7 DEF b

-----------------------------------------------------------------------------
(* The frontier after a turn is the one that the ideal search goes to.     *)
LEMMA FrontierDown ==
  ASSUME NEW f \in Seq(Node), Len(f) = Len(frontier), frontier \in Seq(Node), Len(f) > 0,
         \A i \in 1..Len(f) : f[i].mv = frontier[i].mv /\ f[i].child_moves = frontier[i].child_moves,
         NEW moves \in Seq(Move), moves # <<>>, GoDown(f, moves)
  PROVE  Bare(frontier') = Below(WithMoves(Bare(frontier), moves))
<1> DEFINE g == WithMoves(f, moves)
<1>1. frontier' = Below(g)
  BY DEF GoDown, Descended, Below, WithMoves, LastChild, OtherChildren
<1>2. /\ g \in Seq(Node) /\ Len(g) = Len(f) /\ g[Len(f)].child_moves = moves
  BY WithMovesNodes
<1>3. Bare(g) = WithMoves(Bare(f), moves)
  BY BareWithMoves
<1>4. Bare(f) = Bare(frontier)
  BY SameBare
<1> HIDE DEF g
<1>5. Bare(Below(g)) = Below(Bare(g))
  BY <1>2, BareBelow
<1> QED BY <1>1, <1>3, <1>4, <1>5

LEMMA FrontierBack ==
  ASSUME GameIsSound, PathInv, NEW own, NEW c, NEW fresh, Backtrack(Marked, own, c, fresh),
         result' = "NONE"
  PROVE  Bare(frontier') = BackTo(Bare(frontier))
<1> DEFINE b == Bare(frontier)
           part == SubSeq(frontier, 1, Target)
           kept == SubSeq(Marked, 1, Target)
<1>1. OpenNodes # {} /\ frontier' = Below(kept)
  BY DEF Backtrack, Descended, Below, LastChild, OtherChildren
<1>2. /\ part \in Seq(Node) /\ Len(part) = Target /\ Target > 0 /\ Target \in Nat
      /\ part[Len(part)].child_moves # <<>>
  BY <1>1, TargetNode
<1>3. /\ frontier \in Seq(Node) /\ Len(frontier) \in Nat /\ Len(frontier) > 0
      /\ Target \in 1..Len(frontier)
  BY PathFacts, TargetIsLast
<1>4. /\ Marked \in Seq(Node) /\ Len(Marked) = Len(frontier)
      /\ \A i \in 1..Len(frontier) :
           Marked[i].mv = frontier[i].mv /\ Marked[i].child_moves = frontier[i].child_moves
  BY MarkedNodes
<1>5. /\ kept \in Seq(Node) /\ Len(kept) = Target /\ \A i \in 1..Target : kept[i] = Marked[i]
  BY <1>3, <1>4, InitialPart
<1>6. \A i \in 1..Target : part[i] = frontier[i]
  BY <1>3, InitialPart
<1>7. OpenIn(b) = OpenNodes /\ TargetIn(b) = Target
  BY <1>3, BareNodes, OpenIsOpen
<1>8. Bare(part) = ToTarget(b)
  BY <1>3, <1>7, BarePart DEF ToTarget
<1> HIDE DEF part, kept, b
<1>9. \A i \in 1..Len(kept) : kept[i].mv = part[i].mv /\ kept[i].child_moves = part[i].child_moves
  BY <1>3, <1>4, <1>5, <1>6
<1>10. Bare(kept) = Bare(part)
  BY <1>2, <1>5, <1>9, SameBare
<1>11. kept[Len(kept)].child_moves # <<>>
  BY <1>2, <1>5, <1>9
<1>12. Bare(Below(kept)) = Below(Bare(kept))
  BY <1>2, <1>5, <1>11, BareBelow
<1>13. BackTo(b) = Below(ToTarget(b))
  BY <1>1, <1>7 DEF BackTo
<1> QED BY <1>1, <1>8, <1>10, <1>12, <1>13 DEF b

(* Where the search is.                                                    *)
LEMMA IsReached ==
  ASSUME GameIsSound, PathInv
  PROVE  LET b == Bare(frontier)
         IN /\ Len(b) = Len(frontier) /\ Len(b) \in Nat /\ Len(b) > 0
            /\ TargetIn(b) \in 1..Len(b)
            /\ Reached(init_state, b) = state /\ Offered(init_state, b) = Moves
<1> DEFINE b == Bare(frontier)
           n == Len(frontier)
<1>1. frontier \in Seq(Node) /\ n \in Nat /\ n > 0 /\ Target \in 1..n /\ n \in 1..n
  BY PathFacts, TargetIsLast
<1>2. /\ Len(b) = n /\ TargetIn(b) = Target
      /\ \A i \in 1..n : b[i].mv = frontier[i].mv
  BY <1>1, BareNodes, OpenIsOpen
<1>3. PathOf(init_state, b)[n] = PathOf(init_state, frontier)[n]
  BY <1>1, BarePath
<1>4. state = PathOf(init_state, frontier)[n]
  BY PathIsPathOf DEF PathInv
<1>5. b[n].mv = Current.mv
  BY <1>1, <1>2 DEF Current
<1> HIDE DEF b
<1>6. Reached(init_state, b) = state
  BY <1>2, <1>3, <1>4 DEF Reached
<1>7. Offered(init_state, b) = Moves
  BY <1>2, <1>5, <1>6 DEF Offered, Moves
<1> QED BY <1>1, <1>2, <1>6, <1>7 DEF b

-----------------------------------------------------------------------------
(* Where a search may go its own way.                                      *)
Bad(t) == Own(t) \union (IF Policy = "BITMAP" THEN Mistaken(t) ELSE {})

MissesGiven ==
  \A k \in 1..Len(trace) : trace[k].is = "MISS" => Key(trace[k].at) \in GivenKeys

LEMMA EventsJoined ==
  ASSUME NEW a \in Seq(TraceEvent), NEW b \in Seq(TraceEvent)
  PROVE  /\ a \o b \in Seq(TraceEvent) /\ Len(a \o b) = Len(a) + Len(b)
         /\ Len(a) \in Nat /\ Len(b) \in Nat
         /\ \A k \in 1..Len(a) : (a \o b)[k] = a[k]
         /\ \A k \in 1..Len(b) : (a \o b)[Len(a) + k] = b[k]
<1>1. /\ a \o b \in Seq(TraceEvent) /\ Len(a \o b) = Len(a) + Len(b)
      /\ \A k \in 1..(Len(a) + Len(b)) :
           (a \o b)[k] = IF k <= Len(a) THEN a[k] ELSE b[k - Len(a)]
  BY ConcatProperties
<1>2. Len(a) \in Nat /\ Len(b) \in Nat
  OBVIOUS
<1>3. ASSUME NEW k \in 1..Len(b)
      PROVE  (a \o b)[Len(a) + k] = b[k]
  <2>1. /\ Len(a) + k \in 1..(Len(a) + Len(b)) /\ ~ (Len(a) + k <= Len(a))
        /\ Len(a) + k - Len(a) = k
    BY <1>2
  <2> QED BY <1>1, <2>1
<1> QED BY <1>1, <1>2, <1>3

(* A part of a trace is bad where the trace is.                            *)
LEMMA BadBefore ==
  ASSUME NEW t \in Seq(TraceEvent), NEW u \in Seq(TraceEvent), Begins(t, u)
  PROVE  Bad(t) = Bad(u) \intersect 1..Len(t)
<1>1. /\ DOMAIN t = 1..Len(t) /\ DOMAIN u = 1..Len(u) /\ Len(t) \in Nat /\ Len(u) \in Nat
      /\ Len(t) <= Len(u) /\ \A k \in 1..Len(t) : t[k] = u[k]
  BY DEF Begins
<1>2. 1..Len(t) \subseteq 1..Len(u) /\ \A k \in 1..Len(t) : 1..k \subseteq 1..Len(t)
  BY <1>1
<1>3. Own(t) = Own(u) \intersect 1..Len(t)
  BY <1>1, <1>2 DEF Own
<1>4. Mistaken(t) = Mistaken(u) \intersect 1..Len(t)
  <2>1. ASSUME NEW k \in 1..Len(t)
        PROVE  k \in Mistaken(t) <=> k \in Mistaken(u)
    <3>1. k \in 1..Len(u) /\ t[k] = u[k] /\ \A j \in 1..k : t[j] = u[j]
      BY <1>1, <1>2
    <3> QED BY <1>1, <3>1 DEF Mistaken
  <2>2. Mistaken(t) \subseteq 1..Len(t)
    BY <1>1 DEF Mistaken
  <2> QED BY <2>1, <2>2
<1> QED BY <1>3, <1>4 DEF Bad

LEMMA BadAt ==
  ASSUME trace \in Seq(TraceEvent), NEW es \in Seq(TraceEvent), NEW j \in 1..Len(es)
  PROVE  /\ es[j].is \in {"EVICT", "TIMEOUT", "TERMINATED"} => Len(trace) + j \in Bad(trace \o es)
         /\ /\ Policy = "BITMAP" /\ es[j].is = "HIT" /\ MissesGiven
            /\ Key(es[j].at) \notin GivenKeys /\ \A k \in 1..Len(es) : es[k].is # "MISS"
            => Len(trace) + j \in Bad(trace \o es)
<1> DEFINE t == trace \o es
           n == Len(trace)
<1>1. /\ t \in Seq(TraceEvent) /\ Len(t) = n + Len(es)
      /\ n \in Nat /\ Len(es) \in Nat
      /\ \A k \in 1..n : t[k] = trace[k]
      /\ \A k \in 1..Len(es) : t[n + k] = es[k]
  BY EventsJoined
<1> HIDE DEF t, n
<1>2. DOMAIN t = 1..(n + Len(es)) /\ n + j \in DOMAIN t /\ t[n + j] = es[j]
  BY <1>1
<1>3. es[j].is \in {"EVICT", "TIMEOUT", "TERMINATED"} => n + j \in Bad(t)
  BY <1>2 DEF Bad, Own
<1>4. ASSUME Policy = "BITMAP", es[j].is = "HIT", MissesGiven,
             Key(es[j].at) \notin GivenKeys, \A k \in 1..Len(es) : es[k].is # "MISS"
      PROVE  n + j \in Bad(t)
  <2>1. ASSUME NEW i \in 1..(n + j), t[i].is = "MISS"
        PROVE  Key(t[i].at) # Key(t[n + j].at)
    <3>1. CASE i <= n
      <4>1. i \in 1..n
        BY <1>1, <3>1
      <4>2. t[i] = trace[i]
        BY <1>1, <4>1
      <4>3. Key(trace[i].at) \in GivenKeys
        BY <1>4, <2>1, <4>1, <4>2 DEF MissesGiven, n
      <4> QED BY <1>2, <1>4, <4>2, <4>3
    <3>2. CASE ~ (i <= n)
      <4>1. i - n \in 1..Len(es) /\ n + (i - n) = i
        BY <1>1, <3>2
      <4>2. t[i] = es[i - n]
        BY <1>1, <4>1
      <4> QED BY <1>4, <2>1, <4>1, <4>2
    <3> QED BY <3>1, <3>2
  <2> QED BY <1>2, <1>4, <2>1 DEF Bad, Mistaken
<1> QED BY <1>3, <1>4 DEF t, n

-----------------------------------------------------------------------------
(* A turn of a search that has not gone its own way: as long as it does    *)
(* not, its events are the lines of the ideal turn, and it ends where that *)
(* does.                                                                   *)
SaidNow == Said(init_state, Bare(frontier), GivenKeys)

IdealTurn(es) ==
  /\ es \in Seq(TraceEvent)
  /\ \A j \in 1..Len(es) :
       Bad(trace \o es) \intersect 1..(Len(trace) + j) = {}
         => j <= Len(SaidNow) /\ Line(es[j]) = SaidNow[j]
  /\ result' = "NONE" /\ Bad(trace \o es) = {} =>
       /\ Lines(es) = SaidNow
       /\ Bare(frontier') = Goes(init_state, Bare(frontier), GivenKeys)
       /\ GivenKeys' = Gives(init_state, Bare(frontier), GivenKeys)
       /\ StatesRemoved(cache') = 0

(* What is assumed of the game and of the policy.                          *)
Comparable ==
  /\ GameIsSound /\ PositionsAreClosed /\ HashesTell
  /\ Policy \in ExactPolicies \union {"BITMAP"} /\ (Policy = "BITMAP" => NumBits # 0)

(* What holds before a turn of a search that has not gone its own way.     *)
Ready ==
  /\ BooksInv /\ PlacedInv /\ KnowInv /\ (Policy = "LRU" => CacheInv)
  /\ MissesGiven /\ trace \in Seq(TraceEvent)
  /\ StatesRemoved(cache) = 0 /\ result = "NONE"

LEMMA ReadyFacts ==
  ASSUME Comparable, Ready
  PROVE  /\ PathInv /\ CountInv /\ init_state \in Deals
         /\ res.depth \in Nat /\ res.depth = Len(frontier) - 1 /\ res.depth + 1 = Len(frontier)
         /\ Len(frontier) \in Nat /\ Len(frontier) > 0 /\ frontier \in Seq(Node)
         /\ state \in State /\ NullMove \in Move
<1>1. PathInv /\ CountInv /\ init_state \in Deals
  BY DEF Ready, BooksInv
<1>2. res \in Counters /\ res.depth = Len(frontier) - 1
  BY <1>1 DEF CountInv, MovesAddUp
<1>3. res.depth \in Nat
  BY <1>2 DEF Counters
<1>4. Len(frontier) \in Nat /\ Len(frontier) > 0 /\ state \in State /\ frontier \in Seq(Node)
  BY <1>1, PathFacts
<1> QED BY <1>1, <1>2, <1>3, <1>4 DEF Comparable, GameIsSound

LEMMA Matched ==
  ASSUME NEW es \in Seq(TraceEvent), Lines(es) = SaidNow,
         result' = "NONE" =>
           /\ Bare(frontier') = Goes(init_state, Bare(frontier), GivenKeys)
           /\ GivenKeys' = Gives(init_state, Bare(frontier), GivenKeys)
           /\ StatesRemoved(cache') = 0
  PROVE  IdealTurn(es)
<1> DEFINE l == Lines(es)
<1>1. Len(es) \in Nat
  OBVIOUS
<1>2. Len(l) = Len(es) /\ \A k \in 1..Len(es) : l[k] = Line(es[k])
  BY <1>1, LinesAre
<1>3. l = SaidNow
  OBVIOUS
<1> HIDE DEF l
<1>4. \A j \in 1..Len(es) : j <= Len(SaidNow) /\ Line(es[j]) = SaidNow[j]
  BY <1>1, <1>2, <1>3
<1> QED BY <1>4 DEF IdealTurn

LEMMA QueryOnly ==
  ASSUME Comparable, Ready, ~ Solved(state), DominanceMove(state) = NoMove,
         NEW es \in Seq(TraceEvent), Len(es) >= 1, es[1] = Plain("QUERY", state),
         \/ Len(es) = 1 /\ result' # "NONE"
         \/ Len(trace) + 2 \in Bad(trace \o es)
  PROVE  IdealTurn(es)
<1>1. Line(es[1]) = Note("QUERY")
  <2>1. "QUERY" \in Names
    BY DEF Names
  <2> QED BY <2>1, ReadyFacts, EventLines
<1>2. Len(SaidNow) >= 1 /\ SaidNow[1] = Note("QUERY")
  <2> DEFINE b == Bare(frontier)
  <2>1. /\ Len(b) \in Nat /\ TargetIn(b) \in 1..Len(b) /\ Reached(init_state, b) = state
    BY ReadyFacts, IsReached DEF Comparable
  <2> HIDE DEF b
  <2> QED BY <2>1, SaidIsSeq DEF SaidNow, b
<1>3. Len(es) \in Nat /\ Len(trace) \in Nat
  BY DEF Ready
<1>4. ASSUME NEW j \in 1..Len(es), Bad(trace \o es) \intersect 1..(Len(trace) + j) = {}
      PROVE  j <= Len(SaidNow) /\ Line(es[j]) = SaidNow[j]
  <2>1. CASE j = 1
    BY <1>1, <1>2, <2>1
  <2>2. CASE j # 1
    <3>2. j \in 1..Len(es)
      OBVIOUS
    <3> DEFINE n == Len(trace)
               e == Len(es)
    <3>3. n \in Nat /\ e \in Nat /\ j \in 1..e
      BY <1>3, <3>2
    <3> HIDE DEF n, e
    <3>4. j \in Nat /\ j >= 2 /\ e >= 2
      BY <2>2, <3>3
    <3>5. n + 2 \in 1..(n + j) /\ e # 1
      BY <3>3, <3>4
    <3>1. Len(trace) + 2 \in 1..(Len(trace) + j) /\ Len(es) # 1
      BY <3>5 DEF n, e
    <3> QED BY <1>4, <3>1
  <2> QED BY <2>1, <2>2
<1>5. result' = "NONE" => Bad(trace \o es) # {}
  OBVIOUS
<1> QED BY <1>4, <1>5 DEF IdealTurn

(* What the cache answers says whether the state was given to it.          *)
LEMMA QueryFacts ==
  ASSUME Comparable, Ready
  PROVE  /\ Inserted.new => Key(state) \notin GivenKeys
         /\ ~ Inserted.new /\ Policy \in ExactPolicies => Key(state) \in GivenKeys
         /\ StatesRemoved(Inserted.cache) \in Nat
<1>1. /\ PathInv /\ init_state \in Deals /\ res.depth \in Nat
  BY ReadyFacts
<1>2. /\ PlacedInv /\ KnowInv /\ (Policy = "LRU" => CacheInv) /\ result # "MEM_LIMIT"
      /\ StatesRemoved(cache) = 0 /\ 0 \in Nat
  BY DEF Ready
<1>3. /\ Policy \in {"FLAT", "HASH_ONLY"} => FlatTyped(cache)
      /\ Knows(cache, GivenKeys) /\ (Policy # "LRU" => CacheCounts(cache))
  BY <1>2 DEF KnowInv
<1>4. state \in Positions(init_state)
  BY <1>1, <1>2, PathIsPlaced
<1>5. Inserted.new <=> ~ CacheContains(cache, Key(state))
  BY <1>1, <1>2, <1>3, <1>4, InsertionTakes DEF Comparable
<1>6. /\ Key(state) \in GivenKeys => CacheContains(cache, Key(state))
      /\ Policy \in ExactPolicies => (CacheContains(cache, Key(state)) <=> Key(state) \in GivenKeys)
  BY <1>3, <1>4, Known
<1>7. StatesRemoved(Inserted.cache) \in Nat
  BY <1>1, <1>2, <1>3, RemovedOnce
<1> QED BY <1>5, <1>6, <1>7

LEMMA AskedIs ==
  ASSUME Comparable, Ready
  PROVE  /\ Asked \in Seq(TraceEvent) /\ Len(Asked) \in 1..2 /\ Asked[1] = Plain("QUERY", state)
         /\ StatesRemoved(Inserted.cache) # 0 => Len(Asked) = 2 /\ Asked[2].is = "EVICT"
         /\ StatesRemoved(Inserted.cache) = 0 =>
              Asked = <<Plain("QUERY", state)>> /\ Lines(Asked) = <<Note("QUERY")>>
<1> DEFINE q == Plain("QUERY", state)
           e == Plain("EVICT", state)
<1>1. state \in State /\ NullMove \in Move /\ "QUERY" \in Names /\ "EVICT" \in Names
  BY ReadyFacts DEF Names
<1>2. q \in TraceEvent /\ e \in TraceEvent /\ Lines(<<q>>) = <<Note("QUERY")>>
  BY <1>1, EventLines, OneIs
<1>3. e.is = "EVICT"
  BY DEF Plain, Event
<1>4. Asked = <<q>> \o (IF StatesRemoved(Inserted.cache) > 0 THEN <<e>> ELSE <<>>)
  BY DEF Asked, Ready
<1>5. StatesRemoved(Inserted.cache) \in Nat
  BY QueryFacts
<1> HIDE DEF q, e
<1>6. CASE StatesRemoved(Inserted.cache) = 0
  <2>1. Asked = <<q>> \o <<>>
    BY <1>4, <1>5, <1>6
  <2>2. <<q>> \o <<>> = <<q>> /\ <<q>> \in Seq(TraceEvent) /\ Len(<<q>>) = 1 /\ <<q>>[1] = q
    BY <1>2
  <2>3. Asked = <<q>>
    BY <2>1, <2>2
  <2> QED BY <1>2, <1>6, <2>2, <2>3 DEF q
<1>7. CASE StatesRemoved(Inserted.cache) # 0
  <2>1. Asked = <<q>> \o <<e>>
    BY <1>4, <1>5, <1>7
  <2>2. <<q>> \in Seq(TraceEvent) /\ <<e>> \in Seq(TraceEvent)
    BY <1>2
  <2>3. /\ <<q>> \o <<e>> \in Seq(TraceEvent) /\ Len(<<q>> \o <<e>>) = 2
        /\ (<<q>> \o <<e>>)[1] = q /\ (<<q>> \o <<e>>)[2] = e
    BY <1>2, <2>2
  <2>4. Asked \in Seq(TraceEvent) /\ Len(Asked) = 2 /\ Asked[1] = q /\ Asked[2] = e
    BY <2>1, <2>3
  <2> QED BY <1>3, <1>7, <2>4 DEF q
<1> QED BY <1>6, <1>7

(* A turn in which the cache evicts.                                       *)
LEMMA EvictedIdeal ==
  ASSUME Comparable, Ready, ~ Solved(state), DominanceMove(state) = NoMove,
         StatesRemoved(Inserted.cache) # 0,
         NEW a \in Seq(TraceEvent), NEW b \in Seq(TraceEvent)
  PROVE  IdealTurn(Asked \o a \o b)
<1> DEFINE u == Asked \o a
           es == u \o b
<1>1. Asked \in Seq(TraceEvent) /\ Len(Asked) = 2 /\ Asked[1] = Plain("QUERY", state)
      /\ Asked[2].is = "EVICT"
  BY AskedIs
<1>9. /\ u \in Seq(TraceEvent) /\ Len(u) = Len(Asked) + Len(a) /\ Len(a) \in Nat
      /\ \A k \in 1..Len(Asked) : u[k] = Asked[k]
  BY <1>1, EventsJoined
<1>2. /\ u \in Seq(TraceEvent) /\ Len(u) = 2 + Len(a) /\ Len(a) \in Nat
      /\ \A k \in 1..2 : u[k] = Asked[k]
  BY <1>1, <1>9
<1> HIDE DEF u
<1>3. /\ es \in Seq(TraceEvent) /\ Len(es) = Len(u) + Len(b) /\ Len(b) \in Nat
      /\ \A k \in 1..Len(u) : es[k] = u[k]
  BY <1>2, EventsJoined
<1> HIDE DEF es
<1>4. 1 \in 1..2 /\ 2 \in 1..2 /\ 1 \in 1..Len(u) /\ 2 \in 1..Len(u) /\ 2 \in 1..Len(es) /\ Len(es) >= 1
  BY <1>2, <1>3
<1>5. es[1] = Plain("QUERY", state) /\ es[2].is = "EVICT"
  BY <1>1, <1>2, <1>3, <1>4
<1>6. trace \in Seq(TraceEvent)
  BY DEF Ready
<1>7. Len(trace) + 2 \in Bad(trace \o es)
  BY <1>3, <1>4, <1>5, <1>6, BadAt
<1>8. IdealTurn(es)
  BY <1>3, <1>4, <1>5, <1>7, QueryOnly
<1> QED BY <1>8 DEF es, u

(* The turns, one by one.                                                  *)
LEMMA DominateIdeal ==
  ASSUME Comparable, Ready, Dominate
  PROVE  LET m == DominanceMove(state)
         IN IdealTurn(Down(m, Apply(state, m), res.depth + 1))
<1> DEFINE m == DominanceMove(state)
           to == Apply(state, m)
           d == res.depth + 1
           b == Bare(frontier)
           es == Down(m, to, d)
<1>1. /\ ~ Solved(state) /\ m # NoMove /\ GoDown(frontier, <<m>>) /\ cache' = cache
      /\ expanded' = expanded \union {state}
  BY DEF Dominate, Turn, InBudget, Running, GoDown
<1>2. /\ PathInv /\ d = Len(frontier) /\ Len(frontier) \in Nat /\ Len(frontier) > 0
      /\ frontier \in Seq(Node) /\ state \in State /\ NullMove \in Move /\ d \in Int
  BY ReadyFacts
<1>3. <<m>> \in Seq(Move) /\ MovesOf(state) = {m} /\ m \in Move /\ <<m>> # <<>>
  <2>1. GameIsSound
    BY DEF Comparable
  <2>2. <<m>> \in Seq(Move) /\ MovesOf(state) = {m}
    BY <1>1, <1>2, <2>1, GameMoves
  <2>3. m \in Move
    BY <1>1, <1>2, <2>1 DEF GameIsSound
  <2> QED BY <2>2, <2>3
<1>4. to \in State
  BY <1>2, <1>3 DEF Comparable, GameIsSound
<1>5. Len(b) = Len(frontier) /\ Reached(init_state, b) = state
  BY <1>2, IsReached DEF Comparable
<1>6. Bare(frontier') = Below(WithMoves(b, <<m>>))
  BY <1>1, <1>2, <1>3, FrontierDown
<1>7. GivenKeys' = GivenKeys
  BY <1>1, GivenMore
<1>8. StatesRemoved(cache') = 0
  BY <1>1 DEF Ready
<1> HIDE DEF m, to, d, b
<1>9. es \in Seq(TraceEvent) /\ Lines(es) = DownLines(m, d)
  BY <1>2, <1>3, <1>4, DownIs
<1>10. /\ Said(init_state, b, GivenKeys) = DownLines(m, Len(b))
       /\ Goes(init_state, b, GivenKeys) = Below(WithMoves(b, <<m>>))
       /\ Gives(init_state, b, GivenKeys) = GivenKeys
  BY <1>1, <1>5 DEF Said, Goes, Gives, m
<1>11. Lines(es) = SaidNow
  BY <1>2, <1>5, <1>9, <1>10 DEF SaidNow, b
<1> HIDE DEF es
<1>12. IdealTurn(es)
  BY <1>6, <1>7, <1>8, <1>9, <1>10, <1>11, Matched DEF b
<1> QED BY <1>12 DEF es, m, to, d

(* A turn that asks an answering cache that does not evict.                *)
LEMMA AnsweredLines ==
  ASSUME Comparable, Ready, StatesRemoved(Inserted.cache) = 0,
         NEW a \in Seq(TraceEvent), NEW b \in Seq(TraceEvent)
  PROVE  /\ Asked \o a \o b \in Seq(TraceEvent)
         /\ Lines(Asked \o a \o b) = <<Note("QUERY")>> \o Lines(a) \o Lines(b)
<1>1. Asked \in Seq(TraceEvent) /\ Lines(Asked) = <<Note("QUERY")>>
  BY AskedIs
<1>2. Lines(Asked \o a) = Lines(Asked) \o Lines(a)
  BY <1>1, LinesJoined
<1>3. Asked \o a \in Seq(TraceEvent)
  BY <1>1
<1>4. Lines(Asked \o a \o b) = Lines(Asked \o a) \o Lines(b)
  BY <1>3, LinesJoined
<1>5. Asked \o a \o b \in Seq(TraceEvent)
  BY <1>3
<1> QED BY <1>1, <1>2, <1>4, <1>5

LEMMA ExpandIdeal ==
  ASSUME Comparable, Ready, Expand
  PROVE  LET m == Last(Moves)
         IN IdealTurn(Asked \o Missed \o Down(m, Apply(state, m), res.depth + 1))
<1> DEFINE m == Last(Moves)
           to == Apply(state, m)
           d == res.depth + 1
           b == Bare(frontier)
           down == Down(m, to, d)
           es == Asked \o Missed \o down
<1>1. /\ ~ Solved(state) /\ DominanceMove(state) = NoMove /\ GoDown(Marked, Moves)
      /\ cache' = Inserted.cache /\ expanded' = expanded \union {state}
      /\ Inserted.new /\ Moves # <<>>
  BY DEF Expand, Turn, InBudget, Running, GoDown
<1>2. /\ PathInv /\ d = Len(frontier) /\ Len(frontier) \in Nat /\ Len(frontier) > 0
      /\ frontier \in Seq(Node) /\ state \in State /\ NullMove \in Move /\ d \in Int
  BY ReadyFacts
<1>3. Moves \in Seq(Move) /\ Range(Moves) \subseteq MovesOf(state)
  BY <1>1, <1>2, GameMoves DEF Comparable
<1>4. m = Moves[Len(Moves)] /\ m \in Move /\ to \in State
  <2>1. m = Moves[Len(Moves)] /\ Len(Moves) \in DOMAIN Moves
    BY <1>1, <1>3 DEF Last
  <2>2. m \in Move /\ m \in MovesOf(state)
    BY <1>3, <2>1 DEF Range
  <2> QED BY <1>2, <2>1, <2>2 DEF Comparable, GameIsSound
<1>5. /\ Len(b) = Len(frontier) /\ Reached(init_state, b) = state
      /\ Offered(init_state, b) = Moves
  BY <1>2, IsReached DEF Comparable
<1>6. Bare(frontier') = Below(WithMoves(b, Moves))
  <2>1. /\ Marked \in Seq(Node) /\ Len(Marked) = Len(frontier) /\ Len(Marked) > 0
        /\ \A i \in 1..Len(Marked) :
             Marked[i].mv = frontier[i].mv /\ Marked[i].child_moves = frontier[i].child_moves
    BY <1>2, MarkedNodes
  <2> QED BY <1>1, <1>2, <1>3, <2>1, FrontierDown
<1>7. GivenKeys' = GivenKeys \union {Key(state)}
  BY <1>1, GivenMore
<1>8. Key(state) \notin GivenKeys
  BY <1>1, QueryFacts
<1>9. Missed \in Seq(TraceEvent) /\ Lines(Missed) = MissLines(Moves)
  BY <1>2, <1>3, MissedIs
<1> HIDE DEF m, to, d, b
<1>10. down \in Seq(TraceEvent) /\ Lines(down) = DownLines(m, d)
  BY <1>2, <1>4, DownIs
<1> HIDE DEF down
<1>11. CASE StatesRemoved(Inserted.cache) # 0
  BY <1>1, <1>9, <1>10, <1>11, EvictedIdeal DEF down, m, to, d
<1>12. CASE StatesRemoved(Inserted.cache) = 0
  <2>1. /\ es \in Seq(TraceEvent)
        /\ Lines(es) = <<Note("QUERY")>> \o Lines(Missed) \o Lines(down)
    BY <1>9, <1>10, <1>12, AnsweredLines
  <2>2. /\ Said(init_state, b, GivenKeys) = FreshLines(b, Moves)
        /\ Goes(init_state, b, GivenKeys) = Below(WithMoves(b, Moves))
        /\ Gives(init_state, b, GivenKeys) = GivenKeys \union {Key(state)}
    BY <1>1, <1>5, <1>8 DEF Said, Goes, Gives
  <2>3. FreshLines(b, Moves) = <<Note("QUERY")>> \o MissLines(Moves) \o DownLines(m, d)
    BY <1>2, <1>4, <1>5 DEF FreshLines
  <2>4. Lines(es) = SaidNow
    BY <1>9, <1>10, <2>1, <2>2, <2>3 DEF SaidNow, b
  <2> HIDE DEF es
  <2>5. IdealTurn(es)
    BY <1>1, <1>6, <1>7, <1>12, <2>1, <2>2, <2>4, Matched DEF b
  <2> QED BY <2>5 DEF es, down, m, to, d
<1> QED BY <1>11, <1>12

LEMMA DeadEndIdeal ==
  ASSUME Comparable, Ready, DeadEnd, UNCHANGED init_state
  PROVE  IdealTurn(Asked \o Missed \o Back)
<1> DEFINE b == Bare(frontier)
           es == Asked \o Missed \o Back
<1>1. /\ ~ Solved(state) /\ DominanceMove(state) = NoMove
      /\ Backtrack(Marked, {Key(state)}, Inserted.cache, 1)
      /\ expanded' = expanded \union {state}
      /\ Inserted.new /\ ~ Inserted.full /\ Moves = <<>>
  BY DEF DeadEnd, Turn, InBudget, Running
<1>2. /\ PathInv /\ res.depth = Len(frontier) - 1 /\ state \in State /\ NullMove \in Move
      /\ GameIsSound
  BY ReadyFacts DEF Comparable
<1>3. Moves \in Seq(Move)
  BY <1>1, <1>2, GameMoves
<1>4. Reached(init_state, b) = state /\ Offered(init_state, b) = Moves
  BY <1>2, IsReached
<1>5. result' = "NONE" => Bare(frontier') = BackTo(b)
  BY <1>1, <1>2, FrontierBack
<1>6. GivenKeys' = GivenKeys \union {Key(state)} /\ Key(state) \notin GivenKeys
  BY <1>1, GivenMore, QueryFacts
<1>7. Missed \in Seq(TraceEvent) /\ Lines(Missed) = MissLines(<<>>)
  BY <1>1, <1>2, <1>3, MissedIs
<1>8. Back \in Seq(TraceEvent) /\ Lines(Back) = BackLines(b)
  BY <1>2, BackIs
<1>9. StatesRemoved(cache') = StatesRemoved(Inserted.cache)
  BY <1>1, <1>2, InsertedIsBack DEF Ready
<1> HIDE DEF b
<1>10. CASE StatesRemoved(Inserted.cache) # 0
  BY <1>1, <1>7, <1>8, <1>10, EvictedIdeal
<1>11. CASE StatesRemoved(Inserted.cache) = 0
  <2>1. /\ es \in Seq(TraceEvent)
        /\ Lines(es) = <<Note("QUERY")>> \o Lines(Missed) \o Lines(Back)
    BY <1>7, <1>8, <1>11, AnsweredLines
  <2>2. /\ Said(init_state, b, GivenKeys) = StuckLines(b)
        /\ Goes(init_state, b, GivenKeys) = BackTo(b)
        /\ Gives(init_state, b, GivenKeys) = GivenKeys \union {Key(state)}
    BY <1>1, <1>4, <1>6 DEF Said, Goes, Gives
  <2>3. StuckLines(b) = <<Note("QUERY")>> \o MissLines(<<>>) \o BackLines(b)
    BY DEF StuckLines
  <2>4. Lines(es) = SaidNow
    BY <1>7, <1>8, <2>1, <2>2, <2>3 DEF SaidNow, b
  <2> HIDE DEF es
  <2>5. IdealTurn(es)
    BY <1>5, <1>6, <1>9, <1>11, <2>1, <2>2, <2>4, Matched DEF b
  <2> QED BY <2>5 DEF es
<1> QED BY <1>10, <1>11

LEMMA DuplicateIdeal ==
  ASSUME Comparable, Ready, Duplicate, UNCHANGED init_state
  PROVE  IdealTurn(Asked \o <<Plain("HIT", state)>> \o Back)
<1> DEFINE b == Bare(frontier)
           hit == <<Plain("HIT", state)>>
           es == Asked \o hit \o Back
<1>1. /\ ~ Solved(state) /\ DominanceMove(state) = NoMove
      /\ Backtrack(Marked, {}, Inserted.cache, 0)
      /\ UNCHANGED expanded /\ ~ Inserted.new
  BY DEF Duplicate, Turn, InBudget, Running
<1>2. /\ PathInv /\ res.depth = Len(frontier) - 1 /\ state \in State /\ NullMove \in Move
      /\ GameIsSound /\ res.depth \in Int /\ CountInv
  BY ReadyFacts DEF Comparable
<1>3. Reached(init_state, b) = state
  BY <1>2, IsReached
<1>4. result' = "NONE" => Bare(frontier') = BackTo(b)
  BY <1>1, <1>2, FrontierBack
<1>5. GivenKeys' = GivenKeys
  BY <1>1, GivenMore
<1>6. hit \in Seq(TraceEvent) /\ Lines(hit) = <<Note("HIT")>>
  <2>1. "HIT" \in Names
    BY DEF Names
  <2> QED BY <1>2, <2>1, OneIs
<1>7. Back \in Seq(TraceEvent) /\ Lines(Back) = BackLines(b)
      /\ \A k \in 1..Len(Back) : Back[k].is # "MISS"
  BY <1>2, BackIs, BackEvents
<1>8. ~ Inserted.full
  <2>1. CASE Policy = "LRU"
    BY <1>1, <1>2, <2>1, LRUInsertion DEF Ready
  <2>2. CASE Policy # "LRU"
    BY <2>2, OnlyLRUIsFull
  <2> QED BY <2>1, <2>2
<1>9. StatesRemoved(cache') = StatesRemoved(Inserted.cache)
  BY <1>1, <1>2, <1>8, InsertedIsBack DEF Ready
<1>14. Len(hit) = 1 /\ hit[1].is = "HIT" /\ hit[1].at = state
  BY DEF Plain, Event
<1> HIDE DEF b, hit
<1>10. CASE StatesRemoved(Inserted.cache) # 0
  BY <1>1, <1>6, <1>7, <1>10, EvictedIdeal DEF hit
<1>11. CASE StatesRemoved(Inserted.cache) = 0 /\ Key(state) \in GivenKeys
  <2>1. /\ es \in Seq(TraceEvent)
        /\ Lines(es) = <<Note("QUERY")>> \o Lines(hit) \o Lines(Back)
    BY <1>6, <1>7, <1>11, AnsweredLines
  <2>2. /\ Said(init_state, b, GivenKeys) = HitLines(b)
        /\ Goes(init_state, b, GivenKeys) = BackTo(b)
        /\ Gives(init_state, b, GivenKeys) = GivenKeys \union {Key(state)}
    BY <1>1, <1>3, <1>11 DEF Said, Goes, Gives
  <2>3. HitLines(b) = <<Note("QUERY")>> \o <<Note("HIT")>> \o BackLines(b)
    BY DEF HitLines
  <2>4. Lines(es) = SaidNow
    BY <1>6, <1>7, <2>1, <2>2, <2>3 DEF SaidNow, b
  <2>6. GivenKeys \union {Key(state)} = GivenKeys
    BY <1>11
  <2> HIDE DEF es
  <2>5. IdealTurn(es)
    BY <1>4, <1>5, <1>9, <1>11, <2>1, <2>2, <2>4, <2>6, Matched DEF b
  <2> QED BY <2>5 DEF es, hit
<1>12. CASE StatesRemoved(Inserted.cache) = 0 /\ Key(state) \notin GivenKeys
  <2>1. Policy = "BITMAP"
    BY <1>1, <1>12, QueryFacts DEF Comparable
  <2> DEFINE q == <<Plain("QUERY", state)>>
             u == Asked \o hit
  <2>2. Asked = q /\ Asked \in Seq(TraceEvent) /\ Len(q) = 1 /\ q[1] = Plain("QUERY", state)
    BY <1>12, AskedIs
  <2>3. Plain("QUERY", state).is # "MISS"
    BY DEF Plain, Event
  <2> HIDE DEF q
  <2>4. /\ u \in Seq(TraceEvent) /\ Len(u) = Len(Asked) + Len(hit)
        /\ \A k \in 1..Len(Asked) : u[k] = Asked[k]
        /\ \A k \in 1..Len(hit) : u[Len(Asked) + k] = hit[k]
    BY <1>6, <2>2, EventsJoined
  <2>5. Len(u) = 2 /\ u[1] = Plain("QUERY", state) /\ u[2] = hit[1]
    <3>1. 1 \in 1..1 /\ 1 + 1 = 2
      OBVIOUS
    <3> QED BY <1>14, <2>2, <2>4, <3>1
  <2> HIDE DEF u
  <2>6. /\ es \in Seq(TraceEvent) /\ Len(es) = Len(u) + Len(Back) /\ Len(Back) \in Nat
        /\ \A k \in 1..Len(u) : es[k] = u[k]
        /\ \A k \in 1..Len(Back) : es[Len(u) + k] = Back[k]
    BY <1>7, <2>4, EventsJoined DEF u
  <2> HIDE DEF es
  <2>7. /\ 1 \in 1..Len(u) /\ 2 \in 1..Len(u) /\ 2 \in 1..Len(es) /\ Len(es) >= 1
    BY <2>5, <2>6
  <2>8. es[1] = Plain("QUERY", state) /\ es[2].is = "HIT" /\ es[2].at = state
    BY <1>14, <2>5, <2>6, <2>7
  <2>9. \A k \in 1..Len(es) : es[k].is # "MISS"
    <3>1. SUFFICES ASSUME NEW k \in 1..Len(es) PROVE es[k].is # "MISS"
      OBVIOUS
    <3>2. CASE k = 1
      BY <2>3, <2>8, <3>2
    <3>3. CASE k = 2
      BY <2>8, <3>3
    <3>4. CASE k # 1 /\ k # 2
      <4>1. k - 2 \in 1..Len(Back) /\ Len(u) + (k - 2) = k
        BY <2>5, <2>6, <3>4
      <4>2. es[k] = Back[k - 2]
        BY <2>6, <4>1
      <4> QED BY <1>7, <4>1, <4>2
    <3> QED BY <3>2, <3>3, <3>4
  <2>10. trace \in Seq(TraceEvent) /\ MissesGiven
    BY DEF Ready
  <2>11. Len(trace) + 2 \in Bad(trace \o es)
    BY <1>12, <2>1, <2>6, <2>7, <2>8, <2>9, <2>10, BadAt
  <2>12. IdealTurn(es)
    BY <1>1, <2>6, <2>7, <2>8, <2>11, QueryOnly
  <2> QED BY <2>12 DEF es, hit
<1> QED BY <1>10, <1>11, <1>12

LEMMA EndIdeal ==
  ASSUME Comparable, Ready
  PROVE  /\ MemLimit => IdealTurn(<<Plain("QUERY", state)>>)
         /\ TimeOut => IdealTurn(<<Plain("TIMEOUT", state)>>)
         /\ Terminate => IdealTurn(<<Plain("TERMINATED", state)>>)
         /\ Solve => IdealTurn(<<Plain("SOLVED", state)>>)
<1>1. /\ PathInv /\ state \in State /\ NullMove \in Move /\ GameIsSound
      /\ trace \in Seq(TraceEvent)
  BY ReadyFacts DEF Comparable, Ready
<1>2. ASSUME NEW is \in {"QUERY", "TIMEOUT", "TERMINATED", "SOLVED"}
      PROVE  /\ <<Plain(is, state)>> \in Seq(TraceEvent) /\ Len(<<Plain(is, state)>>) = 1
             /\ <<Plain(is, state)>>[1] = Plain(is, state) /\ Plain(is, state).is = is
             /\ Lines(<<Plain(is, state)>>) = <<Note(is)>>
  <2>1. is \in Names
    BY DEF Names
  <2> QED BY <1>1, <2>1, OneIs DEF Plain, Event
<1>3. ASSUME MemLimit
      PROVE  IdealTurn(<<Plain("QUERY", state)>>)
  <2>1. ~ Solved(state) /\ DominanceMove(state) = NoMove /\ result' # "NONE"
    BY <1>3 DEF MemLimit, Turn, InBudget, Running
  <2> DEFINE es == <<Plain("QUERY", state)>>
  <2>2. es \in Seq(TraceEvent) /\ Len(es) = 1 /\ es[1] = Plain("QUERY", state)
    BY <1>2
  <2> HIDE DEF es
  <2>3. IdealTurn(es)
    BY <2>1, <2>2, QueryOnly
  <2> QED BY <2>3 DEF es
<1>4. ASSUME Solve
      PROVE  IdealTurn(<<Plain("SOLVED", state)>>)
  <2> DEFINE es == <<Plain("SOLVED", state)>>
  <2>1. Solved(state) /\ result' # "NONE"
    BY <1>4 DEF Solve
  <2>2. es \in Seq(TraceEvent) /\ Lines(es) = <<Note("SOLVED")>>
    BY <1>2
  <2>3. Reached(init_state, Bare(frontier)) = state
    BY <1>1, IsReached
  <2>4. SaidNow = <<Note("SOLVED")>>
    BY <2>1, <2>3 DEF SaidNow, Said
  <2> HIDE DEF es
  <2>5. IdealTurn(es)
    BY <2>1, <2>2, <2>4, Matched
  <2> QED BY <2>5 DEF es
<1>5. ASSUME NEW is \in {"TIMEOUT", "TERMINATED"}
      PROVE  IdealTurn(<<Plain(is, state)>>)
  <2> DEFINE es == <<Plain(is, state)>>
             n == Len(trace)
  <2>1. es \in Seq(TraceEvent) /\ Len(es) = 1 /\ es[1].is = is /\ 1 \in 1..Len(es)
    BY <1>2
  <2> HIDE DEF es
  <2>2. n + 1 \in Bad(trace \o es)
    BY <1>1, <2>1, BadAt
  <2>3. n \in Nat
    BY <1>1
  <2>4. \A j \in 1..Len(es) : n + 1 \in 1..(n + j)
    BY <2>1, <2>3
  <2>5. IdealTurn(es)
    BY <2>1, <2>2, <2>4 DEF IdealTurn
  <2> QED BY <2>5 DEF es
<1> QED BY <1>3, <1>4, <1>5

-----------------------------------------------------------------------------
(* The ideal search of a deal, turn by turn, up to turn n.                 *)
Start == [frontier |-> <<NewNode(NullMove)>>, given |-> {}, lines |-> <<>>]

Plays(d, h, n) ==
  /\ n \in Nat /\ h[0] = Start
  /\ \A i \in 1..n : h[i] = NextOf(d, h[i - 1])
  /\ \A i \in 0..n : IsSeq(h[i].lines) /\ Begins(h[i].lines, h[n].lines)

LEMMA BeginsAre ==
  ASSUME NEW a, IsSeq(a), NEW b, IsSeq(b), NEW c, IsSeq(c), Begins(a, b), Begins(b, c)
  PROVE  Begins(a, c)
<1>1. Len(a) \in Nat /\ Len(b) \in Nat /\ Len(c) \in Nat
  <2>1. \A l : IsSeq(l) => Len(l) \in Nat
    BY DEF IsSeq
  <2> QED BY <2>1
<1>2. /\ Len(a) <= Len(b) /\ Len(b) <= Len(c)
      /\ \A k \in 1..Len(a) : a[k] = b[k]
      /\ \A k \in 1..Len(b) : b[k] = c[k]
  BY DEF Begins
<1>3. Len(a) <= Len(c) /\ \A k \in 1..Len(a) : a[k] = c[k]
  BY <1>1, <1>2
<1> QED BY <1>3 DEF Begins

LEMMA PlaysOn ==
  ASSUME NEW d, NEW h, NEW n, Plays(d, h, n), IsSeq(Said(d, h[n].frontier, h[n].given))
  PROVE  \E g : /\ Plays(d, g, n + 1) /\ g[n + 1] = NextOf(d, h[n])
<1> DEFINE to == NextOf(d, h[n])
           l == h[n].lines
           u == Said(d, h[n].frontier, h[n].given)
           g == [i \in 0..(n + 1) |-> IF i = n + 1 THEN to ELSE h[i]]
<1>1. /\ n \in Nat /\ h[0] = Start
      /\ \A i \in 1..n : h[i] = NextOf(d, h[i - 1])
      /\ \A i \in 0..n : IsSeq(h[i].lines) /\ Begins(h[i].lines, l)
  BY DEF Plays
<1>2. to.lines = l \o u
  BY DEF NextOf
<1>3. n \in 0..n /\ n + 1 \in Nat /\ n + 1 \in 0..(n + 1) /\ 0 \in 0..(n + 1) /\ 0 # n + 1
  BY <1>1
<1>4. IsSeq(l) /\ IsSeq(u)
  BY <1>1, <1>3
<1>5. g[n + 1] = to /\ \A i \in 0..n : g[i] = h[i]
  BY <1>1
<1> HIDE DEF g, to, l, u
<1>6. IsSeq(to.lines) /\ Begins(l, to.lines)
  BY <1>2, <1>4, SeqsJoined
<1>7. g[0] = Start
  BY <1>1, <1>5
<1>8. ASSUME NEW i \in 1..(n + 1)
      PROVE  g[i] = NextOf(d, g[i - 1])
  <2>1. i - 1 \in 0..n
    BY <1>1
  <2>2. CASE i = n + 1
    BY <1>1, <1>5, <2>1, <2>2 DEF to
  <2>3. CASE i # n + 1
    <3>1. i \in 1..n /\ i \in 0..n
      BY <1>1, <2>3
    <3> QED BY <1>1, <1>5, <2>1, <3>1
  <2> QED BY <2>2, <2>3
<1>9. ASSUME NEW i \in 0..(n + 1)
      PROVE  IsSeq(g[i].lines) /\ Begins(g[i].lines, g[n + 1].lines)
  <2>1. CASE i = n + 1
    <3>1. Len(to.lines) \in Nat
      BY <1>6 DEF IsSeq
    <3>2. Begins(to.lines, to.lines)
      BY <3>1 DEF Begins
    <3> QED BY <1>5, <1>6, <2>1, <3>2
  <2>2. CASE i # n + 1
    <3>1. i \in 0..n
      BY <1>1, <2>2
    <3>2. IsSeq(h[i].lines) /\ Begins(h[i].lines, l)
      BY <1>1, <3>1
    <3>3. Begins(h[i].lines, to.lines)
      BY <1>4, <1>6, <3>2, BeginsAre
    <3> QED BY <1>5, <3>1, <3>2, <3>3
  <2> QED BY <2>1, <2>2
<1>10. Plays(d, g, n + 1)
  BY <1>3, <1>7, <1>8, <1>9 DEF Plays
<1> QED BY <1>5, <1>10 DEF to

(* There is one ideal search of a deal.                                    *)
LEMMA PlaysAreOne ==
  ASSUME NEW d, NEW h, NEW n, Plays(d, h, n), NEW g, NEW m, Plays(d, g, m), n <= m
  PROVE  IsSeq(h[n].lines) /\ IsSeq(g[m].lines) /\ Begins(h[n].lines, g[m].lines)
<1>1. /\ n \in Nat /\ m \in Nat /\ h[0] = Start /\ g[0] = Start
      /\ \A i \in 1..n : h[i] = NextOf(d, h[i - 1])
      /\ \A i \in 1..m : g[i] = NextOf(d, g[i - 1])
      /\ \A i \in 0..n : IsSeq(h[i].lines)
      /\ \A i \in 0..m : IsSeq(g[i].lines) /\ Begins(g[i].lines, g[m].lines)
  BY DEF Plays
<1> DEFINE T == {i \in 0..n : h[i] # g[i]}
<1>2. T = {}
  <2>1. SUFFICES ASSUME T # {} PROVE FALSE
    OBVIOUS
  <2>2. T \subseteq Nat
    OBVIOUS
  <2>3. PICK i \in T : \A j \in T : i <= j
    BY <2>1, <2>2, LeastOf
  <2>4. i \in 0..n /\ h[i] # g[i]
    OBVIOUS
  <2>5. i # 0
    BY <1>1, <2>4
  <2>6. i - 1 \in 0..n /\ i \in 1..n /\ i \in 1..m /\ ~ (i <= i - 1)
    BY <1>1, <2>4, <2>5
  <2>7. h[i - 1] = g[i - 1]
    BY <2>3, <2>6
  <2>8. h[i] = NextOf(d, h[i - 1]) /\ g[i] = NextOf(d, g[i - 1])
    BY <1>1, <2>6
  <2> QED BY <2>4, <2>7, <2>8
<1>3. n \in 0..n /\ n \in 0..m /\ m \in 0..m
  BY <1>1
<1>4. h[n] = g[n]
  BY <1>2, <1>3
<1> QED BY <1>1, <1>3, <1>4

-----------------------------------------------------------------------------
(* Until it goes its own way, the trace of a search is that of the ideal   *)
(* one.                                                                    *)
Here == [frontier |-> Bare(frontier), given |-> GivenKeys, lines |-> Lines(trace)]

Agrees(l, t) ==
  \A k \in 1..Len(t) : Bad(t) \intersect 1..k = {} => k <= Len(l) /\ Line(t[k]) = l[k]

OnIdeal == result = "NONE" /\ halted = "no" /\ request.enabled /\ Bad(trace) = {}

IdealInv ==
  /\ request \in Requests /\ trace \in Seq(TraceEvent) /\ MissesGiven
  /\ \E n, h : /\ Plays(init_state, h, n) /\ Agrees(h[n].lines, trace)
               /\ OnIdeal => h[n] = Here /\ StatesRemoved(cache) = 0

LEMMA InitIdeal ==
  ASSUME GameIsSound, TracedInit
  PROVE  IdealInv
<1>1. /\ trace = <<>> /\ request \in Requests /\ expanded = {} /\ cache = EmptyCache(MaxEntries)
      /\ frontier = <<NewNode(NullMove)>>
  BY DEF TracedInit, Init
<1>2. trace \in Seq(TraceEvent) /\ Len(trace) = 0
  BY <1>1
<1>3. MissesGiven
  BY <1>2 DEF MissesGiven
<1> DEFINE h == [i \in {0} |-> Start]
<1>4. h[0] = Start /\ 0 \in Nat /\ 1..0 = {} /\ \A i \in 0..0 : i = 0
  OBVIOUS
<1>5. IsSeq(Start.lines) /\ Begins(Start.lines, Start.lines) /\ Len(Start.lines) = 0
  <2>1. Start.lines = <<>>
    BY DEF Start
  <2>2. <<>> \in Seq({}) /\ Len(<<>>) = 0
    OBVIOUS
  <2>3. Begins(<<>>, <<>>)
    BY DEF Begins
  <2> QED BY <2>1, <2>2, <2>3 DEF IsSeq
<1> HIDE DEF h
<1>6. Plays(init_state, h, 0)
  BY <1>4, <1>5 DEF Plays
<1>7. Agrees(h[0].lines, trace)
  BY <1>2 DEF Agrees
<1>8. h[0] = Here
  <2>1. Bare(frontier) = frontier
    <3>1. NewNode(NullMove) \in Node
      BY DEF GameIsSound, NewNode, Node
    <3>2. frontier \in Seq(Node) /\ Len(frontier) = 1 /\ frontier[1].cache_state = {}
      BY <1>1, <3>1 DEF NewNode
    <3>3. \A i \in 1..Len(frontier) : frontier[i].cache_state = {}
      BY <3>2
    <3> QED BY <3>2, <3>3, IsBare
  <2>2. GivenKeys = {}
    BY <1>1 DEF GivenKeys
  <2>3. Lines(trace) = <<>>
    BY <1>1 DEF Lines
  <2> QED BY <1>1, <1>4, <2>1, <2>2, <2>3 DEF Here, Start
<1>9. StatesRemoved(cache) = 0
  <2>1. CASE Policy = "LRU"
    BY <1>1, <2>1 DEF EmptyCache, EmptyLRU, StatesRemoved
  <2>2. CASE Policy = "BITMAP"
    BY <2>2 DEF StatesRemoved
  <2>3. CASE Policy # "LRU" /\ Policy # "BITMAP"
    BY <1>1, <2>3 DEF EmptyCache, StatesRemoved
  <2> QED BY <2>1, <2>2, <2>3
<1> QED BY <1>1, <1>2, <1>3, <1>6, <1>7, <1>8, <1>9 DEF IdealInv

(* A search that waits.                                                    *)
LEMMA WaitIdeal ==
  ASSUME IdealInv, UNCHANGED <<init_state, frontier, cache, expanded, result, trace, request>>,
         halted' = "no" => halted = "no"
  PROVE  IdealInv'
<1>1. GivenKeys' = GivenKeys /\ Here' = Here /\ StatesRemoved(cache)' = StatesRemoved(cache)
  BY DEF GivenKeys, Here, Bare, Lines, StatesRemoved
<1>2. OnIdeal' => OnIdeal
  BY DEF OnIdeal, Bad, Own, Mistaken
<1>3. MissesGiven'
  BY <1>1 DEF IdealInv, MissesGiven
<1>4. PICK n, h : /\ Plays(init_state, h, n) /\ Agrees(h[n].lines, trace)
                  /\ OnIdeal => h[n] = Here /\ StatesRemoved(cache) = 0
  BY DEF IdealInv
<1>5. Plays(init_state', h, n) /\ Agrees(h[n].lines, trace')
  BY <1>4
<1>6. OnIdeal' => h[n] = Here' /\ StatesRemoved(cache)' = 0
  BY <1>1, <1>2, <1>4
<1>7. request' \in Requests /\ trace' \in Seq(TraceEvent)
  BY DEF IdealInv
<1> QED BY <1>3, <1>5, <1>6, <1>7 DEF IdealInv

(* The first k events of es were written.                                  *)
PartAdded(es, k) ==
  /\ k \in 0..Len(es) /\ Len(trace) \in Nat /\ Len(es) \in Nat
  /\ trace' \in Seq(TraceEvent) /\ Len(trace') = Len(trace) + k
  /\ \A j \in 1..Len(trace) : trace'[j] = trace[j]
  /\ \A j \in 1..k : trace'[Len(trace) + j] = es[j]
  /\ Begins(trace, trace') /\ Begins(trace', trace \o es)
  /\ halted = "no" /\ halted' = "no" => k = Len(es) /\ trace' = trace \o es

LEMMA WrittenPart ==
  ASSUME trace \in Seq(TraceEvent), NEW es, NEW queried, NEW fresh, es \in Seq(TraceEvent),
         NEW k, Written(es, queried, fresh, k), request.enabled
  PROVE  PartAdded(es, k)
<1> DEFINE part == SubSeq(es, 1, k)
           t == trace'
           u == trace \o es
           n == Len(trace)
           e == Len(es)
<1>1. k \in 0..e /\ t = trace \o part
  BY DEF Written
<1>2. /\ part \in Seq(TraceEvent) /\ Len(part) = k /\ \A j \in 1..k : part[j] = es[j]
  <2>1. k \in Nat /\ k <= Len(es)
    BY <1>1
  <2> QED BY <2>1, InitialPart
<1>3. /\ t \in Seq(TraceEvent) /\ Len(t) = n + Len(part) /\ n \in Nat
      /\ \A j \in 1..n : t[j] = trace[j]
      /\ \A j \in 1..Len(part) : t[n + j] = part[j]
  BY <1>1, <1>2, EventsJoined
<1>4. /\ u \in Seq(TraceEvent) /\ Len(u) = n + e /\ e \in Nat
      /\ \A j \in 1..n : u[j] = trace[j]
      /\ \A j \in 1..e : u[n + j] = es[j]
  BY EventsJoined
<1>5. halted = "no" /\ halted' = "no" => k = e /\ t = u
  <2>1. SUFFICES ASSUME halted = "no", halted' = "no" PROVE k = e /\ t = u
    OBVIOUS
  <2>2. k = e
    BY <2>1 DEF Written
  <2>3. part = es
    BY <2>2, SubSeqFull
  <2> QED BY <1>1, <2>2, <2>3
<1> HIDE DEF t, u, n, e, part
<1>6. Begins(trace, t)
  BY <1>2, <1>3, <1>1 DEF Begins, n
<1>7. Begins(t, u)
  <2>1. Len(t) <= Len(u)
    BY <1>1, <1>2, <1>3, <1>4
  <2>2. ASSUME NEW j \in 1..Len(t) PROVE t[j] = u[j]
    <3>1. CASE j <= n
      <4>1. j \in 1..n
        BY <1>3, <3>1
      <4> QED BY <1>3, <1>4, <4>1
    <3>2. CASE ~ (j <= n)
      <4>1. j - n \in 1..k /\ j - n \in 1..e /\ n + (j - n) = j /\ j - n \in 1..Len(part)
        BY <1>1, <1>2, <1>3, <1>4, <3>2
      <4>2. t[n + (j - n)] = part[j - n] /\ u[n + (j - n)] = es[j - n]
        BY <1>3, <1>4, <4>1
      <4> QED BY <1>2, <4>1, <4>2
    <3> QED BY <3>1, <3>2
  <2> QED BY <2>1, <2>2 DEF Begins
<1>8. \A j \in 1..k : t[n + j] = es[j]
  BY <1>2, <1>3
<1>9. k \in 0..e /\ n \in Nat /\ e \in Nat /\ t \in Seq(TraceEvent) /\ Len(t) = n + k
  BY <1>1, <1>2, <1>3, <1>4
<1> QED BY <1>3, <1>5, <1>6, <1>7, <1>8, <1>9 DEF t, u, n, e, PartAdded

LEMMA WrittenIdeal ==
  ASSUME GameIsSound, PathInv, IdealInv, halted = "no", result = "NONE",
         UNCHANGED <<request, init_state>>,
         NEW es, NEW queried, NEW fresh, TurnEvents(es, queried, fresh),
         NEW k, Written(es, queried, fresh, k),
         OnIdeal /\ StatesRemoved(cache) = 0 => IdealTurn(es),
         GivenKeys \subseteq GivenKeys', fresh => Key(state) \in GivenKeys'
  PROVE  IdealInv'
<1>1. /\ trace \in Seq(TraceEvent) /\ request \in Requests /\ MissesGiven
      /\ es \in Seq(TraceEvent) /\ request.enabled \in BOOLEAN
  BY RequestsAssumption DEF IdealInv, TurnEvents
<1>2. PICK n, h : /\ Plays(init_state, h, n) /\ Agrees(h[n].lines, trace)
                  /\ OnIdeal => h[n] = Here /\ StatesRemoved(cache) = 0
  BY DEF IdealInv
<1>3. CASE ~ request.enabled
  <2>1. trace' = trace
    BY <1>3 DEF Written
  <2>2. MissesGiven'
    BY <1>1, <2>1 DEF MissesGiven
  <2>3. ~ OnIdeal'
    BY <1>3 DEF OnIdeal
  <2>4. Plays(init_state', h, n) /\ Agrees(h[n].lines, trace')
    BY <1>2, <2>1
  <2>5. request' \in Requests /\ trace' \in Seq(TraceEvent)
    BY <1>1, <2>1
  <2> QED BY <2>2, <2>3, <2>4, <2>5 DEF IdealInv
<1>4. CASE request.enabled
  <2> DEFINE t == trace'
             u == trace \o es
             m == Len(trace)
  <2>1. /\ k \in 0..Len(es) /\ t \in Seq(TraceEvent) /\ Len(t) = m + k
        /\ m \in Nat /\ Len(es) \in Nat
        /\ \A j \in 1..m : t[j] = trace[j]
        /\ \A j \in 1..k : t[m + j] = es[j]
        /\ Begins(trace, t) /\ Begins(t, u)
        /\ halted' = "no" => k = Len(es) /\ t = u
    <3>1. trace \in Seq(TraceEvent) /\ es \in Seq(TraceEvent) /\ Written(es, queried, fresh, k)
          /\ request.enabled
      BY <1>1, <1>4
    <3>2. PartAdded(es, k)
      BY ONLY <3>1, WrittenPart
    <3> QED BY <3>2 DEF PartAdded
  <2>2. u \in Seq(TraceEvent)
    BY <1>1, EventsJoined
  <2>3. Bad(trace) = Bad(t) \intersect 1..m /\ Bad(t) = Bad(u) \intersect 1..(m + k)
    BY <1>1, <2>1, <2>2, BadBefore
  <2> HIDE DEF t, u, m
  <2>4. MissesGiven'
    <3>1. SUFFICES ASSUME NEW j \in 1..Len(t), t[j].is = "MISS" PROVE Key(t[j].at) \in GivenKeys'
      BY DEF MissesGiven, t
    <3>2. CASE j <= m
      <4>1. j \in 1..m /\ t[j] = trace[j]
        BY <2>1, <3>2
      <4>2. Key(trace[j].at) \in GivenKeys
        BY <1>1, <3>1, <4>1 DEF MissesGiven, m
      <4> QED BY <4>1, <4>2
    <3>3. CASE ~ (j <= m)
      <4>1. j - m \in 1..k /\ j - m \in 1..Len(es) /\ m + (j - m) = j
        BY <2>1, <3>3
      <4>2. t[m + (j - m)] = es[j - m]
        BY <2>1, <4>1
      <4>3. fresh /\ es[j - m].at = state
        BY <3>1, <4>1, <4>2 DEF TurnEvents
      <4> QED BY <4>1, <4>2, <4>3
    <3> QED BY <3>2, <3>3
  <2>5. t \in Seq(TraceEvent) /\ request' \in Requests
    BY <1>1, <2>1
  <2>6. CASE Bad(trace) # {}
    <3>1. ASSUME NEW j \in 1..Len(t), Bad(t) \intersect 1..j = {}
          PROVE  j <= Len(h[n].lines) /\ Line(t[j]) = h[n].lines[j]
      <4>1. j <= m
        <5>1. SUFFICES ASSUME ~ (j <= m) PROVE FALSE
          OBVIOUS
        <5>2. 1..m \subseteq 1..j
          BY <2>1, <5>1
        <5> QED BY <2>3, <2>6, <3>1, <5>2
      <4>2. j \in 1..m /\ t[j] = trace[j] /\ 1..j \subseteq 1..m
        BY <2>1, <4>1
      <4>3. Bad(trace) \intersect 1..j = {}
        BY <2>3, <3>1
      <4> QED BY <1>2, <4>2, <4>3 DEF Agrees, m
    <3>2. Agrees(h[n].lines, t)
      BY <3>1 DEF Agrees
    <3>3. ~ OnIdeal'
      <4>1. Bad(t) # {}
        BY <2>3, <2>6
      <4>2. Bad(trace)' = Bad(t)
        BY DEF Bad, Own, Mistaken, t
      <4> QED BY <4>1, <4>2 DEF OnIdeal
    <3> QED BY <1>2, <2>4, <2>5, <3>2, <3>3 DEF IdealInv, t
  <2>7. CASE Bad(trace) = {}
    <3> DEFINE b == Bare(frontier)
               l == Lines(trace)
    <3>1. OnIdeal
      BY <1>4, <2>7 DEF OnIdeal
    <3>2. h[n] = Here /\ IdealTurn(es)
      BY <1>2, <3>1
    <3>3. h[n].frontier = b /\ h[n].given = GivenKeys /\ h[n].lines = l
      BY <3>2 DEF Here
    <3>4. Said(init_state, h[n].frontier, h[n].given) = SaidNow
      BY <3>3 DEF SaidNow
    <3>5. IsSeq(SaidNow)
      <4>1. Len(b) \in Nat /\ TargetIn(b) \in 1..Len(b)
        BY IsReached
      <4> QED BY <4>1, SaidIsSeq DEF SaidNow
    <3>6. PICK g : Plays(init_state, g, n + 1) /\ g[n + 1] = NextOf(init_state, h[n])
      BY <1>2, <3>4, <3>5, PlaysOn
    <3>7. g[n + 1].lines = l \o SaidNow
      BY <3>3, <3>4, <3>6 DEF NextOf
    <3>8. IsSeq(l) /\ Len(l) = m /\ \A j \in 1..m : l[j] = Line(trace[j])
      BY <2>1, LinesAre DEF m
    <3> HIDE DEF b, l
    <3>9. /\ Len(l \o SaidNow) = Len(l) + Len(SaidNow) /\ Len(SaidNow) \in Nat
          /\ \A j \in 1..Len(l) : (l \o SaidNow)[j] = l[j]
          /\ \A j \in 1..Len(SaidNow) : (l \o SaidNow)[Len(l) + j] = SaidNow[j]
      <4>1. IsSeq(l) /\ IsSeq(SaidNow)
        BY <3>5, <3>8
      <4>2. Joins(l, SaidNow, l \o SaidNow)
        BY ONLY <4>1, SeqsJoin
      <4> QED BY <4>2 DEF Joins
    <3>10. /\ Len(l \o SaidNow) = m + Len(SaidNow)
           /\ \A j \in 1..m : (l \o SaidNow)[j] = l[j]
           /\ \A j \in 1..Len(SaidNow) : (l \o SaidNow)[m + j] = SaidNow[j]
      BY <3>8, <3>9
    <3>11. ASSUME NEW j \in 1..Len(t), Bad(t) \intersect 1..j = {}
           PROVE  j <= Len(l \o SaidNow) /\ Line(t[j]) = (l \o SaidNow)[j]
      <4>1. CASE j <= m
        <5>1. j \in 1..m /\ t[j] = trace[j] /\ j <= m + Len(SaidNow)
          BY <2>1, <3>9, <4>1
        <5> QED BY <3>8, <3>10, <5>1
      <4>2. CASE ~ (j <= m)
        <5> DEFINE i == j - m
        <5>1. i \in 1..k /\ i \in 1..Len(es) /\ m + i = j /\ 1..j \subseteq 1..(m + k)
          BY <2>1, <4>2
        <5> HIDE DEF i
        <5>2. Bad(u) \intersect 1..(m + i) = {}
          BY <2>3, <3>11, <5>1
        <5>3. i <= Len(SaidNow) /\ Line(es[i]) = SaidNow[i]
          BY <3>2, <5>1, <5>2 DEF IdealTurn, u, m
        <5>4. i \in 1..Len(SaidNow) /\ j <= m + Len(SaidNow)
          <6>1. i \in Nat /\ i > 0 /\ m \in Nat /\ m + i = j
            BY <2>1, <5>1
          <6> QED BY <3>9, <5>3, <6>1
        <5>5. t[m + i] = es[i] /\ (l \o SaidNow)[m + i] = SaidNow[i]
          BY <2>1, <3>10, <5>1, <5>4
        <5> QED BY <3>10, <5>1, <5>3, <5>4, <5>5
      <4> QED BY <4>1, <4>2
    <3>12. Agrees(g[n + 1].lines, t)
      BY <3>7, <3>11 DEF Agrees
    <3>13. ASSUME OnIdeal'
           PROVE  g[n + 1] = Here' /\ StatesRemoved(cache)' = 0
      <4>1. halted' = "no" /\ result' = "NONE" /\ Bad(t) = {}
        <5>1. Bad(trace)' = Bad(t)
          BY DEF Bad, Own, Mistaken, t
        <5> QED BY <3>13, <5>1 DEF OnIdeal
      <4>2. t = u
        BY <2>1, <4>1
      <4>3. /\ Lines(es) = SaidNow
            /\ Bare(frontier') = Goes(init_state, b, GivenKeys)
            /\ GivenKeys' = Gives(init_state, b, GivenKeys)
            /\ StatesRemoved(cache') = 0
        BY <3>2, <4>1, <4>2 DEF IdealTurn, u, b
      <4>4. Lines(u) = l \o SaidNow
        <5>1. Lines(trace \o es) = Lines(trace) \o Lines(es)
          BY <1>1, LinesJoined
        <5> QED BY <4>3, <5>1 DEF u, l
      <4>5. g[n + 1] = [frontier |-> Bare(frontier'), given |-> GivenKeys', lines |-> Lines(u)]
        BY <3>3, <3>4, <3>6, <4>3, <4>4 DEF NextOf
      <4>6. Here' = [frontier |-> Bare(frontier'), given |-> GivenKeys', lines |-> Lines(t)]
        BY DEF Here, Bare, Lines, t
      <4>7. StatesRemoved(cache)' = StatesRemoved(cache')
        BY DEF StatesRemoved
      <4> QED BY <4>2, <4>3, <4>5, <4>6, <4>7
    <3>14. Plays(init_state', g, n + 1)
      BY <3>6
    <3>15. \E x, y : /\ Plays(init_state', y, x) /\ Agrees(y[x].lines, t)
                     /\ OnIdeal' => y[x] = Here' /\ StatesRemoved(cache)' = 0
      BY <3>12, <3>13, <3>14
    <3> QED BY <2>4, <2>5, <3>15 DEF IdealInv, t
  <2> QED BY <2>6, <2>7
<1> QED BY <1>1, <1>3, <1>4

LEMMA TurnIdeal ==
  ASSUME Comparable, BooksInv, PlacedInv, KnowInv, Policy = "LRU" => LRUInv, IdealInv,
         result = "NONE", UNCHANGED init_state, GivenKeys \subseteq GivenKeys',
         NEW es, NEW queried, NEW fresh, Emitted(es, queried, fresh),
         fresh => Key(state) \in GivenKeys', Ready => IdealTurn(es)
  PROVE  IdealInv'
<1>1. /\ halted = "no" /\ UNCHANGED request
      /\ TurnEvents(es, queried, fresh) /\ Emits(es, queried, fresh)
  BY DEF Emitted
<1>2. PICK k : Written(es, queried, fresh, k)
  BY <1>1, EmitsWrites
<1>3. StatesRemoved(cache) = 0 => Ready
  BY DEF IdealInv, Ready, LRUInv
<1>4. GameIsSound /\ PathInv
  BY DEF Comparable, BooksInv
<1>5. OnIdeal /\ StatesRemoved(cache) = 0 => IdealTurn(es)
  BY <1>3
<1> QED BY <1>1, <1>2, <1>4, <1>5, WrittenIdeal

LEMMA NextIdeal ==
  ASSUME Comparable, BooksInv, PlacedInv, KnowInv, Policy = "LRU" => LRUInv, IdealInv,
         [TracedNext]_traced_vars
  PROVE  IdealInv'
<1>1. GameIsSound /\ PathInv /\ CountInv
  BY DEF Comparable, BooksInv
<1>2. CASE TracedDominate
  <2>1. /\ Dominate /\ result = "NONE" /\ UNCHANGED init_state
        /\ expanded' = expanded \union {state} /\ DominanceMove(state) # NoMove
    BY <1>2 DEF TracedDominate, Dominate, Turn, InBudget, Running, GoDown
  <2> DEFINE m == DominanceMove(state)
             es == Down(m, Apply(state, m), res.depth + 1)
  <2>2. Emitted(es, 0, FALSE)
    BY <1>1, <1>2, DominateEmits
  <2>3. Ready => IdealTurn(es)
    BY <2>1, DominateIdeal
  <2>4. GivenKeys' = GivenKeys
    BY <2>1, GivenMore
  <2> HIDE DEF es
  <2> QED BY <2>1, <2>2, <2>3, <2>4, TurnIdeal
<1>3. CASE TracedExpand
  <2>1. /\ Expand /\ result = "NONE" /\ UNCHANGED init_state
        /\ expanded' = expanded \union {state} /\ DominanceMove(state) = NoMove
    BY <1>3 DEF TracedExpand, Expand, Turn, InBudget, Running, GoDown
  <2> DEFINE m == Last(Moves)
             es == Asked \o Missed \o Down(m, Apply(state, m), res.depth + 1)
  <2>2. Emitted(es, Len(Asked), TRUE)
    BY <1>1, <1>3, ExpandEmits
  <2>3. Ready => IdealTurn(es)
    BY <2>1, ExpandIdeal
  <2>4. GivenKeys' = GivenKeys \union {Key(state)}
    BY <2>1, GivenMore
  <2> HIDE DEF es
  <2>5. GivenKeys \subseteq GivenKeys' /\ Key(state) \in GivenKeys'
    BY <2>4
  <2> QED BY <2>1, <2>2, <2>3, <2>5, TurnIdeal
<1>4. CASE TracedDeadEnd
  <2>1. /\ DeadEnd /\ result = "NONE" /\ UNCHANGED init_state
        /\ expanded' = expanded \union {state} /\ DominanceMove(state) = NoMove
    BY <1>4 DEF TracedDeadEnd, DeadEnd, Turn, InBudget, Running
  <2> DEFINE es == Asked \o Missed \o Back
  <2>2. Emitted(es, Len(Asked), TRUE)
    BY <1>1, <1>4, DeadEndEmits
  <2>3. Ready => IdealTurn(es)
    BY <2>1, DeadEndIdeal
  <2>4. GivenKeys' = GivenKeys \union {Key(state)}
    BY <2>1, GivenMore
  <2> HIDE DEF es
  <2>5. GivenKeys \subseteq GivenKeys' /\ Key(state) \in GivenKeys'
    BY <2>4
  <2> QED BY <2>1, <2>2, <2>3, <2>5, TurnIdeal
<1>5. CASE TracedDuplicate
  <2>1. Duplicate /\ result = "NONE" /\ UNCHANGED <<init_state, expanded>>
    BY <1>5 DEF TracedDuplicate, Duplicate, Turn, InBudget, Running
  <2> DEFINE es == Asked \o <<Plain("HIT", state)>> \o Back
  <2>2. Emitted(es, Len(Asked), FALSE)
    BY <1>1, <1>5, DuplicateEmits
  <2>3. Ready => IdealTurn(es)
    BY <2>1, DuplicateIdeal
  <2>4. GivenKeys' = GivenKeys
    BY <2>1, GivenMore
  <2> HIDE DEF es
  <2> QED BY <2>1, <2>2, <2>3, <2>4, TurnIdeal
<1>6. CASE TracedMemLimit \/ TracedEnd
  <2>1. PICK is \in {"QUERY", "TIMEOUT", "TERMINATED", "SOLVED"} :
          /\ Unhalted /\ Emits(<<Plain(is, state)>>, 0, FALSE)
          /\ \/ is = "QUERY" /\ MemLimit
             \/ is = "TIMEOUT" /\ TimeOut
             \/ is = "TERMINATED" /\ Terminate
             \/ is = "SOLVED" /\ Solve
    BY <1>6 DEF TracedMemLimit, TracedEnd
  <2>2. result = "NONE" /\ UNCHANGED <<init_state, expanded>>
    BY <2>1 DEF MemLimit, TimeOut, Terminate, Solve, Turn, InBudget, Running
  <2>3. Emitted(<<Plain(is, state)>>, 0, FALSE)
    BY <1>1, <2>1, EndEmits
  <2>4. Ready => IdealTurn(<<Plain(is, state)>>)
    BY <2>1, EndIdeal
  <2>5. GivenKeys' = GivenKeys
    BY <2>2, GivenMore
  <2> QED BY <2>2, <2>3, <2>4, <2>5, TurnIdeal
<1>7. CASE TracedEnvironment \/ UNCHANGED traced_vars
  <2>1. UNCHANGED <<init_state, frontier, cache, expanded, result, trace, request, halted>>
    BY <1>7 DEF TracedEnvironment, Clock, Signal, search, traced_vars, vars, tracing
  <2> QED BY <2>1, WaitIdeal
<1> QED BY <1>2, <1>3, <1>4, <1>5, <1>6, <1>7 DEF TracedNext, TracedDfs

(* Two searches of one deal that agree with the ideal one agree.           *)
LEMMA BothAgree ==
  ASSUME NEW d, NEW h, NEW n, Plays(d, h, n), NEW g, NEW m, Plays(d, g, m)
  PROVE  \A k : /\ k \in 1..Len(h[n].lines) /\ k \in 1..Len(g[m].lines)
                => h[n].lines[k] = g[m].lines[k]
<1>1. n \in Nat /\ m \in Nat
  BY DEF Plays
<1>2. CASE n <= m
  <2>1. Begins(h[n].lines, g[m].lines)
    BY <1>2, PlaysAreOne
  <2> QED BY <2>1 DEF Begins
<1>3. CASE m <= n
  <2>1. Begins(g[m].lines, h[n].lines)
    BY <1>3, PlaysAreOne
  <2> QED BY <2>1 DEF Begins
<1> QED BY <1>1, <1>2, <1>3

-----------------------------------------------------------------------------
(* The course of a search: what the cache knows, and what the trace says.  *)
CourseInv == PlacedInv /\ KnowInv /\ IdealInv

LEMMA InitCourse ==
  ASSUME Comparable, TracedInit
  PROVE  CourseInv
<1>1. GameIsSound /\ PositionsAreClosed /\ HashesTell /\ Policy \in ExactPolicies \union {"BITMAP"}
  BY DEF Comparable
<1>2. Init
  BY DEF TracedInit
<1> QED BY <1>1, <1>2, InitKnow, InitIdeal DEF CourseInv

LEMMA NextCourse ==
  ASSUME Comparable, BooksInv, Policy = "LRU" => LRUInv, CourseInv, [TracedNext]_traced_vars
  PROVE  CourseInv'
<1>1. /\ GameIsSound /\ PositionsAreClosed /\ HashesTell
      /\ Policy \in ExactPolicies \union {"BITMAP"} /\ (Policy = "BITMAP" => NumBits # 0)
  BY DEF Comparable
<1>2. PlacedInv /\ KnowInv /\ IdealInv
  BY DEF CourseInv
<1>3. [Next]_vars
  BY TracedIsNext
<1>4. PlacedInv' /\ KnowInv'
  BY <1>1, <1>2, <1>3, NextPlaced, NextKnow
<1>5. IdealInv'
  BY <1>2, NextIdeal
<1> QED BY <1>4, <1>5 DEF CourseInv

LEMMA WaitCourse ==
  ASSUME CourseInv,
         UNCHANGED <<init_state, frontier, cache, expanded, result, trace, request>>,
         halted' = "no" => halted = "no"
  PROVE  CourseInv'
<1>1. PlacedInv /\ KnowInv /\ IdealInv
  BY DEF CourseInv
<1>2. PlacedInv'
  BY <1>1 DEF PlacedInv, Path, Nodes
<1>3. GivenKeys' = GivenKeys
  BY DEF GivenKeys
<1>4. StatesRemoved(cache)' = StatesRemoved(cache)
  BY DEF StatesRemoved
<1>5. Knows(cache, GivenKeys)' <=> Knows(cache, GivenKeys)
  BY <1>3 DEF Knows, CacheContains
<1>6. KnowInv'
  BY <1>1, <1>4, <1>5 DEF KnowInv, CacheCounts, FlatTyped
<1>7. IdealInv'
  BY <1>1, WaitIdeal
<1> QED BY <1>2, <1>6, <1>7 DEF CourseInv
=============================================================================
