---------------------------- MODULE SolverProofs ----------------------------
(***************************************************************************)
(* What the solver does on every sound game, with caches of every size and *)
(* budgets of every kind.                                                  *)
(***************************************************************************)
EXTENDS Solver, SequenceTheorems, FiniteSetTheorems, WellFoundedInduction, TLAPS

-----------------------------------------------------------------------------
(* The states that moves lead through.                                     *)

LEMMA LessIsWellFounded ==
  IsWellFoundedOn({ss \in Nat \X Nat : ss[1] < ss[2]}, Nat)
  BY NatLessThanWellFounded DEF OpToRel

LEMMA LeastOf ==
  ASSUME NEW T, T \subseteq Nat, T # {}
  PROVE  \E x \in T : \A y \in T : x <= y
<1> DEFINE R == {ss \in Nat \X Nat : ss[1] < ss[2]}
<1>1. IsWellFoundedOn(R, Nat)
  BY LessIsWellFounded
<1> HIDE DEF R
<1>2. PICK x \in T : \A y \in T : ~ (<<y, x>> \in R)
  BY <1>1, WFMin
<1>3. ASSUME NEW y \in T
      PROVE  x <= y
  <2>1. x \in Nat /\ y \in Nat /\ ~ (<<y, x>> \in R)
    BY <1>2
  <2>2. ~ (y < x)
    BY <2>1 DEF R
  <2> QED BY <2>1, <2>2
<1> QED BY <1>3

LEMMA PlayExists ==
  ASSUME NEW d, NEW moves, Len(moves) \in Nat
  PROVE  \E g : g = [i \in 1..(Len(moves) + 1) |->
                       IF i = 1 THEN d ELSE Apply(g[i - 1], moves[i - 1])]
<1> DEFINE Has(n) == \E g : g = [i \in 1..(n + 1) |->
                                   IF i = 1 THEN d ELSE Apply(g[i - 1], moves[i - 1])]
           T == {n \in Nat : ~ Has(n)}
<1>1. Has(0)
  <2> DEFINE g == [i \in 1..(0 + 1) |-> d]
  <2>1. g = [i \in 1..(0 + 1) |-> IF i = 1 THEN d ELSE Apply(g[i - 1], moves[i - 1])]
    OBVIOUS
  <2> QED BY <2>1
<1>2. ASSUME NEW n \in Nat, n # 0, Has(n - 1)
      PROVE  Has(n)
  <2>1. PICK g : g = [i \in 1..(n - 1 + 1) |->
                        IF i = 1 THEN d ELSE Apply(g[i - 1], moves[i - 1])]
    BY <1>2
  <2> DEFINE h == [i \in 1..(n + 1) |-> IF i <= n THEN g[i] ELSE Apply(g[n], moves[n])]
  <2>2. ASSUME NEW i \in 1..(n + 1)
        PROVE  h[i] = IF i = 1 THEN d ELSE Apply(h[i - 1], moves[i - 1])
    <3>1. CASE i <= n
      <4>1. i \in 1..(n - 1 + 1) /\ i \in 1..n
        BY <1>2, <3>1
      <4>2. g[i] = IF i = 1 THEN d ELSE Apply(g[i - 1], moves[i - 1])
        BY <2>1, <4>1
      <4>3. h[i] = g[i]
        BY <3>1
      <4>4. i # 1 => i - 1 \in 1..(n + 1) /\ i - 1 <= n
        BY <1>2, <4>1
      <4>5. i # 1 => h[i - 1] = g[i - 1]
        BY <4>4
      <4> QED BY <4>2, <4>3, <4>5
    <3>2. CASE ~ (i <= n)
      <4>1. i = n + 1 /\ i # 1 /\ i - 1 = n /\ n \in 1..(n + 1) /\ n <= n
        BY <1>2, <3>2
      <4>2. h[n] = g[n]
        BY <4>1
      <4>3. h[i] = Apply(g[n], moves[n])
        BY <3>2
      <4> QED BY <4>1, <4>2, <4>3
    <3> QED BY <3>1, <3>2
  <2>3. h = [i \in 1..(n + 1) |-> h[i]]
    OBVIOUS
  <2>4. h = [i \in 1..(n + 1) |-> IF i = 1 THEN d ELSE Apply(h[i - 1], moves[i - 1])]
    <3> HIDE DEF h
    <3> QED BY <2>2, <2>3
  <2> QED BY <2>4
<1> HIDE DEF Has
<1>3. T = {}
  <2>1. SUFFICES ASSUME T # {} PROVE FALSE
    OBVIOUS
  <2>2. PICK n \in T : \A m \in T : n <= m
    BY <2>1, LeastOf
  <2>3. n # 0
    BY <1>1, <2>2
  <2>4. n - 1 \in Nat /\ ~ (n <= n - 1)
    BY <2>3
  <2>5. Has(n - 1)
    BY <2>2, <2>4
  <2> QED BY <1>2, <2>3, <2>5
<1>4. Has(Len(moves))
  BY <1>3
<1> QED BY <1>4 DEF Has

LEMMA PlayedStates ==
  ASSUME NEW d, NEW moves, Len(moves) \in Nat
  PROVE  /\ Played(d, moves) = [i \in 1..(Len(moves) + 1) |-> Played(d, moves)[i]]
         /\ DOMAIN Played(d, moves) = 1..(Len(moves) + 1)
         /\ Played(d, moves)[1] = d
         /\ \A i \in 1..Len(moves) :
              Played(d, moves)[i + 1] = Apply(Played(d, moves)[i], moves[i])
<1> DEFINE p == Played(d, moves)
           n == Len(moves)
<1>1. p = [i \in 1..(n + 1) |-> IF i = 1 THEN d ELSE Apply(p[i - 1], moves[i - 1])]
  BY PlayExists DEF Played
<1> HIDE DEF p
<1>2. DOMAIN p = 1..(n + 1)
  BY <1>1
<1>3. p[1] = d
  BY <1>1
<1>4. ASSUME NEW i \in 1..n
      PROVE  p[i + 1] = Apply(p[i], moves[i])
  <2>1. i + 1 \in 1..(n + 1) /\ i + 1 # 1 /\ i + 1 - 1 = i
    OBVIOUS
  <2>2. p[i + 1] = Apply(p[i + 1 - 1], moves[i + 1 - 1])
    BY <1>1, <2>1
  <2> QED BY <2>1, <2>2
<1>5. p = [i \in 1..(n + 1) |-> p[i]]
  BY <1>1
<1> QED BY <1>2, <1>3, <1>4, <1>5 DEF p

(* The first k of the states g are those that moves lead through from d.   *)
Leads(g, d, moves, k) ==
  /\ k \in Nat /\ Len(moves) \in Nat /\ k <= Len(moves) + 1
  /\ g[1] = d
  /\ \A i \in 1..(k - 1) : g[i + 1] = Apply(g[i], moves[i])

LEMMA PlayedIsUnique ==
  ASSUME NEW d, NEW moves, NEW k, NEW g, Leads(g, d, moves, k)
  PROVE  \A i \in 1..k : Played(d, moves)[i] = g[i]
<1> DEFINE p == Played(d, moves)
           T == {i \in Nat : i \in 1..k /\ p[i] # g[i]}
<1>1. /\ p[1] = d
      /\ \A i \in 1..Len(moves) : p[i + 1] = Apply(p[i], moves[i])
  BY PlayedStates DEF Leads
<1>0. /\ k \in Nat /\ Len(moves) \in Nat /\ k <= Len(moves) + 1
      /\ g[1] = d
      /\ \A i \in 1..(k - 1) : g[i + 1] = Apply(g[i], moves[i])
  BY DEF Leads
<1> HIDE DEF p
<1>2. T = {}
  <2>1. SUFFICES ASSUME T # {} PROVE FALSE
    OBVIOUS
  <2>2. PICK n \in T : \A m \in T : n <= m
    BY <2>1, LeastOf
  <2>3. n # 1 /\ n \in 1..k /\ p[n] # g[n]
    BY <1>0, <1>1, <2>2
  <2>4. n - 1 \in 1..k /\ ~ (n <= n - 1) /\ n - 1 \in 1..(k - 1) /\ n - 1 \in 1..Len(moves)
    BY <1>0, <2>3
  <2>5. p[n - 1] = g[n - 1]
    BY <2>2, <2>4
  <2>6. p[n - 1 + 1] = Apply(p[n - 1], moves[n - 1]) /\ g[n - 1 + 1] = Apply(g[n - 1], moves[n - 1])
    BY <1>0, <1>1, <2>4
  <2>7. n - 1 + 1 = n
    BY <2>3
  <2> QED BY <2>3, <2>5, <2>6, <2>7
<1>3. ASSUME NEW i \in 1..k
      PROVE  p[i] = g[i]
  BY <1>0, <1>2
<1> QED BY <1>3 DEF p

(* The states that a frontier f leads through from a deal d.               *)
PathOf(d, f) == Played(d, [i \in 1..(Len(f) - 1) |-> f[i + 1].mv])

LEMMA PathStates ==
  ASSUME NEW d, NEW f, Len(f) \in Nat, Len(f) > 0
  PROVE  /\ PathOf(d, f) = [i \in 1..Len(f) |-> PathOf(d, f)[i]]
         /\ DOMAIN PathOf(d, f) = 1..Len(f)
         /\ PathOf(d, f)[1] = d
         /\ \A i \in 1..(Len(f) - 1) :
              PathOf(d, f)[i + 1] = Apply(PathOf(d, f)[i], f[i + 1].mv)
<1> DEFINE n == Len(f)
           moves == [i \in 1..(n - 1) |-> f[i + 1].mv]
<1>1. n - 1 \in Nat /\ n - 1 + 1 = n
  OBVIOUS
<1>2. Len(moves) = n - 1
  <2> HIDE DEF n
  <2> QED BY <1>1
<1>3. \A i \in 1..(n - 1) : moves[i] = f[i + 1].mv
  OBVIOUS
<1>4. PathOf(d, f) = Played(d, moves)
  BY DEF PathOf
<1> HIDE DEF moves, n
<1> QED BY <1>1, <1>2, <1>3, <1>4, PlayedStates DEF n

LEMMA SamePath ==
  ASSUME NEW d, NEW f, Len(f) \in Nat, NEW g, Len(g) \in Nat, Len(g) > 0,
         NEW k \in Nat, k <= Len(f), k <= Len(g), k > 0,
         \A i \in 1..(k - 1) : g[i + 1].mv = f[i + 1].mv
  PROVE  \A i \in 1..k : PathOf(d, g)[i] = PathOf(d, f)[i]
<1> DEFINE n == Len(g)
           moves == [i \in 1..(n - 1) |-> g[i + 1].mv]
           p == PathOf(d, f)
<1>1. n - 1 \in Nat /\ n - 1 + 1 = n
  OBVIOUS
<1>2. Len(moves) = n - 1
  <2> HIDE DEF n
  <2> QED BY <1>1
<1>3. \A i \in 1..(k - 1) : i \in 1..(n - 1) /\ i \in 1..(Len(f) - 1)
  OBVIOUS
<1>4. \A i \in 1..(k - 1) : moves[i] = f[i + 1].mv
  BY <1>3
<1>5. p[1] = d /\ \A i \in 1..(k - 1) : p[i + 1] = Apply(p[i], f[i + 1].mv)
  BY <1>3, PathStates
<1>6. PathOf(d, g) = Played(d, moves)
  BY DEF PathOf
<1>7. k <= n
  OBVIOUS
<1> HIDE DEF moves, n, p
<1>8. \A i \in 1..(k - 1) : p[i + 1] = Apply(p[i], moves[i])
  BY <1>4, <1>5
<1>9. Len(moves) \in Nat /\ k <= Len(moves) + 1
  BY <1>1, <1>2, <1>7
<1>10. Leads(p, d, moves, k)
  BY <1>5, <1>8, <1>9 DEF Leads
<1>11. \A i \in 1..k : Played(d, moves)[i] = p[i]
  BY <1>10, PlayedIsUnique
<1> QED BY <1>6, <1>11 DEF p

-----------------------------------------------------------------------------
(* The frontiers of a search from a deal d: their nodes lead from the deal *)
(* by moves of the game, and only the last may be solved.                  *)
SearchPath(d, f) ==
  /\ d \in State
  /\ f \in Seq(Node) /\ Len(f) > 0
  /\ f[1].mv = NullMove
  /\ \A i \in 1..(Len(f) - 1) :
       /\ f[i + 1].mv \in MovesOf(PathOf(d, f)[i])
       /\ ~ Solved(PathOf(d, f)[i])
  /\ \A i \in 1..Len(f) :
       /\ PathOf(d, f)[i] \in State
       /\ Range(f[i].child_moves) \subseteq MovesOf(PathOf(d, f)[i])

(* The frontier below f, by the last child of its last node.               *)
LastChild(f) == f[Len(f)].child_moves[Len(f[Len(f)].child_moves)]

OtherChildren(f) ==
  SubSeq(f[Len(f)].child_moves, 1, Len(f[Len(f)].child_moves) - 1)

Below(f) ==
  Append([f EXCEPT ![Len(f)].child_moves = OtherChildren(f)], NewNode(LastChild(f)))

LEMMA InitialPart ==
  ASSUME NEW S, NEW s \in Seq(S), NEW k \in Nat, k <= Len(s)
  PROVE  /\ SubSeq(s, 1, k) \in Seq(S) /\ Len(SubSeq(s, 1, k)) = k
         /\ \A i \in 1..k : SubSeq(s, 1, k)[i] = s[i]
<1> DEFINE h == SubSeq(s, 1, k)
<1>1. 1 \in Int /\ k \in Int /\ \A i \in 1..k : s[i] \in S
  OBVIOUS
<1>2. /\ h \in Seq(S) /\ Len(h) = IF 1 <= k THEN k - 1 + 1 ELSE 0
      /\ \A i \in 1..(k - 1 + 1) : h[i] = s[1 + i - 1]
  BY <1>1, SubSeqProperties
<1> HIDE DEF h
<1>3. \A i \in 1..k : i \in 1..(k - 1 + 1) /\ 1 + i - 1 = i
  OBVIOUS
<1> QED BY <1>2, <1>3 DEF h

LEMMA ChildMoves ==
  ASSUME NEW f \in Seq(Node), Len(f) > 0, f[Len(f)].child_moves # <<>>
  PROVE  /\ LastChild(f) \in Move /\ LastChild(f) \in Range(f[Len(f)].child_moves)
         /\ OtherChildren(f) \in Seq(Move)
         /\ Range(OtherChildren(f)) \subseteq Range(f[Len(f)].child_moves)
         /\ NewNode(LastChild(f)) \in Node
<1> DEFINE moves == f[Len(f)].child_moves
           n == Len(moves)
<1>1. moves \in Seq(Move) /\ n \in Nat /\ n > 0
  <2>1. f[Len(f)] \in Node
    OBVIOUS
  <2> QED BY <2>1 DEF Node
<1> HIDE DEF moves
<1>2. /\ SubSeq(moves, 1, n - 1) \in Seq(Move) /\ Len(SubSeq(moves, 1, n - 1)) = n - 1
      /\ \A i \in 1..(n - 1) : SubSeq(moves, 1, n - 1)[i] = moves[i]
  <2>1. n - 1 \in Nat /\ n - 1 <= Len(moves)
    BY <1>1
  <2> QED BY <1>1, <2>1, InitialPart
<1>3. n \in DOMAIN moves
  BY <1>1
<1>4. moves[n] \in Move /\ moves[n] \in Range(moves)
  BY <1>1, <1>3 DEF Range
<1>5. Range(SubSeq(moves, 1, n - 1)) \subseteq Range(moves)
  <2> DEFINE h == SubSeq(moves, 1, n - 1)
  <2>1. DOMAIN h = 1..(n - 1) /\ DOMAIN moves = 1..n
    BY <1>1, <1>2
  <2>2. \A i \in 1..(n - 1) : h[i] = moves[i]
    BY <1>2
  <2>3. \A i \in 1..(n - 1) : i \in 1..n
    BY <1>1
  <2> HIDE DEF h, n
  <2> QED BY <2>1, <2>2, <2>3 DEF Range, h
<1>6. NewNode(moves[n]) \in Node
  BY <1>4 DEF NewNode, Node
<1> QED BY <1>2, <1>4, <1>5, <1>6 DEF LastChild, OtherChildren, moves

LEMMA BelowNodes ==
  ASSUME NEW f \in Seq(Node), Len(f) > 0, f[Len(f)].child_moves # <<>>
  PROVE  /\ Below(f) \in Seq(Node) /\ Len(Below(f)) = Len(f) + 1
         /\ \A i \in 1..(Len(f) - 1) : Below(f)[i] = f[i]
         /\ Below(f)[Len(f)] = [f[Len(f)] EXCEPT !.child_moves = OtherChildren(f)]
         /\ Below(f)[Len(f) + 1] = NewNode(LastChild(f))
<1> DEFINE n == Len(f)
           last == [f[n] EXCEPT !.child_moves = OtherChildren(f)]
           h == [f EXCEPT ![n] = last]
           new == NewNode(LastChild(f))
<1>1. n \in Nat /\ n \in 1..n /\ f[n] \in Node
  OBVIOUS
<1>2. last \in Node /\ new \in Node
  BY <1>1, ChildMoves DEF Node
<1>3. h \in Seq(Node) /\ Len(h) = n
  BY <1>1, <1>2
<1>4. h[n] = last /\ \A i \in 1..(n - 1) : h[i] = f[i]
  BY <1>1
<1>5. Below(f) = Append(h, new)
  BY DEF Below
<1> HIDE DEF h, new, last
<1>6. /\ Append(h, new) \in Seq(Node) /\ Len(Append(h, new)) = n + 1
      /\ Append(h, new)[n + 1] = new
      /\ \A i \in 1..n : Append(h, new)[i] = h[i]
  BY <1>2, <1>3
<1>7. \A i \in 1..(n - 1) : i \in 1..n
  OBVIOUS
<1> QED BY <1>1, <1>4, <1>5, <1>6, <1>7 DEF new, last

(* set_to_child and make_move lead from a search path to a longer one.     *)
LEMMA BelowPath ==
  ASSUME GameIsSound, NEW d, NEW f, SearchPath(d, f), f[Len(f)].child_moves # <<>>,
         ~ Solved(PathOf(d, f)[Len(f)])
  PROVE  /\ SearchPath(d, Below(f))
         /\ \A i \in 1..Len(f) : PathOf(d, Below(f))[i] = PathOf(d, f)[i]
         /\ PathOf(d, Below(f))[Len(f) + 1] = Apply(PathOf(d, f)[Len(f)], LastChild(f))
         /\ LastChild(f) \in MovesOf(PathOf(d, f)[Len(f)])
<1> DEFINE n == Len(f)
           b == Below(f)
           p == PathOf(d, f)
           q == PathOf(d, b)
           m == LastChild(f)
<1>1. f \in Seq(Node) /\ n \in Nat /\ n > 0
  BY DEF SearchPath
<1>2. /\ b \in Seq(Node) /\ Len(b) = n + 1
      /\ \A i \in 1..(n - 1) : b[i] = f[i]
      /\ b[n] = [f[n] EXCEPT !.child_moves = OtherChildren(f)]
      /\ b[n + 1] = NewNode(m)
  BY <1>1, BelowNodes
<1>3. /\ m \in Range(f[n].child_moves)
      /\ Range(OtherChildren(f)) \subseteq Range(f[n].child_moves)
  BY <1>1, ChildMoves
<1>4. /\ \A i \in 1..n : p[i] \in State /\ Range(f[i].child_moves) \subseteq MovesOf(p[i])
      /\ \A i \in 1..(n - 1) : f[i + 1].mv \in MovesOf(p[i]) /\ ~ Solved(p[i])
      /\ d \in State /\ f[1].mv = NullMove
  BY DEF SearchPath
<1>5. n \in 1..n
  BY <1>1
<1>6. m \in MovesOf(p[n]) /\ Apply(p[n], m) \in State
  BY <1>3, <1>4, <1>5 DEF GameIsSound
<1> HIDE DEF b, p, q, m
<1>7. f[n] \in Node
  BY <1>1
<1>8. /\ b[n].mv = f[n].mv /\ b[n].child_moves = OtherChildren(f)
      /\ b[n + 1].mv = m /\ b[n + 1].child_moves = <<>>
  BY <1>2, <1>7 DEF Node, NewNode
<1>9. \A i \in 1..n : b[i].mv = f[i].mv
  <2>1. \A i \in 1..n : i \in 1..(n - 1) \/ i = n
    BY <1>1
  <2> QED BY <1>2, <1>8, <2>1
<1>10. \A i \in 1..n : q[i] = p[i]
  <2>1. \A i \in 1..(n - 1) : i + 1 \in 1..n
    BY <1>1
  <2>2. \A i \in 1..(n - 1) : b[i + 1].mv = f[i + 1].mv
    BY <1>9, <2>1
  <2>3. Len(b) \in Nat /\ Len(b) > 0 /\ n <= Len(b) /\ n <= Len(f)
    BY <1>1, <1>2
  <2> HIDE DEF n
  <2> QED BY <1>1, <2>2, <2>3, SamePath DEF p, q, n
<1>11. q[n + 1] = Apply(p[n], m)
  <2>1. Len(b) \in Nat /\ Len(b) > 0 /\ n \in 1..(Len(b) - 1)
    BY <1>1, <1>2
  <2>2. q[n + 1] = Apply(q[n], b[n + 1].mv)
    BY <2>1, PathStates DEF q
  <2> QED BY <1>5, <1>8, <1>10, <2>2
<1>12. \A i \in 1..n :
         /\ b[i + 1].mv \in MovesOf(q[i])
         /\ ~ Solved(q[i])
         /\ q[i] \in State
         /\ Range(b[i].child_moves) \subseteq MovesOf(q[i])
  <2>1. ASSUME NEW i \in 1..n
        PROVE  /\ b[i + 1].mv \in MovesOf(q[i])
               /\ ~ Solved(q[i])
               /\ q[i] \in State
               /\ Range(b[i].child_moves) \subseteq MovesOf(q[i])
    <3>1. CASE i = n
      BY <1>3, <1>4, <1>6, <1>8, <1>10, <3>1 DEF p
    <3>2. CASE i # n
      <4>1. i \in 1..(n - 1) /\ i + 1 \in 1..n
        BY <1>1, <3>2
      <4> QED BY <1>2, <1>4, <1>9, <1>10, <4>1
    <3> QED BY <3>1, <3>2
  <2> QED BY <2>1
<1>13. q[n + 1] \in State /\ Range(b[n + 1].child_moves) \subseteq MovesOf(q[n + 1])
  <2>1. Range(<<>>) = {}
    BY DEF Range
  <2> QED BY <1>6, <1>8, <1>11, <2>1
<1>14. SearchPath(d, b)
  <2>1. b[1].mv = NullMove
    <3>1. 1 \in 1..n
      BY <1>1
    <3> QED BY <1>4, <1>9, <3>1
  <2>2. \A i \in 1..(Len(b) - 1) : i \in 1..n
    BY <1>1, <1>2
  <2>3. \A i \in 1..Len(b) : i \in 1..n \/ i = n + 1
    BY <1>1, <1>2
  <2>4. Len(b) > 0
    BY <1>1, <1>2
  <2> HIDE DEF n
  <2> QED BY <1>2, <1>4, <1>12, <1>13, <2>1, <2>2, <2>3, <2>4 DEF SearchPath, q
<1> QED BY <1>6, <1>10, <1>11, <1>14 DEF b, p, q, m

(* A part of a search path from its root is one.                           *)
LEMMA PartOfPath ==
  ASSUME NEW d, NEW f, SearchPath(d, f), NEW k \in 1..Len(f)
  PROVE  /\ SearchPath(d, SubSeq(f, 1, k)) /\ Len(SubSeq(f, 1, k)) = k
         /\ \A i \in 1..k : /\ SubSeq(f, 1, k)[i] = f[i]
                            /\ PathOf(d, SubSeq(f, 1, k))[i] = PathOf(d, f)[i]
<1> DEFINE g == SubSeq(f, 1, k)
           p == PathOf(d, f)
           q == PathOf(d, g)
<1>1. f \in Seq(Node) /\ Len(f) \in Nat /\ k \in Nat /\ k > 0 /\ k <= Len(f)
  BY DEF SearchPath
<1>2. g \in Seq(Node) /\ Len(g) = k /\ \A i \in 1..k : g[i] = f[i]
  BY <1>1, InitialPart
<1>3. /\ \A i \in 1..Len(f) : p[i] \in State /\ Range(f[i].child_moves) \subseteq MovesOf(p[i])
      /\ \A i \in 1..(Len(f) - 1) : f[i + 1].mv \in MovesOf(p[i]) /\ ~ Solved(p[i])
      /\ d \in State /\ f[1].mv = NullMove
  BY DEF SearchPath
<1> HIDE DEF g, p, q
<1>4. /\ \A i \in 1..(k - 1) : i + 1 \in 1..k /\ i \in 1..k /\ i \in 1..(Len(f) - 1)
      /\ \A i \in 1..k : i \in 1..Len(f)
      /\ 1 \in 1..k
  BY <1>1
<1>5. \A i \in 1..k : q[i] = p[i]
  <2>1. \A i \in 1..(k - 1) : g[i + 1].mv = f[i + 1].mv
    BY <1>2, <1>4
  <2>2. Len(g) \in Nat /\ Len(g) > 0 /\ k <= Len(g)
    BY <1>1, <1>2
  <2> QED BY <1>1, <2>1, <2>2, SamePath DEF p, q
<1>6. SearchPath(d, g)
  BY <1>1, <1>2, <1>3, <1>4, <1>5 DEF SearchPath, q
<1> QED BY <1>2, <1>5, <1>6 DEF g, p, q

(* Other children and iterators do not change where a path leads.          *)
SameMoves(d, f, g) ==
  /\ g \in Seq(Node) /\ Len(g) = Len(f)
  /\ \A i \in 1..Len(f) : /\ g[i].mv = f[i].mv
                           /\ Range(g[i].child_moves) \subseteq MovesOf(PathOf(d, f)[i])

LEMMA SameMovesPath ==
  ASSUME NEW d, NEW f, SearchPath(d, f), NEW g, SameMoves(d, f, g)
  PROVE  SearchPath(d, g) /\ \A i \in 1..Len(f) : PathOf(d, g)[i] = PathOf(d, f)[i]
<1> DEFINE n == Len(f)
           p == PathOf(d, f)
           q == PathOf(d, g)
<1>1. n \in Nat /\ n > 0
  BY DEF SearchPath
<1>2. /\ \A i \in 1..n : p[i] \in State
      /\ \A i \in 1..(n - 1) : f[i + 1].mv \in MovesOf(p[i]) /\ ~ Solved(p[i])
      /\ d \in State /\ f[1].mv = NullMove
  BY DEF SearchPath
<1>3. \A i \in 1..n : g[i].mv = f[i].mv /\ Range(g[i].child_moves) \subseteq MovesOf(p[i])
  BY DEF SameMoves
<1>4. Len(g) = n /\ g \in Seq(Node)
  BY DEF SameMoves
<1> HIDE DEF p, q, n
<1>5. (\A i \in 1..(n - 1) : i + 1 \in 1..n /\ i \in 1..n) /\ 1 \in 1..n
  BY <1>1
<1>6. \A i \in 1..n : q[i] = p[i]
  <2>1. \A i \in 1..(n - 1) : g[i + 1].mv = f[i + 1].mv
    BY <1>3, <1>5
  <2>2. Len(f) \in Nat /\ Len(g) \in Nat /\ Len(g) > 0 /\ n <= Len(g) /\ n <= Len(f)
    BY <1>1, <1>4 DEF n
  <2> QED BY <1>1, <2>1, <2>2, SamePath DEF p, q
<1>7. SearchPath(d, g)
  BY <1>1, <1>2, <1>3, <1>4, <1>5, <1>6 DEF SearchPath, q
<1> QED BY <1>6, <1>7 DEF p, q, n

-----------------------------------------------------------------------------
(* Going back.                                                             *)

LEMMA GreatestOf ==
  ASSUME NEW n \in Nat, NEW T, T \subseteq 1..n, T # {}
  PROVE  \E x \in T : \A y \in T : y <= x
<1> DEFINE U == {k \in Nat : \E y \in T : k = n - y}
<1>1. U # {} /\ U \subseteq Nat
  <2>1. PICK y \in T : TRUE
    OBVIOUS
  <2>2. n - y \in U
    BY <2>1
  <2> QED BY <2>2
<1> HIDE DEF U
<1>2. PICK k \in U : \A l \in U : k <= l
  BY <1>1, LeastOf
<1>3. PICK x \in T : k = n - x
  BY <1>2 DEF U
<1>4. ASSUME NEW y \in T
      PROVE  y <= x
  <2>1. n - y \in U
    BY DEF U
  <2>2. k <= n - y
    BY <1>2, <2>1
  <2> QED BY <1>3, <2>2
<1> QED BY <1>4

LEMMA TargetIsLast ==
  ASSUME Len(frontier) \in Nat, Len(frontier) > 0
  PROVE  /\ Target \in 1..Len(frontier)
         /\ OpenNodes = {} => Target = 1
         /\ OpenNodes # {} => /\ Target \in OpenNodes /\ Target < Len(frontier)
                              /\ \A j \in OpenNodes : j <= Target
<1>1. CASE OpenNodes = {}
  BY <1>1 DEF Target
<1>2. CASE OpenNodes # {}
  <2>1. OpenNodes \subseteq 1..(Len(frontier) - 1) /\ Len(frontier) - 1 \in Nat
    BY DEF OpenNodes
  <2>2. \E i \in OpenNodes : \A j \in OpenNodes : j <= i
    BY <1>2, <2>1, GreatestOf
  <2>3. Target \in OpenNodes /\ \A j \in OpenNodes : j <= Target
    BY <1>2, <2>2 DEF Target
  <2> QED BY <1>2, <2>1, <2>3
<1> QED BY <1>1, <1>2

(* undo_move, however often, leads back along the path.                    *)
LEMMA UndoneIsPath ==
  ASSUME SearchPath(init_state, frontier), state = Path[Len(frontier)]
  PROVE  /\ \A i \in 1..Len(frontier) : Undone[i] = Path[i]
         /\ StateAt = Path[Target] /\ Target \in 1..Len(frontier)
<1> DEFINE n == Len(frontier)
           p == PathOf(init_state, frontier)
           u == CHOOSE g : g = [i \in 1..n |-> IF i = n THEN state
                                              ELSE Undo(g[i + 1], frontier[i + 1].mv)]
           T == {i \in 1..n : u[i] # p[i]}
<1>1. n \in Nat /\ n > 0 /\ p = Path
  BY DEF SearchPath, Path, PathOf
<1>2. DOMAIN p = 1..n /\ \A i \in 1..(n - 1) : p[i + 1] = Apply(p[i], frontier[i + 1].mv)
  BY <1>1, PathStates
<1>3. /\ \A i \in 1..n : p[i] \in State
      /\ \A i \in 1..(n - 1) : frontier[i + 1].mv \in MovesOf(p[i])
  BY DEF SearchPath
<1>4. Undone = u
  BY DEF Undone
<1>5. p[n] = state
  BY <1>1
<1> HIDE DEF p, n
<1>6. \A i \in 1..(n - 1) : p[i] = Undo(p[i + 1], frontier[i + 1].mv)
  <2>1. \A i \in 1..(n - 1) : i \in 1..n
    BY <1>1
  <2> QED BY <1>2, <1>3, <2>1, UndoAssumption
<1>7. u = [i \in 1..n |-> IF i = n THEN state ELSE Undo(u[i + 1], frontier[i + 1].mv)]
  <2>1. ASSUME NEW i \in 1..n
        PROVE  p[i] = IF i = n THEN state ELSE Undo(p[i + 1], frontier[i + 1].mv)
    <3>1. i = n \/ i \in 1..(n - 1)
      BY <1>1
    <3> QED BY <1>5, <1>6, <3>1
  <2>2. p = [i \in 1..n |-> p[i]]
    BY <1>1, PathStates DEF p, n
  <2>3. p = [i \in 1..n |-> IF i = n THEN state ELSE Undo(p[i + 1], frontier[i + 1].mv)]
    BY <2>1, <2>2
  <2> QED BY <2>3
<1> HIDE DEF u
<1>8. T = {}
  <2>1. SUFFICES ASSUME T # {} PROVE FALSE
    OBVIOUS
  <2>2. PICK k \in T : \A j \in T : j <= k
    BY <1>1, <2>1, GreatestOf
  <2>3. k # n
    BY <1>1, <1>5, <1>7, <2>2
  <2>4. k \in 1..(n - 1) /\ k + 1 \in 1..n /\ ~ (k + 1 <= k) /\ k \in 1..n /\ u[k] # p[k]
    BY <1>1, <2>2, <2>3
  <2>5. u[k + 1] = p[k + 1]
    BY <2>2, <2>4
  <2>6. u[k] = Undo(u[k + 1], frontier[k + 1].mv)
    BY <1>7, <2>3, <2>4
  <2> QED BY <1>6, <2>4, <2>5, <2>6
<1>9. Target \in 1..n
  BY <1>1, TargetIsLast DEF n
<1>10. \A i \in 1..n : Undone[i] = Path[i]
  BY <1>1, <1>4, <1>8
<1> QED BY <1>9, <1>10 DEF StateAt, n

-----------------------------------------------------------------------------
(* The turns of the loop.                                                  *)

(* The frontier is a path of moves of the game from the deal, all of whose *)
(* states but the last were expanded, to the state of the solver.          *)
PathInv ==
  /\ SearchPath(init_state, frontier)
  /\ state = Path[Len(frontier)]
  /\ frontier[Len(frontier)].child_moves = <<>>
  /\ expanded \subseteq State
  /\ \A i \in 1..(Len(frontier) - 1) : Path[i] \in expanded

LEMMA PathIsPathOf == Path = PathOf(init_state, frontier)
  BY DEF Path, PathOf

LEMMA PathFacts ==
  ASSUME PathInv
  PROVE  /\ frontier \in Seq(Node) /\ Len(frontier) \in Nat /\ Len(frontier) > 0
         /\ init_state \in State /\ state \in State /\ expanded \subseteq State
         /\ \A i \in 1..Len(frontier) : /\ Path[i] \in State
                                        /\ Range(frontier[i].child_moves) \subseteq MovesOf(Path[i])
         /\ \A i \in 1..(Len(frontier) - 1) : ~ Solved(Path[i])
<1>1. SearchPath(init_state, frontier) /\ state = Path[Len(frontier)] /\ expanded \subseteq State
  BY DEF PathInv
<1>2. frontier \in Seq(Node) /\ Len(frontier) \in Nat /\ Len(frontier) > 0
  BY <1>1 DEF SearchPath
<1>3. Len(frontier) \in 1..Len(frontier)
  BY <1>2
<1> QED BY <1>1, <1>2, <1>3, PathIsPathOf DEF SearchPath

LEMMA MarkedNodes ==
  ASSUME PathInv
  PROVE  /\ Marked \in Seq(Node) /\ Len(Marked) = Len(frontier)
         /\ \A i \in 1..(Len(frontier) - 1) : Marked[i] = frontier[i]
         /\ \A i \in 1..Len(frontier) :
              Marked[i].mv = frontier[i].mv /\ Marked[i].child_moves = frontier[i].child_moves
         /\ Marked[Len(frontier)].cache_state =
              IF ComputesHash THEN frontier[Len(frontier)].cache_state ELSE {Key(state)}
<1> DEFINE n == Len(frontier)
           last == [frontier[n] EXCEPT !.cache_state = {Key(state)}]
<1>1. /\ frontier \in Seq(Node) /\ n \in Nat /\ n > 0
      /\ n \in 1..n /\ state \in State /\ frontier[n] \in Node
  BY PathFacts
<1>2. CASE ComputesHash
  BY <1>1, <1>2 DEF Marked
<1>3. CASE ~ ComputesHash
  <2>1. Marked = [frontier EXCEPT ![n] = last]
    BY <1>3 DEF Marked
  <2>2. {Key(state)} \in SUBSET {Key(s) : s \in State}
    BY <1>1
  <2>3. /\ last \in Node /\ last.mv = frontier[n].mv
        /\ last.child_moves = frontier[n].child_moves /\ last.cache_state = {Key(state)}
    BY <1>1, <2>2 DEF Node
  <2> HIDE DEF last
  <2>4. Marked \in Seq(Node) /\ Len(Marked) = n
    BY <1>1, <2>1, <2>3
  <2>5. Marked[n] = last /\ \A i \in 1..n : i # n => Marked[i] = frontier[i]
    BY <1>1, <2>1
  <2>6. \A i \in 1..(n - 1) : i \in 1..n /\ i # n
    BY <1>1
  <2> HIDE DEF n
  <2> QED BY <1>3, <2>3, <2>4, <2>5, <2>6 DEF n
<1> QED BY <1>2, <1>3

(* GoDown, from the frontier or the marked one.                            *)
LEMMA DownStep ==
  ASSUME GameIsSound, PathInv, ~ Solved(state), UNCHANGED init_state,
         NEW f \in Seq(Node), Len(f) = Len(frontier),
         \A i \in 1..Len(frontier) :
           f[i].mv = frontier[i].mv /\ f[i].child_moves = frontier[i].child_moves,
         NEW moves \in Seq(Move), moves # <<>>, Range(moves) \subseteq MovesOf(state),
         GoDown(f, moves)
  PROVE  LET n == Len(frontier)
         IN /\ PathInv'
            /\ Len(frontier') = n + 1
            /\ \A i \in 1..n : Path'[i] = Path[i]
            /\ \A i \in 1..n : frontier'[i].mv = frontier[i].mv
            /\ frontier'[n + 1] = NewNode(moves[Len(moves)])
            /\ frontier'[n].child_moves = SubSeq(moves, 1, Len(moves) - 1)
            /\ \A i \in 1..(n - 1) : frontier'[i].child_moves = frontier[i].child_moves
            /\ \A i \in 1..n : frontier'[i].cache_state = f[i].cache_state
            /\ state' = Apply(state, moves[Len(moves)])
            /\ moves[Len(moves)] \in MovesOf(state)
<1> DEFINE n == Len(frontier)
           last == [f[n] EXCEPT !.child_moves = moves]
           g == [f EXCEPT ![n] = last]
<1>1. /\ frontier \in Seq(Node) /\ n \in Nat /\ n > 0 /\ n \in 1..n
      /\ state \in State /\ state = Path[n] /\ expanded \subseteq State
  BY PathFacts DEF PathInv
<1>2. f[n] \in Node
  BY <1>1
<1>3. /\ last \in Node /\ last.mv = f[n].mv /\ last.child_moves = moves
      /\ last.cache_state = f[n].cache_state
  BY <1>2 DEF Node
<1>4. g = [f EXCEPT ![Len(f)].child_moves = moves]
  OBVIOUS
<1> HIDE DEF last
<1>5. /\ g \in Seq(Node) /\ Len(g) = n /\ g[n] = last
      /\ \A i \in 1..n : i # n => g[i] = f[i]
  BY <1>1, <1>3
<1>6. /\ frontier' = Append([g EXCEPT ![Len(g)].child_moves =
                              SubSeq(g[Len(g)].child_moves, 1, Len(g[Len(g)].child_moves) - 1)],
                            NewNode(g[Len(g)].child_moves[Len(g[Len(g)].child_moves)]))
      /\ state' = Apply(state, g[Len(g)].child_moves[Len(g[Len(g)].child_moves)])
      /\ expanded' = expanded \union {state}
  BY <1>4 DEF GoDown, Descended
<1> HIDE DEF g
<1>7. frontier' = Below(g) /\ state' = Apply(state, LastChild(g))
  BY <1>6 DEF Below, LastChild, OtherChildren
<1>8. g[n].child_moves = moves /\ g[Len(g)].child_moves # <<>>
  BY <1>3, <1>5
<1>9. \A i \in 1..n : /\ g[i].mv = frontier[i].mv
                      /\ g[i].cache_state = f[i].cache_state
                      /\ i # n => g[i].child_moves = frontier[i].child_moves
  BY <1>1, <1>3, <1>5
<1>10. \A i \in 1..n : Range(g[i].child_moves) \subseteq MovesOf(PathOf(init_state, frontier)[i])
  <2>1. \A i \in 1..n : Range(frontier[i].child_moves) \subseteq MovesOf(Path[i])
    BY PathFacts
  <2> QED BY <1>1, <1>8, <1>9, <2>1, PathIsPathOf
<1>11. /\ SearchPath(init_state, g)
       /\ \A i \in 1..n : PathOf(init_state, g)[i] = Path[i]
  <2>1. SearchPath(init_state, frontier)
    BY DEF PathInv
  <2>2. \A i \in 1..Len(frontier) :
          /\ g[i].mv = frontier[i].mv
          /\ Range(g[i].child_moves) \subseteq MovesOf(PathOf(init_state, frontier)[i])
    BY <1>9, <1>10
  <2>3. SameMoves(init_state, frontier, g)
    BY <1>5, <2>2 DEF SameMoves
  <2>4. /\ SearchPath(init_state, g)
        /\ \A i \in 1..Len(frontier) : PathOf(init_state, g)[i] = PathOf(init_state, frontier)[i]
    BY <2>1, <2>3, SameMovesPath
  <2> QED BY <2>4, PathIsPathOf
<1>12. /\ SearchPath(init_state, Below(g))
       /\ \A i \in 1..n : PathOf(init_state, Below(g))[i] = Path[i]
       /\ PathOf(init_state, Below(g))[n + 1] = Apply(state, LastChild(g))
       /\ LastChild(g) \in MovesOf(state)
  <2>1. PathOf(init_state, g)[Len(g)] = state
    BY <1>1, <1>5, <1>11
  <2> QED BY <1>1, <1>5, <1>8, <1>11, <2>1, BelowPath
<1>13. /\ Len(Below(g)) = n + 1
       /\ \A i \in 1..(n - 1) : Below(g)[i] = g[i]
       /\ Below(g)[n] = [g[n] EXCEPT !.child_moves = OtherChildren(g)]
       /\ Below(g)[n + 1] = NewNode(LastChild(g))
  BY <1>1, <1>5, <1>8, BelowNodes
<1>14. Path' = PathOf(init_state, frontier')
  BY DEF Path, PathOf
<1>15. LastChild(g) = moves[Len(moves)] /\ OtherChildren(g) = SubSeq(moves, 1, Len(moves) - 1)
  BY <1>5, <1>8 DEF LastChild, OtherChildren
<1>16. /\ Below(g)[n].mv = g[n].mv /\ Below(g)[n].cache_state = g[n].cache_state
       /\ Below(g)[n].child_moves = OtherChildren(g)
  <2>1. g[n] \in Node
    BY <1>1, <1>5
  <2> QED BY <1>13, <2>1 DEF Node
<1>17. \A i \in 1..n : /\ Below(g)[i].mv = frontier[i].mv
                       /\ Below(g)[i].cache_state = f[i].cache_state
                       /\ i # n => Below(g)[i].child_moves = frontier[i].child_moves
  <2>1. \A i \in 1..n : i = n \/ i \in 1..(n - 1)
    BY <1>1
  <2> QED BY <1>1, <1>9, <1>13, <1>16, <2>1
<1>18. PathInv'
  <2>1. frontier'[Len(frontier')].child_moves = <<>>
    BY <1>7, <1>13 DEF NewNode
  <2>2. expanded' \subseteq State
    BY <1>1, <1>6
  <2>3. ASSUME NEW i \in 1..(Len(frontier') - 1)
        PROVE  Path'[i] \in expanded'
    <3>1. i \in 1..n /\ (i = n \/ i \in 1..(n - 1))
      BY <1>1, <1>7, <1>13
    <3>2. Path'[i] = Path[i]
      BY <1>7, <1>12, <1>14, <3>1
    <3>3. i \in 1..(n - 1) => Path[i] \in expanded
      BY DEF PathInv
    <3> QED BY <1>1, <1>6, <3>1, <3>2, <3>3
  <2>4. SearchPath(init_state', frontier')
    BY <1>7, <1>12
  <2>5. state' = Path'[Len(frontier')]
    BY <1>7, <1>12, <1>13, <1>14
  <2> QED BY <2>1, <2>2, <2>3, <2>4, <2>5 DEF PathInv
<1>19. \A i \in 1..(n - 1) : i \in 1..n /\ i # n
  BY <1>1
<1>20. \A i \in 1..n : Path'[i] = Path[i]
  BY <1>7, <1>12, <1>14
<1> HIDE DEF n
<1> QED BY <1>7, <1>8, <1>12, <1>13, <1>15, <1>16, <1>17, <1>18, <1>19, <1>20 DEF n

(* Backtrack, from the marked frontier: to the root, when every node above *)
(* the current one is exhausted, or down from the last that is not.        *)
LEMMA BackStep ==
  ASSUME GameIsSound, PathInv, UNCHANGED init_state, NEW own, NEW c, NEW fresh,
         Backtrack(Marked, own, c, fresh),
         expanded \subseteq expanded', expanded' \subseteq State
  PROVE  LET n == Len(frontier)
             k == Target
             moves == frontier[Target].child_moves
         IN /\ PathInv'
            /\ k \in 1..n
            /\ OpenNodes = {} =>
                 /\ Len(frontier') = 1 /\ result' = "UNSOLVABLE" /\ k = 1
                 /\ Path'[1] = Path[1] /\ frontier'[1].mv = frontier[1].mv
                 /\ frontier'[1].child_moves = frontier[1].child_moves
            /\ OpenNodes # {} =>
                 /\ k < n /\ Len(frontier') = k + 1 /\ result' = result
                 /\ k \in OpenNodes /\ \A j \in OpenNodes : j <= k
                 /\ \A i \in 1..k : /\ Path'[i] = Path[i]
                                    /\ frontier'[i].mv = frontier[i].mv
                                    /\ frontier'[i].cache_state = frontier[i].cache_state
                 /\ \A i \in 1..(k - 1) : frontier'[i].child_moves = frontier[i].child_moves
                 /\ frontier'[k].child_moves = SubSeq(moves, 1, Len(moves) - 1)
                 /\ frontier'[k + 1] = NewNode(moves[Len(moves)])
                 /\ state' = Apply(Path[k], moves[Len(moves)])
<1> DEFINE n == Len(frontier)
           k == Target
           h == SubSeq(Marked, 1, k)
           moves == frontier[k].child_moves
<1>1. /\ frontier \in Seq(Node) /\ n \in Nat /\ n > 0
      /\ k \in 1..n
      /\ OpenNodes = {} => k = 1
      /\ OpenNodes # {} => k \in OpenNodes /\ k < n /\ \A j \in OpenNodes : j <= k
  BY PathFacts, TargetIsLast
<1>2. /\ Marked \in Seq(Node) /\ Len(Marked) = n
      /\ \A i \in 1..(n - 1) : Marked[i] = frontier[i]
      /\ \A i \in 1..n : Marked[i].mv = frontier[i].mv /\ Marked[i].child_moves = frontier[i].child_moves
  BY MarkedNodes
<1>3. /\ SearchPath(init_state, Marked)
      /\ \A i \in 1..n : PathOf(init_state, Marked)[i] = Path[i]
  <2>1. SearchPath(init_state, frontier)
    BY DEF PathInv
  <2>2. \A i \in 1..n : Range(frontier[i].child_moves) \subseteq MovesOf(PathOf(init_state, frontier)[i])
    BY PathFacts, PathIsPathOf
  <2>3. SameMoves(init_state, frontier, Marked)
    BY <1>2, <2>2 DEF SameMoves
  <2>4. /\ SearchPath(init_state, Marked)
        /\ \A i \in 1..n : PathOf(init_state, Marked)[i] = PathOf(init_state, frontier)[i]
    BY <2>1, <2>3, SameMovesPath
  <2> QED BY <2>4, PathIsPathOf
<1>4. /\ SearchPath(init_state, h) /\ Len(h) = k
      /\ \A i \in 1..k : h[i] = Marked[i] /\ PathOf(init_state, h)[i] = PathOf(init_state, Marked)[i]
  <2>1. k \in 1..Len(Marked)
    BY <1>1, <1>2
  <2> QED BY <1>3, <2>1, PartOfPath
<1>5. k \in Nat /\ k > 0 /\ \A i \in 1..k : i \in 1..n
  BY <1>1
<1>6. \A i \in 1..k : PathOf(init_state, h)[i] = Path[i]
  BY <1>3, <1>4, <1>5
<1>7. StateAt = Path[k]
  BY UndoneIsPath DEF PathInv
<1>8. Path' = PathOf(init_state, frontier')
  BY DEF Path, PathOf
<1>9. \A i \in 1..(n - 1) : Path[i] \in expanded'
  BY DEF PathInv
<1>10. CASE OpenNodes = {}
  <2>1. frontier' = h /\ state' = StateAt /\ result' = "UNSOLVABLE"
    BY <1>10 DEF Backtrack
  <2>2. k = 1 /\ Len(h) = 1 /\ 1 \in 1..k
    BY <1>1, <1>4, <1>5, <1>10
  <2>3. h[1].mv = frontier[1].mv /\ h[1].child_moves = frontier[1].child_moves
    BY <1>1, <1>2, <1>4, <2>2
  <2>4. frontier[1].child_moves = <<>>
    <3>1. CASE n = 1
      BY <3>1 DEF PathInv
    <3>2. CASE n # 1
      <4>0. n \in Nat /\ n > 0 /\ n # 1
        BY <1>1, <3>2
      <4>1. 1 \in 1..(n - 1)
        <5> HIDE DEF n
        <5> QED BY <4>0
      <4> QED BY <1>10, <4>1 DEF OpenNodes
    <3> QED BY <3>1, <3>2
  <2> HIDE DEF k, h
  <2>5. Path'[1] = Path[1]
    BY <1>6, <1>8, <2>1, <2>2
  <2>6. PathInv'
    <3>1. SearchPath(init_state', frontier')
      BY <1>4, <2>1
    <3>2. state' = Path'[Len(frontier')]
      BY <1>7, <2>1, <2>2, <2>5
    <3>3. frontier'[Len(frontier')].child_moves = <<>>
      BY <2>1, <2>2, <2>3, <2>4
    <3>4. \A i \in 1..(Len(frontier') - 1) : Path'[i] \in expanded'
      BY <2>1, <2>2
    <3> QED BY <3>1, <3>2, <3>3, <3>4 DEF PathInv
  <2> QED BY <1>1, <1>10, <2>1, <2>2, <2>3, <2>5, <2>6 DEF k
<1>11. CASE OpenNodes # {}
  <2>1. k \in 1..(n - 1) /\ moves # <<>>
    BY <1>1, <1>11 DEF OpenNodes
  <2>2. Descended(h, StateAt) /\ result' = result
    BY <1>11 DEF Backtrack
  <2> HIDE DEF h
  <2>3. frontier' = Below(h) /\ state' = Apply(StateAt, LastChild(h))
    BY <2>2 DEF Descended, Below, LastChild, OtherChildren
  <2>4. h[k] = frontier[k] /\ k \in 1..k /\ h \in Seq(Node)
    BY <1>2, <1>4, <1>5, <2>1 DEF SearchPath
  <2>5. h[Len(h)].child_moves # <<>> /\ ~ Solved(PathOf(init_state, h)[Len(h)])
    <3>1. ~ Solved(Path[k])
      BY <2>1, PathFacts
    <3> QED BY <1>4, <1>6, <2>1, <2>4, <3>1
  <2>6. /\ SearchPath(init_state, Below(h))
        /\ \A i \in 1..k : PathOf(init_state, Below(h))[i] = PathOf(init_state, h)[i]
        /\ PathOf(init_state, Below(h))[k + 1] = Apply(PathOf(init_state, h)[k], LastChild(h))
    BY <1>4, <2>5, BelowPath
  <2>7. /\ Len(Below(h)) = k + 1
        /\ \A i \in 1..(k - 1) : Below(h)[i] = h[i]
        /\ Below(h)[k] = [h[k] EXCEPT !.child_moves = OtherChildren(h)]
        /\ Below(h)[k + 1] = NewNode(LastChild(h))
    BY <1>4, <1>5, <2>4, <2>5, BelowNodes
  <2>8. /\ LastChild(h) = moves[Len(moves)]
        /\ OtherChildren(h) = SubSeq(moves, 1, Len(moves) - 1)
    BY <1>4, <2>4 DEF LastChild, OtherChildren
  <2>9. frontier[k] \in Node
    BY <1>1
  <2>10. /\ Below(h)[k].mv = frontier[k].mv
         /\ Below(h)[k].cache_state = frontier[k].cache_state
         /\ Below(h)[k].child_moves = OtherChildren(h)
    BY <2>4, <2>7, <2>9 DEF Node
  <2>11. \A i \in 1..(k - 1) : Below(h)[i] = frontier[i]
    <3>1. \A i \in 1..(k - 1) : i \in 1..k /\ i \in 1..(n - 1)
      BY <1>1, <1>5
    <3> QED BY <1>2, <1>4, <2>7, <3>1
  <2>12. \A i \in 1..k : /\ Path'[i] = Path[i]
                         /\ frontier'[i].mv = frontier[i].mv
                         /\ frontier'[i].cache_state = frontier[i].cache_state
    <3>1. \A i \in 1..k : i = k \/ i \in 1..(k - 1)
      BY <1>5
    <3> QED BY <1>6, <1>8, <2>3, <2>6, <2>10, <2>11, <3>1
  <2>13. state' = Path'[k + 1]
    BY <1>6, <1>7, <1>8, <2>3, <2>4, <2>6
  <2>14. PathInv'
    <3>1. SearchPath(init_state', frontier')
      BY <2>3, <2>6
    <3>2. Len(frontier') = k + 1 /\ frontier'[k + 1].child_moves = <<>>
      BY <2>3, <2>7 DEF NewNode
    <3>3. \A i \in 1..(Len(frontier') - 1) : i \in 1..k /\ i \in 1..(n - 1)
      BY <1>5, <2>1, <3>2
    <3>4. \A i \in 1..(Len(frontier') - 1) : Path'[i] \in expanded'
      BY <1>9, <2>12, <3>3
    <3> HIDE DEF k
    <3> QED BY <2>13, <3>1, <3>2, <3>4 DEF PathInv
  <2>15. state' = Apply(Path[k], moves[Len(moves)])
    BY <1>7, <2>3, <2>8
  <2>16. Len(frontier') = k + 1 /\ frontier'[k + 1] = NewNode(moves[Len(moves)])
         /\ frontier'[k].child_moves = SubSeq(moves, 1, Len(moves) - 1)
    BY <2>3, <2>7, <2>8, <2>10
  <2>17. \A i \in 1..(k - 1) : frontier'[i].child_moves = frontier[i].child_moves
    BY <2>3, <2>11
  <2> HIDE DEF k, n, moves
  <2> QED BY <1>1, <1>11, <2>2, <2>12, <2>14, <2>15, <2>16, <2>17 DEF k, n, moves
<1> QED BY <1>10, <1>11

-----------------------------------------------------------------------------
(* The counters and the budgets.                                           *)

(* A turn begun after a budget was used up or a signal came is one of an   *)
(* interval between two looks at the clock, and those before it are too.   *)
BudgetInv ==
  /\ max_states \in StateCaps
  /\ late \in BOOLEAN /\ sigint \in BOOLEAN
  /\ iter \in 0..(CheckInterval - 1)
  /\ overdue \in Nat
  /\ overdue = 0 \/ overdue < iter \/ (iter = 0 /\ overdue < CheckInterval)
  /\ max_states # 0 => res.states_searched <= max_states

CountInv == res \in Counters /\ MovesAddUp

BooksInv == init_state \in Deals /\ PathInv /\ CountInv /\ BudgetInv

LEMMA NextTurn ==
  ASSUME NEW c \in Nat, c > 0, NEW i \in 0..(c - 1)
  PROVE  ((i + 1) % c) = IF i + 1 = c THEN 0 ELSE i + 1
OBVIOUS

LEMMA TurnKeepsBudget ==
  ASSUME BudgetInv, Turn, res \in Counters, res' \in Counters,
         res'.states_searched <= res.states_searched + 1
  PROVE  BudgetInv'
<1>1. /\ CheckInterval \in Nat /\ CheckInterval > 0
      /\ StateCaps \subseteq Nat
  BY SizeAssumption
<1>2. /\ iter \in 0..(CheckInterval - 1) /\ overdue \in Nat
      /\ overdue = 0 \/ overdue < iter \/ (iter = 0 /\ overdue < CheckInterval)
      /\ late \in BOOLEAN /\ sigint \in BOOLEAN
      /\ max_states \in StateCaps
  BY DEF BudgetInv
<1>3. iter' = IF iter + 1 = CheckInterval THEN 0 ELSE iter + 1
  <2>1. iter' = ((iter + 1) % CheckInterval)
    BY DEF Turn
  <2> QED BY <1>1, <1>2, <2>1, NextTurn
<1>4. /\ iter' \in 0..(CheckInterval - 1)
      /\ UNCHANGED <<max_states, late, sigint>>
      /\ overdue' = IF late \/ sigint THEN overdue + 1 ELSE 0
  BY <1>1, <1>2, <1>3 DEF Turn
<1>5. late \/ sigint => iter # 0
  BY DEF Turn, InBudget, TimeUp, Signalled, LooksAtClock
<1>6. overdue' \in Nat /\ (overdue' = 0 \/ overdue' < iter' \/ (iter' = 0 /\ overdue' < CheckInterval))
  BY <1>1, <1>2, <1>3, <1>4, <1>5
<1>7. max_states' # 0 => res'.states_searched <= max_states'
  <2>1. max_states # 0 => ~ (res.states_searched >= max_states)
    BY DEF Turn, InBudget, OverStates
  <2>2. res.states_searched \in Nat /\ res'.states_searched \in Nat /\ max_states \in Nat
    BY <1>1, <1>2 DEF Counters
  <2> QED BY <1>4, <2>1, <2>2
<1> QED BY <1>2, <1>4, <1>6, <1>7 DEF BudgetInv

LEMMA GameMoves ==
  ASSUME GameIsSound, PathInv
  PROVE  /\ DominanceMove(state) # NoMove =>
              /\ <<DominanceMove(state)>> \in Seq(Move)
              /\ Range(<<DominanceMove(state)>>) = {DominanceMove(state)}
              /\ MovesOf(state) = {DominanceMove(state)}
         /\ DominanceMove(state) = NoMove =>
              Moves \in Seq(Move) /\ Range(Moves) \subseteq MovesOf(state)
<1>1. state \in State /\ Current \in Node
  BY PathFacts DEF Current
<1>2. Current.mv \in Move
  BY <1>1 DEF Node
<1>3. Range(<<DominanceMove(state)>>) = {DominanceMove(state)}
  <2>1. \A m : Range(<<m>>) = {m}
    BY DEF Range
  <2> QED BY <2>1
<1>4. DominanceMove(state) \in Move \union {NoMove}
  BY <1>1 DEF GameIsSound
<1>5. Moves \in Seq(Move) /\ Range(Moves) \subseteq Range(LegalMoves(state, NullMove))
  BY <1>1, <1>2 DEF GameIsSound, Moves
<1> QED BY <1>3, <1>4, <1>5 DEF MovesOf

LEMMA DownKeepsCounts ==
  ASSUME PathInv, CountInv, result = "NONE", NEW f, NEW moves, GoDown(f, moves),
         Len(frontier') = Len(frontier) + 1
  PROVE  CountInv' /\ res'.states_searched = res.states_searched + 1
<1>1. Len(frontier) \in Nat /\ Len(frontier) > 0
  BY PathFacts
<1>2. /\ res \in Counters /\ res.depth = Len(frontier) - 1 /\ res.depth <= res.max_depth
      /\ res.depth + res.backtracks = res.states_searched
  BY DEF CountInv, MovesAddUp, Counters
<1>3. Counted(0, moves[Len(moves)], 1) /\ result' = result
  BY DEF GoDown
<1>4. res' \in Counters
  BY <1>2, <1>3, SMTT(60) DEF Counted, Counters
<1>5. /\ res'.depth = res.depth + 1 /\ res'.backtracks = res.backtracks
      /\ res'.states_searched = res.states_searched + 1
      /\ res'.depth <= res'.max_depth
  <2>1. res.depth \in Nat /\ res.backtracks \in Nat /\ res.max_depth \in Nat
    BY <1>2 DEF Counters
  <2>2. res.depth - 0 + 1 = res.depth + 1 /\ res.backtracks + 0 = res.backtracks
    BY <2>1
  <2>3. /\ res'.depth = res.depth - 0 + 1 /\ res'.backtracks = res.backtracks + 0
        /\ res'.states_searched = res.states_searched + 1
        /\ res'.max_depth = IF res.depth - 0 + 1 > res.max_depth THEN res.depth - 0 + 1
                                                                 ELSE res.max_depth
    BY <1>3 DEF Counted
  <2>4. res'.depth <= res'.max_depth
    BY <2>1, <2>2, <2>3
  <2> QED BY <2>2, <2>3, <2>4
<1>6. MovesAddUp'
  BY <1>1, <1>2, <1>3, <1>4, <1>5 DEF MovesAddUp, Counters
<1> QED BY <1>4, <1>5, <1>6 DEF CountInv

LEMMA BackKeepsCounts ==
  ASSUME PathInv, CountInv, result = "NONE", NEW own, NEW c, NEW fresh \in {0, 1},
         Backtrack(Marked, own, c, fresh), Target \in 1..Len(frontier),
         OpenNodes = {} => Len(frontier') = 1 /\ Target = 1,
         OpenNodes # {} => Len(frontier') = Target + 1 /\ Target < Len(frontier)
  PROVE  CountInv' /\ res'.states_searched = res.states_searched + 1
<1> DEFINE n == Len(frontier)
           k == Target
           moves == frontier[k].child_moves
<1>1. n \in Nat /\ n > 0 /\ k \in 1..n
  BY PathFacts
<1>2. /\ res \in Counters /\ res.depth = n - 1 /\ res.depth <= res.max_depth
      /\ res.depth + res.backtracks = res.states_searched
  BY DEF CountInv, MovesAddUp, Counters
<1>3. CASE OpenNodes = {}
  <2>1. /\ res' = [res EXCEPT !.states_searched = @ + 1,
                              !.unique_states_searched = @ + fresh,
                              !.backtracks = @ + (n - k), !.depth = @ - (n - k)]
        /\ result' = "UNSOLVABLE" /\ Len(frontier') = 1 /\ k = 1
    BY <1>3 DEF Backtrack
  <2> HIDE DEF n, k
  <2>2. /\ res.depth - (n - k) = 0 /\ res.backtracks + (n - k) = res.states_searched
        /\ res.states_searched + 1 \in Nat /\ res.unique_states_searched + fresh \in Nat
        /\ res.states_searched \in Nat
    BY <1>1, <1>2, <2>1 DEF Counters
  <2>3. res' = [res EXCEPT !.states_searched = res.states_searched + 1,
                           !.unique_states_searched = res.unique_states_searched + fresh,
                           !.backtracks = res.states_searched, !.depth = 0]
    BY <2>1, <2>2
  <2>4. res' \in Counters
    BY <1>2, <2>2, <2>3 DEF Counters
  <2>5. /\ res'.depth = 0 /\ res'.backtracks = res.states_searched
        /\ res'.states_searched = res.states_searched + 1
        /\ res'.depth <= res'.max_depth
    BY <1>2, <2>2, <2>3 DEF Counters
  <2>6. MovesAddUp'
    BY <1>2, <2>1, <2>2, <2>5 DEF MovesAddUp
  <2> QED BY <2>4, <2>5, <2>6 DEF CountInv
<1>4. CASE OpenNodes # {}
  <2>1. Counted(n - k, moves[Len(moves)], fresh) /\ result' = result /\ Len(frontier') = k + 1
        /\ k < n
    BY <1>4 DEF Backtrack
  <2> HIDE DEF n, k
  <2>2. /\ res.depth - (n - k) + 1 = k /\ k \in Nat
        /\ res.backtracks + (n - k) \in Nat
        /\ k + (res.backtracks + (n - k)) = res.states_searched + 1
        /\ res.states_searched + 1 \in Nat /\ res.unique_states_searched + fresh \in Nat
        /\ res.dominance_moves \in Nat /\ res.max_depth \in Nat
    <3>1. /\ res.states_searched \in Nat /\ res.unique_states_searched \in Nat
          /\ res.dominance_moves \in Nat /\ res.max_depth \in Nat
          /\ res.backtracks \in Nat /\ fresh \in Nat
      BY <1>2 DEF Counters
    <3>2. k \in Nat /\ n - k \in Nat /\ res.depth - (n - k) + 1 = k
      BY <1>1, <1>2, <2>1
    <3>3. k + (res.backtracks + (n - k)) = res.states_searched + 1
      BY <1>1, <1>2, <3>1, <3>2
    <3>4. res.backtracks + (n - k) \in Nat
      BY <3>1, <3>2
    <3>5. res.states_searched + 1 \in Nat /\ res.unique_states_searched + fresh \in Nat
      BY <3>1
    <3> QED BY <3>1, <3>2, <3>3, <3>4, <3>5
  <2> DEFINE d == res.dominance_moves + (IF moves[Len(moves)].dominance_move THEN 1 ELSE 0)
             x == IF k > res.max_depth THEN k ELSE res.max_depth
  <2>3. d \in Nat /\ x \in Nat /\ k <= x
    BY <2>2
  <2>4. res' = [states_searched |-> res.states_searched + 1,
                unique_states_searched |-> res.unique_states_searched + fresh,
                backtracks |-> res.backtracks + (n - k),
                dominance_moves |-> d, depth |-> k, max_depth |-> x]
    BY <2>1, <2>2 DEF Counted
  <2> HIDE DEF d, x
  <2>5. res' \in Counters
    BY <2>2, <2>3, <2>4 DEF Counters
  <2>6. /\ res'.depth = k /\ res'.backtracks = res.backtracks + (n - k)
        /\ res'.states_searched = res.states_searched + 1
        /\ res'.depth <= res'.max_depth
    BY <2>3, <2>4
  <2>7. result' # "UNSOLVABLE" /\ Len(frontier') - 1 = k
    BY <2>1, <2>2
  <2>8. MovesAddUp'
    BY <2>2, <2>6, <2>7 DEF MovesAddUp
  <2> QED BY <2>5, <2>6, <2>8 DEF CountInv
<1> QED BY <1>3, <1>4

(* No turn is overdue before a budget is used up or a signal comes.        *)
OnTime == ~ late /\ ~ sigint => overdue = 0

LEMMA NextOnTime ==
  ASSUME OnTime, [Next]_vars
  PROVE  OnTime'
<1>1. CASE Dominate \/ Expand \/ DeadEnd \/ Duplicate \/ MemLimit
  <2>1. Turn
    BY <1>1 DEF Dominate, Expand, DeadEnd, Duplicate, MemLimit
  <2> QED BY <2>1 DEF OnTime, Turn
<1>2. CASE TimeOut \/ Terminate \/ Solve \/ Clock \/ Signal \/ UNCHANGED vars
  BY <1>2 DEF OnTime, TimeOut, Terminate, Solve, Clock, Signal, vars
<1> QED BY <1>1, <1>2 DEF Next, Dfs, Uncut

LEMMA DfsKeeps ==
  ASSUME OnTime, Dfs
  PROVE  /\ UNCHANGED <<init_state, max_states, late, sigint>>
         /\ ~ late /\ ~ sigint => UNCHANGED overdue
<1>1. CASE Dominate \/ Expand \/ DeadEnd \/ Duplicate \/ MemLimit
  <2>1. Turn
    BY <1>1 DEF Dominate, Expand, DeadEnd, Duplicate, MemLimit
  <2> QED BY <2>1 DEF OnTime, Turn
<1>2. CASE TimeOut \/ Terminate \/ Solve
  BY <1>2 DEF TimeOut, Terminate, Solve
<1> QED BY <1>1, <1>2 DEF Dfs, Uncut

LEMMA InitBooks ==
  ASSUME GameIsSound, Init
  PROVE  BooksInv
<1>1. /\ init_state \in Deals /\ init_state \in State /\ NullMove \in Move
      /\ frontier = <<NewNode(NullMove)>> /\ state = init_state
      /\ expanded = {} /\ res = Count0 /\ result = "NONE"
      /\ max_states \in StateCaps /\ iter = 0 /\ overdue = 0 /\ late = FALSE /\ sigint \in BOOLEAN
  BY DEF Init, GameIsSound
<1>2. NewNode(NullMove) \in Node
  BY <1>1 DEF NewNode, Node
<1>3. /\ frontier \in Seq(Node) /\ Len(frontier) = 1 /\ frontier[1] = NewNode(NullMove)
      /\ frontier[1].mv = NullMove /\ frontier[1].child_moves = <<>>
  BY <1>1, <1>2 DEF NewNode
<1>4. Path[1] = init_state
  <2>1. Len(frontier) \in Nat /\ Len(frontier) > 0
    BY <1>3
  <2>2. PathOf(init_state, frontier)[1] = init_state
    BY <2>1, PathStates
  <2> QED BY <2>2, PathIsPathOf
<1>5. PathInv
  <2>1. Range(<<>>) = {}
    BY DEF Range
  <2>2. SearchPath(init_state, frontier)
    BY <1>1, <1>3, <1>4, <2>1, PathIsPathOf DEF SearchPath
  <2> QED BY <1>1, <1>3, <1>4, <2>2 DEF PathInv
<1>6. CountInv
  BY <1>1, <1>3 DEF CountInv, MovesAddUp, Count0, Counters
<1>7. BudgetInv
  <2>1. CheckInterval \in Nat /\ CheckInterval > 0 /\ StateCaps \subseteq Nat
    BY SizeAssumption
  <2>2. res.states_searched = 0
    BY <1>1 DEF Count0
  <2>3. iter \in 0..(CheckInterval - 1) /\ overdue \in Nat /\ overdue = 0
    BY <1>1, <2>1
  <2>4. max_states \in Nat /\ res.states_searched <= max_states
    BY <1>1, <2>1, <2>2
  <2> QED BY <1>1, <2>3, <2>4 DEF BudgetInv
<1> QED BY <1>1, <1>5, <1>6, <1>7 DEF BooksInv

LEMMA NextBooks ==
  ASSUME GameIsSound, BooksInv, [Next]_vars
  PROVE  BooksInv'
<1> USE DEF BooksInv
<1>0. /\ PathInv /\ CountInv /\ BudgetInv /\ init_state \in Deals
      /\ res \in Counters /\ state \in State /\ expanded \subseteq State
      /\ frontier \in Seq(Node)
  BY PathFacts DEF CountInv
<1>1. ASSUME Dominate
      PROVE  BooksInv'
  <2> DEFINE moves == <<DominanceMove(state)>>
  <2>1. /\ Turn /\ GoDown(frontier, moves) /\ UNCHANGED init_state
        /\ result = "NONE" /\ ~ Solved(state) /\ DominanceMove(state) # NoMove
    BY <1>1 DEF Dominate, Turn, InBudget, Running
  <2>2. moves \in Seq(Move) /\ moves # <<>> /\ Range(moves) \subseteq MovesOf(state)
    BY <1>0, <2>1, GameMoves
  <2> HIDE DEF moves
  <2>3. PathInv' /\ Len(frontier') = Len(frontier) + 1
    BY <1>0, <2>1, <2>2, DownStep
  <2>4. CountInv' /\ res'.states_searched = res.states_searched + 1
    BY <1>0, <2>1, <2>3, DownKeepsCounts
  <2>5. BudgetInv'
    BY <1>0, <2>1, <2>4, TurnKeepsBudget DEF CountInv, Counters
  <2> QED BY <1>0, <2>1, <2>3, <2>4, <2>5
<1>2. ASSUME Expand
      PROVE  BooksInv'
  <2>1. /\ Turn /\ GoDown(Marked, Moves) /\ UNCHANGED init_state /\ Moves # <<>>
        /\ result = "NONE" /\ ~ Solved(state) /\ DominanceMove(state) = NoMove
    BY <1>2 DEF Expand, Turn, InBudget, Running
  <2>2. Moves \in Seq(Move) /\ Range(Moves) \subseteq MovesOf(state)
    BY <1>0, <2>1, GameMoves
  <2>3. PathInv' /\ Len(frontier') = Len(frontier) + 1
    BY <1>0, <2>1, <2>2, MarkedNodes, DownStep
  <2>4. CountInv' /\ res'.states_searched = res.states_searched + 1
    BY <1>0, <2>1, <2>3, DownKeepsCounts
  <2>5. BudgetInv'
    BY <1>0, <2>1, <2>4, TurnKeepsBudget DEF CountInv, Counters
  <2> QED BY <1>0, <2>1, <2>3, <2>4, <2>5
<1>3. ASSUME DeadEnd \/ Duplicate
      PROVE  BooksInv'
  <2>1. /\ Turn /\ UNCHANGED init_state /\ result = "NONE"
        /\ \E own, c : \E fresh \in {0, 1} : Backtrack(Marked, own, c, fresh)
        /\ expanded \subseteq expanded' /\ expanded' \subseteq State
    BY <1>0, <1>3 DEF DeadEnd, Duplicate, Turn, InBudget, Running
  <2>2. PICK own, c : \E fresh \in {0, 1} : Backtrack(Marked, own, c, fresh)
    BY <2>1
  <2>3. PICK fresh \in {0, 1} : Backtrack(Marked, own, c, fresh)
    BY <2>2
  <2>4. /\ PathInv' /\ Target \in 1..Len(frontier)
        /\ OpenNodes = {} => Len(frontier') = 1 /\ Target = 1
        /\ OpenNodes # {} => Len(frontier') = Target + 1 /\ Target < Len(frontier)
    BY <1>0, <2>1, <2>3, BackStep
  <2>5. CountInv' /\ res'.states_searched = res.states_searched + 1
    BY <1>0, <2>1, <2>3, <2>4, BackKeepsCounts
  <2>6. BudgetInv'
    BY <1>0, <2>1, <2>5, TurnKeepsBudget DEF CountInv, Counters
  <2> QED BY <1>0, <2>1, <2>4, <2>5, <2>6
<1>4. ASSUME MemLimit
      PROVE  BooksInv'
  <2>1. /\ Turn /\ UNCHANGED <<init_state, state, frontier, res, expanded>>
        /\ result = "NONE" /\ result' = "MEM_LIMIT"
    BY <1>4 DEF MemLimit, Turn, InBudget, Running
  <2>2. BudgetInv'
    BY <1>0, <2>1, TurnKeepsBudget DEF Counters
  <2> QED BY <1>0, <2>1, <2>2 DEF PathInv, Path, CountInv, MovesAddUp
<1>5. ASSUME TimeOut \/ Terminate \/ Solve
      PROVE  BooksInv'
  <2>1. /\ UNCHANGED <<init_state, max_states, state, frontier, res, iter, late, sigint, expanded, overdue>>
        /\ result = "NONE" /\ result' # "UNSOLVABLE"
    BY <1>5 DEF TimeOut, Terminate, Solve, Running, search
  <2> QED BY <1>0, <2>1 DEF PathInv, Path, CountInv, MovesAddUp, BudgetInv
<1>6. ASSUME Clock \/ Signal
      PROVE  BooksInv'
  <2>1. /\ UNCHANGED <<init_state, max_states, state, frontier, res, iter, result, expanded, overdue>>
        /\ late' \in BOOLEAN /\ sigint' \in BOOLEAN
    BY <1>0, <1>6 DEF Clock, Signal, search, BudgetInv
  <2> QED BY <1>0, <2>1 DEF PathInv, Path, CountInv, MovesAddUp, BudgetInv
<1>7. ASSUME UNCHANGED vars
      PROVE  BooksInv'
  BY <1>0, <1>7 DEF vars, search, PathInv, Path, CountInv, MovesAddUp, BudgetInv
<1> QED BY <1>1, <1>2, <1>3, <1>4, <1>5, <1>6, <1>7 DEF Next, Dfs, Uncut

(* The inductive invariant behind the books of the solver.                 *)
THEOREM BooksInvariant ==
  ASSUME GameIsSound
  PROVE  Spec => []BooksInv
<1>1. Init => BooksInv
  BY InitBooks
<1>2. BooksInv /\ [Next]_vars => BooksInv'
  BY NextBooks
<1> QED BY <1>1, <1>2, PTL DEF Spec

LEMMA BooksFollow ==
  ASSUME BooksInv
  PROVE  BooksAreRight
<1>1. /\ PathInv /\ CountInv /\ BudgetInv /\ init_state \in Deals
      /\ res \in Counters /\ MovesAddUp /\ max_states \in StateCaps
      /\ late \in BOOLEAN /\ sigint \in BOOLEAN
  BY DEF BooksInv, CountInv, BudgetInv
<1>2. /\ state \in State /\ expanded \subseteq State
      /\ frontier \in Seq(Node) /\ frontier # <<>>
  BY <1>1, PathFacts
<1>3. StateIsReplayed
  BY <1>1 DEF PathInv, StateIsReplayed
<1>4. BudgetsHold /\ iter \in 0..(CheckInterval - 1) /\ overdue \in 0..CheckInterval
  <2>1. CheckInterval \in Nat /\ CheckInterval > 0
    BY SizeAssumption
  <2>2. /\ iter \in 0..(CheckInterval - 1) /\ overdue \in Nat
        /\ overdue = 0 \/ overdue < iter \/ (iter = 0 /\ overdue < CheckInterval)
        /\ max_states # 0 => res.states_searched <= max_states
    BY <1>1 DEF BudgetInv
  <2>3. overdue < CheckInterval
    BY <2>1, <2>2
  <2> QED BY <2>1, <2>2, <2>3 DEF BudgetsHold
<1> QED BY <1>1, <1>2, <1>3, <1>4 DEF BooksAreRight, TypeOK

(* Whatever the cache: however often the search goes back, by undo_move    *)
(* and in one turn over many nodes, the state that it mutates in place is  *)
(* the one its frontier leads to; depth and backtracks account for every   *)
(* turn; and a search goes on for less than one interval between two looks *)
(* at the clock after a budget is used up or a signal came, and never      *)
(* beyond its cap on states.                                               *)
THEOREM BooksStayRight ==
  ASSUME GameIsSound
  PROVE  Spec => []BooksAreRight
<1>1. Spec => []BooksInv
  BY BooksInvariant
<1>2. BooksInv => BooksAreRight
  BY BooksFollow
<1> QED BY <1>1, <1>2, PTL

-----------------------------------------------------------------------------
(* lru_cache: what an insertion does to the keys and to the live ones.     *)
Item == [key : {Key(s) : s \in State}, live : BOOLEAN]
LRUCache == [items : Seq(Item), max : Nat, removed : Nat]

OneOfEach(items) ==
  \A i, j \in 1..Len(items) : items[i].key = items[j].key => i = j

KeysIn(items) == {items[i].key : i \in 1..Len(items)}
LiveIn(items) == {items[i].key : i \in {j \in 1..Len(items) : items[j].live}}

(* t is items of s in another order, all of the live ones among them: the  *)
(* i-th of t is the p[i]-th of s.                                          *)
Draws(t, s, p) ==
  /\ t \in Seq(Item) /\ s \in Seq(Item)
  /\ \A i \in 1..Len(t) : p[i] \in 1..Len(s) /\ t[i] = s[p[i]]
  /\ \A i, j \in 1..Len(t) : p[i] = p[j] => i = j
  /\ \A j \in 1..Len(s) : s[j].live => \E i \in 1..Len(t) : p[i] = j

LEMMA DrawnItems ==
  ASSUME NEW s, NEW t, NEW p, Draws(t, s, p), OneOfEach(s)
  PROVE  OneOfEach(t) /\ LiveIn(t) = LiveIn(s) /\ KeysIn(t) \subseteq KeysIn(s)
<1>1. OneOfEach(t)
  BY DEF Draws, OneOfEach
<1>2. KeysIn(t) \subseteq KeysIn(s)
  BY DEF Draws, KeysIn
<1>3. ASSUME NEW k \in LiveIn(t)
      PROVE  k \in LiveIn(s)
  <2>1. PICK i \in 1..Len(t) : t[i].live /\ t[i].key = k
    BY <1>3 DEF LiveIn
  <2>2. p[i] \in 1..Len(s) /\ s[p[i]].live /\ s[p[i]].key = k
    BY <2>1 DEF Draws
  <2> QED BY <2>2 DEF LiveIn
<1>4. ASSUME NEW k \in LiveIn(s)
      PROVE  k \in LiveIn(t)
  <2>1. PICK j \in 1..Len(s) : s[j].live /\ s[j].key = k
    BY <1>4 DEF LiveIn
  <2>2. PICK i \in 1..Len(t) : p[i] = j
    BY <2>1 DEF Draws
  <2>3. t[i].live /\ t[i].key = k
    BY <2>1, <2>2 DEF Draws
  <2> QED BY <2>3 DEF LiveIn
<1> QED BY <1>1, <1>2, <1>3, <1>4

LEMMA PartOf ==
  ASSUME NEW S, NEW s \in Seq(S), NEW a \in Nat, a > 0, NEW b \in Nat, b <= Len(s), a <= b + 1
  PROVE  /\ SubSeq(s, a, b) \in Seq(S) /\ Len(SubSeq(s, a, b)) = b - a + 1
         /\ \A i \in 1..(b - a + 1) : SubSeq(s, a, b)[i] = s[a + i - 1]
<1>1. \A i \in a..b : s[i] \in S
  OBVIOUS
<1>2. a \in Int /\ b \in Int
  OBVIOUS
<1>3. /\ SubSeq(s, a, b) \in Seq(S) /\ Len(SubSeq(s, a, b)) = IF a <= b THEN b - a + 1 ELSE 0
      /\ \A i \in 1..(b - a + 1) : SubSeq(s, a, b)[i] = s[a + i - 1]
  BY <1>1, <1>2, SubSeqProperties
<1>4. ~ (a <= b) => b - a + 1 = 0
  OBVIOUS
<1> QED BY <1>3, <1>4

(* The live items in front of the victim follow those behind it.           *)
LEMMA EvictionDraws ==
  ASSUME NEW s \in Seq(Item), NEW v \in 1..Len(s), ~ s[v].live, Victim(s) = v
  PROVE  LET p == [i \in 1..(Len(s) - 1) |-> IF i <= Len(s) - v THEN i + v ELSE i - (Len(s) - v)]
         IN Draws(EvictOne(s), s, p) /\ Len(EvictOne(s)) = Len(s) - 1
<1> DEFINE n == Len(s)
           p == [i \in 1..(n - 1) |-> IF i <= n - v THEN i + v ELSE i - (n - v)]
           a == SubSeq(s, v + 1, n)
           b == SubSeq(s, 1, v - 1)
           t == a \o b
<1>1. n \in Nat /\ v \in Nat /\ v > 0 /\ v <= n
  OBVIOUS
<1>2. EvictOne(s) = t
  BY DEF EvictOne
<1>3. a \in Seq(Item) /\ Len(a) = n - v /\ \A i \in 1..(n - v) : a[i] = s[i + v]
  <2>1. /\ a \in Seq(Item) /\ Len(a) = n - (v + 1) + 1
        /\ \A i \in 1..(n - (v + 1) + 1) : a[i] = s[v + 1 + i - 1]
    BY <1>1, PartOf
  <2>2. n - (v + 1) + 1 = n - v /\ \A i \in 1..(n - v) : v + 1 + i - 1 = i + v
    BY <1>1
  <2> HIDE DEF a, n
  <2> QED BY <2>1, <2>2
<1>4. b \in Seq(Item) /\ Len(b) = v - 1 /\ \A i \in 1..(v - 1) : b[i] = s[i]
  <2>1. v - 1 \in Nat /\ v - 1 <= Len(s)
    BY <1>1
  <2> QED BY <2>1, InitialPart
<1> HIDE DEF a, b
<1>5. /\ t \in Seq(Item) /\ Len(t) = n - 1
      /\ \A i \in 1..(n - 1) : t[i] = IF i <= n - v THEN a[i] ELSE b[i - (n - v)]
  <2>1. /\ a \o b \in Seq(Item) /\ Len(a \o b) = Len(a) + Len(b)
        /\ \A i \in 1..(Len(a) + Len(b)) :
             (a \o b)[i] = IF i <= Len(a) THEN a[i] ELSE b[i - Len(a)]
    BY <1>3, <1>4, ConcatProperties
  <2>2. Len(a) + Len(b) = n - 1
    BY <1>1, <1>3, <1>4
  <2> HIDE DEF n
  <2> QED BY <1>3, <2>1, <2>2
<1> HIDE DEF t, n
<1>6. ASSUME NEW i \in 1..(n - 1)
      PROVE  p[i] \in 1..n /\ p[i] # v /\ t[i] = s[p[i]]
  <2>1. CASE i <= n - v
    BY <1>1, <1>3, <1>5, <2>1
  <2>2. CASE ~ (i <= n - v)
    <3>1. i - (n - v) \in 1..(v - 1)
      BY <1>1, <2>2
    <3> QED BY <1>1, <1>4, <1>5, <2>2, <3>1
  <2> QED BY <2>1, <2>2
<1>7. ASSUME NEW i \in 1..(n - 1), NEW j \in 1..(n - 1), p[i] = p[j]
      PROVE  i = j
  BY <1>1, <1>7
<1>8. ASSUME NEW j \in 1..n, s[j].live
      PROVE  \E i \in 1..(n - 1) : p[i] = j
  <2>1. j # v
    BY <1>8
  <2>2. CASE j < v
    <3>1. j + (n - v) \in 1..(n - 1) /\ p[j + (n - v)] = j
      BY <1>1, <2>2
    <3> QED BY <3>1
  <2>3. CASE j > v
    <3>1. j - v \in 1..(n - 1) /\ p[j - v] = j
      BY <1>1, <2>3
    <3> QED BY <3>1
  <2> QED BY <1>1, <2>1, <2>2, <2>3
<1>9. Draws(t, s, p)
  <2> HIDE DEF p
  <2> QED BY <1>5, <1>6, <1>7, <1>8 DEF Draws, n
<1> QED BY <1>2, <1>5, <1>9 DEF n

LEMMA Joined ==
  ASSUME NEW a \in Seq(Item), NEW b \in Seq(Item)
  PROVE  /\ a \o b \in Seq(Item) /\ Len(a \o b) = Len(a) + Len(b)
         /\ \A i \in 1..(Len(a) + Len(b)) :
              (a \o b)[i] = IF i <= Len(a) THEN a[i] ELSE b[i - Len(a)]
BY ConcatProperties

(* The item of the key goes to the front.                                  *)
LEMMA RelocationDraws ==
  ASSUME NEW s \in Seq(Item), NEW key, \E i \in 1..Len(s) : s[i].key = key
  PROVE  /\ \E p : /\ Draws(MoveToFront(s, key), s, p)
                   /\ \A j \in 1..Len(s) : \E i \in 1..Len(s) : p[i] = j
         /\ Len(MoveToFront(s, key)) = Len(s)
<1> DEFINE n == Len(s)
           r == CHOOSE i \in DOMAIN s : s[i].key = key
           a == <<s[r]>>
           b == SubSeq(s, 1, r - 1)
           c == SubSeq(s, r + 1, n)
           p == [j \in 1..n |-> IF j = 1 THEN r ELSE IF j <= r THEN j - 1 ELSE j]
           t == (a \o b) \o c
<1>1. n \in Nat /\ r \in 1..n
  <2>1. DOMAIN s = 1..n
    OBVIOUS
  <2> QED BY <2>1
<1>2. MoveToFront(s, key) = t
  BY DEF MoveToFront
<1> HIDE DEF r
<1>3. r \in Nat /\ r > 0 /\ r <= n
  BY <1>1
<1>4. a \in Seq(Item) /\ Len(a) = 1 /\ a[1] = s[r]
  BY <1>1
<1>5. b \in Seq(Item) /\ Len(b) = r - 1 /\ \A i \in 1..(r - 1) : b[i] = s[i]
  <2>1. r - 1 \in Nat /\ r - 1 <= Len(s)
    BY <1>3
  <2> QED BY <2>1, InitialPart
<1>6. c \in Seq(Item) /\ Len(c) = n - r /\ \A i \in 1..(n - r) : c[i] = s[i + r]
  <2>1. /\ c \in Seq(Item) /\ Len(c) = n - (r + 1) + 1
        /\ \A i \in 1..(n - (r + 1) + 1) : c[i] = s[r + 1 + i - 1]
    BY <1>1, <1>3, PartOf
  <2>2. n - (r + 1) + 1 = n - r /\ \A i \in 1..(n - r) : r + 1 + i - 1 = i + r
    BY <1>1, <1>3
  <2> HIDE DEF c, n
  <2> QED BY <2>1, <2>2
<1> HIDE DEF a, b, c
<1>7. /\ a \o b \in Seq(Item) /\ Len(a \o b) = r
      /\ \A i \in 1..r : (a \o b)[i] = IF i = 1 THEN s[r] ELSE s[i - 1]
  <2>1. /\ a \o b \in Seq(Item) /\ Len(a \o b) = Len(a) + Len(b)
        /\ \A i \in 1..(Len(a) + Len(b)) :
             (a \o b)[i] = IF i <= Len(a) THEN a[i] ELSE b[i - Len(a)]
    BY <1>4, <1>5, Joined
  <2>2. Len(a) + Len(b) = r
    BY <1>3, <1>4, <1>5
  <2>3. ASSUME NEW i \in 1..r
        PROVE  (a \o b)[i] = IF i = 1 THEN s[r] ELSE s[i - 1]
    <3>1. CASE i = 1
      BY <1>3, <1>4, <2>1, <2>2, <3>1
    <3>2. CASE i # 1
      <4>1. i - 1 \in 1..(r - 1) /\ ~ (i <= 1)
        BY <1>3, <3>2
      <4> QED BY <1>4, <1>5, <2>1, <2>2, <3>2, <4>1
    <3> QED BY <3>1, <3>2
  <2> QED BY <2>1, <2>2, <2>3
<1> DEFINE u == a \o b
<1>8. t = u \o c
  OBVIOUS
<1>9. u \in Seq(Item) /\ Len(u) = r /\ \A i \in 1..r : u[i] = IF i = 1 THEN s[r] ELSE s[i - 1]
  BY <1>7
<1> HIDE DEF u, t
<1>10. /\ t \in Seq(Item) /\ Len(t) = n
       /\ \A i \in 1..n : t[i] = IF i <= r THEN u[i] ELSE c[i - r]
  <2>1. /\ u \o c \in Seq(Item) /\ Len(u \o c) = Len(u) + Len(c)
        /\ \A i \in 1..(Len(u) + Len(c)) :
             (u \o c)[i] = IF i <= Len(u) THEN u[i] ELSE c[i - Len(u)]
    BY <1>6, <1>9, Joined
  <2>2. Len(u) + Len(c) = n
    BY <1>1, <1>3, <1>6, <1>9
  <2> HIDE DEF n
  <2> QED BY <1>8, <1>9, <2>1, <2>2
<1> HIDE DEF n
<1>11. ASSUME NEW i \in 1..n
       PROVE  p[i] \in 1..n /\ t[i] = s[p[i]]
  <2>1. CASE i <= r
    BY <1>1, <1>3, <1>9, <1>10, <2>1
  <2>2. CASE ~ (i <= r)
    <3>1. i - r \in 1..(n - r) /\ i - r + r = i /\ i # 1
      BY <1>1, <1>3, <2>2
    <3> QED BY <1>6, <1>10, <2>2, <3>1
  <2> QED BY <2>1, <2>2
<1>12. ASSUME NEW i \in 1..n, NEW j \in 1..n, p[i] = p[j]
       PROVE  i = j
  BY <1>1, <1>3, <1>12
<1>13. ASSUME NEW j \in 1..n
       PROVE  \E i \in 1..n : p[i] = j
  <2>1. CASE j = r
    <3>1. 1 \in 1..n /\ p[1] = j
      BY <1>1, <1>3, <2>1
    <3> QED BY <3>1
  <2>2. CASE j < r
    <3>1. j + 1 \in 1..n /\ p[j + 1] = j
      BY <1>1, <1>3, <2>2
    <3> QED BY <3>1
  <2>3. CASE j > r
    <3>1. p[j] = j
      BY <1>1, <1>3, <2>3
    <3> QED BY <3>1
  <2> QED BY <1>3, <2>1, <2>2, <2>3
<1>14. Draws(t, s, p)
  <2> HIDE DEF p
  <2> QED BY <1>10, <1>11, <1>12, <1>13 DEF Draws, n
<1>15. \A j \in 1..n : \E i \in 1..n : p[i] = j
  BY <1>13
<1> HIDE DEF p
<1> QED BY <1>2, <1>10, <1>14, <1>15 DEF n

GoodLRU(c) == c \in LRUCache /\ OneOfEach(c.items)

LEMMA LRUKeys ==
  ASSUME NEW c \in LRUCache
  PROVE  /\ c.items \in Seq(Item) /\ Len(c.items) \in Nat /\ DOMAIN c.items = 1..Len(c.items)
         /\ LRULive(c) = LiveIn(c.items)
         /\ \A key : LRUContains(c, key) <=> key \in KeysIn(c.items)
<1>1. c.items \in Seq(Item)
  BY DEF LRUCache
<1>2. Len(c.items) \in Nat /\ DOMAIN c.items = 1..Len(c.items)
  BY <1>1
<1> QED BY <1>1, <1>2 DEF LRULive, LiveIn, LRUContains, KeysIn

(* A new item in front of those of other keys.                             *)
LEMMA PushedItems ==
  ASSUME NEW s \in Seq(Item), OneOfEach(s), NEW key \in {Key(x) : x \in State}, key \notin KeysIn(s)
  PROVE  LET t == <<LRUItem(key, TRUE)>> \o s
         IN /\ t \in Seq(Item) /\ OneOfEach(t) /\ Len(t) = Len(s) + 1
            /\ LiveIn(t) = LiveIn(s) \union {key}
            /\ KeysIn(t) = KeysIn(s) \union {key}
            /\ \A i \in 1..Len(s) : t[i + 1] = s[i]
<1> DEFINE n == Len(s)
           x == LRUItem(key, TRUE)
           a == <<x>>
           t == a \o s
<1>1. x \in Item /\ x.key = key /\ x.live
  BY DEF LRUItem, Item
<1> HIDE DEF x
<1>2. a \in Seq(Item) /\ Len(a) = 1 /\ a[1] = x /\ n \in Nat
  BY <1>1
<1> HIDE DEF a
<1>3. /\ t \in Seq(Item) /\ Len(t) = Len(a) + Len(s)
      /\ \A i \in 1..(Len(a) + Len(s)) : t[i] = IF i <= Len(a) THEN a[i] ELSE s[i - Len(a)]
  BY <1>2, Joined
<1> HIDE DEF t
<1>4. Len(t) = n + 1 /\ t[1] = x
  BY <1>2, <1>3
<1>5. \A i \in 1..n : t[i + 1] = s[i]
  <2>1. ASSUME NEW i \in 1..n
        PROVE  t[i + 1] = s[i]
    <3>1. i + 1 \in 1..(Len(a) + Len(s)) /\ ~ (i + 1 <= Len(a)) /\ i + 1 - Len(a) = i
      BY <1>2
    <3> QED BY <1>3, <3>1
  <2> QED BY <2>1
<1>6. \A j \in 1..(n + 1) : j = 1 \/ (j - 1 \in 1..n /\ j - 1 + 1 = j)
  BY <1>2
<1>7. \A i \in 1..n : s[i].key # key
  BY DEF KeysIn
<1>8. (\A i \in 1..n : i + 1 \in 1..(n + 1)) /\ 1 \in 1..(n + 1)
  BY <1>2
<1> HIDE DEF n
<1>9. OneOfEach(t)
  <2>1. ASSUME NEW i \in 1..(n + 1), NEW j \in 1..(n + 1), t[i].key = t[j].key
        PROVE  i = j
    <3>1. CASE i = 1 /\ j = 1
      BY <3>1
    <3>2. CASE i = 1 /\ j # 1
      <4>1. j - 1 \in 1..n /\ t[j] = s[j - 1]
        BY <1>5, <1>6, <3>2
      <4> QED BY <1>1, <1>4, <1>7, <2>1, <3>2, <4>1
    <3>3. CASE i # 1 /\ j = 1
      <4>1. i - 1 \in 1..n /\ t[i] = s[i - 1]
        BY <1>5, <1>6, <3>3
      <4> QED BY <1>1, <1>4, <1>7, <2>1, <3>3, <4>1
    <3>4. CASE i # 1 /\ j # 1
      <4>1. /\ i - 1 \in 1..n /\ t[i] = s[i - 1] /\ i - 1 + 1 = i
            /\ j - 1 \in 1..n /\ t[j] = s[j - 1] /\ j - 1 + 1 = j
        BY <1>5, <1>6, <3>4
      <4>2. i - 1 = j - 1
        BY <2>1, <4>1 DEF OneOfEach, n
      <4> QED BY <4>1, <4>2
    <3> QED BY <3>1, <3>2, <3>3, <3>4
  <2> QED BY <1>4, <2>1 DEF OneOfEach
<1>10. KeysIn(t) = KeysIn(s) \union {key}
  <2>1. ASSUME NEW k \in KeysIn(t)
        PROVE  k \in KeysIn(s) \union {key}
    <3>1. PICK j \in 1..(n + 1) : k = t[j].key
      BY <1>4 DEF KeysIn
    <3>2. CASE j = 1
      BY <1>1, <1>4, <3>1, <3>2
    <3>3. CASE j # 1
      <4>1. j - 1 \in 1..n /\ t[j] = s[j - 1]
        BY <1>5, <1>6, <3>3
      <4> QED BY <3>1, <4>1 DEF KeysIn, n
    <3> QED BY <3>2, <3>3
  <2>2. key \in KeysIn(t)
    BY <1>1, <1>4, <1>8 DEF KeysIn
  <2>3. ASSUME NEW k \in KeysIn(s)
        PROVE  k \in KeysIn(t)
    <3>1. PICK i \in 1..n : k = s[i].key
      BY DEF KeysIn, n
    <3>2. i + 1 \in 1..Len(t) /\ t[i + 1].key = k
      BY <1>4, <1>5, <1>8, <3>1
    <3> QED BY <3>2 DEF KeysIn
  <2> QED BY <2>1, <2>2, <2>3
<1>11. LiveIn(t) = LiveIn(s) \union {key}
  <2>1. ASSUME NEW k \in LiveIn(t)
        PROVE  k \in LiveIn(s) \union {key}
    <3>1. PICK j \in 1..(n + 1) : t[j].live /\ k = t[j].key
      BY <1>4 DEF LiveIn
    <3>2. CASE j = 1
      BY <1>1, <1>4, <3>1, <3>2
    <3>3. CASE j # 1
      <4>1. j - 1 \in 1..n /\ t[j] = s[j - 1]
        BY <1>5, <1>6, <3>3
      <4> QED BY <3>1, <4>1 DEF LiveIn, n
    <3> QED BY <3>2, <3>3
  <2>2. key \in LiveIn(t)
    BY <1>1, <1>4, <1>8 DEF LiveIn
  <2>3. ASSUME NEW k \in LiveIn(s)
        PROVE  k \in LiveIn(t)
    <3>1. PICK i \in 1..n : s[i].live /\ k = s[i].key
      BY DEF LiveIn, n
    <3>2. i + 1 \in 1..Len(t) /\ t[i + 1].key = k /\ t[i + 1].live
      BY <1>4, <1>5, <1>8, <3>1
    <3> QED BY <3>2 DEF LiveIn
  <2> QED BY <2>1, <2>2, <2>3
<1>12. t = <<LRUItem(key, TRUE)>> \o s
  BY DEF t, a, x
<1> QED BY <1>3, <1>4, <1>5, <1>9, <1>10, <1>11, <1>12 DEF n

(* A key that the cache has.                                               *)
LEMMA InsertOld ==
  ASSUME NEW c, GoodLRU(c), NEW key \in KeysIn(c.items)
  PROVE  LET r == LRUInsert(c, key)
         IN /\ r.new = FALSE /\ r.full = FALSE
            /\ GoodLRU(r.cache) /\ r.cache.max = c.max /\ r.cache.removed = c.removed
            /\ LiveIn(r.cache.items) = LiveIn(c.items)
            /\ KeysIn(r.cache.items) = KeysIn(c.items)
<1> DEFINE r == LRUInsert(c, key)
           moved == MoveToFront(c.items, key)
<1>1. /\ c \in LRUCache /\ OneOfEach(c.items) /\ c.items \in Seq(Item)
      /\ LRUContains(c, key)
      /\ \E i \in 1..Len(c.items) : c.items[i].key = key
  BY LRUKeys DEF GoodLRU, KeysIn
<1>2. r = [cache |-> [c EXCEPT !.items = moved], new |-> FALSE, full |-> FALSE]
  BY <1>1 DEF LRUInsert
<1>3. PICK p : /\ Draws(moved, c.items, p) /\ Len(moved) = Len(c.items)
               /\ \A j \in 1..Len(c.items) : \E i \in 1..Len(c.items) : p[i] = j
  <2> DEFINE old == c.items
  <2>1. old \in Seq(Item) /\ \E i \in 1..Len(old) : old[i].key = key
    BY <1>1
  <2> HIDE DEF old
  <2>2. /\ \E p : /\ Draws(MoveToFront(old, key), old, p)
                 /\ \A j \in 1..Len(old) : \E i \in 1..Len(old) : p[i] = j
        /\ Len(MoveToFront(old, key)) = Len(old)
    BY <2>1, RelocationDraws
  <2> QED BY <2>2 DEF old
<1> HIDE DEF moved
<1>4. /\ OneOfEach(moved) /\ LiveIn(moved) = LiveIn(c.items) /\ moved \in Seq(Item)
      /\ KeysIn(moved) = KeysIn(c.items)
  <2>1. moved \in Seq(Item)
    BY <1>3 DEF Draws
  <2> DEFINE old == c.items
  <2>2. OneOfEach(old) /\ Draws(moved, old, p)
    BY <1>1, <1>3
  <2> HIDE DEF old
  <2>3. OneOfEach(moved) /\ KeysIn(moved) \subseteq KeysIn(old) /\ LiveIn(moved) = LiveIn(old)
    BY <2>2, DrawnItems
  <2>4. ASSUME NEW k \in KeysIn(old)
        PROVE  k \in KeysIn(moved)
    <3>1. PICK j \in 1..Len(old) : old[j].key = k
      BY <2>4 DEF KeysIn
    <3>2. PICK i \in 1..Len(moved) : p[i] = j
      BY <1>3 DEF old
    <3>3. moved[i] = old[j]
      BY <2>2, <3>2 DEF Draws
    <3> QED BY <3>1, <3>3 DEF KeysIn
  <2> QED BY <2>1, <2>3, <2>4 DEF old
<1>5. r.cache = [c EXCEPT !.items = moved] /\ r.new = FALSE /\ r.full = FALSE
  BY <1>2
<1> HIDE DEF r
<1>6. /\ r.cache \in LRUCache /\ r.cache.items = moved /\ r.cache.max = c.max
      /\ r.cache.removed = c.removed
  BY <1>1, <1>4, <1>5 DEF LRUCache
<1>7. GoodLRU(r.cache)
  BY <1>4, <1>6 DEF GoodLRU
<1> QED BY <1>4, <1>5, <1>6, <1>7 DEF r

(* One that it has not: it throws when every item is live and the list is  *)
(* full, and keeps all the live ones when it does not throw.               *)
LEMMA InsertNew ==
  ASSUME NEW c, GoodLRU(c), NEW key \in {Key(x) : x \in State}, key \notin KeysIn(c.items)
  PROVE  LET r == LRUInsert(c, key)
         IN /\ r.new = TRUE /\ r.full \in BOOLEAN
            /\ r.full => /\ Len(c.items) >= c.max
                         /\ \A i \in 1..Len(c.items) : c.items[i].live
            /\ ~ r.full => /\ GoodLRU(r.cache) /\ r.cache.max = c.max
                           /\ LiveIn(r.cache.items) = LiveIn(c.items) \union {key}
                           /\ KeysIn(r.cache.items) \subseteq KeysIn(c.items) \union {key}
                           /\ r.cache.removed = c.removed =>
                                KeysIn(r.cache.items) = KeysIn(c.items) \union {key}
<1> DEFINE r == LRUInsert(c, key)
           pushed == <<LRUItem(key, TRUE)>> \o c.items
<1>1. /\ c \in LRUCache /\ OneOfEach(c.items) /\ c.items \in Seq(Item)
      /\ Len(c.items) \in Nat /\ c.max \in Nat /\ c.removed \in Nat
      /\ ~ LRUContains(c, key)
  BY LRUKeys DEF GoodLRU, LRUCache
<1>2. /\ pushed \in Seq(Item) /\ OneOfEach(pushed) /\ Len(pushed) = Len(c.items) + 1
      /\ LiveIn(pushed) = LiveIn(c.items) \union {key}
      /\ KeysIn(pushed) = KeysIn(c.items) \union {key}
      /\ \A i \in 1..Len(c.items) : pushed[i + 1] = c.items[i]
  BY <1>1, PushedItems
<1>3. DOMAIN pushed = 1..Len(pushed)
  BY <1>2
<1>4. CASE Len(pushed) <= c.max
  <2>1. r = [cache |-> [c EXCEPT !.items = pushed], new |-> TRUE, full |-> FALSE]
    BY <1>1, <1>4 DEF LRUInsert
  <2> HIDE DEF pushed
  <2>2. r.cache = [c EXCEPT !.items = pushed] /\ r.new = TRUE /\ r.full = FALSE
    BY <2>1
  <2> HIDE DEF r
  <2>3. r.cache \in LRUCache /\ r.cache.items = pushed /\ r.cache.max = c.max
    BY <1>1, <1>2, <2>2 DEF LRUCache
  <2>4. GoodLRU(r.cache)
    BY <1>2, <2>3 DEF GoodLRU
  <2> QED BY <1>2, <2>2, <2>3, <2>4 DEF r
<1>5. CASE Len(pushed) > c.max /\ \A i \in DOMAIN pushed : pushed[i].live
  <2>0. ~ (Len(pushed) <= c.max)
    BY <1>1, <1>2, <1>5
  <2>1. r = [cache |-> [c EXCEPT !.items = pushed], new |-> TRUE, full |-> TRUE]
    BY <1>1, <1>5, <2>0 DEF LRUInsert
  <2>2. r.new = TRUE /\ r.full = TRUE
    BY <2>1
  <2>3. Len(c.items) >= c.max
    BY <1>1, <1>2, <1>5
  <2>4. \A i \in 1..Len(c.items) : c.items[i].live
    <3>1. \A i \in 1..Len(c.items) : i + 1 \in 1..Len(pushed)
      BY <1>1, <1>2
    <3> HIDE DEF pushed
    <3> QED BY <1>2, <1>3, <1>5, <3>1
  <2> QED BY <2>2, <2>3, <2>4
<1>6. CASE Len(pushed) > c.max /\ ~ (\A i \in DOMAIN pushed : pushed[i].live)
  <2> DEFINE v == Victim(pushed)
             left == EvictOne(pushed)
  <2>1. ~ (Len(pushed) <= c.max)
    BY <1>1, <1>2, <1>6
  <2>2. r = [cache |-> [c EXCEPT !.items = left, !.removed = @ + 1], new |-> TRUE, full |-> FALSE]
    BY <1>1, <1>6, <2>1 DEF LRUInsert
  <2> HIDE DEF pushed
  <2>3. v \in 1..Len(pushed) /\ ~ pushed[v].live
    <3> DEFINE T == {i \in 1..Len(pushed) : ~ pushed[i].live}
    <3>1. T \subseteq 1..Len(pushed) /\ T # {} /\ Len(pushed) \in Nat
      BY <1>2, <1>3, <1>6
    <3>2. \E i \in T : \A j \in T : j <= i
      BY <3>1, GreatestOf
    <3>3. \E i \in DOMAIN pushed : ~ pushed[i].live /\ \A j \in DOMAIN pushed : ~ pushed[j].live => j <= i
      BY <1>3, <3>2
    <3>4. v \in DOMAIN pushed /\ ~ pushed[v].live
      BY <3>3 DEF Victim
    <3> QED BY <1>3, <3>4
  <2>4. \E p : Draws(left, pushed, p)
    BY <1>2, <2>3, EvictionDraws
  <2> HIDE DEF v, left
  <2>5. PICK p : Draws(left, pushed, p)
    BY <2>4
  <2>6. /\ OneOfEach(left) /\ LiveIn(left) = LiveIn(pushed) /\ left \in Seq(Item)
        /\ KeysIn(left) \subseteq KeysIn(pushed)
    <3>1. left \in Seq(Item)
      BY <2>5 DEF Draws
    <3>2. OneOfEach(left) /\ LiveIn(left) = LiveIn(pushed) /\ KeysIn(left) \subseteq KeysIn(pushed)
      BY <1>2, <2>5, DrawnItems
    <3> QED BY <3>1, <3>2
  <2>7. r.cache = [c EXCEPT !.items = left, !.removed = @ + 1] /\ r.new = TRUE /\ r.full = FALSE
    BY <2>2
  <2> HIDE DEF r
  <2>8. r.cache \in LRUCache /\ r.cache.items = left /\ r.cache.max = c.max
    <3>1. c.removed + 1 \in Nat
      BY <1>1
    <3>2. c = [items |-> c.items, max |-> c.max, removed |-> c.removed]
      BY <1>1 DEF LRUCache
    <3>3. r.cache = [items |-> left, max |-> c.max, removed |-> c.removed + 1]
      BY <2>7, <3>2
    <3> QED BY <1>1, <2>6, <3>1, <3>3 DEF LRUCache
  <2>9. GoodLRU(r.cache)
    BY <2>6, <2>8 DEF GoodLRU
  <2>10. r.cache.removed # c.removed
    <3>1. r.cache.removed = c.removed + 1
      BY <1>1, <2>7 DEF LRUCache
    <3> QED BY <1>1, <3>1
  <2> QED BY <1>2, <2>6, <2>7, <2>8, <2>9, <2>10 DEF r
<1>7. Len(pushed) <= c.max \/ Len(pushed) > c.max
  BY <1>1, <1>2
<1> QED BY <1>4, <1>5, <1>6, <1>7

(* An insertion, and what it does to the numbers of items kept and removed. *)
LEMMA LRUInsertCounts ==
  ASSUME NEW c \in LRUCache, NEW key \in {Key(x) : x \in State}
  PROVE  LET r == LRUInsert(c, key)
         IN /\ r.new \in BOOLEAN
            /\ Len(r.cache.items) \in Nat /\ r.cache.removed \in Nat
            /\ Len(r.cache.items) + r.cache.removed =
                 Len(c.items) + c.removed + (IF r.new THEN 1 ELSE 0)
<1> DEFINE r == LRUInsert(c, key)
           pushed == <<LRUItem(key, TRUE)>> \o c.items
           moved == MoveToFront(c.items, key)
           left == EvictOne(pushed)
<1>1. /\ c.items \in Seq(Item) /\ Len(c.items) \in Nat /\ c.removed \in Nat
      /\ LRUContains(c, key) <=> \E i \in 1..Len(c.items) : c.items[i].key = key
  BY LRUKeys DEF LRUCache, KeysIn
<1>2. pushed \in Seq(Item) /\ Len(pushed) = Len(c.items) + 1 /\ DOMAIN pushed = 1..Len(pushed)
  <2> DEFINE a == <<LRUItem(key, TRUE)>>
  <2>1. LRUItem(key, TRUE) \in Item
    BY DEF LRUItem, Item
  <2>2. a \in Seq(Item) /\ Len(a) = 1
    <3>1. \A x \in Item : <<x>> \in Seq(Item) /\ Len(<<x>>) = 1
      OBVIOUS
    <3> QED BY <2>1, <3>1
  <2>3. pushed = a \o c.items
    OBVIOUS
  <2> HIDE DEF a, pushed
  <2>4. pushed \in Seq(Item) /\ Len(pushed) = Len(a) + Len(c.items)
    BY <1>1, <2>2, <2>3, Joined
  <2> QED BY <1>1, <2>2, <2>4
<1>3. CASE LRUContains(c, key)
  <2>1. r = [cache |-> [c EXCEPT !.items = moved], new |-> FALSE, full |-> FALSE]
    BY <1>3 DEF LRUInsert
  <2>2. Len(moved) = Len(c.items)
    BY <1>1, <1>3, RelocationDraws
  <2> HIDE DEF moved
  <2>3. r.cache.items = moved /\ r.cache.removed = c.removed /\ r.new = FALSE
    BY <2>1 DEF LRUCache
  <2> HIDE DEF r
  <2>4. Len(r.cache.items) = Len(c.items)
    BY <2>2, <2>3
  <2>5. Len(r.cache.items) + r.cache.removed = Len(c.items) + c.removed + 0
    BY <1>1, <2>3, <2>4
  <2> QED BY <1>1, <2>3, <2>4, <2>5 DEF r
<1>4. CASE ~ LRUContains(c, key) /\ (Len(pushed) <= c.max \/ \A i \in DOMAIN pushed : pushed[i].live)
  <2>1. \E full : r = [cache |-> [c EXCEPT !.items = pushed], new |-> TRUE, full |-> full]
    <3>1. Len(pushed) <= c.max \/ Len(pushed) > c.max
      BY <1>1, <1>2 DEF LRUCache
    <3>2. ~ (Len(pushed) <= c.max /\ Len(pushed) > c.max)
      BY <1>1, <1>2 DEF LRUCache
    <3>3. CASE Len(pushed) <= c.max
      BY <1>4, <3>3 DEF LRUInsert
    <3>4. CASE ~ (Len(pushed) <= c.max)
      BY <1>4, <3>1, <3>4 DEF LRUInsert
    <3> QED BY <3>3, <3>4
  <2> HIDE DEF pushed
  <2>2. r.cache.items = pushed /\ r.cache.removed = c.removed /\ r.new = TRUE
    BY <2>1 DEF LRUCache
  <2> HIDE DEF r
  <2>3. Len(r.cache.items) = Len(c.items) + 1
    BY <1>2, <2>2
  <2>4. Len(r.cache.items) + r.cache.removed = Len(c.items) + c.removed + 1
    BY <1>1, <2>2, <2>3
  <2>5. Len(r.cache.items) \in Nat /\ r.cache.removed \in Nat
    BY <1>1, <2>2, <2>3
  <2> QED BY <2>2, <2>4, <2>5 DEF r
<1>5. CASE ~ LRUContains(c, key) /\ ~ (Len(pushed) <= c.max) /\ ~ \A i \in DOMAIN pushed : pushed[i].live
  <2> DEFINE v == Victim(pushed)
  <2>1. r = [cache |-> [c EXCEPT !.items = left, !.removed = @ + 1], new |-> TRUE, full |-> FALSE]
    BY <1>5 DEF LRUInsert
  <2> HIDE DEF pushed
  <2>2. v \in 1..Len(pushed) /\ ~ pushed[v].live
    <3> DEFINE T == {i \in 1..Len(pushed) : ~ pushed[i].live}
    <3>1. T \subseteq 1..Len(pushed) /\ T # {} /\ Len(pushed) \in Nat
      BY <1>2, <1>5
    <3>2. \E i \in T : \A j \in T : j <= i
      BY <3>1, GreatestOf
    <3>3. \E i \in DOMAIN pushed : ~ pushed[i].live /\ \A j \in DOMAIN pushed : ~ pushed[j].live => j <= i
      BY <1>2, <3>2
    <3>4. v \in DOMAIN pushed /\ ~ pushed[v].live
      BY <3>3 DEF Victim
    <3> QED BY <1>2, <3>4
  <2>3. Len(left) = Len(pushed) - 1
    BY <1>2, <2>2, EvictionDraws
  <2> HIDE DEF left
  <2>4. r.cache.items = left /\ r.cache.removed = c.removed + 1 /\ r.new = TRUE
    <3>1. c = [items |-> c.items, max |-> c.max, removed |-> c.removed]
      BY DEF LRUCache
    <3>2. r.cache = [c EXCEPT !.items = left, !.removed = @ + 1] /\ r.new = TRUE
      BY <2>1
    <3> HIDE DEF r
    <3>3. r.cache = [items |-> left, max |-> c.max, removed |-> c.removed + 1]
      BY <3>1, <3>2
    <3> QED BY <3>2, <3>3
  <2> HIDE DEF r
  <2>5. Len(r.cache.items) = Len(c.items)
    BY <1>1, <1>2, <2>3, <2>4
  <2>6. Len(r.cache.items) + r.cache.removed = Len(c.items) + c.removed + 1
    BY <1>1, <2>4, <2>5
  <2>7. Len(r.cache.items) \in Nat /\ r.cache.removed \in Nat
    BY <1>1, <2>4, <2>5
  <2> QED BY <2>4, <2>6, <2>7 DEF r
<1> QED BY <1>3, <1>4, <1>5

(* The live bits of some keys are turned off.                              *)
LEMMA ItemsNotLive ==
  ASSUME NEW c, GoodLRU(c), NEW keys
  PROVE  LET d == SetNonLive(c, keys)
         IN /\ GoodLRU(d) /\ d.max = c.max
            /\ Len(d.items) = Len(c.items) /\ d.removed = c.removed
            /\ LiveIn(d.items) = LiveIn(c.items) \ keys
            /\ KeysIn(d.items) = KeysIn(c.items)
<1> DEFINE n == Len(c.items)
           d == SetNonLive(c, keys)
           t == [i \in DOMAIN c.items |->
                   IF c.items[i].key \in keys THEN LRUItem(c.items[i].key, FALSE)
                                              ELSE c.items[i]]
<1>1. /\ c \in LRUCache /\ OneOfEach(c.items) /\ c.items \in Seq(Item)
      /\ n \in Nat /\ DOMAIN c.items = 1..n
  BY LRUKeys DEF GoodLRU
<1>2. d = [c EXCEPT !.items = t]
  BY DEF SetNonLive
<1>3. ASSUME NEW i \in 1..n
      PROVE  /\ t[i] \in Item /\ t[i].key = c.items[i].key
             /\ t[i].live <=> c.items[i].live /\ c.items[i].key \notin keys
  <2>1. c.items[i] \in Item
    BY <1>1
  <2>2. t[i] = IF c.items[i].key \in keys THEN LRUItem(c.items[i].key, FALSE) ELSE c.items[i]
    BY <1>1
  <2>3. CASE c.items[i].key \in keys
    <3>1. t[i] = [key |-> c.items[i].key, live |-> FALSE]
      BY <2>2, <2>3 DEF LRUItem
    <3> HIDE DEF t
    <3>2. t[i].key = c.items[i].key /\ t[i].live = FALSE
      BY <3>1
    <3>3. t[i] \in Item
      BY <2>1, <3>1 DEF Item
    <3> QED BY <2>3, <3>2, <3>3
  <2>4. CASE c.items[i].key \notin keys
    BY <2>1, <2>2, <2>4
  <2> QED BY <2>3, <2>4
<1>4. DOMAIN t = 1..n /\ t = [i \in 1..n |-> t[i]]
  BY <1>1
<1> HIDE DEF t
<1>5. t \in Seq(Item) /\ Len(t) = n
  <2>1. t \in [1..n -> Item]
    BY <1>3, <1>4
  <2> QED BY <1>1, <2>1
<1>6. d \in LRUCache /\ d.items = t /\ d.max = c.max /\ d.removed = c.removed
  BY <1>1, <1>2, <1>5 DEF LRUCache
<1>7. OneOfEach(t) /\ KeysIn(t) = KeysIn(c.items)
  BY <1>1, <1>3, <1>5 DEF OneOfEach, KeysIn
<1>8. LiveIn(t) = LiveIn(c.items) \ keys
  <2>1. ASSUME NEW k
        PROVE  k \in LiveIn(t) <=> k \in LiveIn(c.items) /\ k \notin keys
    <3>1. k \in LiveIn(t) <=> \E i \in 1..n : t[i].live /\ t[i].key = k
      BY <1>5 DEF LiveIn
    <3>2. k \in LiveIn(c.items) <=> \E i \in 1..n : c.items[i].live /\ c.items[i].key = k
      BY DEF LiveIn
    <3> QED BY <1>3, <3>1, <3>2
  <2> QED BY <2>1
<1>9. GoodLRU(d)
  BY <1>6, <1>7 DEF GoodLRU
<1> QED BY <1>5, <1>6, <1>7, <1>8, <1>9

-----------------------------------------------------------------------------
(* The LRU cache of a search.                                              *)

(* The keys of the first k states of the path, those of dominance moves    *)
(* left out.                                                               *)
KeysTo(k) == {Key(Path[i]) : i \in {j \in 1..k : DominanceMove(Path[j]) = NoMove}}

(* The keys of the states that the cache was given.                        *)
GivenKeys == {Key(s) : s \in {t \in expanded : DominanceMove(t) = NoMove}}

(* The live items are those of the states above the current one.           *)
CacheInv ==
  /\ GoodLRU(cache) /\ cache.max = MaxEntries
  /\ KeysIn(cache.items) \subseteq GivenKeys
  /\ LiveIn(cache.items) = KeysTo(Len(frontier) - 1)

(* The nodes above the current one hold the iterators to their items.      *)
IteratorsHeld ==
  /\ frontier[Len(frontier)].cache_state = {}
  /\ \A i \in 1..(Len(frontier) - 1) :
       frontier[i].cache_state =
         IF DominanceMove(Path[i]) = NoMove THEN {Key(Path[i])} ELSE {}

LRUInv ==
  /\ NoCycles /\ MemLimitIsHonest
  /\ result \notin {"UNSOLVABLE", "MEM_LIMIT"} => CacheInv /\ IteratorsHeld

LEMMA LRUInsertion ==
  ASSUME Policy = "LRU", PathInv, CacheInv
  PROVE  LET key == Key(state)
         IN /\ Inserted.new \in BOOLEAN /\ Inserted.full \in BOOLEAN
            /\ Inserted.new <=> key \notin KeysIn(cache.items)
            /\ ~ Inserted.full =>
                 /\ GoodLRU(Inserted.cache) /\ Inserted.cache.max = MaxEntries
                 /\ KeysIn(Inserted.cache.items) \subseteq GivenKeys \union {key}
                 /\ Inserted.cache.removed = cache.removed =>
                      KeysIn(Inserted.cache.items) = KeysIn(cache.items) \union {key}
            /\ ~ Inserted.new =>
                 /\ ~ Inserted.full /\ key \in GivenKeys
                 /\ LiveIn(Inserted.cache.items) = LiveIn(cache.items)
            /\ Inserted.new =>
                 /\ key \notin LiveIn(cache.items)
                 /\ ~ Inserted.full =>
                      LiveIn(Inserted.cache.items) = LiveIn(cache.items) \union {key}
            /\ Inserted.full =>
                 /\ Len(cache.items) >= MaxEntries
                 /\ \A i \in 1..Len(cache.items) : cache.items[i].live
<1> DEFINE key == Key(state)
<1>1. Inserted = LRUInsert(cache, key)
  BY DEF Inserted, CacheInsert
<1>2. key \in {Key(x) : x \in State}
  BY PathFacts
<1>3. /\ GoodLRU(cache) /\ cache.max = MaxEntries
      /\ KeysIn(cache.items) \subseteq GivenKeys
  BY DEF CacheInv
<1>4. \A k \in LiveIn(cache.items) : k \in KeysIn(cache.items)
  BY DEF LiveIn, KeysIn
<1> HIDE DEF key
<1>5. CASE key \in KeysIn(cache.items)
  <2>1. /\ Inserted.new = FALSE /\ Inserted.full = FALSE
        /\ GoodLRU(Inserted.cache) /\ Inserted.cache.max = cache.max
        /\ LiveIn(Inserted.cache.items) = LiveIn(cache.items)
        /\ KeysIn(Inserted.cache.items) = KeysIn(cache.items)
    BY <1>1, <1>3, <1>5, InsertOld
  <2> QED BY <1>3, <1>5, <2>1 DEF key
<1>6. CASE key \notin KeysIn(cache.items)
  <2>1. /\ Inserted.new = TRUE /\ Inserted.full \in BOOLEAN
        /\ Inserted.full => /\ Len(cache.items) >= cache.max
                            /\ \A i \in 1..Len(cache.items) : cache.items[i].live
        /\ ~ Inserted.full =>
             /\ GoodLRU(Inserted.cache) /\ Inserted.cache.max = cache.max
             /\ LiveIn(Inserted.cache.items) = LiveIn(cache.items) \union {key}
             /\ KeysIn(Inserted.cache.items) \subseteq KeysIn(cache.items) \union {key}
             /\ Inserted.cache.removed = cache.removed =>
                  KeysIn(Inserted.cache.items) = KeysIn(cache.items) \union {key}
    BY <1>1, <1>2, <1>3, <1>6, InsertNew
  <2>2. key \notin LiveIn(cache.items)
    BY <1>4, <1>6
  <2>3. /\ Inserted.new <=> key \notin KeysIn(cache.items)
        /\ Inserted.full => Len(cache.items) >= MaxEntries
        /\ ~ Inserted.full =>
             /\ Inserted.cache.max = MaxEntries
             /\ KeysIn(Inserted.cache.items) \subseteq GivenKeys \union {key}
    BY <1>3, <1>6, <2>1
  <2> QED BY <2>1, <2>2, <2>3 DEF key
<1> QED BY <1>5, <1>6

(* The path up to node k stays, and a node comes after it.                 *)
LEMMA PathKept ==
  ASSUME NEW k \in Nat, Len(frontier') = k + 1, \A i \in 1..k : Path'[i] = Path[i]
  PROVE  /\ CachedNodes' = {i \in 1..k : DominanceMove(Path[i]) = NoMove}
         /\ (KeysTo(Len(frontier) - 1))' = KeysTo(k)
<1>1. Len(frontier') - 1 = k
  OBVIOUS
<1>2. CachedNodes' = {i \in 1..k : DominanceMove(Path[i]) = NoMove}
  BY <1>1 DEF CachedNodes
<1>3. (KeysTo(Len(frontier) - 1))' =
        {Key(Path'[i]) : i \in {j \in 1..k : DominanceMove(Path'[j]) = NoMove}}
  BY <1>1 DEF KeysTo
<1> QED BY <1>2, <1>3 DEF KeysTo

LEMMA DominateKeepsLRU ==
  ASSUME GameIsSound, PathInv, LRUInv, Dominate
  PROVE  LRUInv'
<1> DEFINE n == Len(frontier)
           moves == <<DominanceMove(state)>>
<1>1. /\ Turn /\ GoDown(frontier, moves) /\ UNCHANGED <<init_state, cache, result>>
      /\ result = "NONE" /\ ~ Solved(state) /\ DominanceMove(state) # NoMove
      /\ expanded \subseteq expanded'
  BY DEF Dominate, Turn, InBudget, Running, GoDown
<1>2. moves \in Seq(Move) /\ moves # <<>> /\ Range(moves) \subseteq MovesOf(state)
  BY <1>1, GameMoves
<1>3. frontier \in Seq(Node) /\ n \in Nat /\ n > 0 /\ state = Path[n]
  BY PathFacts DEF PathInv
<1> HIDE DEF moves
<1>4. /\ Len(frontier') = n + 1
      /\ \A i \in 1..n : Path'[i] = Path[i]
      /\ frontier'[n + 1] = NewNode(moves[Len(moves)])
      /\ \A i \in 1..n : frontier'[i].cache_state = frontier[i].cache_state
  BY <1>1, <1>2, <1>3, DownStep
<1>5. CacheInv /\ IteratorsHeld /\ NoCycles
  BY <1>1 DEF LRUInv
<1>6. \A i \in 1..n : i = n \/ i \in 1..(n - 1)
  BY <1>3
<1> HIDE DEF n
<1>7. CachedNodes' = {i \in 1..n : DominanceMove(Path[i]) = NoMove}
      /\ (KeysTo(Len(frontier) - 1))' = KeysTo(n)
  BY <1>3, <1>4, PathKept
<1>8. {i \in 1..n : DominanceMove(Path[i]) = NoMove} = CachedNodes
  <2>1. \A i \in 1..(n - 1) : i \in 1..n
    BY <1>3
  <2> QED BY <1>1, <1>3, <1>6, <2>1 DEF CachedNodes, n
<1>9. KeysTo(n) = KeysTo(n - 1)
  BY <1>8 DEF KeysTo, CachedNodes, n
<1>10. NoCycles'
  <2>1. \A i \in CachedNodes : i \in 1..n
    BY <1>8
  <2> QED BY <1>4, <1>5, <1>7, <1>8, <2>1 DEF NoCycles
<1>11. CacheInv'
  <2>1. GivenKeys \subseteq GivenKeys'
    BY <1>1 DEF GivenKeys
  <2> QED BY <1>1, <1>5, <1>7, <1>9, <2>1 DEF CacheInv, n
<1>12. IteratorsHeld'
  <2>1. frontier'[n + 1].cache_state = {}
    BY <1>4 DEF NewNode
  <2>2. \A i \in 1..n : frontier[i].cache_state =
          IF DominanceMove(Path[i]) = NoMove THEN {Key(Path[i])} ELSE {}
    BY <1>1, <1>3, <1>5, <1>6 DEF IteratorsHeld, n
  <2>3. Len(frontier') - 1 = n
    BY <1>3, <1>4
  <2> QED BY <1>4, <2>1, <2>2, <2>3 DEF IteratorsHeld
<1>13. MemLimitIsHonest'
  BY <1>1 DEF MemLimitIsHonest
<1> QED BY <1>10, <1>11, <1>12, <1>13 DEF LRUInv

LEMMA ExpandKeepsLRU ==
  ASSUME GameIsSound, Policy = "LRU", PathInv, LRUInv, Expand
  PROVE  LRUInv'
<1> DEFINE n == Len(frontier)
           key == Key(state)
<1>1. /\ Turn /\ GoDown(Marked, Moves) /\ UNCHANGED <<init_state, result>> /\ Moves # <<>>
      /\ result = "NONE" /\ ~ Solved(state) /\ DominanceMove(state) = NoMove
      /\ Inserted.new /\ ~ Inserted.full /\ cache' = Inserted.cache
      /\ expanded' = expanded \union {state}
  BY DEF Expand, Turn, InBudget, Running, GoDown
<1>2. Moves \in Seq(Move) /\ Range(Moves) \subseteq MovesOf(state)
  BY <1>1, GameMoves
<1>3. frontier \in Seq(Node) /\ n \in Nat /\ n > 0 /\ state = Path[n]
  BY PathFacts DEF PathInv
<1>4. /\ Len(frontier') = n + 1
      /\ \A i \in 1..n : Path'[i] = Path[i]
      /\ frontier'[n + 1] = NewNode(Moves[Len(Moves)])
      /\ \A i \in 1..n : frontier'[i].cache_state = Marked[i].cache_state
  BY <1>1, <1>2, <1>3, MarkedNodes, DownStep
<1>5. CacheInv /\ IteratorsHeld /\ NoCycles
  BY <1>1 DEF LRUInv
<1>6. \A i \in 1..n : i = n \/ i \in 1..(n - 1)
  BY <1>3
<1>7. (\A i \in 1..(n - 1) : i \in 1..n /\ i # n) /\ n \in 1..n
  BY <1>3
<1> HIDE DEF n, key
<1>8. CachedNodes' = {i \in 1..n : DominanceMove(Path[i]) = NoMove}
      /\ (KeysTo(Len(frontier) - 1))' = KeysTo(n)
  BY <1>3, <1>4, PathKept
<1>9. {i \in 1..n : DominanceMove(Path[i]) = NoMove} = CachedNodes \union {n}
  BY <1>1, <1>3, <1>6, <1>7 DEF CachedNodes, n
<1>10. KeysTo(n) = KeysTo(n - 1) \union {key}
  <2>1. KeysTo(n) = {Key(Path[i]) : i \in CachedNodes \union {n}}
    BY <1>9 DEF KeysTo
  <2>2. KeysTo(n - 1) = {Key(Path[i]) : i \in CachedNodes}
    BY DEF KeysTo, CachedNodes, n
  <2>3. key = Key(Path[n])
    BY <1>3 DEF key
  <2> QED BY <2>1, <2>2, <2>3
<1>11. /\ GoodLRU(cache') /\ cache'.max = MaxEntries
       /\ KeysIn(cache'.items) \subseteq GivenKeys \union {key}
       /\ LiveIn(cache'.items) = LiveIn(cache.items) \union {key}
       /\ key \notin LiveIn(cache.items) /\ LiveIn(cache.items) = KeysTo(n - 1)
  BY <1>1, <1>5, LRUInsertion DEF CacheInv, n, key
<1>12. NoCycles'
  <2>1. \A i \in CachedNodes : Key(Path[i]) # Key(Path[n])
    <3>1. \A i \in CachedNodes : Key(Path[i]) \in KeysTo(n - 1)
      BY DEF KeysTo, CachedNodes, n
    <3> QED BY <1>3, <1>11, <3>1 DEF key
  <2>2. \A i \in CachedNodes \union {n} : i \in 1..n
    BY <1>9
  <2>3. \A i, j \in CachedNodes \union {n} : i # j => Key(Path[i]) # Key(Path[j])
    BY <1>5, <2>1 DEF NoCycles
  <2>4. \A i, j \in CachedNodes \union {n} : i # j => Key(Path'[i]) # Key(Path'[j])
    BY <1>4, <2>2, <2>3
  <2> QED BY <1>8, <1>9, <2>4 DEF NoCycles
<1>13. CacheInv'
  <2>1. GivenKeys \union {key} \subseteq GivenKeys'
    BY <1>1 DEF GivenKeys, key
  <2> QED BY <1>8, <1>10, <1>11, <2>1 DEF CacheInv
<1>14. IteratorsHeld'
  <2>1. frontier'[n + 1].cache_state = {}
    BY <1>4 DEF NewNode
  <2>2. \A i \in 1..n : Marked[i].cache_state =
          IF DominanceMove(Path[i]) = NoMove THEN {Key(Path[i])} ELSE {}
    <3>1. Marked[n].cache_state = {Key(Path[n])} /\ DominanceMove(Path[n]) = NoMove
      BY <1>1, <1>3, MarkedNodes DEF n, ComputesHash
    <3>2. \A i \in 1..(n - 1) : Marked[i].cache_state =
            IF DominanceMove(Path[i]) = NoMove THEN {Key(Path[i])} ELSE {}
      BY <1>5, MarkedNodes DEF n, IteratorsHeld
    <3> QED BY <1>6, <3>1, <3>2
  <2>3. Len(frontier') - 1 = n
    BY <1>3, <1>4
  <2> QED BY <1>4, <2>1, <2>2, <2>3 DEF IteratorsHeld
<1>15. MemLimitIsHonest'
  BY <1>1 DEF MemLimitIsHonest
<1> QED BY <1>12, <1>13, <1>14, <1>15 DEF LRUInv

(* The keys of the nodes left behind go, those of the nodes kept stay.     *)
LEMMA LeftBehindKeys ==
  ASSUME PathInv, NoCycles, IteratorsHeld, OpenNodes # {}, NEW own,
         \A k \in own : k \notin KeysTo(Len(frontier) - 1)
  PROVE  /\ KeysTo(Len(frontier) - 1) \ LeftBehind(own) = KeysTo(Target)
         /\ own \subseteq LeftBehind(own)
<1> DEFINE n == Len(frontier)
           t == Target
           Behind == UNION {frontier[i].cache_state : i \in (t + 1)..(n - 1)}
<1>1. n \in Nat /\ n > 0 /\ t \in 1..n /\ t < n /\ t \in Nat /\ n # 1
  <2>1. n \in Nat /\ n > 0
    BY PathFacts
  <2>2. t \in 1..n /\ t < n
    BY <2>1, TargetIsLast
  <2> HIDE DEF n, t
  <2> QED BY <2>1, <2>2
<1>2. LeftBehind(own) = Behind \union own
  <2>1. LeftBehind(own) = Behind \union (IF AtRoot THEN {} ELSE own)
    BY DEF LeftBehind
  <2>2. ~ AtRoot
    BY <1>1 DEF AtRoot
  <2> QED BY <2>1, <2>2
<1>3. \A i \in 1..(n - 1) : frontier[i].cache_state =
        IF DominanceMove(Path[i]) = NoMove THEN {Key(Path[i])} ELSE {}
  BY DEF IteratorsHeld
<1>4. \A i \in 1..(n - 1) : DominanceMove(Path[i]) = NoMove <=> i \in CachedNodes
  BY DEF CachedNodes
<1>5. \A i \in 1..(n - 1) : i \in 1..t \/ i \in (t + 1)..(n - 1)
  BY <1>1
<1>6. \A i \in 1..t : i \in 1..(n - 1) /\ i \notin (t + 1)..(n - 1)
  BY <1>1
<1>7. \A i \in (t + 1)..(n - 1) : i \in 1..(n - 1)
  BY <1>1
<1>8. KeysTo(t) = {Key(Path[i]) : i \in {j \in 1..t : DominanceMove(Path[j]) = NoMove}}
      /\ KeysTo(n - 1) = {Key(Path[i]) : i \in {j \in 1..(n - 1) : DominanceMove(Path[j]) = NoMove}}
  BY DEF KeysTo
<1> HIDE DEF n, t
<1>9. ASSUME NEW k \in KeysTo(t)
      PROVE  k \in KeysTo(n - 1) /\ k \notin Behind \union own
  <2>1. PICK i \in 1..t : DominanceMove(Path[i]) = NoMove /\ k = Key(Path[i])
    BY <1>8
  <2>2. i \in 1..(n - 1) /\ k \in KeysTo(n - 1)
    BY <1>6, <1>8, <2>1
  <2>3. k \notin own
    BY <2>2 DEF n
  <2>4. k \notin Behind
    <3>1. SUFFICES ASSUME NEW j \in (t + 1)..(n - 1), k \in frontier[j].cache_state
                   PROVE  FALSE
      OBVIOUS
    <3>2. j \in 1..(n - 1) /\ j # i
      BY <1>6, <1>7
    <3>3. DominanceMove(Path[j]) = NoMove /\ k = Key(Path[j])
      <4>1. frontier[j].cache_state =
              IF DominanceMove(Path[j]) = NoMove THEN {Key(Path[j])} ELSE {}
        BY <1>3, <3>2
      <4> QED BY <3>1, <4>1
    <3> QED BY <1>4, <2>1, <2>2, <3>2, <3>3 DEF NoCycles
  <2> QED BY <2>2, <2>3, <2>4
<1>10. ASSUME NEW k \in KeysTo(n - 1), k \notin Behind
       PROVE  k \in KeysTo(t)
  <2>1. PICK i \in 1..(n - 1) : DominanceMove(Path[i]) = NoMove /\ k = Key(Path[i])
    BY <1>8
  <2>2. i \notin (t + 1)..(n - 1)
    <3>1. frontier[i].cache_state = {k}
      BY <1>3, <2>1
    <3> QED BY <1>10, <3>1
  <2>3. i \in 1..t
    BY <1>5, <2>2
  <2> QED BY <1>8, <2>1, <2>3
<1> HIDE DEF Behind
<1> QED BY <1>2, <1>9, <1>10 DEF n, t

LEMMA BackKeepsLRU ==
  ASSUME GameIsSound, Policy = "LRU", PathInv, LRUInv, DeadEnd \/ Duplicate
  PROVE  LRUInv'
<1> DEFINE n == Len(frontier)
           key == Key(state)
           k == Target
<1>1. /\ UNCHANGED init_state /\ result = "NONE" /\ DominanceMove(state) = NoMove
      /\ expanded \subseteq expanded' /\ expanded' \subseteq State
      /\ CacheInv /\ IteratorsHeld /\ NoCycles
  BY PathFacts DEF DeadEnd, Duplicate, Turn, InBudget, Running, LRUInv
<1>2. \E own : \E fresh \in {0, 1} :
        /\ Backtrack(Marked, own, Inserted.cache, fresh) /\ ~ Inserted.full
        /\ \A x \in own : x \notin LiveIn(cache.items)
        /\ LiveIn(Inserted.cache.items) = LiveIn(cache.items) \union own
        /\ KeysIn(Inserted.cache.items) \subseteq GivenKeys'
  <2>1. CASE DeadEnd
    <3>1. /\ Backtrack(Marked, {key}, Inserted.cache, 1) /\ Inserted.new /\ ~ Inserted.full
          /\ expanded' = expanded \union {state}
      BY <2>1 DEF DeadEnd
    <3>2. /\ key \notin LiveIn(cache.items)
          /\ LiveIn(Inserted.cache.items) = LiveIn(cache.items) \union {key}
          /\ KeysIn(Inserted.cache.items) \subseteq GivenKeys \union {key}
      BY <1>1, <3>1, LRUInsertion
    <3>3. GivenKeys \union {key} \subseteq GivenKeys'
      BY <1>1, <3>1 DEF GivenKeys
    <3>4. \A x \in {key} : x \notin LiveIn(cache.items)
      BY <3>2
    <3> HIDE DEF key
    <3> QED BY <3>1, <3>2, <3>3, <3>4
  <2>2. CASE Duplicate
    <3>1. /\ Backtrack(Marked, {}, Inserted.cache, 0) /\ ~ Inserted.new
          /\ expanded' = expanded
      BY <2>2 DEF Duplicate
    <3>2. /\ ~ Inserted.full /\ key \in GivenKeys
          /\ LiveIn(Inserted.cache.items) = LiveIn(cache.items)
          /\ KeysIn(Inserted.cache.items) \subseteq GivenKeys \union {key}
      BY <1>1, <3>1, LRUInsertion
    <3>3. GivenKeys' = GivenKeys
      BY <3>1 DEF GivenKeys
    <3>4. /\ \A x \in {} : x \notin LiveIn(cache.items)
          /\ LiveIn(Inserted.cache.items) = LiveIn(cache.items) \union {}
      BY <3>2
    <3> HIDE DEF key
    <3> QED BY <3>1, <3>2, <3>3, <3>4
  <2> QED BY <2>1, <2>2
<1>3. PICK own : \E fresh \in {0, 1} :
        /\ Backtrack(Marked, own, Inserted.cache, fresh) /\ ~ Inserted.full
        /\ \A x \in own : x \notin LiveIn(cache.items)
        /\ LiveIn(Inserted.cache.items) = LiveIn(cache.items) \union own
        /\ KeysIn(Inserted.cache.items) \subseteq GivenKeys'
  BY <1>2
<1>4. PICK fresh \in {0, 1} : Backtrack(Marked, own, Inserted.cache, fresh)
  BY <1>3
<1>5. cache' = SetNonLive(Inserted.cache, LeftBehind(own))
  BY <1>4 DEF Backtrack, ComputesHash
<1>6. GoodLRU(Inserted.cache) /\ Inserted.cache.max = MaxEntries
  BY <1>1, <1>3, LRUInsertion
<1>7. /\ GoodLRU(cache') /\ cache'.max = MaxEntries
      /\ KeysIn(cache'.items) \subseteq GivenKeys'
      /\ LiveIn(cache'.items) = LiveIn(Inserted.cache.items) \ LeftBehind(own)
  BY <1>3, <1>5, <1>6, ItemsNotLive
<1>8. n \in Nat /\ n > 0
  BY PathFacts
<1>9. CASE OpenNodes = {}
  <2>1. Len(frontier') = 1 /\ result' = "UNSOLVABLE"
    BY <1>1, <1>4, <1>9, BackStep
  <2>2. NoCycles'
    <3>1. CachedNodes' = {}
      BY <2>1 DEF CachedNodes
    <3> QED BY <3>1 DEF NoCycles
  <2>3. MemLimitIsHonest'
    BY <2>1 DEF MemLimitIsHonest
  <2> QED BY <2>1, <2>2, <2>3 DEF LRUInv
<1>10. CASE OpenNodes # {}
  <2>1. /\ k \in 1..n /\ k < n /\ Len(frontier') = k + 1 /\ result' = result
        /\ \A i \in 1..k : /\ Path'[i] = Path[i]
                           /\ frontier'[i].cache_state = frontier[i].cache_state
        /\ \E m : frontier'[k + 1] = NewNode(m)
    BY <1>1, <1>4, <1>10, BackStep
  <2>2. KeysTo(n - 1) \ LeftBehind(own) = KeysTo(k) /\ own \subseteq LeftBehind(own)
    BY <1>1, <1>3, <1>10, LeftBehindKeys DEF CacheInv
  <2> HIDE DEF n, k
  <2>3. k \in Nat /\ \A i \in 1..k : i \in 1..(n - 1)
    BY <1>8, <2>1
  <2>4. /\ CachedNodes' = {i \in 1..k : DominanceMove(Path[i]) = NoMove}
        /\ (KeysTo(Len(frontier) - 1))' = KeysTo(k)
    BY <2>1, <2>3, PathKept
  <2>5. LiveIn(cache'.items) = KeysTo(k)
    BY <1>1, <1>3, <1>7, <2>2 DEF CacheInv, n
  <2>6. CacheInv'
    BY <1>7, <2>4, <2>5 DEF CacheInv
  <2>7. IteratorsHeld'
    <3>1. frontier'[k + 1].cache_state = {}
      BY <2>1 DEF NewNode
    <3>2. \A i \in 1..k : frontier[i].cache_state =
            IF DominanceMove(Path[i]) = NoMove THEN {Key(Path[i])} ELSE {}
      BY <1>1, <2>3 DEF IteratorsHeld, n
    <3>3. Len(frontier') - 1 = k
      BY <2>1, <2>3
    <3> QED BY <2>1, <3>1, <3>2, <3>3 DEF IteratorsHeld
  <2>8. NoCycles'
    <3>1. \A i \in CachedNodes' : i \in CachedNodes /\ i \in 1..k
      BY <2>3, <2>4 DEF CachedNodes, n
    <3> QED BY <1>1, <2>1, <3>1 DEF NoCycles
  <2>9. MemLimitIsHonest'
    BY <1>1, <2>1 DEF MemLimitIsHonest
  <2> QED BY <2>6, <2>7, <2>8, <2>9 DEF LRUInv
<1> QED BY <1>9, <1>10

(* All the items are live and of different keys: each is that of a node.   *)
LEMMA MemLimitKeepsLRU ==
  ASSUME Policy = "LRU", PathInv, LRUInv, MemLimit
  PROVE  LRUInv'
<1> DEFINE len == Len(cache.items)
           Of(i) == {j \in CachedNodes : Key(Path[j]) = cache.items[i].key}
           g == [i \in 1..len |-> CHOOSE j \in CachedNodes : Key(Path[j]) = cache.items[i].key]
<1>1. /\ UNCHANGED <<init_state, state, frontier, res, expanded>>
      /\ result = "NONE" /\ result' = "MEM_LIMIT" /\ Inserted.full
      /\ CacheInv /\ IteratorsHeld /\ NoCycles
  BY DEF MemLimit, Turn, InBudget, Running, LRUInv
<1>2. len >= MaxEntries /\ \A i \in 1..len : cache.items[i].live
  BY <1>1, LRUInsertion
<1>3. /\ cache.items \in Seq(Item) /\ len \in Nat
      /\ OneOfEach(cache.items) /\ LiveIn(cache.items) = KeysTo(Len(frontier) - 1)
  BY <1>1 DEF CacheInv, GoodLRU, LRUCache
<1>4. ASSUME NEW i \in 1..len
      PROVE  \E j \in CachedNodes : Key(Path[j]) = cache.items[i].key
  <2>1. cache.items[i].key \in LiveIn(cache.items)
    BY <1>2 DEF LiveIn
  <2>2. cache.items[i].key \in KeysTo(Len(frontier) - 1)
    BY <1>3, <2>1
  <2> QED BY <2>2 DEF KeysTo, CachedNodes
<1>5. \A i \in 1..len : g[i] \in CachedNodes /\ Key(Path[g[i]]) = cache.items[i].key
  BY <1>4
<1>6. \A i, j \in 1..len : g[i] = g[j] => i = j
  <2> HIDE DEF g
  <2> QED BY <1>3, <1>5 DEF OneOfEach
<1>7. IsFiniteSet(CachedNodes)
  <2>1. Len(frontier) - 1 \in Int
    BY PathFacts
  <2>2. IsFiniteSet(1..(Len(frontier) - 1))
    BY <2>1, FS_Interval
  <2> QED BY <2>2, FS_Subset DEF CachedNodes
<1>8. g \in Injection(1..len, CachedNodes)
  BY <1>5, <1>6 DEF Injection, IsInjective
<1>9. IsFiniteSet(1..len) /\ Cardinality(1..len) = len
  <2>1. len \in Nat
    BY <1>3
  <2> HIDE DEF len
  <2>2. 1 \in Int /\ len \in Int
    BY <2>1
  <2>3. /\ IsFiniteSet(1..len)
        /\ Cardinality(1..len) = IF 1 > len THEN 0 ELSE len - 1 + 1
    BY <2>2, FS_Interval
  <2> QED BY <2>1, <2>3
<1>10. Cardinality(1..len) <= Cardinality(CachedNodes)
  BY <1>7, <1>8, <1>9, FS_Injection
<1>11. Cardinality(CachedNodes) \in Nat
  BY <1>7, FS_CardinalityType
<1>12. Cardinality(CachedNodes) >= MaxEntries
  <2>1. MaxEntries \in Nat
    BY SizeAssumption
  <2> QED BY <1>2, <1>3, <1>9, <1>10, <1>11, <2>1
<1>13. CachedNodes' = CachedNodes /\ NoCycles' = NoCycles
  BY <1>1 DEF CachedNodes, NoCycles, Path
<1> QED BY <1>1, <1>12, <1>13 DEF LRUInv, MemLimitIsHonest

(* The path and the cache stay.                                            *)
LEMMA FrozenLRU ==
  ASSUME LRUInv, UNCHANGED <<init_state, state, frontier, cache, expanded>>,
         result' = result
           \/ (result = "NONE" /\ result' \notin {"UNSOLVABLE", "MEM_LIMIT"})
  PROVE  LRUInv'
<1>1. Path' = Path
  BY DEF Path
<1>2. CachedNodes' = CachedNodes
  BY <1>1 DEF CachedNodes
<1>3. NoCycles' = NoCycles
  BY <1>1, <1>2 DEF NoCycles
<1>4. GivenKeys' = GivenKeys
  BY DEF GivenKeys
<1>5. (KeysTo(Len(frontier) - 1))' = KeysTo(Len(frontier) - 1)
  BY <1>1 DEF KeysTo
<1>6. CacheInv => CacheInv'
  BY <1>4, <1>5 DEF CacheInv
<1>7. IteratorsHeld => IteratorsHeld'
  BY <1>1 DEF IteratorsHeld
<1>8. MemLimitIsHonest'
  <2>1. CASE result' = "MEM_LIMIT"
    BY <1>2, <2>1 DEF LRUInv, MemLimitIsHonest
  <2>2. CASE result' # "MEM_LIMIT"
    BY <2>2 DEF MemLimitIsHonest
  <2> QED BY <2>1, <2>2
<1> QED BY <1>3, <1>6, <1>7, <1>8 DEF LRUInv

LEMMA NextLRU ==
  ASSUME GameIsSound, Policy = "LRU", PathInv, LRUInv, [Next]_vars
  PROVE  LRUInv'
<1>1. CASE Dominate
  BY <1>1, DominateKeepsLRU
<1>2. CASE Expand
  BY <1>2, ExpandKeepsLRU
<1>3. CASE DeadEnd \/ Duplicate
  BY <1>3, BackKeepsLRU
<1>4. CASE MemLimit
  BY <1>4, MemLimitKeepsLRU
<1>5. CASE TimeOut \/ Terminate \/ Solve
  <2>1. /\ UNCHANGED <<init_state, state, frontier, cache, expanded>>
        /\ result = "NONE" /\ result' \notin {"UNSOLVABLE", "MEM_LIMIT"}
    BY <1>5 DEF TimeOut, Terminate, Solve, Running, search
  <2> QED BY <2>1, FrozenLRU
<1>6. CASE Clock \/ Signal \/ UNCHANGED vars
  <2>1. UNCHANGED <<init_state, state, frontier, cache, expanded, result>>
    BY <1>6 DEF Clock, Signal, vars, search
  <2> QED BY <2>1, FrozenLRU
<1> QED BY <1>1, <1>2, <1>3, <1>4, <1>5, <1>6 DEF Next, Dfs, Uncut

LEMMA InitLRU ==
  ASSUME Policy = "LRU", Init
  PROVE  LRUInv
<1>1. /\ Len(frontier) = 1 /\ frontier[1].cache_state = {} /\ result = "NONE"
      /\ cache = EmptyLRU(MaxEntries)
  BY DEF Init, NewNode, EmptyCache
<1>2. /\ cache.items = <<>> /\ cache.max = MaxEntries
      /\ cache = [items |-> <<>>, max |-> MaxEntries, removed |-> 0]
  BY <1>1 DEF EmptyLRU
<1>3. GoodLRU(cache) /\ KeysIn(cache.items) = {} /\ LiveIn(cache.items) = {}
  <2>1. <<>> \in Seq(Item) /\ Len(<<>>) = 0 /\ MaxEntries \in Nat
    BY SizeAssumption
  <2>2. cache \in LRUCache
    BY <1>2, <2>1 DEF LRUCache
  <2>3. 1..Len(cache.items) = {}
    BY <1>2, <2>1
  <2> QED BY <2>2, <2>3 DEF GoodLRU, OneOfEach, KeysIn, LiveIn
<1>4. 1..(Len(frontier) - 1) = {}
  BY <1>1
<1>5. CachedNodes = {} /\ KeysTo(Len(frontier) - 1) = {}
  BY <1>4 DEF CachedNodes, KeysTo
<1> QED BY <1>1, <1>2, <1>3, <1>4, <1>5 DEF LRUInv, NoCycles, MemLimitIsHonest, CacheInv, IteratorsHeld

(* The inductive invariant behind what the LRU cache keeps for the search. *)
THEOREM LRUInvariant ==
  ASSUME GameIsSound, Policy = "LRU"
  PROVE  Spec => [](BooksInv /\ LRUInv)
<1>1. Init => BooksInv /\ LRUInv
  BY InitBooks, InitLRU
<1>2. BooksInv /\ LRUInv /\ [Next]_vars => BooksInv' /\ LRUInv'
  BY NextBooks, NextLRU DEF BooksInv
<1> QED BY <1>1, <1>2, PTL DEF Spec

(* With an LRU cache of any size, none of the states of the search path is *)
(* evicted, however many insertions and jumps back over several nodes come *)
(* in between, no item stays live for a state that was left, and no state  *)
(* comes twice on the path: the search cannot go in circles.               *)
THEOREM OpenPathStaysKept ==
  ASSUME GameIsSound, Policy = "LRU"
  PROVE  Spec => []OpenPathIsKept
<1>1. Spec => [](BooksInv /\ LRUInv)
  BY LRUInvariant
<1>2. LRUInv => OpenPathIsKept
  <2>1. SUFFICES ASSUME LRUInv PROVE OpenPathIsKept
    OBVIOUS
  <2>2. CASE result \in {"UNSOLVABLE", "MEM_LIMIT"}
    BY <2>1, <2>2 DEF LRUInv, OpenPathIsKept, LiveIsThePath
  <2>3. CASE result \notin {"UNSOLVABLE", "MEM_LIMIT"}
    <3>1. cache \in LRUCache /\ LiveIn(cache.items) = KeysTo(Len(frontier) - 1)
      BY <2>1, <2>3 DEF LRUInv, CacheInv, GoodLRU
    <3>2. LRULive(cache) = KeysTo(Len(frontier) - 1)
      BY <3>1, LRUKeys
    <3>3. LRULive(cache) = {Key(Path[i]) : i \in CachedNodes}
      BY <3>2 DEF KeysTo, CachedNodes
    <3> QED BY <2>1, <3>3 DEF LRUInv, OpenPathIsKept, LiveIsThePath
  <2> QED BY <2>2, <2>3
<1> QED BY <1>1, <1>2, PTL

LEMMA OnlyLRUIsFull ==
  ASSUME Policy # "LRU"
  PROVE  Inserted.full = FALSE
<1>1. CASE Policy = "BITMAP"
  <2>1. \A c, key : BitmapInsert(c, key).full = FALSE
    BY DEF BitmapInsert
  <2>2. \A c, key, depth : CacheInsert(c, key, depth) = BitmapInsert(c, key)
    BY <1>1 DEF CacheInsert
  <2> QED BY <2>1, <2>2 DEF Inserted
<1>2. CASE Policy # "BITMAP"
  <2>1. \A c, key, depth : FlatInsert(c, key, depth).full = FALSE
    BY DEF FlatInsert
  <2>2. \A c, key, depth : CacheInsert(c, key, depth) = FlatInsert(c, key, depth)
    BY <1>2 DEF CacheInsert
  <2> QED BY <2>1, <2>2 DEF Inserted
<1> QED BY <1>1, <1>2

(* A search gives up for want of memory only when its path alone fills the *)
(* cache, never while there is an item to evict; and a search with a flat  *)
(* or a bitmap cache never does.                                           *)
THEOREM MemLimitStaysHonest ==
  ASSUME GameIsSound
  PROVE  Spec => []MemLimitIsHonest
<1>1. Policy = "LRU" => (Spec => []MemLimitIsHonest)
  <2>1. SUFFICES ASSUME Policy = "LRU" PROVE Spec => []MemLimitIsHonest
    OBVIOUS
  <2>2. Spec => [](BooksInv /\ LRUInv)
    BY <2>1, LRUInvariant
  <2>3. LRUInv => MemLimitIsHonest
    BY DEF LRUInv
  <2> QED BY <2>2, <2>3, PTL
<1>2. Policy # "LRU" => (Spec => []MemLimitIsHonest)
  <2>1. SUFFICES ASSUME Policy # "LRU" PROVE Spec => []MemLimitIsHonest
    OBVIOUS
  <2> DEFINE NotFull == result # "MEM_LIMIT"
  <2>2. Init => NotFull
    BY DEF Init
  <2>3. NotFull /\ [Next]_vars => NotFull'
    <3>1. SUFFICES ASSUME NotFull, [Next]_vars PROVE NotFull'
      OBVIOUS
    <3>2. ~ MemLimit
      BY <2>1, OnlyLRUIsFull DEF MemLimit
    <3> QED BY <3>1, <3>2 DEF Next, Dfs, Uncut, Dominate, Expand, DeadEnd, Duplicate, Solve,
                              TimeOut, Terminate, Clock, Signal, GoDown, Backtrack, vars
  <2>4. NotFull => MemLimitIsHonest
    BY DEF MemLimitIsHonest
  <2> QED BY <2>2, <2>3, <2>4, PTL DEF Spec
<1> QED BY <1>1, <1>2

-----------------------------------------------------------------------------
(* The solution.                                                           *)

SolvedInv == result = "SOLVED" => Solved(state)

LEMMA NextSolved ==
  ASSUME SolvedInv, [Next]_vars
  PROVE  SolvedInv'
<1>1. CASE Solve
  BY <1>1 DEF Solve, SolvedInv, search
<1>2. CASE Dominate \/ Expand \/ DeadEnd \/ Duplicate \/ MemLimit \/ TimeOut \/ Terminate
  <2>1. result' # "SOLVED"
    BY <1>2 DEF Dominate, Expand, DeadEnd, Duplicate, MemLimit, TimeOut, Terminate, Turn,
                InBudget, Running, GoDown, Backtrack
  <2> QED BY <2>1 DEF SolvedInv
<1>3. CASE Clock \/ Signal \/ UNCHANGED vars
  <2>1. UNCHANGED <<result, state>>
    BY <1>3 DEF Clock, Signal, vars, search
  <2> QED BY <2>1 DEF SolvedInv
<1> QED BY <1>1, <1>2, <1>3 DEF Next, Dfs, Uncut

(* The states printed are those of the path.                               *)
LEMMA PrintedIsPath ==
  ASSUME BooksInv, result # "UNSOLVABLE", res.states_searched # 1
  PROVE  PrintedStates = Path
<1>1. /\ res \in Counters /\ MovesAddUp /\ Len(frontier) \in Nat /\ Len(frontier) > 0
  BY PathFacts DEF BooksInv, CountInv
<1>2. res.states_searched \in Nat /\ res.backtracks \in Nat /\ res.depth \in Nat
  BY <1>1 DEF Counters
<1>3. /\ res.depth = Len(frontier) - 1
      /\ res.depth + res.backtracks = res.states_searched
  BY <1>1, <1>2 DEF MovesAddUp
<1>4. CASE res.states_searched > 1
  BY <1>4 DEF PrintedStates, MovesPrinted, SolutionMoves, Path
<1>5. CASE ~ (res.states_searched > 1)
  <2>1. Len(frontier) - 1 = 0
    <3> DEFINE searched == res.states_searched
               len == Len(frontier)
               back == res.backtracks
    <3>1. /\ searched \in Nat /\ back \in Nat /\ len \in Nat /\ len > 0
          /\ searched # 1 /\ ~ (searched > 1) /\ len - 1 + back = searched
      BY <1>1, <1>2, <1>3, <1>5
    <3> HIDE DEF searched, len, back
    <3>2. len - 1 = 0
      BY <3>1
    <3> QED BY <3>2 DEF len
  <2>2. MovesPrinted = <<>>
    BY <1>5 DEF MovesPrinted
  <2> DEFINE moves == [i \in 1..(Len(frontier) - 1) |-> frontier[i + 1].mv]
  <2>3. moves = [i \in DOMAIN moves |-> moves[i]] /\ DOMAIN moves = 1..0
    BY <2>1
  <2> HIDE DEF moves
  <2>4. moves = <<>>
    BY <2>3
  <2> USE DEF moves
  <2> QED BY <2>2, <2>4 DEF PrintedStates, Path
<1> QED BY <1>4, <1>5

(* A state of the path that comes twice is solved, or one of no dominance  *)
(* move, or is followed by one that comes twice.                           *)
LEMMA PathIsInjective ==
  ASSUME GameIsSound, PathInv, NoCycles, Solved(state)
  PROVE  \A i, j \in 1..Len(frontier) : Path[i] = Path[j] => i = j
<1> DEFINE n == Len(frontier)
           T == {j \in 1..n : \E i \in 1..(j - 1) : Path[i] = Path[j]}
<1>1. /\ n \in Nat /\ n > 0 /\ state = Path[n]
      /\ \A i \in 1..(n - 1) : ~ Solved(Path[i])
  BY PathFacts DEF PathInv
<1>2. \A i \in 1..(n - 1) : /\ Path[i + 1] = Apply(Path[i], frontier[i + 1].mv)
                            /\ frontier[i + 1].mv \in MovesOf(Path[i])
  BY <1>1, PathIsPathOf, PathStates DEF PathInv, SearchPath
<1> HIDE DEF n
<1>3. T = {}
  <2>1. SUFFICES ASSUME T # {} PROVE FALSE
    OBVIOUS
  <2>2. PICK j \in T : \A y \in T : y <= j
    BY <1>1, <2>1, GreatestOf
  <2>3. PICK i \in 1..(j - 1) : Path[i] = Path[j]
    BY <2>2
  <2>4. j \in 1..n /\ i \in 1..(n - 1) /\ i # j
    BY <1>1, <2>2, <2>3
  <2>5. j # n /\ j \in 1..(n - 1)
    <3>1. j # n
      BY <1>1, <2>3, <2>4
    <3> QED BY <1>1, <2>4, <3>1
  <2>6. DominanceMove(Path[j]) # NoMove
    BY <2>3, <2>4, <2>5 DEF NoCycles, CachedNodes, n
  <2>7. /\ frontier[i + 1].mv = DominanceMove(Path[j])
        /\ frontier[j + 1].mv = DominanceMove(Path[j])
    BY <1>2, <2>3, <2>4, <2>5, <2>6 DEF MovesOf
  <2>8. Path[i + 1] = Path[j + 1]
    BY <1>2, <2>3, <2>4, <2>5, <2>7
  <2>9. j + 1 \in 1..n /\ i + 1 \in 1..(j + 1 - 1) /\ ~ (j + 1 <= j)
    BY <1>1, <2>3, <2>5
  <2>10. j + 1 \in T
    BY <2>8, <2>9
  <2> QED BY <2>2, <2>9, <2>10
<1>4. ASSUME NEW i \in 1..n, NEW j \in 1..n, Path[i] = Path[j], i < j
      PROVE  FALSE
  <2>1. i \in 1..(j - 1)
    BY <1>1, <1>4
  <2> QED BY <1>3, <1>4, <2>1
<1>5. \A i, j \in 1..n : i = j \/ i < j \/ j < i
  BY <1>1
<1> QED BY <1>4, <1>5 DEF n

LEMMA PathIsPlay ==
  ASSUME GameIsSound, PathInv, NoCycles, Solved(state)
  PROVE  /\ \A i \in DOMAIN Path : (i = Len(Path)) = Solved(Path[i])
         /\ \A i \in 2..Len(Path) :
              \E m \in MovesOf(Path[i - 1]) : Path[i] = Apply(Path[i - 1], m)
         /\ IsInjective(Path)
<1> DEFINE n == Len(frontier)
<1>1. /\ n \in Nat /\ n > 0 /\ state = Path[n]
      /\ \A i \in 1..(n - 1) : ~ Solved(Path[i])
      /\ \A i \in 1..n : Path[i] \in State
  BY PathFacts DEF PathInv
<1>2. /\ Path = [i \in 1..n |-> Path[i]] /\ DOMAIN Path = 1..n
      /\ \A i \in 1..(n - 1) : /\ Path[i + 1] = Apply(Path[i], frontier[i + 1].mv)
                               /\ frontier[i + 1].mv \in MovesOf(Path[i])
  BY <1>1, PathIsPathOf, PathStates DEF PathInv, SearchPath
<1>3. \A i, j \in 1..n : Path[i] = Path[j] => i = j
  BY PathIsInjective
<1> HIDE DEF n
<1>4. Len(Path) = n
  <2>1. Path \in [1..n -> State]
    BY <1>1, <1>2
  <2>2. Path \in Seq(State)
    BY <1>1, <2>1, SeqDef
  <2> QED BY <1>1, <1>2, <2>2, LenProperties
<1>5. ASSUME NEW i \in 1..n
      PROVE  (i = n) = Solved(Path[i])
  <2>1. Solved(Path[i]) \in BOOLEAN
    BY <1>1 DEF GameIsSound
  <2>2. CASE i = n
    BY <1>1, <2>1, <2>2
  <2>3. CASE i # n
    <3>1. i \in 1..(n - 1)
      BY <1>1, <2>3
    <3> QED BY <1>1, <2>1, <2>3, <3>1
  <2> QED BY <2>2, <2>3
<1>6. ASSUME NEW i \in 2..n
      PROVE  \E m \in MovesOf(Path[i - 1]) : Path[i] = Apply(Path[i - 1], m)
  <2>1. i - 1 \in 1..(n - 1) /\ i - 1 + 1 = i
    BY <1>1
  <2>2. /\ Path[i] = Apply(Path[i - 1], frontier[i].mv)
        /\ frontier[i].mv \in MovesOf(Path[i - 1])
    BY <1>2, <2>1
  <2> QED BY <2>2
<1>7. IsInjective(Path)
  BY <1>2, <1>3 DEF IsInjective
<1> QED BY <1>2, <1>4, <1>5, <1>6, <1>7

(* With an LRU cache the solution that is reported is a play without a     *)
(* detour: every state comes from the one above it by a move that the      *)
(* rules allow there, none but the last is solved, none comes twice, and   *)
(* the last is solved; a solution of a single turn is the exception.       *)
THEOREM SolutionStaysAPlay ==
  ASSUME GameIsSound, Policy = "LRU"
  PROVE  Spec => []SolutionIsAPlay
<1>1. Spec => [](BooksInv /\ LRUInv)
  BY LRUInvariant
<1>2. Init => SolvedInv
  BY DEF Init, SolvedInv
<1>3. SolvedInv /\ [Next]_vars => SolvedInv'
  BY NextSolved
<1>4. BooksInv /\ LRUInv /\ SolvedInv => SolutionIsAPlay
  <2>1. SUFFICES ASSUME BooksInv, LRUInv, SolvedInv, result = "SOLVED", res.states_searched # 1
                 PROVE  /\ \A i \in DOMAIN PrintedStates :
                             (i = Len(PrintedStates)) = Solved(PrintedStates[i])
                        /\ \A i \in 2..Len(PrintedStates) :
                             \E m \in MovesOf(PrintedStates[i - 1]) :
                               PrintedStates[i] = Apply(PrintedStates[i - 1], m)
                        /\ IsInjective(PrintedStates)
    BY DEF SolutionIsAPlay
  <2>2. PrintedStates = Path
    BY <2>1, PrintedIsPath
  <2>3. PathInv /\ NoCycles /\ Solved(state)
    BY <2>1 DEF BooksInv, LRUInv, SolvedInv
  <2> QED BY <2>2, <2>3, PathIsPlay
<1> QED BY <1>1, <1>2, <1>3, <1>4, PTL DEF Spec

-----------------------------------------------------------------------------
(* The refinement of DepthFirstSearch.                                     *)

NodesOf(d, f) ==
  [i \in 1..Len(f) |->
     [mv |-> f[i].mv, state |-> PathOf(d, f)[i], child_moves |-> f[i].child_moves]]

LEMMA NodesOfPath ==
  ASSUME NEW d, NEW f, SearchPath(d, f)
  PROVE  /\ NodesOf(d, f) \in Seq(Abstract!Node) /\ Len(NodesOf(d, f)) = Len(f)
         /\ \A i \in 1..Len(f) :
              /\ NodesOf(d, f)[i] = [mv |-> f[i].mv, state |-> PathOf(d, f)[i],
                                     child_moves |-> f[i].child_moves]
              /\ NodesOf(d, f)[i] \in Abstract!Node
<1> DEFINE n == Len(f)
           g == NodesOf(d, f)
<1>1. n \in Nat /\ f \in Seq(Node) /\ \A i \in 1..n : PathOf(d, f)[i] \in State
  BY DEF SearchPath
<1>2. \A i \in 1..n : f[i].mv \in Move /\ f[i].child_moves \in Seq(Move)
  <2>1. \A i \in 1..n : f[i] \in Node
    BY <1>1
  <2> QED BY <2>1 DEF Node
<1>3. \A i \in 1..n : g[i] = [mv |-> f[i].mv, state |-> PathOf(d, f)[i],
                              child_moves |-> f[i].child_moves]
  BY DEF NodesOf
<1>4. g = [i \in 1..n |-> g[i]] /\ DOMAIN g = 1..n
  BY DEF NodesOf
<1> HIDE DEF g, n
<1>5. ASSUME NEW i \in 1..n
      PROVE  g[i] \in Abstract!Node
  <2>1. /\ f[i].mv \in Move /\ PathOf(d, f)[i] \in State /\ f[i].child_moves \in Seq(Move)
        /\ g[i] = [mv |-> f[i].mv, state |-> PathOf(d, f)[i], child_moves |-> f[i].child_moves]
    BY <1>1, <1>2, <1>3
  <2> QED BY <2>1 DEF Abstract!Node
<1>6. g \in [1..n -> Abstract!Node]
  BY <1>4, <1>5
<1>7. g \in Seq(Abstract!Node)
  BY <1>1, <1>6, SeqDef
<1>8. Len(g) = n
  BY <1>1, <1>4, <1>7, LenProperties
<1> QED BY <1>3, <1>5, <1>7, <1>8 DEF g, n

LEMMA NodesAreNodesOf == Nodes = NodesOf(init_state, frontier)
  BY PathIsPathOf DEF Nodes, NodesOf

LEMMA AbstractState ==
  ASSUME PathInv
  PROVE  /\ Len(Nodes) = Len(frontier) /\ Nodes \in Seq(Abstract!Node)
         /\ \A i \in 1..Len(frontier) :
              Nodes[i] = [mv |-> frontier[i].mv, state |-> Path[i],
                          child_moves |-> frontier[i].child_moves]
         /\ Abstract!Current = Nodes[Len(frontier)]
         /\ Abstract!Current.state = state
         /\ Abstract!Current.mv = frontier[Len(frontier)].mv
         /\ Abstract!OpenNodes = OpenNodes
<1>1. /\ SearchPath(init_state, frontier) /\ state = Path[Len(frontier)]
      /\ Len(frontier) \in Nat /\ Len(frontier) > 0
  BY PathFacts DEF PathInv
<1>2. /\ Len(Nodes) = Len(frontier) /\ Nodes \in Seq(Abstract!Node)
      /\ \A i \in 1..Len(frontier) :
           Nodes[i] = [mv |-> frontier[i].mv, state |-> Path[i],
                       child_moves |-> frontier[i].child_moves]
  BY <1>1, NodesOfPath, NodesAreNodesOf, PathIsPathOf
<1>3. Abstract!Current = Nodes[Len(frontier)]
  BY <1>2 DEF Abstract!Current
<1>4. Len(frontier) \in 1..Len(frontier)
  BY <1>1
<1>5. Abstract!Current.state = state /\ Abstract!Current.mv = frontier[Len(frontier)].mv
  <2>1. Nodes[Len(frontier)] =
          [mv |-> frontier[Len(frontier)].mv, state |-> Path[Len(frontier)],
           child_moves |-> frontier[Len(frontier)].child_moves]
    BY <1>2, <1>4
  <2> QED BY <1>1, <1>3, <2>1
<1>6. Abstract!OpenNodes = OpenNodes
  <2>1. \A i \in 1..(Len(frontier) - 1) : Nodes[i].child_moves = frontier[i].child_moves
    <3>1. SUFFICES ASSUME NEW i \in 1..(Len(frontier) - 1)
                   PROVE  Nodes[i].child_moves = frontier[i].child_moves
      OBVIOUS
    <3>2. i \in 1..Len(frontier)
      BY <1>1
    <3>3. Nodes[i] = [mv |-> frontier[i].mv, state |-> Path[i],
                      child_moves |-> frontier[i].child_moves]
      BY <1>2, <3>2
    <3> QED BY <3>3
  <2> QED BY <1>2, <2>1 DEF Abstract!OpenNodes, OpenNodes
<1> QED BY <1>2, <1>3, <1>5, <1>6

(* The nodes b are those of a, of length k, and the one that moves lead to. *)
OneBelow(a, b, k, moves) ==
  /\ k \in Nat /\ k > 0
  /\ a \in Seq(Abstract!Node) /\ Len(a) = k /\ a[k].child_moves = moves
  /\ b \in Seq(Abstract!Node) /\ Len(b) = k + 1
  /\ \A i \in 1..(k - 1) : b[i] = a[i]
  /\ b[k] = [a[k] EXCEPT !.child_moves = SubSeq(moves, 1, Len(moves) - 1)]
  /\ b[k + 1] = [mv |-> moves[Len(moves)], state |-> Apply(a[k].state, moves[Len(moves)]),
                 child_moves |-> <<>>]

LEMMA DescendIs ==
  ASSUME NEW a, NEW b, NEW k, NEW moves, OneBelow(a, b, k, moves)
  PROVE  b = Abstract!Descend(a)
<1> DEFINE c == [a EXCEPT ![k] = b[k]]
           m == moves[Len(moves)]
<1>0. /\ k \in Nat /\ k > 0
      /\ a \in Seq(Abstract!Node) /\ Len(a) = k /\ a[k].child_moves = moves
      /\ b \in Seq(Abstract!Node) /\ Len(b) = k + 1
      /\ \A i \in 1..(k - 1) : b[i] = a[i]
      /\ b[k] = [a[k] EXCEPT !.child_moves = SubSeq(moves, 1, Len(moves) - 1)]
      /\ b[k + 1] = [mv |-> m, state |-> Apply(a[k].state, m), child_moves |-> <<>>]
  BY DEF OneBelow
<1>1. k \in 1..Len(a) /\ k \in 1..Len(b) /\ k + 1 \in 1..Len(b)
  BY <1>0
<1>2. b[k] \in Abstract!Node /\ b[k + 1] \in Abstract!Node
  <2>1. \A i \in 1..Len(b) : b[i] \in Abstract!Node
    BY <1>0
  <2> QED BY <1>1, <2>1
<1>3. Abstract!Descend(a) = Append(c, b[k + 1])
  <2>1. /\ Abstract!LaterMoves(a) = SubSeq(moves, 1, Len(moves) - 1)
        /\ Abstract!NextMove(a) = m
    BY <1>0 DEF Abstract!LaterMoves, Abstract!NextMove
  <2>2. [a EXCEPT ![Len(a)].child_moves = Abstract!LaterMoves(a)] = c
    BY <1>0, <2>1
  <2>3. Abstract!NewNode(Apply(a[Len(a)].state, Abstract!NextMove(a)), Abstract!NextMove(a)) = b[k + 1]
    BY <1>0, <2>1 DEF Abstract!NewNode
  <2> QED BY <2>2, <2>3 DEF Abstract!Descend
<1>4. /\ c \in Seq(Abstract!Node) /\ Len(c) = k
      /\ c[k] = b[k] /\ \A i \in 1..(k - 1) : c[i] = a[i]
  BY <1>0, <1>1, <1>2
<1> HIDE DEF c, m
<1>5. /\ Append(c, b[k + 1]) \in Seq(Abstract!Node) /\ Len(Append(c, b[k + 1])) = k + 1
      /\ Append(c, b[k + 1])[k + 1] = b[k + 1]
      /\ \A i \in 1..k : Append(c, b[k + 1])[i] = c[i]
  BY <1>0, <1>2, <1>4
<1>6. \A i \in 1..(k + 1) : i = k + 1 \/ i = k \/ i \in 1..(k - 1)
  BY <1>0
<1>7. (\A i \in 1..(k - 1) : i \in 1..k) /\ k \in 1..k
  BY <1>0
<1>8. \A i \in 1..Len(b) : b[i] = Append(c, b[k + 1])[i]
  BY <1>0, <1>1, <1>4, <1>5, <1>6, <1>7
<1> QED BY <1>0, <1>3, <1>5, <1>8, SeqEqual

LEMMA NextNodes ==
  ASSUME PathInv'
  PROVE  /\ Nodes' \in Seq(Abstract!Node) /\ Len(Nodes') = Len(frontier')
         /\ \A i \in 1..Len(frontier') :
              /\ Nodes'[i] = [mv |-> frontier'[i].mv, state |-> Path'[i],
                              child_moves |-> frontier'[i].child_moves]
              /\ Nodes'[i] \in Abstract!Node
         /\ state' = Path'[Len(frontier')]
<1>1. SearchPath(init_state', frontier') /\ state' = Path'[Len(frontier')]
  BY DEF PathInv
<1>2. Path' = PathOf(init_state', frontier')
  BY DEF Path, PathOf
<1>3. Nodes' = NodesOf(init_state', frontier')
  BY <1>2 DEF Nodes, NodesOf
<1>4. ASSUME NEW d, d = init_state', NEW f, f = frontier'
      PROVE  /\ NodesOf(d, f) \in Seq(Abstract!Node) /\ Len(NodesOf(d, f)) = Len(f)
             /\ \A i \in 1..Len(f) :
                  /\ NodesOf(d, f)[i] = [mv |-> f[i].mv, state |-> PathOf(d, f)[i],
                                         child_moves |-> f[i].child_moves]
                  /\ NodesOf(d, f)[i] \in Abstract!Node
  BY <1>1, <1>4, NodesOfPath
<1> QED BY <1>1, <1>2, <1>3, <1>4

LEMMA DownRefines ==
  ASSUME GameIsSound, PathInv, result = "NONE", ~ Solved(state), UNCHANGED init_state,
         NEW f \in Seq(Node), Len(f) = Len(frontier),
         \A i \in 1..Len(frontier) :
           f[i].mv = frontier[i].mv /\ f[i].child_moves = frontier[i].child_moves,
         NEW moves \in Seq(Move), moves # <<>>, Range(moves) \subseteq MovesOf(state),
         GoDown(f, moves)
  PROVE  Abstract!Searching /\ Abstract!GoDown(moves)
<1> DEFINE n == Len(frontier)
           m == moves[Len(moves)]
           top == [Nodes[n] EXCEPT !.child_moves = moves]
           upper == SubSeq(Nodes, 1, n - 1)
           a == Append(upper, top)
<1>1. /\ PathInv' /\ Len(frontier') = n + 1
      /\ \A i \in 1..n : Path'[i] = Path[i]
      /\ \A i \in 1..n : frontier'[i].mv = frontier[i].mv
      /\ frontier'[n + 1] = NewNode(m)
      /\ frontier'[n].child_moves = SubSeq(moves, 1, Len(moves) - 1)
      /\ \A i \in 1..(n - 1) : frontier'[i].child_moves = frontier[i].child_moves
      /\ state' = Apply(state, m)
  BY DownStep
<1>2. /\ n \in Nat /\ n > 0 /\ state = Path[n] /\ state \in State
  BY PathFacts DEF PathInv
<1>3. /\ Len(Nodes) = n /\ Nodes \in Seq(Abstract!Node)
      /\ \A i \in 1..n : Nodes[i] = [mv |-> frontier[i].mv, state |-> Path[i],
                                     child_moves |-> frontier[i].child_moves]
      /\ Abstract!Current.state = state
  BY AbstractState
<1>4. /\ Nodes' \in Seq(Abstract!Node) /\ Len(Nodes') = n + 1
      /\ \A i \in 1..(n + 1) : Nodes'[i] = [mv |-> frontier'[i].mv, state |-> Path'[i],
                                            child_moves |-> frontier'[i].child_moves]
      /\ state' = Path'[n + 1]
  BY <1>1, NextNodes
<1> HIDE DEF n, m
<1>5. /\ n \in 1..n /\ n \in 1..(n + 1) /\ n + 1 \in 1..(n + 1)
      /\ \A i \in 1..(n - 1) : i \in 1..n /\ i \in 1..(n + 1)
      /\ n - 1 \in Nat /\ n - 1 <= Len(Nodes) /\ n - 1 + 1 = n
  BY <1>2, <1>3
<1>6. top = [mv |-> frontier[n].mv, state |-> state, child_moves |-> moves]
  <2>1. Nodes[n] = [mv |-> frontier[n].mv, state |-> state, child_moves |-> frontier[n].child_moves]
    BY <1>2, <1>3, <1>5
  <2> QED BY <2>1
<1>7. top \in Abstract!Node
  <2>1. Nodes[n] \in Abstract!Node
    BY <1>3, <1>5
  <2> QED BY <2>1 DEF Abstract!Node
<1>8. /\ upper \in Seq(Abstract!Node) /\ Len(upper) = n - 1
      /\ \A i \in 1..(n - 1) : upper[i] = Nodes[i]
  BY <1>3, <1>5, InitialPart
<1> HIDE DEF top, upper
<1>9. /\ a \in Seq(Abstract!Node) /\ Len(a) = n /\ a[n] = top
      /\ \A i \in 1..(n - 1) : a[i] = upper[i]
  BY <1>5, <1>7, <1>8
<1>10. Abstract!WithMoves(Nodes, moves) = a
  BY <1>3 DEF Abstract!WithMoves, top, upper
<1> HIDE DEF a
<1>11. \A i \in 1..(n - 1) : Nodes'[i] = a[i]
  <2>1. SUFFICES ASSUME NEW i \in 1..(n - 1) PROVE Nodes'[i] = a[i]
    OBVIOUS
  <2>2. Nodes'[i] = [mv |-> frontier'[i].mv, state |-> Path'[i],
                     child_moves |-> frontier'[i].child_moves]
    BY <1>4, <1>5
  <2>3. a[i] = [mv |-> frontier[i].mv, state |-> Path[i], child_moves |-> frontier[i].child_moves]
    BY <1>3, <1>5, <1>8, <1>9
  <2> QED BY <1>1, <1>5, <2>2, <2>3 DEF n
<1>12. Nodes'[n] = [a[n] EXCEPT !.child_moves = SubSeq(moves, 1, Len(moves) - 1)]
  <2>1. Nodes'[n] = [mv |-> frontier'[n].mv, state |-> Path'[n],
                     child_moves |-> frontier'[n].child_moves]
    BY <1>4, <1>5
  <2>2. Nodes'[n] = [mv |-> frontier[n].mv, state |-> state,
                     child_moves |-> SubSeq(moves, 1, Len(moves) - 1)]
    BY <1>1, <1>2, <1>5, <2>1 DEF n
  <2>3. a[n] = [mv |-> frontier[n].mv, state |-> state, child_moves |-> moves]
    BY <1>6, <1>9
  <2>4. \A q : [a[n] EXCEPT !.child_moves = q] =
                 [mv |-> frontier[n].mv, state |-> state, child_moves |-> q]
    BY <2>3
  <2> QED BY <2>2, <2>4
<1>13. a[n].child_moves = moves /\ a[n].state = state
  BY <1>6, <1>9
<1>14. Nodes'[n + 1] = [mv |-> m, state |-> Apply(a[n].state, m), child_moves |-> <<>>]
  <2>1. Nodes'[n + 1] = [mv |-> frontier'[n + 1].mv, state |-> Path'[n + 1],
                         child_moves |-> frontier'[n + 1].child_moves]
    BY <1>4, <1>5
  <2>2. frontier'[n + 1].mv = m /\ frontier'[n + 1].child_moves = <<>>
    BY <1>1 DEF NewNode, n, m
  <2>3. Path'[n + 1] = Apply(a[n].state, m)
    BY <1>1, <1>4, <1>13 DEF m
  <2> QED BY <2>1, <2>2, <2>3
<1>15. Nodes' = Abstract!Descend(a)
  <2>1. OneBelow(a, Nodes', n, moves)
    BY <1>2, <1>4, <1>9, <1>11, <1>12, <1>13, <1>14 DEF OneBelow, m
  <2> QED BY <2>1, DescendIs
<1>16. /\ Len(Nodes) < MaxFrontier /\ UNCHANGED result
       /\ expanded' = expanded \union {state}
  BY <1>3 DEF GoDown, n
<1> QED BY <1>3, <1>10, <1>15, <1>16 DEF Abstract!Searching, Abstract!GoDown

LEMMA BackRefines ==
  ASSUME GameIsSound, PathInv, UNCHANGED init_state, NEW own, NEW c, NEW fresh,
         Backtrack(Marked, own, c, fresh),
         expanded \subseteq expanded', expanded' \subseteq State
  PROVE  Abstract!Backtrack
<1> DEFINE n == Len(frontier)
           k == Target
           moves == frontier[Target].child_moves
           m == moves[Len(moves)]
           a == SubSeq(Nodes, 1, k)
<1>1. /\ PathInv' /\ k \in 1..n
      /\ OpenNodes = {} =>
           /\ Len(frontier') = 1 /\ result' = "UNSOLVABLE" /\ k = 1
           /\ Path'[1] = Path[1] /\ frontier'[1].mv = frontier[1].mv
           /\ frontier'[1].child_moves = frontier[1].child_moves
      /\ OpenNodes # {} =>
           /\ k < n /\ Len(frontier') = k + 1 /\ result' = result
           /\ k \in OpenNodes /\ \A j \in OpenNodes : j <= k
           /\ \A i \in 1..k : Path'[i] = Path[i] /\ frontier'[i].mv = frontier[i].mv
           /\ \A i \in 1..(k - 1) : frontier'[i].child_moves = frontier[i].child_moves
           /\ frontier'[k].child_moves = SubSeq(moves, 1, Len(moves) - 1)
           /\ frontier'[k + 1] = NewNode(m)
           /\ state' = Apply(Path[k], m)
  BY BackStep
<1>2. n \in Nat /\ n > 0
  BY PathFacts
<1>3. /\ Len(Nodes) = n /\ Nodes \in Seq(Abstract!Node)
      /\ \A i \in 1..n : Nodes[i] = [mv |-> frontier[i].mv, state |-> Path[i],
                                     child_moves |-> frontier[i].child_moves]
      /\ Abstract!OpenNodes = OpenNodes
  BY AbstractState
<1>4. /\ Nodes' \in Seq(Abstract!Node) /\ Len(Nodes') = Len(frontier')
      /\ \A i \in 1..Len(frontier') :
           Nodes'[i] = [mv |-> frontier'[i].mv, state |-> Path'[i],
                        child_moves |-> frontier'[i].child_moves]
      /\ state' = Path'[Len(frontier')]
  BY <1>1, NextNodes
<1>5. CASE OpenNodes = {}
  <2>1. 1 \in 1..n /\ 1 \in 1..Len(frontier')
    <3> HIDE DEF n
    <3>1. 1 \in 1..n
      BY <1>2
    <3>2. Len(frontier') = 1
      BY <1>1, <1>5
    <3> QED BY <3>1, <3>2
  <2>2. Nodes'[1] = Nodes[1] /\ Nodes[1] \in Abstract!Node
    <3>1. Nodes[1] = [mv |-> frontier[1].mv, state |-> Path[1],
                      child_moves |-> frontier[1].child_moves]
      BY <1>3, <2>1
    <3>2. Nodes'[1] = [mv |-> frontier'[1].mv, state |-> Path'[1],
                       child_moves |-> frontier'[1].child_moves]
      BY <1>4, <2>1
    <3>3. Nodes[1] \in Abstract!Node
      BY <1>3, <2>1
    <3> QED BY <1>1, <1>5, <3>1, <3>2, <3>3
  <2>3. Nodes' = <<Nodes[1]>>
    <3>1. \A x \in Abstract!Node : /\ <<x>> \in Seq(Abstract!Node) /\ Len(<<x>>) = 1
                                   /\ <<x>>[1] = x
      OBVIOUS
    <3>2. Len(Nodes') = 1 /\ \A i \in 1..1 : i = 1
      BY <1>1, <1>4, <1>5
    <3> QED BY <1>4, <2>2, <3>1, <3>2, SeqEqual
  <2> QED BY <1>1, <1>3, <1>5, <2>3 DEF Abstract!Backtrack
<1>6. CASE OpenNodes # {}
  <2> HIDE DEF n, k, m
  <2>1. /\ k \in Nat /\ k > 0 /\ k <= Len(Nodes) /\ k \in 1..k /\ k \in 1..n
        /\ k \in 1..(k + 1) /\ k + 1 \in 1..(k + 1)
        /\ \A i \in 1..k : i \in 1..n /\ i \in 1..(k + 1)
        /\ \A i \in 1..(k - 1) : i \in 1..k
    BY <1>1, <1>2, <1>3
  <2>2. /\ a \in Seq(Abstract!Node) /\ Len(a) = k
        /\ \A i \in 1..k : a[i] = Nodes[i]
    BY <1>3, <2>1, InitialPart
  <2> HIDE DEF a
  <2>3. \A i \in 1..k : a[i] = [mv |-> frontier[i].mv, state |-> Path[i],
                                child_moves |-> frontier[i].child_moves]
    BY <1>3, <2>1, <2>2
  <2>4. a[k] = [mv |-> frontier[k].mv, state |-> Path[k], child_moves |-> moves]
    BY <2>1, <2>3 DEF k
  <2>5. \A i \in 1..(k - 1) : Nodes'[i] = a[i]
    <3>1. SUFFICES ASSUME NEW i \in 1..(k - 1) PROVE Nodes'[i] = a[i]
      OBVIOUS
    <3>2. i \in 1..k /\ i \in 1..(k + 1)
      BY <2>1
    <3>3. Nodes'[i] = [mv |-> frontier'[i].mv, state |-> Path'[i],
                       child_moves |-> frontier'[i].child_moves]
      BY <1>1, <1>4, <1>6, <3>2
    <3>4. a[i] = [mv |-> frontier[i].mv, state |-> Path[i],
                  child_moves |-> frontier[i].child_moves]
      BY <2>3, <3>2
    <3> QED BY <1>1, <1>6, <3>2, <3>3, <3>4
  <2>6. Nodes'[k] = [a[k] EXCEPT !.child_moves = SubSeq(moves, 1, Len(moves) - 1)]
    <3>1. Nodes'[k] = [mv |-> frontier'[k].mv, state |-> Path'[k],
                       child_moves |-> frontier'[k].child_moves]
      BY <1>1, <1>4, <1>6, <2>1
    <3>2. Nodes'[k] = [mv |-> frontier[k].mv, state |-> Path[k],
                       child_moves |-> SubSeq(moves, 1, Len(moves) - 1)]
      BY <1>1, <1>6, <2>1, <3>1
    <3>3. \A q : [a[k] EXCEPT !.child_moves = q] =
                   [mv |-> frontier[k].mv, state |-> Path[k], child_moves |-> q]
      BY <2>4
    <3> QED BY <3>2, <3>3
  <2>7. a[k].child_moves = moves /\ a[k].state = Path[k]
    BY <2>4
  <2>8. Nodes'[k + 1] = [mv |-> m, state |-> Apply(a[k].state, m), child_moves |-> <<>>]
    <3>1. Nodes'[k + 1] = [mv |-> frontier'[k + 1].mv, state |-> Path'[k + 1],
                           child_moves |-> frontier'[k + 1].child_moves]
      BY <1>1, <1>4, <1>6, <2>1
    <3>2. frontier'[k + 1].mv = m /\ frontier'[k + 1].child_moves = <<>>
      BY <1>1, <1>6 DEF NewNode
    <3>3. Path'[k + 1] = Apply(a[k].state, m)
      BY <1>1, <1>4, <1>6, <2>7
    <3> QED BY <3>1, <3>2, <3>3
  <2>9. OneBelow(a, Nodes', k, moves)
    BY <1>1, <1>4, <1>6, <2>1, <2>2, <2>5, <2>6, <2>7, <2>8 DEF OneBelow, m
  <2>10. Nodes' = Abstract!Descend(SubSeq(Nodes, 1, k))
    BY <2>9, DescendIs DEF a
  <2> QED BY <1>1, <1>3, <1>6, <2>10 DEF Abstract!Backtrack
<1> QED BY <1>5, <1>6

(* The search starts where DepthFirstSearch does, and each of its turns is *)
(* one of DepthFirstSearch or leaves what that sees as it is.              *)
LEMMA InitRefines ==
  ASSUME GameIsSound, Init, PathInv
  PROVE  Abstract!Init
<1>1. /\ Len(frontier) = 1 /\ frontier[1] = NewNode(NullMove) /\ state = init_state
      /\ init_state \in Deals /\ expanded = {} /\ result = "NONE"
  BY DEF Init
<1>2. /\ Len(Nodes) = 1 /\ Nodes \in Seq(Abstract!Node)
      /\ \A i \in 1..1 : Nodes[i] = [mv |-> frontier[i].mv, state |-> Path[i],
                                     child_moves |-> frontier[i].child_moves]
      /\ state = Path[1]
  BY <1>1, AbstractState DEF PathInv
<1>3. 1 \in 1..1 /\ \A i \in 1..1 : i = 1
  OBVIOUS
<1>4. Nodes[1] = Abstract!NewNode(init_state, NullMove) /\ Nodes[1] \in Abstract!Node
  <2>1. Nodes[1] = [mv |-> frontier[1].mv, state |-> Path[1],
                    child_moves |-> frontier[1].child_moves]
    BY <1>2, <1>3
  <2>2. ASSUME NEW S, NEW s \in Seq(S), Len(s) = 1 PROVE s[1] \in S
    <3>1. 1 \in 1..Len(s)
      BY ONLY <2>2
    <3> QED BY ONLY <3>1, <2>2
  <2>3. Nodes[1] \in Abstract!Node
    <3>1. Nodes \in Seq(Abstract!Node) /\ Len(Nodes) = 1
      BY <1>2
    <3> HIDE DEF Nodes
    <3> QED BY ONLY <2>2, <3>1
  <2> QED BY <1>1, <1>2, <2>1, <2>3 DEF Abstract!NewNode, NewNode
<1>5. \A x \in Abstract!Node : <<x>> \in Seq(Abstract!Node) /\ Len(<<x>>) = 1 /\ <<x>>[1] = x
  OBVIOUS
<1>6. Nodes = <<Nodes[1]>>
  BY <1>2, <1>3, <1>4, <1>5, SeqEqual
<1> QED BY <1>1, <1>4, <1>6 DEF Abstract!Init

LEMMA NextRefines ==
  ASSUME GameIsSound, Policy = "LRU", PathInv, LRUInv, [Next]_vars
  PROVE  [Abstract!Next]_(Abstract!vars)
<1>0. /\ Abstract!Current.state = state
      /\ Abstract!Current.mv = frontier[Len(frontier)].mv
      /\ state \in State /\ expanded \subseteq State /\ frontier \in Seq(Node)
      /\ Len(Marked) = Len(frontier) /\ Marked \in Seq(Node)
      /\ \A i \in 1..Len(frontier) :
           Marked[i].mv = frontier[i].mv /\ Marked[i].child_moves = frontier[i].child_moves
  BY AbstractState, PathFacts, MarkedNodes
<1>1. CASE Dominate
  <2> DEFINE moves == <<DominanceMove(state)>>
  <2>1. /\ GoDown(frontier, moves) /\ UNCHANGED init_state
        /\ result = "NONE" /\ ~ Solved(state) /\ DominanceMove(state) # NoMove
    BY <1>1 DEF Dominate, Turn, InBudget, Running
  <2>2. moves \in Seq(Move) /\ moves # <<>> /\ Range(moves) \subseteq MovesOf(state)
    BY <2>1, GameMoves
  <2>3. Abstract!Dominate
    <3>1. Abstract!Searching /\ Abstract!GoDown(moves)
      <4> HIDE DEF moves
      <4> QED BY <1>0, <2>1, <2>2, DownRefines
    <3> QED BY <1>0, <2>1, <3>1 DEF Abstract!Dominate
  <2> QED BY <2>1, <2>3 DEF Abstract!Next
<1>2. CASE Expand
  <2>1. /\ GoDown(Marked, Moves) /\ UNCHANGED init_state /\ Moves # <<>>
        /\ result = "NONE" /\ ~ Solved(state) /\ DominanceMove(state) = NoMove
    BY <1>2 DEF Expand, Turn, InBudget, Running
  <2>2. Moves \in Seq(Move) /\ Range(Moves) \subseteq MovesOf(state)
    BY <2>1, GameMoves
  <2>3. Abstract!Searching /\ Abstract!GoDown(Moves)
    BY <1>0, <2>1, <2>2, DownRefines
  <2>4. Moves = LegalMoves(Abstract!Current.state, Abstract!Current.mv)
    BY <1>0 DEF Moves, Current
  <2>5. Abstract!Expand
    BY <1>0, <2>1, <2>3, <2>4 DEF Abstract!Expand
  <2> QED BY <2>1, <2>5 DEF Abstract!Next
<1>3. CASE DeadEnd
  <2>1. /\ Backtrack(Marked, {Key(state)}, Inserted.cache, 1) /\ UNCHANGED init_state
        /\ result = "NONE" /\ ~ Solved(state) /\ DominanceMove(state) = NoMove
        /\ Moves = <<>> /\ expanded' = expanded \union {state}
    BY <1>3 DEF DeadEnd, Turn, InBudget, Running
  <2>2. Abstract!Backtrack
    BY <1>0, <2>1, BackRefines
  <2>3. Moves = LegalMoves(Abstract!Current.state, Abstract!Current.mv)
    BY <1>0 DEF Moves, Current
  <2>4. Abstract!DeadEnd
    BY <1>0, <2>1, <2>2, <2>3 DEF Abstract!DeadEnd, Abstract!Searching
  <2> QED BY <2>1, <2>4 DEF Abstract!Next
<1>4. CASE Duplicate
  <2>1. /\ Backtrack(Marked, {}, Inserted.cache, 0) /\ UNCHANGED init_state
        /\ result = "NONE" /\ ~ Solved(state) /\ DominanceMove(state) = NoMove
        /\ ~ Inserted.new /\ expanded' = expanded
    BY <1>4 DEF Duplicate, Turn, InBudget, Running
  <2>2. Abstract!Backtrack
    BY <1>0, <2>1, BackRefines
  <2>3. Key(state) \in GivenKeys
    BY <2>1, LRUInsertion DEF LRUInv
  <2>4. \E s \in expanded : DominanceMove(s) = NoMove /\ Key(s) = Key(Abstract!Current.state)
    BY <1>0, <2>3 DEF GivenKeys
  <2>5. Abstract!Duplicate
    BY <1>0, <2>1, <2>2, <2>4 DEF Abstract!Duplicate, Abstract!Searching
  <2> QED BY <2>1, <2>5 DEF Abstract!Next
<1>5. CASE Solve \/ TimeOut \/ Terminate \/ MemLimit
  <2>1. /\ UNCHANGED <<init_state, frontier, expanded>> /\ result = "NONE"
        /\ \/ Solved(state) /\ result' = "SOLVED"
           \/ ~ Solved(state) /\ result' \in {"TIMEOUT", "TERMINATED", "MEM_LIMIT"}
    BY <1>5 DEF Solve, TimeOut, Terminate, MemLimit, Turn, InBudget, Running, search
  <2>2. Nodes' = Nodes
    BY <2>1 DEF Nodes, Path
  <2>3. Abstract!Solve \/ Abstract!Stop
    BY <1>0, <2>1, <2>2 DEF Abstract!Solve, Abstract!Stop, Abstract!Searching, Abstract!Stopped
  <2> QED BY <2>1, <2>3 DEF Abstract!Next
<1>6. CASE Clock \/ Signal \/ UNCHANGED vars
  <2>1. UNCHANGED <<init_state, frontier, expanded, result>>
    BY <1>6 DEF Clock, Signal, vars, search
  <2>2. Nodes' = Nodes
    BY <2>1 DEF Nodes, Path
  <2> QED BY <2>1, <2>2 DEF Abstract!vars
<1> QED BY <1>1, <1>2, <1>3, <1>4, <1>5, <1>6 DEF Next, Dfs, Uncut

(* The solver with its LRU cache, its budgets, its books and the one state *)
(* that it changes in place implements the depth-first search over an      *)
(* exact cache: it goes back to where that goes back to, and takes a state *)
(* for one seen before only when its key was expanded.                     *)
THEOREM SolverIsDepthFirstSearch ==
  ASSUME GameIsSound, Policy = "LRU"
  PROVE  Spec => IsDepthFirstSearch
<1>1. Init => Abstract!Init
  BY InitBooks, InitRefines DEF BooksInv
<1>2. Spec => [](BooksInv /\ LRUInv)
  BY LRUInvariant
<1>3. BooksInv /\ LRUInv /\ [Next]_vars => [Abstract!Next]_(Abstract!vars)
  BY NextRefines DEF BooksInv
<1> QED BY <1>1, <1>2, <1>3, PTL DEF Spec, IsDepthFirstSearch, Abstract!Spec

-----------------------------------------------------------------------------
(* The verdicts.                                                           *)

LEMMA ShownFollows ==
  ASSUME GameIsSound, BooksInv, SolvedInv
  PROVE  SolvedIsShown
<1>1. SUFFICES ASSUME PathInv, SolvedInv, result = "SOLVED"
               PROVE  Abstract!Play(Nodes) /\ Solved(Abstract!Current.state)
  BY DEF SolvedIsShown, Abstract!SolvedIsShown, BooksInv
<1> DEFINE n == Len(frontier)
<1>2. /\ n \in Nat /\ n > 0 /\ 1 \in 1..n
      /\ \A i \in 1..(n - 1) : i \in 1..n /\ i + 1 \in 1..n
      /\ \A i \in 1..n : Path[i] \in State
  <2>1. n \in Nat /\ n > 0
    BY <1>1, PathFacts
  <2>2. \A i \in 1..n : Path[i] \in State
    BY <1>1, PathFacts
  <2> HIDE DEF n
  <2> QED BY <2>1, <2>2
<1>3. /\ frontier[1].mv = NullMove /\ Path[1] = init_state
      /\ \A i \in 1..(n - 1) : /\ frontier[i + 1].mv \in MovesOf(Path[i])
                               /\ Path[i + 1] = Apply(Path[i], frontier[i + 1].mv)
  BY <1>1, <1>2, PathStates, PathIsPathOf DEF PathInv, SearchPath
<1>4. /\ Len(Nodes) = n /\ Abstract!Current.state = state
      /\ \A i \in 1..n : Nodes[i] = [mv |-> frontier[i].mv, state |-> Path[i],
                                     child_moves |-> frontier[i].child_moves]
  BY <1>1, AbstractState
<1>5. ASSUME NEW s \in State
      PROVE  MovesOf(s) = Abstract!AllMoves(s)
  <2>1. LegalMoves(s, NullMove) \in Seq(Move)
    BY <1>5 DEF GameIsSound
  <2>2. DOMAIN LegalMoves(s, NullMove) = 1..Len(LegalMoves(s, NullMove))
    BY <2>1
  <2> QED BY <2>2 DEF MovesOf, Abstract!AllMoves, Abstract!MovesIn, Range
<1> HIDE DEF n
<1>6. ASSUME NEW i \in 1..n
      PROVE  Nodes[i].mv = frontier[i].mv /\ Nodes[i].state = Path[i]
  <2>1. Nodes[i] = [mv |-> frontier[i].mv, state |-> Path[i],
                    child_moves |-> frontier[i].child_moves]
    BY <1>4
  <2> QED BY <2>1
<1>7. Nodes[1].mv = NullMove /\ Nodes[1].state = init_state
  BY <1>2, <1>3, <1>6
<1>8. ASSUME NEW i \in 1..(n - 1)
      PROVE  /\ Nodes[i + 1].mv \in Abstract!AllMoves(Nodes[i].state)
             /\ Nodes[i + 1].state = Apply(Nodes[i].state, Nodes[i + 1].mv)
  <2>1. /\ Nodes[i + 1].mv = frontier[i + 1].mv /\ Nodes[i].state = Path[i]
        /\ Nodes[i + 1].state = Path[i + 1] /\ Path[i] \in State
    BY <1>2, <1>6
  <2> QED BY <1>3, <1>5, <2>1
<1>9. Solved(Abstract!Current.state)
  BY <1>1, <1>4 DEF SolvedInv
<1> QED BY <1>4, <1>7, <1>8, <1>9 DEF Abstract!Play

(* A solution that is reported is one, whichever cache was searched with   *)
(* and whatever states it took for one another: the moves of the frontier  *)
(* are moves of the game and lead from the deal to a solved state.         *)
THEOREM SolvedStaysShown ==
  ASSUME GameIsSound
  PROVE  Spec => []SolvedIsShown
<1>1. Spec => []BooksInv
  BY BooksInvariant
<1>2. Init => SolvedInv
  BY DEF Init, SolvedInv
<1>3. SolvedInv /\ [Next]_vars => SolvedInv'
  BY NextSolved
<1>4. BooksInv /\ SolvedInv => SolvedIsShown
  BY ShownFollows
<1> QED BY <1>1, <1>2, <1>3, <1>4, PTL DEF Spec

(* The proofs of the depth-first search, of the nodes of the solver.       *)
Search == INSTANCE DepthFirstSearchProofs WITH frontier <- Nodes

(* The other hypotheses of DepthFirstSearch: a key that tells states apart *)
(* as far as the rules do, and a get_legal_moves that skips no move but    *)
(* those to where the parent state has another.                            *)
KeyIsExact ==
  \A s, t \in State : Key(s) = Key(t) =>
    /\ Solved(s) = Solved(t)
    /\ \A u \in Search!Successors(s) : \E v \in Search!Successors(t) : Key(v) = Key(u)

PruningIsExact ==
  \A p \in State : \A m \in Search!AllMoves(p) :
    DominanceMove(Apply(p, m)) = NoMove =>
      \A n \in Search!MovesIn(LegalMoves(Apply(p, m), NullMove))
                 \ Search!MovesIn(LegalMoves(Apply(p, m), m)) :
        \E v \in Search!Successors(p) : Key(v) = Key(Apply(Apply(p, m), n))

LEMMA SearchGame ==
  ASSUME GameIsSound, PositionsAreClosed
  PROVE  /\ Deals \subseteq State
         /\ \A d \in Deals : /\ d \in Positions(d) /\ Positions(d) \subseteq State
                            /\ Search!Closed(Positions(d))
         /\ NullMove \in Move
         /\ NoMove \notin Move
         /\ \A s \in State :
              /\ Solved(s) \in BOOLEAN
              /\ DominanceMove(s) \in Move \union {NoMove}
              /\ Search!AllMoves(s) \subseteq Move
              /\ \A m \in Move : LegalMoves(s, m) \in Seq(Move)
              /\ \A m \in Search!AllMoves(s) : Apply(s, m) \in State
              /\ \A m \in Move : Search!MovesIn(LegalMoves(s, m)) \subseteq
                                   Search!MovesIn(LegalMoves(s, NullMove))
<1>1. ASSUME NEW q \in Seq(Move)
      PROVE  Range(q) = Search!MovesIn(q) /\ Range(q) \subseteq Move
  <2>1. DOMAIN q = 1..Len(q) /\ \A i \in 1..Len(q) : q[i] \in Move
    BY <1>1
  <2> QED BY <2>1 DEF Range, Search!MovesIn
<1>2. ASSUME NEW s \in State
      PROVE  /\ Solved(s) \in BOOLEAN
             /\ DominanceMove(s) \in Move \union {NoMove}
             /\ Search!AllMoves(s) \subseteq Move
             /\ \A m \in Move : LegalMoves(s, m) \in Seq(Move)
             /\ \A m \in Search!AllMoves(s) : Apply(s, m) \in State
             /\ \A m \in Move : Search!MovesIn(LegalMoves(s, m)) \subseteq
                                  Search!MovesIn(LegalMoves(s, NullMove))
             /\ MovesOf(s) = Search!AllMoves(s)
  <2>1. /\ NullMove \in Move /\ NoMove \notin Move
        /\ Solved(s) \in BOOLEAN /\ DominanceMove(s) \in Move \union {NoMove}
        /\ \A m \in MovesOf(s) : Apply(s, m) \in State
        /\ \A m \in Move : /\ LegalMoves(s, m) \in Seq(Move)
                           /\ Range(LegalMoves(s, m)) \subseteq Range(LegalMoves(s, NullMove))
    BY <1>2 DEF GameIsSound
  <2>2. \A m \in Move : Range(LegalMoves(s, m)) = Search!MovesIn(LegalMoves(s, m))
                        /\ Range(LegalMoves(s, m)) \subseteq Move
    BY <1>1, <2>1
  <2>3. MovesOf(s) = Search!AllMoves(s) /\ MovesOf(s) \subseteq Move
    BY <2>1, <2>2 DEF MovesOf, Search!AllMoves
  <2> QED BY <2>1, <2>2, <2>3
<1>3. Deals \subseteq State /\ NullMove \in Move /\ NoMove \notin Move
  BY DEF GameIsSound
<1>4. ASSUME NEW d \in Deals
      PROVE  /\ d \in Positions(d) /\ Positions(d) \subseteq State
             /\ Search!Closed(Positions(d))
  <2>1. /\ d \in Positions(d) /\ Positions(d) \subseteq State
        /\ \A s \in Positions(d) : \A m \in MovesOf(s) : Apply(s, m) \in Positions(d)
    BY DEF PositionsAreClosed
  <2>2. \A s \in Positions(d) : MovesOf(s) = Search!AllMoves(s)
    BY <1>2, <2>1
  <2> QED BY <2>1, <2>2 DEF Search!Closed, Search!Successors
<1> QED BY <1>2, <1>3, <1>4

(* A verdict UNSOLVABLE of the solver with its LRU cache is right: however *)
(* small the cache and however often it forgot a state, no sequence of     *)
(* moves of the game leads from the deal to a solved state.                *)
THEOREM UnsolvableStaysRight ==
  ASSUME GameIsSound, PositionsAreClosed, KeyIsExact, PruningIsExact,
         MaxFrontier \in Nat \ {0}, Policy = "LRU"
  PROVE  Spec => []Abstract!UnsolvableIsRight
<1>1. Search!Spec => []Search!UnsolvableIsRight
  BY SearchGame, Search!UnsolvableVerdict DEF KeyIsExact, PruningIsExact
<1>2. Spec => Abstract!Spec
  BY SolverIsDepthFirstSearch DEF IsDepthFirstSearch
<1>3. Abstract!Init => Search!Init
  BY DEF Abstract!Init, Search!Init, Abstract!NewNode, Search!NewNode
<1>4. [Abstract!Next]_(Abstract!vars) => [Search!Next]_(Search!vars)
  BY DEF Abstract!Next, Search!Next, Abstract!vars, Search!vars,
         Abstract!Dominate, Search!Dominate, Abstract!Expand, Search!Expand,
         Abstract!DeadEnd, Search!DeadEnd, Abstract!Duplicate, Search!Duplicate,
         Abstract!Solve, Search!Solve, Abstract!Stop, Search!Stop,
         Abstract!Stopped, Search!Stopped, Abstract!Searching, Search!Searching,
         Abstract!GoDown, Search!GoDown, Abstract!Backtrack, Search!Backtrack,
         Abstract!OpenNodes, Search!OpenNodes, Abstract!Current, Search!Current,
         Abstract!Descend, Search!Descend, Abstract!NewNode, Search!NewNode,
         Abstract!NextMove, Search!NextMove, Abstract!LaterMoves, Search!LaterMoves,
         Abstract!WithMoves, Search!WithMoves
<1>5. Search!UnsolvableIsRight => Abstract!UnsolvableIsRight
  BY DEF Abstract!UnsolvableIsRight, Search!UnsolvableIsRight, Abstract!Reachable,
         Search!Reachable, Abstract!Closed, Search!Closed, Abstract!Successors,
         Search!Successors, Abstract!AllMoves, Search!AllMoves, Abstract!MovesIn, Search!MovesIn
<1> QED BY <1>1, <1>2, <1>3, <1>4, <1>5, PTL DEF Abstract!Spec, Search!Spec

-----------------------------------------------------------------------------
(* The states counted as unique.                                           *)

CacheCounts(c) == CacheSize(c) \in Nat /\ StatesRemoved(c) \in Nat

UniqueInv ==
  /\ UniqueStatesAddUp
  /\ Policy # "LRU" => CacheCounts(cache)
  /\ \A i \in 1..Len(frontier) :
       DominanceMove(Path[i]) # NoMove => frontier[i].child_moves = <<>>

LEMMA InsertionCounts ==
  ASSUME PathInv, Policy = "BITMAP" => NumBits # 0,
         Policy = "LRU" => CacheInv, Policy # "LRU" => CacheCounts(cache)
  PROVE  /\ Inserted.new \in BOOLEAN
         /\ CacheCounts(cache) /\ CacheCounts(Inserted.cache)
         /\ CacheSize(Inserted.cache) + StatesRemoved(Inserted.cache) =
              CacheSize(cache) + StatesRemoved(cache) + (IF Inserted.new THEN 1 ELSE 0)
<1> DEFINE depth == IF res.depth < DepthMax THEN res.depth ELSE DepthMax
<1>1. CASE Policy = "LRU"
  <2>1. Inserted = LRUInsert(cache, Key(state))
    BY <1>1 DEF Inserted, CacheInsert
  <2>2. cache \in LRUCache /\ Key(state) \in {Key(x) : x \in State}
    BY <1>1, PathFacts DEF CacheInv, GoodLRU
  <2>3. \A c : CacheSize(c) = Len(c.items) /\ StatesRemoved(c) = c.removed
    BY <1>1 DEF CacheSize, StatesRemoved, LRUSize
  <2>4. Len(cache.items) \in Nat /\ cache.removed \in Nat
    BY <2>2, LRUKeys DEF LRUCache
  <2>5. /\ Inserted.new \in BOOLEAN
        /\ Len(Inserted.cache.items) \in Nat /\ Inserted.cache.removed \in Nat
        /\ Len(Inserted.cache.items) + Inserted.cache.removed =
             Len(cache.items) + cache.removed + (IF Inserted.new THEN 1 ELSE 0)
    BY <2>1, <2>2, LRUInsertCounts
  <2> QED BY <2>3, <2>4, <2>5 DEF CacheCounts
<1>2. CASE Policy = "BITMAP"
  <2>1. Inserted = BitmapInsert(cache, Key(state))
    BY <1>2 DEF Inserted, CacheInsert
  <2>2. \A c : CacheSize(c) = c.insert_count /\ StatesRemoved(c) = 0
    BY <1>2 DEF CacheSize, StatesRemoved, BitmapSize
  <2>3. cache.insert_count \in Nat
    BY <1>2, <2>2 DEF CacheCounts
  <2>4. CASE BitmapContains(cache, Key(state))
    <3>1. Inserted.new = FALSE /\ Inserted.cache = cache
      BY <2>1, <2>4 DEF BitmapInsert
    <3>2. CacheSize(cache) \in Nat /\ StatesRemoved(cache) \in Nat
      BY <2>2, <2>3
    <3>3. CacheSize(cache) + StatesRemoved(cache) = CacheSize(cache) + StatesRemoved(cache) + 0
      BY <3>2
    <3> QED BY <3>1, <3>2, <3>3 DEF CacheCounts
  <2>5. CASE ~ BitmapContains(cache, Key(state))
    <3>1. Inserted.new = TRUE /\ Inserted.cache.insert_count = cache.insert_count + 1
      BY <1>2, <2>1, <2>5 DEF BitmapInsert
    <3>2. /\ CacheSize(cache) \in Nat /\ StatesRemoved(cache) = 0
          /\ CacheSize(Inserted.cache) = CacheSize(cache) + 1
          /\ StatesRemoved(Inserted.cache) = 0
      BY <2>2, <2>3, <3>1
    <3>3. CacheSize(Inserted.cache) \in Nat
      BY <3>2
    <3>4. CacheSize(Inserted.cache) + 0 = CacheSize(cache) + 0 + 1
      BY <3>2
    <3>5. CacheSize(Inserted.cache) + StatesRemoved(Inserted.cache) =
            CacheSize(cache) + StatesRemoved(cache) + (IF Inserted.new THEN 1 ELSE 0)
      BY <3>1, <3>2, <3>4
    <3>6. CacheCounts(cache) /\ CacheCounts(Inserted.cache)
      BY <3>2, <3>3 DEF CacheCounts
    <3> QED BY <3>1, <3>5, <3>6
  <2> QED BY <2>4, <2>5
<1>3. CASE Policy # "LRU" /\ Policy # "BITMAP"
  <2> DEFINE k == Key(state)
             cl == cache.clusters[ClusterIndex(k)]
             r == ClusterInsert(cl, PayloadOf(k), HashOf(k), depth)
  <2>1. Inserted = FlatInsert(cache, k, depth)
    BY <1>3 DEF Inserted, CacheInsert
  <2>2. /\ Inserted.new = r.new
        /\ Inserted.cache.occupied_count = cache.occupied_count + r.occupied
        /\ Inserted.cache.eviction_count = cache.eviction_count + r.evicted
    BY <2>1 DEF FlatInsert
  <2>3. \A c : CacheSize(c) = c.occupied_count /\ StatesRemoved(c) = c.eviction_count
    BY <1>3 DEF CacheSize, StatesRemoved
  <2>4. cache.occupied_count \in Nat /\ cache.eviction_count \in Nat
    BY <1>3, <2>3 DEF CacheCounts
  <2>5. \/ r.new = FALSE /\ r.occupied = 0 /\ r.evicted = 0
        \/ r.new = TRUE /\ r.occupied = 1 /\ r.evicted = 0
        \/ r.new = TRUE /\ r.occupied = 0 /\ r.evicted = 1
    BY DEF ClusterInsert
  <2> HIDE DEF r
  <2> DEFINE a == cache.occupied_count
             b == cache.eviction_count
             new == Inserted.new
             up == r.occupied
             out == r.evicted
  <2>6. /\ CacheSize(cache) = a /\ StatesRemoved(cache) = b
        /\ CacheSize(Inserted.cache) = a + up
        /\ StatesRemoved(Inserted.cache) = b + out
        /\ a \in Nat /\ b \in Nat
    BY <2>2, <2>3, <2>4
  <2>7. \/ new = FALSE /\ up = 0 /\ out = 0
        \/ new = TRUE /\ up = 1 /\ out = 0
        \/ new = TRUE /\ up = 0 /\ out = 1
    BY <2>2, <2>5
  <2> HIDE DEF a, b, new, up, out
  <2>8. /\ new \in BOOLEAN /\ a + up \in Nat /\ b + out \in Nat
        /\ (a + up) + (b + out) = a + b + (IF new THEN 1 ELSE 0)
    <3>1. CASE new = FALSE /\ up = 0 /\ out = 0
      <4>1. a + up \in Nat /\ b + out \in Nat /\ (a + up) + (b + out) = a + b + 0
        BY <2>6, <3>1
      <4> HIDE <2>6
      <4>2. (IF new THEN 1 ELSE 0) = 0
        BY <3>1
      <4>3. new \in BOOLEAN
        BY <3>1
      <4> QED BY <4>1, <4>2, <4>3
    <3>2. CASE new = TRUE /\ up = 1 /\ out = 0
      BY <2>6, <3>2
    <3>3. CASE new = TRUE /\ up = 0 /\ out = 1
      BY <2>6, <3>3
    <3> QED BY <2>7, <3>1, <3>2, <3>3
  <2> QED BY <2>6, <2>8 DEF CacheCounts, new
<1> QED BY <1>1, <1>2, <1>3

(* Going back turns live bits off and no more.                             *)
LEMMA BackCounts ==
  ASSUME PathInv, Policy = "LRU" => CacheInv, ~ Inserted.full,
         NEW own, NEW fresh, Backtrack(Marked, own, Inserted.cache, fresh)
  PROVE  /\ CacheSize(cache') = CacheSize(Inserted.cache)
         /\ StatesRemoved(cache') = StatesRemoved(Inserted.cache)
<1>1. CASE Policy = "LRU"
  <2>1. cache' = SetNonLive(Inserted.cache, LeftBehind(own))
    BY <1>1 DEF Backtrack, ComputesHash
  <2>2. GoodLRU(Inserted.cache)
    BY <1>1, LRUInsertion
  <2>3. /\ Len(cache'.items) = Len(Inserted.cache.items)
        /\ cache'.removed = Inserted.cache.removed
    BY <2>1, <2>2, ItemsNotLive
  <2> QED BY <1>1, <2>3 DEF CacheSize, StatesRemoved, LRUSize
<1>2. CASE Policy # "LRU"
  <2>1. cache' = Inserted.cache
    BY <1>2 DEF Backtrack, ComputesHash
  <2> QED BY <2>1 DEF CacheSize, StatesRemoved
<1> QED BY <1>1, <1>2

(* The nodes of dominance moves have no move left, in the new frontier as  *)
(* in the old.                                                             *)
LEMMA NoMovesLeft ==
  ASSUME NEW k \in Nat, k > 0, Len(frontier') = k + 1,
         \A i \in 1..k : Path'[i] = Path[i],
         \A i \in 1..(k - 1) : frontier'[i].child_moves = frontier[i].child_moves,
         frontier'[k + 1].child_moves = <<>>,
         \A i \in 1..(k - 1) : DominanceMove(Path[i]) # NoMove => frontier[i].child_moves = <<>>,
         DominanceMove(Path[k]) # NoMove => frontier'[k].child_moves = <<>>
  PROVE  \A i \in 1..Len(frontier') :
           DominanceMove(Path'[i]) # NoMove => frontier'[i].child_moves = <<>>
<1>1. \A i \in 1..(k + 1) : i = k + 1 \/ i = k \/ i \in 1..(k - 1)
  OBVIOUS
<1>2. (\A i \in 1..(k - 1) : i \in 1..k) /\ k \in 1..k
  OBVIOUS
<1> QED BY <1>1, <1>2

(* One turn that counts f states as unique, d of them for a dominance move. *)
LEMMA TurnAddsUp ==
  ASSUME UniqueStatesAddUp, result = "NONE", res \in Counters,
         CacheCounts(cache), CacheCounts(cache'),
         NEW f \in {0, 1}, NEW d \in {0, 1},
         res'.unique_states_searched + (IF result' = "MEM_LIMIT" THEN 1 ELSE 0)
           = res.unique_states_searched + f,
         res'.dominance_moves = res.dominance_moves + d,
         CacheSize(cache') + StatesRemoved(cache') + d
           = CacheSize(cache) + StatesRemoved(cache) + f
  PROVE  UniqueStatesAddUp'
<1> DEFINE u == res.unique_states_searched
           m == res.dominance_moves
           s == CacheSize(cache)
           r == StatesRemoved(cache)
           t == CacheSize(cache')
           q == StatesRemoved(cache')
<1>1. /\ u \in Nat /\ m \in Nat /\ s \in Nat /\ r \in Nat /\ t \in Nat /\ q \in Nat
      /\ u + 0 = s + r + m
  BY DEF CacheCounts, Counters, UniqueStatesAddUp
<1>2. t + q + d = s + r + f
  OBVIOUS
<1> HIDE DEF u, m, s, r, t, q
<1>3. u + f = t + q + (m + d)
  BY <1>1, <1>2
<1> QED BY <1>3 DEF u, m, t, q, UniqueStatesAddUp

LEMMA DominateCounts ==
  ASSUME GameIsSound, MovesAreMarked, PathInv, CountInv, UniqueInv, Dominate,
         CacheCounts(cache)
  PROVE  UniqueInv'
<1> DEFINE n == Len(frontier)
           m == DominanceMove(state)
           moves == <<m>>
<1>1. /\ GoDown(frontier, moves) /\ UNCHANGED <<init_state, cache, result>>
      /\ result = "NONE" /\ ~ Solved(state) /\ m # NoMove
      /\ Counted(0, moves[Len(moves)], 1)
  BY DEF Dominate, Turn, InBudget, Running, GoDown
<1>2. /\ moves \in Seq(Move) /\ moves # <<>> /\ Range(moves) \subseteq MovesOf(state)
      /\ MovesOf(state) = {m}
  BY <1>1, GameMoves
<1>3. /\ frontier \in Seq(Node) /\ n \in Nat /\ n > 0 /\ state = Path[n] /\ state \in State
      /\ n \in 1..n
  BY PathFacts DEF PathInv
<1>4. Len(moves) = 1 /\ moves[1] = m /\ SubSeq(moves, 1, 0) = <<>>
  OBVIOUS
<1>5. m.dominance_move = TRUE
  BY <1>1, <1>2, <1>3 DEF MovesAreMarked
<1> HIDE DEF moves
<1>6. /\ Len(frontier') = n + 1
      /\ \A i \in 1..n : Path'[i] = Path[i]
      /\ frontier'[n + 1] = NewNode(moves[Len(moves)])
      /\ frontier'[n].child_moves = SubSeq(moves, 1, Len(moves) - 1)
      /\ \A i \in 1..(n - 1) : frontier'[i].child_moves = frontier[i].child_moves
  BY <1>1, <1>2, <1>3, DownStep
<1>7. res \in Counters
  BY DEF CountInv
<1>8. /\ res'.unique_states_searched = res.unique_states_searched + 1
      /\ res'.dominance_moves = res.dominance_moves + 1
  BY <1>1, <1>4, <1>5 DEF Counted
<1>9. UniqueStatesAddUp'
  <2>1. UniqueStatesAddUp
    BY DEF UniqueInv
  <2>2. res'.unique_states_searched + (IF result' = "MEM_LIMIT" THEN 1 ELSE 0)
          = res.unique_states_searched + 1
    BY <1>1, <1>7, <1>8 DEF Counters
  <2>3. CacheSize(cache') + StatesRemoved(cache') + 1
          = CacheSize(cache) + StatesRemoved(cache) + 1
    BY <1>1
  <2>4. CacheCounts(cache')
    BY <1>1
  <2>5. 1 \in {0, 1}
    OBVIOUS
  <2> QED BY <1>1, <1>7, <1>8, <2>1, <2>2, <2>3, <2>4, <2>5, TurnAddsUp
<1>10. \A i \in 1..Len(frontier') :
         DominanceMove(Path'[i]) # NoMove => frontier'[i].child_moves = <<>>
  <2>1. frontier'[n + 1].child_moves = <<>> /\ frontier'[n].child_moves = <<>>
    BY <1>4, <1>6 DEF NewNode
  <2>2. \A i \in 1..(n - 1) : DominanceMove(Path[i]) # NoMove => frontier[i].child_moves = <<>>
    BY <1>3 DEF UniqueInv
  <2> HIDE DEF n
  <2> QED BY <1>3, <1>6, <2>1, <2>2, NoMovesLeft
<1> QED BY <1>1, <1>9, <1>10 DEF UniqueInv

LEMMA ExpandCounts ==
  ASSUME GameIsSound, MovesAreMarked, PathInv, CountInv, UniqueInv, Expand,
         CacheCounts(cache), CacheCounts(Inserted.cache),
         CacheSize(Inserted.cache) + StatesRemoved(Inserted.cache) =
           CacheSize(cache) + StatesRemoved(cache) + (IF Inserted.new THEN 1 ELSE 0)
  PROVE  UniqueInv'
<1> DEFINE n == Len(frontier)
           m == Moves[Len(Moves)]
<1>1. /\ GoDown(Marked, Moves) /\ UNCHANGED <<init_state, result>> /\ Moves # <<>>
      /\ result = "NONE" /\ ~ Solved(state) /\ DominanceMove(state) = NoMove
      /\ Inserted.new /\ cache' = Inserted.cache /\ Counted(0, m, 1)
  BY DEF Expand, Turn, InBudget, Running, GoDown
<1>2. Moves \in Seq(Move) /\ Range(Moves) \subseteq MovesOf(state)
  BY <1>1, GameMoves
<1>3. frontier \in Seq(Node) /\ n \in Nat /\ n > 0 /\ state = Path[n] /\ state \in State
  BY PathFacts DEF PathInv
<1>4. /\ Len(frontier') = n + 1
      /\ \A i \in 1..n : Path'[i] = Path[i]
      /\ frontier'[n + 1] = NewNode(m)
      /\ \A i \in 1..(n - 1) : frontier'[i].child_moves = frontier[i].child_moves
      /\ m \in MovesOf(state)
  BY <1>1, <1>2, <1>3, MarkedNodes, DownStep
<1>5. m.dominance_move = FALSE
  BY <1>1, <1>3, <1>4 DEF MovesAreMarked
<1> HIDE DEF m, n
<1>6. res \in Counters
  BY DEF CountInv
<1>7. /\ res'.unique_states_searched = res.unique_states_searched + 1
      /\ res'.dominance_moves = res.dominance_moves + 0
  BY <1>1, <1>5 DEF Counted
<1>8. UniqueStatesAddUp'
  <2>1. UniqueStatesAddUp
    BY DEF UniqueInv
  <2>2. res'.unique_states_searched + (IF result' = "MEM_LIMIT" THEN 1 ELSE 0)
          = res.unique_states_searched + 1
    BY <1>1, <1>6, <1>7 DEF Counters
  <2>3. CacheSize(cache') + StatesRemoved(cache') = CacheSize(cache) + StatesRemoved(cache) + 1
    BY <1>1
  <2>4. CacheSize(cache') + StatesRemoved(cache') + 0
          = CacheSize(cache) + StatesRemoved(cache) + 1
    BY <1>1, <2>3 DEF CacheCounts
  <2>5. CacheCounts(cache')
    BY <1>1
  <2>6. 0 \in {0, 1} /\ 1 \in {0, 1}
    OBVIOUS
  <2> QED BY <1>1, <1>6, <1>7, <2>1, <2>2, <2>4, <2>5, <2>6, TurnAddsUp
<1>9. \A i \in 1..Len(frontier') :
        DominanceMove(Path'[i]) # NoMove => frontier'[i].child_moves = <<>>
  <2>1. frontier'[n + 1].child_moves = <<>>
    BY <1>4 DEF NewNode
  <2>2. \A i \in 1..(n - 1) : DominanceMove(Path[i]) # NoMove => frontier[i].child_moves = <<>>
    BY <1>3 DEF UniqueInv, n
  <2>3. DominanceMove(Path[n]) # NoMove => frontier'[n].child_moves = <<>>
    BY <1>1, <1>3
  <2> QED BY <1>3, <1>4, <2>1, <2>2, <2>3, NoMovesLeft
<1>10. Policy # "LRU" => CacheCounts(cache')
  BY <1>1
<1> QED BY <1>8, <1>9, <1>10 DEF UniqueInv

LEMMA BackAddsUp ==
  ASSUME GameIsSound, MovesAreMarked, PathInv, CountInv, UniqueInv, UNCHANGED init_state,
         result = "NONE", NEW own, NEW fresh \in {0, 1},
         Backtrack(Marked, own, Inserted.cache, fresh),
         expanded \subseteq expanded', expanded' \subseteq State,
         CacheCounts(cache), CacheCounts(cache'),
         CacheSize(cache') + StatesRemoved(cache') =
           CacheSize(cache) + StatesRemoved(cache) + fresh
  PROVE  UniqueInv'
<1> DEFINE n == Len(frontier)
           k == Target
           moves == frontier[k].child_moves
           m == moves[Len(moves)]
<1>1. /\ frontier \in Seq(Node) /\ n \in Nat /\ n > 0 /\ res \in Counters
      /\ UniqueStatesAddUp
      /\ \A i \in 1..n : /\ Path[i] \in State
                         /\ Range(frontier[i].child_moves) \subseteq MovesOf(Path[i])
                         /\ DominanceMove(Path[i]) # NoMove => frontier[i].child_moves = <<>>
  BY PathFacts DEF CountInv, UniqueInv
<1>2. Policy # "LRU" => CacheCounts(cache')
  OBVIOUS
<1>3. CacheSize(cache') + StatesRemoved(cache') + 0
        = CacheSize(cache) + StatesRemoved(cache) + fresh
  BY DEF CacheCounts
<1>4. CASE OpenNodes = {}
  <2>1. /\ Len(frontier') = 1 /\ result' = "UNSOLVABLE"
        /\ Path'[1] = Path[1] /\ frontier'[1].child_moves = frontier[1].child_moves
    BY <1>4, BackStep
  <2>2. res' = [res EXCEPT !.states_searched = @ + 1,
                           !.unique_states_searched = @ + fresh,
                           !.backtracks = @ + (n - k), !.depth = @ - (n - k)]
    BY <1>4 DEF Backtrack
  <2> HIDE DEF n, k
  <2>3. /\ res'.unique_states_searched = res.unique_states_searched + fresh
        /\ res'.dominance_moves = res.dominance_moves
    BY <1>1, <2>2 DEF Counters
  <2>4. /\ res'.unique_states_searched + (IF result' = "MEM_LIMIT" THEN 1 ELSE 0)
             = res.unique_states_searched + fresh
        /\ res'.dominance_moves = res.dominance_moves + 0
    BY <1>1, <2>1, <2>3 DEF Counters
  <2>5. UniqueStatesAddUp'
    BY <1>1, <1>3, <2>4, TurnAddsUp
  <2>6. \A i \in 1..Len(frontier') :
          DominanceMove(Path'[i]) # NoMove => frontier'[i].child_moves = <<>>
    <3>1. (\A i \in 1..Len(frontier') : i = 1) /\ 1 \in 1..n
      BY <1>1, <2>1
    <3> QED BY <1>1, <2>1, <3>1
  <2> QED BY <1>2, <2>5, <2>6 DEF UniqueInv
<1>5. CASE OpenNodes # {}
  <2>1. /\ k \in 1..n /\ k < n /\ Len(frontier') = k + 1 /\ result' = result
        /\ k \in OpenNodes
        /\ \A i \in 1..k : Path'[i] = Path[i]
        /\ \A i \in 1..(k - 1) : frontier'[i].child_moves = frontier[i].child_moves
        /\ frontier'[k + 1] = NewNode(m)
    BY <1>5, BackStep
  <2>2. Counted(n - k, m, fresh)
    BY <1>5 DEF Backtrack
  <2>3. moves # <<>> /\ moves \in Seq(Move)
    <3>1. frontier[k] \in Node
      BY <1>1, <2>1
    <3> QED BY <2>1, <3>1 DEF OpenNodes, Node
  <2>4. DominanceMove(Path[k]) = NoMove
    BY <1>1, <2>1, <2>3
  <2>5. m \in Range(moves)
    <3>1. Len(moves) \in DOMAIN moves
      BY <2>3
    <3> QED BY <3>1 DEF Range
  <2>6. m \in MovesOf(Path[k]) /\ Path[k] \in State
    BY <1>1, <2>1, <2>5
  <2>7. m.dominance_move = FALSE
    BY <2>4, <2>6 DEF MovesAreMarked
  <2> HIDE DEF m, n, k, moves
  <2>8. /\ res'.unique_states_searched = res.unique_states_searched + fresh
        /\ res'.dominance_moves = res.dominance_moves + 0
    BY <2>2, <2>7 DEF Counted
  <2>9. res'.unique_states_searched + (IF result' = "MEM_LIMIT" THEN 1 ELSE 0)
          = res.unique_states_searched + fresh
    BY <1>1, <2>1, <2>8 DEF Counters
  <2>10. UniqueStatesAddUp'
    BY <1>1, <1>3, <2>8, <2>9, TurnAddsUp
  <2>11. \A i \in 1..Len(frontier') :
           DominanceMove(Path'[i]) # NoMove => frontier'[i].child_moves = <<>>
    <3>1. frontier'[k + 1].child_moves = <<>>
      BY <2>1 DEF NewNode
    <3>2. /\ k \in Nat /\ k > 0
          /\ \A i \in 1..(k - 1) : i \in 1..n
      BY <1>1, <2>1
    <3>3. \A i \in 1..(k - 1) : DominanceMove(Path[i]) # NoMove => frontier[i].child_moves = <<>>
      BY <1>1, <3>2
    <3> QED BY <2>1, <2>4, <3>1, <3>2, <3>3, NoMovesLeft
  <2> QED BY <1>2, <2>10, <2>11 DEF UniqueInv
<1> QED BY <1>4, <1>5

LEMMA NextUnique ==
  ASSUME GameIsSound, MovesAreMarked, Policy = "BITMAP" => NumBits # 0,
         PathInv, CountInv, UniqueInv,
         Policy = "LRU" /\ result = "NONE" => CacheInv, [Next]_vars
  PROVE  UniqueInv'
<1>1. ASSUME result = "NONE"
      PROVE  /\ Inserted.new \in BOOLEAN
             /\ ~ Inserted.new => ~ Inserted.full
             /\ CacheCounts(cache) /\ CacheCounts(Inserted.cache)
             /\ CacheSize(Inserted.cache) + StatesRemoved(Inserted.cache) =
                  CacheSize(cache) + StatesRemoved(cache) + (IF Inserted.new THEN 1 ELSE 0)
  <2>1. Policy = "LRU" => CacheInv
    BY <1>1
  <2>2. Policy # "LRU" => CacheCounts(cache)
    BY DEF UniqueInv
  <2>3. ~ Inserted.new => ~ Inserted.full
    <3>1. CASE Policy = "LRU"
      BY <2>1, <3>1, LRUInsertion
    <3>2. CASE Policy # "LRU"
      BY <3>2, OnlyLRUIsFull
    <3> QED BY <3>1, <3>2
  <2> QED BY <2>1, <2>2, <2>3, InsertionCounts
<1>2. CASE Dominate
  <2>1. result = "NONE"
    BY <1>2 DEF Dominate, Turn, InBudget, Running
  <2> QED BY <1>1, <1>2, <2>1, DominateCounts
<1>3. CASE Expand
  <2>1. result = "NONE"
    BY <1>3 DEF Expand, Turn, InBudget, Running
  <2> QED BY <1>1, <1>3, <2>1, ExpandCounts
<1>4. CASE DeadEnd \/ Duplicate
  <2>1. /\ UNCHANGED init_state /\ result = "NONE"
        /\ expanded \subseteq expanded' /\ expanded' \subseteq State
    BY <1>4, PathFacts DEF DeadEnd, Duplicate, Turn, InBudget, Running
  <2>2. \E own : \E fresh \in {0, 1} :
          /\ Backtrack(Marked, own, Inserted.cache, fresh) /\ ~ Inserted.full
          /\ fresh = IF Inserted.new THEN 1 ELSE 0
    <3>1. CASE DeadEnd
      <4>1. Backtrack(Marked, {Key(state)}, Inserted.cache, 1) /\ ~ Inserted.full /\ Inserted.new
        BY <3>1 DEF DeadEnd
      <4>2. 1 \in {0, 1} /\ 1 = IF Inserted.new THEN 1 ELSE 0
        BY <4>1
      <4> QED BY <4>1, <4>2
    <3>2. CASE Duplicate
      <4>1. Backtrack(Marked, {}, Inserted.cache, 0) /\ ~ Inserted.new
        BY <3>2 DEF Duplicate
      <4>2. ~ Inserted.full
        BY <1>1, <2>1, <4>1
      <4>3. 0 \in {0, 1} /\ 0 = IF Inserted.new THEN 1 ELSE 0
        BY <4>1
      <4> QED BY <4>1, <4>2, <4>3
    <3> QED BY <1>4, <3>1, <3>2
  <2>3. PICK own : \E fresh \in {0, 1} :
          /\ Backtrack(Marked, own, Inserted.cache, fresh) /\ ~ Inserted.full
          /\ fresh = IF Inserted.new THEN 1 ELSE 0
    BY <2>2
  <2>4. PICK fresh \in {0, 1} :
          /\ Backtrack(Marked, own, Inserted.cache, fresh) /\ ~ Inserted.full
          /\ fresh = IF Inserted.new THEN 1 ELSE 0
    BY <2>3
  <2>5. /\ CacheSize(cache') = CacheSize(Inserted.cache)
        /\ StatesRemoved(cache') = StatesRemoved(Inserted.cache)
    BY <2>1, <2>4, BackCounts
  <2>6. /\ CacheCounts(cache) /\ CacheCounts(cache')
        /\ CacheSize(cache') + StatesRemoved(cache') =
             CacheSize(cache) + StatesRemoved(cache) + fresh
    BY <1>1, <2>1, <2>4, <2>5 DEF CacheCounts
  <2> QED BY <2>1, <2>4, <2>6, BackAddsUp
<1>5. CASE MemLimit
  <2>1. /\ UNCHANGED <<init_state, frontier, res>> /\ cache' = Inserted.cache
        /\ result = "NONE" /\ result' = "MEM_LIMIT" /\ Inserted.full
    BY <1>5 DEF MemLimit, Turn, InBudget, Running
  <2>2. /\ CacheCounts(cache) /\ CacheCounts(cache')
        /\ CacheSize(cache') + StatesRemoved(cache') = CacheSize(cache) + StatesRemoved(cache) + 1
    <3>1. Inserted.new
      BY <1>1, <2>1
    <3>2. (IF Inserted.new THEN 1 ELSE 0) = 1
      BY <3>1
    <3>3. CacheCounts(cache) /\ CacheCounts(cache')
      BY <1>1, <2>1
    <3>4. CacheSize(cache') + StatesRemoved(cache') = CacheSize(cache) + StatesRemoved(cache)
            + (IF Inserted.new THEN 1 ELSE 0)
      BY <1>1, <2>1
    <3> QED BY <3>2, <3>3, <3>4
  <2>3. CacheSize(cache') + StatesRemoved(cache') + 0 = CacheSize(cache) + StatesRemoved(cache) + 1
    BY <2>2 DEF CacheCounts
  <2>4. res \in Counters /\ UniqueStatesAddUp
    BY DEF CountInv, UniqueInv
  <2>5. /\ res'.unique_states_searched + (IF result' = "MEM_LIMIT" THEN 1 ELSE 0)
             = res.unique_states_searched + 1
        /\ res'.dominance_moves = res.dominance_moves + 0
    BY <2>1, <2>4 DEF Counters
  <2>6. 0 \in {0, 1} /\ 1 \in {0, 1}
    OBVIOUS
  <2>7. UniqueStatesAddUp'
    BY <2>1, <2>2, <2>3, <2>4, <2>5, <2>6, TurnAddsUp
  <2>8. Path' = Path
    BY <2>1 DEF Path
  <2> QED BY <2>1, <2>2, <2>7, <2>8 DEF UniqueInv
<1>6. CASE TimeOut \/ Terminate \/ Solve \/ Clock \/ Signal
  <2>1. /\ UNCHANGED <<init_state, frontier, res, cache>>
        /\ result = "NONE" /\ result' # "MEM_LIMIT"
    BY <1>6 DEF TimeOut, Terminate, Solve, Clock, Signal, Running, search
  <2>2. Path' = Path
    BY <2>1 DEF Path
  <2> QED BY <2>1, <2>2 DEF UniqueInv, UniqueStatesAddUp
<1>7. CASE UNCHANGED vars
  <2>1. UNCHANGED <<init_state, frontier, res, cache, result>>
    BY <1>7 DEF vars, search
  <2>2. Path' = Path
    BY <2>1 DEF Path
  <2> QED BY <2>1, <2>2 DEF UniqueInv, UniqueStatesAddUp
<1> QED BY <1>2, <1>3, <1>4, <1>5, <1>6, <1>7 DEF Next, Dfs, Uncut

LEMMA InitUnique ==
  ASSUME Init
  PROVE  UniqueInv
<1>1. /\ Len(frontier) = 1 /\ frontier[1].child_moves = <<>> /\ result = "NONE"
      /\ res.unique_states_searched = 0 /\ res.dominance_moves = 0
      /\ cache = EmptyCache(MaxEntries)
  BY DEF Init, NewNode, Count0
<1>2. CacheSize(cache) = 0 /\ StatesRemoved(cache) = 0
  <2>1. CASE Policy = "LRU"
    <3>1. Len(cache.items) = 0 /\ cache.removed = 0
      BY <1>1, <2>1 DEF EmptyCache, EmptyLRU
    <3> QED BY <2>1, <3>1 DEF CacheSize, LRUSize, StatesRemoved
  <2>2. CASE Policy = "BITMAP"
    BY <1>1, <2>2 DEF EmptyCache, EmptyBitmap, CacheSize, BitmapSize, StatesRemoved
  <2>3. CASE Policy # "LRU" /\ Policy # "BITMAP"
    BY <1>1, <2>3 DEF EmptyCache, CacheSize, StatesRemoved
  <2> QED BY <2>1, <2>2, <2>3
<1>3. UniqueStatesAddUp /\ CacheCounts(cache)
  BY <1>1, <1>2 DEF UniqueStatesAddUp, CacheCounts
<1>4. \A i \in 1..Len(frontier) : frontier[i].child_moves = <<>>
  <2>1. \A i \in 1..Len(frontier) : i = 1
    BY <1>1
  <2> QED BY <1>1, <2>1
<1> QED BY <1>3, <1>4 DEF UniqueInv

(* Whatever the cache and however much it forgot, the number of unique     *)
(* states that the solver reports is the number of those its cache took,   *)
(* evicted ones included, and of those of the dominance moves, which it    *)
(* never saw; a bitmap of no bits is the exception, as it takes every      *)
(* state for a new one.                                                    *)
THEOREM UniqueStatesStayCounted ==
  ASSUME GameIsSound, MovesAreMarked, Policy = "BITMAP" => NumBits # 0
  PROVE  Spec => []UniqueStatesAddUp
<1> DEFINE Good == BooksInv /\ (Policy = "LRU" => LRUInv) /\ UniqueInv
<1>1. Init => Good
  BY InitBooks, InitLRU, InitUnique
<1>2. Good /\ [Next]_vars => Good'
  <2>1. SUFFICES ASSUME Good, [Next]_vars PROVE Good'
    OBVIOUS
  <2>2. PathInv /\ CountInv
    BY <2>1 DEF BooksInv
  <2>3. Policy = "LRU" /\ result = "NONE" => CacheInv
    BY <2>1 DEF LRUInv
  <2>4. BooksInv'
    BY <2>1, NextBooks
  <2>5. (Policy = "LRU" => LRUInv)'
    BY <2>1, <2>2, NextLRU
  <2>6. UniqueInv'
    BY <2>1, <2>2, <2>3, NextUnique
  <2> QED BY <2>4, <2>5, <2>6
<1>3. Good => UniqueStatesAddUp
  BY DEF UniqueInv
<1> QED BY <1>1, <1>2, <1>3, PTL DEF Spec

-----------------------------------------------------------------------------
(* A search that forgets, and one that waits for its turn while another    *)
(* runs with its flags.                                                    *)
ForgetfulInv == BooksInv /\ UniqueInv /\ SolvedInv

LEMMA InitForgetful ==
  ASSUME GameIsSound, Init
  PROVE  ForgetfulInv
<1>1. SolvedInv
  BY DEF Init, SolvedInv
<1> QED BY <1>1, InitBooks, InitUnique DEF ForgetfulInv

LEMMA NextForgetful ==
  ASSUME GameIsSound, MovesAreMarked, Policy # "LRU", Policy = "BITMAP" => NumBits # 0,
         ForgetfulInv, [Next]_vars
  PROVE  ForgetfulInv'
<1>1. PathInv /\ CountInv /\ BooksInv /\ UniqueInv /\ SolvedInv
  BY DEF ForgetfulInv, BooksInv
<1>2. BooksInv' /\ UniqueInv' /\ SolvedInv'
  BY <1>1, NextBooks, NextUnique, NextSolved
<1> QED BY <1>2 DEF ForgetfulInv

LEMMA WaitForgetful ==
  ASSUME ForgetfulInv, UNCHANGED <<init_state, max_states, search, iter, result, expanded>>,
         iter = 0, late' \in BOOLEAN, sigint' \in BOOLEAN,
         overdue' \in Nat, overdue' < CheckInterval
  PROVE  ForgetfulInv'
<1>1. PathInv /\ CountInv /\ BudgetInv /\ BooksInv /\ UniqueInv /\ SolvedInv
  BY DEF ForgetfulInv, BooksInv
<1>2. UNCHANGED <<init_state, max_states, state, frontier, cache, res, iter, result, expanded>>
  BY DEF search
<1>3. Path' = Path
  BY <1>2 DEF Path
<1>4. PathInv'
  BY <1>1, <1>2, <1>3 DEF PathInv
<1>5. CountInv'
  BY <1>1, <1>2 DEF CountInv, MovesAddUp
<1>6. BudgetInv'
  BY <1>1, <1>2 DEF BudgetInv
<1>7. UniqueInv'
  BY <1>1, <1>2, <1>3 DEF UniqueInv, UniqueStatesAddUp
<1>8. SolvedInv'
  BY <1>1, <1>2 DEF SolvedInv
<1>9. (init_state \in Deals)'
  BY <1>1, <1>2 DEF BooksInv
<1> QED BY <1>4, <1>5, <1>6, <1>7, <1>8, <1>9 DEF ForgetfulInv, BooksInv

-----------------------------------------------------------------------------
(* What a cache knows that has removed nothing.                            *)

(* A cache that is asked for a state removes one item at most.             *)
LEMMA RemovedOnce ==
  ASSUME PathInv, Policy = "LRU" => CacheInv, Policy # "LRU" => CacheCounts(cache)
  PROVE  LET old == StatesRemoved(cache)
             new == StatesRemoved(Inserted.cache)
         IN old \in Nat /\ new \in Nat /\ new = old + (IF new > old THEN 1 ELSE 0)
<1> DEFINE old == StatesRemoved(cache)
           new == StatesRemoved(Inserted.cache)
           depth == IF res.depth < DepthMax THEN res.depth ELSE DepthMax
<1>1. old \in Nat /\ (new = old \/ new = old + 1)
  <2>1. CASE Policy = "LRU"
    <3>1. Inserted = LRUInsert(cache, Key(state))
      BY <2>1 DEF Inserted, CacheInsert
    <3>2. \A c : StatesRemoved(c) = c.removed
      BY <2>1 DEF StatesRemoved
    <3>3. cache \in LRUCache /\ cache.removed \in Nat
      BY <2>1 DEF CacheInv, GoodLRU, LRUCache
    <3>4. \/ Inserted.cache.removed = cache.removed
          \/ Inserted.cache.removed = cache.removed + 1
      BY <3>1, <3>3 DEF LRUInsert, LRUCache
    <3> QED BY <3>2, <3>3, <3>4
  <2>2. CASE Policy = "BITMAP"
    <3>1. \A c : StatesRemoved(c) = 0
      BY <2>2 DEF StatesRemoved
    <3> QED BY <3>1
  <2>3. CASE Policy # "LRU" /\ Policy # "BITMAP"
    <3> DEFINE k == Key(state)
               cl == cache.clusters[ClusterIndex(k)]
               r == ClusterInsert(cl, PayloadOf(k), HashOf(k), depth)
    <3>1. Inserted = FlatInsert(cache, k, depth)
      BY <2>3 DEF Inserted, CacheInsert
    <3>2. Inserted.cache.eviction_count = cache.eviction_count + r.evicted
      BY <3>1 DEF FlatInsert
    <3>3. \A c : StatesRemoved(c) = c.eviction_count
      BY <2>3 DEF StatesRemoved
    <3>4. cache.eviction_count \in Nat
      BY <2>3, <3>3 DEF CacheCounts
    <3>5. r.evicted = 0 \/ r.evicted = 1
      BY DEF ClusterInsert
    <3> HIDE DEF r
    <3>6. cache.eviction_count + 0 = cache.eviction_count
      BY <3>4
    <3> QED BY <3>2, <3>3, <3>4, <3>5, <3>6
  <2> QED BY <2>1, <2>2, <2>3
<1> HIDE DEF old, new
<1>2. new \in Nat /\ new = old + (IF new > old THEN 1 ELSE 0)
  BY <1>1
<1> QED BY <1>1, <1>2 DEF old, new

(* The policies whose caches tell every position from every other; those   *)
(* with a guard lose a state when it cascades and the guard stays.         *)
ExactPolicies == {"LRU", "FLAT", "HASH_ONLY"}

SlotType ==
  [occupied : BOOLEAN, payload : {0} \union {PayloadOf(Key(s)) : s \in State}, depth : Nat]

ClusterType == [slot0 : SlotType, slot1 : SlotType, guard : {0}]

FlatTyped(c) == c.clusters \in [0..(NumClusters - 1) -> ClusterType]

(* A new entry in a bucket with a free slot hides none of the others.      *)
LEMMA BucketGrows ==
  ASSUME Policy \in {"FLAT", "HASH_ONLY"}, NEW cl \in ClusterType, ~ Evicts(cl),
         NEW x \in State, NEW d \in Nat, NEW h,
         Policy = "HASH_ONLY" => PayloadOf(Key(x)) # 0
  PROVE  LET new == Replace(cl, Entry(PayloadOf(Key(x)), d), h)
         IN /\ new \in ClusterType
            /\ \A q, g : ClusterContains(new, q, g) <=>
                           q = PayloadOf(Key(x)) \/ ClusterContains(cl, q, g)
<1> DEFINE p == PayloadOf(Key(x))
           e == Entry(p, d)
           new == Replace(cl, e, h)
<1>1. e \in SlotType /\ e.occupied /\ e.payload = p
  BY DEF Entry, SlotType
<1>2. /\ cl = [slot0 |-> cl.slot0, slot1 |-> cl.slot1, guard |-> cl.guard]
      /\ cl.slot0 \in SlotType /\ cl.slot1 \in SlotType /\ cl.guard = 0
      /\ cl.slot0.occupied \in BOOLEAN /\ cl.slot1.occupied \in BOOLEAN
  BY DEF ClusterType, SlotType
<1>3. Policy # "MULTIPLICITY" /\ ~ HasHashGuard(Policy)
  BY DEF HasHashGuard
<1> HIDE DEF e
<1>4. /\ ~ cl.slot0.occupied => new = [slot0 |-> e, slot1 |-> cl.slot1, guard |-> 0]
      /\ cl.slot0.occupied =>
           \/ new = [slot0 |-> e, slot1 |-> cl.slot0, guard |-> 0]
           \/ new = [slot0 |-> cl.slot0, slot1 |-> e, guard |-> 0]
  <2>1. CASE ~ cl.slot0.occupied
    <3>1. new = [WriteSlot0(cl, e) EXCEPT !.guard = 0]
      BY <2>1 DEF Replace
    <3> QED BY <1>2, <1>3, <2>1, <3>1 DEF WriteSlot0
  <2>2. CASE cl.slot0.occupied
    <3>1. new = Cascade(cl, e) \/ new = WriteSlot1(cl, e, h)
      BY <2>2 DEF Replace
    <3> DEFINE a == cl.slot0
               b == cl.slot1
    <3>a. cl = [slot0 |-> a, slot1 |-> b, guard |-> 0] /\ cl.slot0 = a
      BY <1>2
    <3> HIDE DEF a, b
    <3>2. Cascade(cl, e) = [slot0 |-> e, slot1 |-> a, guard |-> 0]
      <4>1. [cl EXCEPT !.slot1 = a] = [slot0 |-> a, slot1 |-> a, guard |-> 0]
        BY <3>a
      <4> DEFINE moved == [cl EXCEPT !.slot1 = a]
      <4> HIDE DEF moved
      <4>2. WriteSlot0(moved, e) = [slot0 |-> e, slot1 |-> a, guard |-> 0]
        <5>1. WriteSlot0(moved, e) = [moved EXCEPT !.slot0 = e, !.guard = @]
          BY <1>3 DEF WriteSlot0
        <5> QED BY <4>1, <5>1 DEF moved
      <4> QED BY <3>a, <4>2 DEF Cascade, moved
    <3>3. WriteSlot1(cl, e, h) = [slot0 |-> a, slot1 |-> e, guard |-> 0]
      <4>1. WriteSlot1(cl, e, h) = [cl EXCEPT !.slot1 = e, !.guard = @]
        BY <1>3 DEF WriteSlot1
      <4> QED BY <3>a, <4>1
    <3> USE DEF a, b
    <3> QED BY <2>2, <3>1, <3>2, <3>3
  <2> QED BY <2>1, <2>2
<1> HIDE DEF new, p
<1>5. new \in ClusterType
  BY <1>1, <1>2, <1>4 DEF ClusterType
<1>6. \A c, q, g : ClusterContains(c, q, g) <=>
        \/ c.slot0.occupied /\ c.slot0.payload = q
        \/ c.slot1.occupied /\ c.slot1.payload = q
  BY <1>3 DEF ClusterContains, Slot1Answers, Matches
<1>7. ~ (cl.slot0.occupied /\ cl.slot1.occupied)
  BY DEF Evicts
<1>8. \A q, g : ClusterContains(new, q, g) <=> q = p \/ ClusterContains(cl, q, g)
  <2> SUFFICES ASSUME NEW q, NEW g
               PROVE  ClusterContains(new, q, g) <=> q = p \/ ClusterContains(cl, q, g)
    OBVIOUS
  <2>1. CASE ~ cl.slot0.occupied
    <3>1. new.slot0 = e /\ new.slot1 = cl.slot1
      BY <1>4, <2>1
    <3> QED BY <1>1, <1>6, <2>1, <3>1
  <2>2. CASE cl.slot0.occupied
    <3>1. \/ new.slot0 = e /\ new.slot1 = cl.slot0
          \/ new.slot0 = cl.slot0 /\ new.slot1 = e
      BY <1>4, <2>2
    <3>2. ~ cl.slot1.occupied
      BY <1>7, <2>2
    <3> QED BY <1>1, <1>6, <3>1, <3>2
  <2> QED BY <2>1, <2>2
<1> QED BY <1>5, <1>8 DEF p, e, new

(* Scaling a value below m down to n buckets stays below n.                *)
LEMMA ScaledBelow ==
  ASSUME NEW a \in Nat, NEW n \in Nat \ {0}, NEW b \in Nat \ {0}, a < b
  PROVE  (a * n) \div b \in 0..(n - 1)
<1> DEFINE q == (a * n) \div b
<1>1. a * n \in Nat /\ b * n \in Nat /\ a * n < b * n
  OBVIOUS
<1>2. q \in Int /\ b * q <= a * n /\ a * n < b * q + b
  BY <1>1
<1> HIDE DEF q
<1>3. q >= 0
  <2> SUFFICES ASSUME q <= -1 PROVE FALSE
    BY <1>2
  <2>1. b * q <= b * (-1)
    BY <1>2
  <2> QED BY <1>1, <1>2, <2>1
<1>4. q < n
  <2> SUFFICES ASSUME q >= n PROVE FALSE
    BY <1>2
  <2>1. b * q >= b * n
    BY <1>2
  <2> QED BY <1>1, <1>2, <2>1
<1>5. q \in 0..(n - 1)
  BY <1>2, <1>3, <1>4
<1> QED BY <1>5 DEF q

(* Every state has a bucket, and its payload is that of no other position. *)
LEMMA BucketOf ==
  ASSUME HashesTell, Policy \in {"FLAT", "HASH_ONLY"}, NEW s \in State
  PROVE  /\ ClusterIndex(Key(s)) \in 0..(NumClusters - 1)
         /\ Policy = "HASH_ONLY" => PayloadOf(Key(s)) # 0
<1>1. Hash(Key(s)) \in 0..(HashSpace - 1) /\ HashSpace \in Nat \ {0, 1} /\ MaxEntries \in Nat
  BY SizeAssumption DEF HashesTell
<1>2. NumClusters \in Nat \ {0}
  BY <1>1 DEF NumClusters
<1>3. HashOf(Key(s)) \in Nat /\ HashOf(Key(s)) < HashSpace
  BY <1>1 DEF HashOf, Normalised
<1>4. Normalised(Hash(Key(s))) # 0
  BY <1>1 DEF Normalised
<1>5. (HashOf(Key(s)) * NumClusters) \div HashSpace \in 0..(NumClusters - 1)
  BY <1>1, <1>2, <1>3, ScaledBelow
<1> QED BY <1>4, <1>5 DEF ClusterIndex, PayloadOf, HashOf

LEMMA PayloadTells ==
  ASSUME HashesTell, Policy \in {"FLAT", "HASH_ONLY"}, NEW deal \in Deals,
         NEW s \in Positions(deal), NEW t \in Positions(deal),
         PayloadOf(Key(s)) = PayloadOf(Key(t))
  PROVE  Key(s) = Key(t)
<1>1. CASE Policy = "HASH_ONLY"
  BY <1>1 DEF HashesTell, PayloadOf, HashOf
<1>2. CASE Policy = "FLAT"
  BY <1>2 DEF PayloadOf
<1> QED BY <1>1, <1>2

(* The cache d is c after key was given to it: it knows key and what c     *)
(* does, of the positions of the deal, and if it is exact nothing else.    *)
Grown(c, d, key) ==
  /\ CacheContains(d, key)
  /\ \A s \in Positions(init_state) : CacheContains(c, Key(s)) => CacheContains(d, Key(s))
  /\ Policy \in ExactPolicies =>
       \A s \in Positions(init_state) :
         CacheContains(d, Key(s)) => Key(s) = key \/ CacheContains(c, Key(s))

LEMMA LRUTakes ==
  ASSUME Policy = "LRU", PathInv, CacheInv
  PROVE  /\ Inserted.new <=> ~ CacheContains(cache, Key(state))
         /\ ~ Inserted.full /\ StatesRemoved(Inserted.cache) = StatesRemoved(cache) =>
              Grown(cache, Inserted.cache, Key(state))
<1> DEFINE key == Key(state)
           c == cache
           d == Inserted.cache
<1>1. /\ Inserted.new <=> key \notin KeysIn(c.items)
      /\ ~ Inserted.full => GoodLRU(d)
      /\ ~ Inserted.full /\ d.removed = c.removed => KeysIn(d.items) = KeysIn(c.items) \union {key}
  BY LRUInsertion
<1>2. GoodLRU(c)
  BY DEF CacheInv
<1> HIDE DEF key, c, d
<1>3. \A x : GoodLRU(x) => \A k : CacheContains(x, k) <=> k \in KeysIn(x.items)
  BY LRUKeys DEF GoodLRU, CacheContains
<1>4. \A x : StatesRemoved(x) = x.removed
  BY DEF StatesRemoved
<1>5. Inserted.new <=> ~ CacheContains(c, key)
  BY <1>1, <1>2, <1>3
<1>6. ASSUME ~ Inserted.full, StatesRemoved(d) = StatesRemoved(c)
      PROVE  Grown(c, d, key)
  <2>1. KeysIn(d.items) = KeysIn(c.items) \union {key} /\ GoodLRU(d)
    BY <1>1, <1>4, <1>6
  <2>2. \A k : CacheContains(d, k) <=> CacheContains(c, k) \/ k = key
    BY <1>2, <1>3, <2>1
  <2> QED BY <2>2 DEF Grown
<1> QED BY <1>5, <1>6 DEF key, c, d

LEMMA BitmapTakes ==
  ASSUME Policy = "BITMAP", NumBits # 0
  PROVE  /\ Inserted.new <=> ~ CacheContains(cache, Key(state))
         /\ Grown(cache, Inserted.cache, Key(state))
<1> DEFINE key == Key(state)
           c == cache
           d == Inserted.cache
<1>1. Inserted = BitmapInsert(c, key)
  BY DEF Inserted, CacheInsert
<1> HIDE DEF key, c
<1>2. \A x, k : CacheContains(x, k) <=> BitOf(k) \in x.bits
  BY DEF CacheContains, BitmapContains
<1>3. \A x, k : BitmapContains(x, k) <=> BitOf(k) \in x.bits
  BY DEF BitmapContains
<1>4. Inserted.new = ~ BitmapContains(c, key)
  BY <1>1 DEF BitmapInsert
<1>5. d = IF BitmapContains(c, key) THEN c
          ELSE [bits |-> c.bits \union {BitOf(key)}, insert_count |-> c.insert_count + 1]
  BY <1>1 DEF BitmapInsert
<1> HIDE DEF d
<1>6. BitOf(key) \in d.bits /\ c.bits \subseteq d.bits
  BY <1>3, <1>5
<1>7. Grown(c, d, key)
  BY <1>2, <1>6 DEF Grown, ExactPolicies
<1> QED BY <1>2, <1>3, <1>4, <1>7 DEF key, c, d

LEMMA FlatTakes ==
  ASSUME Policy \in {"FLAT", "HASH_ONLY"}, HashesTell, PositionsAreClosed,
         init_state \in Deals, state \in Positions(init_state), res.depth \in Nat,
         FlatTyped(cache), StatesRemoved(cache) \in Nat
  PROVE  /\ Inserted.new <=> ~ CacheContains(cache, Key(state))
         /\ StatesRemoved(Inserted.cache) = StatesRemoved(cache) =>
              Grown(cache, Inserted.cache, Key(state)) /\ FlatTyped(Inserted.cache)
<1> DEFINE key == Key(state)
           depth == IF res.depth < DepthMax THEN res.depth ELSE DepthMax
           i == ClusterIndex(key)
           p == PayloadOf(key)
           c == cache
           d == Inserted.cache
           cl == c.clusters[i]
           r == ClusterInsert(cl, p, HashOf(key), depth)
<1>1. Inserted = FlatInsert(c, key, depth)
  BY DEF Inserted, CacheInsert
<1>2. \A s \in Positions(init_state) : s \in State
  BY DEF PositionsAreClosed
<1>3. depth \in Nat /\ state \in State
  BY <1>2, SizeAssumption
<1>4. /\ i \in 0..(NumClusters - 1) /\ (Policy = "HASH_ONLY" => p # 0)
      /\ \A s \in Positions(init_state) : ClusterIndex(Key(s)) \in 0..(NumClusters - 1)
  BY <1>2, <1>3, BucketOf
<1>5. \A s \in Positions(init_state) : PayloadOf(Key(s)) = p => Key(s) = key
  BY PayloadTells
<1>6. /\ Inserted.new = r.new
      /\ d.clusters = [c.clusters EXCEPT ![i] = r.cluster]
      /\ d.eviction_count = c.eviction_count + r.evicted
  BY <1>1 DEF FlatInsert
<1>7. /\ \A x, k : CacheContains(x, k) =
                     ClusterContains(x.clusters[ClusterIndex(k)], PayloadOf(k), HashOf(k))
      /\ \A x : StatesRemoved(x) = x.eviction_count
  BY DEF CacheContains, FlatContains, StatesRemoved
<1>8. cl \in ClusterType
  BY <1>4 DEF FlatTyped
<1>9. r.new = ~ ClusterContains(cl, p, HashOf(key))
  BY DEF ClusterInsert
<1> HIDE DEF c, d
<1>10. ASSUME StatesRemoved(d) = StatesRemoved(c)
       PROVE  /\ r.cluster \in ClusterType
              /\ \A q, g : ClusterContains(r.cluster, q, g) <=> q = p \/ ClusterContains(cl, q, g)
  <2>1. CASE ClusterContains(cl, p, HashOf(key))
    <3>1. r.cluster = cl
      BY <2>1 DEF ClusterInsert
    <3>2. \A g : ClusterContains(cl, p, g)
      BY <2>1 DEF ClusterContains, Slot1Answers, HasHashGuard
    <3> HIDE DEF r, cl
    <3> QED BY <1>8, <3>1, <3>2
  <2>2. CASE ~ ClusterContains(cl, p, HashOf(key))
    <3>1. r.cluster = Replace(cl, Entry(p, depth), HashOf(key)) /\ r.evicted = IF Evicts(cl) THEN 1 ELSE 0
      BY <2>2 DEF ClusterInsert
    <3>2. c.eviction_count \in Nat
      BY <1>7 DEF c
    <3> HIDE DEF r, cl, depth, p
    <3>3. ~ Evicts(cl)
      <4> SUFFICES ASSUME Evicts(cl) PROVE FALSE
        OBVIOUS
      <4>1. r.evicted = 1
        BY <3>1
      <4>2. d.eviction_count = c.eviction_count
        BY <1>7, <1>10
      <4> HIDE DEF i
      <4> QED BY <1>6, <3>2, <4>1, <4>2
    <3>4. LET new == Replace(cl, Entry(PayloadOf(Key(state)), depth), HashOf(key))
          IN /\ new \in ClusterType
             /\ \A q, g : ClusterContains(new, q, g) <=>
                            q = PayloadOf(Key(state)) \/ ClusterContains(cl, q, g)
      BY <1>3, <1>4, <1>8, <3>3, BucketGrows DEF p
    <3> QED BY <3>1, <3>4 DEF p
  <2> QED BY <2>1, <2>2
<1>11. ASSUME StatesRemoved(d) = StatesRemoved(c)
       PROVE  Grown(c, d, key) /\ FlatTyped(d)
  <2> DEFINE new == r.cluster
  <2>1. /\ new \in ClusterType
        /\ \A q, g : ClusterContains(new, q, g) <=> q = p \/ ClusterContains(cl, q, g)
    BY <1>10, <1>11
  <2>2. d.clusters = [c.clusters EXCEPT ![i] = new]
    BY <1>6
  <2> HIDE DEF new, r
  <2>3. c.clusters \in [0..(NumClusters - 1) -> ClusterType]
    BY DEF FlatTyped, c
  <2>4. /\ d.clusters \in [0..(NumClusters - 1) -> ClusterType] /\ d.clusters[i] = new
        /\ \A j \in 0..(NumClusters - 1) : j # i => d.clusters[j] = c.clusters[j]
    BY <1>4, <2>1, <2>2, <2>3
  <2>5. CacheContains(d, key)
    BY <1>7, <2>1, <2>4 DEF p, i
  <2>6. ASSUME NEW s \in Positions(init_state)
        PROVE  /\ CacheContains(c, Key(s)) => CacheContains(d, Key(s))
               /\ CacheContains(d, Key(s)) => Key(s) = key \/ CacheContains(c, Key(s))
    <3> DEFINE j == ClusterIndex(Key(s))
    <3>1. j \in 0..(NumClusters - 1) /\ (PayloadOf(Key(s)) = p => Key(s) = key)
      BY <1>4, <1>5
    <3>2. /\ CacheContains(c, Key(s)) = ClusterContains(c.clusters[j], PayloadOf(Key(s)), HashOf(Key(s)))
          /\ CacheContains(d, Key(s)) = ClusterContains(d.clusters[j], PayloadOf(Key(s)), HashOf(Key(s)))
      BY <1>7
    <3> HIDE DEF j, i, p, key
    <3>3. CASE j = i
      BY <2>1, <2>4, <3>1, <3>2, <3>3
    <3>4. CASE j # i
      BY <2>4, <3>1, <3>2, <3>4
    <3> QED BY <3>3, <3>4
  <2> QED BY <2>4, <2>5, <2>6 DEF Grown, FlatTyped
<1>12. Inserted.new <=> ~ CacheContains(c, key)
  BY <1>6, <1>7, <1>9
<1> QED BY <1>11, <1>12 DEF key, c, d

(* The insertion of the current state, whatever the policy.                *)
LEMMA InsertionTakes ==
  ASSUME Policy \in ExactPolicies \union {"BITMAP"}, Policy = "BITMAP" => NumBits # 0,
         HashesTell, PositionsAreClosed, init_state \in Deals,
         state \in Positions(init_state), res.depth \in Nat, PathInv,
         Policy = "LRU" => CacheInv, StatesRemoved(cache) \in Nat,
         Policy \in {"FLAT", "HASH_ONLY"} => FlatTyped(cache)
  PROVE  /\ Inserted.new <=> ~ CacheContains(cache, Key(state))
         /\ ~ Inserted.full /\ StatesRemoved(Inserted.cache) = StatesRemoved(cache) =>
              /\ Grown(cache, Inserted.cache, Key(state))
              /\ Policy \in {"FLAT", "HASH_ONLY"} => FlatTyped(Inserted.cache)
<1>1. CASE Policy = "LRU"
  BY <1>1, LRUTakes
<1>2. CASE Policy = "BITMAP"
  BY <1>2, BitmapTakes
<1>3. CASE Policy \in {"FLAT", "HASH_ONLY"}
  BY <1>3, FlatTakes
<1> QED BY <1>1, <1>2, <1>3 DEF ExactPolicies

(* The search stays within the positions of its deal.                      *)
PlacedInv ==
  /\ \A i \in 1..Len(frontier) : Path[i] \in Positions(init_state)
  /\ expanded \subseteq Positions(init_state)

(* The keys are those the cache c has, of the positions of the deal, and   *)
(* a bitmap may have others.                                               *)
Knows(c, keys) ==
  /\ \A s \in Positions(init_state) : Key(s) \in keys => CacheContains(c, Key(s))
  /\ Policy \in ExactPolicies =>
       \A s \in Positions(init_state) : CacheContains(c, Key(s)) => Key(s) \in keys

KnowInv ==
  /\ Policy # "LRU" => CacheCounts(cache)
  /\ StatesRemoved(cache) = 0 /\ result # "MEM_LIMIT" =>
       /\ Policy \in {"FLAT", "HASH_ONLY"} => FlatTyped(cache)
       /\ Knows(cache, GivenKeys)

(* A key that the cache knows, or that was given to one that is exact.     *)
LEMMA Known ==
  ASSUME NEW keys, Knows(cache, keys), NEW s \in Positions(init_state)
  PROVE  /\ Key(s) \in keys => CacheContains(cache, Key(s))
         /\ Policy \in ExactPolicies => (CacheContains(cache, Key(s)) <=> Key(s) \in keys)
BY DEF Knows

LEMMA PathIsPlaced ==
  ASSUME PathInv, PlacedInv
  PROVE  state \in Positions(init_state)
<1>1. Len(frontier) \in 1..Len(frontier)
  BY PathFacts
<1> QED BY <1>1 DEF PathInv, PlacedInv

(* The cache after a turn that asked it for the current state.             *)
LEMMA KnowsMore ==
  ASSUME Policy \in ExactPolicies \union {"BITMAP"}, Policy = "BITMAP" => NumBits # 0,
         HashesTell, PositionsAreClosed, init_state \in Deals, PlacedInv,
         res.depth \in Nat, PathInv, Policy = "LRU" => CacheInv, KnowInv,
         UNCHANGED init_state, result = "NONE", ~ Inserted.full,
         \A k : CacheContains(cache', k) <=> CacheContains(Inserted.cache, k),
         StatesRemoved(cache') = StatesRemoved(Inserted.cache),
         Policy # "LRU" => cache' = Inserted.cache,
         GivenKeys' = IF Inserted.new THEN GivenKeys \union {Key(state)} ELSE GivenKeys
  PROVE  KnowInv'
<1>0. Policy # "LRU" => CacheCounts(cache)
  BY DEF KnowInv
<1>1. /\ StatesRemoved(cache) \in Nat /\ StatesRemoved(Inserted.cache) \in Nat
      /\ StatesRemoved(Inserted.cache) =
           StatesRemoved(cache) + (IF StatesRemoved(Inserted.cache) > StatesRemoved(cache) THEN 1 ELSE 0)
  BY <1>0, RemovedOnce
<1>2. Policy # "LRU" => CacheCounts(cache')
  BY <1>0, InsertionCounts
<1>3. ASSUME StatesRemoved(cache') = 0
      PROVE  /\ Policy \in {"FLAT", "HASH_ONLY"} => FlatTyped(cache')
             /\ Knows(cache, GivenKeys)' 
  <2> DEFINE old == StatesRemoved(cache)
             new == StatesRemoved(Inserted.cache)
  <2>1. old \in Nat /\ new = 0 /\ new = old + (IF new > old THEN 1 ELSE 0)
    BY <1>1, <1>3
  <2> HIDE DEF old, new
  <2>2. old = 0 /\ new = old
    BY <2>1
  <2>3. /\ Policy \in {"FLAT", "HASH_ONLY"} => FlatTyped(cache)
        /\ Knows(cache, GivenKeys)
    BY <2>2 DEF KnowInv, old
  <2>4. state \in Positions(init_state)
    BY PathIsPlaced
  <2>5. /\ Inserted.new <=> ~ CacheContains(cache, Key(state))
        /\ Grown(cache, Inserted.cache, Key(state))
        /\ Policy \in {"FLAT", "HASH_ONLY"} => FlatTyped(Inserted.cache)
    BY <1>1, <2>2, <2>3, <2>4, InsertionTakes DEF old, new
  <2>6. ASSUME NEW s \in Positions(init_state), Key(s) \in GivenKeys'
        PROVE  CacheContains(cache', Key(s))
    <3>1. Key(s) \in GivenKeys \/ Key(s) = Key(state)
      BY <2>6
    <3>2. CacheContains(Inserted.cache, Key(s))
      BY <2>3, <2>5, <3>1 DEF Grown, Knows
    <3> QED BY <3>2
  <2>7. ASSUME Policy \in ExactPolicies, NEW s \in Positions(init_state),
               CacheContains(cache', Key(s))
        PROVE  Key(s) \in GivenKeys'
    <3>1. Key(s) = Key(state) \/ CacheContains(cache, Key(s))
      BY <2>5, <2>7 DEF Grown
    <3>2. CacheContains(cache, Key(s)) => Key(s) \in GivenKeys
      BY <2>3, <2>7 DEF Knows
    <3>3. ~ Inserted.new => Key(state) \in GivenKeys
      BY <2>3, <2>4, <2>5, <2>7 DEF Knows
    <3> QED BY <3>1, <3>2, <3>3
  <2>8. Knows(cache, GivenKeys)'
    BY <2>6, <2>7 DEF Knows
  <2>9. Policy \in {"FLAT", "HASH_ONLY"} => FlatTyped(cache')
    BY <2>5
  <2> QED BY <2>8, <2>9
<1> QED BY <1>2, <1>3 DEF KnowInv

(* A turn that leaves the cache and what was expanded as they are.         *)
LEMMA KnowsTheSame ==
  ASSUME KnowInv, UNCHANGED <<init_state, cache>>, GivenKeys' = GivenKeys,
         result' = "MEM_LIMIT" \/ result # "MEM_LIMIT"
  PROVE  KnowInv'
BY DEF KnowInv, Knows

LEMMA InsertedIsBack ==
  ASSUME PathInv, Policy = "LRU" => CacheInv, ~ Inserted.full,
         NEW own, NEW fresh, Backtrack(Marked, own, Inserted.cache, fresh)
  PROVE  /\ \A k : CacheContains(cache', k) <=> CacheContains(Inserted.cache, k)
         /\ StatesRemoved(cache') = StatesRemoved(Inserted.cache)
         /\ Policy # "LRU" => cache' = Inserted.cache
<1>1. StatesRemoved(cache') = StatesRemoved(Inserted.cache)
  BY BackCounts
<1>2. CASE Policy = "LRU"
  <2>1. cache' = SetNonLive(Inserted.cache, LeftBehind(own))
    BY <1>2 DEF Backtrack, ComputesHash
  <2>2. GoodLRU(Inserted.cache)
    BY <1>2, LRUInsertion
  <2> DEFINE d == Inserted.cache
  <2> HIDE DEF d
  <2>3. GoodLRU(cache') /\ KeysIn(cache'.items) = KeysIn(d.items) /\ GoodLRU(d)
    BY <2>1, <2>2, ItemsNotLive DEF d
  <2>4. \A x : GoodLRU(x) => \A k : CacheContains(x, k) <=> k \in KeysIn(x.items)
    BY <1>2, LRUKeys DEF GoodLRU, CacheContains
  <2>5. \A k : CacheContains(cache', k) <=> CacheContains(d, k)
    BY <2>3, <2>4
  <2> QED BY <1>1, <1>2, <2>5 DEF d
<1>3. CASE Policy # "LRU"
  <2>1. cache' = Inserted.cache
    BY <1>3 DEF Backtrack, ComputesHash
  <2> QED BY <1>1, <2>1
<1> QED BY <1>2, <1>3

(* What was given to the cache after a turn.                               *)
LEMMA GivenMore ==
  /\ UNCHANGED expanded => GivenKeys' = GivenKeys
  /\ expanded' = expanded \union {state} /\ DominanceMove(state) # NoMove => GivenKeys' = GivenKeys
  /\ expanded' = expanded \union {state} /\ DominanceMove(state) = NoMove =>
       GivenKeys' = GivenKeys \union {Key(state)}
BY DEF GivenKeys

(* The new frontier is the old one up to node k, and one node below it.    *)
LEMMA OnePlaced ==
  ASSUME PositionsAreClosed, PathInv, PathInv', PlacedInv, init_state \in Deals,
         UNCHANGED init_state, NEW k \in 1..Len(frontier), Len(frontier') = k + 1,
         \A i \in 1..k : Path'[i] = Path[i],
         NEW m \in MovesOf(Path[k]), state' = Apply(Path[k], m),
         expanded' \subseteq expanded \union {state}
  PROVE  PlacedInv'
<1>1. state \in Positions(init_state)
  BY PathIsPlaced
<1>2. Path[k] \in Positions(init_state)
  BY DEF PlacedInv
<1>3. state' \in Positions(init_state)
  BY <1>2 DEF PositionsAreClosed
<1>4. Path'[k + 1] = state'
  BY DEF PathInv
<1>5. ASSUME NEW i \in 1..Len(frontier')
      PROVE  Path'[i] \in Positions(init_state)
  <2>1. Len(frontier) \in Nat
    BY PathFacts
  <2>2. i = k + 1 \/ i \in 1..k
    BY <2>1
  <2>3. \A j \in 1..k : Path[j] \in Positions(init_state)
    BY <2>1 DEF PlacedInv
  <2> QED BY <1>3, <1>4, <2>2, <2>3
<1> QED BY <1>1, <1>5 DEF PlacedInv

LEMMA BackPlaced ==
  ASSUME GameIsSound, PositionsAreClosed, PathInv, PlacedInv, init_state \in Deals,
         UNCHANGED init_state, NEW own, NEW c, NEW fresh,
         Backtrack(Marked, own, c, fresh),
         expanded' = expanded \/ expanded' = expanded \union {state}
  PROVE  PlacedInv'
<1> DEFINE n == Len(frontier)
           k == Target
           moves == frontier[Target].child_moves
<1>1. state \in State /\ expanded \subseteq State /\ n \in Nat /\ n > 0
  BY PathFacts
<1>2. expanded \subseteq expanded' /\ expanded' \subseteq State
  BY <1>1
<1>3. /\ PathInv' /\ k \in 1..n
      /\ OpenNodes = {} => Len(frontier') = 1 /\ Path'[1] = Path[1]
      /\ OpenNodes # {} =>
           /\ k < n /\ Len(frontier') = k + 1 /\ k \in OpenNodes
           /\ \A i \in 1..k : Path'[i] = Path[i]
           /\ state' = Apply(Path[k], moves[Len(moves)])
  BY <1>2, BackStep
<1>4. CASE OpenNodes = {}
  <2>1. Path[1] \in Positions(init_state) /\ state \in Positions(init_state)
    BY <1>1, PathIsPlaced DEF PlacedInv
  <2>2. Len(frontier') = 1 /\ Path'[1] \in Positions(init_state)
    BY <1>3, <1>4, <2>1
  <2>3. expanded' \subseteq Positions(init_state)
    BY <2>1 DEF PlacedInv
  <2> QED BY <2>2, <2>3 DEF PlacedInv
<1>5. CASE OpenNodes # {}
  <2>1. moves \in Seq(Move) /\ moves # <<>> /\ Range(moves) \subseteq MovesOf(Path[k])
    <3>1. moves # <<>>
      BY <1>3, <1>5 DEF OpenNodes
    <3>2. frontier[k] \in Node /\ Range(frontier[k].child_moves) \subseteq MovesOf(Path[k])
      BY <1>3, PathFacts
    <3> QED BY <3>1, <3>2 DEF Node
  <2> HIDE DEF moves, k, n
  <2>2. moves[Len(moves)] \in MovesOf(Path[k])
    BY <2>1 DEF Range
  <2>3. expanded' \subseteq expanded \union {state}
    OBVIOUS
  <2> QED BY <1>3, <1>5, <2>2, <2>3, OnePlaced DEF k, n, moves
<1> QED BY <1>4, <1>5

LEMMA DownPlaced ==
  ASSUME GameIsSound, PositionsAreClosed, PathInv, PlacedInv, init_state \in Deals,
         ~ Solved(state), UNCHANGED init_state,
         NEW f \in Seq(Node), Len(f) = Len(frontier),
         \A i \in 1..Len(frontier) :
           f[i].mv = frontier[i].mv /\ f[i].child_moves = frontier[i].child_moves,
         NEW moves \in Seq(Move), moves # <<>>, Range(moves) \subseteq MovesOf(state),
         GoDown(f, moves)
  PROVE  PlacedInv'
<1> DEFINE n == Len(frontier)
           m == moves[Len(moves)]
<1>1. n \in 1..n /\ Path[n] = state
  BY PathFacts DEF PathInv
<1>2. /\ PathInv' /\ Len(frontier') = n + 1
      /\ \A i \in 1..n : Path'[i] = Path[i]
      /\ state' = Apply(state, m) /\ m \in MovesOf(state)
  BY DownStep
<1>3. expanded' \subseteq expanded \union {state}
  BY DEF GoDown
<1> HIDE DEF m, n
<1>4. m \in MovesOf(Path[n]) /\ state' = Apply(Path[n], m)
  BY <1>1, <1>2
<1> QED BY <1>1, <1>2, <1>3, <1>4, OnePlaced DEF n

LEMMA NextPlaced ==
  ASSUME GameIsSound, PositionsAreClosed, BooksInv, PlacedInv, [Next]_vars
  PROVE  PlacedInv'
<1>1. PathInv /\ init_state \in Deals
  BY DEF BooksInv
<1>2. ASSUME Turn
      PROVE  ~ Solved(state) /\ UNCHANGED init_state
  BY <1>2 DEF Turn, InBudget, Running
<1>3. CASE Dominate
  <2>1. /\ DominanceMove(state) # NoMove /\ ~ Solved(state) /\ UNCHANGED init_state
        /\ GoDown(frontier, <<DominanceMove(state)>>)
    BY <1>2, <1>3 DEF Dominate
  <2>2. <<DominanceMove(state)>> \in Seq(Move) /\ <<DominanceMove(state)>> # <<>>
        /\ Range(<<DominanceMove(state)>>) \subseteq MovesOf(state)
    BY <1>1, <2>1, GameMoves
  <2>3. frontier \in Seq(Node)
    BY <1>1, PathFacts
  <2> QED BY <1>1, <2>1, <2>2, <2>3, DownPlaced
<1>4. CASE Expand
  <2>1. /\ DominanceMove(state) = NoMove /\ ~ Solved(state) /\ UNCHANGED init_state
        /\ Moves # <<>> /\ GoDown(Marked, Moves)
    BY <1>2, <1>4 DEF Expand
  <2>2. Moves \in Seq(Move) /\ Range(Moves) \subseteq MovesOf(state)
    BY <1>1, <2>1, GameMoves
  <2>3. /\ Marked \in Seq(Node) /\ Len(Marked) = Len(frontier)
        /\ \A i \in 1..Len(frontier) :
             Marked[i].mv = frontier[i].mv /\ Marked[i].child_moves = frontier[i].child_moves
    BY <1>1, MarkedNodes
  <2> QED BY <1>1, <2>1, <2>2, <2>3, DownPlaced
<1>5. CASE DeadEnd
  <2>1. /\ expanded' = expanded \union {state} /\ UNCHANGED init_state
        /\ Backtrack(Marked, {Key(state)}, Inserted.cache, 1)
    BY <1>2, <1>5 DEF DeadEnd
  <2> QED BY <1>1, <2>1, BackPlaced
<1>6. CASE Duplicate
  <2>1. /\ expanded' = expanded /\ UNCHANGED init_state
        /\ Backtrack(Marked, {}, Inserted.cache, 0)
    BY <1>2, <1>6 DEF Duplicate
  <2> QED BY <1>1, <2>1, BackPlaced
<1>7. CASE UNCHANGED <<init_state, frontier, expanded>>
  <2>1. Path' = Path
    BY <1>7 DEF Path
  <2> QED BY <1>7, <2>1 DEF PlacedInv
<1>8. CASE MemLimit \/ TimeOut \/ Terminate \/ Solve \/ Clock \/ Signal \/ UNCHANGED vars
  <2>1. UNCHANGED <<init_state, frontier, expanded>>
    BY <1>8 DEF MemLimit, Turn, TimeOut, Terminate, Solve, Clock, Signal, vars, search
  <2> QED BY <1>7, <2>1
<1> QED BY <1>3, <1>4, <1>5, <1>6, <1>8 DEF Next, Dfs, Uncut

LEMMA NextKnow ==
  ASSUME GameIsSound, PositionsAreClosed, HashesTell,
         Policy \in ExactPolicies \union {"BITMAP"}, Policy = "BITMAP" => NumBits # 0,
         BooksInv, PlacedInv, KnowInv, Policy = "LRU" => LRUInv, [Next]_vars
  PROVE  KnowInv'
<1>1. PathInv /\ init_state \in Deals /\ res.depth \in Nat
  BY DEF BooksInv, CountInv, Counters
<1>2. ASSUME Turn
      PROVE  result = "NONE" /\ UNCHANGED init_state /\ (Policy = "LRU" => CacheInv)
  BY <1>2 DEF Turn, InBudget, Running, LRUInv
<1>3. CASE Dominate
  <2>1. /\ UNCHANGED <<init_state, cache>> /\ DominanceMove(state) # NoMove
        /\ expanded' = expanded \union {state} /\ result # "MEM_LIMIT"
    BY <1>2, <1>3 DEF Dominate, GoDown
  <2>2. GivenKeys' = GivenKeys
    BY <2>1, GivenMore
  <2> QED BY <2>1, <2>2, KnowsTheSame
<1>4. CASE Expand
  <2>1. /\ DominanceMove(state) = NoMove /\ expanded' = expanded \union {state}
        /\ cache' = Inserted.cache /\ Inserted.new /\ ~ Inserted.full /\ Turn
    BY <1>4 DEF Expand, GoDown
  <2>2. GivenKeys' = GivenKeys \union {Key(state)}
    BY <2>1, GivenMore
  <2>3. /\ \A k : CacheContains(cache', k) <=> CacheContains(Inserted.cache, k)
        /\ StatesRemoved(cache') = StatesRemoved(Inserted.cache)
    BY <2>1
  <2> QED BY <1>1, <1>2, <2>1, <2>2, <2>3, KnowsMore
<1>5. ASSUME NEW own, NEW fresh, Backtrack(Marked, own, Inserted.cache, fresh), Turn,
             ~ Inserted.full,
             GivenKeys' = IF Inserted.new THEN GivenKeys \union {Key(state)} ELSE GivenKeys
      PROVE  KnowInv'
  <2>1. Policy = "LRU" => CacheInv
    BY <1>2, <1>5
  <2>2. /\ \A k : CacheContains(cache', k) <=> CacheContains(Inserted.cache, k)
        /\ StatesRemoved(cache') = StatesRemoved(Inserted.cache)
        /\ Policy # "LRU" => cache' = Inserted.cache
    BY <1>1, <1>5, <2>1, InsertedIsBack
  <2> QED BY <1>1, <1>2, <1>5, <2>1, <2>2, KnowsMore
<1>6. CASE DeadEnd
  <2>1. /\ DominanceMove(state) = NoMove /\ expanded' = expanded \union {state}
        /\ Inserted.new /\ ~ Inserted.full /\ Turn
        /\ Backtrack(Marked, {Key(state)}, Inserted.cache, 1)
    BY <1>6 DEF DeadEnd
  <2>2. GivenKeys' = GivenKeys \union {Key(state)}
    BY <2>1, GivenMore
  <2> QED BY <1>5, <2>1, <2>2
<1>7. CASE Duplicate
  <2>1. /\ UNCHANGED expanded /\ ~ Inserted.new /\ Turn
        /\ Backtrack(Marked, {}, Inserted.cache, 0)
    BY <1>7 DEF Duplicate
  <2>2. GivenKeys' = GivenKeys
    BY <2>1, GivenMore
  <2>3. ~ Inserted.full
    <3>1. CASE Policy = "LRU"
      BY <1>1, <1>2, <2>1, <3>1, LRUInsertion
    <3>2. CASE Policy # "LRU"
      BY <3>2, OnlyLRUIsFull
    <3> QED BY <3>1, <3>2
  <2> QED BY <1>5, <2>1, <2>2, <2>3
<1>8. CASE MemLimit
  <2>1. Policy = "LRU" /\ result' = "MEM_LIMIT"
    BY <1>8, OnlyLRUIsFull DEF MemLimit
  <2> QED BY <2>1 DEF KnowInv
<1>9. CASE UNCHANGED <<init_state, cache, expanded>> /\ (result # "MEM_LIMIT" \/ result' = "MEM_LIMIT")
  <2>1. GivenKeys' = GivenKeys
    BY <1>9, GivenMore
  <2> QED BY <1>9, <2>1, KnowsTheSame
<1>10. CASE TimeOut \/ Terminate \/ Solve \/ Clock \/ Signal \/ UNCHANGED vars
  <2>1. UNCHANGED <<init_state, cache, expanded>> /\ (result # "MEM_LIMIT" \/ result' = "MEM_LIMIT")
    BY <1>10 DEF Running, TimeOut, Terminate, Solve, Clock, Signal, vars, search
  <2> QED BY <1>9, <2>1
<1> QED BY <1>3, <1>4, <1>6, <1>7, <1>8, <1>10 DEF Next, Dfs, Uncut

LEMMA InitKnow ==
  ASSUME PositionsAreClosed, HashesTell, Policy \in ExactPolicies \union {"BITMAP"}, Init
  PROVE  PlacedInv /\ KnowInv
<1>1. /\ init_state \in Deals /\ state = init_state /\ Len(frontier) = 1
      /\ cache = EmptyCache(MaxEntries) /\ expanded = {} /\ result = "NONE"
  BY DEF Init
<1>2. GivenKeys = {}
  BY <1>1 DEF GivenKeys
<1>3. PlacedInv
  <2>1. Path = PathOf(init_state, frontier)
    BY PathIsPathOf
  <2>2. Path[1] = init_state
    BY <1>1, <2>1, PathStates
  <2>3. \A i \in 1..1 : i = 1
    OBVIOUS
  <2> QED BY <1>1, <2>2, <2>3 DEF PlacedInv, PositionsAreClosed
<1>4. HashSpace \in Nat /\ NumClusters \in Nat
  <2>1. MaxEntries \in Nat
    BY SizeAssumption
  <2> QED BY <2>1 DEF HashesTell, NumClusters
<1>5. CASE Policy = "LRU"
  <2>1. cache.items = <<>>
    BY <1>1, <1>5 DEF EmptyCache, EmptyLRU
  <2>2. \A k : ~ CacheContains(cache, k)
    BY <1>5, <2>1 DEF CacheContains, LRUContains
  <2> QED BY <1>2, <1>3, <1>5, <2>2 DEF KnowInv, Knows
<1>6. CASE Policy = "BITMAP"
  <2>1. cache.insert_count = 0
    BY <1>1, <1>6 DEF EmptyCache, EmptyBitmap
  <2>2. CacheCounts(cache)
    BY <1>6, <2>1 DEF CacheCounts, CacheSize, BitmapSize, StatesRemoved
  <2> QED BY <1>2, <1>3, <1>6, <2>2 DEF KnowInv, Knows, ExactPolicies
<1>7. CASE Policy \in {"FLAT", "HASH_ONLY"}
  <2>1. /\ cache.clusters = [i \in 0..(NumClusters - 1) |-> EmptyCluster(0)]
        /\ cache.occupied_count = 0 /\ cache.eviction_count = 0
    BY <1>1, <1>7 DEF EmptyCache
  <2>2. CacheCounts(cache)
    BY <1>7, <2>1 DEF CacheCounts, CacheSize, StatesRemoved
  <2>3. /\ EmptyCluster(0) \in ClusterType
        /\ \A q, g : ~ ClusterContains(EmptyCluster(0), q, g)
    BY DEF EmptyCluster, ClusterType, SlotType, ClusterContains, Matches, Slot1Answers
  <2>4. FlatTyped(cache)
    BY <2>1, <2>3 DEF FlatTyped
  <2>5. ASSUME NEW s \in Positions(init_state)
        PROVE  ~ CacheContains(cache, Key(s))
    <3>1. s \in State
      BY <1>1 DEF PositionsAreClosed
    <3>2. ClusterIndex(Key(s)) \in 0..(NumClusters - 1)
      BY <1>7, <3>1, BucketOf
    <3>3. cache.clusters[ClusterIndex(Key(s))] = EmptyCluster(0)
      BY <2>1, <3>2
    <3> QED BY <1>7, <2>3, <3>3 DEF CacheContains, FlatContains
  <2> QED BY <1>2, <1>3, <1>7, <2>2, <2>4, <2>5 DEF KnowInv, Knows
<1> QED BY <1>5, <1>6, <1>7 DEF ExactPolicies

(* As long as it has removed nothing, a cache knows every state that was   *)
(* given to it; and the lru_cache, the flat cache and the hash-only one    *)
(* know no other position of the deal.                                     *)
THEOREM CacheKnowsWhatItWasGiven ==
  ASSUME GameIsSound, PositionsAreClosed, HashesTell,
         Policy \in ExactPolicies \union {"BITMAP"}, Policy = "BITMAP" => NumBits # 0
  PROVE  Spec => [](StatesRemoved(cache) = 0 /\ result # "MEM_LIMIT" => Knows(cache, GivenKeys))
<1> DEFINE IInv == PlacedInv /\ KnowInv
<1>1. Init => IInv
  BY InitKnow
<1>2. Init /\ Policy = "LRU" => LRUInv
  BY InitLRU
<1>3. BooksInv /\ (Policy = "LRU" => LRUInv) /\ IInv /\ [Next]_vars => IInv'
  BY NextPlaced, NextKnow
<1>4. BooksInv /\ (Policy = "LRU" => LRUInv) /\ [Next]_vars => (Policy = "LRU" => LRUInv)'
  BY NextLRU DEF BooksInv
<1>5. Spec => []BooksInv
  BY BooksInvariant
<1>6. IInv => (StatesRemoved(cache) = 0 /\ result # "MEM_LIMIT" => Knows(cache, GivenKeys))
  BY DEF KnowInv
<1>7. Init => (Policy = "LRU" => LRUInv)
  BY <1>2
<1> QED BY <1>1, <1>3, <1>4, <1>5, <1>6, <1>7, PTL DEF Spec
=============================================================================
