---------------------- MODULE DepthFirstSearchProofs ----------------------
(***************************************************************************)
(* The verdicts of the depth-first search are right for every game and     *)
(* every exact cache, however much the cache forgets.  The inductive       *)
(* invariant is SearchInv: besides the shape of the frontier it says that  *)
(* nothing is lost (NothingLost).                                          *)
(***************************************************************************)
EXTENDS DepthFirstSearch, SequenceTheorems, TLAPS

(* A play whose last node has no moves yet, the others only legal ones.    *)
Shape(f) ==
  /\ f \in Seq(Node) /\ f # <<>>
  /\ f[Len(f)].child_moves = <<>>
  /\ \A i \in 1..Len(f) : MovesIn(f[i].child_moves) \subseteq AllMoves(f[i].state)
  /\ Play(f)

(* A play whose last node has moves, as Descend takes it.                  *)
Branch(f) ==
  /\ f \in Seq(Node) /\ f # <<>>
  /\ f[Len(f)].child_moves # <<>>
  /\ \A i \in 1..Len(f) : MovesIn(f[i].child_moves) \subseteq AllMoves(f[i].state)
  /\ Play(f)

ParentsExpanded == \A i \in 1..(Len(frontier) - 1) : frontier[i].state \in expanded

ExpandedUnsolved == \A s \in expanded : ~ Solved(s)

(* The search comes back to a frontier of one node only when it ends.      *)
RootFirst == result = "NONE" /\ Len(frontier) = 1 => expanded = {}

Exhausted ==
  result = "UNSOLVABLE" => Len(frontier) = 1 /\ init_state \in expanded

SearchInv ==
  /\ init_state \in Deals
  /\ Shape(frontier)
  /\ expanded \in SUBSET State
  /\ result \in Result
  /\ ParentsExpanded
  /\ ExpandedUnsolved
  /\ RootFirst
  /\ Exhausted
  /\ NothingLost
  /\ SolvedIsShown

-----------------------------------------------------------------------------
(* A move leads from a state to a state.                                   *)
LEMMA MoveType ==
  ASSUME NEW s \in State, NEW m \in AllMoves(s)
  PROVE  m \in Move /\ Apply(s, m) \in State
BY GameAssumption

(* ChildStates by its members.                                             *)
LEMMA InChildStates ==
  ASSUME NEW f, NEW i \in 1..Len(f), NEW m \in MovesIn(f[i].child_moves)
  PROVE  Apply(f[i].state, m) \in ChildStates(f)
<1> DEFINE below(k) == {Apply(f[k].state, x) : x \in MovesIn(f[k].child_moves)}
<1>1. Apply(f[i].state, m) \in below(i)
  OBVIOUS
<1>2. ChildStates(f) = UNION {below(k) : k \in 1..Len(f)}
  BY DEF ChildStates
<1> HIDE DEF below
<1>3. below(i) \in {below(k) : k \in 1..Len(f)}
  OBVIOUS
<1> QED BY <1>1, <1>2, <1>3

(* A waiting state is that of a child of some node.                        *)
LEMMA OfChildStates ==
  ASSUME NEW f, NEW t \in ChildStates(f)
  PROVE  \E i \in 1..Len(f) : \E m \in MovesIn(f[i].child_moves) :
           t = Apply(f[i].state, m)
BY ZenonT(20) DEF ChildStates

(* set_to_child takes the last child of the last node: what Descend does   *)
(* to the nodes.                                                           *)
LEMMA NextMoveType ==
  ASSUME NEW f, Branch(f)
  PROVE  /\ Len(f) \in Nat \ {0} /\ f[Len(f)] \in Node
         /\ f[Len(f)].child_moves \in Seq(Move)
         /\ Len(f[Len(f)].child_moves) \in Nat \ {0}
         /\ NextMove(f) \in AllMoves(f[Len(f)].state)
         /\ LaterMoves(f) \in Seq(Move)
         /\ NewNode(Apply(f[Len(f)].state, NextMove(f)), NextMove(f)) \in Node
<1>1. Len(f) \in Nat \ {0} /\ f[Len(f)] \in Node
  BY DEF Branch
<1>2. /\ f[Len(f)].child_moves \in Seq(Move)
      /\ Len(f[Len(f)].child_moves) \in Nat \ {0}
  BY <1>1 DEF Branch, Node
<1>3. NextMove(f) \in MovesIn(f[Len(f)].child_moves)
  BY <1>2 DEF MovesIn, NextMove
<1>4. NextMove(f) \in AllMoves(f[Len(f)].state)
  BY <1>1, <1>3 DEF Branch
<1>5. f[Len(f)].state \in State
  BY <1>1 DEF Node
<1>6. NextMove(f) \in Move /\ Apply(f[Len(f)].state, NextMove(f)) \in State
  BY <1>4, <1>5, MoveType
<1>7. LaterMoves(f) \in Seq(Move)
  BY <1>2 DEF LaterMoves
<1>8. <<>> \in Seq(Move)
  OBVIOUS
<1>9. NewNode(Apply(f[Len(f)].state, NextMove(f)), NextMove(f)) \in Node
  BY <1>6, <1>8 DEF NewNode, Node
<1> QED BY <1>1, <1>2, <1>4, <1>7, <1>9

(* The nodes after Descend: one more, the old ones but for the move taken. *)
LEMMA DescendNodes ==
  ASSUME NEW f, Branch(f)
  PROVE  /\ Descend(f) \in Seq(Node) /\ Len(Descend(f)) = Len(f) + 1
         /\ \A i \in 1..(Len(f) - 1) : Descend(f)[i] = f[i]
         /\ Descend(f)[Len(f)] =
              [f[Len(f)] EXCEPT !.child_moves = LaterMoves(f)]
         /\ Descend(f)[Len(f) + 1] =
              NewNode(Apply(f[Len(f)].state, NextMove(f)), NextMove(f))
<1> DEFINE last == [f[Len(f)] EXCEPT !.child_moves = LaterMoves(f)]
           h == [f EXCEPT ![Len(f)] = last]
           new == NewNode(Apply(f[Len(f)].state, NextMove(f)), NextMove(f))
<1>1. Len(f) \in Nat \ {0} /\ f \in Seq(Node)
  BY NextMoveType DEF Branch
<1>2. last \in Node
  BY NextMoveType DEF Node
<1>3. new \in Node
  BY NextMoveType
<1>4. Descend(f) = Append(h, new)
  BY DEF Descend
<1> HIDE DEF last, new
<1>5. h \in Seq(Node) /\ Len(h) = Len(f) /\ h[Len(f)] = last
      /\ \A i \in 1..(Len(f) - 1) : h[i] = f[i]
  BY <1>1, <1>2 DEF h
<1> HIDE DEF h
<1>6. /\ Append(h, new) \in Seq(Node) /\ Len(Append(h, new)) = Len(f) + 1
      /\ \A i \in 1..(Len(f) - 1) : Append(h, new)[i] = f[i]
      /\ Append(h, new)[Len(f)] = last
      /\ Append(h, new)[Len(f) + 1] = new
  BY <1>1, <1>3, <1>5
<1> QED BY <1>4, <1>6 DEF last, new

(* The move that Descend takes leads to the current state, so no waiting   *)
(* state is forgotten.                                                     *)
LEMMA DescendKeepsChildStates ==
  ASSUME NEW f, Branch(f)
  PROVE  ChildStates(f) \subseteq
           ChildStates(Descend(f)) \union {Descend(f)[Len(f) + 1].state}
<1> DEFINE n == Len(f)
           moves == f[n].child_moves
           g == Descend(f)
<1> SUFFICES ASSUME NEW t \in ChildStates(f)
             PROVE  t \in ChildStates(g) \union {g[n + 1].state}
  OBVIOUS
<1>0. PICK i \in 1..n : \E m \in MovesIn(f[i].child_moves) : t = Apply(f[i].state, m)
  BY OfChildStates
<1>1. PICK m \in MovesIn(f[i].child_moves) : t = Apply(f[i].state, m)
  BY <1>0
<1>2. /\ n \in Nat \ {0} /\ Len(moves) \in Nat \ {0} /\ moves \in Seq(Move)
      /\ f[n] \in Node
  BY NextMoveType
<1>3. /\ Len(g) = n + 1
      /\ \A j \in 1..(n - 1) : g[j] = f[j]
      /\ g[n] = [f[n] EXCEPT !.child_moves = LaterMoves(f)]
      /\ g[n + 1] = NewNode(Apply(f[n].state, NextMove(f)), NextMove(f))
  BY DescendNodes
<1>4. /\ g[n].state = f[n].state /\ g[n].child_moves = LaterMoves(f)
      /\ g[n + 1].state = Apply(f[n].state, NextMove(f))
  BY <1>2, <1>3 DEF Node, NewNode
<1> HIDE DEF g
<1>5. CASE i # n
  <2>1. g[i] = f[i] /\ i \in 1..Len(g)
    BY <1>2, <1>3, <1>5
  <2>2. Apply(g[i].state, m) \in ChildStates(g)
    BY <2>1, InChildStates
  <2> QED BY <1>1, <2>1, <2>2
<1>6. CASE i = n
  <2>1. PICK j \in 1..Len(moves) : m = moves[j]
    BY <1>1, <1>6 DEF MovesIn
  <2>2. CASE j = Len(moves)
    BY <1>1, <1>4, <1>6, <2>1, <2>2 DEF NextMove
  <2>3. CASE j # Len(moves)
    <3>0. j \in 1..Len(LaterMoves(f)) /\ LaterMoves(f)[j] = m
      BY <1>2, <2>1, <2>3 DEF LaterMoves
    <3>1. m \in MovesIn(g[n].child_moves) /\ n \in 1..Len(g)
      BY <1>2, <1>3, <1>4, <3>0 DEF MovesIn
    <3>2. Apply(g[n].state, m) \in ChildStates(g)
      BY <3>1, InChildStates
    <3> QED BY <1>1, <1>4, <1>6, <3>2
  <2> QED BY <2>2, <2>3
<1> QED BY <1>5, <1>6
(* Descend turns a branch into a shape.                                    *)
LEMMA DescendShape ==
  ASSUME NEW f, Branch(f)
  PROVE  Shape(Descend(f))
<1> DEFINE n == Len(f)
           g == Descend(f)
<1>1. /\ n \in Nat \ {0} /\ f[n] \in Node
      /\ f[n].child_moves \in Seq(Move) /\ Len(f[n].child_moves) \in Nat \ {0}
      /\ NextMove(f) \in AllMoves(f[n].state)
  BY NextMoveType
<1>2. /\ g \in Seq(Node) /\ Len(g) = n + 1
      /\ \A i \in 1..(n - 1) : g[i] = f[i]
      /\ g[n] = [f[n] EXCEPT !.child_moves = LaterMoves(f)]
      /\ g[n + 1] = NewNode(Apply(f[n].state, NextMove(f)), NextMove(f))
  BY DescendNodes
<1>3. /\ g[n].state = f[n].state /\ g[n].mv = f[n].mv
      /\ g[n].child_moves = LaterMoves(f)
      /\ g[n + 1].state = Apply(f[n].state, NextMove(f))
      /\ g[n + 1].mv = NextMove(f)
      /\ g[n + 1].child_moves = <<>>
  BY <1>1, <1>2 DEF Node, NewNode
<1> HIDE DEF g
<1>4. MovesIn(<<>>) = {}
  BY DEF MovesIn
<1>5. MovesIn(LaterMoves(f)) \subseteq MovesIn(f[n].child_moves)
  <2>1. \A j \in 1..Len(LaterMoves(f)) :
          j \in 1..Len(f[n].child_moves) /\ LaterMoves(f)[j] = f[n].child_moves[j]
    BY <1>1 DEF LaterMoves
  <2> QED BY <2>1 DEF MovesIn
<1>6. ASSUME NEW i \in 1..Len(g)
      PROVE  MovesIn(g[i].child_moves) \subseteq AllMoves(g[i].state)
  <2>1. CASE i = n + 1
    BY <1>3, <1>4, <2>1
  <2>2. CASE i = n
    BY <1>1, <1>3, <1>5, <2>2 DEF Branch
  <2>3. CASE i < n
    <3>1. i \in 1..(n - 1) /\ i \in 1..n
      BY <1>1, <2>3
    <3> QED BY <1>2, <3>1 DEF Branch
  <2> QED BY <1>1, <1>2, <2>1, <2>2, <2>3
<1>7. Play(g)
  <2>1. ASSUME NEW i \in 1..n
        PROVE  g[i].state = f[i].state /\ g[i].mv = f[i].mv
    <3>1. CASE i = n
      BY <1>3, <3>1
    <3>2. CASE i # n
      <4>1. i \in 1..(n - 1)
        BY <1>1, <3>2
      <4> QED BY <1>2, <4>1
    <3> QED BY <3>1, <3>2
  <2>2. g[1].state = init_state /\ g[1].mv = NullMove
    BY <1>1, <2>1 DEF Branch, Play
  <2>3. ASSUME NEW i \in 1..(Len(g) - 1)
        PROVE  /\ g[i + 1].mv \in AllMoves(g[i].state)
               /\ g[i + 1].state = Apply(g[i].state, g[i + 1].mv)
    <3>1. CASE i = n
      BY <1>1, <1>3, <3>1
    <3>2. CASE i # n
      <4>1. i \in 1..(n - 1) /\ i \in 1..n /\ i + 1 \in 1..n
        BY <1>1, <1>2, <3>2
      <4>2. /\ f[i + 1].mv \in AllMoves(f[i].state)
            /\ f[i + 1].state = Apply(f[i].state, f[i + 1].mv)
        BY <4>1 DEF Branch, Play
      <4> QED BY <2>1, <4>1, <4>2
    <3> QED BY <3>1, <3>2
  <2> QED BY <2>2, <2>3 DEF Play
<1>8. g # <<>> /\ g[Len(g)].child_moves = <<>>
  BY <1>1, <1>2, <1>3
<1> QED BY <1>2, <1>6, <1>7, <1>8 DEF Shape, g

(* The same node with its moves, which GoDown descends from.               *)
LEMMA ExpandBranch ==
  ASSUME NEW f, Shape(f), NEW moves \in Seq(Move), moves # <<>>,
         MovesIn(moves) \subseteq AllMoves(f[Len(f)].state)
  PROVE  /\ Branch(WithMoves(f, moves)) /\ Len(WithMoves(f, moves)) = Len(f)
         /\ WithMoves(f, moves)[Len(f)].child_moves = moves
         /\ \A i \in 1..Len(f) : WithMoves(f, moves)[i].state = f[i].state
         /\ ChildStates(f) \subseteq ChildStates(WithMoves(f, moves))
<1> DEFINE n == Len(f)
           b == WithMoves(f, moves)
<1>1. n \in Nat \ {0} /\ f \in Seq(Node) /\ f[n] \in Node
  BY DEF Shape
<1>2. [f[n] EXCEPT !.child_moves = moves] \in Node
  BY <1>1 DEF Node
<1>3. /\ b \in Seq(Node) /\ Len(b) = n
      /\ b[n] = [f[n] EXCEPT !.child_moves = moves]
      /\ \A i \in 1..n : i # n => b[i] = f[i]
  <2> DEFINE h == SubSeq(f, 1, n - 1)
             last == [f[n] EXCEPT !.child_moves = moves]
  <2>0. n \in Nat /\ n >= 1
    BY <1>1
  <2>1. /\ h \in Seq(Node) /\ Len(h) = n - 1
        /\ \A i \in 1..(n - 1) : h[i] = f[i]
    <3>1. 1 \in Int /\ n - 1 \in Int /\ \A i \in 1..(n - 1) : f[i] \in Node
      BY <1>1, <2>0
    <3>2. /\ h \in Seq(Node) /\ Len(h) = IF 1 <= n - 1 THEN n - 1 - 1 + 1 ELSE 0
          /\ \A i \in 1..(n - 1 - 1 + 1) : h[i] = f[1 + i - 1]
      BY <3>1, SubSeqProperties
    <3> HIDE DEF h, n
    <3>3. \A i \in 1..(n - 1) : i \in 1..(n - 1 - 1 + 1) /\ 1 + i - 1 = i
      BY <2>0
    <3> QED BY <3>2, <3>3, <2>0
  <2>2. b = Append(h, last)
    BY DEF WithMoves
  <2>3. last \in Node
    BY <1>2
  <2> HIDE DEF h, last, b
  <2>4. /\ b \in Seq(Node) /\ Len(b) = n /\ b[n] = last
        /\ \A i \in 1..(n - 1) : b[i] = h[i]
    BY <1>1, <2>1, <2>2, <2>3
  <2>5. \A i \in 1..n : i # n => b[i] = f[i]
    BY <2>0, <2>1, <2>4
  <2> QED BY <2>4, <2>5 DEF last
<1>4. \A i \in 1..n : i # n => b[i] = f[i]
  BY <1>3
<1> HIDE DEF b
<1>5. /\ b[n].child_moves = moves
      /\ b[n].state = f[n].state /\ b[n].mv = f[n].mv
  BY <1>1, <1>3 DEF Node
<1>6. \A i \in 1..n : b[i].state = f[i].state /\ b[i].mv = f[i].mv
  BY <1>4, <1>5
<1>7. ASSUME NEW i \in 1..n
      PROVE  /\ MovesIn(b[i].child_moves) \subseteq AllMoves(b[i].state)
             /\ MovesIn(f[i].child_moves) \subseteq MovesIn(b[i].child_moves)
  <2>1. CASE i = n
    BY <1>5, <2>1 DEF Shape, MovesIn
  <2>2. CASE i # n
    BY <1>4, <2>2 DEF Shape
  <2> QED BY <2>1, <2>2
<1>8. Play(b)
  <2>1. ASSUME NEW i \in 1..(n - 1)
        PROVE  /\ b[i + 1].mv \in AllMoves(b[i].state)
               /\ b[i + 1].state = Apply(b[i].state, b[i + 1].mv)
    <3>1. i \in 1..n /\ i + 1 \in 1..n
      BY <1>1
    <3>2. /\ f[i + 1].mv \in AllMoves(f[i].state)
          /\ f[i + 1].state = Apply(f[i].state, f[i + 1].mv)
      BY DEF Shape, Play
    <3> QED BY <1>6, <3>1, <3>2
  <2>2. 1 \in 1..n
    BY <1>1
  <2> QED BY <1>3, <1>6, <2>1, <2>2 DEF Shape, Play
<1>9. Branch(b)
  <2>1. b # <<>> /\ b[Len(b)].child_moves # <<>>
    BY <1>1, <1>3, <1>5
  <2> QED BY <1>3, <1>7, <1>8, <2>1 DEF Branch
<1>10. ASSUME NEW t \in ChildStates(f)
       PROVE  t \in ChildStates(b)
  <2>1. PICK i \in 1..n : \E m \in MovesIn(f[i].child_moves) : t = Apply(f[i].state, m)
    BY OfChildStates
  <2>2. PICK m \in MovesIn(f[i].child_moves) : t = Apply(f[i].state, m)
    BY <2>1
  <2>3. i \in 1..Len(b) /\ m \in MovesIn(b[i].child_moves)
    BY <1>3, <1>7, <2>2
  <2>4. Apply(b[i].state, m) \in ChildStates(b)
    BY <2>3, InChildStates
  <2> QED BY <1>6, <2>2, <2>4
<1> QED BY <1>3, <1>5, <1>6, <1>9, <1>10 DEF b

(* The frontier cut after its last node with moves, which Backtrack        *)
(* descends from.                                                          *)
LEMMA CutBranch ==
  ASSUME NEW f, Shape(f), NEW k \in 1..(Len(f) - 1), f[k].child_moves # <<>>,
         \A j \in 1..(Len(f) - 1) : f[j].child_moves # <<>> => j <= k,
         NEW b, b = SubSeq(f, 1, k)
  PROVE  /\ Branch(b) /\ Len(b) = k
         /\ \A i \in 1..k : b[i] = f[i]
         /\ ChildStates(f) \subseteq ChildStates(b)
<1>1. Len(f) \in Nat \ {0} /\ f \in Seq(Node)
  BY DEF Shape
<1>2. b \in Seq(Node) /\ Len(b) = k /\ \A i \in 1..k : b[i] = f[i]
  BY <1>1
<1>3. \A i \in 1..k : i \in 1..Len(f)
  BY <1>1
<1>4. Play(b)
  <2>1. ASSUME NEW i \in 1..(k - 1)
        PROVE  /\ b[i + 1].mv \in AllMoves(b[i].state)
               /\ b[i + 1].state = Apply(b[i].state, b[i + 1].mv)
    <3>1. i \in 1..k /\ i + 1 \in 1..k /\ i \in 1..(Len(f) - 1)
      BY <1>1
    <3> QED BY <1>2, <3>1 DEF Shape, Play
  <2>2. 1 \in 1..k
    BY <1>1
  <2> QED BY <1>2, <2>1, <2>2 DEF Shape, Play
<1>5. Branch(b)
  <2>1. b # <<>> /\ b[Len(b)].child_moves # <<>>
    BY <1>1, <1>2
  <2>2. \A i \in 1..Len(b) : MovesIn(b[i].child_moves) \subseteq AllMoves(b[i].state)
    BY <1>2, <1>3 DEF Shape
  <2> QED BY <1>2, <1>4, <2>1, <2>2 DEF Branch
<1>6. ASSUME NEW t \in ChildStates(f)
      PROVE  t \in ChildStates(b)
  <2>1. PICK i \in 1..Len(f) : \E m \in MovesIn(f[i].child_moves) : t = Apply(f[i].state, m)
    BY OfChildStates
  <2>2. PICK m \in MovesIn(f[i].child_moves) : t = Apply(f[i].state, m)
    BY <2>1
  <2>3. f[i].child_moves # <<>>
    BY <2>2 DEF MovesIn
  <2>4. i # Len(f)
    BY <2>3 DEF Shape
  <2>5. i \in 1..k
    BY <1>1, <2>3, <2>4
  <2>6. i \in 1..Len(b) /\ m \in MovesIn(b[i].child_moves)
    BY <1>2, <2>2, <2>5
  <2>7. Apply(b[i].state, m) \in ChildStates(b)
    BY <2>6, InChildStates
  <2> QED BY <1>2, <2>2, <2>5, <2>7
<1> QED BY <1>2, <1>5, <1>6

-----------------------------------------------------------------------------
(* A frontier has its shape whatever the step that led to it.              *)
LEMMA ShapeNext ==
  ASSUME UNCHANGED init_state, Shape(frontier')
  PROVE  Shape(frontier)'
BY DEF Shape, Play, AllMoves, MovesIn

(* Any way down from branch b, which keeps the states of the frontier,     *)
(* leaves a shape, a frontier of at least two nodes, and every waiting     *)
(* state waiting or current.                                               *)
LEMMA DescendStep ==
  ASSUME NEW b, Branch(b), frontier' = Descend(b),
         ChildStates(frontier) \subseteq ChildStates(b)
  PROVE  /\ Shape(frontier') /\ Len(frontier') = Len(b) + 1 /\ Len(b) >= 1
         /\ \A i \in 1..Len(b) : frontier'[i].state = b[i].state
         /\ ChildStates(frontier) \subseteq Pending'
         /\ ChildStates(b) \subseteq Pending'
<1>1. Shape(frontier')
  BY DescendShape
<1>2. /\ Len(b) \in Nat \ {0} /\ b[Len(b)] \in Node
  BY NextMoveType
<1>3. Len(frontier') = Len(b) + 1
  BY DescendNodes
<1>4. ASSUME NEW i \in 1..Len(b)
      PROVE  frontier'[i].state = b[i].state
  <2>1. CASE i = Len(b)
    <3>1. frontier'[i] = [b[i] EXCEPT !.child_moves = LaterMoves(b)]
      BY <2>1, DescendNodes
    <3> QED BY <1>2, <2>1, <3>1 DEF Node
  <2>2. CASE i # Len(b)
    <3>1. i \in 1..(Len(b) - 1)
      BY <1>2, <2>2
    <3> QED BY <3>1, DescendNodes
  <2> QED BY <2>1, <2>2
<1>5. ChildStates(b) \subseteq ChildStates(frontier') \union {frontier'[Len(b) + 1].state}
  BY DescendKeepsChildStates
<1>6. Pending' = {frontier'[Len(frontier')].state} \union ChildStates(frontier')
  BY DEF Pending, Current, ChildStates
<1> QED BY <1>1, <1>2, <1>3, <1>4, <1>5, <1>6

(* What get_legal_moves skips in the current state is not lost.            *)
LEMMA SkippedIsNotLost ==
  ASSUME SearchInv, result = "NONE", DominanceMove(Current.state) = NoMove,
         NEW m \in AllMoves(Current.state),
         m \notin MovesIn(LegalMoves(Current.state, Current.mv))
  PROVE  \E u \in expanded \union Pending : Key(u) = Key(Apply(Current.state, m))
<1> DEFINE n == Len(frontier)
           s == Current.state
           p == frontier[n - 1].state
<1>1. /\ n \in Nat \ {0} /\ frontier \in Seq(Node) /\ Play(frontier)
      /\ Current = frontier[n]
  BY DEF SearchInv, Shape, Current
<1>2. m \in MovesIn(LegalMoves(s, NullMove))
  BY DEF AllMoves
<1>3. n # 1
  BY <1>1, <1>2 DEF Play
<1>4. n - 1 \in 1..(n - 1) /\ n - 1 \in 1..n /\ (n - 1) + 1 = n
  <2>1. n \in Nat \ {0}
    BY <1>1
  <2> HIDE DEF n
  <2> QED BY <2>1, <1>3
<1>5. Current.mv \in AllMoves(p) /\ s = Apply(p, Current.mv)
  BY <1>1, <1>4 DEF Play
<1>6. p \in State /\ p \in expanded
  BY <1>1, <1>4 DEF SearchInv, ParentsExpanded, Node
<1>7. PICK v \in Successors(p) : Key(v) = Key(Apply(s, m))
  BY <1>2, <1>5, <1>6, PruningAssumption
<1>8. PICK u \in expanded \union Pending : Key(u) = Key(v)
  BY <1>6, <1>7 DEF SearchInv, NothingLost
<1> QED BY <1>7, <1>8

(* Nothing is lost by a step that keeps what waited and gives an account   *)
(* of the current state.                                                   *)
LEMMA NothingLostStep ==
  ASSUME NothingLost, expanded \subseteq expanded',
         ChildStates(frontier) \subseteq expanded' \union Pending',
         \E u \in expanded' \union Pending' : Key(u) = Key(Current.state),
         \A s \in expanded' \ expanded : \A t \in Successors(s) :
           \/ \E u \in expanded' \union Pending' : Key(u) = Key(t)
           \/ \E u \in expanded \union Pending : Key(u) = Key(t)
  PROVE  NothingLost'
<1>1. ASSUME NEW t, \E u \in expanded \union Pending : Key(u) = Key(t)
      PROVE  \E u \in expanded' \union Pending' : Key(u) = Key(t)
  <2>1. PICK u \in expanded \union Pending : Key(u) = Key(t)
    BY <1>1
  <2>2. \/ u \in expanded \/ u = Current.state \/ u \in ChildStates(frontier)
    BY DEF Pending
  <2> QED BY <2>1, <2>2
<1>2. ASSUME NEW s \in expanded', NEW t \in Successors(s)
      PROVE  \E u \in expanded' \union Pending' : Key(u) = Key(t)
  <2>1. CASE s \in expanded
    BY <1>1, <2>1 DEF NothingLost
  <2>2. CASE s \notin expanded
    BY <1>1, <2>2
  <2> QED BY <2>1, <2>2
<1>3. NothingLost' <=> \A s \in expanded' : \A t \in Successors(s) :
                         \E u \in expanded' \union Pending' : Key(u) = Key(t)
  BY DEF NothingLost, Successors, AllMoves, MovesIn
<1> QED BY <1>2, <1>3

(* A node gets its moves, all that get_legal_moves does not skip.          *)
LEMMA GoDownStep ==
  ASSUME SearchInv, UNCHANGED init_state, Searching, NEW moves \in Seq(Move), moves # <<>>,
         MovesIn(moves) \subseteq AllMoves(Current.state), GoDown(moves),
         \A m \in AllMoves(Current.state) \ MovesIn(moves) :
           \E u \in expanded \union Pending : Key(u) = Key(Apply(Current.state, m))
  PROVE  SearchInv'
<1> DEFINE n == Len(frontier)
           s == Current.state
           b == WithMoves(frontier, moves)
<1>1. Shape(frontier) /\ s = frontier[n].state /\ n \in Nat \ {0}
  BY DEF SearchInv, Shape, Current
<1>2. s \in State
  <2>1. frontier[n] \in Node
    BY <1>1 DEF Shape
  <2> QED BY <1>1, <2>1 DEF Node
<1>3. frontier' = Descend(b) /\ expanded' = expanded \union {s} /\ result' = result
  BY DEF GoDown
<1>4. /\ Branch(b) /\ Len(b) = n /\ b[n].child_moves = moves
      /\ \A i \in 1..n : b[i].state = frontier[i].state
      /\ ChildStates(frontier) \subseteq ChildStates(b)
  <2>1. MovesIn(moves) \subseteq AllMoves(frontier[n].state)
    BY <1>1
  <2> QED BY <1>1, <2>1, ExpandBranch
<1> HIDE DEF b
<1>5. /\ Shape(frontier') /\ Len(frontier') = n + 1 /\ n >= 1
      /\ \A i \in 1..n : frontier'[i].state = frontier[i].state
      /\ ChildStates(frontier) \subseteq Pending'
      /\ ChildStates(b) \subseteq Pending'
  BY <1>3, <1>4, DescendStep
<1>6. ParentsExpanded'
  <2>1. ASSUME NEW i \in 1..n
        PROVE  frontier'[i].state \in expanded'
    <3>1. CASE i = n
      BY <1>1, <1>3, <1>5, <3>1
    <3>2. CASE i # n
      <4>1. i \in 1..(n - 1)
        BY <1>1, <3>2
      <4> QED BY <1>3, <1>5, <4>1 DEF SearchInv, ParentsExpanded
    <3> QED BY <3>1, <3>2
  <2>2. 1..(Len(frontier') - 1) = 1..n
    BY <1>1, <1>5
  <2> QED BY <2>1, <2>2 DEF ParentsExpanded
<1>7. ExpandedUnsolved'
  BY <1>3 DEF SearchInv, ExpandedUnsolved, Searching
<1>8. NothingLost'
  <2>1. NothingLost
    BY DEF SearchInv
  <2>2. ASSUME NEW t \in Successors(s)
        PROVE  \/ \E u \in expanded' \union Pending' : Key(u) = Key(t)
               \/ \E u \in expanded \union Pending : Key(u) = Key(t)
    <3>1. PICK m \in AllMoves(s) : t = Apply(s, m)
      BY DEF Successors
    <3>2. CASE m \in MovesIn(moves)
      <4>1. n \in 1..Len(b) /\ m \in MovesIn(b[n].child_moves)
        BY <1>1, <1>4, <3>2
      <4>2. Apply(b[n].state, m) \in ChildStates(b)
        BY <4>1, InChildStates
      <4>3. b[n].state = s
        BY <1>1, <1>4
      <4> QED BY <1>5, <3>1, <4>2, <4>3
    <3>3. CASE m \notin MovesIn(moves)
      BY <3>1, <3>3
    <3> QED BY <3>2, <3>3
  <2>3. expanded' \ expanded \subseteq {s} /\ s \in expanded'
    BY <1>3
  <2>4. expanded \subseteq expanded'
    BY <1>3
  <2>5. \A q \in expanded' \ expanded : \A t \in Successors(q) :
           \/ \E u \in expanded' \union Pending' : Key(u) = Key(t)
           \/ \E u \in expanded \union Pending : Key(u) = Key(t)
    BY <2>2, <2>3
  <2> QED BY <1>5, <2>1, <2>3, <2>4, <2>5, NothingLostStep
<1>9. result' = "NONE"
  BY <1>3 DEF Searching
<1>10. Shape(frontier)'
  BY <1>5, ShapeNext
<1> QED BY <1>2, <1>3, <1>5, <1>6, <1>7, <1>8, <1>9, <1>10
        DEF SearchInv, RootFirst, Exhausted, SolvedIsShown, Result

-----------------------------------------------------------------------------
(* Going back when no node above the current one has moves: the states are *)
(* exhausted.                                                              *)
LEMMA ExhaustStep ==
  ASSUME SearchInv, UNCHANGED init_state, result = "NONE", OpenNodes = {}, frontier' = <<frontier[1]>>,
         result' = "UNSOLVABLE",
         expanded' \in {expanded, expanded \union {Current.state}}, ExpandedUnsolved',
         \E u \in expanded' : Key(u) = Key(Current.state),
         \A s \in expanded' \ expanded : \A t \in Successors(s) :
           \E u \in expanded \union Pending : Key(u) = Key(t)
  PROVE  SearchInv'
<1> DEFINE n == Len(frontier)
<1>1. /\ n \in Nat \ {0} /\ frontier \in Seq(Node) /\ Play(frontier)
      /\ Current.state = frontier[n].state /\ frontier[n].child_moves = <<>>
  BY DEF SearchInv, Shape, Current
<1>2. \A i \in 1..n : frontier[i].child_moves = <<>>
  BY <1>1 DEF OpenNodes
<1>3. frontier[1] \in Node
  BY <1>1
<1>4. MovesIn(<<>>) = {}
  BY DEF MovesIn
<1>5. ChildStates(frontier) = {}
  <2> SUFFICES ASSUME NEW t \in ChildStates(frontier) PROVE FALSE
    OBVIOUS
  <2>1. PICK i \in 1..n : \E m \in MovesIn(frontier[i].child_moves) :
          t = Apply(frontier[i].state, m)
    BY OfChildStates
  <2> QED BY <1>2, <1>4, <2>1
<1>6. frontier' \in Seq(Node) /\ Len(frontier') = 1 /\ frontier'[1] = frontier[1]
  BY <1>3
<1>7. Shape(frontier')
  <2>1. frontier'[1].child_moves = <<>>
    BY <1>1, <1>2, <1>6
  <2>2. Play(frontier')
    BY <1>1, <1>6 DEF Play
  <2>3. frontier' # <<>>
    BY <1>6
  <2> QED BY <1>4, <1>6, <2>1, <2>2, <2>3 DEF Shape
<1>8. ParentsExpanded'
  BY <1>6 DEF ParentsExpanded
<1>9. NothingLost'
  <2>1. expanded \subseteq expanded' /\ NothingLost
    BY DEF SearchInv
  <2>2. ChildStates(frontier) \subseteq expanded' \union Pending'
    BY <1>5
  <2> QED BY <2>1, <2>2, NothingLostStep
<1>10. init_state \in expanded'
  <2>1. CASE n = 1
    <3>1. expanded = {} /\ Current.state = init_state
      BY <1>1, <2>1 DEF SearchInv, RootFirst, Play
    <3> QED BY <3>1
  <2>2. CASE n # 1
    <3>1. 1 \in 1..(n - 1)
      BY <1>1, <2>2
    <3> QED BY <1>1, <3>1 DEF SearchInv, ParentsExpanded, Play
  <2> QED BY <2>1, <2>2
<1>11. Current.state \in State
  <2>1. frontier[n] \in Node
    BY <1>1
  <2> QED BY <1>1, <2>1 DEF Node
<1>12. expanded' \in SUBSET State
  BY <1>11 DEF SearchInv
<1>13. result' \in Result /\ RootFirst' /\ SolvedIsShown'
  BY DEF Result, RootFirst, SolvedIsShown
<1>14. Exhausted'
  BY <1>6, <1>10 DEF Exhausted
<1>15. Shape(frontier)'
  BY <1>7, ShapeNext
<1> QED BY <1>8, <1>9, <1>12, <1>13, <1>14, <1>15 DEF SearchInv

(* Going back to the last node above with moves, and down again.           *)
LEMMA ReturnStep ==
  ASSUME SearchInv, UNCHANGED init_state, result = "NONE", UNCHANGED result,
         NEW k \in OpenNodes, \A j \in OpenNodes : j <= k,
         frontier' = Descend(SubSeq(frontier, 1, k)),
         expanded' \in {expanded, expanded \union {Current.state}}, ExpandedUnsolved',
         \E u \in expanded' : Key(u) = Key(Current.state),
         \A s \in expanded' \ expanded : \A t \in Successors(s) :
           \E u \in expanded \union Pending : Key(u) = Key(t)
  PROVE  SearchInv'
<1> DEFINE n == Len(frontier)
           b == SubSeq(frontier, 1, k)
<1>1. /\ n \in Nat \ {0} /\ frontier \in Seq(Node) /\ Shape(frontier)
      /\ Current.state = frontier[n].state
  BY DEF SearchInv, Shape, Current
<1>2. /\ k \in 1..(n - 1) /\ frontier[k].child_moves # <<>>
      /\ \A j \in 1..(n - 1) : frontier[j].child_moves # <<>> => j <= k
  BY DEF OpenNodes
<1>3. /\ Branch(b) /\ Len(b) = k
      /\ \A i \in 1..k : b[i] = frontier[i]
      /\ ChildStates(frontier) \subseteq ChildStates(b)
  BY <1>1, <1>2, CutBranch
<1> HIDE DEF b
<1>4. frontier' = Descend(b)
  BY DEF b
<1>5. /\ Shape(frontier') /\ Len(frontier') = k + 1 /\ k >= 1
      /\ \A i \in 1..k : frontier'[i].state = b[i].state
      /\ ChildStates(frontier) \subseteq Pending'
  BY <1>3, <1>4, DescendStep
<1>6. ParentsExpanded'
  <2>1. ASSUME NEW i \in 1..k
        PROVE  frontier'[i].state \in expanded'
    <3>1. i \in 1..(n - 1)
      BY <1>1, <1>2
    <3> QED BY <1>3, <1>5, <3>1 DEF SearchInv, ParentsExpanded
  <2>2. 1..(Len(frontier') - 1) = 1..k
    BY <1>2, <1>5
  <2> QED BY <2>1, <2>2 DEF ParentsExpanded
<1>7. NothingLost'
  <2>1. expanded \subseteq expanded' /\ NothingLost
    BY DEF SearchInv
  <2> QED BY <1>5, <2>1, NothingLostStep
<1>8. Current.state \in State
  <2>1. frontier[n] \in Node
    BY <1>1
  <2> QED BY <1>1, <2>1 DEF Node
<1>9. expanded' \in SUBSET State
  BY <1>8 DEF SearchInv
<1>10. result' = "NONE" /\ Len(frontier') # 1
  <2>1. k \in Nat \ {0} /\ Len(frontier') = k + 1
    BY <1>1, <1>2, <1>5
  <2>2. result' = "NONE"
    OBVIOUS
  <2>3. k + 1 # 1
    BY <2>1
  <2> QED BY <2>1, <2>2, <2>3
<1>11. Shape(frontier)'
  BY <1>5, ShapeNext
<1> QED BY <1>6, <1>7, <1>9, <1>10, <1>11
        DEF SearchInv, Result, RootFirst, Exhausted, SolvedIsShown

(* revert_to_last_node_with_children, by its two outcomes.                 *)
LEMMA BacktrackStep ==
  ASSUME SearchInv, UNCHANGED init_state, result = "NONE", Backtrack,
         expanded' \in {expanded, expanded \union {Current.state}}, ExpandedUnsolved',
         \E u \in expanded' : Key(u) = Key(Current.state),
         \A s \in expanded' \ expanded : \A t \in Successors(s) :
           \E u \in expanded \union Pending : Key(u) = Key(t)
  PROVE  SearchInv'
BY ExhaustStep, ReturnStep DEF Backtrack

-----------------------------------------------------------------------------
(* The search starts with the invariant true (the root node only).         *)
LEMMA InitSearchInv == Init => SearchInv
<1> SUFFICES ASSUME Init PROVE SearchInv
  OBVIOUS
<1>1. NewNode(init_state, NullMove) \in Node
  <2>1. <<>> \in Seq(Move)
    OBVIOUS
  <2>2. init_state \in State /\ NullMove \in Move
    BY GameAssumption DEF Init
  <2> QED BY <2>1, <2>2 DEF NewNode, Node
<1>2. /\ frontier \in Seq(Node) /\ Len(frontier) = 1
      /\ frontier[1] = NewNode(init_state, NullMove)
  BY <1>1 DEF Init
<1>3. /\ frontier[1].child_moves = <<>> /\ frontier[1].state = init_state
      /\ frontier[1].mv = NullMove
  BY <1>2 DEF NewNode
<1>4. Shape(frontier)
  <2>1. MovesIn(<<>>) = {}
    BY DEF MovesIn
  <2>2. frontier # <<>>
    BY <1>2
  <2>3. Play(frontier)
    BY <1>2, <1>3 DEF Play
  <2> QED BY <1>2, <1>3, <2>1, <2>2, <2>3 DEF Shape
<1>5. ParentsExpanded
  BY <1>2 DEF ParentsExpanded
<1> QED BY <1>4, <1>5 DEF SearchInv, Init, ExpandedUnsolved, RootFirst, Exhausted,
                          NothingLost, SolvedIsShown, Result

(* The current node is a node of the frontier.                             *)
LEMMA CurrentType ==
  ASSUME SearchInv
  PROVE  Current.state \in State /\ Current.mv \in Move
<1>1. Current \in Node
  BY DEF SearchInv, Shape, Current
<1> QED BY <1>1 DEF Node

(* Every step of dfs keeps the invariant.                                  *)
LEMMA NextSearchInv == SearchInv /\ [Next]_vars => SearchInv'
<1> SUFFICES ASSUME SearchInv, [Next]_vars PROVE SearchInv'
  OBVIOUS
<1> DEFINE s == Current.state
           legal == LegalMoves(s, Current.mv)
<1>0. UNCHANGED init_state
  BY DEF Next, vars
<1>1. s \in State /\ Current.mv \in Move
  BY CurrentType
<1>2. legal \in Seq(Move)
  BY <1>1, GameAssumption
<1>3. CASE Dominate
  <2> DEFINE d == DominanceMove(s)
  <2>1. d \in Move /\ AllMoves(s) = {d}
    BY <1>1, <1>3, GameAssumption DEF Dominate, AllMoves
  <2>2. <<d>> \in Seq(Move) /\ <<d>> # <<>> /\ MovesIn(<<d>>) = {d}
    BY <2>1 DEF MovesIn
  <2>3. Searching /\ GoDown(<<d>>)
    BY <1>3 DEF Dominate
  <2> QED BY <1>0, <2>1, <2>2, <2>3, GoDownStep
<1>4. CASE Expand
  <2>1. Searching /\ GoDown(legal) /\ legal # <<>> /\ DominanceMove(s) = NoMove
    BY <1>4 DEF Expand
  <2>2. MovesIn(legal) \subseteq AllMoves(s)
    BY <1>1, <2>1, GameAssumption DEF AllMoves
  <2>3. \A m \in AllMoves(s) \ MovesIn(legal) :
          \E u \in expanded \union Pending : Key(u) = Key(Apply(s, m))
    BY <2>1, SkippedIsNotLost DEF Searching
  <2> QED BY <1>0, <1>2, <2>1, <2>2, <2>3, GoDownStep
<1>5. CASE DeadEnd
  <2>1. /\ Searching /\ legal = <<>> /\ DominanceMove(s) = NoMove
        /\ expanded' = expanded \union {s} /\ Backtrack
    BY <1>5 DEF DeadEnd
  <2>2. MovesIn(legal) = {}
    BY <2>1 DEF MovesIn
  <2>3. ASSUME NEW t \in Successors(s)
        PROVE  \E u \in expanded \union Pending : Key(u) = Key(t)
    <3>1. PICK m \in AllMoves(s) : t = Apply(s, m)
      BY DEF Successors
    <3> QED BY <2>1, <2>2, <3>1, SkippedIsNotLost DEF Searching
  <2>4. ExpandedUnsolved'
    BY <2>1 DEF SearchInv, ExpandedUnsolved, Searching
  <2>5. \A q \in expanded' \ expanded : \A t \in Successors(q) :
          \E u \in expanded \union Pending : Key(u) = Key(t)
    BY <2>1, <2>3
  <2>6. \E u \in expanded' : Key(u) = Key(s)
    BY <2>1
  <2>7. result = "NONE"
    BY <2>1 DEF Searching
  <2> QED BY <1>0, <2>1, <2>4, <2>5, <2>6, <2>7, BacktrackStep
<1>6. CASE Duplicate
  <2>1. /\ result = "NONE" /\ Backtrack /\ expanded' = expanded
        /\ \E u \in expanded : Key(u) = Key(s)
    BY <1>6 DEF Duplicate, Searching
  <2>2. ExpandedUnsolved'
    BY <2>1 DEF SearchInv, ExpandedUnsolved
  <2> QED BY <1>0, <2>1, <2>2, BacktrackStep
<1>7. ASSUME UNCHANGED <<frontier, expanded>>,
             \/ result' \in Stopped
             \/ result' = "SOLVED" /\ Solved(s)
      PROVE  SearchInv'
  <2>0. Shape(frontier)'
    BY <1>0, <1>7, ShapeNext DEF SearchInv
  <2>1. Shape(frontier') /\ ParentsExpanded' /\ ExpandedUnsolved'
    BY <1>7 DEF SearchInv, ParentsExpanded, ExpandedUnsolved
  <2>2. NothingLost'
    <3>1. Pending' = Pending
      BY <1>7 DEF Pending, Current, ChildStates, MovesIn
    <3> QED BY <1>7, <3>1 DEF SearchInv, NothingLost, Successors, AllMoves, MovesIn
  <2>3. SolvedIsShown'
    <3>1. Play(frontier')
      BY <1>7 DEF SearchInv, Shape
    <3>2. Current' = Current
      BY <1>7 DEF Current
    <3> QED BY <1>0, <1>7, <3>1, <3>2 DEF SolvedIsShown, Stopped, Play, AllMoves, MovesIn
  <2> QED BY <1>0, <1>7, <2>0, <2>1, <2>2, <2>3
          DEF SearchInv, RootFirst, Exhausted, Result, Stopped
<1>8. CASE Solve
  BY <1>7, <1>8 DEF Solve
<1>9. CASE Stop
  BY <1>7, <1>9 DEF Stop
<1>10. CASE UNCHANGED vars
  <2>0. Shape(frontier)'
    BY <1>0, <1>10, ShapeNext DEF SearchInv, vars
  <2>1. /\ frontier' = frontier /\ expanded' = expanded /\ result' = result
    BY <1>10 DEF vars
  <2>2. Pending' = Pending /\ Current' = Current
    BY <2>1 DEF Pending, Current, ChildStates, MovesIn
  <2>3. NothingLost'
    BY <2>1, <2>2 DEF SearchInv, NothingLost, Successors, AllMoves, MovesIn
  <2>4. SolvedIsShown'
    BY <1>0, <2>1, <2>2 DEF SearchInv, SolvedIsShown, Play, AllMoves, MovesIn
  <2> QED BY <1>0, <2>0, <2>1, <2>3, <2>4
          DEF SearchInv, ParentsExpanded, ExpandedUnsolved, RootFirst, Exhausted
<1> QED BY <1>3, <1>4, <1>5, <1>6, <1>8, <1>9, <1>10 DEF Next

-----------------------------------------------------------------------------
(* The search keeps its invariant: among others, that the frontier is a    *)
(* play from the deal, that no expanded state is solved, and that nothing  *)
(* is lost (solver_impl::dfs).                                             *)
THEOREM SearchInvariant == Spec => []SearchInv
<1> QED BY InitSearchInv, NextSearchInv, PTL DEF Spec

(* The frontier, the expanded states and the result keep their types       *)
(* (solver_node_t, solver_result).                                         *)
THEOREM TypeCorrect == Spec => []TypeOK
<1>1. SearchInv => TypeOK
  BY DEF SearchInv, Shape, TypeOK
<1> QED BY <1>1, SearchInvariant, PTL

(* No successor of an expanded state is lost, whatever the cache forgot    *)
(* and get_legal_moves skipped (solver_impl::dfs).                         *)
THEOREM SearchLosesNothing == Spec => []NothingLost
<1>1. SearchInv => NothingLost
  BY DEF SearchInv
<1> QED BY <1>1, SearchInvariant, PTL

(* The states whose key was expanded.                                      *)
Covered == {t \in State : \E e \in expanded : Key(e) = Key(t)}

(* A verdict UNSOLVABLE means that no sequence of moves solves the deal    *)
(* (the return from dfs when the states are exhausted).                    *)
THEOREM UnsolvableVerdict == Spec => []UnsolvableIsRight
<1>1. SearchInv => UnsolvableIsRight
  <2> SUFFICES ASSUME SearchInv, result = "UNSOLVABLE", NEW s \in Reachable
               PROVE  ~ Solved(s)
    BY DEF UnsolvableIsRight
  <2>1. expanded \subseteq State /\ init_state \in State
    BY GameAssumption DEF SearchInv
  <2>2. Pending = {init_state}
    <3>1. Len(frontier) = 1 /\ frontier[1].child_moves = <<>> /\ frontier[1].state = init_state
      BY DEF SearchInv, Exhausted, Shape, Play
    <3>2. ChildStates(frontier) = {}
      <4> SUFFICES ASSUME NEW t \in ChildStates(frontier) PROVE FALSE
        OBVIOUS
      <4>1. PICK i \in 1..1 : \E m \in MovesIn(frontier[i].child_moves) :
              t = Apply(frontier[i].state, m)
        BY <3>1, OfChildStates
      <4> QED BY <3>1, <4>1 DEF MovesIn
    <3> QED BY <3>1, <3>2 DEF Pending, Current
  <2>3. init_state \in expanded
    BY DEF SearchInv, Exhausted
  <2>4. ASSUME NEW t \in Covered, NEW u \in Successors(t)
        PROVE  u \in Covered
    <3>1. t \in State
      BY DEF Covered
    <3>2. PICK e \in expanded : Key(e) = Key(t)
      BY DEF Covered
    <3>3. u \in State
      BY <3>1, MoveType DEF Successors
    <3>4. PICK v \in Successors(e) : Key(v) = Key(u)
      BY <2>1, <3>1, <3>2, KeyAssumption
    <3>5. PICK w \in expanded : Key(w) = Key(v)
      BY <2>2, <2>3 DEF SearchInv, NothingLost
    <3> QED BY <3>3, <3>4, <3>5 DEF Covered
  <2>5. Closed(Positions(init_state)) /\ Positions(init_state) \subseteq State
    BY GameAssumption DEF SearchInv
  <2>6. s \in State /\ s \in Covered
    <3> DEFINE C == Covered \intersect Positions(init_state)
    <3>1. C \in SUBSET Positions(init_state) /\ init_state \in C
      BY <2>1, <2>3, GameAssumption DEF Covered, SearchInv
    <3>2. Closed(C)
      BY <2>4, <2>5 DEF Closed
    <3> QED BY <2>5, <3>1, <3>2 DEF Reachable
  <2>7. PICK e \in expanded : Key(e) = Key(s)
    BY <2>6 DEF Covered
  <2>8. Solved(e) = Solved(s)
    BY <2>1, <2>6, <2>7, KeyAssumption
  <2> QED BY <2>7, <2>8 DEF SearchInv, ExpandedUnsolved
<1> QED BY <1>1, SearchInvariant, PTL

(* A verdict SOLVED comes with a play from the deal to a solved state      *)
(* (print_solution replays the frontier).                                  *)
THEOREM SolvedVerdict == Spec => []SolvedIsShown
<1>1. SearchInv => SolvedIsShown
  BY DEF SearchInv
<1> QED BY <1>1, SearchInvariant, PTL
=============================================================================
