---------------------------- MODULE StoresProofs ----------------------------
(***************************************************************************)
(* The 32 bytes of a compact_state do what a store with a field for each   *)
(* value does, for any cards, suits, ranks, pointers and values that fit:  *)
(* a write to half a byte leaves the other half, fields of one kind never  *)
(* share the half, and those of two kinds never share a byte, but for the  *)
(* hole and the foundations, of which a game has one.  The tables that the *)
(* hash is made from hold no number but the final one where it is read.    *)
(* The flat caches keep their promises for any number of buckets, any      *)
(* states, any hash and every policy.  And the multiplicity engine has     *)
(* after any moves what it would have worked out from scratch, for any     *)
(* number of ranks and any board.                                          *)
(***************************************************************************)
EXTENDS CompactState, HashTables, FlatCache, MultiplicityCascade, FiniteSetTheorems,
        SequenceTheorems, WellFoundedInduction, TLAPS

BytesInv == data \in Bytes

(* What is no field of the game is as clear left it.                       *)
Clean(d) ==
  /\ d \in Bytes
  /\ \A c \in (0..51) \ Cards : get_descriptor(d, c) = 0
  /\ rules.hole => d[3] < 64 /\ d[4] = 0
  /\ ~ rules.hole => \A s \in (0..3) \ Suits : get_foundation(d, s) = 0

(* Half a byte is written, the other half stays.                           *)
LEMMA NibbleWritten ==
  ASSUME NEW byte \in Byte, NEW p \in Nat, NEW v \in 0..15
  PROVE  /\ WithNibble(byte, p, v) \in Byte
         /\ \A q \in Nat : q % 2 = p % 2 => Nibble(WithNibble(byte, p, v), q) = v
         /\ \A q \in Nat : q % 2 # p % 2 => Nibble(WithNibble(byte, p, v), q) = Nibble(byte, q)
<1>1. PICK high \in 0..15, low \in 0..15 : byte = 16 * high + low
  <2>1. byte \div 16 \in 0..15 /\ byte % 16 \in 0..15 /\ byte = 16 * (byte \div 16) + (byte % 16)
    BY DEF Byte
  <2> QED
    BY <2>1
<1>2. byte \div 16 = high /\ byte % 16 = low
  BY <1>1
<1>3. \A h, l \in 0..15 : 16 * h + l \in Byte /\ (16 * h + l) \div 16 = h /\ (16 * h + l) % 16 = l
  BY DEF Byte
<1>4. p % 2 \in {0, 1} /\ \A q \in Nat : q % 2 \in {0, 1}
  OBVIOUS
<1>5. CASE p % 2 = 0
  <2>1. WithNibble(byte, p, v) = 16 * high + v
    BY <1>2, <1>5 DEF WithNibble
  <2> QED
    BY <1>2, <1>3, <1>4, <1>5, <2>1 DEF Nibble
<1>6. CASE p % 2 = 1
  <2>1. WithNibble(byte, p, v) = 16 * v + low
    BY <1>2, <1>6 DEF WithNibble
  <2> QED
    BY <1>2, <1>3, <1>4, <1>6, <2>1 DEF Nibble
<1> QED
  BY <1>4, <1>5, <1>6

LEMMA NibbleRead ==
  ASSUME NEW byte \in Byte, NEW p \in Nat, NEW v \in 0..15, NEW q \in Nat
  PROVE  /\ q % 2 = p % 2 => Nibble(WithNibble(byte, p, v), q) = v
         /\ q % 2 # p % 2 => Nibble(WithNibble(byte, p, v), q) = Nibble(byte, q)
<1>1. \A x \in Nat : x % 2 = p % 2 => Nibble(WithNibble(byte, p, v), x) = v
  BY NibbleWritten, ZenonT(30)
<1>2. \A x \in Nat : x % 2 # p % 2 => Nibble(WithNibble(byte, p, v), x) = Nibble(byte, x)
  BY NibbleWritten, ZenonT(30)
<1> QED
  BY <1>1, <1>2

(* Two places in one byte are not both even, or odd.                       *)
LEMMA HalvesDiffer ==
  ASSUME NEW p \in Nat, NEW q \in Nat, p \div 2 = q \div 2, p % 2 = q % 2
  PROVE  p = q
OBVIOUS

LEMMA DescriptorWritten ==
  ASSUME NEW d \in Bytes, NEW c \in 0..51, NEW v \in 0..15
  PROVE  /\ set_descriptor(d, c, v) \in Bytes
         /\ \A x \in 0..51 : get_descriptor(set_descriptor(d, c, v), x) =
                               IF x = c THEN v ELSE get_descriptor(d, x)
         /\ \A i \in 0..5 : set_descriptor(d, c, v)[i] = d[i]
<1> DEFINE e == set_descriptor(d, c, v)
<1>1. \A x \in 0..51 : x \in Nat /\ x \div 2 \in 0..25 /\ 6 + x \div 2 \in Place
  BY DEF Place
<1>2. e = [d EXCEPT ![6 + c \div 2] = WithNibble(d[6 + c \div 2], c, v)]
  BY DEF set_descriptor, Bytes
<1>3. d[6 + c \div 2] \in Byte
  BY <1>1 DEF Bytes
<1>4. /\ e \in Bytes
      /\ \A i \in Place : e[i] = IF i = 6 + c \div 2 THEN WithNibble(d[6 + c \div 2], c, v) ELSE d[i]
  BY <1>1, <1>2, <1>3, NibbleWritten DEF Bytes
<1> HIDE DEF e
<1>5. ASSUME NEW x \in 0..51
      PROVE  get_descriptor(e, x) = IF x = c THEN v ELSE get_descriptor(d, x)
  <2>1. get_descriptor(e, x) = Nibble(e[6 + x \div 2], x)
          /\ get_descriptor(d, x) = Nibble(d[6 + x \div 2], x)
    BY DEF get_descriptor
  <2>2. CASE x \div 2 = c \div 2
    <3>1. e[6 + x \div 2] = WithNibble(d[6 + c \div 2], c, v)
      BY <1>1, <1>4, <2>2
    <3>2. Nibble(e[6 + x \div 2], x) = IF x % 2 = c % 2 THEN v ELSE Nibble(d[6 + c \div 2], x)
      <4>1. c \in Nat /\ x \in Nat
        BY <1>1
      <4> DEFINE b == d[6 + c \div 2]
      <4> HIDE DEF b
      <4>2. b \in Byte
        BY <1>3 DEF b
      <4>3. /\ x % 2 = c % 2 => Nibble(WithNibble(b, c, v), x) = v
            /\ x % 2 # c % 2 => Nibble(WithNibble(b, c, v), x) = Nibble(b, x)
        <5>1. v \in 0..15
          BY <4>1
        <5> QED
          BY ONLY <4>1, <4>2, <5>1, NibbleRead
      <4>4. CASE x % 2 = c % 2
        BY <3>1, <4>3, <4>4, Zenon DEF b
      <4>5. CASE x % 2 # c % 2
        BY <3>1, <4>3, <4>5, Zenon DEF b
      <4> QED
        BY <4>4, <4>5
    <3>3. x % 2 = c % 2 <=> x = c
      BY <1>1, <2>2, HalvesDiffer
    <3> QED
      BY <2>1, <2>2, <3>2, <3>3
  <2>3. CASE x \div 2 # c \div 2
    <3>1. e[6 + x \div 2] = d[6 + x \div 2] /\ x # c
      BY <1>1, <1>4, <2>3
    <3> QED
      BY <2>1, <3>1
  <2> QED
    BY <2>2, <2>3
<1>6. \A i \in 0..5 : e[i] = d[i]
  BY <1>1, <1>4 DEF Place
<1> QED
  BY <1>4, <1>5, <1>6 DEF e

LEMMA FoundationWritten ==
  ASSUME NEW d \in Bytes, NEW s \in 0..3, NEW r \in 0..13
  PROVE  /\ set_foundation(d, s, r) \in Bytes
         /\ \A x \in 0..3 : get_foundation(set_foundation(d, s, r), x) =
                              IF x = s THEN r ELSE get_foundation(d, x)
         /\ \A i \in Place \ {3, 4} : set_foundation(d, s, r)[i] = d[i]
<1> DEFINE e == set_foundation(d, s, r)
<1>1. \A x \in 0..3 : x \in Nat /\ 3 + x \div 2 \in {3, 4}
  OBVIOUS
<1>2. e = [d EXCEPT ![3 + s \div 2] = WithNibble(d[3 + s \div 2], s, r)]
  BY DEF set_foundation, Bytes
<1>3. d[3 + s \div 2] \in Byte
  BY <1>1 DEF Bytes, Place
<1>4. /\ e \in Bytes
      /\ \A i \in Place : e[i] = IF i = 3 + s \div 2 THEN WithNibble(d[3 + s \div 2], s, r) ELSE d[i]
  <2>1. r \in 0..15 /\ s \in Nat /\ 3 + s \div 2 \in Place
    BY <1>1 DEF Place
  <2>2. WithNibble(d[3 + s \div 2], s, r) \in Byte
    BY <1>3, <2>1, NibbleWritten
  <2> QED
    BY <1>2, <2>1, <2>2 DEF Bytes
<1> HIDE DEF e
<1>5. ASSUME NEW x \in 0..3
      PROVE  get_foundation(e, x) = IF x = s THEN r ELSE get_foundation(d, x)
  <2>1. get_foundation(e, x) = Nibble(e[3 + x \div 2], x)
          /\ get_foundation(d, x) = Nibble(d[3 + x \div 2], x)
    BY DEF get_foundation
  <2>2. CASE x \div 2 = s \div 2
    <3>1. e[3 + x \div 2] = WithNibble(d[3 + s \div 2], s, r)
      BY <1>1, <1>4, <2>2 DEF Place
    <3>2. Nibble(e[3 + x \div 2], x) = IF x % 2 = s % 2 THEN r ELSE Nibble(d[3 + s \div 2], x)
      <4>1. s \in Nat /\ x \in Nat /\ r \in 0..15
        BY <1>1
      <4> DEFINE b == d[3 + s \div 2]
      <4> HIDE DEF b
      <4>2. b \in Byte
        BY <1>3 DEF b
      <4>3. /\ x % 2 = s % 2 => Nibble(WithNibble(b, s, r), x) = r
            /\ x % 2 # s % 2 => Nibble(WithNibble(b, s, r), x) = Nibble(b, x)
        <5>1. r \in 0..15
          BY <4>1
        <5> QED
          BY ONLY <4>1, <4>2, <5>1, NibbleRead
      <4>4. CASE x % 2 = s % 2
        BY <3>1, <4>3, <4>4, Zenon DEF b
      <4>5. CASE x % 2 # s % 2
        BY <3>1, <4>3, <4>5, Zenon DEF b
      <4> QED
        BY <4>4, <4>5
    <3>3. x % 2 = s % 2 <=> x = s
      BY <1>1, <2>2, HalvesDiffer
    <3> QED
      BY <2>1, <2>2, <3>2, <3>3
  <2>3. CASE x \div 2 # s \div 2
    <3>1. e[3 + x \div 2] = d[3 + x \div 2] /\ x # s
      BY <1>1, <1>4, <2>3 DEF Place
    <3> QED
      BY <2>1, <3>1
  <2> QED
    BY <2>2, <2>3
<1>6. \A i \in Place \ {3, 4} : e[i] = d[i]
  BY <1>1, <1>4
<1> QED
  BY <1>4, <1>5, <1>6 DEF e

LEMMA HoleTopWritten ==
  ASSUME NEW d \in Bytes, NEW c \in 0..51
  PROVE  /\ set_hole_top(d, c) \in Bytes /\ get_hole_top(set_hole_top(d, c)) = c
         /\ \A i \in Place \ {3} : set_hole_top(d, c)[i] = d[i]
<1>1. d[3] \in Byte /\ 3 \in Place
  BY DEF Bytes, Place
<1>2. \A b \in Byte : 64 * (b \div 64) + c \in Byte /\ (64 * (b \div 64) + c) % 64 = c
  BY DEF Byte
<1>3. set_hole_top(d, c) = [d EXCEPT ![3] = 64 * (d[3] \div 64) + c]
  BY DEF set_hole_top, Bytes
<1> QED
  BY <1>1, <1>2, <1>3 DEF Bytes, get_hole_top

LEMMA WastePtrWritten ==
  ASSUME NEW d \in Bytes, NEW p \in 0..52
  PROVE  /\ set_waste_ptr(d, p) \in Bytes /\ get_waste_ptr(set_waste_ptr(d, p)) = p
         /\ \A i \in Place \ {5} : set_waste_ptr(d, p)[i] = d[i]
<1>1. p \in Byte /\ 5 \in Place /\ set_waste_ptr(d, p) = [d EXCEPT ![5] = p]
  BY DEF Byte, Place, set_waste_ptr
<1> QED
  BY <1>1 DEF Bytes, get_waste_ptr

LEMMA DepthWritten ==
  ASSUME NEW d \in Bytes, NEW depth \in Depths
  PROVE  /\ set_depth(d, depth) \in Bytes /\ get_depth(set_depth(d, depth)) = depth
         /\ \A i \in Place \ {1, 2} : set_depth(d, depth)[i] = d[i]
<1>1. \A n \in Nat : n % 256 \in Byte
  BY DEF Byte
<1>0. depth \in Nat /\ depth <= 65535
  <2>1. UINT16_MAX = 65535
    BY DEF UINT16_MAX
  <2>2. depth \in 0..UINT16_MAX
    BY DepthsAssumption DEF uint16_t
  <2> QED
    BY <2>1, <2>2
<1>2. depth \in Nat /\ depth \div 256 \in Nat
  BY <1>0
<1>3. depth % 256 \in Byte /\ (depth \div 256) % 256 \in Byte
  BY <1>1, <1>2
<1>4. 1 \in Place /\ 2 \in Place
  BY DEF Place
<1>5. (depth % 256) + 256 * ((depth \div 256) % 256) = depth
  <2>2. depth \div 256 \in 0..255 /\ depth = 256 * (depth \div 256) + (depth % 256)
    BY <1>0
  <2>3. \A q \in 0..255 : q % 256 = q
    OBVIOUS
  <2>4. (depth \div 256) % 256 = depth \div 256
    BY <2>2, <2>3
  <2>5. depth % 256 \in Int
    BY <1>0
  <2> QED
    BY <2>2, <2>4, <2>5
<1>6. set_depth(d, depth) \in Bytes /\ \A i \in Place \ {1, 2} : set_depth(d, depth)[i] = d[i]
  BY <1>3, <1>4 DEF set_depth, Bytes
<1>7. /\ set_depth(d, depth)[1] = depth % 256
      /\ set_depth(d, depth)[2] = (depth \div 256) % 256
  BY <1>3, <1>4 DEF set_depth, Bytes
<1> QED
  BY <1>5, <1>6, <1>7 DEF get_depth

(* The card of the hole leaves the bits above it clear.                    *)
LEMMA SmallHoleTop ==
  ASSUME NEW d \in Bytes, NEW c \in 0..51, d[3] < 64
  PROVE  set_hole_top(d, c)[3] < 64
<1>1. d[3] \in 0..63 /\ 3 \in Place
  BY DEF Bytes, Byte, Place
<1>2. 64 * (d[3] \div 64) + c < 64
  BY <1>1
<1>3. set_hole_top(d, c) = [d EXCEPT ![3] = 64 * (d[3] \div 64) + c]
  BY DEF set_hole_top, Bytes
<1> QED
  BY <1>1, <1>2, <1>3 DEF Bytes

(* A field is what its bytes are.                                          *)
LEMMA FieldsApart ==
  ASSUME NEW d \in Bytes, NEW e \in Bytes
  PROVE  /\ (\A i \in 6..31 : e[i] = d[i])
              => \A c \in 0..51 : get_descriptor(e, c) = get_descriptor(d, c)
         /\ (e[3] = d[3] /\ e[4] = d[4])
              => \A s \in 0..3 : get_foundation(e, s) = get_foundation(d, s)
         /\ e[3] = d[3] => get_hole_top(e) = get_hole_top(d)
         /\ e[5] = d[5] => get_waste_ptr(e) = get_waste_ptr(d)
<1>1. \A c \in 0..51 : 6 + c \div 2 \in 6..31 /\ ~ (c >= 52)
  OBVIOUS
<1>2. \A s \in 0..3 : 3 + s \div 2 \in {3, 4} /\ ~ (s >= 4)
  OBVIOUS
<1>3. ASSUME \A i \in 6..31 : e[i] = d[i], NEW c \in 0..51
      PROVE  get_descriptor(e, c) = get_descriptor(d, c)
  <2>1. e[6 + c \div 2] = d[6 + c \div 2]
    BY <1>1, <1>3
  <2> QED
    BY <2>1 DEF get_descriptor
<1>4. ASSUME e[3] = d[3], e[4] = d[4], NEW s \in 0..3
      PROVE  get_foundation(e, s) = get_foundation(d, s)
  <2>1. e[3 + s \div 2] = d[3 + s \div 2]
    BY <1>2, <1>4
  <2> QED
    BY <2>1 DEF get_foundation
<1> QED
  BY <1>3, <1>4 DEF get_hole_top, get_waste_ptr

-----------------------------------------------------------------------------
(* What is no field, or not the one that is written, stays as it is.       *)
LEMMA CardStep ==
  ASSUME BytesInv, NEW c \in Cards, NEW v \in Values, update_card(c, v)
  PROVE  BytesInv' /\ Store!update_card(c, v)
<1>1. c \in 0..51 /\ v \in 0..15 /\ Cards \subseteq 0..51
  BY FieldsAssumption
<1>2. data' = set_descriptor(data, c, v) /\ data \in Bytes /\ rules' = rules
  BY DEF update_card, BytesInv
<1>3. /\ data' \in Bytes
      /\ \A x \in 0..51 : get_descriptor(data', x) =
                            IF x = c THEN v ELSE get_descriptor(data, x)
      /\ data'[3] = data[3] /\ data'[4] = data[4] /\ data'[5] = data[5]
  <2> DEFINE e == set_descriptor(data, c, v)
  <2>1. /\ e \in Bytes
        /\ \A x \in 0..51 : get_descriptor(e, x) = IF x = c THEN v ELSE get_descriptor(data, x)
        /\ \A i \in 0..5 : e[i] = data[i]
    BY <1>1, <1>2, DescriptorWritten, Zenon
  <2> HIDE DEF e
  <2>2. e[3] = data[3] /\ e[4] = data[4] /\ e[5] = data[5]
    BY <2>1
  <2>3. data' = e
    BY <1>2 DEF e
  <2> QED
    BY <2>1, <2>2, <2>3, Zenon
<1>4. Desc' = [Desc EXCEPT ![c] = v]
  BY <1>1, <1>3 DEF Desc
<1>5. Foundations' = Foundations /\ HoleTop' = HoleTop
        /\ get_waste_ptr(data)' = get_waste_ptr(data)
  <2>1. \A s \in Suits : get_foundation(data', s) = get_foundation(data, s)
    BY <1>2, <1>3, FieldsApart, FieldsAssumption
  <2>2. get_hole_top(data') = get_hole_top(data) /\ get_waste_ptr(data') = get_waste_ptr(data)
    BY <1>2, <1>3, FieldsApart
  <2> QED
    BY <1>2, <2>1, <2>2 DEF Foundations, HoleTop
<1>6. Desc[c] = get_descriptor(data, c)
  BY DEF Desc
<1> QED
  BY <1>2, <1>3, <1>4, <1>5, <1>6 DEF update_card, Store!update_card, BytesInv

LEMMA FoundationStep ==
  ASSUME BytesInv, NEW s \in Suits, NEW r \in Ranks, update_foundation(s, r)
  PROVE  BytesInv' /\ Store!update_foundation(s, r)
<1>1. s \in 0..3 /\ r \in 0..13 /\ Suits \subseteq 0..3 /\ Cards \subseteq 0..51
  BY FieldsAssumption
<1>2. data' = set_foundation(data, s, r) /\ data \in Bytes /\ ~ rules.hole /\ rules' = rules
  BY DEF update_foundation, BytesInv
<1>3. /\ data' \in Bytes
      /\ \A x \in 0..3 : get_foundation(data', x) = IF x = s THEN r ELSE get_foundation(data, x)
      /\ \A i \in Place \ {3, 4} : data'[i] = data[i]
  BY <1>1, <1>2, FoundationWritten
<1>4. Foundations' = [Foundations EXCEPT ![s] = r] /\ Foundations[s] = get_foundation(data, s)
  BY <1>1, <1>2, <1>3 DEF Foundations
<1>5. Desc' = Desc /\ HoleTop' = HoleTop /\ get_waste_ptr(data)' = get_waste_ptr(data)
  <2>1. data'[5] = data[5] /\ \A i \in 6..31 : data'[i] = data[i]
    BY <1>3 DEF Place
  <2>2. \A c \in Cards : get_descriptor(data', c) = get_descriptor(data, c)
    BY <1>1, <1>2, <1>3, <2>1, FieldsApart
  <2>3. get_waste_ptr(data') = get_waste_ptr(data)
    BY <1>2, <1>3, <2>1, FieldsApart
  <2> QED
    BY <1>2, <2>2, <2>3 DEF Desc, HoleTop
<1> QED
  BY <1>2, <1>3, <1>4, <1>5 DEF update_foundation, Store!update_foundation, BytesInv

LEMMA WasteStep ==
  ASSUME BytesInv, NEW p \in Pointers, update_waste_ptr(p)
  PROVE  BytesInv' /\ Store!update_waste_ptr(p)
<1>1. p \in 0..52 /\ Suits \subseteq 0..3 /\ Cards \subseteq 0..51
  BY FieldsAssumption
<1>2. data' = set_waste_ptr(data, p) /\ data \in Bytes /\ rules' = rules
  BY DEF update_waste_ptr, BytesInv
<1>3. /\ data' \in Bytes /\ get_waste_ptr(data') = p
      /\ \A i \in Place \ {5} : data'[i] = data[i]
  BY <1>1, <1>2, WastePtrWritten
<1>4. Desc' = Desc /\ Foundations' = Foundations /\ HoleTop' = HoleTop
  <2>1. data'[3] = data[3] /\ data'[4] = data[4] /\ \A i \in 6..31 : data'[i] = data[i]
    BY <1>3 DEF Place
  <2>2. \A c \in Cards : get_descriptor(data', c) = get_descriptor(data, c)
    BY <1>1, <1>2, <1>3, <2>1, FieldsApart
  <2>3. \A s \in Suits : get_foundation(data', s) = get_foundation(data, s)
    BY <1>1, <1>2, <1>3, <2>1, FieldsApart
  <2>4. get_hole_top(data') = get_hole_top(data)
    BY <1>2, <1>3, <2>1, FieldsApart
  <2> QED
    BY <1>2, <2>2, <2>3, <2>4 DEF Desc, Foundations, HoleTop
<1> QED
  BY <1>2, <1>3, <1>4 DEF update_waste_ptr, Store!update_waste_ptr, BytesInv

(* The hole's card has bits of the foundations' first byte.                *)
LEMMA HoleStep ==
  ASSUME BytesInv, NEW c \in Cards, update_hole_top(c)
  PROVE  BytesInv' /\ Store!update_hole_top(c)
<1>1. c \in 0..51 /\ Cards \subseteq 0..51
  BY FieldsAssumption
<1>2. data' = set_hole_top(data, c) /\ data \in Bytes /\ rules.hole /\ rules' = rules
  BY DEF update_hole_top, BytesInv
<1>3. /\ data' \in Bytes /\ get_hole_top(data') = c
      /\ \A i \in Place \ {3} : data'[i] = data[i]
  BY <1>1, <1>2, HoleTopWritten
<1>4. Desc' = Desc /\ get_waste_ptr(data)' = get_waste_ptr(data)
  <2>1. data'[5] = data[5] /\ \A i \in 6..31 : data'[i] = data[i]
    BY <1>3 DEF Place
  <2>2. \A x \in Cards : get_descriptor(data', x) = get_descriptor(data, x)
    BY <1>1, <1>2, <1>3, <2>1, FieldsApart
  <2>3. get_waste_ptr(data') = get_waste_ptr(data)
    BY <1>2, <1>3, <2>1, FieldsApart
  <2> QED
    BY <2>2, <2>3 DEF Desc
<1>5. Foundations' = Foundations /\ HoleTop' = c /\ HoleTop = get_hole_top(data)
  BY <1>2, <1>3 DEF Foundations, HoleTop
<1> QED
  BY <1>2, <1>3, <1>4, <1>5 DEF update_hole_top, Store!update_hole_top, BytesInv

LEMMA DepthStep ==
  ASSUME BytesInv, NEW depth \in Depths, set_payload_depth(depth)
  PROVE  BytesInv' /\ UNCHANGED Store!vars
<1>1. /\ data' = set_depth(data, depth) /\ data \in Bytes
      /\ hash_value' = hash_value /\ rules' = rules
  BY DEF set_payload_depth, BytesInv
<1>2. data' \in Bytes /\ \A i \in Place \ {1, 2} : data'[i] = data[i]
  BY <1>1, DepthWritten
<1>3. /\ data'[3] = data[3] /\ data'[4] = data[4] /\ data'[5] = data[5]
      /\ \A i \in 6..31 : data'[i] = data[i]
  BY <1>2 DEF Place
<1>4. Desc' = Desc /\ Foundations' = Foundations /\ HoleTop' = HoleTop
        /\ get_waste_ptr(data)' = get_waste_ptr(data)
  <2>1. \A c \in Cards : get_descriptor(data', c) = get_descriptor(data, c)
    BY <1>1, <1>2, <1>3, FieldsApart, FieldsAssumption
  <2>2. \A s \in Suits : get_foundation(data', s) = get_foundation(data, s)
    BY <1>1, <1>2, <1>3, FieldsApart, FieldsAssumption
  <2>3. get_hole_top(data') = get_hole_top(data) /\ get_waste_ptr(data') = get_waste_ptr(data)
    BY <1>1, <1>2, <1>3, FieldsApart
  <2> QED
    BY <1>1, <2>1, <2>2, <2>3 DEF Desc, Foundations, HoleTop
<1> QED
  BY <1>1, <1>2, <1>4 DEF BytesInv, Store!vars

-----------------------------------------------------------------------------
LEMMA ClearFields ==
  /\ clear \in Bytes /\ get_hole_top(clear) = 0 /\ get_waste_ptr(clear) = 0
  /\ \A c \in 0..51 : get_descriptor(clear, c) = 0
  /\ \A s \in 0..3 : get_foundation(clear, s) = 0
<1>1. clear \in Bytes /\ \A i \in Place : clear[i] = 0
  BY DEF clear, Bytes, Byte
<1>2. \A p \in Nat : Nibble(0, p) = 0
  BY DEF Nibble
<1>3. \A c \in 0..51 : c \in Nat /\ 6 + c \div 2 \in Place /\ ~ (c >= 52)
  BY DEF Place
<1>4. \A s \in 0..3 : s \in Nat /\ 3 + s \div 2 \in Place /\ ~ (s >= 4)
  BY DEF Place
<1>5. \A c \in 0..51 : get_descriptor(clear, c) = 0
  BY <1>1, <1>2, <1>3 DEF get_descriptor
<1>6. \A s \in 0..3 : get_foundation(clear, s) = 0
  BY <1>1, <1>2, <1>4 DEF get_foundation
<1>7. get_hole_top(clear) = 0 /\ get_waste_ptr(clear) = 0
  BY <1>1 DEF get_hole_top, get_waste_ptr, Place
<1> QED
  BY <1>1, <1>5, <1>6, <1>7

(* The four foundations, written one after the other.                      *)
Headed(tops) ==
  set_foundation(set_foundation(set_foundation(set_foundation(
    clear, 0, tops[0]), 1, tops[1]), 2, tops[2]), 3, tops[3])

LEMMA FoundationsHeaded ==
  ASSUME NEW tops \in [0..3 -> 0..13]
  PROVE  /\ Headed(tops) \in Bytes
         /\ Headed(tops)[1] = 0 /\ Headed(tops)[2] = 0 /\ Headed(tops)[5] = 0
         /\ \A i \in 6..31 : Headed(tops)[i] = clear[i]
         /\ \A s \in 0..3 : get_foundation(Headed(tops), s) = tops[s]
<1> DEFINE e == Headed(tops)
           r0 == tops[0]
           r1 == tops[1]
           r2 == tops[2]
           r3 == tops[3]
<1>1. r0 \in 0..13 /\ r1 \in 0..13 /\ r2 \in 0..13 /\ r3 \in 0..13
  OBVIOUS
<1> DEFINE a == set_foundation(clear, 0, r0)
           b == set_foundation(a, 1, r1)
           f == set_foundation(b, 2, r2)
           g == set_foundation(f, 3, r3)
<1>2. e = g
  BY DEF Headed
<1> HIDE DEF e, r0, r1, r2, r3
<1>3. /\ a \in Bytes
      /\ \A x \in 0..3 : get_foundation(a, x) = IF x = 0 THEN r0 ELSE get_foundation(clear, x)
      /\ \A i \in Place \ {3, 4} : a[i] = clear[i]
  <2>1. 0 \in 0..3 /\ r0 \in 0..13
    BY <1>1
  <2> QED
    BY <2>1, ClearFields, FoundationWritten, Zenon
<1> HIDE DEF a
<1>4. /\ b \in Bytes
      /\ \A x \in 0..3 : get_foundation(b, x) = IF x = 1 THEN r1 ELSE get_foundation(a, x)
      /\ \A i \in Place \ {3, 4} : b[i] = a[i]
  <2>1. 1 \in 0..3 /\ r1 \in 0..13
    BY <1>1
  <2> QED
    BY <1>3, <2>1, FoundationWritten, Zenon
<1> HIDE DEF b
<1>5. /\ f \in Bytes
      /\ \A x \in 0..3 : get_foundation(f, x) = IF x = 2 THEN r2 ELSE get_foundation(b, x)
      /\ \A i \in Place \ {3, 4} : f[i] = b[i]
  <2>1. 2 \in 0..3 /\ r2 \in 0..13
    BY <1>1
  <2> QED
    BY <1>4, <2>1, FoundationWritten, Zenon
<1> HIDE DEF f
<1>6. /\ g \in Bytes
      /\ \A x \in 0..3 : get_foundation(g, x) = IF x = 3 THEN r3 ELSE get_foundation(f, x)
      /\ \A i \in Place \ {3, 4} : g[i] = f[i]
  <2>1. 3 \in 0..3 /\ r3 \in 0..13
    BY <1>1
  <2> QED
    BY <1>5, <2>1, FoundationWritten, Zenon
<1> HIDE DEF g
<1>7. \A i \in Place \ {3, 4} : e[i] = clear[i]
  BY <1>2, <1>3, <1>4, <1>5, <1>6
<1>8. e[1] = 0 /\ e[2] = 0 /\ e[5] = 0 /\ \A i \in 6..31 : e[i] = clear[i]
  BY <1>7 DEF Place, clear
<1>9. \A s \in 0..3 : get_foundation(e, s) = tops[s]
  <2>1. /\ get_foundation(e, 0) = r0 /\ get_foundation(e, 1) = r1
        /\ get_foundation(e, 2) = r2 /\ get_foundation(e, 3) = r3
    BY <1>2, <1>3, <1>4, <1>5, <1>6
  <2>2. \A s \in 0..3 : s \in {0, 1, 2, 3}
    OBVIOUS
  <2> QED
    BY <2>1, <2>2 DEF r0, r1, r2, r3
<1> QED
  BY <1>2, <1>6, <1>8, <1>9 DEF e

LEMMA InitStores == Init => BytesInv /\ Store!Init /\ Clean(data) /\ get_depth(data) = 0
<1> SUFFICES ASSUME Init PROVE BytesInv /\ Store!Init /\ Clean(data) /\ get_depth(data) = 0
  OBVIOUS
<1> DEFINE tops(t) == [s \in 0..3 |-> IF s \in Suits THEN t ELSE 0]
           WithTops(d, t) == set_foundation(set_foundation(set_foundation(set_foundation(
                               d, 0, tops(t)[0]), 1, tops(t)[1]), 2, tops(t)[2]), 3, tops(t)[3])
           headed(t, c) == IF rules.hole THEN set_hole_top(clear, c) ELSE WithTops(clear, t)
<1>0. rules \in Rules
  BY DEF Init
<1>1. PICK t \in Ranks, p \in Pointers, c \in Cards :
        /\ data = IF rules.waste THEN set_waste_ptr(headed(t, c), p) ELSE headed(t, c)
        /\ hash_value = Store!HashOf(rules, Desc, Foundations, get_waste_ptr(data), HoleTop)
  BY DEF Init
<1>2. t \in 0..13 /\ p \in 0..52 /\ c \in 0..51 /\ Suits \subseteq 0..3 /\ Cards \subseteq 0..51
  BY FieldsAssumption
<1> DEFINE h == headed(t, c)
<1>3. /\ h \in Bytes /\ h[1] = 0 /\ h[2] = 0 /\ h[5] = 0 /\ \A i \in 6..31 : h[i] = clear[i]
      /\ rules.hole => get_hole_top(h) = c /\ h[3] < 64 /\ h[4] = 0
      /\ ~ rules.hole => \A s \in Suits : get_foundation(h, s) = t
      /\ ~ rules.hole => \A s \in (0..3) \ Suits : get_foundation(h, s) = 0
  <2>1. CASE rules.hole
    <3>1. h = set_hole_top(clear, c)
      BY <2>1
    <3> HIDE DEF h
    <3>2. h \in Bytes /\ get_hole_top(h) = c /\ \A i \in Place \ {3} : h[i] = clear[i]
      BY <1>2, <3>1, ClearFields, HoleTopWritten
    <3>3. /\ h[1] = 0 /\ h[2] = 0 /\ h[4] = 0 /\ h[5] = 0
          /\ \A i \in 6..31 : h[i] = clear[i]
      BY <3>2 DEF Place, clear
    <3>4. h[3] < 64
      BY <1>2, <3>1, ClearFields, SmallHoleTop DEF clear, Place
    <3> QED
      BY <2>1, <3>2, <3>3, <3>4
  <2>2. CASE ~ rules.hole
    <3>1. h = WithTops(clear, t)
      BY <2>2
    <3> HIDE DEF h
    <3>2. /\ tops(t) \in [0..3 -> 0..13]
          /\ \A s \in Suits : tops(t)[s] = t
          /\ \A s \in (0..3) \ Suits : tops(t)[s] = 0
      BY <1>2
    <3>3. h = Headed(tops(t))
      BY <3>1 DEF Headed
    <3> HIDE DEF tops
    <3>4. /\ h \in Bytes /\ h[1] = 0 /\ h[2] = 0 /\ h[5] = 0 /\ \A i \in 6..31 : h[i] = clear[i]
          /\ \A s \in 0..3 : get_foundation(h, s) = tops(t)[s]
      BY <3>2, <3>3, FoundationsHeaded, Zenon
    <3> QED
      BY <1>2, <2>2, <3>2, <3>4
  <2> QED
    BY <2>1, <2>2
<1>4. data = IF rules.waste THEN set_waste_ptr(h, p) ELSE h
  BY <1>1
<1> HIDE DEF h
<1>5. /\ data \in Bytes /\ get_waste_ptr(data) = IF rules.waste THEN p ELSE 0
      /\ \A i \in Place \ {5} : data[i] = h[i]
  <2>1. CASE rules.waste
    BY <1>2, <1>3, <1>4, <2>1, WastePtrWritten
  <2>2. CASE ~ rules.waste
    BY <1>3, <1>4, <2>2 DEF get_waste_ptr
  <2> QED
    BY <2>1, <2>2
<1>6. /\ data[1] = 0 /\ data[2] = 0 /\ data[3] = h[3] /\ data[4] = h[4]
      /\ \A i \in 6..31 : data[i] = clear[i]
  BY <1>3, <1>5 DEF Place
<1>11. \A x \in 0..51 : get_descriptor(data, x) = 0
  BY <1>5, <1>6, ClearFields, FieldsApart
<1>7. Desc = [x \in Cards |-> 0]
  BY <1>2, <1>11 DEF Desc
<1>12. Clean(data) /\ get_depth(data) = 0
  <2>1. \A s \in 0..3 : get_foundation(data, s) = get_foundation(h, s)
    BY <1>3, <1>5, <1>6, FieldsApart
  <2>2. get_depth(data) = 0
    BY <1>6 DEF get_depth
  <2> QED
    BY <1>3, <1>5, <1>6, <1>11, <2>1, <2>2 DEF Clean
<1>8. Foundations \in [Suits -> IF rules.hole THEN {0} ELSE Ranks]
  <2>1. ~ rules.hole => \A s \in Suits : get_foundation(data, s) = t
    BY <1>2, <1>3, <1>5, <1>6, FieldsApart
  <2> QED
    BY <2>1 DEF Foundations
<1>9. HoleTop \in IF rules.hole THEN Cards ELSE {0}
  BY <1>3, <1>5, <1>6, FieldsApart DEF HoleTop
<1>10. get_waste_ptr(data) \in IF rules.waste THEN Pointers ELSE {0}
  BY <1>5
<1> QED
  BY <1>0, <1>1, <1>5, <1>7, <1>8, <1>9, <1>10, <1>12 DEF BytesInv, Store!Init, Store!STARTING

LEMMA NextStores == BytesInv /\ [Next]_vars => BytesInv' /\ [Store!Next]_Store!vars
<1> SUFFICES ASSUME BytesInv, [Next]_vars PROVE BytesInv' /\ [Store!Next]_Store!vars
  OBVIOUS
<1>1. CASE \E c \in Cards, v \in Values : update_card(c, v)
  BY <1>1, CardStep DEF Store!Next
<1>2. CASE \E s \in Suits, r \in Ranks : update_foundation(s, r)
  BY <1>2, FoundationStep DEF Store!Next
<1>3. CASE \E p \in Pointers : update_waste_ptr(p)
  BY <1>3, WasteStep DEF Store!Next
<1>4. CASE \E c \in Cards : update_hole_top(c)
  BY <1>4, HoleStep DEF Store!Next
<1>5. CASE \E depth \in Depths : set_payload_depth(depth)
  BY <1>5, DepthStep
<1>6. CASE write_slot \/ UNCHANGED vars
  <2>1. data' = data /\ hash_value' = hash_value /\ rules' = rules
    BY <1>6 DEF write_slot, vars
  <2> QED
    BY <2>1 DEF BytesInv, Store!vars, Desc, Foundations, HoleTop
<1> QED
  BY <1>1, <1>2, <1>3, <1>4, <1>5, <1>6 DEF Next

(* The packed engine implements the one with a field for each value:       *)
(* compact_state.h loses nothing of what hash_descriptor_store keeps.      *)
THEOREM BytesImplementStore == Spec => IsHashDescriptorStore
<1>1. Init => BytesInv /\ Store!Init
  BY InitStores
<1>2. BytesInv /\ [Next]_vars => BytesInv'
  BY NextStores
<1>3. BytesInv /\ [Next]_vars => [Store!Next]_Store!vars
  BY NextStores
<1> QED
  BY <1>1, <1>2, <1>3, PTL DEF Spec, IsHashDescriptorStore, Store!Spec

-----------------------------------------------------------------------------
(* The hash of a store: what an update takes out of it is the key of that  *)
(* field alone, and no other field has that key or the one that is put in. *)

CardKeys(cards, ids) == UNION {Store!card_key(c, cards[c]) : c \in ids}
FoundationKeys(tops, suits) == UNION {Store!foundation_key(s, tops[s]) : s \in suits}
HeadKeys(r, tops, top) == IF r.hole THEN Store!hole_top_key(top) ELSE FoundationKeys(tops, Suits)
WasteKeys(r, pointer) == IF r.waste THEN Store!waste_key(pointer) ELSE {}

LEMMA HashIsOfFields ==
  ASSUME NEW r, NEW cards, NEW tops, NEW pointer, NEW top
  PROVE  Store!HashOf(r, cards, tops, pointer, top)
           = (CardKeys(cards, Cards) \union HeadKeys(r, tops, top)) \union WasteKeys(r, pointer)
BY DEF Store!HashOf, CardKeys, HeadKeys, FoundationKeys, WasteKeys

(* A key that was in the hash for one field only gives way to another.     *)
LEMMA RekeyReplaces ==
  ASSUME NEW rest, NEW old, NEW new, rest \intersect old = {}, rest \intersect new = {}
  PROVE  Store!Rekeyed(rest \union old, old, new) = rest \union new
BY DEF Store!Rekeyed, Store!SymDiff

(* The keys of two fields differ, whatever their values.                   *)
LEMMA KeysAreOfOneField ==
  /\ \A c, d, x, e : c # x => Store!card_key(c, d) \intersect Store!card_key(x, e) = {}
  /\ \A s, r, x, e : s # x => Store!foundation_key(s, r) \intersect Store!foundation_key(x, e) = {}
  /\ \A c, d, s, r : Store!card_key(c, d) \intersect Store!foundation_key(s, r) = {}
  /\ \A c, d, p : Store!card_key(c, d) \intersect Store!waste_key(p) = {}
  /\ \A c, d, x : Store!card_key(c, d) \intersect Store!hole_top_key(x) = {}
  /\ \A s, r, p : Store!foundation_key(s, r) \intersect Store!waste_key(p) = {}
  /\ \A p, x : Store!waste_key(p) \intersect Store!hole_top_key(x) = {}
BY DEF Store!card_key, Store!foundation_key, Store!waste_key, Store!hole_top_key

(* The other cards keep their keys when one is described anew.             *)
LEMMA CardKeysSplit ==
  ASSUME NEW c \in Cards
  PROVE  \A cards : CardKeys(cards, Cards) = CardKeys(cards, Cards \ {c}) \union Store!card_key(c, cards[c])
BY DEF CardKeys

LEMMA CardKeysKept ==
  ASSUME NEW c \in Cards
  PROVE  \A cards, after : (\A x \in Cards \ {c} : after[x] = cards[x]) =>
           CardKeys(after, Cards \ {c}) = CardKeys(cards, Cards \ {c})
BY DEF CardKeys

LEMMA FoundationKeysSplit ==
  ASSUME NEW s \in Suits
  PROVE  \A tops : FoundationKeys(tops, Suits)
                      = FoundationKeys(tops, Suits \ {s}) \union Store!foundation_key(s, tops[s])
BY DEF FoundationKeys

LEMMA FoundationKeysKept ==
  ASSUME NEW s \in Suits
  PROVE  \A tops, after : (\A x \in Suits \ {s} : after[x] = tops[x]) =>
           FoundationKeys(after, Suits \ {s}) = FoundationKeys(tops, Suits \ {s})
BY DEF FoundationKeys

LEMMA StepStore == Store!HashIsRecomputed /\ Store!Next => Store!HashIsRecomputed'
<1> SUFFICES ASSUME Store!HashIsRecomputed, Store!Next PROVE Store!HashIsRecomputed'
  OBVIOUS
<1> DEFINE H == (CardKeys(Desc, Cards) \union HeadKeys(rules, Foundations, HoleTop))
                  \union WasteKeys(rules, get_waste_ptr(data))
<1>1. DOMAIN Desc = Cards /\ DOMAIN Foundations = Suits /\ hash_value = H
  BY HashIsOfFields DEF Store!HashIsRecomputed, Desc, Foundations
<1>2. Store!HashOf(rules, Desc, Foundations, get_waste_ptr(data), HoleTop)'
        = (CardKeys(Desc', Cards) \union HeadKeys(rules', Foundations', HoleTop'))
            \union WasteKeys(rules', get_waste_ptr(data)')
  BY HashIsOfFields
<1>3. ASSUME NEW c \in Cards, NEW d \in Values, Store!update_card(c, d) PROVE Store!HashIsRecomputed'
  <2> DEFINE rest == (CardKeys(Desc, Cards \ {c}) \union HeadKeys(rules, Foundations, HoleTop))
                       \union WasteKeys(rules, get_waste_ptr(data))
  <2>1. /\ Desc' = [Desc EXCEPT ![c] = d]
        /\ UNCHANGED <<rules, Foundations, get_waste_ptr(data), HoleTop>>
        /\ hash_value' = Store!Rekeyed(hash_value, Store!card_key(c, Desc[c]), Store!card_key(c, d))
    BY <1>3 DEF Store!update_card
  <2>2. \A e : rest \intersect Store!card_key(c, e) = {}
    <3>1. \A e : CardKeys(Desc, Cards \ {c}) \intersect Store!card_key(c, e) = {}
      BY KeysAreOfOneField DEF CardKeys
    <3>2. \A e : HeadKeys(rules, Foundations, HoleTop) \intersect Store!card_key(c, e) = {}
      BY KeysAreOfOneField DEF HeadKeys, FoundationKeys
    <3>3. \A e : WasteKeys(rules, get_waste_ptr(data)) \intersect Store!card_key(c, e) = {}
      BY KeysAreOfOneField DEF WasteKeys
    <3> QED
      BY <3>1, <3>2, <3>3
  <2>3. hash_value = rest \union Store!card_key(c, Desc[c])
    BY <1>1, CardKeysSplit
  <2> HIDE DEF rest
  <2>4. hash_value' = rest \union Store!card_key(c, d)
    BY <2>1, <2>2, <2>3, RekeyReplaces
  <2>5. CardKeys(Desc', Cards) = CardKeys(Desc, Cards \ {c}) \union Store!card_key(c, d)
    <3>1. Desc'[c] = d /\ \A x \in Cards \ {c} : Desc'[x] = Desc[x]
      BY <1>1, <2>1
    <3> QED
      BY <3>1, CardKeysSplit, CardKeysKept
  <2>6. hash_value' = (CardKeys(Desc', Cards) \union HeadKeys(rules', Foundations', HoleTop'))
                        \union WasteKeys(rules', get_waste_ptr(data)')
    BY <2>1, <2>4, <2>5 DEF rest
  <2> QED
    BY <1>2, <2>6 DEF Store!HashIsRecomputed
<1>4. ASSUME NEW s \in Suits, NEW r \in Ranks, Store!update_foundation(s, r) PROVE Store!HashIsRecomputed'
  <2> DEFINE rest == (CardKeys(Desc, Cards) \union FoundationKeys(Foundations, Suits \ {s}))
                       \union WasteKeys(rules, get_waste_ptr(data))
  <2>1. /\ Foundations' = [Foundations EXCEPT ![s] = r]
        /\ UNCHANGED <<rules, Desc, get_waste_ptr(data), HoleTop>>
        /\ hash_value' = Store!Rekeyed(hash_value, Store!foundation_key(s, Foundations[s]), Store!foundation_key(s, r))
        /\ ~ rules.hole
    BY <1>4 DEF Store!update_foundation
  <2>2. \A e : rest \intersect Store!foundation_key(s, e) = {}
    <3>1. \A e : CardKeys(Desc, Cards) \intersect Store!foundation_key(s, e) = {}
      BY KeysAreOfOneField DEF CardKeys
    <3>2. \A e : FoundationKeys(Foundations, Suits \ {s}) \intersect Store!foundation_key(s, e) = {}
      BY KeysAreOfOneField DEF FoundationKeys
    <3>3. \A e : WasteKeys(rules, get_waste_ptr(data)) \intersect Store!foundation_key(s, e) = {}
      BY KeysAreOfOneField DEF WasteKeys
    <3> QED
      BY <3>1, <3>2, <3>3
  <2>3. hash_value = rest \union Store!foundation_key(s, Foundations[s])
    BY <1>1, <2>1, FoundationKeysSplit DEF HeadKeys
  <2> HIDE DEF rest
  <2>4. hash_value' = rest \union Store!foundation_key(s, r)
    BY <2>1, <2>2, <2>3, RekeyReplaces
  <2>5. FoundationKeys(Foundations', Suits)
          = FoundationKeys(Foundations, Suits \ {s}) \union Store!foundation_key(s, r)
    <3>1. Foundations'[s] = r /\ \A x \in Suits \ {s} : Foundations'[x] = Foundations[x]
      BY <1>1, <2>1
    <3> QED
      BY <3>1, FoundationKeysSplit, FoundationKeysKept
  <2>6. hash_value' = (CardKeys(Desc', Cards) \union HeadKeys(rules', Foundations', HoleTop'))
                        \union WasteKeys(rules', get_waste_ptr(data)')
    BY <2>1, <2>4, <2>5 DEF rest, HeadKeys
  <2> QED
    BY <1>2, <2>6 DEF Store!HashIsRecomputed
<1>5. ASSUME NEW p \in Pointers, Store!update_waste_ptr(p) PROVE Store!HashIsRecomputed'
  <2> DEFINE rest == CardKeys(Desc, Cards) \union HeadKeys(rules, Foundations, HoleTop)
  <2>1. /\ get_waste_ptr(data)' = p /\ UNCHANGED <<rules, Desc, Foundations, HoleTop>>
        /\ hash_value' = Store!Rekeyed(hash_value, Store!waste_key(get_waste_ptr(data)), Store!waste_key(p))
        /\ rules.waste
    BY <1>5 DEF Store!update_waste_ptr
  <2>2. \A e : rest \intersect Store!waste_key(e) = {}
    BY KeysAreOfOneField DEF CardKeys, HeadKeys, FoundationKeys
  <2>3. hash_value = rest \union Store!waste_key(get_waste_ptr(data))
    BY <1>1, <2>1 DEF WasteKeys
  <2> HIDE DEF rest
  <2>4. hash_value' = rest \union Store!waste_key(p)
    BY <2>1, <2>2, <2>3, RekeyReplaces
  <2>5. hash_value' = (CardKeys(Desc', Cards) \union HeadKeys(rules', Foundations', HoleTop'))
                        \union WasteKeys(rules', get_waste_ptr(data)')
    BY <2>1, <2>4 DEF rest, WasteKeys
  <2> QED
    BY <1>2, <2>5 DEF Store!HashIsRecomputed
<1>6. ASSUME NEW c \in Cards, Store!update_hole_top(c) PROVE Store!HashIsRecomputed'
  <2> DEFINE rest == CardKeys(Desc, Cards) \union WasteKeys(rules, get_waste_ptr(data))
  <2>1. /\ HoleTop' = c /\ UNCHANGED <<rules, Desc, Foundations, get_waste_ptr(data)>>
        /\ hash_value' = Store!Rekeyed(hash_value, Store!hole_top_key(HoleTop), Store!hole_top_key(c))
        /\ rules.hole
    BY <1>6 DEF Store!update_hole_top
  <2>2. \A e : rest \intersect Store!hole_top_key(e) = {}
    BY KeysAreOfOneField DEF CardKeys, WasteKeys
  <2>3. hash_value = rest \union Store!hole_top_key(HoleTop)
    BY <1>1, <2>1 DEF HeadKeys
  <2> HIDE DEF rest
  <2>4. hash_value' = rest \union Store!hole_top_key(c)
    BY <2>1, <2>2, <2>3, RekeyReplaces
  <2>5. hash_value' = (CardKeys(Desc', Cards) \union HeadKeys(rules', Foundations', HoleTop'))
                        \union WasteKeys(rules', get_waste_ptr(data)')
    BY <2>1, <2>4 DEF rest, HeadKeys
  <2> QED
    BY <1>2, <2>5 DEF Store!HashIsRecomputed
<1> QED
  BY <1>3, <1>4, <1>5, <1>6 DEF Store!Next

(* However many cards, suits, ranks and values there are, the hash that is *)
(* kept by exclusive or is always the one that would be computed anew.     *)
THEOREM HashesAreRecomputed == Store!Spec => []Store!HashIsRecomputed
<1>1. Store!Init => Store!HashIsRecomputed
  BY DEF Store!Init, Store!HashIsRecomputed
<1>2. Store!HashIsRecomputed /\ UNCHANGED Store!vars => Store!HashIsRecomputed'
  BY DEF Store!vars, Store!HashIsRecomputed
<1> QED
  BY <1>1, <1>2, StepStore, PTL DEF Store!Spec

-----------------------------------------------------------------------------
(* A slot of the cache.                                                    *)

FieldsOf(d) ==
  <<[c \in Cards |-> get_descriptor(d, c)],
    [s \in Suits |-> IF rules.hole THEN 0 ELSE get_foundation(d, s)],
    get_waste_ptr(d),
    IF rules.hole THEN get_hole_top(d) ELSE 0>>

SlotInv ==
  /\ Clean(data) /\ get_depth(data) \in Depths
  /\ Clean(slot) /\ is_occupied(slot)
  /\ written = [fields |-> FieldsOf(slot), depth |-> get_depth(slot)]

(* A byte is its two halves.                                               *)
LEMMA ByteOfNibbles ==
  ASSUME NEW a \in Byte, NEW b \in Byte, NEW p \in Nat, p % 2 = 0,
         Nibble(a, p) = Nibble(b, p), Nibble(a, p + 1) = Nibble(b, p + 1)
  PROVE  a = b
<1>1. (p + 1) % 2 # 0
  OBVIOUS
<1>2. a % 16 = b % 16 /\ a \div 16 = b \div 16
  BY <1>1 DEF Nibble
<1>3. a = 16 * (a \div 16) + (a % 16) /\ b = 16 * (b \div 16) + (b % 16)
  BY DEF Byte
<1> QED
  BY <1>2, <1>3

(* Payloads with the same fields are the same: there is nothing between    *)
(* the fields that tells them apart.                                       *)
LEMMA FieldsAreAll ==
  ASSUME NEW d, NEW e, Clean(d), Clean(e), FieldsOf(d) = FieldsOf(e)
  PROVE  matches(d, e)
<1>1. d \in Bytes /\ e \in Bytes /\ \A i \in Place : d[i] \in Byte /\ e[i] \in Byte
  BY DEF Clean, Bytes
<1>2. ASSUME NEW i \in 6..31 PROVE d[i] = e[i]
  <2> DEFINE p == 2 * (i - 6)
  <2>1. /\ p \in 0..51 /\ p + 1 \in 0..51 /\ p \in Nat /\ p % 2 = 0
        /\ 6 + p \div 2 = i /\ 6 + (p + 1) \div 2 = i /\ i \in Place
    BY DEF Place
  <2> HIDE DEF p
  <2>2. \A c \in 0..51 : get_descriptor(d, c) = get_descriptor(e, c)
    <3>1. ASSUME NEW c \in Cards PROVE get_descriptor(d, c) = get_descriptor(e, c)
      <4>1. [x \in Cards |-> get_descriptor(d, x)] = [x \in Cards |-> get_descriptor(e, x)]
        BY DEF FieldsOf
      <4>2. [x \in Cards |-> get_descriptor(d, x)][c] = [x \in Cards |-> get_descriptor(e, x)][c]
        BY <4>1, Zenon
      <4> QED
        BY <4>2
    <3> QED
      BY <3>1 DEF Clean
  <2>3. ~ (p >= 52) /\ ~ (p + 1 >= 52)
    BY <2>1
  <2>4. Nibble(d[i], p) = Nibble(e[i], p) /\ Nibble(d[i], p + 1) = Nibble(e[i], p + 1)
    BY <2>1, <2>2, <2>3 DEF get_descriptor
  <2> QED
    BY <1>1, <2>1, <2>4, ByteOfNibbles
<1>3. d[5] = e[5]
  BY DEF FieldsOf, get_waste_ptr
<1>4. d[3] = e[3] /\ d[4] = e[4]
  <2>1. CASE rules.hole
    <3>1. get_hole_top(d) = get_hole_top(e) /\ d[4] = 0 /\ e[4] = 0
      BY <2>1 DEF FieldsOf, Clean
    <3>2. d[3] \in 0..63 /\ e[3] \in 0..63
      <4>1. d[3] \in Byte /\ e[3] \in Byte
        BY <1>1 DEF Place
      <4>2. d[3] < 64 /\ e[3] < 64
        BY <2>1 DEF Clean
      <4> QED BY ONLY <4>1, <4>2 DEF Byte
    <3>3. d[3] % 64 = d[3] /\ e[3] % 64 = e[3]
      BY <3>2
    <3> QED
      BY <3>1, <3>3 DEF get_hole_top
  <2>2. CASE ~ rules.hole
    <3>1. ASSUME NEW s \in 0..3 PROVE get_foundation(d, s) = get_foundation(e, s)
      <4>1. CASE s \in Suits
        <5>1. [x \in Suits |-> IF rules.hole THEN 0 ELSE get_foundation(d, x)]
                = [x \in Suits |-> IF rules.hole THEN 0 ELSE get_foundation(e, x)]
          BY DEF FieldsOf
        <5>2. [x \in Suits |-> IF rules.hole THEN 0 ELSE get_foundation(d, x)][s]
                = [x \in Suits |-> IF rules.hole THEN 0 ELSE get_foundation(e, x)][s]
          BY <5>1, Zenon
        <5> QED
          BY <2>2, <4>1, <5>2
      <4>2. CASE s \notin Suits
        BY <2>2, <4>2 DEF Clean
      <4> QED
        BY <4>1, <4>2
    <3>2. ASSUME NEW i \in {3, 4} PROVE d[i] = e[i]
      <4> DEFINE p == 2 * (i - 3)
      <4>1. /\ p \in 0..3 /\ p + 1 \in 0..3 /\ p \in Nat /\ p % 2 = 0
            /\ 3 + p \div 2 = i /\ 3 + (p + 1) \div 2 = i /\ i \in Place
        BY DEF Place
      <4> HIDE DEF p
      <4>2. ~ (p >= 4) /\ ~ (p + 1 >= 4)
        BY <4>1
      <4>3. Nibble(d[i], p) = Nibble(e[i], p) /\ Nibble(d[i], p + 1) = Nibble(e[i], p + 1)
        BY <3>1, <4>1, <4>2 DEF get_foundation
      <4> QED
        BY <1>1, <4>1, <4>3, ByteOfNibbles
    <3> QED
      BY <3>2
  <2> QED
    BY <2>1, <2>2
<1>5. \A i \in 3..31 : i \in {3, 4, 5} \/ i \in 6..31
  OBVIOUS
<1> QED
  BY <1>2, <1>3, <1>4, <1>5 DEF matches

LEMMA SameFields ==
  ASSUME NEW d \in Bytes, NEW e \in Bytes, matches(d, e)
  PROVE  FieldsOf(d) = FieldsOf(e)
<1>1. d[3] = e[3] /\ d[4] = e[4] /\ d[5] = e[5] /\ \A i \in 6..31 : d[i] = e[i]
  BY DEF matches
<1>2. \A c \in Cards : get_descriptor(d, c) = get_descriptor(e, c)
  BY <1>1, FieldsApart, FieldsAssumption
<1>3. \A s \in Suits : get_foundation(d, s) = get_foundation(e, s)
  BY <1>1, FieldsApart, FieldsAssumption
<1>4. get_hole_top(d) = get_hole_top(e) /\ get_waste_ptr(d) = get_waste_ptr(e)
  BY <1>1, FieldsApart
<1> QED
  BY <1>2, <1>3, <1>4 DEF FieldsOf

(* The flag of a slot and its depth are no fields.                         *)
LEMMA HeadOnly ==
  ASSUME NEW d, NEW e \in Bytes, Clean(d), matches(e, d)
  PROVE  Clean(e) /\ FieldsOf(e) = FieldsOf(d)
<1>1. d \in Bytes
  BY DEF Clean
<1>2. e[3] = d[3] /\ e[4] = d[4] /\ e[5] = d[5] /\ \A i \in 6..31 : e[i] = d[i]
  BY DEF matches
<1>3. \A c \in 0..51 : get_descriptor(e, c) = get_descriptor(d, c)
  BY <1>1, <1>2, FieldsApart
<1>4. \A s \in 0..3 : get_foundation(e, s) = get_foundation(d, s)
  BY <1>1, <1>2, FieldsApart
<1> QED
  BY <1>1, <1>2, <1>3, <1>4, SameFields DEF Clean

LEMMA Occupied ==
  ASSUME NEW d, Clean(d)
  PROVE  LET e == set_occupied(d, TRUE)
         IN Clean(e) /\ is_occupied(e) /\ FieldsOf(e) = FieldsOf(d) /\ get_depth(e) = get_depth(d)
<1> DEFINE e == set_occupied(d, TRUE)
<1>1. d \in Bytes /\ 0 \in Place /\ 1 \in Byte
  BY DEF Clean, Place, Byte
<1>2. e \in Bytes /\ e[0] = 1 /\ \A i \in Place \ {0} : e[i] = d[i]
  BY <1>1 DEF set_occupied, Bytes
<1> HIDE DEF e
<1>3. matches(e, d) /\ e[1] = d[1] /\ e[2] = d[2]
  BY <1>2 DEF matches, Place
<1>4. Clean(e) /\ FieldsOf(e) = FieldsOf(d)
  BY <1>2, <1>3, HeadOnly
<1>5. is_occupied(e) /\ get_depth(e) = get_depth(d)
  BY <1>2, <1>3 DEF is_occupied, get_depth
<1> QED
  BY <1>4, <1>5 DEF e

-----------------------------------------------------------------------------
(* No update writes beside its field.                                      *)
LEMMA CleanKept ==
  ASSUME NEW d, Clean(d), FieldsAssumption
  PROVE  /\ \A c \in Cards, v \in Values :
              Clean(set_descriptor(d, c, v)) /\ get_depth(set_descriptor(d, c, v)) = get_depth(d)
         /\ ~ rules.hole => \A s \in Suits, r \in Ranks :
              Clean(set_foundation(d, s, r)) /\ get_depth(set_foundation(d, s, r)) = get_depth(d)
         /\ \A p \in Pointers :
              Clean(set_waste_ptr(d, p)) /\ get_depth(set_waste_ptr(d, p)) = get_depth(d)
         /\ rules.hole => \A c \in Cards :
              Clean(set_hole_top(d, c)) /\ get_depth(set_hole_top(d, c)) = get_depth(d)
<1>0. d \in Bytes
  BY DEF Clean
<1>1. ASSUME NEW c \in Cards, NEW v \in Values
      PROVE  Clean(set_descriptor(d, c, v)) /\ get_depth(set_descriptor(d, c, v)) = get_depth(d)
  <2> DEFINE e == set_descriptor(d, c, v)
  <2>1. c \in 0..51 /\ v \in 0..15
    BY FieldsAssumption
  <2>2. /\ e \in Bytes
        /\ \A x \in 0..51 : get_descriptor(e, x) = IF x = c THEN v ELSE get_descriptor(d, x)
        /\ \A i \in 0..5 : e[i] = d[i]
    BY <1>0, <2>1, DescriptorWritten, Zenon
  <2> HIDE DEF e
  <2>3. e[1] = d[1] /\ e[2] = d[2] /\ e[3] = d[3] /\ e[4] = d[4]
    BY <2>2
  <2>4. \A s \in 0..3 : get_foundation(e, s) = get_foundation(d, s)
    BY <1>0, <2>2, <2>3, FieldsApart
  <2>5. \A x \in (0..51) \ Cards : get_descriptor(e, x) = 0
    BY <2>2 DEF Clean
  <2> QED
    BY <2>2, <2>3, <2>4, <2>5 DEF Clean, get_depth, e
<1>2. ASSUME ~ rules.hole, NEW s \in Suits, NEW r \in Ranks
      PROVE  Clean(set_foundation(d, s, r)) /\ get_depth(set_foundation(d, s, r)) = get_depth(d)
  <2> DEFINE e == set_foundation(d, s, r)
  <2>1. s \in 0..3 /\ r \in 0..13
    BY FieldsAssumption
  <2>2. /\ e \in Bytes
        /\ \A x \in 0..3 : get_foundation(e, x) = IF x = s THEN r ELSE get_foundation(d, x)
        /\ \A i \in Place \ {3, 4} : e[i] = d[i]
    BY <1>0, <2>1, FoundationWritten, Zenon
  <2> HIDE DEF e
  <2>3. e[1] = d[1] /\ e[2] = d[2] /\ \A i \in 6..31 : e[i] = d[i]
    BY <2>2 DEF Place
  <2>4. \A c \in 0..51 : get_descriptor(e, c) = get_descriptor(d, c)
    BY <1>0, <2>2, <2>3, FieldsApart
  <2>5. \A x \in (0..3) \ Suits : get_foundation(e, x) = 0
    BY <1>2, <2>2 DEF Clean
  <2> QED
    BY <1>2, <2>2, <2>3, <2>4, <2>5 DEF Clean, get_depth, e
<1>3. ASSUME NEW p \in Pointers
      PROVE  Clean(set_waste_ptr(d, p)) /\ get_depth(set_waste_ptr(d, p)) = get_depth(d)
  <2> DEFINE e == set_waste_ptr(d, p)
  <2>1. p \in 0..52
    BY FieldsAssumption
  <2>2. e \in Bytes /\ \A i \in Place \ {5} : e[i] = d[i]
    BY <1>0, <2>1, WastePtrWritten, Zenon
  <2> HIDE DEF e
  <2>3. /\ e[1] = d[1] /\ e[2] = d[2] /\ e[3] = d[3] /\ e[4] = d[4]
        /\ \A i \in 6..31 : e[i] = d[i]
    BY <2>2 DEF Place
  <2>4. \A c \in 0..51 : get_descriptor(e, c) = get_descriptor(d, c)
    BY <1>0, <2>2, <2>3, FieldsApart
  <2>5. \A s \in 0..3 : get_foundation(e, s) = get_foundation(d, s)
    BY <1>0, <2>2, <2>3, FieldsApart
  <2> QED
    BY <2>2, <2>3, <2>4, <2>5 DEF Clean, get_depth, e
<1>4. ASSUME rules.hole, NEW c \in Cards
      PROVE  Clean(set_hole_top(d, c)) /\ get_depth(set_hole_top(d, c)) = get_depth(d)
  <2> DEFINE e == set_hole_top(d, c)
  <2>1. c \in 0..51 /\ d[3] < 64
    BY <1>4, FieldsAssumption DEF Clean
  <2>2. e \in Bytes /\ (\A i \in Place \ {3} : e[i] = d[i]) /\ e[3] < 64
    BY <1>0, <2>1, HoleTopWritten, SmallHoleTop, Zenon
  <2> HIDE DEF e
  <2>3. e[1] = d[1] /\ e[2] = d[2] /\ e[4] = d[4] /\ \A i \in 6..31 : e[i] = d[i]
    BY <2>2 DEF Place
  <2>4. \A x \in 0..51 : get_descriptor(e, x) = get_descriptor(d, x)
    BY <1>0, <2>2, <2>3, FieldsApart
  <2> QED
    BY <1>4, <2>2, <2>3, <2>4 DEF Clean, get_depth, e
<1> QED
  BY <1>1, <1>2, <1>3, <1>4

LEMMA InitSlot == Init => SlotInv
<1> SUFFICES ASSUME Init PROVE SlotInv
  OBVIOUS
<1>1. Clean(data) /\ get_depth(data) = 0
  BY InitStores
<1>2. slot = set_occupied(data, TRUE) /\ written = [fields |-> Fields, depth |-> get_depth(data)]
  BY DEF Init
<1>3. Fields = FieldsOf(data)
  BY DEF Fields, FieldsOf, Desc, Foundations, HoleTop
<1> QED
  BY <1>1, <1>2, <1>3, Occupied, DepthsAssumption DEF SlotInv

LEMMA SlotKept ==
  ASSUME SlotInv, UNCHANGED <<rules, slot, written>>, Clean(data'), get_depth(data') \in Depths
  PROVE  SlotInv'
<1>1. \A d : Clean(d)' <=> Clean(d')
  BY DEF Clean, get_descriptor, get_foundation, Nibble
<1> QED
  BY DEF SlotInv, Clean, FieldsOf, is_occupied

LEMMA NextSlot == SlotInv /\ [Next]_vars => SlotInv'
<1> SUFFICES ASSUME SlotInv, [Next]_vars PROVE SlotInv'
  OBVIOUS
<1>0. Clean(data) /\ get_depth(data) \in Depths
  BY DEF SlotInv
<1>1. ASSUME NEW c \in Cards, NEW v \in Values, update_card(c, v) PROVE SlotInv'
  <2>1. data' = set_descriptor(data, c, v) /\ UNCHANGED <<rules, slot, written>>
    BY <1>1 DEF update_card
  <2> QED
    BY <1>0, <2>1, CleanKept, FieldsAssumption, SlotKept
<1>2. ASSUME NEW s \in Suits, NEW r \in Ranks, update_foundation(s, r) PROVE SlotInv'
  <2>1. /\ data' = set_foundation(data, s, r) /\ ~ rules.hole
        /\ UNCHANGED <<rules, slot, written>>
    BY <1>2 DEF update_foundation
  <2> QED
    BY <1>0, <2>1, CleanKept, FieldsAssumption, SlotKept
<1>3. ASSUME NEW p \in Pointers, update_waste_ptr(p) PROVE SlotInv'
  <2>1. data' = set_waste_ptr(data, p) /\ UNCHANGED <<rules, slot, written>>
    BY <1>3 DEF update_waste_ptr
  <2> QED
    BY <1>0, <2>1, CleanKept, FieldsAssumption, SlotKept
<1>4. ASSUME NEW c \in Cards, update_hole_top(c) PROVE SlotInv'
  <2>1. data' = set_hole_top(data, c) /\ rules.hole /\ UNCHANGED <<rules, slot, written>>
    BY <1>4 DEF update_hole_top
  <2> QED
    BY <1>0, <2>1, CleanKept, FieldsAssumption, SlotKept
<1>5. ASSUME NEW depth \in Depths, set_payload_depth(depth) PROVE SlotInv'
  <2> DEFINE e == set_depth(data, depth)
  <2>1. data' = e /\ UNCHANGED <<rules, slot, written>>
    BY <1>5 DEF set_payload_depth
  <2>2. data \in Bytes
    BY <1>0 DEF Clean
  <2>3. e \in Bytes /\ get_depth(e) = depth /\ \A i \in Place \ {1, 2} : e[i] = data[i]
    BY <2>2, DepthWritten
  <2> HIDE DEF e
  <2>4. matches(e, data)
    BY <2>3 DEF matches, Place
  <2>5. Clean(e) /\ get_depth(e) \in Depths
    BY <1>0, <2>3, <2>4, HeadOnly
  <2> QED
    BY <2>1, <2>5, SlotKept
<1>6. CASE write_slot
  <2>1. /\ slot' = set_occupied(data, TRUE) /\ UNCHANGED <<rules, data>>
        /\ written' = [fields |-> Fields, depth |-> get_depth(data)]
    BY <1>6 DEF write_slot
  <2>2. Fields = FieldsOf(data)
    BY DEF Fields, FieldsOf, Desc, Foundations, HoleTop
  <2> DEFINE e == set_occupied(data, TRUE)
  <2>3. Clean(e) /\ is_occupied(e) /\ FieldsOf(e) = FieldsOf(data) /\ get_depth(e) = get_depth(data)
    BY <1>0, Occupied
  <2>4. slot' = e /\ data' = data /\ rules' = rules
    BY <2>1
  <2> HIDE DEF e
  <2>5. written' = [fields |-> FieldsOf(e), depth |-> get_depth(e)]
    BY <2>1, <2>2, <2>3
  <2> QED
    BY <1>0, <2>3, <2>4, <2>5 DEF SlotInv, Clean, FieldsOf, is_occupied
<1>7. CASE UNCHANGED vars
  BY <1>0, <1>7, SlotKept DEF vars
<1> QED
  BY <1>1, <1>2, <1>3, <1>4, <1>5, <1>6, <1>7 DEF Next

(* SlotInv is inductive and says what SlotMatchesItsState needs.           *)
LEMMA SlotIsRight == SlotInv => TypeOK /\ SlotMatchesItsState
<1> SUFFICES ASSUME SlotInv PROVE TypeOK /\ SlotMatchesItsState
  OBVIOUS
<1>1. data \in Bytes /\ slot \in Bytes
  BY DEF SlotInv, Clean
<1>2. Fields = FieldsOf(data)
  BY DEF Fields, FieldsOf, Desc, Foundations, HoleTop
<1>3. matches(slot, data) <=> FieldsOf(slot) = FieldsOf(data)
  BY <1>1, FieldsAreAll, SameFields DEF SlotInv
<1> QED
  BY <1>1, <1>2, <1>3 DEF SlotInv, TypeOK, SlotMatchesItsState

(* However fields are updated and slots are written, a slot matches the    *)
(* payload of just the state it was written for, remembers its own depth,  *)
(* and the hash beside it is that of its fields.                           *)
THEOREM SlotsStayRight == Spec => []SlotsAreRight
<1>1. Init => SlotInv
  BY InitSlot
<1>2. SlotInv /\ [Next]_vars => SlotInv'
  BY NextSlot
<1>3. SlotInv => TypeOK /\ SlotMatchesItsState
  BY SlotIsRight
<1>4. Spec => []Store!HashIsRecomputed
  BY BytesImplementStore, HashesAreRecomputed, PTL DEF IsHashDescriptorStore
<1>5. TypeOK /\ SlotMatchesItsState /\ Store!HashIsRecomputed => SlotsAreRight
  BY DEF SlotsAreRight
<1> QED
  BY <1>1, <1>2, <1>3, <1>4, <1>5, PTL DEF Spec

-----------------------------------------------------------------------------
(* The tables of random numbers.  Any number of threads may fill one at    *)
(* once: TableInv says how far each has come, and that a number is either  *)
(* missing or final.                                                       *)
FinalUpTo(n) == \A c \in Column : c < n => Z[c] = Drawn(c)

TableInv ==
  /\ TablesTypeOK
  /\ \A c \in Column : Z[c] \in {0, Drawn(c)}
  /\ \A t \in Threads : pc[t] = "fill" => rng[t] = next[t] - 1 /\ FinalUpTo(next[t])
  /\ \A t \in Threads : pc[t] = "search" => FinalUpTo(Columns + 1)
  /\ initialized => FinalUpTo(Columns + 1)
  /\ KeysAreFinal

(* At first the table is empty and nobody has read it.                     *)
LEMMA InitTable == TablesInit => TableInv
<1> SUFFICES ASSUME TablesInit PROVE TableInv
  OBVIOUS
<1>1. TablesTypeOK
  <2>1. Columns \in Nat /\ 1 \in 1..(Columns + 1) /\ 0 \in 0..Columns
    BY TableAssumption
  <2>2. {} \in SUBSET (Column \X Nat)
    OBVIOUS
  <2>3. /\ Z \in [Column -> Nat]
        /\ pc \in [Threads -> {"idle", "fill", "search"}]
        /\ next \in [Threads -> 1..(Columns + 1)] /\ rng \in [Threads -> 0..Columns]
    BY <2>1 DEF TablesInit
  <2>4. keys \in [Threads -> SUBSET (Column \X Nat)]
    BY <2>2 DEF TablesInit
  <2> QED
    BY <2>3, <2>4 DEF TablesInit, TablesTypeOK
<1>2. KeysAreFinal
  BY DEF TablesInit, KeysAreFinal
<1> QED
  BY <1>1, <1>2 DEF TablesInit, TableInv

(* A number is only ever replaced by itself.                               *)
LEMMA FillKeepsTable ==
  ASSUME TableInv, NEW t \in Threads, Fill(t) PROVE TableInv'
<1>1. /\ next[t] \in Column /\ rng[t] + 1 = next[t]
      /\ Z' = [Z EXCEPT ![next[t]] = next[t]]
  <2>1. pc[t] = "fill" /\ next[t] \in Nat /\ 1 <= next[t] /\ next[t] <= Columns
    BY TableAssumption DEF Fill, Fills, TableInv, TablesTypeOK
  <2>2. rng[t] = next[t] - 1
    BY <2>1 DEF TableInv
  <2>3. rng[t] + 1 = next[t]
    BY <2>1, <2>2
  <2>4. next[t] \in Column
    BY <2>1, TableAssumption DEF Column
  <2>5. Z' = [Z EXCEPT ![next[t]] = rng[t] + 1]
    BY DEF Fill, Draws, Drawn
  <2> QED
    BY <2>3, <2>4, <2>5
<1>2. TablesTypeOK'
  BY <1>1, TableAssumption DEF Fill, TableInv, TablesTypeOK, Column
<1>3. \A c \in Column : Z'[c] \in {0, Drawn(c)} /\ (Z[c] = Drawn(c) => Z'[c] = Drawn(c))
  BY <1>1 DEF TableInv, TablesTypeOK, Drawn
<1>4. \A u \in Threads : pc'[u] = "fill" => rng'[u] = next'[u] - 1 /\ FinalUpTo(next[u])'
  <2>1. ASSUME NEW u \in Threads, pc'[u] = "fill" PROVE rng'[u] = next'[u] - 1 /\ FinalUpTo(next[u])'
    <3>1. CASE u = t
      <4>1. next'[t] = next[t] + 1 /\ rng'[t] = next'[t] - 1
        BY <1>1 DEF Fill, TableInv, TablesTypeOK, Column
      <4>2. Z'[next[t]] = Drawn(next[t])
        BY <1>1 DEF TableInv, TablesTypeOK, Drawn
      <4>3. ASSUME NEW c \in Column, c < next'[t] PROVE Z'[c] = Drawn(c)
        <5>1. c < next[t] \/ c = next[t]
          BY <4>1, <4>3, <1>1 DEF Column
        <5>2. pc[t] = "fill"
          BY DEF Fill
        <5> QED
          BY <5>1, <5>2, <4>2, <1>3 DEF TableInv, FinalUpTo
      <4> QED
        BY <3>1, <4>1, <4>3 DEF FinalUpTo
    <3>2. CASE u # t
      <4>1. next'[u] = next[u] /\ rng'[u] = rng[u] /\ pc[u] = "fill"
        BY <3>2, <2>1 DEF Fill, TableInv, TablesTypeOK
      <4> QED
        BY <4>1, <1>3 DEF TableInv, FinalUpTo
    <3> QED
      BY <3>1, <3>2
  <2> QED
    BY <2>1
<1>5. \A u \in Threads : pc'[u] = "search" => FinalUpTo(Columns + 1)'
  BY <1>3 DEF Fill, TableInv, FinalUpTo
<1>6. initialized' => FinalUpTo(Columns + 1)'
  BY <1>3 DEF Fill, TableInv, FinalUpTo
<1>7. KeysAreFinal'
  BY DEF Fill, Drawn, TableInv, KeysAreFinal
<1> QED
  BY <1>2, <1>3, <1>4, <1>5, <1>6, <1>7 DEF TableInv

(* The other steps leave the numbers alone.                                *)
LEMMA StepKeepsTable == TableInv /\ [TablesNext]_tables => TableInv'
<1> SUFFICES ASSUME TableInv, [TablesNext]_tables PROVE TableInv'
  OBVIOUS
<1>1. ASSUME NEW t \in Threads, MakeGame(t) PROVE TableInv'
  <2>1. TablesTypeOK'
    BY <1>1, TableAssumption DEF MakeGame, TableInv, TablesTypeOK
  <2>2. \A u \in Threads : pc'[u] = "fill" => rng'[u] = next'[u] - 1 /\ FinalUpTo(next[u])'
    BY <1>1, TableAssumption DEF MakeGame, TableInv, TablesTypeOK, FinalUpTo, Column
  <2>3. \A u \in Threads : pc'[u] = "search" => FinalUpTo(Columns + 1)'
    BY <1>1 DEF MakeGame, TableInv, TablesTypeOK, FinalUpTo
  <2> QED
    BY <1>1, <2>1, <2>2, <2>3 DEF MakeGame, TableInv, FinalUpTo, KeysAreFinal
<1>2. ASSUME NEW t \in Threads, Fill(t) PROVE TableInv'
  BY <1>2, FillKeepsTable
<1>3. ASSUME NEW t \in Threads, SetFlag(t) PROVE TableInv'
  <2>1. FinalUpTo(Columns + 1)
    BY <1>3, TableAssumption DEF SetFlag, Filled, TableInv, TablesTypeOK, FinalUpTo, Column
  <2>2. TablesTypeOK'
    BY <1>3 DEF SetFlag, TableInv, TablesTypeOK
  <2> QED
    BY <1>3, <2>1, <2>2 DEF SetFlag, TableInv, TablesTypeOK, FinalUpTo, KeysAreFinal
<1>4. ASSUME NEW t \in Threads, GetHash(t) PROVE TableInv'
  <2>1. PICK c \in Column : keys' = [keys EXCEPT ![t] = @ \union {<<c, Z[c]>>}]
    BY <1>4 DEF GetHash
  <2>2. Z[c] = Drawn(c)
    BY <1>4, TableAssumption DEF GetHash, TableInv, FinalUpTo, Column
  <2>3. TablesTypeOK'
    BY <1>4, <2>1 DEF GetHash, TableInv, TablesTypeOK
  <2>4. KeysAreFinal'
    BY <2>1, <2>2 DEF TableInv, TablesTypeOK, KeysAreFinal
  <2> QED
    BY <1>4, <2>3, <2>4 DEF GetHash, TableInv, FinalUpTo
<1>5. ASSUME NEW t \in Threads, SearchEnds(t) PROVE TableInv'
  <2>1. TablesTypeOK'
    BY <1>5 DEF SearchEnds, TableInv, TablesTypeOK
  <2> QED
    BY <1>5, <2>1 DEF SearchEnds, TableInv, TablesTypeOK, FinalUpTo, KeysAreFinal
<1>6. CASE UNCHANGED tables
  BY <1>6 DEF tables, TableInv, TablesTypeOK, FinalUpTo, KeysAreFinal
<1> QED
  BY <1>1, <1>2, <1>3, <1>4, <1>5, <1>6 DEF TablesNext

(* For any number of threads and a table of any size, no search ever       *)
(* hashes with a number but the final one.                                 *)
THEOREM KeysFinal == TablesSpec => []KeysAreFinal
<1>1. TableInv => KeysAreFinal
  BY DEF TableInv
<1> QED
  BY InitTable, StepKeepsTable, <1>1, PTL DEF TablesSpec

-----------------------------------------------------------------------------
(* The flat caches.  CacheInv strengthens the properties with where things *)
(* are: a second slot is filled only behind a first, a payload stands in   *)
(* the bucket of a state that was inserted, and every stored pair belongs  *)
(* to a known state.  The policy is a variable that no step changes, so    *)
(* each theorem is about every policy at once.                             *)
SlotType == [occupied : BOOLEAN, payload : {0} \union {PayloadOf(k) : k \in Key},
             depth : Depth]

ClusterType == [slot0 : SlotType, slot1 : SlotType, guard : 0..HashSpace]

(* The second slot is filled only behind a first one.                      *)
FirstSlotFirst ==
  \A i \in Cluster : clusters[i].slot1.occupied => clusters[i].slot0.occupied

Given(S, payload) == \E j \in S : PayloadOf(j) = payload

PayloadsGiven ==
  \A i \in Cluster :
    /\ clusters[i].slot0.occupied => Given(inserted, clusters[i].slot0.payload)
    /\ clusters[i].slot1.occupied => Given(inserted, clusters[i].slot1.payload)

CacheInv ==
  /\ policy \in Policies
  /\ clusters \in [Cluster -> ClusterType]
  /\ occupied_count \in Nat /\ eviction_count \in Nat
  /\ inserted \in SUBSET Key
  /\ stored \in SUBSET (Key \X Depth)
  /\ FirstSlotFirst
  /\ PayloadsGiven
  /\ SlotsDiffer
  /\ ShallowestKept
  /\ SizeIsRight
  /\ NothingForgotten

-----------------------------------------------------------------------------
(* Scaling a value below m down to n buckets stays below n.                *)
LEMMA QuotientBelow ==
  ASSUME NEW a \in Nat, NEW n \in Nat \ {0}, NEW b \in Nat \ {0}, a < b
  PROVE  (a * n) \div b \in 0..(n - 1)
<1> DEFINE q == (a * n) \div b
<1>1. a * n \in Nat /\ b * n \in Nat /\ a * n < b * n
  OBVIOUS
<1>2. q \in Int /\ b * q <= a * n /\ a * n < b * q + b
  BY <1>1
<1> HIDE DEF q
<1>3. q >= 0
  <2> SUFFICES ASSUME q <= -1 PROVE FALSE
    BY <1>2
  <2>1. b * q <= b * (-1)
    BY <1>2
  <2> QED BY <1>1, <1>2, <2>1
<1>4. q < n
  <2> SUFFICES ASSUME q >= n PROVE FALSE
    BY <1>2
  <2>1. b * q >= b * n
    BY <1>2
  <2> QED BY <1>1, <1>2, <2>1
<1>5. q \in 0..(n - 1)
  BY <1>2, <1>3, <1>4
<1> QED BY <1>5 DEF q

(* A hash picks one of the buckets (cluster_index).                        *)
LEMMA IndexInCluster ==
  ASSUME policy \in Policies, NEW k \in Key
  PROVE  ClusterIndex(k) \in Cluster /\ HashOf(k) \in 0..HashSpace
<1>1. Hash(k) \in 0..(HashSpace - 1) /\ HashSpace \in Nat \ {0, 1} /\ MaxEntries \in Nat
  BY CacheAssumption
<1>2. NumClusters \in Nat \ {0}
  BY <1>1 DEF NumClusters
<1>3. HashOf(k) \in Nat /\ HashOf(k) < HashSpace
  BY <1>1 DEF HashOf, Normalised
<1> QED BY <1>1, <1>2, <1>3, QuotientBelow DEF ClusterIndex, Cluster

(* The cache starts with buckets of two free slots.                        *)
LEMMA EmptyType ==
  /\ Empty \in [Cluster -> ClusterType]
  /\ \A i \in Cluster : ~ Empty[i].slot0.occupied /\ ~ Empty[i].slot1.occupied
<1>1. EmptyCluster(0) \in ClusterType
  BY CacheAssumption DEF EmptyCluster, ClusterType, SlotType
<1> QED BY <1>1 DEF Empty, EmptyCluster

(* A state's payload fills a slot (the hash-only cache never stores 0).    *)
LEMMA EntryType ==
  ASSUME policy \in Policies, NEW k \in Key, NEW d \in Depth
  PROVE  /\ Entry(PayloadOf(k), d) \in SlotType
         /\ Entry(PayloadOf(k), d).occupied
         /\ Entry(PayloadOf(k), d).payload = PayloadOf(k)
         /\ Entry(PayloadOf(k), d).depth = d
<1>1. policy = "HASH_ONLY" => PayloadOf(k) # 0
  BY CacheAssumption DEF PayloadOf, HashOf, Normalised
<1> QED BY <1>1 DEF Entry, SlotType

(* What do_replacement makes of a bucket.                                  *)
LEMMA ReplaceBucket ==
  ASSUME NEW cl \in ClusterType, NEW e \in SlotType, e.occupied, NEW h \in 0..HashSpace,
         cl.slot1.occupied => cl.slot0.occupied
  PROVE  /\ Replace(cl, e, h) \in ClusterType
         /\ \/ /\ Replace(cl, e, h).slot0 = e
               /\ ~ cl.slot0.occupied /\ Replace(cl, e, h).slot1 = cl.slot1
            \/ /\ Replace(cl, e, h).slot0 = e
               /\ cl.slot0.occupied /\ Replace(cl, e, h).slot1 = cl.slot0
               /\ e.depth <= cl.slot0.depth
            \/ /\ Replace(cl, e, h).slot0 = cl.slot0
               /\ cl.slot0.occupied /\ Replace(cl, e, h).slot1 = e
               /\ HasHashGuard(policy) => Replace(cl, e, h).guard = h
               /\ DepthPreferred(policy) => cl.slot0.depth <= e.depth
<1>0. HashSpace \in Nat /\ 0 \in 0..HashSpace
  BY CacheAssumption
<1>1. CASE ~ cl.slot0.occupied
  <2>1. Replace(cl, e, h) = [WriteSlot0(cl, e) EXCEPT !.guard = 0]
    BY <1>1 DEF Replace
  <2>2. WriteSlot0(cl, e) \in ClusterType /\ WriteSlot0(cl, e).slot0 = e
        /\ WriteSlot0(cl, e).slot1 = cl.slot1
    BY <1>0 DEF WriteSlot0, ClusterType
  <2> QED BY <1>0, <1>1, <2>1, <2>2 DEF ClusterType
<1>2. CASE cl.slot0.occupied /\ DepthPreferred(policy) /\ e.depth <= cl.slot0.depth
  <2>1. Replace(cl, e, h) = Cascade(cl, e)
    BY <1>2 DEF Replace
  <2>2. [cl EXCEPT !.slot1 = cl.slot0] \in ClusterType
    BY DEF ClusterType
  <2> QED BY <1>0, <1>2, <2>1, <2>2 DEF Cascade, WriteSlot0, ClusterType
<1>3. CASE cl.slot0.occupied /\ ~ (DepthPreferred(policy) /\ e.depth <= cl.slot0.depth)
  <2>1. Replace(cl, e, h) = WriteSlot1(cl, e, h)
    BY <1>3 DEF Replace
  <2>2. cl.slot0.depth \in Nat /\ e.depth \in Nat
    BY CacheAssumption DEF ClusterType, SlotType
  <2>3. WriteSlot1(cl, e, h) \in ClusterType
    BY DEF WriteSlot1, ClusterType
  <2> QED BY <1>3, <2>1, <2>2, <2>3 DEF WriteSlot1, ClusterType
<1> QED BY <1>1, <1>2, <1>3
-----------------------------------------------------------------------------
(* The type of a bucket depends on the policy alone.                       *)
LEMMA SamePolicySameType ==
  ASSUME policy' = policy PROVE ClusterType' = ClusterType
BY DEF ClusterType, SlotType, PayloadOf, HashOf

(* Which slots are used depends on the buckets alone, and of them there    *)
(* are finitely many.                                                      *)
LEMMA SlotsFinite == IsFiniteSet(OccupiedSlots)
<1>1. MaxEntries \in Nat
  BY CacheAssumption
<1>2. NumClusters - 1 \in Int
  BY <1>1 DEF NumClusters
<1>3. IsFiniteSet(Cluster)
  BY <1>2, FS_Interval DEF Cluster
<1>4. IsFiniteSet({0, 1})
  <2>1. IsFiniteSet({0}) /\ {0, 1} = {0} \union {1}
    BY FS_Singleton
  <2> QED BY <2>1, FS_AddElement
<1>5. IsFiniteSet(Cluster \X {0, 1})
  BY <1>3, <1>4, FS_Product
<1> QED BY <1>5, FS_Subset DEF OccupiedSlots

-----------------------------------------------------------------------------
(* The bucket of the state inserted, before and after; the others stay.    *)
LEMMA InsertBucket ==
  ASSUME CacheInv, NEW k \in Key, NEW d \in Depth, Insert(k, d)
  PROVE  LET i == ClusterIndex(k)
             e == Entry(PayloadOf(k), d)
         IN /\ i \in Cluster /\ inserted' = inserted \union {k} /\ policy' = policy
            /\ \/ /\ Contains(k) /\ stored' = stored
                  /\ clusters' = clusters /\ eviction_count' = eviction_count
                  /\ occupied_count' = occupied_count
               \/ /\ ~ Contains(k) /\ stored' = stored \union {<<k, d>>}
                  /\ clusters' = [clusters EXCEPT ![i] = Replace(@, e, HashOf(k))]
                  /\ eviction_count' = IF Evicts(clusters[i])
                                       THEN eviction_count + 1 ELSE eviction_count
                  /\ occupied_count' = IF Evicts(clusters[i])
                                       THEN occupied_count ELSE occupied_count + 1
<1> DEFINE i == ClusterIndex(k)
           r == ClusterInsert(clusters[i], PayloadOf(k), HashOf(k), d)
<1>1. i \in Cluster
  BY IndexInCluster DEF CacheInv
<1>2. /\ policy' = policy
      /\ occupied_count' = occupied_count + r.occupied
      /\ clusters' = [clusters EXCEPT ![i] = r.cluster]
      /\ eviction_count' = eviction_count + r.evicted
      /\ inserted' = inserted \union {k}
      /\ stored' = IF r.new THEN stored \union {<<k, d>>} ELSE stored
  BY DEF Insert
<1>3. CASE Contains(k)
  <2>1. r.cluster = clusters[i] /\ r.evicted = 0 /\ r.occupied = 0 /\ r.new = FALSE
    BY <1>3 DEF Contains, ClusterInsert
  <2> HIDE DEF r
  <2> QED BY <1>1, <1>2, <1>3, <2>1 DEF CacheInv
<1>4. CASE ~ Contains(k)
  <2>1. /\ r.cluster = Replace(clusters[i], Entry(PayloadOf(k), d), HashOf(k))
        /\ r.evicted = (IF Evicts(clusters[i]) THEN 1 ELSE 0) /\ r.new = TRUE
        /\ r.occupied = (IF Evicts(clusters[i]) THEN 0 ELSE 1)
    BY <1>4 DEF Contains, ClusterInsert
  <2> HIDE DEF r
  <2> QED BY <1>1, <1>2, <1>4, <2>1 DEF CacheInv
<1> QED BY <1>3, <1>4

(* insert keeps the invariant, and the state inserted is then cached.      *)
LEMMA InsertKeepsInv ==
  ASSUME CacheInv, NEW k \in Key, NEW d \in Depth, Insert(k, d)
  PROVE  CacheInv' /\ Contains(k)'
<1> DEFINE i == ClusterIndex(k)
           e == Entry(PayloadOf(k), d)
           cl == clusters[i]
<1>1. /\ i \in Cluster /\ HashOf(k) \in 0..HashSpace
      /\ inserted' = inserted \union {k} /\ stored' \in SUBSET (Key \X Depth)
      /\ policy' = policy
  BY IndexInCluster, InsertBucket DEF CacheInv
<1>2. cl \in ClusterType /\ (cl.slot1.occupied => cl.slot0.occupied)
  BY <1>1 DEF CacheInv, FirstSlotFirst
<1>3. occupied_count' \in Nat /\ eviction_count' \in Nat
  <2>1. \A r \in {0, 1} : occupied_count + r \in Nat /\ eviction_count + r \in Nat
    BY DEF CacheInv
  <2> QED BY <2>1 DEF Insert, ClusterInsert
<1>4. \A p : Given(inserted, p) => Given(inserted', p)
  BY <1>1 DEF Given
<1>5. Given(inserted', PayloadOf(k))
  BY <1>1 DEF Given
<1>6. CASE Contains(k)
  <2>1. /\ clusters' = clusters /\ stored' = stored /\ eviction_count' = eviction_count
        /\ occupied_count' = occupied_count
    BY <1>6, InsertBucket
  <2>2. PayloadsGiven' /\ SizeIsRight'
    BY <1>1, <1>4, <1>5, <2>1
       DEF CacheInv, PayloadsGiven, Given, PayloadOf, HashOf, SizeIsRight, OccupiedSlots
  <2>3. NothingForgotten' /\ Contains(k)'
    BY <1>1, <1>6, <2>1
       DEF CacheInv, NothingForgotten, Contains, ClusterIndex, PayloadOf, HashOf, HasHashGuard,
           ClusterContains, Slot1Answers
  <2>4. ShallowestKept'
    BY <1>1, <2>1 DEF CacheInv, ShallowestKept, ClusterIndex, HashOf, DepthPreferred
  <2> QED BY <1>1, <1>3, <2>1, <2>2, <2>3, <2>4, SamePolicySameType
          DEF CacheInv, FirstSlotFirst, SlotsDiffer
<1>7. CASE ~ Contains(k)
  <2> DEFINE new == Replace(cl, e, HashOf(k))
  <2>1. e \in SlotType /\ e.occupied /\ e.payload = PayloadOf(k) /\ e.depth = d
    BY EntryType DEF CacheInv
  <2>2. /\ new \in ClusterType
        /\ \/ new.slot0 = e /\ ~ cl.slot0.occupied /\ new.slot1 = cl.slot1
           \/ /\ new.slot0 = e /\ cl.slot0.occupied /\ new.slot1 = cl.slot0
              /\ e.depth <= cl.slot0.depth
           \/ /\ new.slot0 = cl.slot0 /\ cl.slot0.occupied /\ new.slot1 = e
              /\ HasHashGuard(policy) => new.guard = HashOf(k)
              /\ DepthPreferred(policy) => cl.slot0.depth <= e.depth
    BY <1>1, <1>2, <2>1, ReplaceBucket
  <2>3. /\ clusters' = [clusters EXCEPT ![i] = new]
        /\ stored' = stored \union {<<k, d>>}
        /\ eviction_count' = IF Evicts(cl) THEN eviction_count + 1 ELSE eviction_count
        /\ occupied_count' = IF Evicts(cl) THEN occupied_count ELSE occupied_count + 1
    BY <1>7, InsertBucket
  <2> HIDE DEF new, e
  <2>4. /\ clusters' \in [Cluster -> ClusterType] /\ clusters'[i] = new
        /\ \A j \in Cluster : j # i => clusters'[j] = clusters[j]
    BY <1>1, <2>2, <2>3 DEF CacheInv
  <2> HIDE DEF i
  <2>5. FirstSlotFirst'
    BY <1>2, <2>1, <2>2, <2>4 DEF CacheInv, FirstSlotFirst
  <2>6. PayloadsGiven'
    <3> SUFFICES ASSUME NEW j \in Cluster
                 PROVE  /\ clusters'[j].slot0.occupied => Given(inserted', clusters'[j].slot0.payload)
                        /\ clusters'[j].slot1.occupied => Given(inserted', clusters'[j].slot1.payload)
      BY <1>1 DEF PayloadsGiven, Given, PayloadOf, HashOf
    <3>1. CASE j # i
      BY <1>4, <2>4, <3>1 DEF CacheInv, PayloadsGiven
    <3>2. CASE j = i
      BY <1>1, <1>2, <1>4, <1>5, <2>1, <2>2, <2>4, <3>2 DEF CacheInv, PayloadsGiven
    <3> QED BY <3>1, <3>2
  <2>7. SlotsDiffer'
    <3>1. cl.slot0.occupied => cl.slot0.payload # PayloadOf(k)
      BY <1>7 DEF Contains, ClusterContains, Matches, i
    <3> QED BY <1>1, <1>2, <2>1, <2>2, <2>4, <3>1 DEF CacheInv, SlotsDiffer
  <2>8. ShallowestKept'
    <3> SUFFICES ASSUME DepthPreferred(policy), NEW s \in stored'
                 PROVE  /\ clusters'[ClusterIndex(s[1])].slot0.occupied
                        /\ clusters'[ClusterIndex(s[1])].slot0.depth <= s[2]
      BY <1>1 DEF ShallowestKept, ClusterIndex, HashOf, DepthPreferred
    <3>0. /\ s[1] \in Key /\ s[2] \in Depth /\ ClusterIndex(s[1]) \in Cluster
      BY <1>1, IndexInCluster DEF CacheInv
    <3>1. /\ cl.slot0.depth \in Nat /\ e.depth \in Nat /\ s[2] \in Nat
      BY <1>2, <2>1, <3>0, CacheAssumption DEF ClusterType, SlotType
    <3>2. CASE s \in stored
      <4>1. /\ clusters[ClusterIndex(s[1])].slot0.occupied
            /\ clusters[ClusterIndex(s[1])].slot0.depth <= s[2]
        BY <3>2 DEF CacheInv, ShallowestKept
      <4>2. CASE ClusterIndex(s[1]) = i
        BY <2>1, <2>2, <2>4, <3>1, <4>1, <4>2
      <4>3. CASE ClusterIndex(s[1]) # i
        BY <2>4, <3>0, <4>1, <4>3
      <4> QED BY <4>2, <4>3
    <3>3. CASE s = <<k, d>>
      <4>1. s[1] = k /\ s[2] = d /\ ClusterIndex(s[1]) = i
        BY <3>3 DEF i
      <4> QED BY <2>1, <2>2, <2>4, <3>1, <4>1
    <3> QED BY <2>3, <3>2, <3>3
  <2>9. Contains(k)'
    <3>1. ClusterContains(new, PayloadOf(k), HashOf(k))
      BY <2>1, <2>2 DEF ClusterContains, Matches, Slot1Answers
    <3> QED BY <1>1, <2>4, <3>1
            DEF Contains, i, ClusterIndex, PayloadOf, HashOf, ClusterContains, Slot1Answers, HasHashGuard
  <2>10. NothingForgotten'
    <3> SUFFICES ASSUME ~ HasHashGuard(policy), eviction_count' = 0, NEW j \in inserted'
                 PROVE  ClusterContains(clusters'[ClusterIndex(j)], PayloadOf(j), HashOf(j))
      BY <1>1 DEF NothingForgotten, Contains, ClusterIndex, PayloadOf, HashOf, HasHashGuard,
                  ClusterContains, Slot1Answers
    <3>1. eviction_count = 0 /\ ~ Evicts(cl)
      <4>1. eviction_count + 1 # 0
        BY DEF CacheInv
      <4> QED BY <2>3, <4>1
    <3>2. CASE j = k
      BY <2>1, <2>2, <2>4, <3>2 DEF ClusterContains, Matches, Slot1Answers, i
    <3>3. CASE j \in inserted
      <4>1. ClusterContains(clusters[ClusterIndex(j)], PayloadOf(j), HashOf(j))
        BY <3>1, <3>3 DEF CacheInv, NothingForgotten, Contains
      <4>2. ClusterIndex(j) \in Cluster
        BY <3>3, IndexInCluster DEF CacheInv
      <4>3. CASE ClusterIndex(j) # i
        BY <2>4, <4>1, <4>2, <4>3
      <4>4. CASE ClusterIndex(j) = i
        BY <1>2, <2>2, <2>4, <3>1, <4>1, <4>4
           DEF ClusterContains, Matches, Slot1Answers, Evicts
      <4> QED BY <4>3, <4>4
    <3> QED BY <1>1, <3>2, <3>3
  <2>11. SizeIsRight'
    <3>1. CASE ~ cl.slot0.occupied
      <4>1. ~ Evicts(cl) /\ <<i, 0>> \notin OccupiedSlots
        BY <3>1 DEF Evicts, OccupiedSlots
      <4>2. OccupiedSlots' = OccupiedSlots \union {<<i, 0>>}
        BY <1>1, <1>2, <2>1, <2>2, <2>4, <3>1 DEF OccupiedSlots
      <4> QED BY <2>3, <4>1, <4>2, SlotsFinite, FS_AddElement DEF CacheInv, SizeIsRight
    <3>2. CASE cl.slot0.occupied
      <4>1. Evicts(cl) <=> <<i, 1>> \in OccupiedSlots
        BY <1>1, <3>2 DEF Evicts, OccupiedSlots
      <4>2. OccupiedSlots' = OccupiedSlots \union {<<i, 1>>}
        BY <1>1, <1>2, <2>1, <2>2, <2>4, <3>2 DEF OccupiedSlots
      <4> QED BY <2>3, <4>1, <4>2, SlotsFinite, FS_AddElement DEF CacheInv, SizeIsRight
    <3> QED BY <3>1, <3>2
  <2> QED BY <1>1, <1>3, <2>4, <2>5, <2>6, <2>7, <2>8, <2>9, <2>10, <2>11, SamePolicySameType
          DEF CacheInv
<1> QED BY <1>6, <1>7

-----------------------------------------------------------------------------
(* The flat cache keeps its invariant (generic_flat_cache, all policies).  *)
THEOREM CacheInvariant == CacheSpec => []CacheInv
<1>1. CacheInit => CacheInv
  <2> SUFFICES ASSUME CacheInit PROVE CacheInv
    OBVIOUS
  <2>1. OccupiedSlots = {}
    BY EmptyType DEF CacheInit, OccupiedSlots
  <2> QED BY <2>1, EmptyType, FS_EmptySet
          DEF CacheInit, CacheInv, FirstSlotFirst, PayloadsGiven, SlotsDiffer, ShallowestKept, SizeIsRight,
              NothingForgotten
<1>2. CacheInv /\ [CacheNext]_cache_vars => CacheInv'
  <2> SUFFICES ASSUME CacheInv, [CacheNext]_cache_vars PROVE CacheInv'
    OBVIOUS
  <2>1. ASSUME NEW k \in Key, NEW d \in Depth, Insert(k, d) PROVE CacheInv'
    BY <2>1, InsertKeepsInv
  <2>2. CASE Clear
    <3>1. OccupiedSlots' = {}
      BY <2>2, EmptyType DEF Clear, OccupiedSlots
    <3>2. Cardinality(OccupiedSlots') = 0
      BY <3>1, FS_EmptySet
    <3> QED BY <2>2, <3>2, EmptyType, SamePolicySameType
            DEF Clear, CacheInv, FirstSlotFirst, PayloadsGiven, SlotsDiffer, ShallowestKept,
                SizeIsRight, NothingForgotten
  <2>3. CASE UNCHANGED cache_vars
    <3>1. /\ policy' = policy /\ clusters' = clusters /\ occupied_count' = occupied_count
          /\ eviction_count' = eviction_count /\ inserted' = inserted /\ stored' = stored
      BY <2>3 DEF cache_vars
    <3>2. NothingForgotten'
      BY <3>1 DEF CacheInv, NothingForgotten, Contains, ClusterContains, Slot1Answers, ClusterIndex,
                  PayloadOf, HashOf, HasHashGuard
    <3>3. PayloadsGiven' /\ ShallowestKept'
      BY <3>1 DEF CacheInv, PayloadsGiven, Given, ShallowestKept, DepthPreferred, ClusterIndex,
                  PayloadOf, HashOf
    <3> QED BY <3>1, <3>2, <3>3, SamePolicySameType
            DEF CacheInv, FirstSlotFirst, SlotsDiffer, SizeIsRight, OccupiedSlots
  <2> QED BY <2>1, <2>2, <2>3 DEF CacheNext
<1> QED BY <1>1, <1>2, PTL DEF CacheSpec

(* "Seen before" is said only of a state that was inserted (insert_t,      *)
(* contains_t).                                                            *)
THEOREM NoFalseAnswers == CacheSpec => []NoFalsePositive
<1>1. CacheInv => NoFalsePositive
  <2> SUFFICES ASSUME CacheInv, NEW k \in Key, Contains(k)
               PROVE  \E j \in inserted : PayloadOf(j) = PayloadOf(k)
    BY DEF NoFalsePositive
  <2>1. ClusterIndex(k) \in Cluster
    BY IndexInCluster DEF CacheInv
  <2> QED BY <2>1 DEF CacheInv, PayloadsGiven, Given, Contains, ClusterContains, Matches, Slot1Answers
<1> QED BY <1>1, CacheInvariant, PTL

(* Every slot is what its policy promises: no bucket holds a state twice,  *)
(* the shallowest state of a bucket stays in its first slot and size() is  *)
(* the number of slots in use (do_replacement, insert_t, size).            *)
THEOREM BucketsStayRight == CacheSpec => []BucketsAreRight
<1>1. CacheInv => BucketsAreRight
  BY DEF CacheInv, BucketsAreRight, CacheTypeOK, ClusterType, SlotType, Slot
<1> QED BY <1>1, CacheInvariant, PTL

(* Without a guard nothing is lost while the eviction count is 0 (FLAT and *)
(* HASH_ONLY).                                                             *)
THEOREM EvictionCountIsHonest == CacheSpec => []NothingForgotten
<1>1. CacheInv => NothingForgotten
  BY DEF CacheInv
<1> QED BY <1>1, CacheInvariant, PTL

(* A state just inserted is found, whichever slot it went to (insert_t).   *)
THEOREM InsertedStateIsFound == CacheSpec => InsertedIsFound
<1>1. CacheInv /\ [CacheNext]_cache_vars =>
        [\A k \in Key, d \in Depth : Insert(k, d) => Contains(k)']_cache_vars
  BY InsertKeepsInv
<1> QED BY <1>1, CacheInvariant, PTL DEF CacheSpec, InsertedIsFound

-----------------------------------------------------------------------------
(* The multiplicity engine.                                                *)
Modes == {"none", "colour", "suit irrelevant"}
Descriptor == [on : {{}} \union {{q} : q \in Ids}, kind : Nat, down : BOOLEAN]

(* What lies on what: no card on itself, and no two on one.                *)
Tree(ds) ==
  /\ ds \in [Ids -> Descriptor]
  /\ \A c \in Ids : c \notin ds[c].on
  /\ \A c, x \in Ids : ds[c].on = ds[x].on /\ ds[c].on # {} => c = x

(* Cards lie on cards of the tableau alone.                                *)
Grounded(ds) == \A c \in Ids : \A q \in ds[c].on : InTableau(ds[q])

(* What a list of changes makes of descriptors, and the lists that moves   *)
(* and their undos make: of different cards, and only the first of them is *)
(* laid on another.                                                        *)
After(ds, list) ==
  [c \in Ids |-> IF \E k \in DOMAIN list : list[k].id = c
                 THEN list[CHOOSE k \in DOMAIN list : list[k].id = c].is ELSE ds[c]]

Fits(ds, list) ==
  /\ list \in Seq([id : Ids, is : Descriptor])
  /\ \A j, k \in DOMAIN list : list[j].id = list[k].id => j = k
  /\ \A k \in DOMAIN list : k # 1 => list[k].is.on = ds[list[k].id].on

(* The descriptors that undoing all moves would lead through.              *)
Undone(ds, frame, before) ==
  IF frame.changes = <<>> THEN before = Overridden(ds, frame.all)
  ELSE Fits(ds, frame.changes) /\ before = After(ds, frame.changes)

Chain(D) ==
  /\ D[Len(frames)] = After(descriptors, todo)
  /\ \A k \in 0..Len(frames) : Tree(D[k]) /\ Grounded(D[k])
  /\ \A k \in 1..Len(frames) : Undone(D[k], frames[k], D[k - 1])

Settled(c) ==
  card_slot[c] =
    Reflected(IF IsPredecessor(descriptors[c]) THEN Position(Parent(descriptors[c]))
              ELSE N + descriptors[c].kind, descriptors[c])
Sorted(cls) == \A id \in MembersOf(cls) : canonical_pos[id] = SortedPos(id)
Kept(cls) ==
  class_sum[cls] = ClassSum(card_slot, cls) /\ store[cls] = Stored(card_slot, cls)
Unsettled == dirty \union next_dirty
Touched == {ClassOf(c) : c \in changed}

Frame ==
  [changes : Seq([id : Ids, is : Descriptor]), all : UNION {[S -> Descriptor] : S \in SUBSET Ids}]

EngineTyped ==
  /\ mode \in Modes
  /\ stage \in {"recompute", "sort", "settle", "idle", "update", "cascade"}
  /\ mode = "none" => /\ stage \in {"recompute", "idle", "update"} /\ changed = {}
                      /\ \A c \in Ids : canonical_pos[c] = c
  /\ card_slot \in [Ids -> Int] /\ canonical_pos \in [Ids -> Nat]
  /\ class_sum = [cls \in Classes |-> class_sum[cls]]
  /\ store = [cls \in Classes |-> store[cls]]
  /\ frames \in Seq(Frame)
  /\ dirty \subseteq Classes /\ next_dirty \subseteq Classes
  /\ changed \subseteq Ids /\ waiting \subseteq Ids
  /\ stage = "update" <=> todo # <<>>
  /\ stage # "cascade" => next_dirty = {}
  /\ stage \notin {"update", "cascade"} => dirty = {}
  /\ stage \notin {"settle", "cascade"} => waiting = {}
  /\ stage \in {"idle", "recompute"} => changed = {}

(* From scratch: a round that has changed no slot so far has found those   *)
(* right that it has looked at.                                            *)
SettleInv ==
  /\ stage \in {"sort", "settle"} =>
       \A c \in Ids : ~ IsPredecessor(descriptors[c]) => Settled(c)
  /\ stage = "settle" =>
       /\ \A c \in waiting : IsPredecessor(descriptors[c])
       /\ changed = {} => /\ \A cls \in Classes : Sorted(cls)
                          /\ \A c \in Ids \ waiting : Settled(c)

(* The cascade: what is not right yet lies on a card that is still to be   *)
(* looked at, or on one of a class that is dirty.                          *)
CascadeInv ==
  stage \in {"idle", "update", "cascade"} =>
    /\ children = ChildrenOf(descriptors)
    /\ \A m \in waiting : IsPredecessor(descriptors[children[m]]) /\ children[m] # -1
    /\ Unsettled \subseteq Touched
    /\ \A cls \in Classes \ Unsettled : Sorted(cls)
    /\ \A cls \in Classes \ Touched : Kept(cls)
    /\ \A c \in Ids :
         \/ Settled(c)
         \/ /\ IsPredecessor(descriptors[c])
            /\ \/ Parent(descriptors[c]) \in waiting
               \/ ClassOf(Parent(descriptors[c])) \in Unsettled

GameInv ==
  /\ Tree(descriptors) /\ Fits(descriptors, todo)
  /\ \E D \in [0..Len(frames) -> [Ids -> Descriptor]] : Chain(D)

EngineInv == EngineTyped /\ GameInv /\ SettleInv /\ CascadeInv

LEMMA DeckTyped ==
  /\ DeckRanks \in Nat \ {0} /\ N \in Nat \ {0} /\ N = 4 * DeckRanks
  /\ Ids = 0..N - 1 /\ Ids \subseteq Nat /\ IsFiniteSet(Ids)
<1>1. DeckRanks \in Nat \ {0}
  BY CascadeAssumption
<1>2. N \in Nat \ {0} /\ N = 4 * DeckRanks
  BY <1>1 DEF N
<1>3. Ids = 0..N - 1 /\ Ids \subseteq Nat
  BY <1>2 DEF Ids
<1>4. IsFiniteSet(0..N - 1)
  BY <1>2, FS_Interval
<1> QED BY <1>1, <1>2, <1>3, <1>4

(* Where a card of the deck is among the ranks and the suits.              *)
LEMMA RankAndSuit ==
  ASSUME NEW c \in Ids
  PROVE  \E s \in 0..3 : \E r \in 0..DeckRanks - 1 :
           c = s * DeckRanks + r /\ c % DeckRanks = r /\ c \div DeckRanks = s
<1>1. DeckRanks \in Nat \ {0} /\ c \in 0..4 * DeckRanks - 1
  BY DeckTyped
<1> DEFINE R == DeckRanks
<1>2. CASE c < R
  BY <1>1, <1>2
<1>3. CASE R <= c /\ c < 2 * R
  BY <1>1, <1>3
<1>4. CASE 2 * R <= c /\ c < 3 * R
  BY <1>1, <1>4
<1>5. CASE 3 * R <= c
  BY <1>1, <1>5
<1> QED BY <1>1, <1>2, <1>3, <1>4, <1>5

LEMMA ClassTyped ==
  ASSUME mode \in Modes
  PROVE  /\ ClassSize \in {1, 2, 4}
         /\ \A c \in Ids : ClassOf(c) \in Nat /\ ClassOf(c) \in Classes /\ c \in MembersOf(ClassOf(c))
         /\ Classes \subseteq Nat
         /\ \A cls : MembersOf(cls) \subseteq Ids /\ IsFiniteSet(MembersOf(cls))
         /\ \A cls \in Classes : ClassStart(cls) \in Nat
<1>1. ASSUME NEW c \in Ids
      PROVE  ClassOf(c) \in Nat
  <2>1. PICK s \in 0..3, r \in 0..DeckRanks - 1 : c % DeckRanks = r /\ c \div DeckRanks = s
    BY RankAndSuit
  <2>2. DeckRanks \in Nat \ {0} /\ c \in Nat
    BY DeckTyped
  <2>3. c % DeckRanks \in Nat /\ (c \div DeckRanks) % 2 \in Nat
    BY <2>1, <2>2
  <2>4. ClassOf(c) \in {c, 2 * (c % DeckRanks) + ((c \div DeckRanks) % 2), c % DeckRanks}
    BY DEF ClassOf
  <2>5. 2 * (c % DeckRanks) + ((c \div DeckRanks) % 2) \in Nat
    BY <2>3
  <2> QED BY <2>2, <2>3, <2>4, <2>5
<1>2. ClassSize \in {1, 2, 4}
  BY DEF ClassSize, Modes
<1>3. Classes \subseteq Nat
  BY <1>1 DEF Classes
<1>4. \A cls : MembersOf(cls) \subseteq Ids /\ IsFiniteSet(MembersOf(cls))
  BY DeckTyped, FS_Subset DEF MembersOf
<1>5. \A c \in Ids : ClassOf(c) \in Classes /\ c \in MembersOf(ClassOf(c))
  BY DEF Classes, MembersOf
<1>6. \A cls \in Classes : ClassStart(cls) \in Nat
  BY <1>2, <1>3 DEF ClassStart
<1> QED BY <1>1, <1>2, <1>3, <1>4, <1>5, <1>6

LEMMA CardOf ==
  ASSUME NEW s \in 0..3, NEW r \in 0..DeckRanks - 1
  PROVE  /\ s * DeckRanks + r \in Ids
         /\ (s * DeckRanks + r) % DeckRanks = r /\ (s * DeckRanks + r) \div DeckRanks = s
<1>1. DeckRanks \in Nat \ {0} /\ Ids = 0..4 * DeckRanks - 1
  BY DeckTyped
<1>2. CASE s = 0
  BY <1>1, <1>2
<1>3. CASE s = 1
  BY <1>1, <1>3
<1>4. CASE s = 2
  BY <1>1, <1>4
<1>5. CASE s = 3
  BY <1>1, <1>5
<1> QED BY <1>2, <1>3, <1>4, <1>5

LEMMA Pair ==
  ASSUME NEW a, NEW b, a # b
  PROVE  IsFiniteSet({a, b}) /\ Cardinality({a, b}) = 2
<1>1. IsFiniteSet({a}) /\ Cardinality({a}) = 1
  BY FS_Singleton
<1>2. IsFiniteSet({a} \union {b}) /\ Cardinality({a} \union {b}) = 1 + 1
  BY <1>1, FS_AddElement
<1>3. {a} \union {b} = {a, b}
  OBVIOUS
<1> QED BY <1>2, <1>3

LEMMA Four ==
  ASSUME NEW S, NEW a, NEW b, NEW c, NEW d, S = {a, b, c, d},
         a # b, a # c, a # d, b # c, b # d, c # d
  PROVE  Cardinality(S) = 4
<1>1. IsFiniteSet({a, b}) /\ Cardinality({a, b}) = 2
  BY Pair
<1>2. IsFiniteSet({a, b} \union {c}) /\ Cardinality({a, b} \union {c}) = 2 + 1
  BY <1>1, FS_AddElement
<1>3. Cardinality(({a, b} \union {c}) \union {d}) = 3 + 1
  BY <1>2, FS_AddElement
<1>4. ({a, b} \union {c}) \union {d} = {a, b, c, d}
  OBVIOUS
<1> QED BY <1>3, <1>4

LEMMA ClassCardinality ==
  ASSUME mode \in Modes, NEW cls \in Classes
  PROVE  Cardinality(MembersOf(cls)) = ClassSize
<1> DEFINE R == DeckRanks
<1>1. R \in Nat \ {0}
  BY DeckTyped
<1>2. PICK c \in Ids : cls = ClassOf(c)
  BY DEF Classes
<1>3. CASE mode = "none"
  <2>1. MembersOf(cls) = {cls}
    BY <1>2, <1>3 DEF MembersOf, ClassOf
  <2> QED BY <1>3, <2>1, FS_Singleton DEF ClassSize
<1>4. CASE mode = "suit irrelevant"
  <2>1. \A x \in Ids : ClassOf(x) = x % R
    BY <1>4 DEF ClassOf
  <2>2. PICK r \in 0..R - 1 : cls = r
    BY <1>2, <2>1, RankAndSuit
  <2>3. \A s \in 0..3 : s * R + r \in Ids /\ (s * R + r) % R = r
    BY CardOf
  <2>4. \A s \in 0..3 : s * R + r \in MembersOf(cls)
    BY <2>1, <2>2, <2>3 DEF MembersOf
  <2>5. ASSUME NEW x \in MembersOf(cls)
        PROVE  \E s \in 0..3 : x = s * R + r
    <3>1. x \in Ids /\ x % R = r
      BY <2>1, <2>2 DEF MembersOf
    <3> QED BY <3>1, RankAndSuit
  <2>6. MembersOf(cls) = {0 * R + r, 1 * R + r, 2 * R + r, 3 * R + r}
    <3>1. 0..3 = {0, 1, 2, 3}
      OBVIOUS
    <3> QED BY <2>4, <2>5, <3>1
  <2>7. /\ 0 * R + r # 1 * R + r /\ 0 * R + r # 2 * R + r /\ 0 * R + r # 3 * R + r
        /\ 1 * R + r # 2 * R + r /\ 1 * R + r # 3 * R + r /\ 2 * R + r # 3 * R + r
    BY <1>1
  <2>8. Cardinality(MembersOf(cls)) = 4
    <3> DEFINE A == 0 * R + r
               B == 1 * R + r
               C == 2 * R + r
               D == 3 * R + r
    <3>1. MembersOf(cls) = {A, B, C, D}
      BY <2>6
    <3>2. A # B /\ A # C /\ A # D /\ B # C /\ B # D /\ C # D
      BY <2>7
    <3> HIDE DEF A, B, C, D
    <3> QED BY <3>1, <3>2, Four
  <2> QED BY <1>4, <2>8 DEF ClassSize
<1>5. CASE mode = "colour"
  <2>1. \A x \in Ids : ClassOf(x) = 2 * (x % R) + ((x \div R) % 2)
    BY <1>5 DEF ClassOf
  <2>2. PICK k \in {0, 1}, r \in 0..R - 1 : cls = 2 * r + k
    <3>1. PICK s \in 0..3, r \in 0..R - 1 : c % R = r /\ c \div R = s
      BY RankAndSuit
    <3>2. s % 2 \in {0, 1}
      OBVIOUS
    <3> QED BY <1>2, <2>1, <3>1, <3>2
  <2>3. \A s \in 0..3 : s * R + r \in Ids /\ (s * R + r) % R = r /\ (s * R + r) \div R = s
    BY CardOf
  <2>4. \A s \in 0..3 : s % 2 = k => s * R + r \in MembersOf(cls)
    BY <2>1, <2>2, <2>3 DEF MembersOf
  <2>5. ASSUME NEW x \in MembersOf(cls)
        PROVE  \E s \in 0..3 : s % 2 = k /\ x = s * R + r
    <3>1. x \in Ids /\ 2 * (x % R) + ((x \div R) % 2) = 2 * r + k
      BY <2>1, <2>2 DEF MembersOf
    <3>2. PICK s \in 0..3, y \in 0..R - 1 : x = s * R + y /\ x % R = y /\ x \div R = s
      BY <3>1, RankAndSuit
    <3>3. s % 2 \in {0, 1} /\ 2 * y + (s % 2) = 2 * r + k /\ y \in Nat /\ r \in Nat
      BY <1>1, <3>1, <3>2
    <3>4. y = r /\ s % 2 = k
      BY <3>3
    <3> QED BY <3>2, <3>4
  <2>6. k * R + r \in MembersOf(cls) /\ (k + 2) * R + r \in MembersOf(cls)
    <3>1. k % 2 = k /\ (k + 2) % 2 = k /\ k \in 0..3 /\ k + 2 \in 0..3
      OBVIOUS
    <3> QED BY <2>4, <3>1
  <2>7. MembersOf(cls) = {k * R + r, (k + 2) * R + r}
    <3>1. \A s \in 0..3 : s % 2 = k => s = k \/ s = k + 2
      OBVIOUS
    <3> QED BY <2>5, <2>6, <3>1
  <2>8. k * R + r # (k + 2) * R + r
    BY <1>1, <2>2
  <2>9. Cardinality(MembersOf(cls)) = 2
    BY <2>7, <2>8, Pair
  <2> QED BY <1>5, <2>9 DEF ClassSize
<1> QED BY <1>3, <1>4, <1>5 DEF Modes

-----------------------------------------------------------------------------
(* Classes in order.                                                       *)

LEMMA LessOnNat ==
  IsWellFoundedOn({ss \in Nat \X Nat : ss[1] < ss[2]}, Nat)
  BY NatLessThanWellFounded DEF OpToRel

LEMMA LeastOf ==
  ASSUME NEW T, T \subseteq Nat, T # {}
  PROVE  \E x \in T : \A y \in T : x <= y
<1> DEFINE R == {ss \in Nat \X Nat : ss[1] < ss[2]}
<1>1. IsWellFoundedOn(R, Nat)
  BY LessOnNat
<1> HIDE DEF R
<1>2. PICK x \in T : \A y \in T : ~ (<<y, x>> \in R)
  BY <1>1, WFMin
<1>3. ASSUME NEW y \in T
      PROVE  x <= y
  <2>1. x \in Nat /\ y \in Nat /\ ~ (<<y, x>> \in R)
    BY <1>2
  <2>2. ~ (y < x)
    BY <2>1 DEF R
  <2> QED BY <2>1, <2>2
<1> QED BY <1>3

LEMMA MinOf ==
  ASSUME NEW T, T \subseteq Nat, T # {}
  PROVE  Min(T) \in T
<1>1. \E x \in T : \A y \in T : x <= y
  BY LeastOf
<1> QED BY <1>1 DEF Min

(* Those with a smaller slot, and those before a card in its class.        *)
Smaller(q) == {x \in MembersOf(ClassOf(q)) : card_slot[x] < card_slot[q]}
Earlier(q) == {x \in MembersOf(ClassOf(q)) : Before(x, q)}

LEMMA SmallerTyped ==
  ASSUME mode \in Modes, NEW q \in Ids
  PROVE  /\ IsFiniteSet(Smaller(q)) /\ Cardinality(Smaller(q)) \in Nat
         /\ IsFiniteSet(Earlier(q)) /\ Cardinality(Earlier(q)) \in Nat
         /\ ClassStart(ClassOf(q)) \in Nat
         /\ Position(q) = ClassStart(ClassOf(q)) + Cardinality(Smaller(q))
         /\ SortedPos(q) = ClassStart(ClassOf(q)) + Cardinality(Earlier(q))
<1>1. IsFiniteSet(MembersOf(ClassOf(q))) /\ ClassStart(ClassOf(q)) \in Nat
  BY ClassTyped
<1>2. IsFiniteSet(Smaller(q)) /\ IsFiniteSet(Earlier(q))
  BY <1>1, FS_Subset DEF Smaller, Earlier
<1>3. Cardinality(Smaller(q)) \in Nat /\ Cardinality(Earlier(q)) \in Nat
  BY <1>2, FS_CardinalityType
<1> QED BY <1>1, <1>2, <1>3 DEF Position, SortedPos, Smaller, Earlier

(* In a class in order, the first card with a slot comes after just those  *)
(* with smaller ones.                                                      *)
LEMMA CollapsedIsPosition ==
  ASSUME mode \in Modes, card_slot \in [Ids -> Int], NEW q \in Ids, Sorted(ClassOf(q))
  PROVE  CollapsedPos(q) = Position(q)
<1> DEFINE cls == ClassOf(q)
           like == {m \in MembersOf(cls) : card_slot[m] = card_slot[q]}
<1>1. MembersOf(cls) \subseteq Ids /\ q \in like /\ like \subseteq Nat /\ Ids \subseteq Nat
  BY ClassTyped, DeckTyped
<1>2. PICK m \in like : \A x \in like : m <= x
  BY <1>1, LeastOf
<1>3. ASSUME NEW x \in like
      PROVE  /\ x \in Ids /\ ClassOf(x) = cls /\ card_slot[x] = card_slot[q]
             /\ canonical_pos[x] = ClassStart(cls) + Cardinality(Earlier(x))
             /\ Smaller(q) \subseteq Earlier(x)
  <2>1. x \in Ids /\ ClassOf(x) = cls /\ card_slot[x] = card_slot[q] /\ x \in MembersOf(cls)
    BY <1>1 DEF MembersOf
  <2>2. canonical_pos[x] = SortedPos(x)
    BY <2>1 DEF Sorted
  <2>3. Smaller(q) \subseteq Earlier(x)
    BY <2>1 DEF Smaller, Earlier, Before
  <2> QED BY <2>1, <2>2, <2>3, SmallerTyped
<1>4. Earlier(m) = Smaller(q)
  <2>1. ASSUME NEW x \in Earlier(m)
        PROVE  x \in Smaller(q)
    <3>1. x \in MembersOf(cls) /\ x \in Ids /\ Before(x, m)
      BY <1>1, <1>3 DEF Earlier
    <3>2. card_slot[m] = card_slot[q] /\ m \in Nat /\ x \in Nat
      BY <1>1, <1>2, <3>1
    <3>3. ~ (card_slot[x] = card_slot[m] /\ x < m)
      BY <1>2, <3>1, <3>2
    <3> QED BY <3>1, <3>2, <3>3 DEF Before, Smaller
  <2> QED BY <1>2, <1>3, <2>1
<1>5. canonical_pos[m] = Position(q)
  BY <1>2, <1>3, <1>4, SmallerTyped
<1>6. ASSUME NEW x \in like
      PROVE  canonical_pos[m] <= canonical_pos[x] /\ canonical_pos[x] \in Nat
  <2>1. Smaller(q) \subseteq Earlier(x) /\ IsFiniteSet(Earlier(x)) /\ x \in Ids
    BY <1>3, SmallerTyped
  <2>2. Cardinality(Smaller(q)) <= Cardinality(Earlier(x))
    BY <2>1, FS_Subset
  <2>3. canonical_pos[x] = ClassStart(cls) + Cardinality(Earlier(x))
    BY <1>3
  <2>4. canonical_pos[m] = ClassStart(cls) + Cardinality(Smaller(q))
    BY <1>5, SmallerTyped
  <2>5. Cardinality(Smaller(q)) \in Nat /\ Cardinality(Earlier(x)) \in Nat /\ ClassStart(cls) \in Nat
    BY <2>1, SmallerTyped
  <2> QED BY <2>2, <2>3, <2>4, <2>5
<1> DEFINE f == FirstOf(like)
<1>7. f \in like /\ \A x \in like : canonical_pos[f] <= canonical_pos[x]
  BY <1>2, <1>6 DEF FirstOf
<1> HIDE DEF f
<1>8. canonical_pos[f] = canonical_pos[m]
  <2>1. canonical_pos[f] <= canonical_pos[m] /\ canonical_pos[m] <= canonical_pos[f]
    BY <1>2, <1>6, <1>7
  <2>2. canonical_pos[f] \in Nat /\ canonical_pos[m] \in Nat
    BY <1>2, <1>6, <1>7
  <2> QED BY <2>1, <2>2
<1> QED BY <1>5, <1>8 DEF CollapsedPos, f

(* Of two cards of a class one is before the other, and what is before a   *)
(* card is before those that come after it.                                *)
LEMMA InOrder ==
  ASSUME mode \in Modes, card_slot \in [Ids -> Int], NEW x \in Ids, NEW y \in Ids,
         ClassOf(x) = ClassOf(y), x # y
  PROVE  /\ Before(x, y) \/ Before(y, x)
         /\ Before(x, y) => SortedPos(x) < SortedPos(y)
<1>1. x \in Nat /\ y \in Nat /\ card_slot[x] \in Int /\ card_slot[y] \in Int
  BY DeckTyped
<1>2. Before(x, y) \/ Before(y, x)
  BY <1>1 DEF Before
<1>3. ASSUME Before(x, y)
      PROVE  SortedPos(x) < SortedPos(y)
  <2>1. ASSUME NEW z \in Earlier(x)
        PROVE  z \in Earlier(y)
    <3>1. z \in Ids /\ z \in MembersOf(ClassOf(y)) /\ Before(z, x)
      BY ClassTyped DEF Earlier
    <3>2. z \in Nat /\ card_slot[z] \in Int
      BY <3>1, DeckTyped
    <3> QED BY <1>1, <1>3, <3>1, <3>2 DEF Before, Earlier
  <2>2. x \in Earlier(y) /\ x \notin Earlier(x)
    BY <1>1, <1>3, ClassTyped DEF Earlier, Before
  <2>3. Earlier(x) \in SUBSET Earlier(y) /\ Earlier(x) # Earlier(y)
    BY <2>1, <2>2
  <2>4. IsFiniteSet(Earlier(y))
    BY SmallerTyped
  <2>5. Cardinality(Earlier(x)) <= Cardinality(Earlier(y))
          /\ Cardinality(Earlier(x)) # Cardinality(Earlier(y))
    BY <2>3, <2>4, FS_Subset
  <2>6. /\ Cardinality(Earlier(x)) \in Nat /\ Cardinality(Earlier(y)) \in Nat
        /\ ClassStart(ClassOf(x)) \in Nat
        /\ SortedPos(x) = ClassStart(ClassOf(x)) + Cardinality(Earlier(x))
        /\ SortedPos(y) = ClassStart(ClassOf(x)) + Cardinality(Earlier(y))
    BY SmallerTyped
  <2> QED BY <2>5, <2>6
<1> QED BY <1>2, <1>3

LEMMA PlaceInClass ==
  ASSUME mode \in Modes, card_slot \in [Ids -> Int], NEW x \in Ids
  PROVE  SortedPos(x) \in ClassStart(ClassOf(x))..ClassStart(ClassOf(x)) + ClassSize - 1
<1> DEFINE cls == ClassOf(x)
<1>1. cls \in Classes /\ x \in MembersOf(cls) /\ IsFiniteSet(MembersOf(cls)) /\ ClassSize \in Nat
  BY ClassTyped
<1>2. Earlier(x) \in SUBSET MembersOf(cls) /\ x \notin Earlier(x)
  <2>1. card_slot[x] \in Int /\ x \in Nat
    BY DeckTyped
  <2> QED BY <2>1 DEF Earlier, Before
<1>3. Cardinality(Earlier(x)) <= Cardinality(MembersOf(cls))
        /\ Cardinality(Earlier(x)) # Cardinality(MembersOf(cls))
  BY <1>1, <1>2, FS_Subset
<1>4. Cardinality(MembersOf(cls)) = ClassSize
  BY <1>1, ClassCardinality
<1> QED BY <1>1, <1>3, <1>4, SmallerTyped

(* The payload of a class in order has the slot of each member once, the   *)
(* smaller first.                                                          *)
LEMMA StoredInOrder ==
  ASSUME mode \in Modes, card_slot \in [Ids -> Int], NEW cls \in Classes, Sorted(cls)
  PROVE  \E f \in Bijection(1..ClassSize, MembersOf(cls)) :
           /\ Stored(card_slot, cls) = [j \in 1..ClassSize |-> card_slot[f[j]]]
           /\ \A j \in 1..ClassSize - 1 : card_slot[f[j]] <= card_slot[f[j + 1]]
           /\ \A j \in 1..ClassSize :
                f[j] \in MembersOf(cls) /\ canonical_pos[f[j]] = ClassStart(cls) + j - 1
<1> DEFINE M == MembersOf(cls)
           S == 1..ClassSize
           g == [m \in M |-> canonical_pos[m] - ClassStart(cls) + 1]
           f == [j \in S |-> CHOOSE m \in M : canonical_pos[m] = ClassStart(cls) + j - 1]
<1>1. ClassSize \in Nat /\ ClassStart(cls) \in Nat /\ M \subseteq Ids /\ IsFiniteSet(M)
  BY ClassTyped
<1>2. ASSUME NEW m \in M
      PROVE  /\ m \in Ids /\ ClassOf(m) = cls /\ canonical_pos[m] = SortedPos(m)
             /\ canonical_pos[m] \in ClassStart(cls)..ClassStart(cls) + ClassSize - 1
             /\ g[m] \in S
  <2>1. m \in Ids /\ ClassOf(m) = cls /\ canonical_pos[m] = SortedPos(m)
    BY DEF MembersOf, Sorted
  <2>2. SortedPos(m) \in ClassStart(cls)..ClassStart(cls) + ClassSize - 1
    BY <2>1, PlaceInClass
  <2> QED BY <1>1, <2>1, <2>2
<1>3. ASSUME NEW x \in M, NEW y \in M, g[x] = g[y]
      PROVE  x = y
  <2>1. SortedPos(x) = SortedPos(y) /\ SortedPos(x) \in Int
    BY <1>1, <1>2, <1>3
  <2>2. ~ (SortedPos(x) < SortedPos(y)) /\ ~ (SortedPos(y) < SortedPos(x))
    BY <2>1
  <2> QED BY <1>2, <2>2, InOrder
<1>4. g \in Injection(M, S)
  <2>1. g \in [M -> S]
    BY <1>2
  <2>2. \A x, y \in DOMAIN g : g[x] = g[y] => x = y
    BY <1>3
  <2> HIDE DEF g
  <2> QED BY <2>1, <2>2 DEF Injection, IsInjective
<1>5. IsFiniteSet(S) /\ Cardinality(S) = ClassSize /\ Cardinality(M) = ClassSize
  <2>1. IsFiniteSet(1..ClassSize) /\ Cardinality(1..ClassSize) = ClassSize
    BY <1>1, FS_Interval
  <2> QED BY <2>1, ClassCardinality
<1>6. \A j \in S : \E m \in M : g[m] = j
  <2>1. g \in Surjection(M, S)
    <3> HIDE DEF g, M, S
    <3> QED BY <1>4, <1>5, FS_Injection
  <2> HIDE DEF g
  <2> QED BY <2>1 DEF Surjection
<1>7. ASSUME NEW j \in S
      PROVE  f[j] \in M /\ canonical_pos[f[j]] = ClassStart(cls) + j - 1 /\ g[f[j]] = j
  <2>1. PICK m \in M : g[m] = j
    BY <1>6
  <2>2. canonical_pos[m] = ClassStart(cls) + j - 1
    BY <1>1, <1>2, <2>1
  <2>3. f[j] \in M /\ canonical_pos[f[j]] = ClassStart(cls) + j - 1
    BY <2>2
  <2> QED BY <1>1, <1>2, <2>3
<1>8. f \in Bijection(S, M)
  <2>1. f \in [S -> M]
    BY <1>7
  <2>2. ASSUME NEW i \in S, NEW j \in S, f[i] = f[j]
        PROVE  i = j
    <3>1. g[f[i]] = i /\ g[f[j]] = j
      BY <1>7
    <3> HIDE DEF f, g
    <3> QED BY ONLY <2>2, <3>1
  <2>3. ASSUME NEW m \in M
        PROVE  \E j \in S : f[j] = m
    <3>1. g[m] \in S
      BY <1>2
    <3> HIDE DEF f, g
    <3>2. f[g[m]] \in M /\ g[f[g[m]]] = g[m]
      BY <1>7, <3>1
    <3> QED BY <1>3, <3>1, <3>2
  <2> HIDE DEF f
  <2> QED BY <2>1, <2>2, <2>3 DEF Bijection, Injection, Surjection, IsInjective
<1>9. Stored(card_slot, cls) = [j \in 1..ClassSize |-> card_slot[f[j]]]
  BY DEF Stored
<1>10. ASSUME NEW j \in 1..ClassSize - 1
       PROVE  card_slot[f[j]] <= card_slot[f[j + 1]]
  <2>1. j \in S /\ j + 1 \in S
    BY <1>1
  <2> DEFINE x == f[j]
             y == f[j + 1]
  <2>2. x \in M /\ y \in M /\ canonical_pos[x] < canonical_pos[y]
    <3>1. x \in M /\ canonical_pos[x] = ClassStart(cls) + j - 1
      BY <1>7, <2>1
    <3>2. y \in M /\ canonical_pos[y] = ClassStart(cls) + (j + 1) - 1
      BY <1>7, <2>1
    <3> HIDE DEF x, y
    <3> QED BY <1>1, <3>1, <3>2
  <2> HIDE DEF x, y
  <2>3. x \in Ids /\ y \in Ids /\ ClassOf(x) = ClassOf(y) /\ x # y /\ SortedPos(x) < SortedPos(y)
          /\ SortedPos(x) \in Int /\ SortedPos(y) \in Int
    BY <1>2, <2>2
  <2>4. ~ Before(y, x)
    BY <2>3, InOrder
  <2>5. card_slot[x] <= card_slot[y]
    BY <2>3, <2>4 DEF Before
  <2> QED BY <2>5 DEF x, y
<1> QED BY <1>7, <1>8, <1>9, <1>10

LEMMA PayloadOfClass ==
  ASSUME mode \in Modes, card_slot \in [Ids -> Int], NEW cls \in Classes, Sorted(cls), Kept(cls)
  PROVE  /\ \A j \in 1..ClassSize - 1 : store[cls][j] <= store[cls][j + 1]
         /\ class_sum[cls] = ClassSum(card_slot, cls)
         /\ \A v \in DOMAIN class_sum[cls] :
              Cardinality({j \in 1..ClassSize : store[cls][j] = v}) = class_sum[cls][v]
<1> DEFINE M == MembersOf(cls)
           S == 1..ClassSize
<1>1. PICK f \in Bijection(S, M) :
           /\ Stored(card_slot, cls) = [j \in 1..ClassSize |-> card_slot[f[j]]]
           /\ \A j \in 1..ClassSize - 1 : card_slot[f[j]] <= card_slot[f[j + 1]]
  BY StoredInOrder
<1>2. ClassSize \in Nat /\ IsFiniteSet(S)
  <2>1. ClassSize \in Nat
    BY ClassTyped
  <2> QED BY <2>1, FS_Interval
<1>3. \A j \in S : store[cls][j] = card_slot[f[j]]
  BY <1>1 DEF Kept
<1>4. ASSUME NEW j \in 1..ClassSize - 1
      PROVE  store[cls][j] <= store[cls][j + 1]
  <2>1. j \in S /\ j + 1 \in S
    BY <1>2
  <2> QED BY <1>1, <1>3, <2>1
<1>5. ASSUME NEW v \in DOMAIN class_sum[cls]
      PROVE  Cardinality({j \in 1..ClassSize : store[cls][j] = v}) = class_sum[cls][v]
  <2> DEFINE J == {j \in S : store[cls][j] = v}
             T == {m \in M : card_slot[m] = v}
             h == [j \in J |-> f[j]]
  <2>1. class_sum[cls][v] = Cardinality(T)
    BY <1>5 DEF Kept, ClassSum
  <2>2. f \in [S -> M] /\ (\A i, j \in S : f[i] = f[j] => i = j) /\ \A m \in M : \E j \in S : f[j] = m
    <3> HIDE DEF S, M
    <3> QED BY DEF Bijection, Injection, Surjection, IsInjective
  <2>3. h \in [J -> T]
    BY <1>3, <2>2
  <2>4. \A i, j \in DOMAIN h : h[i] = h[j] => i = j
    BY <2>2
  <2>5. \A m \in T : \E j \in J : h[j] = m
    BY <1>3, <2>2
  <2>6. h \in Bijection(J, T)
    <3> HIDE DEF h, J, T
    <3> QED BY <2>3, <2>4, <2>5 DEF Bijection, Injection, Surjection, IsInjective
  <2>7. IsFiniteSet(J)
    BY <1>2, FS_Subset
  <2>8. Cardinality(T) = Cardinality(J)
    <3> HIDE DEF h, J, T
    <3> QED BY <2>6, <2>7, FS_Bijection DEF ExistsBijection
  <2> QED BY <2>1, <2>8
<1> QED BY <1>4, <1>5 DEF Kept

LEMMA IdleIsScratch ==
  ASSUME EngineInv
  PROVE  IncrementalIsScratch
<1> SUFFICES ASSUME stage = "idle"
             PROVE  SlotsSettled /\ PayloadIsOfSlots /\ children = ChildrenOf(descriptors)
  BY DEF IncrementalIsScratch
<1>1. waiting = {} /\ Unsettled = {} /\ Touched = {}
  BY DEF EngineInv, EngineTyped, Unsettled, Touched
<1>2. /\ children = ChildrenOf(descriptors)
      /\ \A cls \in Classes : Sorted(cls) /\ Kept(cls)
      /\ \A c \in Ids : Settled(c)
  BY <1>1 DEF EngineInv, CascadeInv
<1>3. SlotsSettled
  BY <1>2 DEF SlotsSettled, Settled
<1>4. mode \in Modes /\ card_slot \in [Ids -> Int]
  BY DEF EngineInv, EngineTyped
<1>5. PayloadIsOfSlots
  BY <1>2, <1>4, PayloadOfClass DEF PayloadIsOfSlots
<1> QED BY <1>2, <1>3, <1>5

-----------------------------------------------------------------------------
(* What lies on what.                                                      *)

LEMMA ParentOf ==
  ASSUME NEW d \in Descriptor
  PROVE  /\ IsPredecessor(d) => Parent(d) \in Ids /\ d.on = {Parent(d)}
         /\ ~ IsPredecessor(d) => d.on = {}
         /\ d.on \in {{}} \union {{q} : q \in Ids} /\ d.kind \in Nat /\ d.down \in BOOLEAN
BY DEF Descriptor, IsPredecessor, Parent

LEMMA DescriptorsTyped ==
  /\ \A k \in Nat, down \in BOOLEAN : Locative(k, down) \in Descriptor /\ ~ IsPredecessor(Locative(k, down))
  /\ \A q \in Ids, down \in BOOLEAN :
       Predecessor(q, down) \in Descriptor /\ IsPredecessor(Predecessor(q, down))
         /\ Predecessor(q, down).on = {q}
BY DEF Descriptor, Locative, Predecessor, IsPredecessor

LEMMA ChildrenAre ==
  ASSUME NEW ds, Tree(ds)
  PROVE  /\ ChildrenOf(ds) \in [Ids -> Ids \union {-1}]
         /\ -1 \notin Ids
         /\ \A c, q \in Ids : ds[c].on = {q} => ChildrenOf(ds)[q] = c
         /\ \A q \in Ids : ChildrenOf(ds)[q] # -1 => ds[ChildrenOf(ds)[q]].on = {q}
         /\ \A q \in Ids : (\A c \in Ids : ds[c].on # {q}) => ChildrenOf(ds)[q] = -1
<1>1. -1 \notin Ids
  BY DeckTyped
<1>2. ASSUME NEW q \in Ids, NEW c \in Ids, ds[c].on = {q}
      PROVE  ChildrenOf(ds)[q] = c
  <2>1. \A x \in Ids : ds[x].on = {q} => x = c
    BY <1>2 DEF Tree
  <2>2. ChildrenOf(ds)[q] = CHOOSE x \in Ids : ds[x].on = {q}
    BY <1>2 DEF ChildrenOf
  <2> QED BY <1>2, <2>1, <2>2
<1>3. ASSUME NEW q \in Ids, \A c \in Ids : ds[c].on # {q}
      PROVE  ChildrenOf(ds)[q] = -1
  BY <1>3 DEF ChildrenOf
<1>4. ASSUME NEW q \in Ids
      PROVE  ChildrenOf(ds)[q] \in Ids \union {-1}
               /\ (ChildrenOf(ds)[q] # -1 => ds[ChildrenOf(ds)[q]].on = {q})
  BY <1>2, <1>3
<1>5. ChildrenOf(ds) \in [Ids -> Ids \union {-1}]
  <2>1. ChildrenOf(ds) = [q \in Ids |-> ChildrenOf(ds)[q]]
    BY DEF ChildrenOf
  <2> QED BY <1>4, <2>1
<1> QED BY <1>1, <1>2, <1>3, <1>4, <1>5

(* One change of a list keeps children the inverse.                        *)
LEMMA ChildrenDescribed ==
  ASSUME NEW ds, Tree(ds), NEW c \in Ids, NEW d \in Descriptor, Tree([ds EXCEPT ![c] = d])
  PROVE  ChildrenOf([ds EXCEPT ![c] = d]) =
           LET freed == IF IsPredecessor(ds[c]) THEN [ChildrenOf(ds) EXCEPT ![Parent(ds[c])] = -1]
                        ELSE ChildrenOf(ds)
           IN IF IsPredecessor(d) THEN [freed EXCEPT ![Parent(d)] = c] ELSE freed
<1> DEFINE new == [ds EXCEPT ![c] = d]
           freed == IF IsPredecessor(ds[c]) THEN [ChildrenOf(ds) EXCEPT ![Parent(ds[c])] = -1]
                    ELSE ChildrenOf(ds)
           to == IF IsPredecessor(d) THEN [freed EXCEPT ![Parent(d)] = c] ELSE freed
<1>1. ds \in [Ids -> Descriptor] /\ ds[c] \in Descriptor
  BY DEF Tree
<1>2. new[c] = d /\ \A x \in Ids : x # c => new[x] = ds[x]
  BY <1>1
<1>3. Tree(new)
  OBVIOUS
<1> HIDE DEF new
<1>4. /\ ChildrenOf(ds) \in [Ids -> Ids \union {-1}] /\ ChildrenOf(new) \in [Ids -> Ids \union {-1}]
      /\ \A x, q \in Ids : ds[x].on = {q} => ChildrenOf(ds)[q] = x
      /\ \A q \in Ids : ChildrenOf(ds)[q] # -1 => ds[ChildrenOf(ds)[q]].on = {q}
      /\ \A x, q \in Ids : new[x].on = {q} => ChildrenOf(new)[q] = x
      /\ \A q \in Ids : (\A x \in Ids : new[x].on # {q}) => ChildrenOf(new)[q] = -1
  BY <1>3, ChildrenAre
<1>5. freed \in [Ids -> Ids \union {-1}] /\ to \in [Ids -> Ids \union {-1}]
  BY <1>4
<1>6. /\ \A q \in Ids : freed[q] = IF ds[c].on = {q} THEN -1 ELSE ChildrenOf(ds)[q]
      /\ \A q \in Ids : to[q] = IF d.on = {q} THEN c ELSE freed[q]
  <2>1. IsPredecessor(ds[c]) => Parent(ds[c]) \in Ids /\ ds[c].on = {Parent(ds[c])}
    BY <1>1, ParentOf
  <2>2. ~ IsPredecessor(ds[c]) => ds[c].on = {}
    BY <1>1, ParentOf
  <2>3. IsPredecessor(d) => Parent(d) \in Ids /\ d.on = {Parent(d)}
    BY ParentOf
  <2>4. ~ IsPredecessor(d) => d.on = {}
    BY ParentOf
  <2>5. \A q \in Ids : freed[q] = IF ds[c].on = {q} THEN -1 ELSE ChildrenOf(ds)[q]
    BY <1>4, <2>1, <2>2
  <2>6. \A q \in Ids : to[q] = IF d.on = {q} THEN c ELSE freed[q]
    <3> HIDE DEF freed
    <3> QED BY <1>5, <2>3, <2>4
  <2> QED BY <2>5, <2>6
<1> HIDE DEF freed, to
<1>7. ASSUME NEW q \in Ids
      PROVE  ChildrenOf(new)[q] = to[q]
  <2>1. CASE d.on = {q}
    BY <1>2, <1>4, <1>6, <2>1
  <2>2. CASE d.on # {q} /\ ds[c].on = {q}
    <3>1. \A x \in Ids : x # c => ds[x].on # {q}
      BY <2>2 DEF Tree
    <3>2. \A x \in Ids : new[x].on # {q}
      BY <1>2, <2>2, <3>1
    <3> QED BY <1>4, <1>6, <2>2, <3>2
  <2>3. CASE d.on # {q} /\ ds[c].on # {q}
    <3>1. to[q] = ChildrenOf(ds)[q]
      BY <1>6, <2>3
    <3>2. CASE ChildrenOf(ds)[q] = -1
      <4>1. \A x \in Ids : ds[x].on # {q}
        <5>1. -1 \notin Ids
          BY DeckTyped
        <5> QED BY <1>4, <3>2, <5>1
      <4>2. \A x \in Ids : new[x].on # {q}
        BY <1>2, <2>3, <4>1
      <4> QED BY <1>4, <3>1, <3>2, <4>2
    <3>3. CASE ChildrenOf(ds)[q] # -1
      <4> DEFINE x == ChildrenOf(ds)[q]
      <4>1. x \in Ids /\ ds[x].on = {q}
        BY <1>4, <3>3
      <4>2. new[x].on = {q}
        BY <1>2, <2>3, <4>1
      <4> QED BY <1>4, <3>1, <4>1, <4>2
    <3> QED BY <3>2, <3>3
  <2> QED BY <2>1, <2>2, <2>3
<1>8. ChildrenOf(new) = to
  BY <1>4, <1>5, <1>7
<1> QED BY <1>8 DEF new, to, freed

-----------------------------------------------------------------------------
(* Lists of changes.                                                       *)

LEMMA ChangesTyped ==
  ASSUME NEW T, NEW list \in Seq(T)
  PROVE  DOMAIN list = 1..Len(list) /\ \A k \in DOMAIN list : list[k] \in T
OBVIOUS

LEMMA AfterIs ==
  ASSUME NEW ds \in [Ids -> Descriptor], NEW list, Fits(ds, list)
  PROVE  /\ After(ds, list) \in [Ids -> Descriptor]
         /\ \A k \in DOMAIN list : list[k].id \in Ids /\ list[k].is \in Descriptor
         /\ \A k \in DOMAIN list : After(ds, list)[list[k].id] = list[k].is
         /\ \A c \in Ids : (\A k \in DOMAIN list : list[k].id # c) => After(ds, list)[c] = ds[c]
<1>1. \A k \in DOMAIN list : list[k].id \in Ids /\ list[k].is \in Descriptor
  <2>1. \A k \in DOMAIN list : list[k] \in [id : Ids, is : Descriptor]
    BY ChangesTyped DEF Fits
  <2> QED BY <2>1
<1>2. ASSUME NEW k \in DOMAIN list
      PROVE  After(ds, list)[list[k].id] = list[k].is
  <2>1. \A j \in DOMAIN list : list[j].id = list[k].id => j = k
    BY DEF Fits
  <2>2. (CHOOSE j \in DOMAIN list : list[j].id = list[k].id) = k
    BY <2>1
  <2> QED BY <1>1, <2>2 DEF After
<1>3. \A c \in Ids : (\A k \in DOMAIN list : list[k].id # c) => After(ds, list)[c] = ds[c]
  BY DEF After
<1>4. \A c \in Ids : After(ds, list)[c] \in Descriptor
  BY <1>1, <1>2, <1>3
<1>5. After(ds, list) \in [Ids -> Descriptor]
  <2>1. After(ds, list) = [c \in Ids |-> After(ds, list)[c]]
    BY DEF After
  <2> QED BY <1>4, <2>1
<1> QED BY <1>1, <1>2, <1>3, <1>5

LEMMA NothingAfter ==
  ASSUME NEW ds \in [Ids -> Descriptor]
  PROVE  Fits(ds, <<>>) /\ After(ds, <<>>) = ds
BY DEF Fits, After

(* A list of which the first change has been made.                         *)
LEMMA AfterHead ==
  ASSUME NEW ds \in [Ids -> Descriptor], NEW list, Fits(ds, list), list # <<>>
  PROVE  LET made == [ds EXCEPT ![Head(list).id] = Head(list).is]
         IN /\ Head(list).id \in Ids /\ Head(list).is \in Descriptor
            /\ made \in [Ids -> Descriptor]
            /\ Fits(made, Tail(list)) /\ After(made, Tail(list)) = After(ds, list)
            /\ Tree(After(ds, list)) => Tree(made)
<1> DEFINE c == Head(list).id
           d == Head(list).is
           made == [ds EXCEPT ![c] = d]
           tail == Tail(list)
           T == [id : Ids, is : Descriptor]
<1>1. list \in Seq(T) /\ Len(list) \in Nat \ {0} /\ DOMAIN list = 1..Len(list)
  BY EmptySeq DEF Fits
<1>2. /\ Head(list) = list[1] /\ 1 \in DOMAIN list
      /\ tail \in Seq(T) /\ Len(tail) = Len(list) - 1 /\ DOMAIN tail = 1..Len(tail)
      /\ \A k \in DOMAIN tail : tail[k] = list[k + 1] /\ k + 1 \in DOMAIN list /\ k + 1 # 1
  <2> HIDE DEF T
  <2>1. tail \in Seq(T) /\ Len(tail) = Len(list) - 1
          /\ \A k \in 1..Len(tail) : tail[k] = list[k + 1]
    BY <1>1, HeadTailProperties
  <2>2. Head(list) = list[1]
    BY <1>1
  <2> HIDE DEF tail
  <2> QED BY <1>1, <2>1, <2>2
<1>10. \A k \in DOMAIN list : list[k].id \in Ids /\ list[k].is \in Descriptor
  BY AfterIs
<1>3. c \in Ids /\ d \in Descriptor
  BY <1>2, <1>10
<1>4. made \in [Ids -> Descriptor] /\ made[c] = d /\ \A x \in Ids : x # c => made[x] = ds[x]
  BY <1>3
<1> HIDE DEF tail, made
<1>5. \A j, k \in DOMAIN list : list[j].id = list[k].id => j = k
  BY DEF Fits
<1>6. \A k \in DOMAIN tail : tail[k].id \in Ids /\ tail[k].id # c
  <2> QED BY <1>2, <1>5, <1>10
<1>7. Fits(made, tail)
  <2>1. ASSUME NEW j \in DOMAIN tail, NEW k \in DOMAIN tail, tail[j].id = tail[k].id
        PROVE  j = k
    <3>1. j + 1 = k + 1 /\ j \in Int /\ k \in Int
      BY <1>2, <1>5, <2>1
    <3> QED BY <3>1
  <2>2. ASSUME NEW k \in DOMAIN tail
        PROVE  tail[k].is.on = made[tail[k].id].on
    <3>1. list[k + 1].is.on = ds[list[k + 1].id].on
      BY <1>2 DEF Fits
    <3> QED BY <1>2, <1>4, <1>6, <3>1
  <2> QED BY <1>2, <2>1, <2>2 DEF Fits
<1>8. ASSUME NEW x \in Ids
      PROVE  After(made, tail)[x] = After(ds, list)[x] /\ After(ds, list)[x].on = made[x].on
  <2>1. CASE x = c
    <3>1. After(ds, list)[x] = d
      BY <1>2, <2>1, AfterIs
    <3>2. After(made, tail)[x] = made[x]
      BY <1>4, <1>6, <1>7, <2>1, AfterIs
    <3> QED BY <1>4, <2>1, <3>1, <3>2
  <2>2. CASE x # c /\ \E k \in DOMAIN list : list[k].id = x
    <3>1. PICK k \in DOMAIN list : list[k].id = x
      BY <2>2
    <3>2. k # 1
      BY <1>2, <2>2, <3>1
    <3>3. k - 1 \in DOMAIN tail /\ tail[k - 1] = list[k]
      BY <1>1, <1>2, <3>2
    <3>4. After(made, tail)[x] = list[k].is
      BY <1>4, <1>7, <3>1, <3>3, AfterIs
    <3>5. After(ds, list)[x] = list[k].is
      BY <3>1, AfterIs
    <3>6. list[k].is.on = ds[x].on
      BY <3>1, <3>2 DEF Fits
    <3> QED BY <1>4, <2>2, <3>4, <3>5, <3>6
  <2>3. CASE x # c /\ \A k \in DOMAIN list : list[k].id # x
    <3>1. \A k \in DOMAIN tail : tail[k].id # x
      BY <1>2, <2>3
    <3> QED BY <1>4, <1>7, <2>3, <3>1, AfterIs
  <2> QED BY <2>1, <2>2, <2>3
<1>9. After(made, tail) = After(ds, list)
  <2>1. After(made, tail) \in [Ids -> Descriptor] /\ After(ds, list) \in [Ids -> Descriptor]
    BY <1>4, <1>7, AfterIs
  <2> QED BY <1>8, <2>1
<1>11. ASSUME Tree(After(ds, list))
       PROVE  Tree(made)
  BY <1>4, <1>8, <1>11 DEF Tree
<1> QED BY <1>3, <1>4, <1>7, <1>9, <1>11 DEF made, tail

(* The list that takes a list back.                                        *)
LEMMA TakenBack ==
  ASSUME NEW ds \in [Ids -> Descriptor], NEW list, Fits(ds, list), NEW back,
         back = [k \in DOMAIN list |-> Change(list[k].id, ds[list[k].id])]
  PROVE  Fits(After(ds, list), back) /\ After(After(ds, list), back) = ds
           /\ back \in Seq([id : Ids, is : Descriptor]) /\ (list # <<>> => back # <<>>)
<1> DEFINE T == [id : Ids, is : Descriptor]
           new == After(ds, list)
<1>1. list \in Seq(T) /\ Len(list) \in Nat /\ DOMAIN list = 1..Len(list)
  BY DEF Fits
<1>2. \A k \in DOMAIN list : list[k].id \in Ids /\ list[k].is \in Descriptor
  BY AfterIs
<1>3. /\ DOMAIN back = DOMAIN list
      /\ \A k \in DOMAIN list : back[k].id = list[k].id /\ back[k].is = ds[list[k].id] /\ back[k] \in T
  BY <1>2 DEF Change
<1>4. back \in Seq(T)
  <2> HIDE DEF T
  <2>1. back = [k \in 1..Len(list) |-> back[k]]
    BY <1>1, <1>3
  <2> QED BY <1>1, <1>3, <2>1, IsASeq
<1>5. new \in [Ids -> Descriptor]
  BY AfterIs
<1>6. Fits(new, back)
  <2>1. \A j, k \in DOMAIN back : back[j].id = back[k].id => j = k
    BY <1>3 DEF Fits
  <2>2. ASSUME NEW k \in DOMAIN back, k # 1
        PROVE  back[k].is.on = new[back[k].id].on
    <3>1. new[list[k].id] = list[k].is
      BY <1>3, <2>2, AfterIs
    <3>2. list[k].is.on = ds[list[k].id].on
      BY <1>3, <2>2 DEF Fits
    <3> QED BY <1>3, <3>1, <3>2
  <2> QED BY <1>4, <2>1, <2>2 DEF Fits
<1>7. ASSUME NEW c \in Ids
      PROVE  After(new, back)[c] = ds[c]
  <2>1. CASE \E k \in DOMAIN list : list[k].id = c
    <3>1. PICK k \in DOMAIN list : list[k].id = c
      BY <2>1
    <3>2. k \in DOMAIN back /\ back[k].id = c /\ back[k].is = ds[c]
      BY <1>3, <3>1
    <3> QED BY <1>5, <1>6, <3>2, AfterIs
  <2>2. CASE \A k \in DOMAIN list : list[k].id # c
    <3>1. \A k \in DOMAIN back : back[k].id # c
      BY <1>3, <2>2
    <3> QED BY <1>5, <1>6, <2>2, <3>1, AfterIs
  <2> QED BY <2>1, <2>2
<1>8. After(new, back) = ds
  <2>1. After(new, back) \in [Ids -> Descriptor]
    BY <1>5, <1>6, AfterIs
  <2> QED BY <1>7, <2>1
<1>9. list # <<>> => back # <<>>
  BY <1>1, <1>3
<1> QED BY <1>4, <1>6, <1>8, <1>9

(* A card that is laid on a free top, or in a place that takes it, and     *)
(* others that stay where they are, or come from where nothing lies on     *)
(* them.                                                                   *)
Takes(ds, c, d) ==
  /\ d \in Descriptor /\ c \notin d.on
  /\ \A t \in d.on : InTableau(ds[t]) /\ \A x \in Ids : ds[x].on # {t}
  /\ (\E x \in Ids : ds[x].on = {c}) => InTableau(d)

Stays(ds, ch) ==
  /\ ch.is.on = ds[ch.id].on
  /\ InTableau(ds[ch.id]) => InTableau(ch.is)

LEMMA GoodList ==
  ASSUME NEW ds, Tree(ds), Grounded(ds), NEW c \in Ids, NEW d, Takes(ds, c, d),
         NEW list \in Seq([id : Ids, is : Descriptor]), list # <<>>, list[1] = Change(c, d),
         \A j, k \in DOMAIN list : list[j].id = list[k].id => j = k,
         \A k \in DOMAIN list : k # 1 => Stays(ds, list[k])
  PROVE  Fits(ds, list) /\ Tree(After(ds, list)) /\ Grounded(After(ds, list))
<1> DEFINE new == After(ds, list)
<1>1. Fits(ds, list)
  BY DEF Fits, Stays
<1>2. ds \in [Ids -> Descriptor] /\ new \in [Ids -> Descriptor]
  BY <1>1, AfterIs DEF Tree
<1>3. new[c] = d
  <2>1. 1 \in DOMAIN list
    BY EmptySeq
  <2>2. list[1].id = c /\ list[1].is = d
    BY DEF Change
  <2> QED BY <1>1, <1>2, <2>1, <2>2, AfterIs
<1>4. ASSUME NEW x \in Ids, x # c
      PROVE  new[x].on = ds[x].on /\ (InTableau(ds[x]) => InTableau(new[x]))
  <2>1. CASE \E k \in DOMAIN list : list[k].id = x
    <3>1. PICK k \in DOMAIN list : list[k].id = x
      BY <2>1
    <3>2. k # 1
      BY <1>4, <3>1 DEF Change
    <3>3. Stays(ds, list[k]) /\ new[x] = list[k].is
      BY <1>1, <1>2, <3>1, <3>2, AfterIs
    <3> QED BY <3>1, <3>3 DEF Stays
  <2>2. CASE \A k \in DOMAIN list : list[k].id # x
    BY <1>1, <1>2, <2>2, AfterIs
  <2> QED BY <2>1, <2>2
<1> HIDE DEF new
<1>5. Tree(new)
  <2>1. \A x \in Ids : x \notin new[x].on
    BY <1>3, <1>4 DEF Tree, Takes
  <2>2. ASSUME NEW x \in Ids, NEW y \in Ids, new[x].on = new[y].on, new[x].on # {}
        PROVE  x = y
    <3>1. CASE x # c /\ y # c
      BY <1>4, <2>2, <3>1 DEF Tree
    <3>2. ASSUME NEW z \in Ids, z # c, new[z].on = d.on, d.on # {}
          PROVE  FALSE
      <4>1. ds[z].on = d.on
        BY <1>4, <3>2
      <4>2. PICK t \in Ids : d.on = {t}
        BY <3>2 DEF Takes, Descriptor
      <4> QED BY <4>1, <4>2 DEF Takes
    <3> QED BY <1>3, <2>2, <3>1, <3>2
  <2> QED BY <1>2, <2>1, <2>2 DEF Tree
<1>6. Grounded(new)
  <2>1. ASSUME NEW x \in Ids, NEW q \in new[x].on
        PROVE  InTableau(new[q])
    <3>1. CASE x = c
      <4>1. q \in Ids /\ q # c /\ InTableau(ds[q])
        BY <1>3, <2>1, <3>1 DEF Takes, Descriptor
      <4> QED BY <1>4, <4>1
    <3>2. CASE x # c
      <4>1. q \in ds[x].on /\ q \in Ids /\ ds[x].on = {q}
        <5>1. q \in ds[x].on /\ ds[x] \in Descriptor
          BY <1>2, <1>4, <2>1, <3>2
        <5> QED BY <5>1 DEF Descriptor
      <4>2. InTableau(ds[q])
        BY <4>1 DEF Grounded
      <4>3. q = c => InTableau(d)
        BY <4>1 DEF Takes
      <4> QED BY <1>3, <1>4, <4>1, <4>2, <4>3
    <3> QED BY <3>1, <3>2
  <2> QED BY <2>1 DEF Grounded
<1> QED BY <1>1, <1>5, <1>6 DEF new

(* At most one change, of a card that stays.                               *)
Side(ds, c, a) ==
  a = <<>> \/ \E ch \in [id : Ids, is : Descriptor] : a = <<ch>> /\ ch.id # c /\ Stays(ds, ch)

(* A change of a card, with others of cards that stay, each card once.     *)
Named(list) == {list[k].id : k \in DOMAIN list}
Leads(ds, u, list) ==
  /\ list \in Seq([id : Ids, is : Descriptor]) /\ list # <<>> /\ list[1] = u
  /\ \A j, k \in DOMAIN list : list[j].id = list[k].id => j = k
  /\ \A k \in DOMAIN list : k # 1 => Stays(ds, list[k])

LEMMA LeadsAlone ==
  ASSUME NEW ds, NEW u \in [id : Ids, is : Descriptor]
  PROVE  Leads(ds, u, <<u>>) /\ Named(<<u>>) = {u.id}
<1> DEFINE list == <<u>>
<1>1. list \in Seq([id : Ids, is : Descriptor]) /\ Len(list) = 1 /\ list[1] = u
  OBVIOUS
<1> HIDE DEF list
<1>2. DOMAIN list = {1}
  BY <1>1
<1>3. Named(list) = {u.id}
  <2>1. \A x \in Named(list) : x = u.id
    BY <1>1, <1>2 DEF Named
  <2>2. u.id \in Named(list)
    BY <1>1, <1>2 DEF Named
  <2> QED BY <2>1, <2>2
<1>4. Leads(ds, u, list)
  <2>1. list # <<>>
    BY <1>1
  <2> QED BY <1>1, <1>2, <2>1 DEF Leads
<1> QED BY <1>3, <1>4 DEF list

LEMMA LeadsMore ==
  ASSUME NEW ds, NEW c, NEW u, NEW list, Leads(ds, u, list), NEW a, Side(ds, c, a),
         a # <<>> => a[1].id \notin Named(list)
  PROVE  Leads(ds, u, list \o a) /\ \A x \in Named(list \o a) \ Named(list) : a # <<>> /\ x = a[1].id
<1> DEFINE T == [id : Ids, is : Descriptor]
<1>1. list \in Seq(T)
  BY DEF Leads
<1>2. CASE a = <<>>
  <2>1. list \o a = list
    BY <1>1, <1>2, ConcatEmptySeq
  <2> QED BY <2>1
<1>3. ASSUME NEW ch \in T, a = <<ch>>, Stays(ds, ch)
      PROVE  Leads(ds, u, list \o a) /\ \A x \in Named(list \o a) \ Named(list) : a # <<>> /\ x = a[1].id
  <2> DEFINE new == list \o a
             n == Len(list)
  <2>1. new = Append(list, ch)
    BY <1>1, <1>3, AppendIsConcat
  <2>2. /\ new \in Seq(T) /\ new # <<>> /\ Len(new) = n + 1 /\ new[n + 1] = ch
        /\ \A k \in 1..n : new[k] = list[k]
    BY <1>1, <2>1, AppendProperties
  <2>3. a # <<>> /\ a[1] = ch
    BY <1>3
  <2> HIDE DEF new, n, T
  <2>4. n \in Nat /\ DOMAIN list = 1..n /\ n # 0
    BY <1>1 DEF n, Leads
  <2>5. DOMAIN new = 1..(n + 1)
    BY <2>2
  <2>6. \A k \in 1..n : list[k].id \in Named(list)
    BY <2>4 DEF Named
  <2>7. \A k \in 1..n : list[k].id # ch.id
    BY <2>3, <2>6
  <2>8. \A k \in DOMAIN new : k = n + 1 \/ k \in 1..n
    BY <2>4, <2>5
  <2>9. \A j, k \in DOMAIN new : new[j].id = new[k].id => j = k
    BY <2>2, <2>4, <2>7, <2>8 DEF Leads
  <2>10. \A k \in DOMAIN new : k # 1 => Stays(ds, new[k])
    BY <1>3, <2>2, <2>4, <2>8 DEF Leads
  <2>11. new[1] = u
    BY <2>2, <2>4 DEF Leads
  <2>12. Leads(ds, u, new)
    BY <2>2, <2>9, <2>10, <2>11 DEF Leads, T
  <2>13. \A x \in Named(new) \ Named(list) : x = ch.id
    <3>1. ASSUME NEW x \in Named(new) PROVE x = ch.id \/ x \in Named(list)
      <4>1. PICK k \in DOMAIN new : x = new[k].id
        BY <3>1 DEF Named
      <4> QED BY <2>2, <2>6, <2>8, <4>1
    <3> QED BY <3>1
  <2> QED BY <2>3, <2>12, <2>13 DEF new
<1> QED BY <1>2, <1>3 DEF Side

Names(list, c, a, b) ==
  \A x \in Named(list) : x = c \/ (a # <<>> /\ x = a[1].id) \/ (b # <<>> /\ x = b[1].id)

LEMMA LeadsTwo ==
  ASSUME NEW ds, NEW c \in Ids, NEW d, Takes(ds, c, d),
         NEW a, Side(ds, c, a), NEW b, Side(ds, c, b),
         a # <<>> /\ b # <<>> => a[1].id # b[1].id
  PROVE  /\ Leads(ds, Change(c, d), <<Change(c, d)>> \o a \o b)
         /\ Names(<<Change(c, d)>> \o a \o b, c, a, b)
<1> DEFINE u == Change(c, d)
           o == <<u>>
           p == o \o a
           q == p \o b
<1>1. u \in [id : Ids, is : Descriptor] /\ u.id = c
  BY DEF Takes, Change
<1>2. (a # <<>> => a[1].id # c) /\ (b # <<>> => b[1].id # c)
  BY DEF Side
<1> HIDE DEF u
<1>3. Leads(ds, u, o) /\ Named(o) = {c}
  BY <1>1, LeadsAlone
<1> HIDE DEF o
<1>4. Leads(ds, u, p) /\ \A x \in Named(p) \ Named(o) : a # <<>> /\ x = a[1].id
  BY <1>2, <1>3, LeadsMore
<1> HIDE DEF p
<1>5. Leads(ds, u, q) /\ \A x \in Named(q) \ Named(p) : b # <<>> /\ x = b[1].id
  BY <1>2, <1>3, <1>4, LeadsMore
<1>6. Names(q, c, a, b)
  BY <1>3, <1>4, <1>5 DEF Names
<1> QED BY <1>5, <1>6 DEF q, p, o, u

-----------------------------------------------------------------------------
(* Moves.                                                                  *)
TreeOfGame == Tree(descriptors) /\ Grounded(descriptors) /\ children = ChildrenOf(descriptors)

LEMMA ElsewhereTyped ==
  ASSUME Tree(descriptors), NEW k \in Nat, k # InSpace, NEW x \in In(k)
  PROVE  x \in Ids /\ ~ InTableau(descriptors[x]) /\ descriptors[x].on = {} /\ descriptors[x].kind = k
BY DEF In, Locative, InTableau, IsPredecessor

LEMMA PlacesTake ==
  ASSUME TreeOfGame, NEW c \in Ids, NEW d \in Places(c)
  PROVE  Takes(descriptors, c, d)
<1>1. /\ descriptors \in [Ids -> Descriptor]
      /\ \A x, q \in Ids : descriptors[x].on = {q} => children[q] = x
      /\ -1 \notin Ids
  BY ChildrenAre DEF TreeOfGame, Tree
<1>2. CASE \E t \in Tops \ Group(c) : d = Predecessor(t, FALSE)
  <2>1. PICK t \in Tops \ Group(c) : d = Predecessor(t, FALSE)
    BY <1>2
  <2>2. t \in Ids /\ InTableau(descriptors[t]) /\ children[t] = -1 /\ t # c
    BY <2>1 DEF Tops, Group
  <2>3. d \in Descriptor /\ d.on = {t} /\ IsPredecessor(d)
    BY <2>1, <2>2, DescriptorsTyped
  <2>4. \A x \in Ids : descriptors[x].on # {t}
    BY <1>1, <2>2
  <2> QED BY <2>2, <2>3, <2>4 DEF Takes, InTableau
<1>3. CASE d = Locative(InSpace, FALSE)
  <2>1. d \in Descriptor /\ d.on = {} /\ d.kind = InSpace
    BY <1>3, DescriptorsTyped DEF InSpace, Locative
  <2> QED BY <2>1 DEF Takes, InTableau
<1>4. CASE children[c] = -1 /\ \E k \in {InCell, Permanent, InHole} : d = Locative(k, FALSE)
  <2>1. d \in Descriptor /\ d.on = {}
    <3>1. PICK k \in {InCell, Permanent, InHole} : d = Locative(k, FALSE)
      BY <1>4
    <3>2. k \in Nat
      BY DEF InCell, Permanent, InHole
    <3> QED BY <3>1, <3>2, DescriptorsTyped DEF Locative
  <2>2. \A x \in Ids : descriptors[x].on # {c}
    BY <1>1, <1>4
  <2> QED BY <2>1, <2>2 DEF Takes
<1> QED BY <1>2, <1>3, <1>4 DEF Places

LEMMA RelocatedSide ==
  ASSUME Tree(descriptors), NEW c, NEW cards, NEW k \in Nat,
         \A x \in cards : x \in Ids /\ x # c /\ ~ InTableau(descriptors[x]) /\ descriptors[x].on = {}
  PROVE  /\ Side(descriptors, c, Relocated(cards, k))
         /\ Relocated(cards, k) # <<>> => Relocated(cards, k)[1].id \in cards
<1>1. CASE cards = {}
  BY <1>1 DEF Relocated, Side
<1>2. CASE cards # {}
  <2> DEFINE x == CHOOSE y \in cards : TRUE
             ch == Change(x, Locative(k, FALSE))
  <2>1. x \in cards
    BY <1>2
  <2>2. Relocated(cards, k) = <<ch>>
    BY <1>2 DEF Relocated
  <2> HIDE DEF x
  <2>3. Locative(k, FALSE) \in Descriptor /\ Locative(k, FALSE).on = {}
    BY DescriptorsTyped DEF Locative
  <2>4. ch \in [id : Ids, is : Descriptor] /\ ch.id = x /\ ch.is = Locative(k, FALSE)
    BY <2>1, <2>3 DEF Change
  <2> HIDE DEF ch
  <2>5. Stays(descriptors, ch)
    BY <2>1, <2>3, <2>4 DEF Stays
  <2> QED BY <2>1, <2>2, <2>4, <2>5 DEF Side
<1> QED BY <1>1, <1>2

LEMMA TurnedUpSide ==
  ASSUME Tree(descriptors), NEW c \in Ids
  PROVE  /\ Side(descriptors, c, TurnedUp(descriptors[c]))
         /\ TurnedUp(descriptors[c]) # <<>> => TurnedUp(descriptors[c])[1].id \in descriptors[c].on
<1> DEFINE d == descriptors[c]
           q == Parent(d)
           e == [descriptors[q] EXCEPT !.down = FALSE]
           ch == Change(q, e)
<1>1. d \in Descriptor
  BY DEF Tree
<1>2. CASE TurnedUp(d) = <<>>
  BY <1>2 DEF Side
<1>3. CASE IsPredecessor(d) /\ TurnedUp(d) = <<ch>>
  <2>1. q \in Ids /\ q \in d.on /\ q # c
    <3>1. q \in Ids /\ d.on = {q}
      BY <1>1, <1>3, ParentOf
    <3> QED BY <3>1 DEF Tree
  <2>2. descriptors[q] \in Descriptor
    BY <2>1 DEF Tree
  <2>3. e \in Descriptor /\ e.on = descriptors[q].on /\ e.kind = descriptors[q].kind
    BY <2>2 DEF Descriptor
  <2> HIDE DEF e, q
  <2>4. ch \in [id : Ids, is : Descriptor] /\ ch.id = q /\ ch.is = e
    BY <2>1, <2>3 DEF Change
  <2> HIDE DEF ch
  <2>5. Stays(descriptors, ch)
    BY <2>3, <2>4 DEF Stays, InTableau, IsPredecessor
  <2> QED BY <1>3, <2>1, <2>4, <2>5 DEF Side
<1> QED BY <1>2, <1>3 DEF TurnedUp

(* What a move changes fits.                                               *)
LEMMA MovesAreGood ==
  ASSUME TreeOfGame, NEW list \in FromTableau \union FromStock
  PROVE  list # <<>> /\ Fits(descriptors, list)
           /\ Tree(After(descriptors, list)) /\ Grounded(After(descriptors, list))
<1>1. Tree(descriptors) /\ Grounded(descriptors)
  BY DEF TreeOfGame
<1>2. CASE list \in FromTableau
  <2> DEFINE From(c) == {<<Change(c, d)>> \o Covered(d) \o TurnedUp(descriptors[c]) :
                           d \in Places(c) \ {descriptors[c]}}
  <2>10. PICK c \in {x \in Ids : Free(x)} : list \in From(c)
    BY <1>2 DEF FromTableau
  <2>1. PICK d \in Places(c) :
          list = <<Change(c, d)>> \o Covered(d) \o TurnedUp(descriptors[c])
    BY <2>10
  <2>2. Takes(descriptors, c, d)
    BY <2>1, <2>10, PlacesTake
  <2>3. \A x \in In(InHole) :
          x \in Ids /\ x # c /\ ~ InTableau(descriptors[x]) /\ descriptors[x].on = {}
    BY <1>1, <2>10, ElsewhereTyped DEF Free, InHole, InSpace, InCell
  <2>4. /\ Side(descriptors, c, Covered(d))
        /\ Covered(d) # <<>> => Covered(d)[1].id \in In(InHole)
    <3>1. /\ Side(descriptors, c, Relocated(In(InHole), Permanent))
          /\ Relocated(In(InHole), Permanent) # <<>> =>
               Relocated(In(InHole), Permanent)[1].id \in In(InHole)
      BY <1>1, <2>3, RelocatedSide DEF Permanent
    <3> QED BY <3>1 DEF Covered, Side
  <2>5. /\ Side(descriptors, c, TurnedUp(descriptors[c]))
        /\ TurnedUp(descriptors[c]) # <<>> => TurnedUp(descriptors[c])[1].id \in descriptors[c].on
    BY <1>1, <2>10, TurnedUpSide
  <2>6. \A q \in descriptors[c].on : InTableau(descriptors[q])
    BY <1>1, <2>10 DEF Grounded
  <2>7. Covered(d) # <<>> /\ TurnedUp(descriptors[c]) # <<>> =>
          Covered(d)[1].id # TurnedUp(descriptors[c])[1].id
    BY <2>3, <2>4, <2>5, <2>6
  <2> DEFINE a == Covered(d)
             b == TurnedUp(descriptors[c])
  <2>8. a # <<>> /\ b # <<>> => a[1].id # b[1].id
    BY <2>7
  <2>9. list = <<Change(c, d)>> \o a \o b /\ Side(descriptors, c, a) /\ Side(descriptors, c, b)
    BY <2>1, <2>4, <2>5
  <2> HIDE DEF a, b
  <2>11. Leads(descriptors, Change(c, d), list)
    BY <2>10, <2>2, <2>8, <2>9, LeadsTwo DEF Free
  <2> QED BY <1>1, <2>10, <2>2, <2>11, GoodList DEF Leads, Free
<1>3. CASE list \in FromStock
  <2> DEFINE drawn == In(InStock) \union In(InWaste)
             Tips(c) == {{}} \union {{w} : w \in drawn \ {c}}
  <2>11. PICK c \in drawn : list \in UNION {Exposing(c, top) : top \in Tips(c)}
    BY <1>3 DEF FromStock
  <2>12. PICK top \in Tips(c) : list \in Exposing(c, top)
    BY <2>11
  <2> DEFINE left == In(InWaste) \ ({c} \union top)
             new == top \ In(InWaste)
  <2>1. PICK d \in Places(c) :
          list = <<Change(c, d)>> \o Relocated(left, InStock) \o Relocated(new, InWaste) \o Covered(d)
    BY <2>12 DEF Exposing
  <2>2. c \in Ids
    BY <2>11 DEF In
  <2>3. Takes(descriptors, c, d)
    BY <2>1, <2>2, PlacesTake
  <2>4. /\ \A x \in In(InWaste) : x \in Ids /\ ~ InTableau(descriptors[x])
                                    /\ descriptors[x].on = {} /\ descriptors[x].kind = InWaste
        /\ \A x \in In(InStock) : x \in Ids /\ ~ InTableau(descriptors[x])
                                    /\ descriptors[x].on = {} /\ descriptors[x].kind = InStock
        /\ \A x \in In(InHole) : x \in Ids /\ ~ InTableau(descriptors[x])
                                    /\ descriptors[x].on = {} /\ descriptors[x].kind = InHole
    <3>1. /\ InWaste \in Nat /\ InWaste # InSpace /\ InStock \in Nat /\ InStock # InSpace
          /\ InHole \in Nat /\ InHole # InSpace
      BY DEF InWaste, InStock, InHole, InSpace
    <3> QED BY <1>1, <3>1, ElsewhereTyped
  <2>5. /\ InStock \in Nat /\ InWaste \in Nat /\ Permanent \in Nat
        /\ InStock # InWaste /\ InStock # InHole /\ InWaste # InHole
    BY DEF InStock, InWaste, InHole, Permanent
  <2>6. /\ \A x \in left : x \in In(InWaste) /\ x # c
        /\ \A x \in new : x \in In(InStock) /\ x # c
        /\ \A x \in In(InHole) : x # c
    BY <2>4, <2>5, <2>11, <2>12
  <2> HIDE DEF left, new
  <2> DEFINE a == Relocated(left, InStock)
             b == Relocated(new, InWaste)
             e == Covered(d)
             h == Relocated(In(InHole), Permanent)
  <2>7. Side(descriptors, c, a) /\ (a # <<>> => a[1].id \in left)
    BY <1>1, <2>4, <2>5, <2>6, RelocatedSide
  <2>8. Side(descriptors, c, b) /\ (b # <<>> => b[1].id \in new)
    BY <1>1, <2>4, <2>5, <2>6, RelocatedSide
  <2>9. Side(descriptors, c, e) /\ (e # <<>> => e[1].id \in In(InHole))
    <3>1. \A x \in In(InHole) :
            x \in Ids /\ x # c /\ ~ InTableau(descriptors[x]) /\ descriptors[x].on = {}
      BY <2>4, <2>6
    <3>2. Tree(descriptors) /\ Permanent \in Nat
      BY <1>1, <2>5
    <3>3. Side(descriptors, c, h) /\ (h # <<>> => h[1].id \in In(InHole))
      BY <3>1, <3>2, RelocatedSide
    <3> QED BY <3>3 DEF Covered, Side
  <2>10. list = <<Change(c, d)>> \o a \o b \o e
    BY <2>1
  <2> HIDE DEF a, b, e
  <2>13. a # <<>> /\ b # <<>> => a[1].id # b[1].id
    BY <2>4, <2>5, <2>6, <2>7, <2>8
  <2> DEFINE q == <<Change(c, d)>> \o a \o b
  <2>14. /\ Leads(descriptors, Change(c, d), q)
         /\ Names(q, c, a, b)
    <3>1. c \in Ids /\ Takes(descriptors, c, d)
      BY <2>2, <2>3
    <3>2. Side(descriptors, c, a) /\ Side(descriptors, c, b)
      BY <2>7, <2>8
    <3>3. Leads(descriptors, Change(c, d), <<Change(c, d)>> \o a \o b)
      BY <3>1, <3>2, <2>13, LeadsTwo
    <3>4. Names(<<Change(c, d)>> \o a \o b, c, a, b)
      BY <3>1, <3>2, <2>13, LeadsTwo
    <3> QED BY <3>3, <3>4 DEF q
  <2>15. list = q \o e
    BY <2>10
  <2> HIDE DEF q
  <2>16. e # <<>> => e[1].id \notin Named(q)
    BY <2>4, <2>5, <2>6, <2>7, <2>8, <2>9, <2>14 DEF Names
  <2>17. Leads(descriptors, Change(c, d), list)
    BY <2>9, <2>14, <2>15, <2>16, LeadsMore
  <2> QED BY <1>1, <2>2, <2>3, <2>17, GoodList DEF Leads
<1> QED BY <1>2, <1>3

(* A deal lays cards of the stock on tops, and its undo puts them back.    *)
Deals(cards, new, old) ==
  /\ cards \subseteq In(InStock) /\ DOMAIN new = cards
  /\ \A c \in cards : \E t \in Tops : new[c] = Predecessor(t, FALSE)
  /\ \A c, x \in cards : new[c] = new[x] => c = x
  /\ old = [c \in cards |-> descriptors[c]]

LEMMA DealIsGood ==
  ASSUME TreeOfGame, NEW cards, NEW new, NEW old, Deals(cards, new, old)
  PROVE  /\ Tree(Overridden(descriptors, new)) /\ Grounded(Overridden(descriptors, new))
         /\ cards \subseteq Ids /\ old \in [cards -> Descriptor]
         /\ Overridden(Overridden(descriptors, new), old) = descriptors
<1> DEFINE ds == Overridden(descriptors, new)
<1>1. /\ descriptors \in [Ids -> Descriptor] /\ Tree(descriptors) /\ Grounded(descriptors)
      /\ \A x, q \in Ids : descriptors[x].on = {q} => children[q] = x
      /\ -1 \notin Ids
  BY ChildrenAre DEF TreeOfGame, Tree
<1>2. \A x \in In(InStock) : x \in Ids /\ ~ InTableau(descriptors[x])
  BY <1>1, ElsewhereTyped DEF InStock, InSpace
<1>3. \A t \in Tops : /\ t \in Ids /\ InTableau(descriptors[t])
                      /\ \A x \in Ids : descriptors[x].on # {t}
  BY <1>1 DEF Tops
<1>4. \A c \in cards : c \in Ids /\ ~ InTableau(descriptors[c])
  BY <1>2 DEF Deals
<1>5. ASSUME NEW c \in cards
      PROVE  /\ ds[c] = new[c] /\ ds[c] \in Descriptor
             /\ \E t \in Tops : ds[c] = Predecessor(t, FALSE) /\ ds[c].on = {t}
  <2>1. PICK t \in Tops : new[c] = Predecessor(t, FALSE)
    BY DEF Deals
  <2>2. ds[c] = new[c]
    BY <1>4 DEF Overridden, Deals
  <2> HIDE DEF ds
  <2>3. t \in Ids
    BY <1>3
  <2>4. Predecessor(t, FALSE) \in Descriptor /\ Predecessor(t, FALSE).on = {t}
    BY <2>3, DescriptorsTyped
  <2> QED BY <2>1, <2>2, <2>4
<1>6. \A c \in Ids : c \notin cards => ds[c] = descriptors[c]
  BY DEF Overridden, Deals
<1>7. ds \in [Ids -> Descriptor]
  <2>1. \A c \in Ids : ds[c] \in Descriptor
    BY <1>1, <1>5, <1>6
  <2>2. ds = [c \in Ids |-> ds[c]]
    BY DEF Overridden
  <2> HIDE DEF ds
  <2> QED BY <2>1, <2>2
<1>8. old = [c \in cards |-> descriptors[c]] /\ old \in [cards -> Descriptor]
  BY <1>1, <1>4 DEF Deals
<1>9. Overridden(ds, old) = descriptors
  <2>1. \A c \in Ids : Overridden(ds, old)[c] = descriptors[c]
    BY <1>6, <1>8 DEF Overridden
  <2>2. Overridden(ds, old) = [c \in Ids |-> Overridden(ds, old)[c]]
    BY DEF Overridden
  <2> QED BY <1>1, <2>1, <2>2
<1> HIDE DEF ds
<1>13. ASSUME NEW c \in cards
       PROVE  \E t \in Ids : /\ ds[c].on = {t} /\ t # c
                             /\ InTableau(descriptors[t])
                             /\ \A x \in Ids : descriptors[x].on # {t}
  <2>1. PICK t \in Tops : ds[c] = Predecessor(t, FALSE) /\ ds[c].on = {t}
    BY <1>5
  <2>2. t \in Ids /\ InTableau(descriptors[t]) /\ \A x \in Ids : descriptors[x].on # {t}
    BY <1>3
  <2>3. t # c
    BY <1>4, <2>2
  <2> QED BY <2>1, <2>2, <2>3
<1>10. \A c \in Ids : c \notin ds[c].on
  BY ONLY <1>1, <1>6, <1>13 DEF Tree
<1>11. ASSUME NEW c \in Ids, NEW x \in Ids, ds[c].on = ds[x].on, ds[c].on # {}
       PROVE  c = x
  <2>1. CASE c \in cards /\ x \in cards
    <3>1. PICK t \in Tops : ds[c] = Predecessor(t, FALSE) /\ ds[c].on = {t}
      BY <1>5, <2>1
    <3>2. PICK u \in Tops : ds[x] = Predecessor(u, FALSE) /\ ds[x].on = {u}
      BY <1>5, <2>1
    <3>3. t = u
      BY ONLY <1>11, <3>1, <3>2
    <3>4. new[c] = new[x]
      BY <1>5, <2>1, <3>1, <3>2, <3>3
    <3> QED BY <2>1, <3>4 DEF Deals
  <2>2. CASE c \in cards /\ x \notin cards
    BY ONLY <1>6, <1>11, <1>13, <2>2
  <2>3. CASE c \notin cards /\ x \in cards
    BY ONLY <1>6, <1>11, <1>13, <2>3
  <2>4. CASE c \notin cards /\ x \notin cards
    BY ONLY <1>1, <1>6, <1>11, <2>4 DEF Tree
  <2> QED BY ONLY <2>1, <2>2, <2>3, <2>4
<1>12. ASSUME NEW c \in Ids, NEW q \in ds[c].on
       PROVE  InTableau(ds[q])
  <2>1. q \in Ids
    BY ONLY <1>7, <1>12 DEF Descriptor
  <2>2. InTableau(descriptors[q])
    <3>1. CASE c \in cards
      BY ONLY <1>12, <1>13, <3>1
    <3>2. CASE c \notin cards
      BY ONLY <1>1, <1>6, <1>12, <3>2 DEF Grounded
    <3> QED BY ONLY <3>1, <3>2
  <2> QED BY ONLY <1>4, <1>6, <2>1, <2>2
<1> QED BY <1>4, <1>7, <1>8, <1>9, <1>10, <1>11, <1>12 DEF Tree, Grounded, ds

-----------------------------------------------------------------------------
(* Boards to begin with.                                                   *)
LEMMA BoardIsGood ==
  ASSUME NEW b \in Boards
  PROVE  Tree(BoardDescriptors(b)) /\ Grounded(BoardDescriptors(b)) /\ b.mode \in Modes
<1> DEFINE P == b.piles
           ds == BoardDescriptors(b)
           Lies(c, q) == \E i \in DOMAIN P : \E k \in DOMAIN P[i].cards :
                           k # 1 /\ k - 1 \in DOMAIN P[i].cards
                             /\ P[i].cards[k] = c /\ P[i].cards[k - 1] = q
<1>1. /\ b.mode \in Modes
      /\ \A i, j \in DOMAIN P :
           \A k \in DOMAIN P[i].cards : \A l \in DOMAIN P[j].cards :
             P[i].cards[k] = P[j].cards[l] => i = j /\ k = l
  BY CascadeAssumption DEF Modes
<1>2. \A i \in DOMAIN P : P[i].cards \in Seq(Ids) /\ DOMAIN P[i].cards = 1..Len(P[i].cards)
  <2>1. P \in Seq([cards : Seq(Ids), hidden : Nat])
    BY CascadeAssumption DEF N, Ids
  <2>2. \A i \in DOMAIN P : P[i] \in [cards : Seq(Ids), hidden : Nat]
    BY <2>1, ChangesTyped
  <2> QED BY <2>2
<1>3. \A i \in DOMAIN P : \A k \in DOMAIN P[i].cards : P[i].cards[k] \in Ids /\ k \in Nat
  BY <1>2
<1>4. \A c : PilesOf(b, c) # {} <=> \E i \in DOMAIN P : \E k \in DOMAIN P[i].cards : P[i].cards[k] = c
  BY DEF Range, PilesOf
<1> HIDE DEF P
<1>5. ASSUME NEW c \in Ids, PilesOf(b, c) # {}
      PROVE  /\ ds[c] \in Descriptor /\ InTableau(ds[c])
             /\ ds[c].on # {} => \E q \in Ids : ds[c].on = {q} /\ Lies(c, q)
  <2> DEFINE i == CHOOSE j \in PilesOf(b, c) : TRUE
             p == P[i]
             k == CHOOSE l \in DOMAIN p.cards : p.cards[l] = c
  <2>1. ds[c] = OnPile(p, c)
    <3>1. ds[c] = Placed(b, c)
      BY DEF BoardDescriptors
    <3>2. Placed(b, c) = OnPile(b.piles[i], c)
      BY ONLY <1>5, Zenon DEF Placed
    <3> QED BY <3>1, <3>2 DEF P
  <2>2. i \in DOMAIN P /\ \E l \in DOMAIN p.cards : p.cards[l] = c
    <3>1. i \in PilesOf(b, c)
      BY <1>5
    <3> HIDE DEF i
    <3> QED BY <3>1 DEF Range, PilesOf, P
  <2>3. k \in DOMAIN p.cards /\ p.cards[k] = c
    BY <2>2
  <2>4. ds[c] = IF k = 1 THEN Locative(InSpace, p.hidden > 0)
                ELSE Predecessor(p.cards[k - 1], k <= p.hidden)
    BY <2>1 DEF OnPile
  <2> HIDE DEF i, k, ds
  <2>5. (p.hidden > 0) \in BOOLEAN /\ (k <= p.hidden) \in BOOLEAN
    OBVIOUS
  <2>6. CASE k = 1
    <3>1. ds[c] = Locative(InSpace, p.hidden > 0)
      BY <2>4, <2>6
    <3>3. InSpace \in Nat
      BY DEF InSpace
    <3>4. ds[c] \in Descriptor
      BY <2>5, <3>1, <3>3, DescriptorsTyped
    <3>2. ds[c] \in Descriptor /\ ds[c].on = {} /\ ds[c].kind = InSpace
      BY <3>1, <3>4 DEF Locative
    <3> QED BY <3>2 DEF InTableau
  <2>7. CASE k # 1
    <3> DEFINE q == p.cards[k - 1]
    <3>1. k - 1 \in DOMAIN p.cards /\ q \in Ids
      BY <1>2, <1>3, <2>2, <2>3, <2>7
    <3>2. ds[c] = Predecessor(q, k <= p.hidden)
      BY <2>4, <2>7
    <3>3. Lies(c, q)
      BY <2>2, <2>3, <2>7, <3>1
    <3> HIDE DEF q, Lies
    <3>4. ds[c] \in Descriptor /\ ds[c].on = {q} /\ IsPredecessor(ds[c])
      BY <2>5, <3>1, <3>2, DescriptorsTyped
    <3> QED BY <3>1, <3>3, <3>4 DEF InTableau
  <2> QED BY <2>6, <2>7
<1>6. ASSUME NEW c \in Ids, PilesOf(b, c) = {}
      PROVE  ds[c] \in Descriptor /\ ds[c].on = {}
  <2>1. \E k \in {InCell, InStock, InWaste, InHole, Permanent} : ds[c] = Locative(k, FALSE)
    <3>1. ds[c] = Placed(b, c)
      BY DEF BoardDescriptors
    <3> HIDE DEF ds
    <3> QED BY <1>6, <3>1 DEF Placed
  <2>2. PICK k \in {InCell, InStock, InWaste, InHole, Permanent} : ds[c] = Locative(k, FALSE)
    BY <2>1
  <2>3. k \in Nat
    BY DEF InCell, InStock, InWaste, InHole, Permanent
  <2>4. ds[c] \in Descriptor
    BY <2>2, <2>3, DescriptorsTyped
  <2>5. ds[c].on = {}
    BY <2>2 DEF Locative
  <2> QED BY <2>4, <2>5
<1>7. ds = [c \in Ids |-> ds[c]]
  BY DEF BoardDescriptors
<1>8. \A c, q \in Ids : Lies(c, q) => PilesOf(b, q) # {}
  BY <1>4
<1> HIDE DEF ds
<1>9. ds \in [Ids -> Descriptor]
  <2>1. \A c \in Ids : ds[c] \in Descriptor
    BY <1>5, <1>6
  <2> QED BY <1>7, <2>1
<1>10. \A c \in Ids : ds[c].on # {} => \E q \in Ids : ds[c].on = {q} /\ Lies(c, q)
  BY <1>5, <1>6
<1>11. \A c, q \in Ids : Lies(c, q) => c # q
  BY <1>1, <1>3
<1>12. \A c, x, q \in Ids : Lies(c, q) /\ Lies(x, q) => c = x
  <2>1. SUFFICES ASSUME NEW c \in Ids, NEW x \in Ids, NEW q \in Ids, Lies(c, q), Lies(x, q)
                 PROVE  c = x
    OBVIOUS
  <2>2. PICK i \in DOMAIN P : \E k \in DOMAIN P[i].cards :
           k # 1 /\ k - 1 \in DOMAIN P[i].cards /\ P[i].cards[k] = c /\ P[i].cards[k - 1] = q
    BY <2>1
  <2>3. PICK k \in DOMAIN P[i].cards :
           k # 1 /\ k - 1 \in DOMAIN P[i].cards /\ P[i].cards[k] = c /\ P[i].cards[k - 1] = q
    BY <2>2
  <2>4. PICK j \in DOMAIN P : \E l \in DOMAIN P[j].cards :
           l # 1 /\ l - 1 \in DOMAIN P[j].cards /\ P[j].cards[l] = x /\ P[j].cards[l - 1] = q
    BY <2>1
  <2>5. PICK l \in DOMAIN P[j].cards :
           l # 1 /\ l - 1 \in DOMAIN P[j].cards /\ P[j].cards[l] = x /\ P[j].cards[l - 1] = q
    BY <2>4
  <2>6. i = j /\ k - 1 = l - 1
    BY <1>1, <2>3, <2>5
  <2>7. k = l
    BY <1>3, <2>3, <2>5, <2>6
  <2> QED BY <2>3, <2>5, <2>6, <2>7
<1> HIDE DEF Lies
<1>13. Tree(ds)
  <2>1. \A c \in Ids : c \notin ds[c].on
    BY <1>10, <1>11
  <2>2. \A c, x \in Ids : ds[c].on = ds[x].on /\ ds[c].on # {} => c = x
    BY <1>10, <1>12
  <2> QED BY <1>9, <2>1, <2>2 DEF Tree
<1>14. Grounded(ds)
  <2>1. \A c \in Ids : \A q \in ds[c].on : q \in Ids /\ Lies(c, q)
    BY <1>10
  <2> QED BY <1>5, <1>8, <2>1 DEF Grounded
<1> QED BY <1>1, <1>13, <1>14 DEF ds

-----------------------------------------------------------------------------
(* Steps.                                                                  *)

(* What a class has is of the slots of its members alone.                  *)
LEMMA SameMode ==
  ASSUME mode' = mode
  PROVE  /\ \A c : ClassOf(c)' = ClassOf(c)
         /\ Classes' = Classes /\ ClassSize' = ClassSize
         /\ \A cls : MembersOf(cls)' = MembersOf(cls) /\ ClassStart(cls)' = ClassStart(cls)
<1>1. \A c : ClassOf(c)' = ClassOf(c)
  BY DEF ClassOf
<1>2. ClassSize' = ClassSize
  BY DEF ClassSize
<1>3. Classes' = Classes
  BY <1>1 DEF Classes
<1>4. \A cls : MembersOf(cls)' = MembersOf(cls)
  BY <1>1 DEF MembersOf
<1>5. \A cls : ClassStart(cls)' = ClassStart(cls)
  BY <1>2 DEF ClassStart
<1> QED BY <1>1, <1>2, <1>3, <1>4, <1>5

LEMMA SameSlots ==
  ASSUME mode \in Modes, mode' = mode, NEW cls,
         \A m \in MembersOf(cls) : card_slot'[m] = card_slot[m]
  PROVE  /\ \A q \in MembersOf(cls) : Position(q)' = Position(q) /\ SortedPos(q)' = SortedPos(q)
         /\ ClassSum(card_slot, cls)' = ClassSum(card_slot, cls)
<1>1. /\ \A c : ClassOf(c)' = ClassOf(c)
      /\ MembersOf(cls)' = MembersOf(cls) /\ ClassStart(cls)' = ClassStart(cls)
  BY SameMode
<1>2. ASSUME NEW q \in MembersOf(cls)
      PROVE  Position(q)' = Position(q) /\ SortedPos(q)' = SortedPos(q)
  <2>1. ClassOf(q) = cls /\ ClassOf(q)' = cls
    BY <1>1 DEF MembersOf
  <2>2. {x \in MembersOf(cls) : card_slot'[x] < card_slot'[q]}
          = {x \in MembersOf(cls) : card_slot[x] < card_slot[q]}
    OBVIOUS
  <2>3. {x \in MembersOf(cls) : Before(x, q)'} = {x \in MembersOf(cls) : Before(x, q)}
    BY DEF Before
  <2>4. Position(q)' = Position(q)
    BY <1>1, <2>1, <2>2 DEF Position
  <2>5. SortedPos(q)' = SortedPos(q)
    BY <1>1, <2>1, <2>3 DEF SortedPos
  <2> QED BY <2>4, <2>5
<1>3. ClassSum(card_slot, cls)' = ClassSum(card_slot, cls)
  <2>1. {card_slot'[m] : m \in MembersOf(cls)} = {card_slot[m] : m \in MembersOf(cls)}
    OBVIOUS
  <2>2. \A v : {m \in MembersOf(cls) : card_slot'[m] = v} = {m \in MembersOf(cls) : card_slot[m] = v}
    OBVIOUS
  <2> QED BY <1>1, <2>1, <2>2 DEF ClassSum
<1> QED BY <1>2, <1>3

LEMMA SameOrder ==
  ASSUME mode \in Modes, mode' = mode, card_slot \in [Ids -> Int], NEW cls \in Classes, Sorted(cls),
         \A m \in MembersOf(cls) :
           card_slot'[m] = card_slot[m] /\ canonical_pos'[m] = canonical_pos[m]
  PROVE  Sorted(cls)' /\ Stored(card_slot, cls)' = Stored(card_slot, cls)
<1>1. MembersOf(cls)' = MembersOf(cls) /\ ClassStart(cls)' = ClassStart(cls) /\ ClassSize' = ClassSize
  BY SameMode
<1>2. Sorted(cls)'
  BY <1>1, SameSlots DEF Sorted
<1> DEFINE at(j) == CHOOSE m \in MembersOf(cls) : canonical_pos[m] = ClassStart(cls) + j - 1
           then(j) == CHOOSE m \in MembersOf(cls) : canonical_pos'[m] = ClassStart(cls) + j - 1
<1>3. ASSUME NEW j \in 1..ClassSize
      PROVE  at(j) \in MembersOf(cls) /\ then(j) = at(j)
  <2>1. PICK m \in MembersOf(cls) : canonical_pos[m] = ClassStart(cls) + j - 1
    BY StoredInOrder
  <2>2. at(j) \in MembersOf(cls)
    BY <2>1
  <2>3. then(j) = at(j)
    OBVIOUS
  <2> QED BY <2>2, <2>3
<1>4. Stored(card_slot, cls) = [j \in 1..ClassSize |-> card_slot[at(j)]]
  BY DEF Stored
<1>5. Stored(card_slot, cls)' = [j \in 1..ClassSize |-> card_slot'[then(j)]]
  BY <1>1 DEF Stored
<1>6. \A j \in 1..ClassSize : card_slot'[then(j)] = card_slot[at(j)]
  BY <1>3
<1> HIDE DEF at, then
<1> QED BY <1>2, <1>4, <1>5, <1>6

LEMMA NewSlots ==
  ASSUME mode' = mode, canonical_pos' = canonical_pos, NEW slots, slots = card_slot', NEW cls
  PROVE  /\ ClassSum(card_slot, cls)' = ClassSum(slots, cls)
         /\ Stored(card_slot, cls)' = Stored(slots, cls)
<1>1. MembersOf(cls)' = MembersOf(cls) /\ ClassStart(cls)' = ClassStart(cls) /\ ClassSize' = ClassSize
  BY SameMode
<1>2. ClassSum(card_slot, cls)' = ClassSum(slots, cls)
  BY <1>1 DEF ClassSum
<1> DEFINE at(j) == CHOOSE m \in MembersOf(cls) : canonical_pos[m] = ClassStart(cls) + j - 1
           then(j) == CHOOSE m \in MembersOf(cls) : canonical_pos'[m] = ClassStart(cls) + j - 1
<1>3. \A j : then(j) = at(j)
  OBVIOUS
<1>4. Stored(slots, cls) = [j \in 1..ClassSize |-> slots[at(j)]]
  BY DEF Stored
<1>5. Stored(card_slot, cls)' = [j \in 1..ClassSize |-> card_slot'[then(j)]]
  BY ONLY <1>1 DEF Stored
<1> HIDE DEF at, then
<1>6. \A j : card_slot'[then(j)] = slots[at(j)]
  BY <1>3
<1> QED BY <1>2, <1>4, <1>5, <1>6

(* Where slots stay, and descriptors, so does all that is of them.         *)
LEMMA SlotsWait ==
  ASSUME mode \in Modes, descriptors \in [Ids -> Descriptor],
         UNCHANGED <<mode, descriptors, card_slot, canonical_pos>>
  PROVE  /\ Classes' = Classes /\ \A q : ClassOf(q)' = ClassOf(q)
         /\ \A cls : /\ Sorted(cls)' <=> Sorted(cls)
                     /\ ClassSum(card_slot, cls)' = ClassSum(card_slot, cls)
                     /\ Stored(card_slot, cls)' = Stored(card_slot, cls)
         /\ \A x \in Ids : Settled(x)' <=> Settled(x)
         /\ ChildrenOf(descriptors)' = ChildrenOf(descriptors)
<1>1. /\ Classes' = Classes /\ \A q : ClassOf(q)' = ClassOf(q)
      /\ \A cls : MembersOf(cls)' = MembersOf(cls) /\ MembersOf(cls) \subseteq Ids
      /\ \A q \in Ids : q \in MembersOf(ClassOf(q))
  BY SameMode, ClassTyped
<1>2. \A q \in Ids : Position(q)' = Position(q) /\ SortedPos(q)' = SortedPos(q)
  BY <1>1, SameSlots
<1>3. \A cls : Sorted(cls)' <=> Sorted(cls)
  BY <1>1, <1>2 DEF Sorted
<1>4. ASSUME NEW cls
      PROVE  /\ ClassSum(card_slot, cls)' = ClassSum(card_slot, cls)
             /\ Stored(card_slot, cls)' = Stored(card_slot, cls)
  <2>1. PICK slots : slots = card_slot' /\ slots = card_slot
    OBVIOUS
  <2> QED BY <2>1, NewSlots
<1>5. ASSUME NEW x \in Ids
      PROVE  Settled(x)' <=> Settled(x)
  <2>1. IsPredecessor(descriptors[x]) => Parent(descriptors[x]) \in Ids
    BY ParentOf
  <2> QED BY <1>2, <2>1 DEF Settled
<1>6. ChildrenOf(descriptors)' = ChildrenOf(descriptors)
  BY DEF ChildrenOf
<1> QED BY <1>1, <1>3, <1>4, <1>5, <1>6

(* Without symmetry a card is where it is.                                 *)
LEMMA NoneIs ==
  ASSUME mode = "none", card_slot \in [Ids -> Int]
  PROVE  /\ Classes = Ids
         /\ \A c \in Ids : /\ ClassOf(c) = c /\ MembersOf(c) = {c} /\ ClassStart(c) = c
                           /\ Position(c) = c /\ SortedPos(c) = c
<1>1. \A c \in Ids : ClassOf(c) = c /\ MembersOf(c) = {c} /\ ClassStart(c) = c
  BY DeckTyped DEF ClassOf, MembersOf, ClassStart, ClassSize
<1>2. Classes = Ids
  BY DEF Classes, ClassOf
<1>3. ASSUME NEW c \in Ids
      PROVE  Position(c) = c /\ SortedPos(c) = c
  <2>1. Smaller(c) = {} /\ Earlier(c) = {}
    <3>1. card_slot[c] \in Int /\ c \in Nat
      BY DeckTyped
    <3> QED BY <1>1, <3>1 DEF Smaller, Earlier, Before
  <2>2. Position(c) = c + Cardinality({}) /\ SortedPos(c) = c + Cardinality({})
    BY <1>1, <2>1, SmallerTyped DEF Modes
  <2> QED BY <2>2, DeckTyped, FS_EmptySet
<1> QED BY <1>1, <1>2, <1>3

LEMMA NoneWillBe ==
  ASSUME mode' = "none", card_slot' \in [Ids -> Int]
  PROVE  \A c \in Ids : Position(c)' = c /\ SortedPos(c)' = c
<1>1. \A c \in Ids : ClassOf(c)' = c /\ MembersOf(c)' = {c} /\ ClassStart(c)' = c
  BY DeckTyped DEF ClassOf, MembersOf, ClassStart, ClassSize
<1>3. ASSUME NEW c \in Ids
      PROVE  Position(c)' = c /\ SortedPos(c)' = c
  <2>1. {x \in {c} : card_slot'[x] < card_slot'[c]} = {} /\ {x \in {c} : Before(x, c)'} = {}
    <3>1. card_slot'[c] \in Int /\ c \in Nat
      BY DeckTyped
    <3> QED BY <3>1 DEF Before
  <2>2. Position(c)' = c + Cardinality({}) /\ SortedPos(c)' = c + Cardinality({})
    BY <1>1, <2>1 DEF Position, SortedPos
  <2> QED BY <2>2, DeckTyped, FS_EmptySet
<1> QED BY <1>3

(* Slots are numbers.                                                      *)
LEMMA FirstIn ==
  ASSUME canonical_pos \in [Ids -> Nat], NEW S, S \subseteq Ids, S # {}
  PROVE  FirstOf(S) \in S
<1> DEFINE T == {canonical_pos[x] : x \in S}
<1>1. T \subseteq Nat /\ T # {}
  OBVIOUS
<1>2. PICK v \in T : \A w \in T : v <= w
  BY <1>1, LeastOf
<1>3. PICK c \in S : canonical_pos[c] = v
  BY <1>2
<1>4. \A x \in S : canonical_pos[c] <= canonical_pos[x]
  BY <1>2, <1>3
<1> QED BY <1>3, <1>4 DEF FirstOf

LEMMA SlotTyped ==
  ASSUME mode \in Modes, canonical_pos \in [Ids -> Nat], NEW d \in Descriptor
  PROVE  RawSlot(d) \in Int /\ (IsPredecessor(d) => SlotOn(d) \in Int) /\ NewSlot(d) \in Int
<1>1. N \in Nat /\ d.kind \in Nat
  BY DeckTyped, ParentOf
<1>2. \A v \in Int : Reflected(v, d) \in Int
  BY DEF Reflected
<1>3. RawSlot(d) \in Int
  BY <1>1, <1>2, ParentOf DEF RawSlot
<1>4. ASSUME IsPredecessor(d)
      PROVE  SlotOn(d) \in Int
  <2> DEFINE q == Parent(d)
             like == {m \in MembersOf(ClassOf(q)) : card_slot[m] = card_slot[q]}
  <2>1. q \in Ids
    BY <1>4, ParentOf
  <2> HIDE DEF q
  <2>2. q \in like /\ like \subseteq Ids
    BY <2>1, ClassTyped
  <2>3. FirstOf(like) \in Ids
    BY <2>2, FirstIn
  <2>4. CollapsedPos(q) \in Int
    BY <2>3 DEF CollapsedPos
  <2> QED BY <1>2, <2>4 DEF SlotOn, q
<1> QED BY <1>3, <1>4 DEF NewSlot

(* The descriptors that undoing leads through, as moves come and go.       *)
LEMMA ChainKept ==
  ASSUME GameInv, frames' = frames, Tree(descriptors)', Fits(descriptors, todo)',
         After(descriptors, todo)' = After(descriptors, todo)
  PROVE  GameInv'
<1>1. PICK D \in [0..Len(frames) -> [Ids -> Descriptor]] : Chain(D)
  BY DEF GameInv
<1>2. Chain(D)'
  BY <1>1 DEF Chain
<1>3. D \in [0..Len(frames') -> [Ids -> Descriptor]]
  OBVIOUS
<1> QED BY <1>2, <1>3 DEF GameInv

LEMMA ChainPushed ==
  ASSUME GameInv, frames \in Seq(Frame), NEW frame \in Frame, frames' = Append(frames, frame),
         todo = <<>>, Tree(descriptors)', Fits(descriptors, todo)',
         NEW new \in [Ids -> Descriptor], new = After(descriptors, todo)',
         Tree(new), Grounded(new), Undone(new, frame, descriptors)
  PROVE  GameInv'
<1>1. PICK D \in [0..Len(frames) -> [Ids -> Descriptor]] : Chain(D)
  BY DEF GameInv
<1>2. /\ Len(frames) \in Nat /\ Len(frames') = Len(frames) + 1
      /\ \A k \in 1..Len(frames) : frames'[k] = frames[k]
      /\ frames'[Len(frames) + 1] = frame
  <2> HIDE DEF Frame
  <2> QED BY AppendProperties, LenProperties
<1>3. descriptors \in [Ids -> Descriptor] /\ D[Len(frames)] = descriptors
  BY <1>1, NothingAfter DEF GameInv, Tree, Chain
<1> DEFINE n == Len(frames)
<1>4. PICK E \in [0..n + 1 -> [Ids -> Descriptor]] : E[n + 1] = new /\ \A k \in 0..n : E[k] = D[k]
  <2> DEFINE F == [k \in 0..n + 1 |-> IF k = n + 1 THEN new ELSE D[k]]
  <2>1. F \in [0..n + 1 -> [Ids -> Descriptor]] /\ F[n + 1] = new /\ \A k \in 0..n : F[k] = D[k]
    BY <1>2
  <2> HIDE DEF F
  <2> QED BY <2>1
<1>5. E[n + 1] = new /\ \A k \in 0..n : E[k] = D[k]
  BY <1>4
<1> HIDE DEF n
<1>6. n \in Nat
  BY <1>2 DEF n
<1>7. \A k \in 0..n + 1 : Tree(E[k]) /\ Grounded(E[k])
  <2>1. \A k \in 0..n : Tree(D[k]) /\ Grounded(D[k])
    BY <1>1 DEF Chain, n
  <2>2. \A k \in 0..n + 1 : k \in 0..n \/ k = n + 1
    BY <1>6
  <2>3. \A k \in 0..n : E[k] = D[k]
    BY <1>5
  <2> QED BY <1>5, <2>1, <2>2, <2>3
<1>8. \A k \in 1..n + 1 : Undone(E[k], frames'[k], E[k - 1])
  <2>1. ASSUME NEW k \in 1..n
        PROVE  Undone(E[k], frames'[k], E[k - 1])
    <3>1. Undone(D[k], frames[k], D[k - 1])
      BY <1>1 DEF Chain, n
    <3>2. k \in 0..n /\ k - 1 \in 0..n
      BY <1>6
    <3> QED BY <1>2, <1>5, <3>1, <3>2 DEF n
  <2>2. Undone(E[n + 1], frames'[n + 1], E[(n + 1) - 1])
    <3>1. (n + 1) - 1 = n /\ n \in 0..n
      BY <1>6
    <3>2. E[n] = descriptors
      BY <1>3, <1>5, <3>1 DEF n
    <3> QED BY <1>2, <1>5, <3>1, <3>2 DEF n
  <2>3. \A k \in 1..n + 1 : k \in 1..n \/ k = n + 1
    BY <1>6
  <2> QED BY <2>1, <2>2, <2>3
<1>9. Chain(E)'
  <2>1. Len(frames') = n + 1
    BY <1>2 DEF n
  <2>2. E[Len(frames')] = After(descriptors, todo)'
    BY <1>5, <2>1
  <2> QED BY <1>7, <1>8, <2>1, <2>2 DEF Chain
<1>10. E \in [0..Len(frames') -> [Ids -> Descriptor]]
  BY <1>2, <1>4 DEF n
<1> QED BY <1>9, <1>10 DEF GameInv

LEMMA ChainTop ==
  ASSUME GameInv, frames \in Seq(Frame), frames # <<>>, todo = <<>>, NEW last, last = frames[Len(frames)]
  PROVE  \E before \in [Ids -> Descriptor] :
           /\ Tree(before) /\ Grounded(before) /\ Undone(descriptors, last, before)
           /\ frames' = SubSeq(frames, 1, Len(frames) - 1) /\ Tree(descriptors)'
                /\ Fits(descriptors, todo)' /\ After(descriptors, todo)' = before
              => GameInv' /\ frames' \in Seq(Frame)
<1>1. PICK D \in [0..Len(frames) -> [Ids -> Descriptor]] : Chain(D)
  BY DEF GameInv
<1> DEFINE n == Len(frames)
<1>2. n \in Nat \ {0}
  BY EmptySeq
<1> HIDE DEF n
<1>3. descriptors \in [Ids -> Descriptor] /\ D[n] = descriptors
  BY <1>1, NothingAfter DEF GameInv, Tree, Chain, n
<1>4. /\ D[n - 1] \in [Ids -> Descriptor] /\ Tree(D[n - 1]) /\ Grounded(D[n - 1])
      /\ Undone(descriptors, last, D[n - 1])
  <2>1. n - 1 \in 0..n /\ n \in 1..n
    BY <1>2
  <2>2. D[n - 1] \in [Ids -> Descriptor]
    BY <2>1 DEF n
  <2>3. Tree(D[n - 1]) /\ Grounded(D[n - 1])
    BY <1>1, <2>1 DEF Chain, n
  <2>4. Undone(D[n], frames[n], D[n - 1])
    BY <1>1, <2>1 DEF Chain, n
  <2>5. last = frames[n]
    BY DEF n
  <2> QED BY <1>3, <2>2, <2>3, <2>4, <2>5
<1>5. ASSUME frames' = SubSeq(frames, 1, n - 1), Tree(descriptors)', Fits(descriptors, todo)',
             After(descriptors, todo)' = D[n - 1]
      PROVE  GameInv' /\ frames' \in Seq(Frame)
  <2>1. frames' \in Seq(Frame) /\ Len(frames') = n - 1 /\ \A k \in 1..n - 1 : frames'[k] = frames[k]
    <3> HIDE DEF Frame
    <3>1. /\ SubSeq(frames, 1, n - 1) \in Seq(Frame)
          /\ Len(SubSeq(frames, 1, n - 1)) = n - 1
          /\ \A k \in 1..n - 1 : SubSeq(frames, 1, n - 1)[k] = frames[k]
      BY <1>2 DEF n
    <3> QED BY <1>5, <3>1
  <2>2. PICK E \in [0..n - 1 -> [Ids -> Descriptor]] : \A k \in 0..n - 1 : E[k] = D[k]
    <3> DEFINE F == [k \in 0..n - 1 |-> D[k]]
    <3>1. F \in [0..n - 1 -> [Ids -> Descriptor]] /\ \A k \in 0..n - 1 : F[k] = D[k]
      BY <1>2 DEF n
    <3> HIDE DEF F
    <3> QED BY <3>1
  <2>3. \A k \in 0..n - 1 : Tree(E[k]) /\ Grounded(E[k])
    BY <1>1, <1>2, <2>2 DEF Chain, n
  <2>4. ASSUME NEW k \in 1..n - 1
        PROVE  Undone(E[k], frames'[k], E[k - 1])
    <3>1. Undone(D[k], frames[k], D[k - 1])
      BY <1>1, <1>2 DEF Chain, n
    <3>2. k \in 0..n - 1 /\ k - 1 \in 0..n - 1
      BY <1>2
    <3> QED BY <2>1, <2>2, <3>1, <3>2
  <2>5. E[Len(frames')] = After(descriptors, todo)'
    BY <1>2, <1>5, <2>1, <2>2
  <2>6. Chain(E)'
    BY <2>1, <2>3, <2>4, <2>5 DEF Chain
  <2>7. E \in [0..Len(frames') -> [Ids -> Descriptor]]
    BY <2>1, <2>2
  <2>8. GameInv'
    BY <1>5, <2>6, <2>7 DEF GameInv
  <2> QED BY <2>1, <2>8
<1> QED BY <1>4, <1>5 DEF n

LEMMA EngineInitially ==
  ASSUME CascadeInit
  PROVE  EngineInv
<1>1. PICK b \in Boards : mode = b.mode /\ descriptors = BoardDescriptors(b)
  BY DEF CascadeInit
<1>2. Tree(descriptors) /\ Grounded(descriptors) /\ mode \in Modes
  BY <1>1, BoardIsGood
<1>3. canonical_pos \in [Ids -> Nat] /\ (mode = "none" => \A c \in Ids : canonical_pos[c] = c)
  <2> DEFINE first(c) == {x \in MembersOf(ClassOf(c)) : x < c}
  <2>1. canonical_pos = [c \in Ids |-> ClassStart(ClassOf(c)) + Cardinality(first(c))]
    BY DEF CascadeInit
  <2>2. \A c \in Ids : ClassStart(ClassOf(c)) \in Nat /\ Cardinality(first(c)) \in Nat
    <3>1. \A c \in Ids : IsFiniteSet(first(c))
      BY <1>2, ClassTyped, FS_Subset
    <3> QED BY <1>2, <3>1, ClassTyped, FS_CardinalityType
  <2>3. ASSUME mode = "none", NEW c \in Ids
        PROVE  canonical_pos[c] = c
    <3>1. card_slot \in [Ids -> Int]
      BY DEF CascadeInit
    <3>2. ClassStart(ClassOf(c)) = c /\ MembersOf(ClassOf(c)) = {c}
      BY <2>3, <3>1, NoneIs
    <3>3. first(c) = {}
      BY <3>2, DeckTyped
    <3> QED BY <2>1, <3>2, <3>3, FS_EmptySet, DeckTyped
  <2> QED BY <2>1, <2>2, <2>3
<1>4. card_slot \in [Ids -> Int]
  BY DEF CascadeInit
<1>5. EngineTyped
  <2>1. frames \in Seq(Frame)
    BY DEF CascadeInit
  <2>2. /\ class_sum = [cls \in Classes |-> class_sum[cls]]
        /\ store = [cls \in Classes |-> store[cls]]
    BY DEF CascadeInit
  <2>3. stage = "recompute" /\ todo = <<>> /\ dirty = {} /\ next_dirty = {} /\ waiting = {} /\ changed = {}
    BY DEF CascadeInit
  <2> QED BY <1>2, <1>3, <1>4, <2>1, <2>2, <2>3 DEF EngineTyped
<1>6. GameInv
  <2>1. descriptors \in [Ids -> Descriptor] /\ todo = <<>> /\ frames = <<>>
    BY <1>2 DEF Tree, CascadeInit
  <2>2. Fits(descriptors, todo) /\ After(descriptors, todo) = descriptors
    BY <2>1, NothingAfter
  <2> DEFINE D == [k \in 0..0 |-> descriptors]
  <2>3. D \in [0..Len(frames) -> [Ids -> Descriptor]] /\ \A k \in 0..0 : D[k] = descriptors
    BY <2>1
  <2> HIDE DEF D
  <2>4. Chain(D)
    BY <1>2, <2>1, <2>2, <2>3 DEF Chain
  <2> QED BY <1>2, <2>2, <2>3, <2>4 DEF GameInv
<1> QED BY <1>5, <1>6 DEF EngineInv, SettleInv, CascadeInv, CascadeInit

(* What the other steps of an engine leave as it is.                       *)
LEMMA GameWaits ==
  ASSUME EngineInv, UNCHANGED <<descriptors, frames, todo>>
  PROVE  GameInv'
<1>1. Tree(descriptors)' /\ Fits(descriptors, todo)'
        /\ After(descriptors, todo)' = After(descriptors, todo)
  BY DEF EngineInv, GameInv, Tree, Fits, After
<1> QED BY <1>1, ChainKept DEF EngineInv

LEMMA AllWritten ==
  ASSUME mode' = mode, card_slot' \in [Ids -> Int], canonical_pos' = canonical_pos, descriptors' = descriptors,
         NEW slots, slots = card_slot', Written(slots)
  PROVE  /\ \A cls \in Classes : Kept(cls)'
         /\ children' = ChildrenOf(descriptors)'
         /\ class_sum' = [cls \in Classes |-> class_sum'[cls]]
         /\ store' = [cls \in Classes |-> store'[cls]]
<1>1. /\ Classes' = Classes /\ ClassSize' = ClassSize
      /\ \A cls : MembersOf(cls)' = MembersOf(cls) /\ ClassStart(cls)' = ClassStart(cls)
  BY SameMode
<1>2. /\ class_sum' = [cls \in Classes |-> ClassSum(slots, cls)]
      /\ store' = [cls \in Classes |-> Stored(slots, cls)]
      /\ children' = ChildrenOf(descriptors)
  BY DEF Written
<1>3. \A cls : ClassSum(card_slot, cls)' = ClassSum(slots, cls)
  BY NewSlots
<1>4. \A cls : Stored(card_slot, cls)' = Stored(slots, cls)
  BY NewSlots
<1>5. \A cls \in Classes : Kept(cls)'
  BY <1>2, <1>3, <1>4 DEF Kept
<1>6. children' = ChildrenOf(descriptors)'
  BY <1>2 DEF ChildrenOf
<1> QED BY <1>2, <1>5, <1>6

LEMMA RecomputeStep ==
  ASSUME EngineInv, Recompute
  PROVE  EngineInv'
<1>1. /\ mode' = mode /\ mode \in Modes /\ descriptors' = descriptors /\ canonical_pos' = canonical_pos
      /\ descriptors \in [Ids -> Descriptor] /\ canonical_pos \in [Ids -> Nat] /\ todo = <<>>
      /\ waiting' = {} /\ dirty' = {} /\ next_dirty' = {} /\ changed' = {}
      /\ (mode = "none" => \A c \in Ids : canonical_pos[c] = c)
      /\ card_slot' = [c \in Ids |-> RawSlot(descriptors[c])]
  BY DEF EngineInv, EngineTyped, GameInv, Tree, Recompute, cascade
<1>2. card_slot' \in [Ids -> Int]
  BY <1>1, SlotTyped
<1>3. GameInv'
  BY GameWaits DEF Recompute
<1>4. CASE mode = "none"
  <2> DEFINE slots == card_slot'
  <2>1. stage' = "idle" /\ Written(slots)
    BY <1>4 DEF Recompute, Written
  <2>2. /\ \A cls \in Classes : Kept(cls)'
        /\ children' = ChildrenOf(descriptors)'
        /\ class_sum' = [cls \in Classes |-> class_sum'[cls]]
        /\ store' = [cls \in Classes |-> store'[cls]]
    BY <1>1, <1>2, <2>1, AllWritten
  <2>3. \A c \in Ids : Position(c)' = c /\ SortedPos(c)' = c
    BY <1>1, <1>2, <1>4, NoneWillBe
  <2>4. \A c \in Ids : Settled(c)'
    <3>1. ASSUME NEW c \in Ids
          PROVE  Settled(c)'
      <4>1. IsPredecessor(descriptors[c]) => Parent(descriptors[c]) \in Ids
        BY <1>1, ParentOf
      <4>2. card_slot'[c] = RawSlot(descriptors[c])
        BY <1>1
      <4> QED BY <1>1, <1>4, <2>3, <4>1, <4>2 DEF Settled, RawSlot
    <3> QED BY <3>1
  <2>5. Classes' = Classes /\ \A cls : MembersOf(cls)' = MembersOf(cls) /\ MembersOf(cls) \subseteq Ids
    BY <1>1, SameMode, ClassTyped
  <2>6. \A cls \in Classes : Sorted(cls)'
    BY <1>1, <1>4, <2>3, <2>5 DEF Sorted
  <2>7. EngineTyped'
    BY <1>1, <1>2, <1>4, <2>1, <2>2, <2>5 DEF EngineInv, EngineTyped, Recompute
  <2>8. CascadeInv'
    BY <1>1, <2>2, <2>4, <2>5, <2>6 DEF CascadeInv, Unsettled, Touched
  <2>9. SettleInv'
    BY <2>1 DEF SettleInv
  <2> QED BY <1>3, <2>7, <2>8, <2>9 DEF EngineInv
<1>5. CASE mode # "none"
  <2>1. stage' = "sort" /\ UNCHANGED <<class_sum, store, children>>
    BY <1>5 DEF Recompute, hash_and_store
  <2>2. Classes' = Classes
    BY <1>1, SameMode
  <2>3. EngineTyped'
    BY <1>1, <1>2, <1>5, <2>1, <2>2 DEF EngineInv, EngineTyped, Recompute
  <2>4. \A c \in Ids : ~ IsPredecessor(descriptors[c]) => Settled(c)'
    BY <1>1 DEF Settled, RawSlot
  <2>5. SettleInv'
    BY <1>1, <2>1, <2>4 DEF SettleInv
  <2>6. CascadeInv'
    BY <2>1 DEF CascadeInv
  <2> QED BY <1>3, <2>3, <2>5, <2>6 DEF EngineInv
<1> QED BY <1>4, <1>5

LEMMA SortStep ==
  ASSUME EngineInv, Sort
  PROVE  EngineInv'
<1>1. /\ mode' = mode /\ mode \in Modes /\ mode # "none" /\ descriptors' = descriptors
      /\ card_slot' = card_slot /\ card_slot \in [Ids -> Int] /\ todo = <<>>
      /\ waiting' = {c \in Ids : IsPredecessor(descriptors[c])} /\ changed' = {}
      /\ dirty' = {} /\ next_dirty' = {} /\ stage = "sort" /\ stage' = "settle"
  BY DEF EngineInv, EngineTyped, Sort
<1>2. \A c \in Ids : ClassOf(c) \in Classes
  BY <1>1, ClassTyped
<1>3. canonical_pos' = [c \in Ids |-> SortedPos(c)]
  BY <1>2 DEF Sort, SortClasses
<1>4. canonical_pos' \in [Ids -> Nat]
  BY <1>1, <1>3, SmallerTyped
<1>5. GameInv'
  BY GameWaits DEF Sort
<1>6. /\ Classes' = Classes
      /\ \A cls : MembersOf(cls)' = MembersOf(cls) /\ MembersOf(cls) \subseteq Ids
      /\ \A c \in Ids : c \in MembersOf(ClassOf(c))
  BY <1>1, SameMode, ClassTyped
<1>7. \A c \in Ids : Position(c)' = Position(c) /\ SortedPos(c)' = SortedPos(c)
  BY <1>1, <1>6, SameSlots
<1>8. EngineTyped'
  BY <1>1, <1>4, <1>6 DEF EngineInv, EngineTyped, Sort, hash_and_store
<1>9. SettleInv'
  <2>1. \A cls \in Classes : Sorted(cls)'
    BY <1>3, <1>6, <1>7 DEF Sorted
  <2>2. \A c \in Ids : ~ IsPredecessor(descriptors[c]) => Settled(c)'
    BY <1>1 DEF EngineInv, SettleInv, Settled
  <2> QED BY <1>1, <1>6, <2>1, <2>2 DEF SettleInv
<1>10. CascadeInv'
  BY <1>1 DEF CascadeInv
<1> QED BY <1>5, <1>8, <1>9, <1>10 DEF EngineInv

LEMMA SettleCardStep ==
  ASSUME EngineInv, SettleCard
  PROVE  EngineInv'
<1> DEFINE m == Min(waiting)
           d == descriptors[m]
<1>1. /\ mode' = mode /\ mode \in Modes /\ mode # "none" /\ descriptors' = descriptors
      /\ card_slot \in [Ids -> Int] /\ todo = <<>> /\ waiting \subseteq Ids /\ waiting # {}
      /\ stage = "settle" /\ stage' = "settle" /\ canonical_pos' = canonical_pos
      /\ canonical_pos \in [Ids -> Nat] /\ descriptors \in [Ids -> Descriptor]
      /\ dirty' = {} /\ next_dirty' = {}
  BY DEF EngineInv, EngineTyped, GameInv, Tree, SettleCard
<1>2. m \in waiting /\ m \in Ids
  BY <1>1, MinOf, DeckTyped
<1>3. card_slot' = [card_slot EXCEPT ![m] = SlotOn(d)]
        /\ changed' = changed \union Changed(m, SlotOn(d)) /\ waiting' = waiting \ {m}
  BY DEF SettleCard, SetSlot
<1> HIDE DEF m
<1>4. IsPredecessor(d) /\ d \in Descriptor /\ Parent(d) \in Ids
  <2>1. IsPredecessor(d)
    BY <1>1, <1>2 DEF EngineInv, SettleInv
  <2> QED BY <1>1, <1>2, <2>1, ParentOf
<1>5. SlotOn(d) \in Int
  BY <1>1, <1>4, SlotTyped
<1>6. card_slot' \in [Ids -> Int] /\ changed' \subseteq Ids /\ waiting' \subseteq Ids
  BY <1>1, <1>2, <1>3, <1>5 DEF EngineInv, EngineTyped, Changed
<1>7. GameInv'
  BY GameWaits DEF SettleCard
<1>8. /\ Classes' = Classes
      /\ \A cls : MembersOf(cls)' = MembersOf(cls) /\ MembersOf(cls) \subseteq Ids
      /\ \A c \in Ids : c \in MembersOf(ClassOf(c)) /\ ClassOf(c) \in Classes
  BY <1>1, SameMode, ClassTyped
<1>9. EngineTyped'
  BY <1>1, <1>6, <1>8 DEF EngineInv, EngineTyped, SettleCard, hash_and_store
<1>10. \A c \in Ids : ~ IsPredecessor(descriptors[c]) => Settled(c)'
  <2>1. \A c \in Ids : ~ IsPredecessor(descriptors[c]) => Settled(c) /\ card_slot'[c] = card_slot[c]
    BY <1>1, <1>2, <1>3, <1>4 DEF EngineInv, SettleInv
  <2> QED BY <1>1, <2>1 DEF Settled
<1>11. \A c \in waiting' : IsPredecessor(descriptors[c])
  BY <1>1, <1>3 DEF EngineInv, SettleInv
<1>12. ASSUME changed' = {}
       PROVE  (\A cls \in Classes : Sorted(cls)') /\ \A c \in Ids \ waiting' : Settled(c)'
  <2>1. changed = {} /\ SlotOn(d) = card_slot[m] /\ card_slot' = card_slot
    BY <1>1, <1>2, <1>3, <1>12 DEF Changed
  <2>2. (\A cls \in Classes : Sorted(cls)) /\ \A c \in Ids \ waiting : Settled(c)
    BY <1>1, <2>1 DEF EngineInv, SettleInv
  <2>3. \A c \in Ids : Position(c)' = Position(c) /\ SortedPos(c)' = SortedPos(c)
    BY <1>1, <1>8, <2>1, SameSlots
  <2>4. \A cls \in Classes : Sorted(cls)'
    BY <1>1, <1>8, <2>2, <2>3 DEF Sorted
  <2>5. Settled(m)
    <3>1. CollapsedPos(Parent(d)) = Position(Parent(d))
      BY <1>1, <1>4, <1>8, <2>2, CollapsedIsPosition
    <3> QED BY <1>4, <2>1, <3>1 DEF Settled, SlotOn
  <2>6. ASSUME NEW c \in Ids \ waiting'
        PROVE  Settled(c)'
    <3>1. Settled(c)
      BY <1>3, <2>2, <2>5
    <3>2. IsPredecessor(descriptors[c]) => Parent(descriptors[c]) \in Ids
      BY <1>1, ParentOf
    <3> QED BY <1>1, <2>1, <2>3, <3>1, <3>2 DEF Settled
  <2> QED BY <2>4, <2>6
<1>13. SettleInv'
  BY <1>1, <1>8, <1>10, <1>11, <1>12 DEF SettleInv
<1>14. CascadeInv'
  BY <1>1 DEF CascadeInv
<1> QED BY <1>7, <1>9, <1>13, <1>14 DEF EngineInv

LEMMA NextRoundStep ==
  ASSUME EngineInv, NextRound
  PROVE  EngineInv'
<1>1. /\ mode' = mode /\ descriptors' = descriptors /\ card_slot' = card_slot /\ stage = "settle"
      /\ stage' = "sort" /\ waiting' = {}
  BY DEF NextRound
<1>2. GameInv'
  BY GameWaits DEF NextRound
<1>3. Classes' = Classes
  BY <1>1, SameMode
<1>4. EngineTyped'
  BY <1>1, <1>3 DEF EngineInv, EngineTyped, NextRound, hash_and_store, cascade
<1>5. SettleInv'
  <2>1. \A c \in Ids : ~ IsPredecessor(descriptors[c]) => Settled(c)'
    BY <1>1 DEF EngineInv, SettleInv, Settled
  <2> QED BY <1>1, <2>1 DEF SettleInv
<1>6. CascadeInv'
  BY <1>1 DEF CascadeInv
<1> QED BY <1>2, <1>4, <1>5, <1>6 DEF EngineInv

LEMMA WriteStep ==
  ASSUME EngineInv, Write
  PROVE  EngineInv'
<1>1. /\ mode' = mode /\ mode \in Modes /\ mode # "none" /\ descriptors' = descriptors
      /\ card_slot' = card_slot /\ card_slot \in [Ids -> Int] /\ canonical_pos' = canonical_pos
      /\ stage = "settle" /\ stage' = "idle" /\ descriptors \in [Ids -> Descriptor]
      /\ waiting = {} /\ waiting' = {} /\ changed = {} /\ changed' = {}
      /\ dirty' = {} /\ next_dirty' = {} /\ todo = <<>>
  BY DEF EngineInv, EngineTyped, GameInv, Tree, Write, Written, cascade
<1>2. GameInv'
  BY GameWaits DEF Write
<1>3. /\ \A cls \in Classes : Kept(cls)'
      /\ children' = ChildrenOf(descriptors)'
      /\ class_sum' = [cls \in Classes |-> class_sum'[cls]]
      /\ store' = [cls \in Classes |-> store'[cls]]
  <2>1. Written(card_slot')
    BY <1>1 DEF Write, Written
  <2> QED BY <1>1, <2>1, AllWritten
<1>4. /\ Classes' = Classes /\ \A cls : Sorted(cls)' <=> Sorted(cls)
      /\ \A x \in Ids : Settled(x)' <=> Settled(x)
  BY <1>1, SlotsWait
<1>5. EngineTyped'
  BY <1>1, <1>3, <1>4 DEF EngineInv, EngineTyped, Write
<1>6. (\A cls \in Classes : Sorted(cls)) /\ \A c \in Ids : Settled(c)
  BY <1>1 DEF EngineInv, SettleInv
<1>7. CascadeInv'
  BY <1>1, <1>3, <1>4, <1>6 DEF CascadeInv, Unsettled, Touched
<1>8. SettleInv'
  BY <1>1 DEF SettleInv
<1> QED BY <1>2, <1>5, <1>7, <1>8 DEF EngineInv

(* A slot that is given to a card leaves classes as they were, but for the *)
(* card's own if that is news.                                             *)
LEMMA SlotGiven ==
  ASSUME EngineInv, stage \in {"update", "cascade"}, mode' = mode, NEW c \in Ids, NEW new \in Int,
         card_slot' = [card_slot EXCEPT ![c] = new], canonical_pos' = canonical_pos,
         class_sum' = class_sum, store' = store,
         changed' = changed \union Changed(c, new),
         Unsettled' = Unsettled \union {ClassOf(x) : x \in Changed(c, new)}
  PROVE  /\ card_slot' \in [Ids -> Int] /\ changed' \subseteq Ids /\ Classes' = Classes
         /\ Unsettled' \subseteq Touched'
         /\ \A cls \in Classes \ Unsettled' : Sorted(cls)'
         /\ \A cls \in Classes \ Touched' : Kept(cls)'
         /\ \A q \in Ids : ClassOf(q) \notin Unsettled' =>
              Position(q)' = Position(q) /\ CollapsedPos(q) = Position(q)
<1>1. /\ mode \in Modes /\ card_slot \in [Ids -> Int] /\ changed \subseteq Ids
      /\ Unsettled \subseteq Touched
      /\ \A cls \in Classes \ Unsettled : Sorted(cls)
      /\ \A cls \in Classes \ Touched : Kept(cls)
  BY DEF EngineInv, EngineTyped, CascadeInv
<1>2. /\ Classes' = Classes /\ \A x : ClassOf(x)' = ClassOf(x)
      /\ \A cls : MembersOf(cls)' = MembersOf(cls) /\ MembersOf(cls) \subseteq Ids
      /\ \A x \in Ids : x \in MembersOf(ClassOf(x)) /\ ClassOf(x) \in Classes
  BY <1>1, SameMode, ClassTyped
<1>3. card_slot' \in [Ids -> Int] /\ changed' \subseteq Ids
  BY <1>1 DEF Changed
<1>4. Touched' = Touched \union {ClassOf(x) : x \in Changed(c, new)}
  BY <1>2 DEF Touched
<1>5. ASSUME NEW cls, cls \notin {ClassOf(x) : x \in Changed(c, new)}
      PROVE  \A m \in MembersOf(cls) :
               card_slot'[m] = card_slot[m] /\ canonical_pos'[m] = canonical_pos[m]
  <2>1. ASSUME NEW m \in MembersOf(cls)
        PROVE  card_slot'[m] = card_slot[m]
    <3>1. m \in Ids /\ ClassOf(m) = cls
      BY DEF MembersOf
    <3>2. m = c => new = card_slot[c]
      BY <1>5, <3>1 DEF Changed
    <3> QED BY <1>1, <3>1, <3>2
  <2> QED BY <2>1
<1>6. ASSUME NEW cls \in Classes \ Unsettled'
      PROVE  Sorted(cls) /\ Sorted(cls)' /\ Stored(card_slot, cls)' = Stored(card_slot, cls)
               /\ ClassSum(card_slot, cls)' = ClassSum(card_slot, cls)
               /\ \A q \in MembersOf(cls) : Position(q)' = Position(q)
  <2>1. cls \notin {ClassOf(x) : x \in Changed(c, new)} /\ Sorted(cls)
    BY <1>1
  <2> QED BY <1>1, <1>5, <2>1, SameSlots, SameOrder
<1>7. \A cls \in Classes \ Touched' : Kept(cls)'
  <2>1. ASSUME NEW cls \in Classes \ Touched'
        PROVE  Kept(cls)'
    <3>1. Kept(cls) /\ cls \notin Unsettled'
      BY <1>1, <1>4
    <3> QED BY <1>6, <3>1 DEF Kept
  <2> QED BY <2>1
<1>8. ASSUME NEW q \in Ids, ClassOf(q) \notin Unsettled'
      PROVE  Position(q)' = Position(q) /\ CollapsedPos(q) = Position(q)
  <2>1. ClassOf(q) \in Classes \ Unsettled'
    BY <1>2, <1>8
  <2> QED BY <1>1, <1>2, <1>6, <2>1, CollapsedIsPosition
<1> QED BY <1>1, <1>2, <1>3, <1>4, <1>6, <1>7, <1>8

(* The first change of the list is made.                                   *)
LEMMA DescribedStep ==
  ASSUME EngineInv, stage = "update", frames' = frames, Described(Head(todo).id, Head(todo).is)
  PROVE  /\ Head(todo).id \in Ids /\ Head(todo).is \in Descriptor
         /\ descriptors \in [Ids -> Descriptor] /\ descriptors' \in [Ids -> Descriptor]
         /\ descriptors' = [descriptors EXCEPT ![Head(todo).id] = Head(todo).is]
         /\ children' = ChildrenOf(descriptors)' /\ GameInv'
         /\ todo' = Tail(todo)
<1> DEFINE c == Head(todo).id
           d == Head(todo).is
           made == [descriptors EXCEPT ![c] = d]
<1>1. /\ todo # <<>> /\ Fits(descriptors, todo) /\ Tree(descriptors)
      /\ descriptors \in [Ids -> Descriptor] /\ children = ChildrenOf(descriptors)
  BY DEF EngineInv, EngineTyped, GameInv, CascadeInv, Tree
<1>2. PICK D \in [0..Len(frames) -> [Ids -> Descriptor]] : Chain(D)
  BY DEF EngineInv, GameInv
<1>3. Tree(After(descriptors, todo))
  <2>1. Len(frames) \in Nat
    BY DEF EngineInv, EngineTyped
  <2> QED BY <1>2, <2>1 DEF Chain
<1>4. /\ c \in Ids /\ d \in Descriptor /\ made \in [Ids -> Descriptor]
      /\ Fits(made, Tail(todo)) /\ After(made, Tail(todo)) = After(descriptors, todo)
      /\ Tree(made)
  BY <1>1, <1>3, AfterHead
<1>5. descriptors' = made /\ todo' = Tail(todo)
  BY DEF Described
<1>6. children' = LET freed == IF IsPredecessor(descriptors[c])
                               THEN [children EXCEPT ![Parent(descriptors[c])] = -1] ELSE children
                  IN IF IsPredecessor(d) THEN [freed EXCEPT ![Parent(d)] = c] ELSE freed
  BY DEF Described
<1> HIDE DEF c, d
<1>7. ChildrenOf(made) = children'
  BY <1>1, <1>4, <1>6, ChildrenDescribed
<1>8. ChildrenOf(descriptors)' = ChildrenOf(made)
  BY <1>5 DEF ChildrenOf
<1>9. Tree(descriptors)' /\ Fits(descriptors, todo)'
        /\ After(descriptors, todo)' = After(descriptors, todo)
  <2> HIDE DEF made
  <2>1. Tree(descriptors)'
    BY <1>4, <1>5 DEF Tree
  <2>2. Fits(descriptors, todo)'
    BY <1>4, <1>5 DEF Fits
  <2>3. After(descriptors, todo)' = After(made, Tail(todo))
    BY <1>5 DEF After
  <2> QED BY <1>4, <2>1, <2>2, <2>3
<1>10. GameInv'
  BY <1>9, ChainKept DEF EngineInv
<1> QED BY <1>1, <1>4, <1>5, <1>7, <1>8, <1>10 DEF c, d

LEMMA DescribeNoneStep ==
  ASSUME EngineInv, DescribeNone
  PROVE  EngineInv'
<1> DEFINE c == Head(todo).id
           d == Head(todo).is
<1>1. /\ mode' = mode /\ mode = "none" /\ mode \in Modes /\ stage = "update"
      /\ stage' = (IF Tail(todo) = <<>> THEN "idle" ELSE stage)
      /\ canonical_pos' = canonical_pos /\ canonical_pos \in [Ids -> Nat] /\ card_slot \in [Ids -> Int]
      /\ changed' = {} /\ changed = {} /\ waiting' = {} /\ waiting = {}
      /\ dirty' = dirty /\ next_dirty' = next_dirty /\ dirty \subseteq Classes /\ next_dirty = {}
      /\ \A x \in Ids : canonical_pos[x] = x
      /\ class_sum = [cls \in Classes |-> class_sum[cls]] /\ store = [cls \in Classes |-> store[cls]]
  BY DEF EngineInv, EngineTyped, DescribeNone, cascade
<1>2. /\ Described(c, d) /\ card_slot' = [card_slot EXCEPT ![c] = RawSlot(d)]
      /\ class_sum' = [class_sum EXCEPT ![c] = ClassSum(card_slot', c)]
      /\ store' = [store EXCEPT ![c] = Stored(card_slot', c)]
  BY DEF DescribeNone
<1>3. /\ c \in Ids /\ d \in Descriptor
      /\ descriptors \in [Ids -> Descriptor] /\ descriptors' \in [Ids -> Descriptor]
      /\ descriptors' = [descriptors EXCEPT ![c] = d]
      /\ children' = ChildrenOf(descriptors)' /\ GameInv' /\ todo' = Tail(todo)
  BY <1>1, <1>2, DescribedStep DEF DescribeNone
<1> HIDE DEF c, d
<1>4. card_slot' \in [Ids -> Int]
  BY <1>1, <1>2, <1>3, SlotTyped
<1>5. /\ Classes = Ids /\ Classes' = Ids /\ ClassSize' = ClassSize
      /\ \A x \in Ids : /\ ClassOf(x) = x /\ ClassOf(x)' = x
                        /\ MembersOf(x) = {x} /\ MembersOf(x)' = {x} /\ ClassStart(x)' = ClassStart(x)
                        /\ Position(x) = x /\ SortedPos(x) = x /\ Position(x)' = x /\ SortedPos(x)' = x
  BY <1>1, <1>4, NoneIs, NoneWillBe, SameMode
<1>6. dirty = {} /\ Unsettled' = {} /\ Touched' = {} /\ Touched = {}
  <2>1. Touched = {} /\ Unsettled \subseteq Touched
    BY <1>1 DEF EngineInv, CascadeInv, Touched
  <2> QED BY <1>1, <2>1 DEF Unsettled, Touched
<1>7. \A x \in Ids : Sorted(x) /\ Sorted(x)'
  BY <1>1, <1>5 DEF Sorted
<1>8. \A x \in Ids : Kept(x)'
  <2>1. ASSUME NEW x \in Ids, x # c
        PROVE  Kept(x)'
    <3>1. Kept(x)
      BY <1>1, <1>5, <1>6 DEF EngineInv, CascadeInv
    <3>2. \A m \in MembersOf(x) : card_slot'[m] = card_slot[m] /\ canonical_pos'[m] = canonical_pos[m]
      BY <1>1, <1>2, <1>5, <2>1
    <3>3. ClassSum(card_slot, x)' = ClassSum(card_slot, x) /\ Stored(card_slot, x)' = Stored(card_slot, x)
      BY <1>1, <1>5, <1>7, <3>2, SameSlots, SameOrder
    <3>4. class_sum'[x] = class_sum[x] /\ store'[x] = store[x]
      BY <1>1, <1>2, <1>5, <2>1
    <3> QED BY <3>1, <3>3, <3>4 DEF Kept
  <2>2. ASSUME NEW x \in Ids, x = c
        PROVE  Kept(x)'
    <3>1. class_sum'[x] = ClassSum(card_slot', x) /\ store'[x] = Stored(card_slot', x)
      BY <1>1, <1>2, <1>5, <2>2
    <3>2. PICK slots : slots = card_slot'
      OBVIOUS
    <3>3. ClassSum(card_slot, x)' = ClassSum(slots, x) /\ Stored(card_slot, x)' = Stored(slots, x)
      BY <1>1, <3>2, NewSlots
    <3>4. class_sum'[x] = ClassSum(slots, x) /\ store'[x] = Stored(slots, x)
      BY <3>1, <3>2
    <3> QED BY <3>3, <3>4 DEF Kept
  <2> QED BY <2>1, <2>2
<1>9. \A x \in Ids : Settled(x)'
  <2>1. ASSUME NEW x \in Ids
        PROVE  Settled(x)'
    <3>1. IsPredecessor(descriptors'[x]) => Parent(descriptors'[x]) \in Ids
      BY <1>3, ParentOf
    <3>2. CASE x = c
      <4>1. card_slot'[x] = RawSlot(d) /\ descriptors'[x] = d
        BY <1>1, <1>2, <1>3, <3>2
      <4> QED BY <1>1, <1>5, <3>1, <4>1 DEF Settled, RawSlot
    <3>3. CASE x # c
      <4>1. card_slot'[x] = card_slot[x] /\ descriptors'[x] = descriptors[x]
        BY <1>1, <1>2, <1>3, <3>3
      <4>2. Settled(x)
        <5>1. Unsettled = {}
          BY <1>1, <1>6 DEF Unsettled
        <5> QED BY <1>1, <5>1 DEF EngineInv, CascadeInv
      <4> QED BY <1>5, <3>1, <4>1, <4>2 DEF Settled
    <3> QED BY <3>2, <3>3
  <2> QED BY <2>1
<1>10. EngineTyped'
  <2>1. class_sum' = [cls \in Classes' |-> class_sum'[cls]] /\ store' = [cls \in Classes' |-> store'[cls]]
    BY <1>1, <1>2, <1>5
  <2>2. frames' = frames /\ frames \in Seq(Frame)
    BY DEF DescribeNone, EngineInv, EngineTyped
  <2>3. stage' = "update" <=> todo' # <<>>
    BY <1>1, <1>3
  <2> QED BY <1>1, <1>4, <1>6, <2>1, <2>2, <2>3 DEF EngineTyped
<1>11. SettleInv'
  BY <1>1 DEF SettleInv
<1>12. CascadeInv'
  BY <1>1, <1>3, <1>5, <1>6, <1>7, <1>8, <1>9 DEF CascadeInv
<1> QED BY <1>3, <1>10, <1>11, <1>12 DEF EngineInv

LEMMA DescribeStep ==
  ASSUME EngineInv, Describe
  PROVE  EngineInv'
<1> DEFINE at == Head(todo).id
           is == Head(todo).is
<1>1. /\ mode' = mode /\ mode # "none" /\ mode \in Modes /\ stage = "update"
      /\ stage' = (IF Tail(todo) = <<>> THEN "cascade" ELSE stage)
      /\ canonical_pos' = canonical_pos /\ canonical_pos \in [Ids -> Nat] /\ card_slot \in [Ids -> Int]
      /\ waiting' = {} /\ waiting = {} /\ next_dirty' = {} /\ next_dirty = {} /\ dirty \subseteq Classes
      /\ class_sum' = class_sum /\ store' = store /\ frames' = frames /\ frames \in Seq(Frame)
      /\ class_sum = [cls \in Classes |-> class_sum[cls]] /\ store = [cls \in Classes |-> store[cls]]
  BY DEF EngineInv, EngineTyped, Describe, hash_and_store
<1>2. /\ Described(at, is) /\ card_slot' = [card_slot EXCEPT ![at] = NewSlot(is)]
      /\ changed' = changed \union Changed(at, NewSlot(is))
      /\ dirty' = dirty \union {ClassOf(x) : x \in Changed(at, NewSlot(is))}
  BY DEF Describe, SetSlot
<1>3. /\ at \in Ids /\ is \in Descriptor
      /\ descriptors \in [Ids -> Descriptor] /\ descriptors' \in [Ids -> Descriptor]
      /\ descriptors' = [descriptors EXCEPT ![at] = is]
      /\ children' = ChildrenOf(descriptors)' /\ GameInv' /\ todo' = Tail(todo)
  BY <1>1, <1>2, DescribedStep
<1> HIDE DEF at, is
<1>4. PICK c \in Ids, d \in Descriptor : c = at /\ d = is
  BY <1>3
<1>5. NewSlot(d) \in Int /\ (IsPredecessor(d) => Parent(d) \in Ids)
  BY <1>1, SlotTyped, ParentOf
<1>6. Unsettled' = Unsettled \union {ClassOf(x) : x \in Changed(c, NewSlot(d))}
  BY <1>1, <1>2, <1>4 DEF Unsettled
<1>7. /\ card_slot' \in [Ids -> Int] /\ changed' \subseteq Ids /\ Classes' = Classes
      /\ Unsettled' \subseteq Touched'
      /\ \A cls \in Classes \ Unsettled' : Sorted(cls)'
      /\ \A cls \in Classes \ Touched' : Kept(cls)'
      /\ \A q \in Ids : ClassOf(q) \notin Unsettled' =>
           Position(q)' = Position(q) /\ CollapsedPos(q) = Position(q)
  <2> DEFINE new == NewSlot(d)
  <2>1. card_slot' = [card_slot EXCEPT ![c] = new] /\ changed' = changed \union Changed(c, new)
    BY <1>2, <1>4
  <2>2. Unsettled' = Unsettled \union {ClassOf(x) : x \in Changed(c, new)} /\ new \in Int
    BY <1>5, <1>6
  <2> HIDE DEF new
  <2> QED BY <1>1, <2>1, <2>2, SlotGiven
<1>8. ASSUME NEW x \in Ids
      PROVE  \/ Settled(x)'
             \/ /\ IsPredecessor(descriptors'[x])
                /\ ClassOf(Parent(descriptors'[x])) \in Unsettled'
  <2>1. IsPredecessor(descriptors'[x]) => Parent(descriptors'[x]) \in Ids
    BY <1>3, ParentOf
  <2>2. SUFFICES ASSUME IsPredecessor(descriptors'[x]) =>
                          ClassOf(Parent(descriptors'[x])) \notin Unsettled'
                 PROVE  Settled(x)'
    OBVIOUS
  <2>3. CASE x = c
    <3>1. card_slot'[x] = NewSlot(d) /\ descriptors'[x] = d
      BY <1>1, <1>2, <1>3, <1>4, <2>3
    <3>2. IsPredecessor(d) => CollapsedPos(Parent(d)) = Position(Parent(d))'
      BY <1>7, <2>1, <2>2, <3>1
    <3> QED BY <3>1, <3>2 DEF Settled, NewSlot, SlotOn, RawSlot
  <2>4. CASE x # c
    <3>1. card_slot'[x] = card_slot[x] /\ descriptors'[x] = descriptors[x]
      BY <1>1, <1>2, <1>3, <1>4, <2>4
    <3>2. Settled(x)
      <4>1. \/ Settled(x)
            \/ IsPredecessor(descriptors[x]) /\ ClassOf(Parent(descriptors[x])) \in Unsettled
        BY <1>1 DEF EngineInv, CascadeInv
      <4> QED BY <1>6, <2>2, <3>1, <4>1
    <3> QED BY <1>7, <2>1, <2>2, <3>1, <3>2 DEF Settled
  <2> QED BY <2>3, <2>4
<1>9. \A q \in Ids : ClassOf(q)' = ClassOf(q) /\ ClassOf(q) \in Classes
  BY <1>1, SameMode, ClassTyped
<1>10. EngineTyped'
  <2>1. dirty' \subseteq Classes
    BY <1>1, <1>2, <1>4, <1>9 DEF Changed
  <2>2. stage' = "update" <=> todo' # <<>>
    BY <1>1, <1>3
  <2> QED BY <1>1, <1>7, <2>1, <2>2 DEF EngineTyped
<1>11. SettleInv'
  BY <1>1 DEF SettleInv
<1>12. CascadeInv'
  <2>1. \A x \in Ids : IsPredecessor(descriptors'[x]) =>
          ClassOf(Parent(descriptors[x]))' = ClassOf(Parent(descriptors'[x]))
    BY <1>3, <1>9, ParentOf, SameMode, <1>1
  <2> QED BY <1>1, <1>3, <1>7, <1>8, <2>1 DEF CascadeInv
<1> QED BY <1>3, <1>10, <1>11, <1>12 DEF EngineInv

LEMMA MoveChildStep ==
  ASSUME EngineInv, MoveChild
  PROVE  EngineInv'
<1>1. /\ mode' = mode /\ mode # "none" /\ mode \in Modes /\ stage = "cascade" /\ stage' = stage
      /\ canonical_pos' = canonical_pos /\ canonical_pos \in [Ids -> Nat] /\ card_slot \in [Ids -> Int]
      /\ waiting # {} /\ waiting \subseteq Ids /\ dirty' = dirty /\ dirty \subseteq Classes
      /\ next_dirty \subseteq Classes /\ descriptors' = descriptors /\ descriptors \in [Ids -> Descriptor]
      /\ class_sum' = class_sum /\ store' = store /\ frames' = frames /\ frames \in Seq(Frame)
      /\ class_sum = [cls \in Classes |-> class_sum[cls]] /\ store = [cls \in Classes |-> store[cls]]
      /\ todo' = <<>> /\ children' = children /\ children = ChildrenOf(descriptors) /\ Tree(descriptors)
  BY DEF EngineInv, EngineTyped, GameInv, CascadeInv, Tree, MoveChild, hash_and_store
<1>2. PICK m \in waiting : m = FirstOf(waiting)
  BY <1>1, FirstIn
<1>3. children[m] \in Ids /\ descriptors[children[m]].on = {m}
  BY <1>1, <1>2, ChildrenAre DEF EngineInv, CascadeInv
<1>4. PICK c \in Ids, d \in Descriptor : c = children[m] /\ d = descriptors[c] /\ d.on = {m}
  BY <1>1, <1>3
<1>5. IsPredecessor(d) /\ Parent(d) = m /\ m \in Ids
  BY <1>1, <1>2, <1>4, ParentOf DEF IsPredecessor
<1>6. PICK new \in Int : new = SlotOn(d)
  BY <1>1, <1>5, SlotTyped
<1>7. /\ card_slot' = [card_slot EXCEPT ![c] = new]
      /\ changed' = changed \union Changed(c, new)
      /\ waiting' = waiting \ {m}
      /\ next_dirty' = next_dirty \union {ClassOf(x) : x \in Changed(c, new)}
  BY <1>2, <1>4, <1>6 DEF MoveChild, SetSlot, ChildSlot
<1>8. Unsettled' = Unsettled \union {ClassOf(x) : x \in Changed(c, new)}
  BY <1>1, <1>7 DEF Unsettled
<1>9. /\ card_slot' \in [Ids -> Int] /\ changed' \subseteq Ids /\ Classes' = Classes
      /\ Unsettled' \subseteq Touched'
      /\ \A cls \in Classes \ Unsettled' : Sorted(cls)'
      /\ \A cls \in Classes \ Touched' : Kept(cls)'
      /\ \A q \in Ids : ClassOf(q) \notin Unsettled' =>
           Position(q)' = Position(q) /\ CollapsedPos(q) = Position(q)
  BY <1>1, <1>7, <1>8, SlotGiven
<1>10. ASSUME NEW x \in Ids
       PROVE  \/ Settled(x)'
              \/ /\ IsPredecessor(descriptors[x])
                 /\ \/ Parent(descriptors[x]) \in waiting'
                    \/ ClassOf(Parent(descriptors[x])) \in Unsettled'
  <2>1. IsPredecessor(descriptors[x]) =>
          Parent(descriptors[x]) \in Ids /\ descriptors[x].on = {Parent(descriptors[x])}
    BY <1>1, ParentOf
  <2>2. SUFFICES ASSUME IsPredecessor(descriptors[x]) =>
                          /\ Parent(descriptors[x]) \notin waiting'
                          /\ ClassOf(Parent(descriptors[x])) \notin Unsettled'
                 PROVE  Settled(x)'
    OBVIOUS
  <2>3. CASE x = c
    <3>1. card_slot'[x] = new /\ descriptors[x] = d
      BY <1>1, <1>4, <1>7, <2>3
    <3>2. CollapsedPos(m) = Position(m)'
      BY <1>5, <1>9, <2>2, <3>1
    <3> QED BY <1>1, <1>5, <1>6, <3>1, <3>2 DEF Settled, SlotOn
  <2>4. CASE x # c
    <3>1. card_slot'[x] = card_slot[x]
      BY <1>1, <1>7, <2>4
    <3>2. IsPredecessor(descriptors[x]) => Parent(descriptors[x]) # m
      <4>1. ASSUME IsPredecessor(descriptors[x]), Parent(descriptors[x]) = m
            PROVE  FALSE
        <5>1. descriptors[x].on = descriptors[c].on /\ descriptors[x].on # {}
          BY <1>4, <2>1, <4>1
        <5>2. x = c
          BY <1>1, <5>1 DEF Tree
        <5> QED BY <2>4, <5>2
      <4> QED BY <4>1
    <3>3. Settled(x)
      <4>1. \/ Settled(x)
            \/ /\ IsPredecessor(descriptors[x])
               /\ \/ Parent(descriptors[x]) \in waiting
                  \/ ClassOf(Parent(descriptors[x])) \in Unsettled
        BY <1>1 DEF EngineInv, CascadeInv
      <4> QED BY <1>7, <1>8, <2>2, <3>2, <4>1
    <3> QED BY <1>1, <1>9, <2>1, <2>2, <3>1, <3>3 DEF Settled
  <2> QED BY <2>3, <2>4
<1>11. \A q \in Ids : ClassOf(q)' = ClassOf(q) /\ ClassOf(q) \in Classes
  BY <1>1, SameMode, ClassTyped
<1>12. EngineTyped'
  <2>1. next_dirty' \subseteq Classes
    BY <1>1, <1>7, <1>11 DEF Changed
  <2> QED BY <1>1, <1>7, <1>9, <2>1 DEF EngineTyped
<1>13. SettleInv'
  BY <1>1 DEF SettleInv
<1>14. GameInv'
  BY GameWaits DEF MoveChild
<1>15. CascadeInv'
  <2>1. children' = ChildrenOf(descriptors)'
    BY <1>1 DEF ChildrenOf
  <2>2. \A q \in waiting' : IsPredecessor(descriptors[children[q]]) /\ children[q] # -1
    BY <1>1, <1>7 DEF EngineInv, CascadeInv
  <2>3. \A x \in Ids : IsPredecessor(descriptors[x]) =>
          ClassOf(Parent(descriptors[x]))' = ClassOf(Parent(descriptors[x]))
    BY <1>1, <1>11, ParentOf
  <2> QED BY <1>1, <1>9, <1>10, <2>1, <2>2, <2>3 DEF CascadeInv
<1> QED BY <1>12, <1>13, <1>14, <1>15 DEF EngineInv

LEMMA CascadeClassStep ==
  ASSUME EngineInv, CascadeClass
  PROVE  EngineInv'
<1>1. /\ mode' = mode /\ mode # "none" /\ mode \in Modes /\ stage = "cascade" /\ stage' = stage
      /\ canonical_pos \in [Ids -> Nat] /\ card_slot \in [Ids -> Int] /\ card_slot' = card_slot
      /\ waiting = {} /\ dirty # {} /\ dirty \subseteq Classes /\ next_dirty' = next_dirty
      /\ next_dirty \subseteq Classes /\ descriptors' = descriptors /\ descriptors \in [Ids -> Descriptor]
      /\ class_sum' = class_sum /\ store' = store /\ frames' = frames /\ frames \in Seq(Frame)
      /\ class_sum = [cls \in Classes |-> class_sum[cls]] /\ store = [cls \in Classes |-> store[cls]]
      /\ todo' = <<>> /\ children' = children /\ children = ChildrenOf(descriptors) /\ Tree(descriptors)
      /\ changed' = changed /\ changed \subseteq Ids
  BY DEF EngineInv, EngineTyped, GameInv, CascadeInv, Tree, CascadeClass, hash_and_store
<1>2. PICK new \in dirty : new = Min(dirty)
  BY <1>1, MinOf, ClassTyped
<1>3. /\ canonical_pos' = [id \in Ids |-> IF ClassOf(id) = new THEN SortedPos(id) ELSE canonical_pos[id]]
      /\ dirty' = dirty \ {new}
      /\ waiting' = {m \in MembersOf(new) : children[m] # -1 /\ IsPredecessor(descriptors[children[m]])}
  BY <1>2 DEF CascadeClass, SortClasses
<1>4. /\ Classes' = Classes /\ \A q \in Ids : ClassOf(q)' = ClassOf(q) /\ ClassOf(q) \in Classes
      /\ \A cls : MembersOf(cls)' = MembersOf(cls) /\ MembersOf(cls) \subseteq Ids
      /\ \A q \in Ids : q \in MembersOf(ClassOf(q))
  BY <1>1, SameMode, ClassTyped
<1>5. canonical_pos' \in [Ids -> Nat] /\ waiting' \subseteq Ids
  <2>1. \A q \in Ids : SortedPos(q) \in Nat
    BY <1>1, SmallerTyped
  <2> QED BY <1>1, <1>3, <1>4, <2>1
<1>6. \A q \in Ids : Position(q)' = Position(q) /\ SortedPos(q)' = SortedPos(q)
  BY <1>1, <1>4, SameSlots
<1>7. Touched' = Touched /\ Unsettled' \subseteq Unsettled /\ Unsettled \subseteq Unsettled' \union {new}
  BY <1>1, <1>3, <1>4 DEF Touched, Unsettled
<1>8. ASSUME NEW cls \in Classes \ Unsettled'
      PROVE  Sorted(cls)'
  <2>1. CASE cls = new
    BY <1>3, <1>4, <1>6, <2>1 DEF Sorted, MembersOf
  <2>2. CASE cls # new
    <3>1. Sorted(cls)
      BY <1>1, <1>7, <2>2 DEF EngineInv, CascadeInv
    <3>2. \A q \in MembersOf(cls) : canonical_pos'[q] = canonical_pos[q]
      BY <1>3, <2>2 DEF MembersOf
    <3> QED BY <1>4, <1>6, <3>1, <3>2 DEF Sorted
  <2> QED BY <2>1, <2>2
<1>9. ASSUME NEW cls \in Classes \ Touched'
      PROVE  Kept(cls)'
  <2>1. Kept(cls) /\ Sorted(cls) /\ cls # new
    <3>1. Unsettled \subseteq Touched /\ new \in Unsettled
      BY <1>1 DEF EngineInv, CascadeInv, Unsettled
    <3> QED BY <1>1, <1>7, <3>1 DEF EngineInv, CascadeInv
  <2>2. \A q \in MembersOf(cls) :
          card_slot'[q] = card_slot[q] /\ canonical_pos'[q] = canonical_pos[q]
    BY <1>1, <1>3, <2>1 DEF MembersOf
  <2>3. ClassSum(card_slot, cls)' = ClassSum(card_slot, cls) /\ Stored(card_slot, cls)' = Stored(card_slot, cls)
    BY <1>1, <2>1, <2>2, SameSlots, SameOrder
  <2> QED BY <1>1, <2>1, <2>3 DEF Kept
<1>10. ASSUME NEW x \in Ids
       PROVE  \/ Settled(x)'
              \/ /\ IsPredecessor(descriptors[x])
                 /\ \/ Parent(descriptors[x]) \in waiting'
                    \/ ClassOf(Parent(descriptors[x])) \in Unsettled'
  <2>1. IsPredecessor(descriptors[x]) =>
          Parent(descriptors[x]) \in Ids /\ descriptors[x].on = {Parent(descriptors[x])}
    BY <1>1, ParentOf
  <2>2. CASE Settled(x)
    BY <1>1, <1>6, <2>1, <2>2 DEF Settled
  <2>3. CASE IsPredecessor(descriptors[x]) /\ ClassOf(Parent(descriptors[x])) = new
    <3>1. children[Parent(descriptors[x])] = x
      BY <1>1, <2>1, <2>3, ChildrenAre
    <3>2. x # -1
      BY DeckTyped
    <3> QED BY <1>3, <1>4, <2>1, <2>3, <3>1, <3>2
  <2>4. CASE IsPredecessor(descriptors[x]) /\ ClassOf(Parent(descriptors[x])) \in Unsettled \ {new}
    BY <1>7, <2>4
  <2>5. \/ Settled(x)
        \/ IsPredecessor(descriptors[x]) /\ ClassOf(Parent(descriptors[x])) \in Unsettled
    BY <1>1 DEF EngineInv, CascadeInv
  <2> QED BY <2>2, <2>3, <2>4, <2>5
<1>11. EngineTyped'
  BY <1>1, <1>3, <1>4, <1>5 DEF EngineTyped
<1>12. SettleInv'
  BY <1>1 DEF SettleInv
<1>13. GameInv'
  BY GameWaits DEF CascadeClass
<1>14. CascadeInv'
  <2>1. children' = ChildrenOf(descriptors)'
    BY <1>1 DEF ChildrenOf
  <2>2. \A x \in Ids : IsPredecessor(descriptors[x]) =>
          ClassOf(Parent(descriptors[x]))' = ClassOf(Parent(descriptors[x]))
    BY <1>1, <1>4, ParentOf
  <2>3. Unsettled' \subseteq Touched'
    BY <1>1, <1>7 DEF EngineInv, CascadeInv
  <2> QED BY <1>1, <1>3, <1>4, <1>8, <1>9, <1>10, <2>1, <2>2, <2>3 DEF CascadeInv
<1> QED BY <1>11, <1>12, <1>13, <1>14 DEF EngineInv

LEMMA CascadeOnStep ==
  ASSUME EngineInv, CascadeOn
  PROVE  EngineInv'
<1>1. /\ mode' = mode /\ mode \in Modes /\ stage = "cascade" /\ stage' = stage
      /\ waiting' = {} /\ waiting = {} /\ dirty' = next_dirty /\ dirty = {} /\ next_dirty' = {}
      /\ UNCHANGED <<descriptors, frames, card_slot, canonical_pos, children, class_sum, store,
                     todo, changed>>
      /\ descriptors \in [Ids -> Descriptor]
  BY DEF EngineInv, EngineTyped, GameInv, Tree, CascadeOn, hash_and_store
<1>2. /\ Classes' = Classes /\ \A q : ClassOf(q)' = ClassOf(q)
      /\ \A cls : /\ Sorted(cls)' <=> Sorted(cls)
                  /\ ClassSum(card_slot, cls)' = ClassSum(card_slot, cls)
                  /\ Stored(card_slot, cls)' = Stored(card_slot, cls)
      /\ \A x \in Ids : Settled(x)' <=> Settled(x)
      /\ ChildrenOf(descriptors)' = ChildrenOf(descriptors)
  BY <1>1, SlotsWait
<1>3. Unsettled' = Unsettled /\ Touched' = Touched
  BY <1>1, <1>2 DEF Unsettled, Touched
<1>4. \A cls : Kept(cls)' <=> Kept(cls)
  BY <1>1, <1>2 DEF Kept
<1>5. CascadeInv'
  BY <1>1, <1>2, <1>3, <1>4 DEF EngineInv, CascadeInv
<1>6. EngineTyped'
  BY <1>1, <1>2 DEF EngineInv, EngineTyped
<1>7. SettleInv'
  BY <1>1 DEF SettleInv
<1>8. GameInv'
  BY <1>1, GameWaits
<1> QED BY <1>5, <1>6, <1>7, <1>8 DEF EngineInv

LEMMA WriteBackStep ==
  ASSUME EngineInv, WriteBack
  PROVE  EngineInv'
<1>1. /\ mode' = mode /\ mode \in Modes /\ mode # "none" /\ stage = "cascade" /\ stage' = "idle"
      /\ waiting' = {} /\ waiting = {} /\ dirty' = {} /\ next_dirty' = {} /\ Unsettled = {}
      /\ changed' = {} /\ todo = <<>> /\ descriptors \in [Ids -> Descriptor]
      /\ UNCHANGED <<descriptors, frames, card_slot, canonical_pos, children, todo>>
      /\ class_sum' = [cls \in Classes |-> IF cls \in Touched
                         THEN ClassSum(card_slot, cls) ELSE class_sum[cls]]
      /\ store' = [cls \in Classes |-> IF cls \in Touched
                     THEN Stored(card_slot, cls) ELSE store[cls]]
  BY DEF EngineInv, EngineTyped, GameInv, Tree, WriteBack, Touched, Unsettled
<1>2. /\ Classes' = Classes
      /\ \A cls : /\ Sorted(cls)' <=> Sorted(cls)
                  /\ ClassSum(card_slot, cls)' = ClassSum(card_slot, cls)
                  /\ Stored(card_slot, cls)' = Stored(card_slot, cls)
      /\ \A x \in Ids : Settled(x)' <=> Settled(x)
      /\ ChildrenOf(descriptors)' = ChildrenOf(descriptors)
  BY <1>1, SlotsWait
<1>3. /\ children = ChildrenOf(descriptors)
      /\ \A cls \in Classes : Sorted(cls)
      /\ \A cls \in Classes \ Touched : Kept(cls)
      /\ \A x \in Ids : Settled(x)
  BY <1>1 DEF EngineInv, CascadeInv
<1>4. \A cls \in Classes : Kept(cls)'
  BY <1>1, <1>2, <1>3 DEF Kept
<1>5. CascadeInv'
  BY <1>1, <1>2, <1>3, <1>4 DEF CascadeInv, Unsettled, Touched
<1>6. EngineTyped'
  BY <1>1, <1>2 DEF EngineInv, EngineTyped
<1>7. SettleInv'
  BY <1>1 DEF SettleInv
<1>8. GameInv'
  BY <1>1, GameWaits
<1> QED BY <1>5, <1>6, <1>7, <1>8 DEF EngineInv

(* At rest a game is as its moves left it.                                 *)
LEMMA AtRest ==
  ASSUME EngineInv, stage = "idle"
  PROVE  TreeOfGame /\ todo = <<>> /\ frames \in Seq(Frame) /\ descriptors \in [Ids -> Descriptor]
<1>1. /\ todo = <<>> /\ frames \in Seq(Frame) /\ Tree(descriptors)
      /\ children = ChildrenOf(descriptors) /\ descriptors \in [Ids -> Descriptor]
  BY DEF EngineInv, EngineTyped, GameInv, CascadeInv, Tree
<1>2. PICK D \in [0..Len(frames) -> [Ids -> Descriptor]] : Chain(D)
  BY DEF EngineInv, GameInv
<1>3. Len(frames) \in 0..Len(frames) /\ D[Len(frames)] = descriptors
  BY <1>1, <1>2, NothingAfter DEF Chain
<1>4. Grounded(descriptors)
  BY <1>2, <1>3 DEF Chain
<1> QED BY <1>1, <1>4 DEF TreeOfGame

(* A list of changes begins to be made.                                    *)
LEMMA UpdateBegins ==
  ASSUME EngineInv, stage = "idle", NEW list, list # <<>>, Update(list),
         frames' \in Seq(Frame), GameInv'
  PROVE  EngineInv'
<1>1. /\ mode' = mode /\ mode \in Modes /\ stage' = "update" /\ todo' = list
      /\ UNCHANGED <<descriptors, card_slot, canonical_pos, children, class_sum, store, waiting,
                     dirty, next_dirty, changed>>
      /\ descriptors \in [Ids -> Descriptor]
      /\ waiting = {} /\ dirty = {} /\ next_dirty = {} /\ changed = {}
  BY DEF EngineInv, EngineTyped, GameInv, Tree, Update, hash_and_store, cascade
<1>2. /\ Classes' = Classes
      /\ \A cls : /\ Sorted(cls)' <=> Sorted(cls)
                  /\ ClassSum(card_slot, cls)' = ClassSum(card_slot, cls)
                  /\ Stored(card_slot, cls)' = Stored(card_slot, cls)
      /\ \A x \in Ids : Settled(x)' <=> Settled(x)
      /\ ChildrenOf(descriptors)' = ChildrenOf(descriptors)
  BY <1>1, SlotsWait
<1>3. /\ children = ChildrenOf(descriptors)
      /\ \A cls \in Classes : Sorted(cls) /\ Kept(cls)
      /\ \A x \in Ids : Settled(x)
  BY <1>1 DEF EngineInv, CascadeInv, Unsettled, Touched
<1>4. \A cls \in Classes : Kept(cls)'
  BY <1>1, <1>2, <1>3 DEF Kept
<1>5. CascadeInv'
  BY <1>1, <1>2, <1>3, <1>4 DEF CascadeInv, Unsettled, Touched
<1>6. EngineTyped'
  BY <1>1, <1>2 DEF EngineInv, EngineTyped
<1>7. SettleInv'
  BY <1>1 DEF SettleInv
<1> QED BY <1>5, <1>6, <1>7 DEF EngineInv

(* All is to be worked out from scratch.                                   *)
LEMMA ResetBegins ==
  ASSUME EngineInv, stage = "idle", NEW new, Reset(new), frames' \in Seq(Frame), GameInv'
  PROVE  EngineInv'
<1>1. /\ mode' = mode /\ mode \in Modes /\ stage' = "recompute" /\ todo' = todo /\ todo = <<>>
      /\ UNCHANGED <<card_slot, canonical_pos, children, class_sum, store, waiting,
                     dirty, next_dirty, changed>>
      /\ waiting = {} /\ dirty = {} /\ next_dirty = {} /\ changed = {}
  BY DEF EngineInv, EngineTyped, Reset, hash_and_store, cascade
<1>2. Classes' = Classes
  BY <1>1, SameMode
<1>3. EngineTyped'
  BY <1>1, <1>2 DEF EngineInv, EngineTyped
<1>4. SettleInv' /\ CascadeInv'
  BY <1>1 DEF SettleInv, CascadeInv
<1> QED BY <1>3, <1>4 DEF EngineInv

LEMMA MoveStep ==
  ASSUME EngineInv, Move
  PROVE  EngineInv'
<1>1. PICK list \in FromTableau \union FromStock :
        /\ Update(list)
        /\ frames' = Append(frames, [changes |-> Undoes(list), all |-> <<>>])
  BY DEF Move
<1>2. TreeOfGame /\ todo = <<>> /\ frames \in Seq(Frame) /\ descriptors \in [Ids -> Descriptor]
        /\ stage = "idle"
  BY AtRest DEF Move
<1>3. list # <<>> /\ Fits(descriptors, list)
        /\ Tree(After(descriptors, list)) /\ Grounded(After(descriptors, list))
  BY <1>2, MovesAreGood
<1>4. PICK back : back = Undoes(list)
  OBVIOUS
<1>5. back = [k \in DOMAIN list |-> Change(list[k].id, descriptors[list[k].id])]
  BY <1>4 DEF Undoes
<1>6. /\ Fits(After(descriptors, list), back) /\ After(After(descriptors, list), back) = descriptors
      /\ back \in Seq([id : Ids, is : Descriptor]) /\ back # <<>>
  BY <1>2, <1>3, <1>5, TakenBack
<1>7. PICK new \in [Ids -> Descriptor] : new = After(descriptors, list)
  BY <1>2, <1>3, AfterIs
<1> DEFINE frame == [changes |-> back, all |-> <<>>]
<1>8. frame \in Frame
  <2>1. <<>> \in [{} -> Descriptor]
    OBVIOUS
  <2>2. {} \in SUBSET Ids
    OBVIOUS
  <2>3. <<>> \in UNION {[S -> Descriptor] : S \in SUBSET Ids}
    BY <2>1, <2>2
  <2> QED BY <1>6, <2>3 DEF Frame
<1>9. frames' = Append(frames, frame) /\ frame.changes = back
  BY <1>1, <1>4
<1> HIDE DEF frame
<1>10. frames' \in Seq(Frame)
  BY <1>2, <1>8, <1>9
<1>11. descriptors' = descriptors /\ todo' = list
  BY <1>1 DEF Update
<1>12. Tree(descriptors)' /\ Fits(descriptors, todo)' /\ After(descriptors, todo)' = new
  <2>1. Tree(descriptors)'
    BY <1>2, <1>11 DEF TreeOfGame, Tree
  <2>2. Fits(descriptors, todo)'
    BY <1>3, <1>11 DEF Fits
  <2>3. After(descriptors, todo)' = new
    BY <1>7, <1>11 DEF After
  <2> QED BY <2>1, <2>2, <2>3
<1>13. Undone(new, frame, descriptors)
  BY <1>6, <1>7, <1>9 DEF Undone
<1>14. GameInv'
  BY <1>2, <1>3, <1>7, <1>8, <1>9, <1>12, <1>13, ChainPushed DEF EngineInv
<1> QED BY <1>1, <1>2, <1>3, <1>10, <1>14, UpdateBegins

LEMMA DealToAllStep ==
  ASSUME EngineInv, DealToAll
  PROVE  EngineInv'
<1>1. PICK dealt \in {f \in [Tops -> In(InStock)] : IsInjective(f)} :
        LET cards == {dealt[t] : t \in Tops}
        IN /\ Reset([c \in cards |-> Predecessor(CHOOSE t \in Tops : dealt[t] = c, FALSE)])
           /\ frames' = Append(frames, [changes |-> <<>>, all |-> [c \in cards |-> descriptors[c]]])
  BY DEF DealToAll
<1>2. TreeOfGame /\ todo = <<>> /\ frames \in Seq(Frame) /\ descriptors \in [Ids -> Descriptor]
        /\ stage = "idle"
  BY AtRest DEF DealToAll
<1>3. PICK cards : cards = {dealt[t] : t \in Tops}
  OBVIOUS
<1>4. PICK new : new = [c \in cards |-> Predecessor(CHOOSE t \in Tops : dealt[t] = c, FALSE)]
  OBVIOUS
<1>5. PICK old : old = [c \in cards |-> descriptors[c]]
  OBVIOUS
<1>6. Reset(new) /\ frames' = Append(frames, [changes |-> <<>>, all |-> old])
  BY <1>1, <1>3, <1>4, <1>5
<1>7. /\ Tree(Overridden(descriptors, new)) /\ Grounded(Overridden(descriptors, new))
      /\ cards \subseteq Ids /\ old \in [cards -> Descriptor]
      /\ Overridden(Overridden(descriptors, new), old) = descriptors
  <2>1. dealt \in [Tops -> In(InStock)] /\ cards \subseteq In(InStock)
    BY <1>3
  <2>2. ASSUME NEW c \in cards
        PROVE  \E t \in Tops : dealt[t] = c /\ new[c] = Predecessor(t, FALSE) /\ t \in Ids
    <3> DEFINE t == CHOOSE u \in Tops : dealt[u] = c
    <3>1. t \in Tops /\ dealt[t] = c /\ Tops \subseteq Ids
      BY <1>3 DEF Tops
    <3>2. new[c] = Predecessor(t, FALSE)
      BY <1>4
    <3> HIDE DEF t
    <3> QED BY <3>1, <3>2
  <2>3. ASSUME NEW c \in cards, NEW x \in cards, new[c] = new[x]
        PROVE  c = x
    <3>1. PICK t \in Tops : dealt[t] = c /\ new[c] = Predecessor(t, FALSE) /\ t \in Ids
      BY <2>2
    <3>2. PICK u \in Tops : dealt[u] = x /\ new[x] = Predecessor(u, FALSE) /\ u \in Ids
      BY <2>2
    <3>3. {t} = {u}
      <4>1. Predecessor(t, FALSE).on = {t} /\ Predecessor(u, FALSE).on = {u}
        BY <3>1, <3>2, DescriptorsTyped
      <4> QED BY <2>3, <3>1, <3>2, <4>1
    <3> QED BY <3>1, <3>2, <3>3
  <2>4. DOMAIN new = cards /\ old = [c \in cards |-> descriptors[c]]
    BY <1>4, <1>5
  <2>5. Deals(cards, new, old)
    BY ONLY <2>1, <2>2, <2>3, <2>4 DEF Deals
  <2> QED BY ONLY <1>2, <2>5, DealIsGood
<1>8. PICK ds \in [Ids -> Descriptor] : ds = Overridden(descriptors, new)
  BY <1>7 DEF Tree
<1> DEFINE frame == [changes |-> <<>>, all |-> old]
<1>9. frame \in Frame
  <2>1. old \in UNION {[S -> Descriptor] : S \in SUBSET Ids}
    BY <1>7
  <2> QED BY <2>1 DEF Frame
<1>10. frames' = Append(frames, frame) /\ frame.changes = <<>> /\ frame.all = old
  BY <1>6
<1> HIDE DEF frame
<1>11. frames' \in Seq(Frame)
  BY <1>2, <1>9, <1>10
<1>12. descriptors' = ds /\ todo' = <<>>
  BY <1>2, <1>6, <1>8 DEF Reset
<1>13. Tree(descriptors)' /\ Fits(descriptors, todo)' /\ After(descriptors, todo)' = ds
  <2>1. Tree(descriptors)'
    BY <1>7, <1>8, <1>12 DEF Tree
  <2>2. Fits(ds, <<>>) /\ After(ds, <<>>) = ds
    BY NothingAfter
  <2>3. Fits(descriptors, todo)'
    BY <1>12, <2>2 DEF Fits
  <2>4. After(descriptors, todo)' = ds
    BY <1>12, <2>2 DEF After
  <2> QED BY <2>1, <2>3, <2>4
<1>14. Undone(ds, frame, descriptors)
  BY <1>7, <1>8, <1>10 DEF Undone
<1>15. GameInv'
  BY <1>2, <1>7, <1>8, <1>9, <1>10, <1>13, <1>14, ChainPushed DEF EngineInv
<1> QED BY <1>2, <1>6, <1>11, <1>15, ResetBegins

LEMMA UndoStep ==
  ASSUME EngineInv, Undo
  PROVE  EngineInv'
<1>1. TreeOfGame /\ todo = <<>> /\ frames \in Seq(Frame) /\ descriptors \in [Ids -> Descriptor]
        /\ stage = "idle" /\ frames # <<>>
  BY AtRest DEF Undo
<1>2. PICK last : last = frames[Len(frames)]
  OBVIOUS
<1>3. PICK before \in [Ids -> Descriptor] :
        /\ Tree(before) /\ Grounded(before) /\ Undone(descriptors, last, before)
        /\ frames' = SubSeq(frames, 1, Len(frames) - 1) /\ Tree(descriptors)'
             /\ Fits(descriptors, todo)' /\ After(descriptors, todo)' = before
           => GameInv' /\ frames' \in Seq(Frame)
  BY <1>1, <1>2, ChainTop DEF EngineInv
<1>4. frames' = SubSeq(frames, 1, Len(frames) - 1)
  BY DEF Undo
<1>5. CASE last.changes = <<>>
  <2>1. Reset(last.all)
    BY <1>2, <1>5 DEF Undo
  <2>2. descriptors' = before /\ todo' = <<>>
    BY <1>1, <1>3, <1>5, <2>1 DEF Reset, Undone
  <2>3. Fits(before, <<>>) /\ After(before, <<>>) = before
    BY NothingAfter
  <2>4. Tree(descriptors)'
    BY <1>3, <2>2 DEF Tree
  <2>5. Fits(descriptors, todo)'
    BY <2>2, <2>3 DEF Fits
  <2>6. After(descriptors, todo)' = before
    BY <2>2, <2>3 DEF After
  <2>7. GameInv' /\ frames' \in Seq(Frame)
    BY <1>3, <1>4, <2>4, <2>5, <2>6
  <2> QED BY <1>1, <2>1, <2>7, ResetBegins
<1>6. CASE last.changes # <<>>
  <2>1. Update(last.changes)
    BY <1>2, <1>6 DEF Undo
  <2>2. Fits(descriptors, last.changes) /\ before = After(descriptors, last.changes)
    BY <1>3, <1>6 DEF Undone
  <2>3. descriptors' = descriptors /\ todo' = last.changes
    BY <2>1 DEF Update
  <2>4. Tree(descriptors)'
    BY <1>1, <2>3 DEF TreeOfGame, Tree
  <2>5. Fits(descriptors, todo)'
    BY <2>2, <2>3 DEF Fits
  <2>6. After(descriptors, todo)' = before
    BY <2>2, <2>3 DEF After
  <2>7. GameInv' /\ frames' \in Seq(Frame)
    BY <1>3, <1>4, <2>4, <2>5, <2>6
  <2> QED BY <1>1, <1>6, <2>1, <2>7, UpdateBegins
<1> QED BY <1>5, <1>6

LEMMA EngineWaits ==
  ASSUME EngineInv,
         UNCHANGED <<mode, descriptors, frames, card_slot, canonical_pos, children, class_sum, store,
                     todo, waiting, dirty, next_dirty, changed, stage, iter>>
  PROVE  EngineInv'
<1>1. mode \in Modes /\ descriptors \in [Ids -> Descriptor]
  BY DEF EngineInv, EngineTyped, GameInv, Tree
<1>2. /\ Classes' = Classes /\ \A q : ClassOf(q)' = ClassOf(q)
      /\ \A cls : /\ Sorted(cls)' <=> Sorted(cls)
                  /\ ClassSum(card_slot, cls)' = ClassSum(card_slot, cls)
                  /\ Stored(card_slot, cls)' = Stored(card_slot, cls)
      /\ \A x \in Ids : Settled(x)' <=> Settled(x)
      /\ ChildrenOf(descriptors)' = ChildrenOf(descriptors)
  BY <1>1, SlotsWait
<1>3. /\ Unsettled' = Unsettled /\ Touched' = Touched
      /\ \A cls : Kept(cls)' <=> Kept(cls)
  BY <1>2 DEF Unsettled, Touched, Kept
<1>4. EngineTyped'
  BY <1>2 DEF EngineInv, EngineTyped
<1>5. SettleInv' /\ CascadeInv'
  BY <1>2, <1>3 DEF EngineInv, SettleInv, CascadeInv
<1> QED BY <1>4, <1>5, GameWaits DEF EngineInv

(* The slots, the payload, the sums and the children that the moves and    *)
(* the undos of multiplicity_descriptor_engine keep up are at rest those   *)
(* of a state that is worked out from scratch, whatever the deck's size,   *)
(* the board and the moves.                                                *)
THEOREM IncrementalStaysScratch == CascadeSpec => []IncrementalIsScratch
<1>1. CascadeInit => EngineInv
  BY EngineInitially
<1>2. EngineInv /\ [CascadeNext]_cascade_vars => EngineInv'
  <2>1. SUFFICES ASSUME EngineInv, [CascadeNext]_cascade_vars
                 PROVE  EngineInv'
    OBVIOUS
  <2>2. CASE UNCHANGED cascade_vars
    <3>1. UNCHANGED <<mode, descriptors, frames, card_slot, canonical_pos, children, class_sum, store,
                      todo, waiting, dirty, next_dirty, changed, stage, iter>>
      BY <2>2 DEF cascade_vars, hash_and_store, cascade
    <3> QED BY <2>1, <3>1, EngineWaits
  <2> QED BY <2>1, <2>2, RecomputeStep, SortStep, SettleCardStep, NextRoundStep, WriteStep,
       DescribeNoneStep, DescribeStep, CascadeClassStep, MoveChildStep, CascadeOnStep, WriteBackStep,
       MoveStep, DealToAllStep, UndoStep DEF CascadeNext
<1>3. EngineInv => IncrementalIsScratch
  BY IdleIsScratch
<1> QED BY <1>1, <1>2, <1>3, PTL DEF CascadeSpec
=============================================================================
