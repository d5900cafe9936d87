---------------------------- MODULE LibraryProofs ----------------------------
(***************************************************************************)
(* Proofs about the parts of MCLibrary: the byte array and the file that   *)
(* it implements, the configuration variable with the loggers that follow  *)
(* it, the sockets, and the conversions, for inputs of every length.       *)
(***************************************************************************)
EXTENDS MCLibrary, Powers, DataLemmas, TLAPS

-----------------------------------------------------------------------------
(* Blocks and offsets *)

LEMMA DivMod ==
    ASSUME NEW x \in Nat
    PROVE  /\ x \div BaseSize \in Nat /\ x % BaseSize \in Offsets
           /\ x = BaseSize * (x \div BaseSize) + (x % BaseSize)
  BY ByteArrayAssumption DEF Offsets

LEMMA OffsetNat == \A o \in Offsets : o \in Nat
  BY ByteArrayAssumption DEF Offsets

\* Quotient and remainder are unique.
LEMMA DivUnique ==
    ASSUME NEW x \in Nat, NEW q \in Nat, NEW r \in Offsets,
           x = BaseSize * q + r
    PROVE  x \div BaseSize = q /\ x % BaseSize = r
  BY ByteArrayAssumption, QuotientIs DEF Offsets

\* The loops count from the block of the position.
LEMMA DivAdd ==
    ASSUME NEW x \in Nat, NEW y \in Nat
    PROVE  /\ (x + y) \div BaseSize = x \div BaseSize + ((x % BaseSize) + y) \div BaseSize
           /\ (x + y) % BaseSize = ((x % BaseSize) + y) % BaseSize
  BY QuotientAdd, ByteArrayAssumption

\* A position below the capacity is in a block, the capacity itself is not.
LEMMA DivBound ==
    ASSUME NEW x \in Nat, NEW n \in Nat, x <= BaseSize * n
    PROVE  /\ x \div BaseSize <= n
           /\ x < BaseSize * n <=> x \div BaseSize < n
           /\ x = BaseSize * n => x \div BaseSize = n
  BY QuotientBound, ByteArrayAssumption

\* Enough blocks, and not none.
LEMMA DivUp ==
    ASSUME NEW x \in Nat, x > 0
    PROVE  LET c == (x + BaseSize - 1) \div BaseSize
           IN  c \in Nat /\ c > 0 /\ x <= BaseSize * c
  BY QuotientUp, ByteArrayAssumption

-----------------------------------------------------------------------------
(* The byte array: the inductive invariant *)

Block == [Offsets -> Byte \cup {Junk}]

BytesTypes ==
    /\ nodes \in Seq(Block) /\ Len(nodes) > 0
    /\ m_position \in Nat /\ m_size \in Nat /\ m_capacity \in Nat

BytesInv == BytesTypes /\ CursorFollows

\* The block of the position, when there is one.
Here == 1 + (m_position \div BaseSize)

LEMMA CursorFacts ==
    ASSUME BytesInv
    PROVE  /\ Len(nodes) \in Nat /\ Here \in Nat /\ Here # Null /\ npos \in Nat
           /\ OldCap \in Nat /\ OldCap = BaseSize * Len(nodes) - m_position
           /\ ReadSize \in Nat /\ ReadSize <= OldCap
           /\ OldCap = 0 => m_cur = Null /\ Here = Len(nodes) + 1
           /\ OldCap > 0 => m_cur = Here /\ Here <= Len(nodes) /\ m_cur # Null
<1>1. /\ Len(nodes) \in Nat /\ m_position <= BaseSize * Len(nodes)
      /\ m_capacity = BaseSize * Len(nodes) /\ m_position <= m_size
      /\ m_size <= m_capacity /\ m_position \in Nat /\ m_size \in Nat
      /\ m_capacity \in Nat
  BY DEF BytesInv, BytesTypes, CursorFollows
<1>2. /\ m_position \div BaseSize \in Nat /\ npos \in Nat
  BY <1>1, DivMod, OffsetNat DEF npos
<1>3. /\ m_position < BaseSize * Len(nodes) <=> m_position \div BaseSize < Len(nodes)
      /\ m_position = BaseSize * Len(nodes) => m_position \div BaseSize = Len(nodes)
  BY <1>1, DivBound
<1>4. m_cur = IF Here <= Len(nodes) THEN Here ELSE Null
  BY DEF BytesInv, CursorFollows, Follow, Here
<1>5. /\ OldCap = 0 => m_position = BaseSize * Len(nodes)
      /\ OldCap > 0 => m_position < BaseSize * Len(nodes)
      /\ OldCap \in Nat /\ OldCap = BaseSize * Len(nodes) - m_position
      /\ ReadSize \in Nat /\ ReadSize <= OldCap
  BY <1>1 DEF OldCap, ReadSize
<1>6. QED
  BY <1>1, <1>2, <1>3, <1>4, <1>5 DEF Here, Null

\* After addCapacity(size) there is room, and the cursor is on its block.
LEMMA GrownFacts ==
    ASSUME BytesInv, NEW size \in Nat, size > 0
    PROVE  /\ Count(size) \in Nat /\ Grown(size) \in Seq(Block)
           /\ Len(Grown(size)) = Len(nodes) + Count(size)
           /\ \A n \in 1..Len(nodes) : Grown(size)[n] = nodes[n]
           /\ m_capacity + BaseSize * Count(size) = BaseSize * Len(Grown(size))
           /\ m_position + size <= BaseSize * Len(Grown(size))
           /\ GrownCur(size) = Here /\ Here <= Len(Grown(size))
<1> DEFINE c == Count(size)
           new == [i \in 1..c |-> NewNode]
<1>1. /\ Len(nodes) \in Nat /\ m_capacity = BaseSize * Len(nodes)
      /\ m_position \in Nat /\ nodes \in Seq(Block) /\ BaseSize \in Nat
  BY ByteArrayAssumption DEF BytesInv, BytesTypes, CursorFollows
<1>2. /\ c \in Nat /\ size - OldCap <= BaseSize * c
      /\ OldCap = 0 => c > 0
  <2>1. OldCap \in Nat
    BY CursorFacts
  <2>2. CASE OldCap >= size
    BY <1>1, <2>1, <2>2 DEF Count
  <2>3. CASE ~(OldCap >= size)
    <3>1. size - OldCap \in Nat /\ size - OldCap > 0
      BY <2>1, <2>3
    <3>2. c = (size - OldCap + BaseSize - 1) \div BaseSize
      BY <2>3 DEF Count
    <3>3. QED
      BY <3>1, <3>2, DivUp
  <2>4. QED
    BY <2>2, <2>3
<1>3. new \in Seq(Block) /\ Len(new) = c
  <2>1. NewNode \in Block
    BY DEF NewNode, Block
  <2>2. PICK b \in Block : b = NewNode
    BY <2>1
  <2>3. [i \in 1..c |-> b] \in Seq(Block) /\ Len([i \in 1..c |-> b]) = c
    BY <1>2
  <2>4. QED
    BY <2>2, <2>3
<1>4. /\ Grown(size) \in Seq(Block) /\ Len(Grown(size)) = Len(nodes) + c
      /\ \A n \in 1..Len(nodes) : Grown(size)[n] = nodes[n]
  <2>1. Grown(size) = nodes \o new
    BY DEF Grown
  <2> HIDE DEF new
  <2>2. QED
    <3>1. nodes \o new \in Seq(Block)
      BY <1>1, <1>3, ConcatProperties
    <3>2. Len(nodes \o new) = Len(nodes) + Len(new)
      BY <1>1, <1>3, ConcatProperties
    <3>3. ASSUME NEW n \in 1..Len(nodes) PROVE (nodes \o new)[n] = nodes[n]
      BY <1>1, <1>3
    <3>4. QED
      BY <1>3, <2>1, <3>1, <3>2, <3>3
<1> HIDE DEF new
<1>5. BaseSize * Len(Grown(size)) = BaseSize * Len(nodes) + BaseSize * c
  BY <1>1, <1>2, <1>4
<1>6. BaseSize * c \in Nat /\ BaseSize * Len(nodes) \in Nat
  BY <1>1, <1>2
<1>7. m_position + size <= BaseSize * Len(Grown(size))
  BY SMTT(60), <1>1, <1>2, <1>5, <1>6, CursorFacts
<1>8. GrownCur(size) = Here
  BY <1>2, CursorFacts DEF GrownCur
<1>9. Here <= Len(Grown(size))
  BY <1>2, <1>4, CursorFacts
<1>10. QED
  BY <1>1, <1>2, <1>4, <1>5, <1>7, <1>8, <1>9

\* What the loops copy is what is at the position.
At(ns, i) == ns[1 + ((i - 1) \div BaseSize)][(i - 1) % BaseSize]

LEMMA FollowHere ==
    ASSUME NEW ns, m_position \in Nat, NEW k \in Nat
    PROVE  Follow(ns, Here, npos + k) = Follow(ns, 1, m_position + k)
<1>1. Here + ((npos + k) \div BaseSize) = 1 + ((m_position + k) \div BaseSize)
  <2>1. /\ (m_position + k) \div BaseSize =
             (m_position \div BaseSize) + ((npos + k) \div BaseSize)
        /\ m_position \div BaseSize \in Nat
    BY DivAdd, DivMod DEF npos
  <2>2. npos + k \in Nat
    BY DivMod, ByteArrayAssumption DEF npos, Offsets
  <2>3. (npos + k) \div BaseSize \in Nat
    BY <2>2, DivMod
  <2>4. QED
    BY <2>1, <2>3 DEF Here
<1>2. QED
  BY <1>1 DEF Follow

LEMMA CopyAt ==
    ASSUME BytesInv, m_cur = Here, NEW size \in Nat, NEW p \in Nat,
           p \div BaseSize = m_position \div BaseSize
    PROVE  Copy(p % BaseSize, size) = [i \in 1..size |-> At(nodes, p + i)]
<1> DEFINE from == p % BaseSize
<1>0. from \in Nat
  BY DivMod, OffsetNat
<1>1. ASSUME NEW i \in 1..size
      PROVE  /\ m_cur + ((from + i - 1) \div BaseSize) =
                    1 + ((p + i - 1) \div BaseSize)
             /\ (from + i - 1) % BaseSize = (p + i - 1) % BaseSize
  <2>1. i - 1 \in Nat
    OBVIOUS
  <2>2. /\ (p + (i - 1)) \div BaseSize =
             (p \div BaseSize) + ((from + (i - 1)) \div BaseSize)
        /\ (p + (i - 1)) % BaseSize = (from + (i - 1)) % BaseSize
        /\ p \div BaseSize \in Nat
    BY <2>1, DivAdd, DivMod
  <2> HIDE DEF from
  <2>4. (from + (i - 1)) \div BaseSize \in Nat
    BY <1>0, <2>1, DivMod
  <2>5. from + i - 1 = from + (i - 1) /\ p + i - 1 = p + (i - 1)
    BY <1>0, <2>1
  <2>6. QED
    BY <2>2, <2>4, <2>5 DEF Here
<1> HIDE DEF from
<1>2. ASSUME NEW i \in 1..size
      PROVE  nodes[m_cur + ((from + i - 1) \div BaseSize)]
                  [(from + i - 1) % BaseSize] = At(nodes, p + i)
  <2>1. /\ m_cur + ((from + i - 1) \div BaseSize) =
                    1 + ((p + i - 1) \div BaseSize)
        /\ (from + i - 1) % BaseSize = (p + i - 1) % BaseSize
    BY <1>1
  <2>2. PICK k, o : /\ k = 1 + ((p + i - 1) \div BaseSize)
                    /\ o = (p + i - 1) % BaseSize
    OBVIOUS
  <2>3. At(nodes, p + i) = nodes[k][o]
    <3>1. (p + i) - 1 = p + i - 1
      OBVIOUS
    <3>2. QED
      BY <2>2, <3>1, Zenon DEF At
  <2>4. /\ m_cur + ((from + i - 1) \div BaseSize) = k
        /\ (from + i - 1) % BaseSize = o
    BY <2>1, <2>2, Zenon
  <2>5. QED
    BY <2>3, <2>4, Zenon
<1>3. QED
  BY <1>2 DEF Copy, from

LEMMA CopyIs ==
    ASSUME BytesInv, m_cur = Here, NEW size \in Nat
    PROVE  Copy(npos, size) = [i \in 1..size |-> At(nodes, m_position + i)]
<1>1. m_position \in Nat
  BY DEF BytesInv, BytesTypes
<1>2. QED
  BY <1>1, CopyAt DEF npos

\* The blocks after a copy: the new bytes behind the position, the others as
\* they were.
LEMMA StoreIs ==
    ASSUME BytesInv, NEW ns \in Seq(Block), NEW bs \in Seq(Byte)
    PROVE  /\ Store(ns, Here, bs) \in Seq(Block)
           /\ Len(Store(ns, Here, bs)) = Len(ns)
           /\ \A i \in 1..(BaseSize * Len(ns)) :
                At(Store(ns, Here, bs), i) =
                    IF i > m_position /\ i <= m_position + Len(bs)
                    THEN bs[i - m_position] ELSE At(ns, i)
<1> DEFINE idx(n, o) == (n - Here) * BaseSize + o - npos + 1
           byte(n, o) == IF idx(n, o) \in 1..Len(bs) THEN bs[idx(n, o)]
                         ELSE ns[n][o]
<1>1. Store(ns, Here, bs) = [n \in 1..Len(ns) |-> [o \in Offsets |-> byte(n, o)]]
  BY DEF Store
<1>2. \A n \in 1..Len(ns), o \in Offsets : byte(n, o) \in Byte \cup {Junk}
  <2>1. ASSUME NEW n \in 1..Len(ns), NEW o \in Offsets
        PROVE  byte(n, o) \in Byte \cup {Junk}
    <3>1. CASE idx(n, o) \in 1..Len(bs)
      <4> HIDE DEF idx
      <4>1. QED
        BY <3>1
    <3>2. CASE idx(n, o) \notin 1..Len(bs)
      <4>1. ns[n] \in Block
        OBVIOUS
      <4>2. ns[n][o] \in Byte \cup {Junk}
        BY <4>1 DEF Block
      <4> HIDE DEF idx
      <4>3. QED
        BY <3>2, <4>2
    <3>3. QED
      BY <3>1, <3>2
  <2>2. QED
    BY <2>1
<1>3. ASSUME NEW i \in 1..(BaseSize * Len(ns))
      PROVE  At(Store(ns, Here, bs), i) =
                    IF i > m_position /\ i <= m_position + Len(bs)
                    THEN bs[i - m_position] ELSE At(ns, i)
  <2> DEFINE n == 1 + ((i - 1) \div BaseSize)
             o == (i - 1) % BaseSize
  <2>1. i - 1 \in Nat /\ Len(ns) \in Nat /\ m_position \in Nat
        /\ BaseSize \in Nat /\ i - 1 < BaseSize * Len(ns) /\ i \in Nat
    BY ByteArrayAssumption DEF BytesInv, BytesTypes
  <2>2. /\ (i - 1) \div BaseSize \in Nat /\ o \in Offsets
        /\ i - 1 = BaseSize * ((i - 1) \div BaseSize) + o
    BY <2>1, DivMod
  <2>3. (i - 1) \div BaseSize < Len(ns)
    BY <2>1, DivBound
  <2>4. n \in 1..Len(ns)
    BY <2>1, <2>2, <2>3
  <2>5. /\ m_position \div BaseSize \in Nat /\ npos \in Offsets
        /\ m_position = BaseSize * (m_position \div BaseSize) + npos
    BY <2>1, DivMod DEF npos
  <2>6. idx(n, o) = i - m_position
    <3>1. PICK q \in Nat, p \in Nat, r \in Nat, s \in Nat :
            /\ q = (i - 1) \div BaseSize /\ p = m_position \div BaseSize
            /\ r = o /\ s = npos
      BY <2>2, <2>5, OffsetNat
    <3>2. i - 1 = BaseSize * q + r /\ m_position = BaseSize * p + s
      BY <2>2, <2>5, <3>1
    <3>3. idx(n, o) = ((1 + q) - (1 + p)) * BaseSize + r - s + 1
      BY <3>1 DEF Here
    <3>4. ((1 + q) - (1 + p)) * BaseSize = BaseSize * q - BaseSize * p
      BY <2>1
    <3>5. QED
      BY <2>1, <3>2, <3>3, <3>4
  <2>7. At(Store(ns, Here, bs), i) = byte(n, o)
    <3> HIDE DEF byte
    <3>1. QED
      BY <1>1, <2>2, <2>4 DEF At
  <2>8. Len(bs) \in Nat
    OBVIOUS
  <2>9. idx(n, o) \in 1..Len(bs) <=> i > m_position /\ i <= m_position + Len(bs)
    BY <2>1, <2>6, <2>8
  <2> HIDE DEF idx
  <2>10. QED
    BY <2>6, <2>7, <2>9 DEF At
<1> HIDE DEF byte
<1>4. /\ [n \in 1..Len(ns) |-> [o \in Offsets |-> byte(n, o)]] \in Seq(Block)
      /\ Len([n \in 1..Len(ns) |-> [o \in Offsets |-> byte(n, o)]]) = Len(ns)
  BY <1>2 DEF Block
<1>5. QED
  BY <1>1, <1>3, <1>4

\* What the file of bytes is, and what of it is not yet read.
Bytes == [i \in 1..m_size |-> At(nodes, i)]
Rest == [i \in 1..ReadSize |-> At(nodes, m_position + i)]

LEMMA BytesInit == Init => BytesInv /\ File!Init
<1> SUFFICES ASSUME Init PROVE BytesInv /\ File!Init
  OBVIOUS
<1>1. NewNode \in Block
  BY DEF NewNode, Block
<1>2. nodes \in Seq(Block) /\ Len(nodes) = 1
  BY <1>1 DEF Init
<1>3. 0 \div BaseSize = 0
  BY DivUnique, ByteArrayAssumption DEF Offsets
<1>4. BytesInv
  BY <1>2, <1>3, ByteArrayAssumption
     DEF Init, BytesInv, BytesTypes, CursorFollows, Follow, Alive
<1>5. File!Init
  BY DEF Init, File!Init
<1>6. QED
  BY <1>4, <1>5

\* A call that reads moves the position within what is there.
LEMMA Reading ==
    ASSUME BytesInv, crashed = Alive, NEW k \in Nat, k <= ReadSize,
           m_position' = m_position + k,
           m_cur' = Follow(nodes, 1, m_position + k),
           UNCHANGED <<nodes, m_size, m_capacity, crashed>>
    PROVE  BytesInv' /\ Bytes' = Bytes
<1>1. BytesTypes'
  BY DEF BytesInv, BytesTypes
<1>2. m_position + k <= m_size
  BY DEF BytesInv, BytesTypes, ReadSize
<1>3. Follow(nodes, 1, m_position)' = Follow(nodes, 1, m_position + k)
  BY DEF Follow, Null
<1>4. CursorFollows'
  BY <1>2, <1>3 DEF BytesInv, CursorFollows, Alive
<1>5. Bytes' = Bytes
  BY DEF Bytes, At
<1>6. QED
  BY <1>1, <1>4, <1>5 DEF BytesInv

\* A call that follows a null block changes nothing else.
LEMMA Crashing ==
    ASSUME BytesInv, NEW call, NEW at, NEW size, Crash(call, at, size),
           \/ size = 0
           \/ call = "writeToFile" /\ npos > 0 /\ ReadSize < BaseSize
           \/ /\ call = "readAt"
              /\ at > m_size \/ at \div BaseSize # m_position \div BaseSize
    PROVE  BytesInv' /\ UNCHANGED File!vars
<1>1. BytesTypes'
  BY DEF BytesInv, BytesTypes, Crash
<1>2. Follow(nodes, 1, m_position)' = Follow(nodes, 1, m_position)
  BY DEF Follow, Null, Crash
<1>3. /\ crashed'.call = call /\ crashed'.at = at /\ crashed'.size = size
      /\ UNCHANGED <<m_position, m_size>>
  BY DEF Crash
<1>4. MayCrash'
  BY <1>3 DEF MayCrash, npos, ReadSize
<1>5. CursorFollows'
  BY <1>2, <1>4 DEF BytesInv, CursorFollows, Crash
<1>6. UNCHANGED File!vars
  BY DEF Crash, File!vars
<1>7. QED
  BY <1>1, <1>5, <1>6 DEF BytesInv

\* A call that writes bs, after addCapacity(size).
LEMMA Writing ==
    ASSUME BytesInv, crashed = Alive, NEW size \in Nat, size > 0, NEW bs \in Seq(Byte),
           Len(bs) <= size,
           nodes' = Store(Grown(size), Here, bs),
           m_capacity' = m_capacity + BaseSize * Count(size),
           m_position' = m_position + Len(bs),
           m_size' = (IF m_position' > m_size THEN m_position' ELSE m_size),
           m_cur' = Follow(Grown(size), 1, m_position + Len(bs)),
           UNCHANGED crashed
    PROVE  /\ BytesInv'
           /\ Bytes' = [i \in 1..m_size' |->
                IF i > m_position /\ i <= m_position + Len(bs)
                THEN bs[i - m_position] ELSE Bytes[i]]
<1> DEFINE ns == Grown(size)
<1>1. /\ ns \in Seq(Block) /\ Len(ns) \in Nat /\ Len(nodes) \in Nat
      /\ Len(nodes) <= Len(ns) /\ Len(nodes) > 0
      /\ \A n \in 1..Len(nodes) : ns[n] = nodes[n]
      /\ m_capacity' = BaseSize * Len(ns)
      /\ m_position + size <= BaseSize * Len(ns)
  <2>1. /\ Count(size) \in Nat /\ ns \in Seq(Block)
        /\ Len(ns) = Len(nodes) + Count(size)
        /\ \A n \in 1..Len(nodes) : ns[n] = nodes[n]
        /\ m_capacity + BaseSize * Count(size) = BaseSize * Len(ns)
        /\ m_position + size <= BaseSize * Len(ns)
    BY GrownFacts
  <2> HIDE DEF ns
  <2>2. Len(nodes) \in Nat /\ Len(nodes) > 0
    BY CursorFacts DEF BytesInv, BytesTypes
  <2>3. Len(ns) \in Nat /\ Len(nodes) <= Len(ns)
    BY <2>1, <2>2
  <2>4. QED
    BY <2>1, <2>2, <2>3
<1>2. /\ nodes' \in Seq(Block) /\ Len(nodes') = Len(ns)
      /\ \A i \in 1..(BaseSize * Len(ns)) :
            At(nodes', i) = IF i > m_position /\ i <= m_position + Len(bs)
                            THEN bs[i - m_position] ELSE At(ns, i)
  BY <1>1, StoreIs
<1>3. /\ m_position \in Nat /\ m_size \in Nat /\ m_position <= m_size
      /\ m_size <= BaseSize * Len(nodes) /\ Len(bs) \in Nat
      /\ BaseSize * Len(ns) \in Nat /\ m_size <= m_capacity'
      /\ BaseSize * Len(nodes) \in Nat
  <2>1. /\ m_position \in Nat /\ m_size \in Nat /\ m_position <= m_size
        /\ m_size <= BaseSize * Len(nodes) /\ m_capacity = BaseSize * Len(nodes)
    BY DEF BytesInv, BytesTypes, CursorFollows
  <2>2. BaseSize \in Nat /\ Count(size) \in Nat
    BY ByteArrayAssumption, GrownFacts
  <2>3. BaseSize * Len(ns) \in Nat /\ BaseSize * Count(size) \in Nat
        /\ BaseSize * Len(nodes) \in Nat
    BY <1>1, <2>2
  <2>4. m_size <= m_capacity'
    BY <2>1, <2>3
  <2>5. QED
    BY <2>1, <2>3, <2>4
<1> HIDE DEF ns
<1>4. /\ m_position' \in Nat /\ m_size' \in Nat /\ m_capacity' \in Nat
      /\ m_position' <= m_size' /\ m_size' <= m_capacity'
  BY <1>1, <1>3
<1>5. BytesTypes'
  BY <1>1, <1>2, <1>4 DEF BytesTypes
<1>6. Follow(nodes, 1, m_position)' = Follow(ns, 1, m_position + Len(bs))
  BY <1>2 DEF Follow, Null
<1>7. CursorFollows'
  <2>1. crashed' = Alive'
    BY DEF Alive
  <2>2. m_cur' = Follow(nodes, 1, m_position)'
    BY <1>6 DEF ns
  <2>3. m_capacity' = BaseSize * Len(nodes')
    BY <1>1, <1>2
  <2>4. QED
    BY <1>4, <2>1, <2>2, <2>3 DEF CursorFollows, Alive
<1>8. ASSUME NEW i \in 1..m_size'
      PROVE  At(nodes', i) = IF i > m_position /\ i <= m_position + Len(bs)
                             THEN bs[i - m_position] ELSE Bytes[i]
  <2>1. i \in 1..(BaseSize * Len(ns))
    BY <1>1, <1>3, <1>4
  <2>2. CASE i > m_position /\ i <= m_position + Len(bs)
    BY <1>2, <2>1, <2>2
  <2>3. CASE ~(i > m_position /\ i <= m_position + Len(bs))
    <3>1. i \in 1..m_size
      BY <1>3, <2>3
    <3>2. /\ i - 1 \in Nat /\ i - 1 < BaseSize * Len(nodes)
          /\ i - 1 <= BaseSize * Len(nodes)
      BY <1>3, <3>1
    <3>3. (i - 1) \div BaseSize \in Nat /\ (i - 1) \div BaseSize < Len(nodes)
      BY <1>1, <3>2, DivBound, DivMod
    <3>4. 1 + ((i - 1) \div BaseSize) \in 1..Len(nodes)
      BY <1>1, <3>3
    <3>5. At(ns, i) = At(nodes, i)
      BY <1>1, <3>4 DEF At
    <3>6. Bytes[i] = At(nodes, i)
      BY <3>1 DEF Bytes
    <3>7. QED
      BY <1>2, <2>1, <2>3, <3>5, <3>6
  <2>4. QED
    BY <2>2, <2>3
<1>9. Bytes' = [i \in 1..m_size' |-> At(nodes', i)]
  BY DEF Bytes, At
<1>10. QED
  BY <1>5, <1>7, <1>8, <1>9 DEF BytesInv

\* The abstract file is Bytes, and Rest is what it calls Unread.
LEMMA UnreadIs ==
    ASSUME BytesInv
    PROVE  File!Unread = Rest /\ Rest \in Seq({At(nodes, i) : i \in Nat})
           /\ Len(Rest) = ReadSize
<1>1. /\ m_position \in Nat /\ m_size \in Nat /\ m_position <= m_size
      /\ ReadSize = m_size - m_position /\ ReadSize \in Nat
  BY CursorFacts DEF BytesInv, BytesTypes, CursorFollows, ReadSize
<1> DEFINE S == {At(nodes, i) : i \in Nat}
           at(i) == At(nodes, i)
<1>2. Bytes = [i \in 1..m_size |-> at(i)] /\ \A i \in Nat : at(i) \in S
  BY DEF Bytes
<1>3. File!Unread = SubSeq(Bytes, m_position + 1, Len(Bytes))
  BY DEF File!Unread, Bytes, At
<1>4. Rest = [i \in 1..ReadSize |-> at(m_position + i)]
  BY DEF Rest
<1> HIDE DEF S, at
<1>5. Bytes \in Seq(S) /\ Len(Bytes) = m_size
  BY <1>1, <1>2
<1>6. Rest \in Seq(S) /\ Len(Rest) = ReadSize
  BY <1>1, <1>2, <1>4
<1>7. SubSeq(Bytes, m_position + 1, m_size) = Rest
  BY <1>1, <1>2, <1>4, <1>5
<1>8. QED
  BY <1>3, <1>5, <1>6, <1>7 DEF S

\* The abstract calls, in terms of Bytes and Rest.
LEMMA FileWrites ==
    ASSUME BytesInv, NEW bs \in Seq(Byte), Len(bs) \in 1..MaxWrite,
           m_position' = m_position + Len(bs), got' = File!Moved(<<>>),
           m_size' = (IF m_position' > m_size THEN m_position' ELSE m_size),
           Bytes' = [i \in 1..m_size' |->
                IF i > m_position /\ i <= m_position + Len(bs)
                THEN bs[i - m_position] ELSE Bytes[i]]
    PROVE  File!Next
<1>1. m_position \in Nat /\ m_size \in Nat /\ m_position <= m_size
  BY DEF BytesInv, BytesTypes, CursorFollows
<1>2. m_size' = File!Longer(Len(Bytes), m_position + Len(bs))
  <2>1. Len(Bytes) = m_size
    BY <1>1 DEF Bytes
  <2>2. QED
    BY <1>1, <2>1 DEF File!Longer
<1>3. Bytes' = [i \in 1..File!Longer(Len(Bytes), m_position + Len(bs)) |->
                IF i > m_position /\ i <= m_position + Len(bs)
                THEN bs[i - m_position] ELSE Bytes[i]]
  BY <1>2
<1>4. File!Write(bs)
  BY <1>3 DEF File!Write, Bytes, At
<1>5. bs \in [1..Len(bs) -> Byte]
  OBVIOUS
<1>6. QED
  BY <1>4, <1>5 DEF File!Next

LEMMA FileReads ==
    ASSUME BytesInv, Bytes' = Bytes, NEW n \in Nat, n <= ReadSize,
           m_position' = m_position + n, got' = File!Moved(SubSeq(Rest, 1, n))
    PROVE  File!Next
<1>1. File!Unread = Rest /\ Len(Rest) = ReadSize /\ ReadSize \in Nat
  BY UnreadIs, CursorFacts
<1>2. UNCHANGED [i \in 1..m_size |-> nodes[1 + (i - 1) \div BaseSize]
                                          [(i - 1) % BaseSize]]
  BY DEF Bytes, At
<1>3. File!Read(n)
  BY <1>1, <1>2 DEF File!Read
<1>4. n \in 0..Len(File!Unread)
  BY <1>1
<1>5. QED
  BY <1>3, <1>4 DEF File!Next

LEMMA FileReadsString ==
    ASSUME BytesInv, Bytes' = Bytes, NEW n \in Byte, ReadSize > 0,
           Rest[1] \in {n, Junk},
           IF n < ReadSize
           THEN got' = File!Moved(SubSeq(Rest, 2, n + 1)) /\ m_position' = m_position + n + 1
           ELSE got' = File!Moved(<<>>) /\ m_position' = m_position + 1
    PROVE  File!Next
<1>1. File!Unread = Rest /\ Len(Rest) = ReadSize /\ ReadSize \in Nat
  BY UnreadIs, CursorFacts
<1>2. UNCHANGED [i \in 1..m_size |-> nodes[1 + (i - 1) \div BaseSize]
                                          [(i - 1) % BaseSize]]
  BY DEF Bytes, At
<1>3. Rest # <<>>
  BY <1>1
<1>4. File!ReadString(n)
  BY <1>1, <1>2, <1>3 DEF File!ReadString
<1>5. QED
  BY <1>4 DEF File!Next

LEMMA FilePeeks ==
    ASSUME BytesInv, Bytes' = Bytes, m_position' = m_position,
           NEW p \in Nat, NEW n \in Nat, NEW bs, Len(bs) = n,
           got' = File!Looked(p, bs),
           p \div BaseSize = m_position \div BaseSize /\ p <= m_size =>
                p + n <= m_size /\ bs = [i \in 1..n |-> At(nodes, p + i)]
    PROVE  File!Next
<1>1. UNCHANGED [i \in 1..m_size |-> nodes[1 + (i - 1) \div BaseSize]
                                          [(i - 1) % BaseSize]]
  BY DEF Bytes, At
<1>2. got'.at = p /\ got'.bytes = bs
  BY DEF File!Looked
<1>3. m_size \in Nat /\ Len(Bytes) = m_size
  BY DEF BytesInv, BytesTypes, Bytes
<1>4. ASSUME p + n <= m_size
      PROVE  SubSeq(Bytes, p + 1, p + n) = [i \in 1..n |-> At(nodes, p + i)]
  <2> DEFINE at(i) == At(nodes, i)
  <2>1. PICK m \in Nat : m = m_size
    BY <1>3
  <2>2. Bytes = [i \in 1..m |-> at(i)]
    BY <2>1 DEF Bytes
  <2> HIDE DEF at
  <2>3. SubSeq(Bytes, p + 1, p + n) = [i \in 1..n |-> at(p + i)]
    BY <1>4, <2>1, <2>2
  <2>4. QED
    BY <2>3 DEF at
<1>5. p \div BaseSize = m_position \div BaseSize /\ p <= Len(Bytes) =>
        /\ p + Len(bs) <= Len(Bytes)
        /\ bs = SubSeq(Bytes, p + 1, p + Len(bs))
  BY <1>3, <1>4
<1>6. File!Peek
  BY <1>1, <1>2, <1>5 DEF File!Peek, Bytes, At
<1>7. QED
  BY <1>6 DEF File!Next

LEMMA FileSeeks ==
    ASSUME BytesInv, got' = File!Moved(<<>>), m_position' \in Nat, m_size' \in Nat,
           m_size' = (IF m_position' > m_size THEN m_position' ELSE m_size),
           \A i \in 1..m_size : Bytes'[i] = Bytes[i]
    PROVE  File!Next
<1>1. m_size \in Nat
  BY DEF BytesInv, BytesTypes
<1>2. Len(Bytes) = m_size /\ Len(Bytes') = m_size'
  BY <1>1 DEF Bytes
<1>3. Len(Bytes') = File!Longer(Len(Bytes), m_position')
  BY <1>1, <1>2 DEF File!Longer
<1>4. SubSeq(Bytes', 1, Len(Bytes)) = Bytes
  <2>1. PICK m \in Nat, k \in Nat : m = m_size /\ k = m_size'
    BY <1>1
  <2>2. PICK a, b : a = Bytes /\ b = Bytes'
    OBVIOUS
  <2>3. DOMAIN a = 1..m /\ DOMAIN b = 1..k /\ m <= k
    BY <1>1, <2>1, <2>2 DEF Bytes
  <2>4. a = [i \in 1..m |-> a[i]] /\ b = [i \in 1..k |-> b[i]]
    BY <1>1, <2>1, <2>2 DEF Bytes
  <2>5. SubSeq(b, 1, m) = [i \in 1..m |-> b[i]]
    BY <2>3, <2>4
  <2>6. [i \in 1..m |-> b[i]] = [i \in 1..m |-> a[i]]
    BY <2>1, <2>2
  <2>7. QED
    BY <1>2, <2>1, <2>2, <2>4, <2>5, <2>6
<1>5. File!Seek
  BY <1>3, <1>4 DEF File!Seek, Bytes, At
<1>6. QED
  BY <1>5 DEF File!Next

-----------------------------------------------------------------------------
(* The byte array: every step keeps the cursor right and is one of a file *)

Stays == BytesInv' /\ (File!Next \/ UNCHANGED File!vars)

LEMMA TextFacts ==
    ASSUME NEW bs \in Texts
    PROVE  bs \in Seq(Byte) /\ Len(bs) \in 1..MaxWrite
  BY ByteArrayAssumption DEF Texts

LEMMA StringFacts ==
    ASSUME NEW bs \in Texts \cup {<<>>}
    PROVE  bs \in Seq(Byte) /\ Len(bs) \in Nat
<1>1. CASE bs \in Texts
  BY <1>1, TextFacts
<1>2. CASE bs = <<>>
  BY <1>2
<1>3. QED
  BY <1>1, <1>2

LEMMA StepWrite ==
    ASSUME BytesInv, NEW bs \in Seq(Byte), Len(bs) \in 1..MaxWrite, Write(bs)
    PROVE  Stays
<1>1. Len(bs) \in Nat /\ Len(bs) > 0 /\ Len(bs) <= Len(bs)
  OBVIOUS
<1>2. GrownCur(Len(bs)) = Here /\ Here # Null /\ m_position \in Nat
  BY <1>1, GrownFacts, CursorFacts DEF BytesInv, BytesTypes
<1>3. /\ nodes' = Store(Grown(Len(bs)), Here, bs)
      /\ m_cur' = Follow(Grown(Len(bs)), Here, npos + Len(bs))
      /\ m_position' = m_position + Len(bs)
      /\ m_size' = (IF m_position' > m_size THEN m_position' ELSE m_size)
      /\ m_capacity' = m_capacity + BaseSize * Count(Len(bs))
      /\ got' = File!Moved(<<>>) /\ crashed' = crashed /\ crashed = Alive
  BY <1>2 DEF Write
<1>4. m_cur' = Follow(Grown(Len(bs)), 1, m_position + Len(bs))
  BY <1>1, <1>2, <1>3, FollowHere
<1>5. /\ BytesInv'
      /\ Bytes' = [i \in 1..m_size' |->
                IF i > m_position /\ i <= m_position + Len(bs)
                THEN bs[i - m_position] ELSE Bytes[i]]
  BY <1>1, <1>3, <1>4, Writing
<1>6. QED
  BY <1>3, <1>5, FileWrites DEF Stays

\* A read of nothing at the capacity is the only one that finds no block.
LEMMA CopyRest ==
    ASSUME BytesInv, NEW n \in Nat, n <= ReadSize, m_cur # Null
    PROVE  /\ m_cur = Here /\ Copy(npos, n) = SubSeq(Rest, 1, n)
           /\ Follow(nodes, m_cur, npos + n) = Follow(nodes, 1, m_position + n)
<1>1. m_cur = Here
  BY CursorFacts
<1>2. Copy(npos, n) = [i \in 1..n |-> At(nodes, m_position + i)]
  BY <1>1, CopyIs
<1>3. PICK k \in Nat : k = ReadSize /\ n <= k
  BY CursorFacts
<1> DEFINE at(i) == At(nodes, m_position + i)
<1>4. Rest = [i \in 1..k |-> at(i)] /\ Copy(npos, n) = [i \in 1..n |-> at(i)]
  BY <1>2, <1>3 DEF Rest
<1> HIDE DEF at
<1>5. Copy(npos, n) = SubSeq(Rest, 1, n)
  BY <1>3, <1>4
<1>6. QED
  BY <1>1, <1>5, FollowHere DEF BytesInv, BytesTypes

LEMMA NullCursor ==
    ASSUME BytesInv PROVE ReadSize \in Nat /\ (m_cur = Null => ReadSize = 0)
  BY CursorFacts

LEMMA StepRead ==
    ASSUME BytesInv, NEW n \in Nat, Read(n) PROVE Stays
<1>1. CASE m_cur = Null
  <2>1. n = 0 /\ Crash("copy", m_position, n)
    BY <1>1, NullCursor DEF Read
  <2>2. QED
    BY <2>1, Crashing DEF Stays
<1>2. CASE m_cur # Null
  <2>1. /\ n <= ReadSize /\ got' = File!Moved(Copy(npos, n)) /\ crashed = Alive
        /\ m_cur' = Follow(nodes, m_cur, npos + n)
        /\ m_position' = m_position + n
        /\ UNCHANGED <<nodes, m_size, m_capacity, crashed>>
    BY <1>2 DEF Read
  <2>2. got' = File!Moved(SubSeq(Rest, 1, n)) /\ m_cur' = Follow(nodes, 1, m_position + n)
    BY <1>2, <2>1, CopyRest
  <2>3. BytesInv' /\ Bytes' = Bytes
    BY <2>1, <2>2, Reading
  <2>4. QED
    BY <2>1, <2>2, <2>3, FileReads DEF Stays
<1>3. QED
  BY <1>1, <1>2

LEMMA StepReadString ==
    ASSUME BytesInv, NEW len \in Byte, ReadString(len) PROVE Stays
<1>1. /\ len \in Nat /\ ReadSize \in Nat /\ ReadSize > 0 /\ m_cur # Null
      /\ Copy(npos, 1)[1] \in {len, Junk}
  BY NullCursor, ByteArrayAssumption DEF ReadString
<1>2. Rest[1] \in {len, Junk}
  <2>1. Copy(npos, 1) = SubSeq(Rest, 1, 1)
    <3>1. 1 \in Nat /\ 1 <= ReadSize
      BY <1>1
    <3>2. QED
      BY <1>1, <3>1, CopyRest
  <2>2. PICK k \in Nat : k = ReadSize /\ k > 0
    BY <1>1
  <2> DEFINE at(i) == At(nodes, m_position + i)
  <2>3. Rest = [i \in 1..k |-> at(i)]
    BY <2>2 DEF Rest
  <2> HIDE DEF at
  <2>4. SubSeq(Rest, 1, 1)[1] = Rest[1]
    BY <2>2, <2>3
  <2>5. QED
    BY <1>1, <2>1, <2>4
<1>3. m_position \in Nat /\ m_cur = Here
  BY <1>1, CursorFacts DEF BytesInv, BytesTypes
<1> DEFINE cur == Follow(nodes, m_cur, npos + 1)
           short == len > ReadSize - 1
           n == IF short THEN 1 ELSE len + 1
<1>4. CASE ~short /\ cur = Null
  <2>1. Crash("copy", m_position, len)
    BY <1>4 DEF ReadString
  <2>2. cur = Follow(nodes, 1, m_position + 1)
    BY <1>3, FollowHere
  <2>3. ReadSize = 1
    <3>1. CASE m_position + 1 < m_capacity
      <4>1. /\ m_position + 1 \in Nat /\ Len(nodes) \in Nat
            /\ m_capacity = BaseSize * Len(nodes)
            /\ m_position + 1 < BaseSize * Len(nodes)
            /\ m_position + 1 <= BaseSize * Len(nodes)
        BY <1>3, <3>1, CursorFacts DEF BytesInv, BytesTypes, CursorFollows
      <4>2. /\ (m_position + 1) \div BaseSize < Len(nodes)
            /\ (m_position + 1) \div BaseSize \in Nat
        BY <4>1, DivBound, DivMod
      <4>3. cur # Null
        BY <2>2, <4>1, <4>2 DEF Follow, Null
      <4>4. QED
        BY <1>4, <4>3
    <3>2. CASE ~(m_position + 1 < m_capacity)
      BY <1>1, <3>2 DEF ReadSize, BytesInv, BytesTypes, CursorFollows
    <3>3. QED
      BY <3>1, <3>2
  <2>4. len = 0
    BY <1>1, <1>4, <2>3
  <2>5. QED
    BY <2>1, <2>4, Crashing DEF Stays
<1>5. CASE ~(~short /\ cur = Null)
  <2>1. /\ got' = File!Moved(IF short THEN <<>> ELSE SubSeq(Copy(npos, n), 2, n))
        /\ m_position' = m_position + n
        /\ m_cur' = Follow(nodes, m_cur, npos + n)
        /\ UNCHANGED <<nodes, m_size, m_capacity, crashed>> /\ crashed = Alive
    BY <1>5 DEF ReadString
  <2>2. n \in Nat /\ n <= ReadSize
    BY <1>1
  <2>3. /\ Copy(npos, n) = SubSeq(Rest, 1, n)
        /\ m_cur' = Follow(nodes, 1, m_position + n)
    BY <1>1, <2>1, <2>2, CopyRest
  <2>4. BytesInv' /\ Bytes' = Bytes
    BY <2>1, <2>2, <2>3, Reading
  <2>5. CASE short
    BY <1>1, <1>2, <1>3, <2>1, <2>4, <2>5, FileReadsString DEF Stays
  <2>6. CASE ~short
    <3>1. PICK k \in Nat, m \in Nat : k = ReadSize /\ m = n /\ 1 <= m /\ m <= k
      BY <1>1, <2>2, <2>6
    <3> DEFINE at(i) == At(nodes, m_position + i)
    <3>2. Rest = [i \in 1..k |-> at(i)]
      BY <3>1 DEF Rest
    <3> HIDE DEF at
    <3>3. SubSeq(SubSeq(Rest, 1, m), 2, m) = SubSeq(Rest, 2, m)
      BY <3>1, <3>2
    <3>4. m = len + 1 /\ m_position' = m_position + len + 1
      BY <1>1, <1>3, <2>1, <2>6, <3>1
    <3>5. (IF short THEN <<>> ELSE SubSeq(Copy(npos, n), 2, n)) =
            SubSeq(Rest, 2, len + 1)
      BY <2>3, <2>6, <3>1, <3>3, <3>4
    <3>6. got' = File!Moved(SubSeq(Rest, 2, len + 1))
      BY <2>1, <3>5
    <3>7. QED
      BY <1>1, <1>2, <2>4, <2>6, <3>4, <3>6, FileReadsString DEF Stays
  <2>7. QED
    BY <2>5, <2>6
<1>6. QED
  BY <1>4, <1>5

\* A call that only looks.
LEMMA Looking ==
    ASSUME BytesInv, NEW p \in Nat, NEW n \in Nat, crashed = Alive,
           UNCHANGED <<nodes, m_cur, m_position, m_size, m_capacity, crashed>>,
           got' = File!Looked(p, Copy(p % BaseSize, n)), m_cur = Here,
           p > m_size \/ p + n <= m_size
    PROVE  Stays
<1>1. BytesInv' /\ Bytes' = Bytes
  BY DEF BytesInv, BytesTypes, CursorFollows, Follow, Null, Alive, Bytes, At
<1>2. Len(Copy(p % BaseSize, n)) = n
  BY DEF Copy
<1>3. ASSUME p \div BaseSize = m_position \div BaseSize
      PROVE  Copy(p % BaseSize, n) = [i \in 1..n |-> At(nodes, p + i)]
  BY <1>3, CopyAt
<1>4. p <= m_size => p + n <= m_size
  BY DEF BytesInv, BytesTypes
<1>5. PICK bs : bs = Copy(p % BaseSize, n)
  OBVIOUS
<1>6. Len(bs) = n /\ got' = File!Looked(p, bs)
  BY <1>2, <1>5
<1>7. p \div BaseSize = m_position \div BaseSize /\ p <= m_size =>
        p + n <= m_size /\ bs = [i \in 1..n |-> At(nodes, p + i)]
  BY <1>3, <1>4, <1>5
<1>8. QED
  BY <1>1, <1>6, <1>7, FilePeeks DEF Stays

\* A read within the block of the position finds its blocks.
LEMMA WithinBlocks ==
    ASSUME BytesInv, NEW p \in Nat, NEW n \in Nat, n > 0, p + n <= m_size,
           p \div BaseSize = m_position \div BaseSize
    PROVE  /\ m_cur = Here /\ m_cur # Null
           /\ (p % BaseSize) + n <= m_capacity - BaseSize * (m_cur - 1)
<1>1. PICK q \in Nat, o \in Nat, r \in Nat :
        /\ q = m_position \div BaseSize /\ o = npos /\ r = p % BaseSize
        /\ m_position = BaseSize * q + o /\ p = BaseSize * q + r
  BY DivMod, OffsetNat DEF npos, BytesInv, BytesTypes
<1>2. BaseSize * q \in Nat
  BY <1>1, ByteArrayAssumption
<1>3. /\ m_size \in Nat /\ m_capacity \in Nat /\ m_position \in Nat
      /\ m_size <= m_capacity
  BY DEF BytesInv, BytesTypes, CursorFollows
<1>4. OldCap > 0
  <2>1. CASE m_position < m_capacity
    BY <1>3, <2>1 DEF OldCap
  <2>2. CASE ~(m_position < m_capacity)
    <3>1. p < m_capacity /\ p < m_position
      BY <1>3, <2>2
    <3>2. OldCap = 0
      BY <1>3, <2>2, CursorFacts DEF OldCap
    <3>3. /\ m_position = BaseSize * Len(nodes) /\ Len(nodes) \in Nat
          /\ p < BaseSize * Len(nodes) /\ p <= BaseSize * Len(nodes)
      BY <1>3, <3>1, <3>2, CursorFacts DEF BytesInv, CursorFollows
    <3>4. p \div BaseSize < Len(nodes) /\ m_position \div BaseSize = Len(nodes)
      BY <1>3, <3>3, DivBound
    <3>5. QED
      BY <1>1, <3>3, <3>4
  <2>3. QED
    BY <2>1, <2>2
<1>5. m_cur = Here /\ m_cur # Null
  BY <1>4, CursorFacts
<1>6. m_cur - 1 = q
  BY <1>1, <1>5 DEF Here
<1>7. r + n <= m_capacity - BaseSize * q
  BY <1>1, <1>2, <1>3
<1>8. QED
  BY <1>1, <1>5, <1>6, <1>7

LEMMA StepReadAt ==
    ASSUME BytesInv, NEW n \in Nat, NEW p \in Nat, ReadAt(n, p) PROVE Stays
<1>1. crashed = Alive /\ (p > m_size \/ p + n <= m_size) /\ m_size \in Nat
  BY DEF ReadAt, BytesInv, BytesTypes
<1> DEFINE none == \/ m_cur = Null
                   \/ (p % BaseSize) + n > m_capacity - BaseSize * (m_cur - 1)
<1>2. CASE none
  <2>1. Crash("readAt", p, n)
    BY <1>2 DEF ReadAt
  <2>2. CASE \/ n = 0 \/ p > m_size
             \/ p \div BaseSize # m_position \div BaseSize
    BY <2>1, <2>2, Crashing DEF Stays
  <2>3. CASE /\ n # 0 /\ p + n <= m_size
             /\ p \div BaseSize = m_position \div BaseSize
    <3>1. n > 0
      BY <2>3
    <3>2. /\ m_cur = Here /\ m_cur # Null
          /\ (p % BaseSize) + n <= m_capacity - BaseSize * (m_cur - 1)
      BY <2>3, <3>1, WithinBlocks
    <3>3. PICK x, y \in Int : /\ x = (p % BaseSize) + n
                             /\ y = m_capacity - BaseSize * (m_cur - 1)
      <4>1. (p % BaseSize) \in Nat /\ Here \in Nat /\ m_capacity \in Nat
        BY DivMod, OffsetNat, CursorFacts DEF BytesInv, BytesTypes
      <4>2. BaseSize * (m_cur - 1) \in Int
        BY <3>2, <4>1, ByteArrayAssumption
      <4>3. QED
        BY <4>1, <4>2
    <3>4. x <= y /\ (m_cur = Null \/ x > y)
      BY <1>2, <3>2, <3>3
    <3>5. QED
      BY <3>2, <3>3, <3>4
  <2>4. QED
    BY <1>1, <2>2, <2>3
<1>3. CASE ~none
  <2>1. /\ got' = File!Looked(p, Copy(p % BaseSize, n))
        /\ UNCHANGED <<nodes, m_cur, m_position, m_size, m_capacity, crashed>>
    BY <1>3 DEF ReadAt
  <2>2. m_cur = Here
    BY <1>3, CursorFacts
  <2>3. QED
    BY <1>1, <2>1, <2>2, Looking
<1>4. QED
  BY <1>2, <1>3

LEMMA StepWriteToFile ==
    ASSUME BytesInv, WriteToFile PROVE Stays
<1>1. /\ crashed = Alive /\ ReadSize \in Nat /\ m_position \in Nat
      /\ m_position + ReadSize <= m_size /\ (m_cur = Null => ReadSize = 0)
      /\ m_size \in Nat
  BY NullCursor DEF WriteToFile, BytesInv, BytesTypes, ReadSize
<1>2. CASE ReadSize > 0 /\ (m_cur = Null \/ (npos > 0 /\ ReadSize < BaseSize))
  <2>1. Crash("writeToFile", m_position, ReadSize)
    BY <1>2 DEF WriteToFile
  <2>2. npos > 0 /\ ReadSize < BaseSize
    BY <1>1, <1>2
  <2>3. QED
    BY <2>1, <2>2, Crashing DEF Stays
<1>3. CASE ~(ReadSize > 0 /\ (m_cur = Null \/ (npos > 0 /\ ReadSize < BaseSize)))
  <2>1. /\ got' = File!Looked(m_position, Copy(npos, ReadSize))
        /\ UNCHANGED <<nodes, m_cur, m_position, m_size, m_capacity, crashed>>
    BY <1>3 DEF WriteToFile
  <2>2. CASE m_cur # Null
    <3>1. m_cur = Here
      BY <2>2, CursorFacts
    <3>2. QED
      BY <1>1, <2>1, <3>1, Looking DEF npos
  <2>3. CASE m_cur = Null
    <3>1. ReadSize = 0
      BY <1>1, <2>3
    <3>2. BytesInv' /\ Bytes' = Bytes
      BY <1>1, <2>1
         DEF BytesInv, BytesTypes, CursorFollows, Follow, Null, Alive, Bytes, At
    <3>3. PICK bs : bs = Copy(npos, ReadSize)
      OBVIOUS
    <3>4. Len(bs) = 0 /\ bs = [i \in 1..0 |-> At(nodes, m_position + i)]
      BY <3>1, <3>3 DEF Copy
    <3>5. m_position + 0 <= m_size
      BY <1>1, <3>1
    <3>6. got' = File!Looked(m_position, bs) /\ m_position' = m_position
      BY <2>1, <3>3
    <3>7. PICK n \in Nat : n = 0
      OBVIOUS
    <3>8. /\ Len(bs) = n /\ m_position + n <= m_size
          /\ bs = [i \in 1..n |-> At(nodes, m_position + i)]
      BY <3>4, <3>5, <3>7
    <3>9. File!Next
      BY <1>1, <3>2, <3>6, <3>7, <3>8, FilePeeks
    <3>10. QED
      BY <3>2, <3>9 DEF Stays
  <2>4. QED
    BY <2>2, <2>3
<1>4. QED
  BY <1>2, <1>3

LEMMA StepSetPosition ==
    ASSUME BytesInv, NEW v \in Nat, SetPosition(v) PROVE Stays
<1>1. /\ v <= m_capacity /\ m_position' = v /\ m_cur' = Follow(nodes, 1, v)
      /\ m_size' = (IF v > m_size THEN v ELSE m_size)
      /\ got' = File!Moved(<<>>) /\ UNCHANGED <<nodes, m_capacity, crashed>>
      /\ crashed = Alive
  BY DEF SetPosition, Position
<1>2. m_size \in Nat /\ m_size' \in Nat /\ m_size <= m_size' /\ m_size' <= m_capacity
  BY <1>1 DEF BytesInv, BytesTypes, CursorFollows
<1>3. BytesTypes'
  BY <1>1, <1>2 DEF BytesInv, BytesTypes
<1>4. CursorFollows'
  BY <1>1, <1>2 DEF BytesInv, BytesTypes, CursorFollows, Follow, Null, Alive
<1>5. \A i \in 1..m_size : Bytes'[i] = Bytes[i]
  BY <1>1, <1>2 DEF Bytes, At
<1>6. QED
  BY <1>1, <1>2, <1>3, <1>4, <1>5, FileSeeks DEF BytesInv, Stays

LEMMA StepSend ==
    ASSUME BytesInv, NEW n \in Nat, Send(n) PROVE Stays
<1>1. /\ n <= ReadSize /\ 0 < n /\ m_cur # Null /\ crashed = Alive
      /\ got' = File!Moved(Copy(npos, n)) /\ m_position' = m_position + n
      /\ m_cur' = Follow(nodes, 1, m_position + n)
      /\ m_size' = (IF m_position + n > m_size THEN m_position + n ELSE m_size)
      /\ UNCHANGED <<nodes, m_capacity, crashed>>
  BY NullCursor DEF Send, Position
<1>2. m_size' = m_size
  BY <1>1 DEF BytesInv, BytesTypes, ReadSize
<1>3. got' = File!Moved(SubSeq(Rest, 1, n))
  BY <1>1, CopyRest
<1>4. BytesInv' /\ Bytes' = Bytes
  BY <1>1, <1>2, Reading
<1>5. QED
  BY <1>1, <1>3, <1>4, FileReads DEF Stays

LEMMA StepClear ==
    ASSUME BytesInv, Clear PROVE Stays
<1>1. nodes' \in Seq(Block) /\ Len(nodes') = 1
  BY DEF Clear, BytesInv, BytesTypes
<1>2. 0 \div BaseSize = 0
  BY DivUnique, ByteArrayAssumption DEF Offsets
<1>3. BytesInv'
  BY <1>1, <1>2, ByteArrayAssumption
     DEF Clear, BytesInv, BytesTypes, CursorFollows, Follow, Null, Alive
<1>4. File!Clear
  BY DEF Clear, File!Clear
<1>5. QED
  BY <1>3, <1>4 DEF Stays, File!Next

\* Nothing received leaves the bytes as they are, although blocks were added.
LEMMA StepReceive ==
    ASSUME BytesInv, NEW len \in 1..MaxWrite, NEW bs \in Seq(Byte),
           Receive(len, bs)
    PROVE  Stays
<1>1. len \in Nat /\ len > 0 /\ Len(bs) \in Nat /\ Len(bs) <= len
  BY DEF Receive
<1>2. /\ GrownCur(len) = Here /\ Here # Null /\ m_position \in Nat
      /\ Here <= Len(Grown(len))
  BY <1>1, GrownFacts, CursorFacts DEF BytesInv, BytesTypes
<1>3. /\ nodes' = Store(Grown(len), Here, bs)
      /\ m_capacity' = m_capacity + BaseSize * Count(len)
      /\ got' = File!Moved(<<>>) /\ crashed' = crashed /\ crashed = Alive
      /\ IF bs # <<>> THEN Position(Grown(len), m_position + Len(bs))
         ELSE m_cur' = Here /\ UNCHANGED <<m_position, m_size>>
  BY <1>2 DEF Receive
<1>4. /\ m_position' = m_position + Len(bs)
      /\ m_size' = (IF m_position' > m_size THEN m_position' ELSE m_size)
      /\ m_cur' = Follow(Grown(len), 1, m_position + Len(bs))
  <2>1. CASE bs # <<>>
    BY <1>3, <2>1 DEF Position
  <2>2. CASE bs = <<>>
    <3>1. Len(bs) = 0 /\ m_position' = m_position + 0 /\ m_position + 0 = m_position
      BY <1>2, <1>3, <2>2
    <3>2. m_size' = m_size /\ m_cur' = Here /\ m_position <= m_size /\ m_size \in Nat
      BY <1>3, <2>2 DEF BytesInv, BytesTypes, CursorFollows
    <3>3. Follow(Grown(len), 1, m_position) = Here
      BY <1>2 DEF Follow, Here
    <3>4. QED
      BY <1>2, <3>1, <3>2, <3>3
  <2>3. QED
    BY <2>1, <2>2
<1>5. /\ BytesInv'
      /\ Bytes' = [i \in 1..m_size' |->
                IF i > m_position /\ i <= m_position + Len(bs)
                THEN bs[i - m_position] ELSE Bytes[i]]
  BY <1>1, <1>3, <1>4, Writing
<1>6. CASE Len(bs) # 0
  <2>1. Len(bs) \in 1..MaxWrite
    BY <1>1, <1>6, ByteArrayAssumption
  <2>2. QED
    BY <1>3, <1>4, <1>5, <2>1, FileWrites DEF Stays
<1>7. CASE Len(bs) = 0
  <2>1. m_size' \in Nat /\ m_position' \in Nat /\ m_size \in Nat /\ m_size <= m_size'
    BY <1>4, <1>5 DEF BytesInv, BytesTypes
  <2>2. ASSUME NEW i \in 1..m_size PROVE Bytes'[i] = Bytes[i]
    <3>1. i \in 1..m_size' /\ ~(i > m_position /\ i <= m_position + Len(bs))
      BY <1>2, <1>7, <2>1
    <3>2. QED
      BY <1>5, <3>1
  <2>3. QED
    BY <1>3, <1>4, <1>5, <2>1, <2>2, FileSeeks DEF Stays
<1>8. QED
  BY <1>6, <1>7

LEMMA StepWriteString ==
    ASSUME BytesInv, NEW str \in Texts \cup {<<>>}, Len(str) < MaxWrite,
           WriteString(str)
    PROVE  Stays
<1>1. PICK len : len = Len(str) % LenSpan /\ len \in Byte
                 /\ Write(<<len>> \o str)
  BY DEF WriteString
<1>2. str \in Seq(Byte) /\ Len(str) \in Nat
  BY StringFacts
<1>3. <<len>> \o str \in Seq(Byte) /\ Len(<<len>> \o str) = Len(str) + 1
  BY <1>1, <1>2
<1>4. Len(<<len>> \o str) \in 1..MaxWrite
  BY <1>2, <1>3, ByteArrayAssumption
<1>5. QED
  BY <1>1, <1>3, <1>4, StepWrite

LEMMA BytesStep == BytesInv /\ [Next]_vars => Stays
<1> SUFFICES ASSUME BytesInv, [Next]_vars PROVE Stays
  OBVIOUS
<1>1. CASE UNCHANGED vars
  BY <1>1 DEF vars, Stays, BytesInv, BytesTypes, CursorFollows, Follow, Null,
     Alive, MayCrash, npos, ReadSize, File!vars
<1>2. CASE Next
  <2>1. ASSUME NEW n \in 0..(BaseSize * MaxBlocks),
               Read(n) \/ SetPosition(n) \/ Send(n)
        PROVE  Stays
    <3>1. n \in Nat
      BY ByteArrayAssumption
    <3>2. QED
      BY <2>1, <3>1, StepRead, StepSetPosition, StepSend
  <2>2. ASSUME NEW len \in 1..MaxWrite, NEW bs \in Texts \cup {<<>>},
               Receive(len, bs)
        PROVE  Stays
    <3>1. bs \in Seq(Byte)
      BY StringFacts
    <3>2. QED
      BY <2>2, <3>1, StepReceive
  <2>3. ASSUME NEW bs \in Texts, Write(bs) PROVE Stays
    BY <2>3, TextFacts, StepWrite
  <2>4. ASSUME NEW n \in 0..(BaseSize * MaxBlocks),
               NEW p \in 0..(BaseSize * MaxBlocks), ReadAt(n, p)
        PROVE  Stays
    <3>1. n \in Nat /\ p \in Nat
      BY ByteArrayAssumption
    <3>2. QED
      BY <2>4, <3>1, StepReadAt
  <2>5. QED
    BY <1>2, <2>1, <2>2, <2>3, <2>4, StepWriteString, StepReadString,
       StepWriteToFile, StepClear DEF Next
<1>3. QED
  BY <1>1, <1>2

\* For every size of a block, and every number of blocks: the cursor is on
\* the block of the position, and no call follows a null block but a read of
\* nothing at the very end, a writeToFile of less than a block from inside one
\* and a read aside from the block of the position.
THEOREM CursorCorrect == Spec => []CursorFollows
<1>1. BytesInv => CursorFollows
  BY DEF BytesInv
<1>2. BytesInv /\ [Next]_vars => BytesInv'
  BY BytesStep DEF Stays
<1>3. QED
  BY <1>1, <1>2, BytesInit, PTL DEF Spec

\* ... and the blocks are not seen from outside, except by a read at another
\* position than those of the cursor's block: a byte array is a file.
THEOREM FileRefinement == Spec => IsFile
<1>1. BytesInv /\ [Next]_vars => BytesInv' /\ [File!Next]_(File!vars)
  BY BytesStep DEF Stays
<1>2. QED
  BY <1>1, BytesInit, PTL DEF Spec, IsFile, File!Spec

-----------------------------------------------------------------------------
(* The configuration variable: what the threads do with their jobs *)

Place == {"idle", "check", "load", "set", "notify", "store"}
JobRecord ==
    [at : Place, left : Seq(Loggers!File), force : BOOLEAN, v : Loggers!Values,
     todo : SUBSET Loggers!Listener]
JobTypes ==
    /\ job \in [Thread -> JobRecord]
    /\ \A t \in Thread : job[t].at \in {"check", "load"} => job[t].left # <<>>

\* Thread t moves to the place p with v and todo, and leaves the others alone.
Moved(t, p, v, todo) ==
    /\ \A u \in Thread \ {t} : job'[u] = job[u]
    /\ job'[t].at = p /\ job'[t].v = v /\ job'[t].todo = todo

LEMMA JobSet ==
    ASSUME JobTypes, NEW t \in Thread, m_cbs \in SUBSET Loggers!Listener,
           job' = [job EXCEPT ![t].at = "notify", ![t].todo = m_cbs]
    PROVE  JobTypes' /\ Moved(t, "notify", job[t].v, m_cbs)
<1>1. job' \in [Thread -> JobRecord]
  BY ZenonT(60) DEF JobTypes, JobRecord, Place
<1>2. \A u \in Thread \ {t} : job'[u] = job[u]
  BY DEF JobTypes
<1>3. job'[t].at = "notify" /\ job'[t].v = job[t].v /\ job'[t].todo = m_cbs
  BY DEF JobTypes, JobRecord
<1>4. QED
  BY <1>1, <1>2, <1>3 DEF JobTypes, Moved

LEMMA JobNotify ==
    ASSUME JobTypes, NEW t \in Thread, NEW l, job[t].at = "notify",
           job' = [job EXCEPT ![t].todo = @ \ {l}]
    PROVE  JobTypes' /\ Moved(t, "notify", job[t].v, job[t].todo \ {l})
<1>1. job' \in [Thread -> JobRecord]
  BY DEF JobTypes, JobRecord
<1>2. \A u \in Thread \ {t} : job'[u] = job[u]
  BY DEF JobTypes
<1>3. job'[t].at = "notify" /\ job'[t].v = job[t].v /\ job'[t].todo = job[t].todo \ {l}
  BY DEF JobTypes, JobRecord
<1>4. QED
  BY <1>1, <1>2, <1>3 DEF JobTypes, Moved

LEMMA JobUnlock ==
    ASSUME JobTypes, NEW t \in Thread,
           job' = [job EXCEPT ![t].at = "store"]
    PROVE  JobTypes' /\ Moved(t, "store", job[t].v, job[t].todo)
<1>1. job' \in [Thread -> JobRecord]
  BY DEF JobTypes, JobRecord, Place
<1>2. \A u \in Thread \ {t} : job'[u] = job[u]
  BY DEF JobTypes
<1>3. job'[t].at = "store" /\ job'[t].v = job[t].v /\ job'[t].todo = job[t].todo
  BY DEF JobTypes, JobRecord
<1>4. QED
  BY <1>1, <1>2, <1>3 DEF JobTypes, Moved

\* Thread t goes on to something other than setValue.
Away(t) ==
    /\ \A u \in Thread \ {t} : job'[u] = job[u]
    /\ job'[t].at \in {"idle", "check", "load", "set"}

LEMMA IdleRecord == Loggers!Idle \in JobRecord /\ Loggers!Idle.at = "idle"
<1>1. <<>> \in Seq(Loggers!File) /\ {} \in SUBSET Loggers!Listener
  OBVIOUS
<1>2. Loggers!Empty \in Loggers!Values
  BY DEF Loggers!Values
<1>3. QED
  BY <1>1, <1>2 DEF Loggers!Idle, JobRecord, Place

\* A thread that has nothing left becomes idle...
LEMMA JobIdle ==
    ASSUME JobTypes, NEW t \in Thread, job' = [job EXCEPT ![t] = Loggers!Idle]
    PROVE  JobTypes' /\ Away(t)
  BY IdleRecord DEF JobTypes, Away

\* ... or stays with the files.
LEMMA JobMove ==
    ASSUME JobTypes, NEW t \in Thread, NEW p \in {"check", "load"},
           job[t].left # <<>>, job' = [job EXCEPT ![t].at = p]
    PROVE  JobTypes' /\ Away(t) /\ job'[t].at = p /\ job'[t].left = job[t].left
<1>1. job' \in [Thread -> JobRecord]
  BY DEF JobTypes, JobRecord, Place
<1>2. \A u \in Thread \ {t} : job'[u] = job[u]
  BY DEF JobTypes
<1>3. job'[t].at = p /\ job'[t].left = job[t].left
  BY DEF JobTypes, JobRecord
<1>4. QED
  BY <1>1, <1>2, <1>3 DEF JobTypes, Away

LEMMA JobDone ==
    ASSUME JobTypes, NEW t \in Thread, Loggers!Done(t)
    PROVE  JobTypes' /\ Away(t)
<1>1. CASE job[t].left = <<>>
  <2>1. job' = [job EXCEPT ![t] = Loggers!Idle]
    BY <1>1 DEF Loggers!Done, JobTypes
  <2>2. QED
    BY <2>1, JobIdle
<1>2. CASE job[t].left # <<>>
  <2>1. job' = [job EXCEPT ![t].at = "check"]
    BY <1>2 DEF Loggers!Done, JobTypes
  <2>2. QED
    BY <1>2, <2>1, JobMove
<1>3. QED
  BY <1>1, <1>2

\* Every file in turn.
LEMMA JobLoad ==
    ASSUME JobTypes, NEW t \in Thread, NEW force \in BOOLEAN,
           Loggers!LoadFromConfDir(t, force)
    PROVE  JobTypes' /\ Away(t) /\ job'[t].at = "check"
<1> DEFINE left == [f \in Loggers!File |-> f]
<1>1. left \in Seq(Loggers!File) /\ left # <<>>
  <2>1. PICK n \in Nat : n = Len(Files)
    BY LibraryAssumption, LenProperties
  <2>2. n # 0
    BY <2>1, LibraryAssumption, EmptySeq DEF Loggers!LoadFromConfDir
  <2>3. left = [f \in 1..n |-> f] /\ Loggers!File = 1..n
    BY <2>1 DEF Loggers!File
  <2>4. [f \in 1..n |-> f] \in Seq(1..n)
    OBVIOUS
  <2>5. [f \in 1..n |-> f] # <<>>
    BY <2>2
  <2>6. QED
    BY <2>3, <2>4, <2>5, Zenon
<1>2. job' = [job EXCEPT ![t].at = "check", ![t].force = force, ![t].left = left]
  BY DEF Loggers!LoadFromConfDir
<1> HIDE DEF left
<1>3. job' \in [Thread -> JobRecord]
  <2> DEFINE j == [job[t] EXCEPT !.at = "check", !.force = force, !.left = left]
  <2>1. job[t] \in JobRecord /\ job \in [Thread -> JobRecord]
    BY DEF JobTypes
  <2>2. j \in JobRecord
    BY <1>1, <2>1 DEF JobRecord, Place
  <2>3. job' = [job EXCEPT ![t] = j]
    BY <1>2, <2>1
  <2> HIDE DEF j
  <2>4. QED
    BY <2>1, <2>2, <2>3
<1>4. \A u \in Thread \ {t} : job'[u] = job[u]
  BY <1>2 DEF JobTypes
<1>5. job'[t].at = "check" /\ job'[t].left = left
  BY <1>2 DEF JobTypes, JobRecord
<1>6. QED
  BY <1>1, <1>3, <1>4, <1>5 DEF JobTypes, Away

\* The next file.
LEMMA JobNext ==
    ASSUME JobTypes, NEW t \in Thread, job[t].at \in {"check", "load"}
    PROVE  /\ Head(job[t].left) \in Loggers!File
           /\ Tail(job[t].left) \in Seq(Loggers!File)
  BY DEF JobTypes, JobRecord

Skips(x, rest) == [x EXCEPT !.at = "check", !.left = rest]
LEMMA SkipRecord ==
    ASSUME NEW x \in JobRecord, NEW rest \in Seq(Loggers!File)
    PROVE  Skips(x, rest) \in JobRecord
  BY DEF JobRecord, Place, Skips

Sets(x, v, rest) == [x EXCEPT !.at = "set", !.v = v, !.left = rest]
LEMMA SetRecord ==
    ASSUME NEW x \in JobRecord, NEW rest \in Seq(Loggers!File),
           NEW v \in Loggers!Values
    PROVE  Sets(x, v, rest) \in JobRecord
  BY DEF JobRecord, Place, Sets

LEMMA JobSkip ==
    ASSUME JobTypes, NEW t \in Thread, NEW rest \in Seq(Loggers!File),
           job' = [job EXCEPT ![t] = IF rest = <<>> THEN Loggers!Idle
                                     ELSE [@ EXCEPT !.at = "check", !.left = rest]]
    PROVE  JobTypes' /\ Away(t) /\ job'[t].at \in {"idle", "check"}
<1>1. CASE rest = <<>>
  <2>1. job' = [job EXCEPT ![t] = Loggers!Idle]
    BY <1>1 DEF JobTypes
  <2>2. job'[t].at = "idle"
    BY <2>1, IdleRecord DEF JobTypes
  <2>3. QED
    BY <2>1, <2>2, JobIdle
<1>2. CASE rest # <<>>
  <2>1. job' = [job EXCEPT ![t].at = "check", ![t].left = rest]
    BY <1>2 DEF JobTypes
  <2>2. job' \in [Thread -> JobRecord]
    <3>1. Skips(job[t], rest) \in JobRecord
      BY SkipRecord DEF JobTypes
    <3>2. job' = [job EXCEPT ![t] = Skips(job[t], rest)]
      BY <2>1 DEF Skips
    <3>3. QED
      BY <3>1, <3>2 DEF JobTypes
  <2>3. \A u \in Thread \ {t} : job'[u] = job[u]
    BY <2>1 DEF JobTypes
  <2>4. job'[t].at = "check" /\ job'[t].left = rest
    BY <2>1 DEF JobTypes, JobRecord
  <2>5. QED
    BY <1>2, <2>2, <2>3, <2>4 DEF JobTypes, Away
<1>3. QED
  BY <1>1, <1>2

LEMMA JobValue ==
    ASSUME JobTypes, NEW t \in Thread, NEW rest \in Seq(Loggers!File),
           NEW v \in Loggers!Values,
           job' = [job EXCEPT ![t].at = "set", ![t].v = v, ![t].left = rest]
    PROVE  JobTypes' /\ Away(t) /\ job'[t].at = "set"
<1>1. job' \in [Thread -> JobRecord]
  <2>1. Sets(job[t], v, rest) \in JobRecord
    BY SetRecord DEF JobTypes
  <2>2. job' = [job EXCEPT ![t] = Sets(job[t], v, rest)]
    BY DEF Sets
  <2>3. QED
    BY <2>1, <2>2 DEF JobTypes
<1>2. \A u \in Thread \ {t} : job'[u] = job[u]
  BY DEF JobTypes
<1>3. job'[t].at = "set"
  BY DEF JobTypes, JobRecord
<1>4. QED
  BY <1>1, <1>2, <1>3 DEF JobTypes, Away

LEMMA JobCheck ==
    ASSUME JobTypes, NEW t \in Thread, Loggers!CheckFile(t)
    PROVE  /\ JobTypes' /\ Away(t)
           /\ LET f == Head(job[t].left)
              IN  \/ s_file2modifytime' = s_file2modifytime
                  \/ /\ s_file2modifytime' =
                            [s_file2modifytime EXCEPT ![f] = file[f].mtime]
                     /\ job'[t].at = "load" /\ Head(job'[t].left) = f
<1> DEFINE f == Head(job[t].left)
           rest == Tail(job[t].left)
<1>1. job[t].at = "check" /\ job[t].left # <<>>
  BY DEF Loggers!CheckFile, Loggers!At, JobTypes
<1>2. rest \in Seq(Loggers!File)
  BY SMTT(60), <1>1, JobNext
<1>3. CASE /\ s_file2modifytime' = s_file2modifytime
           /\ job' = [job EXCEPT ![t] = IF rest = <<>> THEN Loggers!Idle
                                        ELSE [@ EXCEPT !.left = rest]]
  <2>1. job' = [job EXCEPT ![t] = IF rest = <<>> THEN Loggers!Idle
                                  ELSE [@ EXCEPT !.at = "check", !.left = rest]]
    <3>1. [job[t] EXCEPT !.left = rest] =
                [job[t] EXCEPT !.at = "check", !.left = rest]
      BY <1>1 DEF JobTypes, JobRecord
    <3>2. CASE rest = <<>>
      BY <1>3, <3>2 DEF JobTypes
    <3>3. CASE rest # <<>>
      <4>1. job' = [job EXCEPT ![t] = [job[t] EXCEPT !.left = rest]]
        BY <1>3, <3>3 DEF JobTypes
      <4>2. QED
        BY <3>1, <3>3, <4>1 DEF JobTypes
    <3>4. QED
      BY <3>2, <3>3
  <2>2. QED
    BY <1>2, <1>3, <2>1, JobSkip
<1>4. CASE /\ s_file2modifytime' =
                    [s_file2modifytime EXCEPT ![f] = file[f].mtime]
           /\ job' = [job EXCEPT ![t].at = "load"]
  BY ZenonT(60), <1>1, <1>4, JobMove
<1>5. QED
  BY <1>3, <1>4 DEF Loggers!CheckFile

LEMMA JobLoadFile ==
    ASSUME JobTypes, NEW t \in Thread, Loggers!LoadFile(t),
           \A f \in Loggers!File : file[f].text \in Contents
    PROVE  /\ JobTypes' /\ Away(t) /\ job'[t].at # "load"
           /\ Head(job[t].left) \in Loggers!File
           /\ LET f == Head(job[t].left)
              IN  loaded' = [loaded EXCEPT ![f] = file[f].mtime]
<1> DEFINE f == Head(job[t].left)
           rest == Tail(job[t].left)
<1>1. job[t].at = "load" /\ f \in Loggers!File /\ rest \in Seq(Loggers!File)
  BY ZenonT(60), JobNext DEF Loggers!LoadFile, Loggers!At
<1>2. CASE \E v \in [text \in Contents |-> Loggers!LogDefines(text)][file[f].text] :
            job' = [job EXCEPT ![t].at = "set", ![t].v = v, ![t].left = rest]
  <2>1. PICK v \in Loggers!LogDefines(file[f].text) :
            job' = [job EXCEPT ![t].at = "set", ![t].v = v, ![t].left = rest]
    BY <1>1, <1>2
  <2>2. v \in Loggers!Values
    BY <1>1 DEF Loggers!Values
  <2> HIDE DEF rest
  <2>3. JobTypes' /\ Away(t) /\ job'[t].at = "set"
    BY ZenonT(60), <1>1, <2>1, <2>2, JobValue
  <2>4. QED
    BY ZenonT(60), <1>1, <2>3 DEF Loggers!LoadFile, rest
<1>3. CASE job' = [job EXCEPT ![t] = IF rest = <<>> THEN Loggers!Idle
                        ELSE [@ EXCEPT !.at = "check", !.left = rest]]
  <2>1. JobTypes' /\ Away(t) /\ job'[t].at \in {"idle", "check"}
    BY <1>1, <1>3, JobSkip
  <2>2. QED
    BY ZenonT(60), <1>1, <2>1 DEF Loggers!LoadFile
<1>4. QED
  BY ZenonT(60), <1>2, <1>3 DEF Loggers!LoadFile

-----------------------------------------------------------------------------
(* The listeners: the inductive invariant *)

Busy(t) == job[t].at \in {"notify", "store"}

ConfigTypes ==
    /\ JobTypes
    /\ s_fun_id \in Nat /\ 1 <= s_fun_id /\ s_fun_id <= MaxListeners
    /\ m_cbs \in SUBSET (1..s_fun_id) /\ 1 \in m_cbs
    /\ missed \in SUBSET (1..s_fun_id)
    /\ m_val \in Loggers!Values
    /\ told \in [Loggers!Listener -> SUBSET Loggers!Values]
    /\ last \in [Loggers!Listener -> Loggers!Values]

\* The read lock keeps the listeners as they were when the calls began, and
\* it is given back when there is none left to call.
TodoInv ==
    \A t \in Thread :
        /\ job[t].at = "notify" => job[t].todo \subseteq m_cbs
        /\ job[t].at = "store" => job[t].todo = {}

\* Whoever has been called knows the value that is about to be stored.
ToldInv ==
    \A l \in m_cbs \ missed :
        /\ m_val \in told[l]
        /\ \A t \in Thread : Busy(t) /\ l \notin job[t].todo => job[t].v \in told[l]

\* Alone, a thread has told its value last.
LastInv ==
    overlap \/
        /\ \A t, u \in Thread : Busy(t) /\ Busy(u) => t = u
        /\ \A l \in m_cbs \ missed :
            /\ last[l] = m_val \/ \E t \in Thread : Busy(t)
            /\ \A t \in Thread : Busy(t) /\ l \notin job[t].todo => last[l] = job[t].v

ConfigInv == ConfigTypes /\ TodoInv /\ ToldInv /\ LastInv

LEMMA ConfigInit == Loggers!LogInit => ConfigInv
<1> SUFFICES ASSUME Loggers!LogInit PROVE ConfigInv
  OBVIOUS
<1> USE DEF Loggers!LogInit, Loggers!Init
<1>1. JobTypes /\ \A t \in Thread : job[t].at = "idle"
  BY IdleRecord DEF JobTypes
<1>2. Loggers!Empty \in Loggers!Values
  BY DEF Loggers!Values
<1>3. ConfigTypes
  BY <1>1, <1>2, LibraryAssumption DEF ConfigTypes, Loggers!Listener
<1>4. TodoInv
  BY <1>1 DEF TodoInv
<1>5. ToldInv /\ LastInv
  BY <1>1, LibraryAssumption DEF ToldInv, LastInv, Busy, Loggers!Listener
<1>6. QED
  BY <1>3, <1>4, <1>5 DEF ConfigInv

\* A step of a thread outside setValue.
LEMMA AwayStep ==
    ASSUME ConfigInv, NEW t \in Thread, ~Busy(t), JobTypes', Away(t),
           UNCHANGED <<m_val, m_cbs, s_fun_id, told, last, missed, overlap>>
    PROVE  ConfigInv'
<1>1. \A u \in Thread : Busy(u)' = Busy(u) /\ (Busy(u) => job'[u] = job[u])
  BY DEF Busy, Away
<1>2. ConfigTypes'
  BY DEF ConfigInv, ConfigTypes
<1>3. TodoInv'
  BY <1>1 DEF ConfigInv, TodoInv, Busy
<1>4. ToldInv'
  BY <1>1 DEF ConfigInv, ToldInv
<1>5. LastInv'
  BY <1>1 DEF ConfigInv, LastInv
<1>6. QED
  BY <1>2, <1>3, <1>4, <1>5 DEF ConfigInv

LEMMA StepSetValue ==
    ASSUME ConfigInv, NEW t \in Thread, Loggers!SetValue(t) PROVE ConfigInv'
<1>1. /\ job[t].at = "set"
      /\ UNCHANGED <<m_val, m_cbs, s_fun_id, told, last, missed>>
  BY DEF Loggers!SetValue, Loggers!At
<1>2. CASE Loggers!Done(t) /\ overlap' = overlap
  BY <1>1, <1>2, JobDone, AwayStep DEF ConfigInv, ConfigTypes, Busy
<1>3. CASE /\ job' = [job EXCEPT ![t].at = "notify", ![t].todo = m_cbs]
           /\ overlap' = (overlap \/ Loggers!Setting # {})
  <2>1. m_cbs \in SUBSET Loggers!Listener
    BY LibraryAssumption DEF ConfigInv, ConfigTypes, Loggers!Listener
  <2>2. JobTypes' /\ Moved(t, "notify", job[t].v, m_cbs)
    BY <1>3, <2>1, JobSet DEF ConfigInv, ConfigTypes
  <2>3. ConfigTypes'
    BY <1>1, <2>2 DEF ConfigInv, ConfigTypes
  <2>4. TodoInv'
    BY <1>1, <2>2 DEF ConfigInv, TodoInv, Moved
  <2>5. ToldInv'
    BY <1>1, <2>2 DEF ConfigInv, ToldInv, Moved, Busy
  <2>6. CASE overlap'
    BY <2>3, <2>4, <2>5, <2>6 DEF ConfigInv, LastInv
  <2>7. CASE ~overlap'
    <3>1. ~overlap /\ \A u \in Thread : ~Busy(u)
      BY <1>3, <2>7 DEF Loggers!Setting, Loggers!At, Busy
    <3>2. /\ Busy(t)' /\ job'[t].todo = m_cbs
          /\ \A u \in Thread \ {t} : ~Busy(u)'
      BY <1>1, <2>2, <3>1 DEF Moved, Busy
    <3>3. LastInv'
      BY <1>1, <3>2 DEF LastInv
    <3>4. QED
      BY <2>3, <2>4, <2>5, <3>3 DEF ConfigInv
  <2>8. QED
    BY <2>6, <2>7
<1>4. QED
  BY <1>2, <1>3 DEF Loggers!SetValue

\* Called(t) is one of those to call.
LEMMA CalledFacts ==
    ASSUME ConfigInv, NEW t \in Thread, Loggers!Notify(t)
    PROVE  /\ job[t].at = "notify" /\ Loggers!Called(t) \in job[t].todo
           /\ Loggers!Called(t) \in m_cbs /\ Loggers!Called(t) \in Loggers!Listener
<1>1. job[t].at = "notify" /\ job[t].todo # {}
  BY DEF Loggers!Notify, Loggers!At
<1>2. job[t].todo \subseteq m_cbs
  BY <1>1 DEF ConfigInv, TodoInv
<1>3. job[t].todo \in SUBSET Nat /\ m_cbs \subseteq Loggers!Listener
  <2>1. m_cbs \subseteq Loggers!Listener /\ m_cbs \subseteq Nat
    BY LibraryAssumption DEF ConfigInv, ConfigTypes, Loggers!Listener
  <2>2. QED
    BY <1>2, <2>1
<1>4. Loggers!Called(t) \in job[t].todo
  BY <1>1, <1>3, LeastNat DEF Loggers!Called
<1>5. QED
  BY <1>1, <1>2, <1>3, <1>4

LEMMA StepNotify ==
    ASSUME ConfigInv, NEW t \in Thread, Loggers!Notify(t) PROVE ConfigInv'
<1>1. PICK l \in Loggers!Listener : l = Loggers!Called(t) /\ l \in m_cbs
                /\ l \in job[t].todo
  BY CalledFacts
<1>2. /\ job[t].at = "notify"
      /\ job' = [job EXCEPT ![t].todo = @ \ {l}]
      /\ told' = [told EXCEPT ![l] = @ \cup {job[t].v}]
      /\ last' = [last EXCEPT ![l] = job[t].v]
      /\ UNCHANGED <<m_val, m_cbs, s_fun_id, missed, overlap>>
  BY <1>1 DEF Loggers!Notify, Loggers!At
<1>3. JobTypes' /\ Moved(t, "notify", job[t].v, job[t].todo \ {l})
  BY <1>2, JobNotify DEF ConfigInv, ConfigTypes
<1>4. job[t].v \in Loggers!Values
  BY DEF ConfigInv, ConfigTypes, JobTypes, JobRecord
<1>5. ConfigTypes'
  BY <1>2, <1>3, <1>4 DEF ConfigInv, ConfigTypes
<1>6. TodoInv'
  BY <1>2, <1>3 DEF ConfigInv, TodoInv, Moved
<1>7. /\ \A u \in Thread : Busy(u)' = Busy(u) /\ job'[u].v = job[u].v
      /\ \A u \in Thread \ {t} : job'[u].todo = job[u].todo
      /\ job'[t].todo = job[t].todo \ {l} /\ Busy(t)
  BY <1>2, <1>3 DEF Moved, Busy
<1>8. \A k \in m_cbs : /\ told[k] \subseteq told'[k]
                       /\ k # l => last'[k] = last[k] /\ told'[k] = told[k]
                       /\ job[t].v \in told'[l] /\ last'[l] = job[t].v
  BY <1>1, <1>2 DEF ConfigInv, ConfigTypes, Loggers!Listener
<1>9. ToldInv'
  BY <1>2, <1>7, <1>8 DEF ConfigInv, ToldInv
<1>10. LastInv'
  BY <1>2, <1>7, <1>8 DEF ConfigInv, LastInv
<1>11. QED
  BY <1>5, <1>6, <1>9, <1>10 DEF ConfigInv

LEMMA StepUnlock ==
    ASSUME ConfigInv, NEW t \in Thread, Loggers!Unlock(t) PROVE ConfigInv'
<1>1. /\ job[t].at = "notify" /\ job[t].todo = {}
      /\ job' = [job EXCEPT ![t].at = "store"]
      /\ UNCHANGED <<m_val, m_cbs, s_fun_id, told, last, missed, overlap>>
  BY DEF Loggers!Unlock, Loggers!At
<1>2. JobTypes' /\ Moved(t, "store", job[t].v, job[t].todo)
  BY <1>1, JobUnlock DEF ConfigInv, ConfigTypes
<1>3. ConfigTypes'
  BY <1>1, <1>2 DEF ConfigInv, ConfigTypes
<1>4. TodoInv'
  BY <1>1, <1>2 DEF ConfigInv, TodoInv, Moved
<1>5. \A u \in Thread : /\ Busy(u)' = Busy(u) /\ job'[u].v = job[u].v
                        /\ job'[u].todo = job[u].todo
  BY <1>1, <1>2 DEF Moved, Busy
<1>6. ToldInv'
  BY <1>1, <1>5 DEF ConfigInv, ToldInv
<1>7. LastInv'
  BY <1>1, <1>5 DEF ConfigInv, LastInv
<1>8. QED
  BY <1>3, <1>4, <1>6, <1>7 DEF ConfigInv

LEMMA StepStore ==
    ASSUME ConfigInv, NEW t \in Thread, Loggers!Store(t) PROVE ConfigInv'
<1>1. /\ job[t].at = "store" /\ m_val' = job[t].v /\ Loggers!Done(t)
      /\ UNCHANGED <<m_cbs, s_fun_id, told, last, missed, overlap>>
  BY DEF Loggers!Store, Loggers!At
<1>2. JobTypes' /\ Away(t)
  BY <1>1, JobDone DEF ConfigInv, ConfigTypes
<1>3. job[t].v \in Loggers!Values /\ job[t].todo = {} /\ Busy(t)
  BY <1>1 DEF ConfigInv, ConfigTypes, JobTypes, JobRecord, TodoInv, Busy
<1>4. ConfigTypes'
  BY <1>1, <1>2, <1>3 DEF ConfigInv, ConfigTypes
<1>5. \A u \in Thread : Busy(u)' => u # t /\ Busy(u) /\ job'[u] = job[u]
  BY <1>2 DEF Away, Busy
<1>6. TodoInv'
  BY <1>1, <1>2 DEF ConfigInv, TodoInv, Away
<1>7. ToldInv'
  BY <1>1, <1>3, <1>5 DEF ConfigInv, ToldInv
<1>8. LastInv'
  BY <1>1, <1>3, <1>5 DEF ConfigInv, LastInv
<1>9. QED
  BY <1>4, <1>6, <1>7, <1>8 DEF ConfigInv

LEMMA StepListener ==
    ASSUME ConfigInv, Loggers!addListener PROVE ConfigInv'
<1>1. PICK n \in Nat : n = s_fun_id + 1
  BY DEF ConfigInv, ConfigTypes
<1>2. /\ s_fun_id < MaxListeners /\ s_fun_id' = n /\ m_cbs' = m_cbs \cup {n}
      /\ told' = [told EXCEPT ![n] = {m_val}]
      /\ last' = [last EXCEPT ![n] = m_val]
      /\ missed' = IF \E t \in Thread : job[t].at = "store"
                   THEN missed \cup {n} ELSE missed
      /\ UNCHANGED <<m_val, job, overlap>>
      /\ \A t \in Thread : job[t].at # "notify"
  BY <1>1 DEF Loggers!addListener, Loggers!At, Loggers!Readers
<1>3. n \in Loggers!Listener /\ n \notin m_cbs /\ n \notin missed
  BY <1>1, <1>2, LibraryAssumption DEF ConfigInv, ConfigTypes, Loggers!Listener
<1>4. m_cbs \subseteq Loggers!Listener
  BY LibraryAssumption DEF ConfigInv, ConfigTypes, Loggers!Listener
<1>5. ConfigTypes'
  BY <1>1, <1>2, <1>3, LibraryAssumption DEF ConfigInv, ConfigTypes, JobTypes
<1>6. TodoInv'
  BY <1>2 DEF ConfigInv, TodoInv
<1>7. /\ \A k \in m_cbs : told'[k] = told[k] /\ last'[k] = last[k]
      /\ told'[n] = {m_val} /\ last'[n] = m_val
  BY <1>2, <1>3, <1>4 DEF ConfigInv, ConfigTypes
<1>8. (\E t \in Thread : Busy(t)) => n \in missed'
  BY <1>2 DEF Busy
<1>9. ToldInv'
  BY <1>2, <1>7, <1>8 DEF ConfigInv, ToldInv, Busy
<1>10. LastInv'
  BY <1>2, <1>7, <1>8 DEF ConfigInv, LastInv, Busy
<1>11. QED
  BY <1>5, <1>6, <1>9, <1>10 DEF ConfigInv

LEMMA StepUnlisten ==
    ASSUME ConfigInv, NEW key \in m_cbs, Loggers!delListener(key) PROVE ConfigInv'
<1>1. /\ key > 1 /\ m_cbs' = m_cbs \ {key}
      /\ UNCHANGED <<m_val, s_fun_id, job, told, last, missed, overlap>>
      /\ \A t \in Thread : job[t].at # "notify"
  BY DEF Loggers!delListener, Loggers!At, Loggers!Readers
<1>2. ConfigTypes'
  BY <1>1 DEF ConfigInv, ConfigTypes, JobTypes
<1>3. TodoInv'
  BY <1>1 DEF ConfigInv, TodoInv
<1>4. ToldInv' /\ LastInv'
  BY <1>1 DEF ConfigInv, ToldInv, LastInv, Busy
<1>5. QED
  BY <1>2, <1>3, <1>4 DEF ConfigInv

-----------------------------------------------------------------------------
(* The files: the inductive invariant *)

FileTypes ==
    /\ file \in [Loggers!File ->
            [text : Contents, mtime : Nat, twice : BOOLEAN, edits : Nat]]
    /\ s_file2modifytime \in [Loggers!File -> Nat]
    /\ loaded \in [Loggers!File -> Nat]

\* No mtime is noted before the file has it.
MtimeInv == \A f \in Loggers!File : s_file2modifytime[f] <= file[f].mtime

FileInv == FileTypes /\ MtimeInv /\ Loggers!FileNotSkipped

LEMMA FileInit == Loggers!LogInit => FileInv
<1> SUFFICES ASSUME Loggers!LogInit PROVE FileInv
  OBVIOUS
<1>1. FileTypes /\ \A f \in Loggers!File : file[f].mtime = 1
  <2> DEFINE New == [text : Contents, mtime : {1}, twice : {FALSE}, edits : {0}]
  <2>1. file \in [Loggers!File -> New]
    BY DEF Loggers!LogInit, Loggers!Init
  <2>2. \A r \in New : /\ r.mtime = 1
                       /\ r \in [text : Contents, mtime : Nat, twice : BOOLEAN,
                                 edits : Nat]
    <3>1. ASSUME NEW r \in New
          PROVE  /\ r.text \in Contents /\ r.mtime = 1
                 /\ r = [text |-> r.text, mtime |-> 1, twice |-> FALSE, edits |-> 0]
      OBVIOUS
    <3>2. \A x \in Contents :
            [text |-> x, mtime |-> 1, twice |-> FALSE, edits |-> 0] \in
                [text : Contents, mtime : Nat, twice : BOOLEAN, edits : Nat]
      OBVIOUS
    <3>3. QED
      BY <3>1, <3>2, Zenon
  <2> HIDE DEF New
  <2>3. s_file2modifytime = [f \in Loggers!File |-> 0]
        /\ loaded = [f \in Loggers!File |-> 0]
    BY DEF Loggers!LogInit, Loggers!Init
  <2>4. QED
    BY <2>1, <2>2, <2>3 DEF FileTypes
<1>2. \A f \in Loggers!File : s_file2modifytime[f] = 0
  BY DEF Loggers!LogInit, Loggers!Init
<1>3. QED
  BY <1>1, <1>2 DEF FileInv, MtimeInv, Loggers!FileNotSkipped

\* A step after which no thread has left a file it was about to read.
LEMMA StepFile ==
    ASSUME FileInv, UNCHANGED <<file, s_file2modifytime, loaded>>,
           \A t \in Thread : job[t].at = "load" => job'[t] = job[t]
    PROVE  FileInv'
  BY DEF FileInv, FileTypes, MtimeInv, Loggers!FileNotSkipped, Loggers!At

LEMMA StepCheck ==
    ASSUME FileInv, JobTypes, NEW t \in Thread, Loggers!CheckFile(t)
    PROVE  FileInv'
<1> DEFINE f == Head(job[t].left)
<1>1. job[t].at = "check" /\ file' = file /\ loaded' = loaded
  BY DEF Loggers!CheckFile, Loggers!At
<1>2. f \in Loggers!File
  BY <1>1, JobNext
<1>3. /\ Away(t)
      /\ \/ s_file2modifytime' = s_file2modifytime
         \/ /\ s_file2modifytime' = [s_file2modifytime EXCEPT ![f] = file[f].mtime]
            /\ job'[t].at = "load" /\ Head(job'[t].left) = f
  BY JobCheck
<1> HIDE DEF f
<1>4. \A u \in Thread : job[u].at = "load" => job'[u] = job[u]
  BY <1>1, <1>3 DEF Away
<1>5. CASE s_file2modifytime' = s_file2modifytime
  BY <1>1, <1>4, <1>5, StepFile
<1>6. CASE /\ s_file2modifytime' = [s_file2modifytime EXCEPT ![f] = file[f].mtime]
           /\ job'[t].at = "load" /\ Head(job'[t].left) = f
  <2>1. FileTypes' /\ MtimeInv'
    BY <1>1, <1>2, <1>6 DEF FileInv, FileTypes, MtimeInv
  <2>2. ASSUME NEW g \in Loggers!File, s_file2modifytime'[g] = file'[g].mtime,
               ~file'[g].twice
        PROVE  \/ loaded'[g] = file'[g].mtime
               \/ \E u \in Thread : job'[u].at = "load" /\ Head(job'[u].left) = g
    <3>1. CASE g = f
      BY <1>6, <3>1
    <3>2. CASE g # f
      <4>1. s_file2modifytime[g] = file[g].mtime
        BY <1>1, <1>2, <1>6, <2>2, <3>2 DEF FileInv, FileTypes
      <4>2. \/ loaded[g] = file[g].mtime
            \/ \E u \in Thread : job[u].at = "load" /\ Head(job[u].left) = g
        BY <1>1, <2>2, <4>1 DEF FileInv, Loggers!FileNotSkipped, Loggers!At
      <4>3. QED
        BY <1>1, <1>4, <4>2
    <3>3. QED
      BY <3>1, <3>2
  <2>3. Loggers!FileNotSkipped'
    BY SMTT(60), <2>2 DEF Loggers!FileNotSkipped, Loggers!At
  <2>4. QED
    BY <2>1, <2>3 DEF FileInv
<1>7. QED
  BY <1>3, <1>5, <1>6

LEMMA StepLoad ==
    ASSUME FileInv, JobTypes, NEW t \in Thread, Loggers!LoadFile(t)
    PROVE  FileInv'
<1> DEFINE f == Head(job[t].left)
<1>1. /\ job[t].at = "load" /\ file' = file
      /\ s_file2modifytime' = s_file2modifytime
  BY ZenonT(60) DEF Loggers!LoadFile, Loggers!At
<1>2. \A g \in Loggers!File : file[g].text \in Contents
  BY DEF FileInv, FileTypes
<1>3. /\ Away(t) /\ f \in Loggers!File
      /\ loaded' = [loaded EXCEPT ![f] = file[f].mtime]
  BY <1>2, JobLoadFile
<1>4. FileTypes' /\ MtimeInv'
  BY <1>1, <1>3 DEF FileInv, FileTypes, MtimeInv
<1>5. ASSUME NEW g \in Loggers!File, s_file2modifytime'[g] = file'[g].mtime,
             ~file'[g].twice
      PROVE  \/ loaded'[g] = file'[g].mtime
             \/ \E u \in Thread : job'[u].at = "load" /\ Head(job'[u].left) = g
  <2>1. CASE g = f
    BY <1>1, <1>3, <2>1 DEF FileInv, FileTypes
  <2>2. CASE g # f
    <3>1. \/ loaded[g] = file[g].mtime
          \/ \E u \in Thread : job[u].at = "load" /\ Head(job[u].left) = g
      BY <1>1, <1>5 DEF FileInv, Loggers!FileNotSkipped, Loggers!At
    <3>2. loaded'[g] = loaded[g]
      BY <1>3, <2>2 DEF FileInv, FileTypes
    <3>3. QED
      BY <1>1, <1>3, <2>2, <3>1, <3>2 DEF Away
  <2>3. QED
    BY <2>1, <2>2
<1>6. Loggers!FileNotSkipped'
  BY <1>5 DEF Loggers!FileNotSkipped, Loggers!At
<1>7. QED
  BY <1>4, <1>6 DEF FileInv

LEMMA StepEdit ==
    ASSUME FileInv, NEW f \in Loggers!File, NEW text \in Contents,
           Loggers!Edit(f, text)
    PROVE  FileInv'
<1>1. UNCHANGED <<job, s_file2modifytime, loaded>>
  BY DEF Loggers!Edit
<1>2. PICK mtime \in {file[f].mtime, file[f].mtime + 1} :
        file' = [file EXCEPT ![f] =
                    [text |-> text, mtime |-> mtime,
                     twice |-> mtime = file[f].mtime,
                     edits |-> file[f].edits + 1]]
  BY DEF Loggers!Edit
<1>3. mtime \in Nat /\ file[f].mtime \in Nat /\ file[f].edits + 1 \in Nat
  BY <1>2 DEF FileInv, FileTypes
<1>4. PICK b \in BOOLEAN : b = (mtime = file[f].mtime)
  OBVIOUS
<1>5. file' = [file EXCEPT ![f] = [text |-> text, mtime |-> mtime, twice |-> b,
                                   edits |-> file[f].edits + 1]]
  BY <1>2, <1>4
<1>6. FileTypes'
  BY <1>1, <1>3, <1>5 DEF FileInv, FileTypes
<1>7. /\ file'[f].mtime = mtime /\ (file'[f].twice <=> b)
      /\ \A g \in Loggers!File \ {f} : file'[g] = file[g]
  BY <1>5 DEF FileInv, FileTypes
<1>8. MtimeInv'
  BY <1>1, <1>2, <1>3, <1>7 DEF FileInv, FileTypes, MtimeInv
<1>9. mtime = file[f].mtime + 1 => s_file2modifytime[f] # mtime
  BY <1>3 DEF FileInv, FileTypes, MtimeInv
<1>10. Loggers!FileNotSkipped'
  BY <1>1, <1>2, <1>4, <1>7, <1>9 DEF FileInv, Loggers!FileNotSkipped, Loggers!At
<1>11. QED
  BY <1>6, <1>8, <1>10 DEF FileInv

-----------------------------------------------------------------------------
(* The loggers: the inductive invariant *)

Writers(d, as) == IF d THEN SelectSeq(as, LAMBDA a : a = "file") ELSE as

LEMMA AppendersAre == \A as : Loggers!Appenders(as) = Writers(daemon, as)
  BY Zenon DEF Loggers!Appenders, Writers

\* Logger n is as the value val says, with the appenders as.
Follows(n, val, as) ==
    /\ n \in DOMAIN val => /\ logger[n].level = val[n].level
                           /\ logger[n].appenders = Writers(daemon, as)
    /\ n \notin DOMAIN val => logger[n].appenders = <<>>

Told(t) == Busy(t) /\ 1 \notin job[t].todo

\* Until the first listener is called the loggers are as the variable says,
\* from then on as the value that is about to be stored.
LoggerInv ==
    aborted \/ overlap \/ \A n \in Name :
        /\ (\E t \in Thread : Told(t)) \/ Follows(n, m_val, since[n])
        /\ \A t \in Thread : Told(t) =>
                Follows(n, job[t].v, IF n \in DOMAIN m_val THEN since[n]
                                     ELSE job[t].v[n].appenders)

LEMMA LoggerInit == Loggers!LogInit => LoggerInv
<1> SUFFICES ASSUME Loggers!LogInit, NEW n \in Name
             PROVE  /\ Follows(n, m_val, since[n])
                    /\ \A t \in Thread : ~Told(t)
  BY DEF LoggerInv
<1>1. \A t \in Thread : ~Told(t)
  BY IdleRecord DEF Told, Busy, Loggers!LogInit, Loggers!Init
<1>2. n \notin DOMAIN m_val
  BY DEF Loggers!LogInit, Loggers!Init, Loggers!Empty
<1>3. logger[n].appenders = <<>>
  BY DEF Loggers!LogInit, Loggers!NewLogger
<1>4. QED
  BY <1>1, <1>2, <1>3 DEF Follows

\* A step that changes neither the loggers nor who has told them.
LEMMA LoggerFrame ==
    ASSUME LoggerInv, UNCHANGED <<m_val, logger, daemon, since, aborted>>,
           overlap => overlap',
           \A t \in Thread : Told(t)' <=> Told(t),
           \A t \in Thread : Told(t) => job'[t].v = job[t].v
    PROVE  LoggerInv'
<1> SUFFICES ASSUME ~aborted', ~overlap', NEW n \in Name
             PROVE  /\ (\E t \in Thread : Told(t)') \/ Follows(n, m_val, since[n])'
                    /\ \A t \in Thread : Told(t)' =>
                        Follows(n, job[t].v, IF n \in DOMAIN m_val THEN since[n]
                                             ELSE job[t].v[n].appenders)'
  BY DEF LoggerInv
<1>1. (\E t \in Thread : Told(t)) \/ Follows(n, m_val, since[n])
  BY DEF LoggerInv
<1>2. \A t \in Thread : Told(t) =>
            Follows(n, job[t].v, IF n \in DOMAIN m_val THEN since[n]
                                 ELSE job[t].v[n].appenders)
  BY DEF LoggerInv
<1>3. (\E t \in Thread : Told(t)') \/ Follows(n, m_val, since[n])'
  BY <1>1 DEF Follows
<1>4. ASSUME NEW t \in Thread, Told(t)'
      PROVE  Follows(n, job[t].v, IF n \in DOMAIN m_val THEN since[n]
                                  ELSE job[t].v[n].appenders)'
  <2>1. Told(t) /\ job'[t].v = job[t].v
    BY <1>4
  <2>2. QED
    BY <1>2, <2>1 DEF Follows
<1>5. QED
  BY <1>3, <1>4

LEMMA LoggerAway ==
    ASSUME LoggerInv, NEW t \in Thread, ~Busy(t), Away(t),
           UNCHANGED <<m_val, logger, daemon, since, aborted, overlap>>
    PROVE  LoggerInv'
<1>1. \A u \in Thread : Busy(u)' = Busy(u) /\ (Busy(u) => job'[u] = job[u])
  BY DEF Busy, Away
<1>2. QED
  BY <1>1, LoggerFrame DEF Told

LEMMA LoggerSet ==
    ASSUME LoggerInv, ConfigInv, NEW t \in Thread, Loggers!SetValue(t),
           UNCHANGED <<logger, daemon, since, aborted>>
    PROVE  LoggerInv'
<1>1. job[t].at = "set" /\ m_val' = m_val
  BY DEF Loggers!SetValue, Loggers!At
<1>2. CASE Loggers!Done(t) /\ overlap' = overlap
  BY <1>1, <1>2, JobDone, LoggerAway DEF ConfigInv, ConfigTypes, Busy
<1>3. CASE /\ job' = [job EXCEPT ![t].at = "notify", ![t].todo = m_cbs]
           /\ overlap' = (overlap \/ Loggers!Setting # {})
  <2>1. m_cbs \in SUBSET Loggers!Listener /\ 1 \in m_cbs
    BY LibraryAssumption DEF ConfigInv, ConfigTypes, Loggers!Listener
  <2>2. Moved(t, "notify", job[t].v, m_cbs)
    BY <1>3, <2>1, JobSet DEF ConfigInv, ConfigTypes
  <2>3. \A u \in Thread : (Told(u)' <=> Told(u)) /\ (Told(u) => job'[u].v = job[u].v)
    BY <1>1, <2>1, <2>2 DEF Moved, Told, Busy
  <2>4. QED
    BY <1>1, <1>3, <2>3, LoggerFrame
<1>4. QED
  BY <1>2, <1>3 DEF Loggers!SetValue

LEMMA LoggerUnlock ==
    ASSUME LoggerInv, ConfigInv, NEW t \in Thread, Loggers!Unlock(t),
           UNCHANGED <<logger, daemon, since, aborted>>
    PROVE  LoggerInv'
<1>1. /\ job[t].at = "notify" /\ UNCHANGED <<m_val, overlap>>
      /\ job' = [job EXCEPT ![t].at = "store"]
  BY DEF Loggers!Unlock, Loggers!At
<1>2. Moved(t, "store", job[t].v, job[t].todo)
  BY <1>1, JobUnlock DEF ConfigInv, ConfigTypes
<1>3. \A u \in Thread : (Told(u)' <=> Told(u)) /\ (Told(u) => job'[u].v = job[u].v)
  BY <1>1, <1>2 DEF Moved, Told, Busy
<1>4. QED
  BY <1>1, <1>3, LoggerFrame

\* The listener of LogIniter makes the loggers follow the new value.
LEMMA LoggerNotify ==
    ASSUME LoggerInv, ConfigInv, NEW t \in Thread, Loggers!NotifyLoggers(t)
    PROVE  LoggerInv'
<1>1. /\ Loggers!Notify(t) /\ UNCHANGED <<since, daemon>>
      /\ UNCHANGED <<m_val, overlap>>
  BY DEF Loggers!NotifyLoggers, Loggers!Notify
<1>2. PICK l \in Loggers!Listener : l = Loggers!Called(t) /\ l \in job[t].todo
  BY <1>1, CalledFacts
<1>3. /\ job[t].at = "notify"
      /\ job' = [job EXCEPT ![t].todo = @ \ {l}]
  BY <1>1, <1>2 DEF Loggers!Notify, Loggers!At
<1>4. Moved(t, "notify", job[t].v, job[t].todo \ {l})
  BY <1>3, JobNotify DEF ConfigInv, ConfigTypes
<1>5. CASE l # 1
  <2>1. UNCHANGED <<logger, aborted>>
    BY <1>2, <1>5 DEF Loggers!NotifyLoggers
  <2>2. \A u \in Thread : (Told(u)' <=> Told(u)) /\ (Told(u) => job'[u].v = job[u].v)
    BY <1>3, <1>4, <1>5 DEF Moved, Told, Busy
  <2>3. QED
    BY <1>1, <2>1, <2>2, LoggerFrame
<1>6. CASE l = 1
  <2>1. Loggers!OnChange(m_val, job[t].v)
    BY <1>2, <1>6 DEF Loggers!NotifyLoggers
  <2>2. CASE aborted' \/ overlap
    BY <1>1, <2>2 DEF LoggerInv
  <2>3. CASE ~aborted' /\ ~overlap
    <3> DEFINE old == m_val
               new == job[t].v
    <3>1. /\ \A n \in DOMAIN old \cap DOMAIN new : new[n].level = old[n].level
          /\ ~aborted
          /\ logger' = [n \in Name |->
                CASE n \in DOMAIN new \ DOMAIN old ->
                        [level |-> new[n].level,
                         appenders |-> Loggers!Appenders(new[n].appenders)]
                  [] n \in DOMAIN old \ DOMAIN new ->
                        [level |-> "NOTSET", appenders |-> <<>>]
                  [] OTHER -> logger[n]]
      BY <2>1, <2>3 DEF Loggers!OnChange, Loggers!SameDefine
    <3>2. Busy(t) /\ \A u \in Thread : Busy(u) => u = t
      BY <1>3, <2>3 DEF ConfigInv, LastInv, Busy
    <3>3. ~Told(t) /\ \A u \in Thread : ~Told(u)
      BY <1>2, <1>6, <3>2 DEF Told
    <3>4. /\ Told(t)' /\ job'[t].v = new
          /\ \A u \in Thread : Told(u)' => u = t
      BY <1>4, <1>6, <3>2 DEF Moved, Told, Busy
    <3>5. ASSUME NEW n \in Name
          PROVE  Follows(n, job[t].v, IF n \in DOMAIN m_val THEN since[n]
                                      ELSE job[t].v[n].appenders)'
      <4>1. Follows(n, old, since[n])
        BY <2>3, <3>1, <3>3 DEF LoggerInv
      <4> HIDE DEF old, new
      <4>2. CASE n \in DOMAIN new \ DOMAIN old
        <5>1. logger'[n] = [level |-> new[n].level,
                            appenders |-> Writers(daemon, new[n].appenders)]
          BY <3>1, <4>2, AppendersAre
        <5>2. logger'[n].level = new[n].level
              /\ logger'[n].appenders = Writers(daemon, new[n].appenders)
          BY <5>1
        <5>3. QED
          BY <1>1, <3>4, <4>2, <5>2 DEF Follows, old, new
      <4>3. CASE n \in DOMAIN old \ DOMAIN new
        <5>1. logger'[n].appenders = <<>>
          BY <3>1, <4>3
        <5>2. QED
          BY <3>4, <4>3, <5>1 DEF Follows, new
      <4>4. CASE n \in DOMAIN new \cap DOMAIN old
        <5>1. logger'[n] = logger[n] /\ new[n].level = old[n].level
          BY <3>1, <4>4
        <5>2. QED
          BY <1>1, <3>4, <4>1, <4>4, <5>1 DEF Follows, old, new
      <4>5. CASE n \notin DOMAIN new /\ n \notin DOMAIN old
        <5>1. logger'[n] = logger[n]
          BY <3>1, <4>5
        <5>2. QED
          BY <3>4, <4>1, <4>5, <5>1 DEF Follows, new
      <4>6. QED
        BY <4>2, <4>3, <4>4, <4>5
    <3>6. QED
      BY <3>4, <3>5 DEF LoggerInv
  <2>4. QED
    BY <1>1, <2>2, <2>3
<1>7. QED
  BY <1>5, <1>6

\* Storing the value makes it the one the loggers follow.
LEMMA LoggerStore ==
    ASSUME LoggerInv, ConfigInv, NEW t \in Thread, Loggers!StoreDefines(t)
    PROVE  LoggerInv'
<1>1. /\ job[t].at = "store" /\ m_val' = job[t].v /\ Loggers!Done(t)
      /\ UNCHANGED <<logger, daemon, aborted, overlap>>
      /\ since' = [n \in Name |->
            CASE n \in DOMAIN m_val' \ DOMAIN m_val -> m_val'[n].appenders
              [] n \in DOMAIN m_val \ DOMAIN m_val' -> <<>>
              [] OTHER -> since[n]]
  BY DEF Loggers!StoreDefines, Loggers!Store, Loggers!At
<1>2. Away(t)
  BY <1>1, JobDone DEF ConfigInv, ConfigTypes
<1>3. CASE aborted \/ overlap
  BY <1>1, <1>3 DEF LoggerInv
<1>4. CASE ~aborted /\ ~overlap
  <2>1. Told(t) /\ \A u \in Thread : Busy(u) => u = t
    BY <1>1, <1>4 DEF ConfigInv, TodoInv, LastInv, Told, Busy
  <2>2. \A u \in Thread : ~Told(u)'
    BY <1>2, <2>1 DEF Away, Told, Busy
  <2>3. ASSUME NEW n \in Name PROVE Follows(n, m_val, since[n])'
    <3>1. Follows(n, job[t].v, IF n \in DOMAIN m_val THEN since[n]
                               ELSE job[t].v[n].appenders)
      BY <1>4, <2>1 DEF LoggerInv
    <3>2. n \in DOMAIN m_val' =>
            since'[n] = IF n \in DOMAIN m_val THEN since[n] ELSE job[t].v[n].appenders
      BY <1>1
    <3>3. QED
      BY <1>1, <3>1, <3>2 DEF Follows
  <2>4. QED
    BY <2>2, <2>3 DEF LoggerInv
<1>5. QED
  BY <1>3, <1>4

-----------------------------------------------------------------------------
(* The configuration: every step *)

LogInv == ConfigInv /\ FileInv /\ LoggerInv

LEMMA LogInit == Loggers!LogInit => LogInv
  BY ConfigInit, FileInit, LoggerInit DEF LogInv

LEMMA LogStep ==
    LogInv /\ [Loggers!LogNext]_<<Loggers!vars, logger, daemon, since, aborted>>
        => LogInv'
<1> SUFFICES ASSUME LogInv,
                    [Loggers!LogNext]_<<Loggers!vars, logger, daemon, since, aborted>>
             PROVE  LogInv'
  OBVIOUS
<1>1. ConfigInv /\ FileInv /\ LoggerInv /\ JobTypes
  BY DEF LogInv, ConfigInv, ConfigTypes
<1>2. CASE UNCHANGED <<Loggers!vars, logger, daemon, since, aborted>>
  <2> USE <1>2 DEF Loggers!vars
  <2>1. ConfigInv'
    BY <1>1 DEF ConfigInv, ConfigTypes, JobTypes, TodoInv, ToldInv, LastInv, Busy
  <2>2. FileInv'
    BY <1>1, StepFile
  <2>3. LoggerInv'
    BY <1>1, LoggerFrame DEF Told, Busy
  <2>4. QED
    BY <2>1, <2>2, <2>3 DEF LogInv
<1>3. ASSUME NEW t \in Thread, Loggers!NotifyLoggers(t) PROVE LogInv'
  <2>1. Loggers!Notify(t)
    BY <1>3 DEF Loggers!NotifyLoggers
  <2>2. FileInv'
    <3>1. job[t].at = "notify" /\ UNCHANGED <<file, s_file2modifytime, loaded>>
          /\ job' = [job EXCEPT ![t].todo = @ \ {Loggers!Called(t)}]
      BY <2>1 DEF Loggers!Notify, Loggers!At
    <3>2. Moved(t, "notify", job[t].v, job[t].todo \ {Loggers!Called(t)})
      BY <1>1, <3>1, JobNotify
    <3>3. QED
      BY <1>1, <3>1, <3>2, StepFile DEF Moved
  <2>3. QED
    BY <1>1, <1>3, <2>1, <2>2, StepNotify, LoggerNotify DEF LogInv
<1>4. ASSUME NEW t \in Thread, Loggers!StoreDefines(t) PROVE LogInv'
  <2>1. Loggers!Store(t)
    BY <1>4 DEF Loggers!StoreDefines
  <2>2. FileInv'
    <3>1. job[t].at = "store" /\ UNCHANGED <<file, s_file2modifytime, loaded>>
          /\ Loggers!Done(t)
      BY <2>1 DEF Loggers!Store, Loggers!At
    <3>2. QED
      BY <1>1, <3>1, JobDone, StepFile DEF Away
  <2>3. QED
    BY <1>1, <1>4, <2>1, <2>2, StepStore, LoggerStore DEF LogInv
<1>5. ASSUME NEW t \in Thread, Loggers!SetValue(t),
             UNCHANGED <<logger, daemon, since, aborted>>
      PROVE  LogInv'
  <2>1. FileInv'
    <3>1. job[t].at = "set" /\ UNCHANGED <<file, s_file2modifytime, loaded>>
      BY <1>5 DEF Loggers!SetValue, Loggers!At
    <3>2. \A u \in Thread \ {t} : job'[u] = job[u]
      <4>1. CASE Loggers!Done(t)
        BY <1>1, <4>1, JobDone DEF Away
      <4>2. CASE job' = [job EXCEPT ![t].at = "notify", ![t].todo = m_cbs]
        BY <1>1, <4>2 DEF JobTypes
      <4>3. QED
        BY <1>5, <4>1, <4>2 DEF Loggers!SetValue
    <3>3. QED
      BY <1>1, <3>1, <3>2, StepFile
  <2>2. QED
    BY <1>1, <1>5, <2>1, StepSetValue, LoggerSet DEF LogInv
<1>6. ASSUME NEW t \in Thread, Loggers!Unlock(t),
             UNCHANGED <<logger, daemon, since, aborted>>
      PROVE  LogInv'
  <2>1. FileInv'
    <3>1. job[t].at = "notify" /\ UNCHANGED <<file, s_file2modifytime, loaded>>
          /\ job' = [job EXCEPT ![t].at = "store"]
      BY <1>6 DEF Loggers!Unlock, Loggers!At
    <3>2. \A u \in Thread \ {t} : job'[u] = job[u]
      BY <1>1, <3>1 DEF JobTypes
    <3>3. QED
      BY <1>1, <3>1, <3>2, StepFile
  <2>2. QED
    BY <1>1, <1>6, <2>1, StepUnlock, LoggerUnlock DEF LogInv
<1>7. ASSUME NEW t \in Thread, ~Busy(t), JobTypes', Away(t), FileInv',
             UNCHANGED <<m_val, m_cbs, s_fun_id, told, last, missed, overlap>>,
             UNCHANGED <<logger, daemon, since, aborted>>
      PROVE  LogInv'
  BY <1>1, <1>7, AwayStep, LoggerAway DEF LogInv
<1>8. ASSUME NEW t \in Thread, Loggers!CheckFile(t),
             UNCHANGED <<logger, daemon, since, aborted>>
      PROVE  LogInv'
  <2>1. /\ ~Busy(t)
        /\ UNCHANGED <<m_val, m_cbs, s_fun_id, told, last, missed, overlap>>
    BY <1>8 DEF Loggers!CheckFile, Loggers!At, Busy
  <2>2. JobTypes' /\ Away(t) /\ FileInv'
    BY SMTT(60), <1>1, <1>8, JobCheck, StepCheck
  <2>3. QED
    BY <1>7, <1>8, <2>1, <2>2
<1>9. ASSUME NEW t \in Thread, Loggers!LoadFile(t),
             UNCHANGED <<logger, daemon, since, aborted>>
      PROVE  LogInv'
  <2>1. /\ ~Busy(t)
        /\ UNCHANGED <<m_val, m_cbs, s_fun_id, told, last, missed, overlap>>
    BY ZenonT(60), <1>9 DEF Loggers!LoadFile, Loggers!At, Busy
  <2>2. \A f \in Loggers!File : file[f].text \in Contents
    BY <1>1 DEF FileInv, FileTypes
  <2>3. JobTypes' /\ Away(t) /\ FileInv'
    BY <1>1, <1>9, <2>2, JobLoadFile, StepLoad
  <2>4. QED
    BY <1>7, <1>9, <2>1, <2>3
<1>10. ASSUME NEW t \in Thread, NEW force \in BOOLEAN,
              Loggers!LoadFromConfDir(t, force),
              UNCHANGED <<logger, daemon, since, aborted>>
       PROVE  LogInv'
  <2>1. /\ ~Busy(t) /\ job[t].at = "idle"
        /\ UNCHANGED <<m_val, m_cbs, s_fun_id, told, last, missed, overlap>>
        /\ UNCHANGED <<file, s_file2modifytime, loaded>>
    BY <1>10 DEF Loggers!LoadFromConfDir, Loggers!At, Busy
  <2>2. JobTypes' /\ Away(t)
    BY <1>1, <1>10, JobLoad
  <2>3. FileInv'
    BY <1>1, <2>1, <2>2, StepFile DEF Away
  <2>4. QED
    BY <1>7, <1>10, <2>1, <2>2, <2>3
<1>11. ASSUME Loggers!addListener \/ \E l \in m_cbs : Loggers!delListener(l),
              UNCHANGED <<logger, daemon, since, aborted>>
       PROVE  LogInv'
  <2>1. UNCHANGED <<m_val, job, overlap, file, s_file2modifytime, loaded>>
    BY <1>11 DEF Loggers!addListener, Loggers!delListener
  <2>2. FileInv'
    BY <1>1, <2>1, StepFile
  <2>3. LoggerInv'
    BY <1>1, <1>11, <2>1, LoggerFrame DEF Told, Busy
  <2>4. QED
    BY <1>1, <1>11, <2>2, <2>3, StepListener, StepUnlisten DEF LogInv
<1>12. ASSUME NEW f \in Loggers!File, NEW text \in Contents, Loggers!Edit(f, text),
              UNCHANGED <<logger, daemon, since, aborted>>
       PROVE  LogInv'
  <2>1. UNCHANGED <<m_val, m_cbs, s_fun_id, job, told, last, missed, overlap>>
    BY <1>12 DEF Loggers!Edit
  <2>2. ConfigInv'
    BY <1>1, <2>1 DEF ConfigInv, ConfigTypes, JobTypes, TodoInv, ToldInv,
       LastInv, Busy
  <2>3. LoggerInv'
    BY <1>1, <1>12, <2>1, LoggerFrame DEF Told, Busy
  <2>4. QED
    BY <1>1, <1>12, <2>2, <2>3, StepEdit DEF LogInv
<1>13. QED
  BY <1>2, <1>3, <1>4, <1>5, <1>6, <1>8, <1>9, <1>10, <1>11, <1>12
     DEF Loggers!LogNext

\* For any number of threads, files, texts and listeners: a listener that
\* was there when a change began has been told the value of the variable.
THEOREM ListenersCorrect == Loggers!LogSpec => []ListenersInformed
<1>1. LogInv => ListenersInformed
  BY DEF LogInv, ConfigInv, ToldInv, LastInv, Busy, ListenersInformed,
     Loggers!ListenersInformed, Loggers!Setting, Loggers!At
<1>2. QED
  BY <1>1, LogInit, LogStep, PTL DEF Loggers!LogSpec

\* ... a file that LoadFromConfDir skips has been read since its last edit,
\* or is about to be.
THEOREM FilesCorrect == Loggers!LogSpec => []FileNotSkipped
<1>1. LogInv => FileNotSkipped
  BY DEF LogInv, FileInv, FileNotSkipped
<1>2. QED
  BY <1>1, LogInit, LogStep, PTL DEF Loggers!LogSpec

\* A listener that followed a null logger never ends its set.
AbortInv == aborted => Loggers!Setting # {}

LEMMA AbortStep ==
    ASSUME LogInv, AbortInv,
           [Loggers!LogNext]_<<Loggers!vars, logger, daemon, since, aborted>>
    PROVE  AbortInv'
<1>1. CASE UNCHANGED <<Loggers!vars, logger, daemon, since, aborted>>
  BY <1>1 DEF AbortInv, Loggers!Setting, Loggers!At, Loggers!vars
<1>2. ASSUME NEW t \in Thread, Loggers!NotifyLoggers(t) PROVE AbortInv'
  <2>1. Loggers!Notify(t)
    BY <1>2 DEF Loggers!NotifyLoggers
  <2>2. PICK l \in Loggers!Listener : l = Loggers!Called(t) /\ l \in job[t].todo
    BY <2>1, CalledFacts DEF LogInv
  <2>3. job[t].at = "notify" /\ job' = [job EXCEPT ![t].todo = @ \ {l}]
    BY <2>1, <2>2 DEF Loggers!Notify, Loggers!At
  <2>4. Moved(t, "notify", job[t].v, job[t].todo \ {l})
    BY <2>3, JobNotify DEF LogInv, ConfigInv, ConfigTypes
  <2>5. QED
    BY <2>4 DEF Moved, AbortInv, Loggers!Setting, Loggers!At
<1>3. CASE Loggers!LogNext /\ aborted' = aborted
  BY <1>3 DEF Loggers!LogNext, AbortInv
<1>4. QED
  BY <1>1, <1>2, <1>3 DEF Loggers!LogNext, Loggers!StoreDefines

\* ... and the configuration adds and removes loggers as it says, for any set
\* of names and definitions, if it does not change a definition in place.
THEOREM LoggersCorrect == Loggers!LogSpec => []LoggersComeAndGo
<1>1. LogInv /\ AbortInv => LoggersComeAndGo
  <2> SUFFICES ASSUME LogInv, AbortInv, ~overlap, Loggers!Setting = {},
                      NEW n \in Name, NEW l \in DOMAIN Loggers!Level
               PROVE  /\ n \notin DOMAIN m_val => Loggers!Output(n, l) = <<>>
                      /\ n \in DOMAIN m_val /\ since[n] = m_val[n].appenders =>
                            Loggers!Output(n, l) =
                              IF Loggers!Level[l] <= Loggers!Level[m_val[n].level]
                              THEN Loggers!Appenders(m_val[n].appenders)
                              ELSE <<>>
    BY DEF LoggersComeAndGo, Loggers!LoggersComeAndGo
  <2>1. ~aborted
    BY DEF AbortInv
  <2>2. Follows(n, m_val, since[n])
    BY <2>1 DEF LogInv, LoggerInv, Told, Busy, Loggers!Setting, Loggers!At
  <2>3. QED
    BY <2>2, AppendersAre DEF Follows, Loggers!Output
<1>2. Loggers!LogInit => AbortInv
  BY DEF Loggers!LogInit, AbortInv
<1>3. QED
  BY <1>1, <1>2, LogInit, LogStep, AbortStep, PTL DEF Loggers!LogSpec

-----------------------------------------------------------------------------
(* Sockets: the inductive invariant *)

Descriptor == Fd \cup {-1}
SocketRecord ==
    [live : BOOLEAN, m_sock : Descriptor, m_isConnected : BOOLEAN,
     m_localAddress : Int, m_remoteAddress : Int, again : BOOLEAN]

SocketTypes ==
    /\ sock \in [Sock -> SocketRecord]
    /\ open \in [Fd -> Nat]
    /\ opens \in Nat
    /\ leaked \in SUBSET Fd

\* What one object r says of its descriptor, in the kernel's table o, with k
\* leaked: the address is right whether it is connected or not, unless an
\* earlier descriptor's was kept.
Sound(r, o, k) ==
    r.m_sock # -1 =>
        /\ r.live /\ o[r.m_sock] # 0 /\ r.m_sock \notin k
        /\ ~r.again => r.m_localAddress \in {0, -1, o[r.m_sock]}

OwnInv ==
    /\ \A s \in Sock : Sound(sock[s], open, leaked)
    /\ \A r, s \in Sock : r # s /\ sock[r].m_sock = sock[s].m_sock =>
            sock[r].m_sock = -1
    /\ \A fd \in leaked : open[fd] # 0
    /\ \A fd \in Fd : open[fd] # 0 =>
            fd \in leaked \/ \E s \in Sock : sock[s].m_sock = fd

SocketInv == SocketTypes /\ OwnInv

\* The kernel gives a descriptor that is free, or none.
LEMMA OpensFacts ==
    ASSUME SocketTypes, NEW fd, Sockets!Opens(fd)
    PROVE  \/ fd = -1 /\ open' = open /\ opens' = opens
           \/ /\ fd \in Fd /\ open[fd] = 0 /\ opens' = opens + 1
              /\ open' = [open EXCEPT ![fd] = opens + 1]
<1>1. Sockets!Free \in SUBSET Nat
  BY LibraryAssumption DEF Sockets!Free
<1>2. Sockets!Free # {} => Sockets!Lowest \in Sockets!Free
  BY <1>1, LeastNat DEF Sockets!Lowest
<1>3. QED
  BY <1>2 DEF Sockets!Opens, Sockets!Free, Sockets!Closed

\* One object changes and keeps its descriptor...
LEMMA KeepSocket ==
    ASSUME SocketInv, NEW s \in Sock, NEW r \in SocketRecord,
           sock' = [sock EXCEPT ![s] = r], r.m_sock = sock[s].m_sock,
           Sound(r, open, leaked), open' = open, opens' = opens, leaked' = leaked
    PROVE  SocketInv'
  BY DEF SocketInv, SocketTypes, OwnInv, Sound

\* ... gets a new one...
LEMMA OpenSocket ==
    ASSUME SocketInv, NEW s \in Sock, NEW r \in SocketRecord,
           NEW fd \in Fd, open[fd] = 0, sock[s].m_sock = -1, r.m_sock = fd,
           open' = [open EXCEPT ![fd] = opens + 1], opens' = opens + 1,
           sock' = [sock EXCEPT ![s] = r], leaked' = leaked,
           r.live, ~r.again => r.m_localAddress \in {0, -1, opens + 1}
    PROVE  SocketInv'
<1>1. SocketTypes'
  BY DEF SocketInv, SocketTypes
<1>2. /\ \A u \in Sock \ {s} : sock'[u] = sock[u] /\ sock[u].m_sock # fd
      /\ sock'[s] = r /\ fd \notin leaked
      /\ open'[fd] = opens + 1 /\ opens + 1 # 0
      /\ \A k \in Fd \ {fd} : open'[k] = open[k]
  BY LibraryAssumption DEF SocketInv, SocketTypes, OwnInv, Sound
<1>3. \A u \in Sock : Sound(sock'[u], open', leaked')
  <2>1. Sound(r, open', leaked')
    BY <1>2 DEF Sound
  <2>2. ASSUME NEW u \in Sock \ {s} PROVE Sound(sock'[u], open', leaked')
    <3>1. Sound(sock[u], open, leaked) /\ sock[u].m_sock \in Fd \cup {-1}
      BY DEF SocketInv, SocketTypes, OwnInv, SocketRecord,
         Descriptor
    <3>2. QED
      BY <1>2, <3>1 DEF Sound
  <2>3. QED
    BY ZenonT(60), <1>2, <2>1, <2>2
<1>4. \A u, w \in Sock : u # w /\ sock'[u].m_sock = sock'[w].m_sock =>
            sock'[u].m_sock = -1
  BY <1>2 DEF SocketInv, OwnInv
<1>5. \A k \in leaked' : open'[k] # 0
  BY <1>2 DEF SocketInv, SocketTypes, OwnInv
<1>6. ASSUME NEW k \in Fd, open'[k] # 0
      PROVE  k \in leaked' \/ \E u \in Sock : sock'[u].m_sock = k
  <2>1. CASE k = fd
    BY <1>2, <2>1
  <2>2. CASE k # fd
    <3>1. k \in leaked \/ \E u \in Sock : sock[u].m_sock = k
      BY <1>2, <1>6, <2>2 DEF SocketInv, OwnInv
    <3>2. k # -1
      BY LibraryAssumption
    <3>3. QED
      BY <1>2, <3>1, <3>2
  <2>3. QED
    BY <2>1, <2>2
<1>7. QED
  BY <1>1, <1>3, <1>4, <1>5, <1>6 DEF SocketInv, OwnInv, Sound

\* ... or closes the one it has.
LEMMA CloseSocket ==
    ASSUME SocketInv, NEW s \in Sock, NEW r \in SocketRecord, r.m_sock = -1,
           sock' = [sock EXCEPT ![s] = r], Sockets!Closes(s)
    PROVE  SocketInv'
<1>1. /\ open' = [fd \in Fd |-> IF fd = sock[s].m_sock THEN 0 ELSE open[fd]]
      /\ opens' = opens /\ leaked' = leaked
  BY DEF Sockets!Closes, Sockets!Closed
<1>2. SocketTypes'
  BY <1>1 DEF SocketInv, SocketTypes
<1>3. /\ \A u \in Sock \ {s} : sock'[u] = sock[u]
      /\ sock'[s] = r
      /\ \A k \in Fd : k # sock[s].m_sock => open'[k] = open[k]
      /\ \A k \in Fd : k = sock[s].m_sock => open'[k] = 0
      /\ sock[s].m_sock \notin leaked
  BY <1>1, LibraryAssumption DEF SocketInv, SocketTypes, OwnInv, Sound
<1>4. \A u \in Sock : Sound(sock'[u], open', leaked')
  <2>1. Sound(r, open', leaked')
    BY DEF Sound
  <2>2. ASSUME NEW u \in Sock \ {s} PROVE Sound(sock'[u], open', leaked')
    <3>1. Sound(sock[u], open, leaked) /\ sock[u].m_sock \in Fd \cup {-1}
      BY DEF SocketInv, SocketTypes, OwnInv, SocketRecord,
         Descriptor
    <3>2. sock[u].m_sock # sock[s].m_sock \/ sock[u].m_sock = -1
      BY DEF SocketInv, OwnInv
    <3>3. QED
      BY <1>1, <1>3, <3>1, <3>2 DEF Sound
  <2>3. QED
    BY <1>3, <2>1, <2>2
<1>5. \A u, w \in Sock : u # w /\ sock'[u].m_sock = sock'[w].m_sock =>
            sock'[u].m_sock = -1
  BY <1>3 DEF SocketInv, OwnInv
<1>6. \A k \in leaked' : open'[k] # 0
  BY <1>1, <1>3 DEF SocketInv, SocketTypes, OwnInv
<1>7. ASSUME NEW k \in Fd, open'[k] # 0
      PROVE  k \in leaked' \/ \E u \in Sock : sock'[u].m_sock = k
  <2>1. k # sock[s].m_sock /\ open[k] # 0
    BY <1>3, <1>7
  <2>2. k \in leaked \/ \E u \in Sock : sock[u].m_sock = k
    BY <2>1 DEF SocketInv, OwnInv
  <2>3. QED
    BY <1>1, <1>3, <2>1, <2>2
<1>8. QED
  BY <1>2, <1>4, <1>5, <1>6, <1>7 DEF SocketInv, OwnInv, Sound

\* newSock, and what the caller then says of the object.
LEMMA SetSocket ==
    ASSUME SocketInv, NEW s \in Sock, NEW fd, NEW r \in SocketRecord,
           Sockets!newSock(s, fd) \/ (~Sockets!Live(s) /\ Sockets!Opens(fd)),
           sock' = [sock EXCEPT ![s] = r], r.m_sock = fd, r.live,
           fd # -1 /\ ~r.again => r.m_localAddress \in {0, -1, open'[fd]},
           leaked' = leaked
    PROVE  SocketInv'
<1>1. Sound(sock[s], open, leaked) /\ sock[s] \in SocketRecord
  BY DEF SocketInv, SocketTypes, OwnInv
<1>2. CASE Sockets!isValid(s) /\ Sockets!newSock(s, fd)
  <2>1. fd = sock[s].m_sock /\ open' = open /\ opens' = opens /\ fd # -1
    BY <1>2 DEF Sockets!newSock, Sockets!isValid
  <2>2. Sound(r, open, leaked)
    BY <1>1, <2>1 DEF Sound
  <2>3. QED
    BY <2>1, <2>2, KeepSocket
<1>3. CASE sock[s].m_sock = -1 /\ Sockets!Opens(fd)
  <2>1. CASE fd = -1 /\ open' = open /\ opens' = opens
    <3>1. Sound(r, open, leaked)
      BY <2>1 DEF Sound
    <3>2. QED
      BY <1>3, <2>1, <3>1, KeepSocket
  <2>2. CASE /\ fd \in Fd /\ open[fd] = 0 /\ opens' = opens + 1
             /\ open' = [open EXCEPT ![fd] = opens + 1]
    <3>1. fd # -1 /\ open'[fd] = opens + 1
      BY <2>2, LibraryAssumption DEF SocketInv, SocketTypes
    <3>2. QED
      BY <1>3, <2>2, <3>1, OpenSocket
  <2>3. QED
    BY <1>3, <2>1, <2>2, OpensFacts DEF SocketInv
<1>4. QED
  BY <1>1, <1>2, <1>3 DEF Sockets!newSock, Sockets!isValid, Sockets!Live, Sound

LEMMA Descriptors ==
    -1 \in Descriptor /\ -1 \in Int /\ \A fd \in Fd \cup {-1} : fd \in Descriptor
  BY DEF Descriptor

\* The records the actions make.
LEMMA NoRecord ==
    /\ Sockets!NoSocket \in SocketRecord /\ Sockets!NoSocket.m_sock = -1
    /\ Sockets!NoSocket.m_localAddress = 0
  BY Descriptors DEF SocketRecord, Sockets!NoSocket, Sockets!Null

New(x) ==
    [x EXCEPT !.live = TRUE]
LEMMA NewRecord ==
    ASSUME NEW x \in SocketRecord
    PROVE  LET r == New(x)
           IN  /\ r \in SocketRecord
               /\ r.m_sock = x.m_sock
<1> DEFINE r == New(x)
<1>1. r \in SocketRecord
  BY DEF SocketRecord, New
<1>2. /\ r.m_sock = x.m_sock
  BY DEF SocketRecord, New
<1>3. QED
  BY <1>1, <1>2

UDP(x, fd) ==
    [x EXCEPT !.live = TRUE, !.m_sock = fd, !.m_isConnected = TRUE]
LEMMA UDPRecord ==
    ASSUME NEW x \in SocketRecord, NEW fd \in Descriptor
    PROVE  LET r == UDP(x, fd)
           IN  /\ r \in SocketRecord
               /\ r.m_sock = fd /\ r.live
               /\ r.m_localAddress = x.m_localAddress
<1> DEFINE r == UDP(x, fd)
<1>1. r \in SocketRecord
  BY DEF SocketRecord, UDP
<1>2. /\ r.m_sock = fd /\ r.live
      /\ r.m_localAddress = x.m_localAddress
  BY DEF SocketRecord, UDP
<1>3. QED
  BY <1>1, <1>2

Accepted(x, fd, a) ==
    [x EXCEPT !.live = TRUE, !.m_sock = fd, !.m_isConnected = TRUE,
              !.m_localAddress = a, !.m_remoteAddress = a]
LEMMA AcceptedRecord ==
    ASSUME NEW x \in SocketRecord, NEW fd \in Descriptor, NEW a \in Int
    PROVE  LET r == Accepted(x, fd, a)
           IN  /\ r \in SocketRecord
               /\ r.m_sock = fd /\ r.live
               /\ r.m_localAddress = a
<1> DEFINE r == Accepted(x, fd, a)
<1>1. r \in SocketRecord
  BY DEF SocketRecord, Accepted
<1>2. /\ r.m_sock = fd /\ r.live
      /\ r.m_localAddress = a
  BY DEF SocketRecord, Accepted
<1>3. QED
  BY <1>1, <1>2

Bound(x, fd, a) ==
    [x EXCEPT !.m_sock = fd, !.m_localAddress = a]
LEMMA BoundRecord ==
    ASSUME NEW x \in SocketRecord, NEW fd \in Descriptor, NEW a \in Int
    PROVE  LET r == Bound(x, fd, a)
           IN  /\ r \in SocketRecord
               /\ r.m_sock = fd /\ r.live = x.live
               /\ r.m_localAddress = a
<1> DEFINE r == Bound(x, fd, a)
<1>1. r \in SocketRecord
  BY DEF SocketRecord, Bound
<1>2. /\ r.m_sock = fd /\ r.live = x.live
      /\ r.m_localAddress = a
  BY DEF SocketRecord, Bound
<1>3. QED
  BY <1>1, <1>2

OfFd(x, fd) ==
    [x EXCEPT !.m_sock = fd]
LEMMA FdRecord ==
    ASSUME NEW x \in SocketRecord, NEW fd \in Descriptor
    PROVE  LET r == OfFd(x, fd)
           IN  /\ r \in SocketRecord
               /\ r.m_sock = fd /\ r.live = x.live
               /\ r.m_localAddress = x.m_localAddress /\ r.again = x.again
<1> DEFINE r == OfFd(x, fd)
<1>1. r \in SocketRecord
  BY DEF SocketRecord, OfFd
<1>2. /\ r.m_sock = fd /\ r.live = x.live
      /\ r.m_localAddress = x.m_localAddress /\ r.again = x.again
  BY DEF SocketRecord, OfFd
<1>3. QED
  BY <1>1, <1>2

Aimed(x, a, p, b) ==
    [x EXCEPT !.m_localAddress = a, !.m_remoteAddress = p,
              !.again = b]
LEMMA AimedRecord ==
    ASSUME NEW x \in SocketRecord, NEW a \in Int, NEW p \in Int, NEW b \in BOOLEAN
    PROVE  LET r == Aimed(x, a, p, b)
           IN  /\ r \in SocketRecord
               /\ (x.live => r.live) /\ r.m_localAddress = a
               /\ (b => r.again)
<1> DEFINE r == Aimed(x, a, p, b)
<1>1. r \in SocketRecord
  BY DEF SocketRecord, Aimed
<1>2. /\ (x.live => r.live) /\ r.m_localAddress = a
      /\ (b => r.again)
  BY DEF SocketRecord, Aimed
<1>3. QED
  BY <1>1, <1>2

Connected(x, fd, a) ==
    [x EXCEPT !.m_sock = fd, !.m_isConnected = TRUE,
              !.m_localAddress = a]
LEMMA ConnectedRecord ==
    ASSUME NEW x \in SocketRecord, NEW fd \in Descriptor, NEW a \in Int
    PROVE  LET r == Connected(x, fd, a)
           IN  /\ r \in SocketRecord
               /\ r.m_sock = fd /\ r.live = x.live
               /\ r.m_localAddress = a /\ r.again = x.again
<1> DEFINE r == Connected(x, fd, a)
<1>1. r \in SocketRecord
  BY DEF SocketRecord, Connected
<1>2. /\ r.m_sock = fd /\ r.live = x.live
      /\ r.m_localAddress = a /\ r.again = x.again
  BY DEF SocketRecord, Connected
<1>3. QED
  BY <1>1, <1>2

Shut(x, fd) ==
    [x EXCEPT !.m_isConnected = FALSE, !.m_sock = fd]
LEMMA ShutRecord ==
    ASSUME NEW x \in SocketRecord, NEW fd \in Descriptor
    PROVE  LET r == Shut(x, fd)
           IN  /\ r \in SocketRecord
               /\ r.m_sock = fd
<1> DEFINE r == Shut(x, fd)
<1>1. r \in SocketRecord
  BY DEF SocketRecord, Shut
<1>2. /\ r.m_sock = fd
  BY DEF SocketRecord, Shut
<1>3. QED
  BY <1>1, <1>2

Named(x, a, p) ==
    [x EXCEPT !.m_localAddress = a, !.m_remoteAddress = p]
LEMMA NamedRecord ==
    ASSUME NEW x \in SocketRecord, NEW a \in Int, NEW p \in Int
    PROVE  LET r == Named(x, a, p)
           IN  /\ r \in SocketRecord
               /\ r.m_sock = x.m_sock
<1> DEFINE r == Named(x, a, p)
<1>1. r \in SocketRecord
  BY DEF SocketRecord, Named
<1>2. /\ r.m_sock = x.m_sock
  BY DEF SocketRecord, Named
<1>3. QED
  BY <1>1, <1>2

LEMMA SocketInit == Sockets!Init => SocketInv
<1> SUFFICES ASSUME Sockets!Init PROVE SocketInv
  OBVIOUS
<1>1. Sockets!NoSocket \in SocketRecord /\ Sockets!NoSocket.m_sock = -1
  BY NoRecord
<1>2. SocketTypes
  BY <1>1 DEF Sockets!Init, SocketTypes, Sockets!Closed
<1>3. OwnInv
  BY <1>1 DEF Sockets!Init, OwnInv, Sound, Sockets!Closed
<1>4. QED
  BY <1>2, <1>3 DEF SocketInv

LEMMA SocketCreate ==
    ASSUME SocketInv, NEW s \in Sock, Sockets!CreateTCP(s) \/ Sockets!CreateUDP(s)
    PROVE  SocketInv'
<1>1. CASE Sockets!CreateTCP(s)
  <2> DEFINE r == [Sockets!NoSocket EXCEPT !.live = TRUE]
  <2>1. r \in SocketRecord /\ r.m_sock = -1
    BY NoRecord, NewRecord DEF New
  <2>2. /\ sock' = [sock EXCEPT ![s] = r]
        /\ open' = open /\ opens' = opens /\ leaked' = leaked
    BY <1>1 DEF Sockets!CreateTCP
  <2>3. sock[s].m_sock = -1
    BY <1>1 DEF Sockets!CreateTCP, Sockets!Live, SocketInv, OwnInv, Sound
  <2>4. Sound(r, open, leaked)
    BY <2>1 DEF Sound
  <2> HIDE DEF r
  <2>5. QED
    BY <2>1, <2>2, <2>3, <2>4, KeepSocket
<1>2. CASE Sockets!CreateUDP(s)
  <2>1. PICK fd \in Fd \cup {-1} :
            /\ Sockets!Opens(fd)
            /\ sock' = [sock EXCEPT ![s] = [Sockets!NoSocket EXCEPT
                    !.live = TRUE, !.m_sock = fd, !.m_isConnected = TRUE]]
    BY <1>2 DEF Sockets!CreateUDP
  <2> DEFINE r == [Sockets!NoSocket EXCEPT
                    !.live = TRUE, !.m_sock = fd, !.m_isConnected = TRUE]
  <2>2. r \in SocketRecord /\ r.m_sock = fd /\ r.live /\ r.m_localAddress = 0
    <3>1. r = UDP(Sockets!NoSocket, fd)
      BY DEF UDP
    <3> HIDE DEF r
    <3>2. QED
      BY <3>1, NoRecord, UDPRecord, Descriptors
  <2>3. ~Sockets!Live(s) /\ leaked' = leaked
    BY <1>2 DEF Sockets!CreateUDP
  <2> HIDE DEF r
  <2>4. sock' = [sock EXCEPT ![s] = r]
    BY <2>1 DEF r
  <2>5. QED
    BY <2>1, <2>2, <2>3, <2>4, SetSocket
<1>3. QED
  BY <1>1, <1>2

LEMMA SocketBind ==
    ASSUME SocketInv, NEW s \in Sock, Sockets!bind(s) PROVE SocketInv'
<1>1. PICK fd \in Fd \cup {-1} :
        /\ Sockets!newSock(s, fd)
        /\ sock' = [sock EXCEPT ![s].m_sock = fd, ![s].m_localAddress = -1]
  BY DEF Sockets!bind, Sockets!Given
<1> DEFINE r == [sock[s] EXCEPT !.m_sock = fd, !.m_localAddress = -1]
<1>2. sock[s] \in SocketRecord /\ sock[s].live /\ leaked' = leaked
  BY DEF SocketInv, SocketTypes, Sockets!bind, Sockets!Live
<1>3. r \in SocketRecord /\ r.m_sock = fd /\ r.live /\ r.m_localAddress = -1
  <2>1. r = Bound(sock[s], fd, -1)
    BY DEF Bound
  <2> HIDE DEF r
  <2>2. QED
    BY <1>2, <2>1, BoundRecord, Descriptors
<1>4. sock' = [sock EXCEPT ![s] = r]
  BY <1>1 DEF SocketInv, SocketTypes
<1> HIDE DEF r
<1>5. QED
  BY <1>1, <1>2, <1>3, <1>4, SetSocket

LEMMA SocketConnect ==
    ASSUME SocketInv, NEW s \in Sock, NEW local \in {0, sock[s].m_localAddress},
           Sockets!Connect(s, local)
    PROVE  SocketInv'
<1>1. /\ sock[s] \in SocketRecord /\ sock[s].live
      /\ Sound(sock[s], open, leaked)
  BY DEF SocketInv, SocketTypes, OwnInv, Sockets!Connect, Sockets!Live
<1>2. local \in Int
  BY <1>1 DEF SocketRecord
<1> DEFINE aimed == Sockets!Aimed(s, local)
<1>3. /\ aimed \in SocketRecord /\ aimed.live /\ aimed.m_localAddress = local
      /\ ~aimed.again /\ local # 0 => ~sock[s].again /\ sock[s].m_sock # -1
  <2> DEFINE b == local # 0 /\ (sock[s].again \/ sock[s].m_sock = -1)
  <2>1. b \in BOOLEAN /\ (~b /\ local # 0 => ~sock[s].again /\ sock[s].m_sock # -1)
    OBVIOUS
  <2>2. aimed = [sock[s] EXCEPT !.m_localAddress = local, !.m_remoteAddress = -1,
                                !.again = b]
    BY DEF Sockets!Aimed, Sockets!isValid, Sockets!Given, Sockets!Null
  <2> HIDE DEF b
  <2>3. QED
    <3>1. /\ aimed \in SocketRecord /\ aimed.live
          /\ aimed.m_localAddress = local /\ (b => aimed.again)
      <4>1. aimed = Aimed(sock[s], local, -1, b)
        BY <2>2 DEF Aimed
      <4> HIDE DEF aimed
      <4>2. PICK c \in BOOLEAN, p \in Int : c = b /\ p = -1
        BY <2>1
      <4>3. sock[s] \in SocketRecord
        BY <1>1
      <4>4. Aimed(sock[s], local, p, c) \in SocketRecord
        BY <1>2, <4>3, AimedRecord
      <4>5. Aimed(sock[s], local, p, c).live
        BY <1>1, <1>2, AimedRecord
      <4>6. Aimed(sock[s], local, p, c).m_localAddress = local
        BY <1>2, <4>3, AimedRecord
      <4>7. c => Aimed(sock[s], local, p, c).again
        BY <1>2, <4>3, AimedRecord
      <4>8. QED
        BY <4>1, <4>2, <4>4, <4>5, <4>6, <4>7, Zenon
    <3>2. QED
      BY <1>1, <2>1, <3>1, Zenon
<1>4. ~aimed.again => local = 0 \/ local \in {0, -1, open[sock[s].m_sock]}
  BY <1>1, <1>3 DEF Sound
<1> HIDE DEF aimed
<1>5. ASSUME NEW fd \in Fd \cup {-1}, Sockets!newSock(s, fd), ~aimed.again
      PROVE  local \in {0, -1, open'[fd]}
  BY <1>3, <1>4, <1>5 DEF Sockets!newSock, Sockets!isValid
<1>6. ASSUME NEW fd \in Fd \cup {-1}, Sockets!newSock(s, fd), leaked' = leaked,
             sock' = [sock EXCEPT ![s] = [aimed EXCEPT !.m_sock = fd]]
      PROVE  SocketInv'
  <2> DEFINE r == [aimed EXCEPT !.m_sock = fd]
  <2>1. /\ r \in SocketRecord /\ r.m_sock = fd /\ r.live /\ r.again = aimed.again
        /\ r.m_localAddress = local
    <3>1. r = OfFd(aimed, fd)
      BY DEF OfFd
    <3> HIDE DEF r
    <3>2. QED
      BY <1>3, <3>1, FdRecord, Descriptors
  <2>2. sock' = [sock EXCEPT ![s] = r]
    BY <1>6
  <2> HIDE DEF r
  <2>3. QED
    BY <1>5, <1>6, <2>1, <2>2, SetSocket
<1>7. ASSUME Sockets!Closes(s),
             sock' = [sock EXCEPT ![s] = [Sockets!Shut(s) EXCEPT
                !.m_localAddress = local, !.m_remoteAddress = -1]]
      PROVE  SocketInv'
  <2> DEFINE r == [Sockets!Shut(s) EXCEPT
                !.m_localAddress = local, !.m_remoteAddress = -1]
  <2>1. r \in SocketRecord /\ r.m_sock = -1
    <3>1. Sockets!Shut(s) \in SocketRecord /\ Sockets!Shut(s).m_sock = -1
      <4>1. Sockets!Shut(s) = Shut(sock[s], -1)
        BY DEF Shut, Sockets!Shut
      <4>2. QED
        BY <1>1, <4>1, ShutRecord, Descriptors
    <3>2. QED
      <4>1. r = Named(Sockets!Shut(s), local, -1)
        BY DEF Named
      <4> HIDE DEF r
      <4>2. QED
        BY <1>2, <3>1, <4>1, NamedRecord, Descriptors
  <2>2. sock' = [sock EXCEPT ![s] = r]
    BY <1>7
  <2> HIDE DEF r
  <2>3. QED
    BY <1>7, <2>1, <2>2, CloseSocket
<1>8. ASSUME NEW fd \in Fd, Sockets!newSock(s, fd), leaked' = leaked,
             sock' = [sock EXCEPT ![s] = [aimed EXCEPT
                !.m_sock = fd, !.m_isConnected = TRUE,
                !.m_localAddress = Sockets!getLocalAddress(local, fd)]]
      PROVE  SocketInv'
  <2> DEFINE a == Sockets!getLocalAddress(local, fd)
             r == [aimed EXCEPT !.m_sock = fd, !.m_isConnected = TRUE,
                                !.m_localAddress = a]
  <2>1. a = (IF local # 0 THEN local ELSE open'[fd])
    BY DEF Sockets!getLocalAddress, Sockets!Null
  <2>2. open'[fd] \in Int
    <3>1. CASE Sockets!isValid(s)
      BY <1>8, <3>1 DEF Sockets!newSock, SocketInv, SocketTypes
    <3>2. CASE ~Sockets!isValid(s)
      BY <1>8, <3>2, OpensFacts DEF Sockets!newSock, SocketInv, SocketTypes
    <3>3. QED
      BY <3>1, <3>2
  <2>3. a \in Int /\ (~aimed.again => a \in {0, -1, open'[fd]})
    BY <1>2, <1>5, <1>8, <2>1, <2>2
  <2> HIDE DEF a
  <2>4. /\ r \in SocketRecord /\ r.m_sock = fd /\ r.live /\ r.again = aimed.again
        /\ r.m_localAddress = a
    <3>1. fd \in Descriptor
      BY Descriptors
    <3>2. /\ r \in SocketRecord /\ r.m_sock = fd /\ r.live = aimed.live
          /\ r.m_localAddress = a /\ r.again = aimed.again
      <4>1. r = Connected(aimed, fd, a)
        BY DEF Connected
      <4> HIDE DEF r
      <4>2. a \in Int /\ aimed \in SocketRecord
        BY <1>3, <2>3
      <4>3. /\ Connected(aimed, fd, a) \in SocketRecord
            /\ Connected(aimed, fd, a).m_sock = fd
            /\ Connected(aimed, fd, a).live = aimed.live
            /\ Connected(aimed, fd, a).m_localAddress = a
            /\ Connected(aimed, fd, a).again = aimed.again
        BY <3>1, <4>2, ConnectedRecord, ZenonT(60)
      <4>4. QED
        BY <4>1, <4>3, Zenon
    <3>3. QED
      BY <1>3, <3>2
  <2>5. sock' = [sock EXCEPT ![s] = r]
    BY <1>8 DEF a
  <2> HIDE DEF r
  <2>6. QED
    BY <1>8, <2>3, <2>4, <2>5, SetSocket
<1>9. QED
  BY <1>6, <1>7, <1>8 DEF Sockets!Connect, Sockets!Given, aimed

LEMMA SocketAccept ==
    ASSUME SocketInv, NEW s \in Sock, NEW n \in Sock, NEW hooked \in BOOLEAN,
           Sockets!accept(s, n, hooked)
    PROVE  SocketInv'
<1>1. PICK fd \in Fd :
        /\ Sockets!Opens(fd)
        /\ IF hooked
           THEN /\ sock' = [sock EXCEPT ![n] = [Sockets!NoSocket EXCEPT
                        !.live = TRUE, !.m_sock = fd, !.m_isConnected = TRUE,
                        !.m_localAddress = opens', !.m_remoteAddress = opens']]
                /\ UNCHANGED leaked
           ELSE leaked' = leaked \cup {fd} /\ UNCHANGED sock
  BY DEF Sockets!accept
<1>2. /\ fd # -1 /\ open[fd] = 0 /\ opens' = opens + 1
      /\ open' = [open EXCEPT ![fd] = opens + 1]
  BY <1>1, OpensFacts, LibraryAssumption DEF SocketInv
<1>3. CASE hooked
  <2> DEFINE r == [Sockets!NoSocket EXCEPT
                    !.live = TRUE, !.m_sock = fd, !.m_isConnected = TRUE,
                    !.m_localAddress = opens', !.m_remoteAddress = opens']
  <2>1. opens' \in Int /\ opens' = open'[fd]
    BY <1>2 DEF SocketInv, SocketTypes
  <2>2. r \in SocketRecord /\ r.m_sock = fd /\ r.live /\ r.m_localAddress = opens'
    <3>1. fd \in Descriptor
      BY Descriptors
    <3>2. QED
      <4>1. r = Accepted(Sockets!NoSocket, fd, opens')
        BY DEF Accepted
      <4> HIDE DEF r
      <4>2. QED
        BY <2>1, <3>1, <4>1, NoRecord, AcceptedRecord
  <2>3. ~Sockets!Live(n)
    BY DEF Sockets!accept
  <2> HIDE DEF r
  <2>4. sock' = [sock EXCEPT ![n] = r] /\ leaked' = leaked
    BY <1>1, <1>3 DEF r
  <2>5. QED
    BY <1>1, <2>1, <2>2, <2>3, <2>4, SetSocket
<1>4. CASE ~hooked
  <2>1. sock' = sock /\ leaked' = leaked \cup {fd}
    BY <1>1, <1>4
  <2>2. SocketTypes'
    BY <1>2, <2>1 DEF SocketInv, SocketTypes
  <2>3. \A u \in Sock : sock[u].m_sock # fd
    BY <1>2 DEF SocketInv, OwnInv, Sound
  <2>4. /\ open'[fd] # 0
        /\ \A k \in Fd \ {fd} : open'[k] = open[k]
    BY <1>2 DEF SocketInv, SocketTypes
  <2>5. \A u \in Sock : Sound(sock'[u], open', leaked')
    <3>1. \A u \in Sock : Sound(sock[u], open, leaked)
                /\ sock[u].m_sock \in Fd \cup {-1}
      BY DEF SocketInv, SocketTypes, OwnInv, SocketRecord,
         Descriptor
    <3>2. QED
      BY <2>1, <2>3, <2>4, <3>1 DEF Sound
  <2>6. QED
    BY <2>1, <2>2, <2>4, <2>5 DEF SocketInv, SocketTypes, OwnInv
<1>5. QED
  BY <1>3, <1>4

LEMMA SocketClose ==
    ASSUME SocketInv, NEW s \in Sock, NEW gone \in BOOLEAN, Sockets!close(s, gone)
    PROVE  SocketInv'
<1> DEFINE r == IF gone THEN Sockets!NoSocket ELSE Sockets!Shut(s)
<1>1. sock[s] \in SocketRecord
  BY DEF SocketInv, SocketTypes
<1>2. CASE gone
  <2>1. r \in SocketRecord /\ r.m_sock = -1
    BY <1>2, NoRecord
  <2>2. QED
    BY <2>1, CloseSocket DEF Sockets!close
<1>3. CASE ~gone
  <2>1. r \in SocketRecord /\ r.m_sock = -1
    <3>1. r = Shut(sock[s], -1)
      BY <1>3 DEF Shut, Sockets!Shut
    <3> HIDE DEF r
    <3>2. QED
      BY <1>1, <3>1, ShutRecord, Descriptors
  <2>2. QED
    BY <2>1, CloseSocket DEF Sockets!close
<1>4. QED
  BY <1>2, <1>3

LEMMA SocketStep == SocketInv /\ [Sockets!Next]_Sockets!vars => SocketInv'
<1> SUFFICES ASSUME SocketInv, [Sockets!Next]_Sockets!vars PROVE SocketInv'
  OBVIOUS
<1>1. CASE UNCHANGED <<sock, open, opens, leaked>>
  BY <1>1 DEF SocketInv, SocketTypes, OwnInv
<1>2. CASE UNCHANGED Sockets!vars
  BY <1>1, <1>2 DEF Sockets!vars
<1>3. CASE Sockets!Next
  <2>1. PICK s \in Sock :
            \/ Sockets!CreateTCP(s) \/ Sockets!CreateUDP(s) \/ Sockets!bind(s)
            \/ Sockets!connect(s) \/ Sockets!reconnect(s) \/ Sockets!listen(s)
            \/ \E n \in Sock, hooked \in BOOLEAN : Sockets!accept(s, n, hooked)
            \/ \E gone \in BOOLEAN : Sockets!close(s, gone)
    BY <1>3 DEF Sockets!Next
  <2>2. CASE Sockets!connect(s) \/ Sockets!reconnect(s)
    BY <2>2, SocketConnect DEF Sockets!connect, Sockets!reconnect, Sockets!Null
  <2>3. CASE Sockets!listen(s)
    BY <1>1, <2>3 DEF Sockets!listen
  <2>4. QED
    BY <2>1, <2>2, <2>3, SocketCreate, SocketBind, SocketAccept, SocketClose
<1>4. QED
  BY <1>2, <1>3

\* For every number of Socket objects and descriptors: every open descriptor
\* has one owner or was leaked by accept, every Socket with a descriptor has
\* an open one, and its local address is that of this descriptor.
THEOREM SocketsCorrect == Sockets!Spec => []FdsOwned
<1>1. SocketInv => FdsOwned
  <2> SUFFICES ASSUME SocketInv PROVE FdsOwned
    OBVIOUS
  <2>1. ASSUME NEW fd \in Fd, open[fd] # 0
        PROVE  \/ fd \in leaked /\ \A s \in Sock : sock[s].m_sock # fd
               \/ fd \notin leaked /\ \E s \in Sock :
                    \A r \in Sock : sock[r].m_sock = fd <=> r = s
    <3>1. fd # -1
      BY LibraryAssumption
    <3>2. CASE fd \in leaked
      BY <3>1, <3>2 DEF SocketInv, OwnInv, Sound
    <3>3. CASE fd \notin leaked
      <4>1. PICK s \in Sock : sock[s].m_sock = fd
        BY <2>1, <3>3 DEF SocketInv, OwnInv
      <4>2. \A r \in Sock : sock[r].m_sock = fd <=> r = s
        BY <3>1, <4>1 DEF SocketInv, OwnInv
      <4>3. QED
        BY <3>3, <4>1, <4>2
    <3>4. QED
      BY <3>2, <3>3
  <2>2. ASSUME NEW s \in Sock, sock[s].m_sock # -1
        PROVE  /\ open[sock[s].m_sock] # 0
               /\ sock[s].m_isConnected /\ ~sock[s].again =>
                    sock[s].m_localAddress \in {0, -1, open[sock[s].m_sock]}
    BY <2>2 DEF SocketInv, OwnInv, Sound
  <2>3. QED
    BY <2>1, <2>2 DEF FdsOwned, Sockets!FdsOwned, Sockets!Closed, Sockets!Null,
       Sockets!Given, Sockets!isValid
<1>2. QED
  BY <1>1, SocketInit, SocketStep, PTL DEF Sockets!Spec

-----------------------------------------------------------------------------
(* Networks *)

LEMMA PowersSame ==
    ASSUME NEW b, NEW n
    PROVE  Addr!Power(b, n) = Power(b, n) /\ Code!Power(b, n) = Power(b, n)
  BY DEF Addr!Power, Code!Power, Power

\* For every width of an address and every prefix but 0, the addresses from the
\* network address to the broadcast address are those of the network, and the
\* subnet mask is the network address of all ones (address.cc:314-342).
THEOREM PrefixesSound ==
    \A a \in 0..(Power(2, AddrBits) - 1), n \in 1..AddrBits : Addr!PrefixSound(a, n)
<1> TAKE a \in 0..(Power(2, AddrBits) - 1), n \in 1..AddrBits
<1> DEFINE W == Power(2, AddrBits)
           M == Power(2, AddrBits - n)
           K == Power(2, n)
           net(x) == x - (x % M)
           low == net(a)
<1>1. AddrBits \in Nat /\ n \in Nat /\ AddrBits - n \in Nat /\ (AddrBits - n) + n = AddrBits
  BY LibraryAssumption
<1>2. W \in Nat \ {0} /\ M \in Nat \ {0} /\ K \in Nat \ {0}
  BY <1>1, PowerPositive
<1>3. W = M * K
  BY <1>1, PowerAdd
<1>4. /\ Addr!CreateMask(n) = M - 1 /\ (M - 1) + 1 = M
  BY <1>2, PowersSame DEF Addr!CreateMask
<1>5. \A x : Addr!networkAddress(x, n) = net(x)
  BY <1>4 DEF Addr!networkAddress
<1>6. Addr!broadcastAddress(a, n) = low + (M - 1)
  BY <1>4, <1>5 DEF Addr!broadcastAddress
<1>7. Addr!subnetMask(n) = W - 1 - (M - 1)
  BY <1>4, PowersSame DEF Addr!subnetMask
<1>8. a \in Nat /\ W - 1 \in Nat
  BY <1>2
<1> HIDE DEF W, M, K
<1>9. ASSUME NEW x \in Nat
      PROVE  /\ x \div M \in Nat /\ x % M \in 0..(M - 1)
             /\ M * (x \div M) \in Nat /\ x = M * (x \div M) + (x % M)
             /\ net(x) = M * (x \div M) /\ net(x) \in Nat
  <2> DEFINE q == x \div M
             r == x % M
  <2>1. q \in Nat /\ r \in 0..(M - 1) /\ x = M * q + r
    BY <1>2, Quotient
  <2> HIDE DEF q, r
  <2>2. M * q \in Nat
    BY <1>2, <2>1, Product
  <2>3. x - r = M * q
    BY <1>2, <2>1, <2>2
  <2>4. QED
    BY <2>1, <2>2, <2>3 DEF q, r
<1>10. ASSUME NEW x \in Nat
       PROVE  x \in low..(low + (M - 1)) <=> net(x) = low
  <2> DEFINE qa == a \div M
             qx == x \div M
             rx == x % M
  <2>1. /\ qa \in Nat /\ M * qa \in Nat /\ low = M * qa
    BY <1>8, <1>9
  <2>2. /\ qx \in Nat /\ rx \in 0..(M - 1) /\ M * qx \in Nat
        /\ x = M * qx + rx /\ net(x) = M * qx
    BY <1>9
  <2> HIDE DEF qa, qx, rx, net, low
  <2>3. ASSUME net(x) = low PROVE x \in low..(low + (M - 1))
    BY <1>2, <2>1, <2>2, <2>3
  <2>4. ASSUME x \in low..(low + (M - 1)) PROVE net(x) = low
    <3>1. x - low \in 0..(M - 1) /\ x = M * qa + (x - low)
      BY <1>2, <2>1, <2>4
    <3>2. qx = qa
      BY <1>2, <2>1, <3>1, QuotientIs DEF qx
    <3>3. QED
      BY <2>1, <2>2, <3>2
  <2>5. QED
    BY <2>3, <2>4
<1>11. net(W - 1) = W - 1 - (M - 1)
  <2>1. /\ K - 1 \in Nat /\ M * (K - 1) \in Nat /\ M * K = M * (K - 1) + M
    <3>1. K - 1 \in Nat
      BY <1>2
    <3>2. M * (K - 1) \in Nat
      BY <1>2, <3>1, Product
    <3>3. M * K = M * (K - 1) + M
      BY <1>2
    <3>4. QED
      BY <3>1, <3>2, <3>3
  <2>2. W - 1 = M * (K - 1) + (M - 1) /\ M - 1 \in 0..(M - 1)
    BY <1>2, <1>3, <2>1
  <2>3. (W - 1) % M = M - 1
    BY <1>2, <1>8, <2>1, <2>2, QuotientIs
  <2>4. QED
    BY <2>3
<1>12. \A x \in 0..(W - 1) : x \in Nat
  BY <1>2
<1> HIDE DEF net, low
<1>13. \A x \in 0..(W - 1) :
            x \in low..(low + (M - 1)) <=> Addr!networkAddress(x, n) = low
  BY <1>5, <1>10, <1>12
<1>14. /\ Addr!networkAddress(a, n) = low
       /\ Addr!networkAddress(W - 1, n) = Addr!subnetMask(n)
  BY <1>5, <1>7, <1>11 DEF low
<1>15. Addr!Power(2, AddrBits) = W
  BY PowersSame DEF W
<1>16. QED
  BY <1>6, <1>13, <1>14, <1>15 DEF Addr!PrefixSound

-----------------------------------------------------------------------------
(* Numbers *)

\* The widths: a word fits in MaxGroups groups, and is WordBytes bytes.
LEMMA WidthFacts ==
    /\ Code!Word \in Nat \ {0} /\ Code!Group \in Nat \ {0, 1}
    /\ Code!ByteSize \in Nat \ {0} /\ Code!WordBytes \in Nat
    /\ Code!MaxGroups \in 1..WordBits
    /\ Code!Word <= Power(Code!Group, Code!MaxGroups)
    /\ Code!Word = Power(Code!ByteSize, Code!WordBytes)
    /\ Code!Word = 2 * Power(2, WordBits - 1)
    /\ Power(2, WordBits - 1) \in Nat \ {0}
<1> DEFINE w == WordBits
           g == GroupBits
           m == (w + g - 1) \div g
           y == w \div (g + 1)
<1>1. /\ w \in Nat \ {0} /\ g \in Nat \ {0} /\ w % (g + 1) = 0
  BY LibraryAssumption
<1>2. /\ Code!Word = Power(2, w) /\ Code!Group = Power(2, g)
      /\ Code!ByteSize = 2 * Power(2, g) /\ Code!WordBytes = y
      /\ Code!MaxGroups = m
  BY PowersSame DEF Code!Word, Code!Group, Code!ByteSize, Code!WordBytes,
                    Code!MaxGroups
<1> HIDE DEF w, g
<1>3. /\ w + g - 1 \in Nat /\ g + 1 \in Nat \ {0} /\ w - 1 \in Nat /\ g - 1 \in Nat
      /\ (w - 1) + 1 = w /\ (g - 1) + 1 = g
  BY <1>1
<1>4. m \in Nat /\ w + g - 1 < g * m + g /\ g * m <= w + g - 1 /\ g * m \in Nat
  <2> DEFINE x == w + g - 1
             r == x % g
  <2>1. m \in Nat /\ r \in 0..(g - 1) /\ x = g * m + r
    BY <1>1, <1>3, Quotient
  <2> HIDE DEF m, r
  <2>2. g * m \in Nat
    BY <1>1, <2>1, Product
  <2>3. QED
    BY <1>1, <2>1, <2>2
<1>5. y \in Nat /\ w = (g + 1) * y
  <2>1. y \in Nat /\ w = (g + 1) * y + (w % (g + 1)) /\ (g + 1) * y \in Nat
    BY <1>1, <1>3, Quotient, Product
  <2> HIDE DEF y
  <2>2. QED
    BY <1>1, <2>1
<1> HIDE DEF m, y
<1>6. w <= g * m
  BY <1>1, <1>4
<1>7. m # 0
  <2>1. g * 0 = 0
    BY <1>1
  <2>2. QED
    BY <1>1, <1>6, <2>1
<1>8. m <= w
  <2> SUFFICES ASSUME w < m PROVE FALSE
    BY <1>1, <1>4
  <2>1. g * w + g <= g * m /\ g * w \in Nat
    BY <1>1, <1>4, MoreTimes, Product
  <2>2. w <= g * w
    <3>1. w * 0 + w <= w * g /\ w * 0 = 0 /\ w * g = g * w
      BY <1>1, MoreTimes
    <3>2. QED
      BY <1>1, <2>1, <3>1
  <2>3. QED
    BY <1>1, <1>4, <2>1, <2>2
<1>9. /\ Power(2, w) \in Nat \ {0} /\ Power(2, g) \in Nat \ {0}
      /\ Power(2, w - 1) \in Nat \ {0} /\ Power(2, g - 1) \in Nat \ {0}
  <2>1. \A k \in Nat : Power(2, k) \in Nat \ {0}
    BY PowerPositive
  <2>2. w \in Nat /\ g \in Nat
    BY <1>1
  <2>3. QED
    BY <1>3, <2>1, <2>2
<1>10. Power(2, w) = 2 * Power(2, w - 1) /\ Power(2, g) = 2 * Power(2, g - 1)
       /\ Power(2, g + 1) = 2 * Power(2, g)
  BY <1>1, <1>3, PowerNext
<1>11. Power(2, w) <= Power(Power(2, g), m)
  <2>1. Power(2, w) <= Power(2, g * m)
    BY <1>1, <1>4, <1>6, PowerGrows
  <2>2. Power(Power(2, g), m) = Power(2, g * m)
    BY <1>1, <1>4, PowerTimes
  <2>3. QED
    BY <2>1, <2>2
<1>12. Power(2, w) = Power(Power(2, g + 1), y)
  <2>1. Power(Power(2, g + 1), y) = Power(2, (g + 1) * y)
    BY <1>3, <1>5, PowerTimes
  <2>2. QED
    BY <1>5, <2>1
<1>13. Power(2, g) # 1 /\ 2 * Power(2, g) \in Nat \ {0}
  BY <1>9, <1>10
<1>14. m \in 1..w
  BY <1>1, <1>4, <1>7, <1>8
<1>15. QED
  BY <1>2, <1>5, <1>9, <1>10, <1>11, <1>12, <1>13, <1>14 DEF w

\* Every signed word is its zigzag code decoded.
LEMMA ZigzagFacts ==
    ASSUME NEW x \in (-Power(2, WordBits - 1))..(Power(2, WordBits - 1) - 1)
    PROVE  /\ Code!EncodeZigzag(x) \in 0..(Code!Word - 1)
           /\ Code!DecodeZigzag(Code!EncodeZigzag(x)) = x
<1> DEFINE H == Power(2, WordBits - 1)
<1>1. H \in Nat \ {0} /\ Code!Word = 2 * H
  BY WidthFacts
<1>2. x \in (-H)..(H - 1) /\ x \in Int
  BY <1>1
<1> HIDE DEF H
<1>3. CASE x < 0
  <2> DEFINE u == (-x) * 2 - 1
  <2>1. u \in Nat /\ u < 2 * H /\ 2 * H \in Nat \ {0}
    BY <1>1, <1>2, <1>3
  <2>2. u % (2 * H) = u
    BY <2>1, Below
  <2>3. Code!EncodeZigzag(x) = u
    BY <1>1, <1>3, <2>2 DEF Code!EncodeZigzag
  <2>4. u % 2 = 1 /\ u \div 2 = (-x) - 1
    BY <1>2, <1>3
  <2>5. -((-x) - 1) - 1 = x
    BY <1>2
  <2>6. Code!DecodeZigzag(u) = x
    BY <2>4, <2>5 DEF Code!DecodeZigzag
  <2>7. QED
    BY <1>1, <2>1, <2>3, <2>6
<1>4. CASE ~(x < 0)
  <2> DEFINE u == x * 2
  <2>1. u \in 0..(2 * H - 1)
    BY <1>1, <1>2, <1>4
  <2>2. Code!EncodeZigzag(x) = u
    BY <1>4 DEF Code!EncodeZigzag
  <2>3. u % 2 = 0 /\ u \div 2 = x
    BY <1>2, <1>4
  <2>4. Code!DecodeZigzag(u) = x
    BY <2>3 DEF Code!DecodeZigzag
  <2>5. QED
    BY <1>1, <2>1, <2>2, <2>4
<1>5. QED
  BY <1>3, <1>4

LEMMA LeastIs ==
    ASSUME NEW S \in SUBSET Nat, S # {}
    PROVE  Code!Least(S) \in S /\ \A m \in S : Code!Least(S) <= m
<1>1. \E n \in S : \A m \in S : n <= m
  BY LeastNat
<1>2. QED
  BY <1>1 DEF Code!Least

\* The groups that a number is written in: their number fits the buffer, all
\* but the last carry the mark.
LEMMA WrittenUint ==
    ASSUME NEW v \in 0..(Code!Word - 1)
    PROVE  \E n \in 1..Code!MaxGroups :
                /\ v < Power(Code!Group, n)
                /\ Code!writeUint(v) =
                     [i \in 1..n |-> ((v \div Power(Code!Group, i - 1)) % Code!Group)
                                        + (IF i < n THEN Code!Group ELSE 0)]
<1> DEFINE S == {m \in 1..WordBits : v < Power(Code!Group, m)}
           M == Code!MaxGroups
           n == Code!Least(S)
<1>1. /\ Code!Word \in Nat \ {0} /\ Code!Group \in Nat \ {0, 1} /\ M \in 1..WordBits
      /\ Code!Word <= Power(Code!Group, M) /\ WordBits \in Nat
  BY WidthFacts, LibraryAssumption
<1>2. M \in Nat /\ Power(Code!Group, M) \in Nat
  BY <1>1, PowerPositive
<1>3. M \in S
  BY <1>1, <1>2
<1>4. S \in SUBSET Nat
  BY <1>1
<1>5. n \in S /\ n <= M
  <2> HIDE DEF S
  <2>1. QED
    BY <1>3, <1>4, LeastIs
<1>6. n \in 1..M /\ v < Power(Code!Group, n)
  BY <1>1, <1>2, <1>5
<1>7. \A b, k : Code!Power(b, k) = Power(b, k)
  BY PowersSame
<1>8. Code!writeUint(v) =
        [i \in 1..n |-> ((v \div Power(Code!Group, i - 1)) % Code!Group)
                            + (IF i < n THEN Code!Group ELSE 0)]
  BY <1>7 DEF Code!writeUint
<1> HIDE DEF n
<1>9. QED
  BY <1>6, <1>8

\* The sums that readUint and readFint form.
IsRead(s, n, f) ==
    f = [i \in 0..n |-> IF i = 0 THEN 0
                        ELSE f[i - 1] + (s[i] % Code!Group)
                                            * Code!Power(Code!Group, i - 1)]
IsFixed(s, little, n, f) ==
    f = [i \in 0..n |-> IF i = 0 THEN 0
                        ELSE f[i - 1] + s[IF little THEN i
                                          ELSE Code!WordBytes + 1 - i]
                                            * Code!Power(Code!ByteSize, i - 1)]

\* What writeUint wrote, readUint reads, whatever follows.
LEMMA UintRead ==
    ASSUME NEW v \in 0..(Code!Word - 1), NEW n \in 1..Code!MaxGroups,
           v < Power(Code!Group, n), NEW s,
           \A i \in 1..n :
                s[i] = ((v \div Power(Code!Group, i - 1)) % Code!Group)
                            + (IF i < n THEN Code!Group ELSE 0)
    PROVE  Code!readUint(s) = [value |-> v, used |-> n]
<1> DEFINE G == Code!Group
           M == Code!MaxGroups
           S == {i \in 1..M : i = M \/ s[i] < G}
           k == Code!Least(S)
           F == CHOOSE h : IsRead(s, k, h)
           d(i) == (v \div Power(G, i - 1)) % G
<1>1. /\ Code!Word \in Nat \ {0} /\ G \in Nat \ {0, 1} /\ M \in Nat /\ v \in Nat
      /\ n \in Nat /\ n \in 1..M
  BY WidthFacts, LibraryAssumption
<1>2. Code!readUint(s) = [value |-> F[k] % Code!Word, used |-> k]
  BY DEF Code!readUint, Code!Sum, IsRead
<1> HIDE DEF F, G, M
<1>3. ASSUME NEW i \in 1..n
      PROVE  /\ Power(G, i - 1) \in Nat \ {0} /\ v \div Power(G, i - 1) \in Nat
             /\ d(i) \in 0..(G - 1) /\ i \in 1..M
             /\ s[i] = d(i) + (IF i < n THEN G ELSE 0)
  <2>1. i - 1 \in Nat /\ i \in 1..M
    BY <1>1
  <2>2. Power(G, i - 1) \in Nat \ {0}
    BY <1>1, <2>1, PowerPositive
  <2>3. v \div Power(G, i - 1) \in Nat
    BY <1>1, <2>2, Quotient
  <2>4. d(i) \in 0..(G - 1)
    BY <1>1, <2>3, Quotient
  <2>5. QED
    BY <2>1, <2>2, <2>3, <2>4 DEF G
<1> HIDE DEF d
<1>4. n \in S
  <2>1. s[n] = d(n) + 0 /\ d(n) \in 0..(G - 1)
    BY <1>1, <1>3
  <2>2. s[n] < G
    BY <1>1, <2>1
  <2>3. QED
    BY <1>1, <2>2
<1>5. ASSUME NEW i \in S PROVE n <= i
  <2> SUFFICES ASSUME i < n PROVE FALSE
    BY <1>1
  <2>1. i \in 1..n /\ i # M
    BY <1>1
  <2>2. s[i] = d(i) + G /\ d(i) \in 0..(G - 1)
    BY <1>3, <2>1
  <2>3. ~(s[i] < G)
    BY <1>1, <2>2
  <2>4. QED
    BY <2>1, <2>3
<1>6. k = n
  <2>1. S \in SUBSET Nat /\ S # {}
    BY <1>1, <1>4
  <2> HIDE DEF S
  <2>2. k \in S /\ \A m \in S : k <= m
    BY <2>1, LeastIs
  <2>3. k \in Nat /\ k <= n /\ n <= k
    BY <1>4, <1>5, <2>1, <2>2
  <2> HIDE DEF k
  <2>4. QED
    BY <1>1, <2>3
<1> HIDE DEF k, S
<1> DEFINE a == [i \in 1..n |-> (s[i] % G) * Code!Power(G, i - 1)]
<1>7. ASSUME NEW i \in 1..n PROVE a[i] = Digits(G, v, n)[i]
  <2>1. s[i] = G * 0 + d(i) \/ s[i] = G * 1 + d(i)
    BY <1>1, <1>3
  <2>2. s[i] \in Nat /\ d(i) \in 0..(G - 1)
    BY <1>1, <1>3
  <2>3. s[i] % G = d(i)
    BY <1>1, <2>1, <2>2, QuotientIs
  <2>4. a[i] = d(i) * Power(G, i - 1)
    BY <2>3, PowersSame
  <2>5. QED
    BY <2>4 DEF Digits, d
<1>8. ASSUME NEW h PROVE IsRead(s, n, h) <=> IsSum(a, n, h)
  <2>1. ASSUME NEW i \in 0..n, i # 0
        PROVE  a[i] = (s[i] % G) * Code!Power(G, i - 1)
    <3>1. i \in 1..n
      BY <1>1, <2>1
    <3>2. QED
      BY <3>1
  <2> HIDE DEF a
  <2>2. [i \in 0..n |-> IF i = 0 THEN 0
                        ELSE h[i - 1] + (s[i] % G) * Code!Power(G, i - 1)]
          = [i \in 0..n |-> IF i = 0 THEN 0 ELSE h[i - 1] + a[i]]
    BY <2>1
  <2>3. QED
    BY <2>2 DEF IsRead, IsSum, G
<1> HIDE DEF a
<1>9. IsSum(a, n, F)
  <2>1. \E h : IsRead(s, n, h)
    BY <1>1, <1>8, SumExists
  <2>2. IsRead(s, n, CHOOSE h : IsRead(s, n, h))
    BY <2>1, Zenon
  <2>3. QED
    BY <1>6, <1>8, <2>2 DEF F
<1>10. F[n] = v
  <2>1. G \in Nat \ {0} /\ v < Power(G, n)
    BY <1>1 DEF G
  <2>2. QED
    BY <1>1, <1>7, <1>9, <2>1, SumOfDigits
<1>11. v % Code!Word = v
  <2>1. v < Code!Word
    BY <1>1
  <2>2. QED
    BY <1>1, <2>1, Below
<1>12. QED
  BY <1>2, <1>6, <1>10, <1>11

\* What writeFint wrote, readFint reads, in either byte order.
LEMMA FintRead ==
    ASSUME NEW u \in 0..(Code!Word - 1), NEW little \in BOOLEAN
    PROVE  Code!readFint(Code!writeFint(u, little), little) = u
<1> DEFINE B == Code!ByteSize
           y == Code!WordBytes
           s == Code!writeFint(u, little)
           F == CHOOSE h : IsFixed(s, little, y, h)
           at(i) == IF little THEN i ELSE y + 1 - i
           a == [i \in 1..y |-> s[at(i)] * Code!Power(B, i - 1)]
<1>1. /\ Code!Word \in Nat \ {0} /\ B \in Nat \ {0} /\ y \in Nat
      /\ Code!Word = Power(B, y) /\ u \in Nat
  BY WidthFacts
<1>2. Code!readFint(s, little) = F[y]
  BY DEF Code!readFint, Code!Sum, IsFixed
<1>3. ASSUME NEW i \in 1..y
      PROVE  s[i] = (u \div Power(B, IF little THEN i - 1 ELSE y - i)) % B
  BY PowersSame DEF Code!writeFint
<1> HIDE DEF B, y, s, F
<1>4. ASSUME NEW i \in 1..y PROVE s[at(i)] = (u \div Power(B, i - 1)) % B
  <2>1. CASE little
    BY <1>3, <2>1
  <2>2. CASE ~little
    <3> DEFINE j == y + 1 - i
    <3>1. j \in 1..y /\ y - j = i - 1
      BY <1>1
    <3> HIDE DEF j
    <3>2. s[j] = (u \div Power(B, y - j)) % B
      BY <1>3, <2>2, <3>1
    <3>3. QED
      BY <2>2, <3>1, <3>2 DEF j
  <2>3. QED
    BY <2>1, <2>2
<1>5. ASSUME NEW i \in 1..y PROVE a[i] = Digits(B, u, y)[i]
  <2>1. a[i] = s[at(i)] * Power(B, i - 1)
    BY PowersSame
  <2>2. QED
    BY <1>4, <2>1 DEF Digits
<1>6. ASSUME NEW h PROVE IsFixed(s, little, y, h) <=> IsSum(a, y, h)
  <2>1. ASSUME NEW i \in 0..y, i # 0
        PROVE  a[i] = s[at(i)] * Code!Power(B, i - 1)
    <3>1. i \in 1..y
      BY <1>1, <2>1
    <3>2. QED
      BY <3>1
  <2> HIDE DEF a
  <2>2. [i \in 0..y |-> IF i = 0 THEN 0
                        ELSE h[i - 1] + s[at(i)] * Code!Power(B, i - 1)]
          = [i \in 0..y |-> IF i = 0 THEN 0 ELSE h[i - 1] + a[i]]
    <3> HIDE DEF at
    <3>1. QED
      BY <2>1
  <2>3. QED
    BY <2>2 DEF IsFixed, IsSum, B, y
<1> HIDE DEF a
<1>7. IsSum(a, y, F)
  <2>1. \E h : IsFixed(s, little, y, h)
    BY <1>1, <1>6, SumExists
  <2>2. IsFixed(s, little, y, CHOOSE h : IsFixed(s, little, y, h))
    BY <2>1, Zenon
  <2>3. QED
    BY <1>6, <2>2 DEF F
<1>8. u < Power(B, y)
  BY <1>1
<1>9. F[y] = u
  BY <1>1, <1>5, <1>7, <1>8, SumOfDigits
<1>10. QED
  BY <1>2, <1>9 DEF s

\* For every width of a word and of a group, every signed word survives zigzag
\* and the variable length encoding, in no more bytes than the writer's buffer
\* has and whatever follows, and the fixed encoding in both byte orders
\* (bytearray.cc:64-166, 204-284).
THEOREM NumbersSurvive ==
    \A x \in (-Power(2, WordBits - 1))..(Power(2, WordBits - 1) - 1) :
        Code!NumberRoundTrip(x)
<1> TAKE x \in (-Power(2, WordBits - 1))..(Power(2, WordBits - 1) - 1)
<1> DEFINE u == Code!EncodeZigzag(x)
           s == Code!writeUint(u)
           G == Code!Group
           M == Code!MaxGroups
           pad(after) == [i \in 1..M |-> after]
<1>1. u \in 0..(Code!Word - 1) /\ Code!DecodeZigzag(u) = x
  BY ZigzagFacts
<1> HIDE DEF u
<1>2. PICK n \in 1..M :
        /\ u < Power(G, n)
        /\ s = [i \in 1..n |-> ((u \div Power(G, i - 1)) % G)
                                    + (IF i < n THEN G ELSE 0)]
  BY <1>1, WrittenUint
<1>3. /\ G \in Nat \ {0, 1} /\ M \in Nat /\ Code!Word \in Nat \ {0} /\ u \in Nat
      /\ n \in Nat /\ Code!ByteSize \in Nat \ {0}
  BY <1>1, WidthFacts, LibraryAssumption
<1>4. ASSUME NEW i \in 1..n
      PROVE  s[i] = ((u \div Power(G, i - 1)) % G) + (IF i < n THEN G ELSE 0)
             /\ s[i] \in Nat
  <2>1. s[i] = ((u \div Power(G, i - 1)) % G) + (IF i < n THEN G ELSE 0)
    BY <1>2
  <2> DEFINE p == Power(G, i - 1)
             q == u \div p
  <2>2. i - 1 \in Nat /\ G \in Nat \ {0}
    BY <1>3
  <2>3. p \in Nat \ {0}
    BY <2>2, PowerPositive
  <2> HIDE DEF p
  <2>4. q \in Nat
    BY <1>3, <2>3, Quotient
  <2> HIDE DEF q
  <2>5. q % G \in 0..(G - 1)
    BY <2>2, <2>4, Quotient
  <2>6. QED
    BY <2>1, <2>2, <2>5 DEF p, q
<1> HIDE DEF G, M
<1>5. s \in Seq(Nat) /\ Len(s) = n
  <2>1. s = [i \in 1..n |-> s[i]]
    BY <1>2
  <2> HIDE DEF s
  <2>2. QED
    BY <1>3, <1>4, <2>1
<1> HIDE DEF s
<1>6. ASSUME NEW after \in Nat
      PROVE  Code!readUint(s \o pad(after)) = [value |-> u, used |-> Len(s)]
  <2>1. pad(after) \in Seq(Nat)
    BY <1>3
  <2> DEFINE t == s \o pad(after)
  <2>2. \A i \in 1..n : t[i] = s[i]
    <3> HIDE DEF pad
    <3>1. QED
      BY <1>5, <2>1
  <2> HIDE DEF t
  <2>3. \A i \in 1..n :
            t[i] = ((u \div Power(G, i - 1)) % G) + (IF i < n THEN G ELSE 0)
    BY <1>4, <2>2
  <2>4. Code!readUint(t) = [value |-> u, used |-> n]
    BY <1>1, <1>2, <2>3, UintRead DEF G, M
  <2>5. QED
    BY <1>5, <2>4 DEF t
<1>7. \A after \in {0, G, Code!ByteSize - 1} : after \in Nat
  BY <1>3
<1>8. Len(s) <= M
  BY <1>2, <1>3, <1>5
<1>9. \A little \in BOOLEAN : Code!readFint(Code!writeFint(u, little), little) = u
  BY <1>1, FintRead
<1>10. QED
  BY <1>1, <1>6, <1>7, <1>8, <1>9 DEF Code!NumberRoundTrip, G, M, s, u

-----------------------------------------------------------------------------
(* The %-encoding *)

Octet == 0..255

\* What UrlEncode writes for one character, and the functions that UrlEncode
\* and UrlDecode are made of.
Coded(c, plus) ==
    CASE c \in Code!Unreserved -> <<c>>
      [] c = Code!SPACE /\ plus -> <<Code!PLUS>>
      [] OTHER -> <<Code!PERCENT, Code!hexdigits(c \div 16),
                    Code!hexdigits(c % 16)>>
AllCoded(s, plus) == [i \in 1..Len(s) |-> Coded(s[i], plus)]
IsEncoded(s, plus, f) ==
    f = [i \in 0..Len(s) |-> IF i = 0 THEN <<>> ELSE f[i - 1] \o Coded(s[i], plus)]
HexAt(s, i) ==
    /\ s[i] = Code!PERCENT /\ i + 2 <= Len(s)
    /\ Code!isxdigit(s[i + 1]) /\ Code!isxdigit(s[i + 2])
DecodedAt(s, plus, f, n) ==
    LET i == Len(s) + 1 - n
    IN  CASE n = 0 -> <<>>
          [] n > 0 /\ s[i] = Code!PLUS /\ plus -> <<Code!SPACE>> \o f[n - 1]
          [] n > 0 /\ HexAt(s, i) ->
                <<16 * Code!xdigit_chars(s[i + 1])
                    + Code!xdigit_chars(s[i + 2])>> \o f[n - 3]
          [] OTHER -> <<s[i]>> \o f[n - 1]
IsDecoded(s, plus, n, f) == f = [k \in 0..n |-> DecodedAt(s, plus, f, k)]

\* A step of UrlDecode looks only at what is decoded already.
LEMMA DecodedLocal ==
    ASSUME NEW s, Len(s) \in Nat, NEW plus, NEW n \in Nat, n <= Len(s), NEW f, NEW g,
           \A j \in 0..(n - 1) : f[j] = g[j]
    PROVE  DecodedAt(s, plus, f, n) = DecodedAt(s, plus, g, n)
<1> DEFINE i == Len(s) + 1 - n
<1>1. n > 0 => n - 1 \in 0..(n - 1)
  OBVIOUS
<1>2. n > 0 /\ HexAt(s, i) => n - 3 \in 0..(n - 1)
  BY DEF HexAt
<1>3. n > 0 => f[n - 1] = g[n - 1]
  BY <1>1
<1>4. n > 0 /\ HexAt(s, i) => f[n - 3] = g[n - 3]
  BY <1>2
<1>5. Code!PLUS # Code!PERCENT
  BY DEF Code!PLUS, Code!PERCENT
<1>6. QED
  BY <1>3, <1>4, <1>5 DEF DecodedAt, HexAt

LEMMA DecodedExists ==
    ASSUME NEW s, Len(s) \in Nat, NEW plus
    PROVE  \A n \in 0..Len(s) : \E f : IsDecoded(s, plus, n, f)
<1> DEFINE T == {n \in Nat : n <= Len(s) /\ ~\E f : IsDecoded(s, plus, n, f)}
<1> SUFFICES ASSUME T # {} PROVE FALSE
  OBVIOUS
<1>1. PICK n \in T : \A y \in T : n <= y
  BY LeastNat
<1>2. n # 0
  <2>1. IsDecoded(s, plus, 0, [i \in 0..0 |-> <<>>])
    BY DEF IsDecoded, DecodedAt
  <2>2. QED
    BY <1>1, <2>1
<1>3. n - 1 \in Nat /\ n \in Nat /\ n <= Len(s) /\ n - 1 <= Len(s)
  BY <1>1, <1>2
<1>4. PICK f : IsDecoded(s, plus, n - 1, f)
  BY <1>1, <1>3
<1> DEFINE g == [i \in 0..n |-> IF i = n THEN DecodedAt(s, plus, f, n) ELSE f[i]]
<1>5. ASSUME NEW i \in 0..n
      PROVE  g[i] = DecodedAt(s, plus, g, i)
  <2>1. i = n \/ i \in 0..(n - 1)
    BY <1>3
  <2>2. \A j \in 0..(n - 1) : j \in 0..n /\ j # n
    BY <1>3
  <2>3. \A j \in 0..(n - 1) : g[j] = f[j]
    BY <2>2
  <2>4. CASE i = n
    <3>1. g[i] = DecodedAt(s, plus, f, n)
      BY <2>4
    <3> HIDE DEF g
    <3>2. DecodedAt(s, plus, f, n) = DecodedAt(s, plus, g, n)
      BY <1>3, <2>3, DecodedLocal
    <3>3. QED
      BY <2>4, <3>1, <3>2
  <2>5. CASE i \in 0..(n - 1)
    <3>1. f[i] = DecodedAt(s, plus, f, i)
      BY <1>4, <2>5 DEF IsDecoded
    <3>2. i \in Nat /\ i <= Len(s) /\ \A j \in 0..(i - 1) : j \in 0..(n - 1)
      BY <1>3, <2>5
    <3> HIDE DEF g
    <3>3. DecodedAt(s, plus, f, i) = DecodedAt(s, plus, g, i)
      BY <2>3, <3>2, DecodedLocal
    <3>4. QED
      BY <2>3, <2>5, <3>1, <3>3
  <2>6. QED
    BY <2>1, <2>4, <2>5
<1>6. g = [i \in 0..n |-> DecodedAt(s, plus, g, i)]
  <2>1. g = [i \in 0..n |-> g[i]]
    OBVIOUS
  <2> HIDE DEF g
  <2>2. QED
    BY <1>5, <2>1
<1> HIDE DEF g
<1>7. IsDecoded(s, plus, n, g)
  BY <1>6 DEF IsDecoded
<1>8. QED
  BY <1>1, <1>7

\* The three forms a character is written in.
LEMMA CodedFacts ==
    ASSUME NEW c \in Octet, NEW plus \in BOOLEAN
    PROVE  /\ Coded(c, plus) \in Seq(Nat)
           /\ \/ /\ Len(Coded(c, plus)) = 1 /\ Coded(c, plus)[1] = c
                 /\ c \notin {Code!PLUS, Code!PERCENT}
              \/ /\ Len(Coded(c, plus)) = 1 /\ Coded(c, plus)[1] = Code!PLUS
                 /\ c = Code!SPACE /\ plus
              \/ /\ Len(Coded(c, plus)) = 3 /\ Coded(c, plus)[1] = Code!PERCENT
                 /\ Code!isxdigit(Coded(c, plus)[2])
                 /\ Code!isxdigit(Coded(c, plus)[3])
                 /\ 16 * Code!xdigit_chars(Coded(c, plus)[2])
                        + Code!xdigit_chars(Coded(c, plus)[3]) = c
<1> DEFINE h(d) == Code!hexdigits(d)
<1>1. ASSUME NEW d \in 0..15
      PROVE  h(d) \in Nat /\ Code!isxdigit(h(d)) /\ Code!xdigit_chars(h(d)) = d
  BY DEF Code!hexdigits, Code!isxdigit, Code!xdigit_chars
<1>2. /\ c \div 16 \in 0..15 /\ c % 16 \in 0..15
      /\ 16 * (c \div 16) + (c % 16) = c
      /\ c \in Nat
  BY DEF Octet
<1>3. Code!SPACE \notin Code!Unreserved
  BY DEF Code!SPACE, Code!Unreserved
<1>4. CASE c \in Code!Unreserved
  <2>1. Coded(c, plus) = <<c>>
    BY <1>3, <1>4 DEF Coded
  <2>2. c \notin {Code!PLUS, Code!PERCENT}
    BY <1>4 DEF Code!PLUS, Code!PERCENT, Code!Unreserved
  <2>3. QED
    BY <1>2, <2>1, <2>2
<1>5. CASE c = Code!SPACE /\ plus
  <2>1. Coded(c, plus) = <<Code!PLUS>>
    BY <1>3, <1>5 DEF Coded
  <2>2. Code!PLUS \in Nat
    BY DEF Code!PLUS
  <2>3. /\ Coded(c, plus) \in Seq(Nat) /\ Len(Coded(c, plus)) = 1
        /\ Coded(c, plus)[1] = Code!PLUS
    BY <2>1, <2>2
  <2>4. QED
    BY <1>5, <2>3, Zenon
<1>6. CASE c \notin Code!Unreserved /\ ~(c = Code!SPACE /\ plus)
  <2> DEFINE a == h(c \div 16)
             b == h(c % 16)
  <2>1. Coded(c, plus) = <<Code!PERCENT, a, b>>
    BY <1>6 DEF Coded
  <2>2. /\ a \in Nat /\ Code!isxdigit(a) /\ Code!xdigit_chars(a) = c \div 16
        /\ b \in Nat /\ Code!isxdigit(b) /\ Code!xdigit_chars(b) = c % 16
    BY <1>1, <1>2
  <2>3. Code!PERCENT \in Nat
    BY DEF Code!PERCENT
  <2> HIDE DEF a, b
  <2>4. /\ Coded(c, plus) \in Seq(Nat) /\ Len(Coded(c, plus)) = 3
        /\ Coded(c, plus)[1] = Code!PERCENT /\ Coded(c, plus)[2] = a
        /\ Coded(c, plus)[3] = b
    BY <2>1, <2>2, <2>3
  <2>5. QED
    BY <1>2, <2>2, <2>4
<1>7. QED
  BY <1>4, <1>5, <1>6

LEMMA EncodedJoined ==
    ASSUME NEW s \in Seq(Octet), NEW plus \in BOOLEAN
    PROVE  /\ WordsOf(AllCoded(s, plus), Len(s), Nat)
           /\ \A f : IsEncoded(s, plus, f)
                        <=> IsJoined(AllCoded(s, plus), Len(s), f)
<1> DEFINE w == AllCoded(s, plus)
           n == Len(s)
<1>1. ASSUME NEW i \in 1..n PROVE w[i] = Coded(s[i], plus) /\ w[i] \in Seq(Nat)
  <2>1. s[i] \in Octet
    OBVIOUS
  <2>2. QED
    BY <2>1, CodedFacts DEF AllCoded
<1> HIDE DEF w
<1>2. ASSUME NEW f
      PROVE  [i \in 0..n |-> IF i = 0 THEN <<>> ELSE f[i - 1] \o Coded(s[i], plus)]
                = [i \in 0..n |-> IF i = 0 THEN <<>> ELSE f[i - 1] \o w[i]]
  <2>1. \A i \in 0..n : i # 0 => i \in 1..n
    OBVIOUS
  <2>2. QED
    BY <1>1, <2>1
<1>3. QED
  BY <1>1, <1>2 DEF WordsOf, IsEncoded, IsJoined, w

Before(c, x) == <<c>> \o x

\* What UrlDecode makes of the signs that UrlEncode wrote for a character.
LEMMA DecodesCoded ==
    ASSUME NEW c \in Octet, NEW plus \in BOOLEAN, NEW s \in Seq(Nat),
           NEW f, NEW at \in Nat, NEW w, w = Coded(c, plus),
           StandsAt(w, s, at)
    PROVE  DecodedAt(s, plus, f, Len(s) - at)
               = Before(c, f[Len(s) - (at + Len(w))])
<1> DEFINE n == Len(s) - at
<1>1. /\ w \in Seq(Nat)
      /\ \/ /\ Len(w) = 1 /\ w[1] = c
            /\ c \notin {Code!PLUS, Code!PERCENT}
         \/ /\ Len(w) = 1 /\ w[1] = Code!PLUS
            /\ c = Code!SPACE /\ plus
         \/ /\ Len(w) = 3 /\ w[1] = Code!PERCENT
            /\ Code!isxdigit(w[2]) /\ Code!isxdigit(w[3])
            /\ 16 * Code!xdigit_chars(w[2]) + Code!xdigit_chars(w[3]) = c
  BY CodedFacts
<1>2. at + Len(w) <= Len(s) /\ \A k \in 1..Len(w) : s[at + k] = w[k]
  BY DEF StandsAt
<1>3. Code!PLUS # Code!PERCENT
  BY DEF Code!PLUS, Code!PERCENT
<1>4. Len(w) \in Nat \ {0} /\ Len(s) \in Nat
  BY <1>1
<1>5. n \in Nat \ {0} /\ Len(s) + 1 - n = at + 1
  BY <1>2, <1>4
<1>6. s[at + 1] = w[1]
  BY <1>2, <1>4
<1>7. CASE Len(w) = 1 /\ w[1] = c /\ c \notin {Code!PLUS, Code!PERCENT}
  <2>1. ~(s[at + 1] = Code!PLUS /\ plus) /\ ~HexAt(s, at + 1)
    BY <1>6, <1>7 DEF HexAt
  <2>2. DecodedAt(s, plus, f, n) = <<s[at + 1]>> \o f[n - 1]
    BY <1>5, <2>1 DEF DecodedAt
  <2>3. n - 1 = Len(s) - (at + Len(w))
    BY <1>4, <1>7
  <2>4. QED
    BY <1>6, <1>7, <2>2, <2>3 DEF Before
<1>8. CASE Len(w) = 1 /\ w[1] = Code!PLUS /\ c = Code!SPACE /\ plus
  <2>1. s[at + 1] = Code!PLUS /\ plus /\ ~HexAt(s, at + 1)
    BY <1>3, <1>6, <1>8 DEF HexAt
  <2>2. DecodedAt(s, plus, f, n) = <<Code!SPACE>> \o f[n - 1]
    BY <1>5, <2>1, n > 0, n # 0 DEF DecodedAt
  <2>3. n - 1 = Len(s) - (at + Len(w))
    <3>1. Len(w) = 1
      BY <1>8
    <3>2. QED
      BY <1>4, <3>1
  <2>4. QED
    BY <1>8, <2>2, <2>3 DEF Before
<1>9. CASE /\ Len(w) = 3 /\ w[1] = Code!PERCENT
           /\ Code!isxdigit(w[2]) /\ Code!isxdigit(w[3])
           /\ 16 * Code!xdigit_chars(w[2]) + Code!xdigit_chars(w[3]) = c
  <2>1. /\ s[(at + 1) + 1] = w[2] /\ s[(at + 1) + 2] = w[3]
        /\ (at + 1) + 2 <= Len(s)
    <3>1. (at + 1) + 1 = at + 2 /\ (at + 1) + 2 = at + 3
      OBVIOUS
    <3>2. 2 \in 1..Len(w) /\ 3 \in 1..Len(w)
      BY <1>9
    <3>3. QED
      BY <1>2, <1>9, <3>1, <3>2
  <2>2. HexAt(s, at + 1)
    BY <1>6, <1>9, <2>1 DEF HexAt
  <2>3. s[at + 1] # Code!PLUS
    BY <1>3, <1>6, <1>9
  <2>4. DecodedAt(s, plus, f, n)
            = <<16 * Code!xdigit_chars(s[(at + 1) + 1])
                    + Code!xdigit_chars(s[(at + 1) + 2])>> \o f[n - 3]
    <3> DEFINE j == Len(s) + 1 - n
    <3>1. j = at + 1 /\ n > 0 /\ n # 0
      BY <1>5
    <3> HIDE DEF j, n
    <3>2. s[j] # Code!PLUS /\ HexAt(s, j)
      BY <2>2, <2>3, <3>1
    <3>3. DecodedAt(s, plus, f, n)
            = <<16 * Code!xdigit_chars(s[j + 1])
                    + Code!xdigit_chars(s[j + 2])>> \o f[n - 3]
      BY <3>1, <3>2, Zenon DEF DecodedAt, j
    <3>4. QED
      BY <3>1, <3>3
  <2>5. n - 3 = Len(s) - (at + Len(w))
    BY <1>4, <1>9
  <2>6. QED
    BY <1>9, <2>1, <2>4, <2>5 DEF Before
<1>10. QED
  BY <1>1, <1>7, <1>8, <1>9

\* Decoding undoes the encoding from the last character on.
LEMMA DecodesEncoded ==
    ASSUME NEW s \in Seq(Octet), NEW plus \in BOOLEAN, NEW f, NEW g,
           IsEncoded(s, plus, f),
           IsDecoded(f[Len(s)], plus, Len(f[Len(s)]), g)
    PROVE  g[Len(f[Len(s)])] = s
<1> DEFINE n == Len(s)
           d == f[n]
           P(i) == g[Len(d) - Len(f[i])] = SubSeq(s, i + 1, n)
           T == {m \in Nat : m <= n /\ ~P(n - m)}
           w == AllCoded(s, plus)
<1>0. n \in Nat /\ WordsOf(w, n, Nat) /\ IsJoined(w, n, f)
  BY EncodedJoined
<1> HIDE DEF w
<1>1. n \in Nat /\ f[0] = <<>> /\ \A i \in 0..n : f[i] \in Seq(Nat)
  BY <1>0, JoinedSeq
<1>2. \A i \in 1..n : /\ StandsAt(w[i], d, Len(f[i - 1]))
                      /\ Len(f[i]) = Len(f[i - 1]) + Len(w[i])
  BY ZenonT(60), <1>0, JoinedStands
<1>3. d \in Seq(Nat) /\ Len(d) \in Nat
  BY <1>1
<1>4. \A k \in 0..Len(d) : g[k] = DecodedAt(d, plus, g, k)
  BY DEF IsDecoded
<1> HIDE DEF d
<1>5. ASSUME NEW i \in 1..n, P(i) PROVE P(i - 1)
  <2>1. i \in 0..n /\ i - 1 \in 0..n
    BY <1>1
  <2> DEFINE a == f[i - 1]
             b == w[i]
             e == f[i]
             c == s[i]
             at == Len(a)
  <2>2. c \in Octet
    OBVIOUS
  <2>3. b = Coded(c, plus) /\ b \in Seq(Nat)
    BY <1>0, <1>1 DEF AllCoded, WordsOf, w
  <2>4. /\ at \in Nat /\ Len(b) \in Nat /\ Len(e) = at + Len(b)
        /\ StandsAt(b, d, at)
    <3>1. a \in Seq(Nat) /\ at \in Nat /\ Len(b) \in Nat
      BY <1>1, <2>1, <2>3
    <3>2. StandsAt(w[i], d, Len(f[i - 1])) /\ Len(f[i]) = Len(f[i - 1]) + Len(w[i])
      BY <1>2
    <3>3. QED
      BY <3>1, <3>2
  <2> HIDE DEF a, b, c, e, at
  <2>5. at + Len(b) <= Len(d)
    BY <2>4 DEF StandsAt
  <2>6. DecodedAt(d, plus, g, Len(d) - at)
            = Before(c, g[Len(d) - (at + Len(b))])
    BY <1>3, <2>2, <2>3, <2>4, DecodesCoded
  <2>7. DecodedAt(d, plus, g, Len(d) - at) = <<c>> \o g[Len(d) - (at + Len(b))]
    BY <2>6 DEF Before
  <2>8. Len(d) - at \in 0..Len(d)
    BY <1>3, <2>4, <2>5
  <2>9. g[Len(d) - at] = <<c>> \o g[Len(d) - Len(e)]
    BY <1>4, <2>4, <2>7, <2>8
  <2>10. g[Len(d) - Len(e)] = SubSeq(s, i + 1, n)
    BY <1>5 DEF e
  <2>11. <<c>> \o SubSeq(s, i + 1, n) = SubSeq(s, i, n)
    BY SubSeqFirst DEF c
  <2>12. (i - 1) + 1 = i
    BY <2>1
  <2>13. QED
    BY <2>9, <2>10, <2>11, <2>12 DEF a, at
<1>6. P(n)
  <2>1. Len(d) - Len(f[n]) = 0
    BY <1>3 DEF d
  <2>2. g[0] = DecodedAt(d, plus, g, 0)
    BY <1>3, <1>4
  <2>3. DecodedAt(d, plus, g, 0) = <<>>
    BY DEF DecodedAt
  <2>4. SubSeq(s, n + 1, n) = <<>>
    OBVIOUS
  <2>5. QED
    BY <2>1, <2>2, <2>3, <2>4
<1> HIDE DEF P
<1>7. T = {}
  <2> SUFFICES ASSUME T # {} PROVE FALSE
    OBVIOUS
  <2>1. PICK m \in T : \A y \in T : m <= y
    BY LeastNat
  <2>2. m \in Nat /\ m <= n /\ ~P(n - m)
    BY <2>1
  <2>3. m # 0
    <3>1. m = 0 => n - m = n
      BY <1>1
    <3>2. QED
      BY <1>6, <2>2, <3>1
  <2>4. m - 1 \in Nat /\ m - 1 <= n /\ m - 1 < m
    BY <1>1, <2>2, <2>3
  <2>5. P(n - (m - 1))
    BY <2>1, <2>4
  <2>6. n - (m - 1) \in 1..n /\ (n - (m - 1)) - 1 = n - m
    BY <1>1, <2>2, <2>4
  <2>7. QED
    BY <1>5, <2>2, <2>5, <2>6
<1>8. P(0)
  <2>1. n \in Nat /\ n <= n /\ n - n = 0
    BY <1>1
  <2>2. QED
    BY <1>7, <2>1
<1>9. Len(d) - Len(f[0]) = Len(d)
  BY <1>1, <1>3
<1>10. SubSeq(s, 0 + 1, n) = s
  OBVIOUS
<1>11. QED
  BY <1>8, <1>9, <1>10 DEF P, d

\* Every text, whatever its length and its characters, is what UrlDecode makes
\* of what UrlEncode made of it, with a space as "+" and without
\* (util.cpp:442-505).
THEOREM TextsSurvive == \A str \in Seq(Octet) : Code!TextRoundTrip(str)
<1> SUFFICES ASSUME NEW str \in Seq(Octet), NEW plus \in BOOLEAN
             PROVE  Code!UrlDecode(Code!UrlEncode(str, plus), plus) = str
  BY DEF Code!TextRoundTrip
<1> DEFINE f == CHOOSE h : IsEncoded(str, plus, h)
           d == f[Len(str)]
           g == CHOOSE h : IsDecoded(d, plus, Len(d), h)
<1>1. Len(str) \in Nat
  OBVIOUS
<1>2. IsEncoded(str, plus, f)
  <2>1. \E h : IsEncoded(str, plus, h)
    BY <1>1, JoinedExists, EncodedJoined
  <2>2. QED
    BY <2>1, Zenon
<1>3. Code!UrlEncode(str, plus) = d
  BY DEF Code!UrlEncode, IsEncoded, Coded
<1> HIDE DEF f
<1>4. d \in Seq(Nat)
  <2>1. Len(str) \in 0..Len(str)
    BY <1>1
  <2>2. /\ WordsOf(AllCoded(str, plus), Len(str), Nat)
        /\ IsJoined(AllCoded(str, plus), Len(str), f)
    BY <1>2, EncodedJoined
  <2>3. QED
    BY <1>1, <2>1, <2>2, JoinedSeq
<1>5. Len(d) \in Nat /\ Len(d) \in 0..Len(d)
  BY <1>4
<1> HIDE DEF d
<1>6. IsDecoded(d, plus, Len(d), g)
  BY <1>5, DecodedExists, Zenon
<1>7. Code!UrlDecode(d, plus) = g[Len(d)]
  BY DEF Code!UrlDecode, IsDecoded, DecodedAt, HexAt
<1> HIDE DEF g
<1>8. g[Len(d)] = str
  BY <1>2, <1>6, DecodesEncoded DEF d
<1>9. QED
  BY <1>3, <1>7, <1>8

-----------------------------------------------------------------------------
(* The command line *)

\* The state of the loop over the arguments while all is well, and what is in
\* the map once the key that waits for a value is in it.
Going(args, key) == [ok |-> TRUE, m_args |-> args, now_key |-> key]
Settled(args, key) ==
    IF key = Options!None THEN args ELSE Options!add(args, key, Options!None)

\* What the first n options say, each by its last occurrence.
LastOf(S) == CHOOSE i \in S : \A j \in S : j <= i
KeyAt(o, n, k) == {i \in 1..n : o[i].key = k}
Said(o, n) ==
    [k \in {o[i].key : i \in 1..n} |-> o[LastOf(KeyAt(o, n, k))].val]

KeyArg(key) == Options!Arg(TRUE, key)
ValueArg(val) == Options!Arg(FALSE, val)

\* The arguments that the options are given by, and the loop over arguments.
Words(opt) ==
    IF opt.val = Options!None THEN <<KeyArg(opt.key)>>
    ELSE <<KeyArg(opt.key), ValueArg(opt.val)>>
AllWords(o) == [i \in 1..Len(o) |-> Words(o[i])]
IsLine(o, f) ==
    f = [i \in 0..Len(o) |->
            IF i = 0 THEN <<>>
            ELSE f[i - 1] \o <<Options!Arg(TRUE, o[i].key)>>
                    \o (IF o[i].val = Options!None THEN <<>>
                        ELSE <<Options!Arg(FALSE, o[i].val)>>)]
IsLoop(s, n, f) ==
    f = [i \in 0..n |->
            IF i = 0 THEN [ok |-> TRUE, m_args |-> [k \in {} |-> Options!None],
                           now_key |-> Options!None]
            ELSE Options!Step(f[i - 1], s[i])]

\* A key settles the one before and waits; a value goes with the key that waits.
LEMMA StepKey ==
    ASSUME NEW m, NEW k, NEW key, key # Options!None
    PROVE  Options!Step(Going(m, k), KeyArg(key))
               = Going(Settled(m, k), key)
  BY DEF Options!Step, Options!Arg, Going, Settled, KeyArg

LEMMA StepValue ==
    ASSUME NEW m, NEW key, key # Options!None, NEW val
    PROVE  Options!Step(Going(m, key), ValueArg(val))
               = Going(Options!add(m, key, val), Options!None)
  BY DEF Options!Step, Options!Arg, Going, ValueArg

LEMMA SaidNone == ASSUME NEW o PROVE Said(o, 0) = [k \in {} |-> Options!None]
  BY DEF Said

LEMMA SaidMore ==
    ASSUME NEW o, NEW n \in Nat \ {0}
    PROVE  Options!add(Said(o, n - 1), o[n].key, o[n].val) = Said(o, n)
<1> DEFINE K(m) == {o[i].key : i \in 1..m}
           key == o[n].key
           val == o[n].val
<1>1. n - 1 \in Nat /\ 1..n = (1..(n - 1)) \cup {n}
  OBVIOUS
<1>2. K(n) = K(n - 1) \cup {key}
  BY <1>1
<1>3. LastOf(KeyAt(o, n, key)) = n
  <2> DEFINE S == KeyAt(o, n, key)
  <2>1. n \in S /\ \A j \in S : j \in Nat /\ j <= n
    BY DEF KeyAt
  <2> HIDE DEF S
  <2>2. LastOf(S) \in S /\ \A j \in S : j <= LastOf(S)
    BY <2>1 DEF LastOf
  <2>3. QED
    BY <2>1, <2>2 DEF S
<1>4. ASSUME NEW k, k # key
      PROVE  KeyAt(o, n, k) = KeyAt(o, n - 1, k)
  BY <1>1, <1>4 DEF KeyAt
<1>5. DOMAIN Said(o, n - 1) = K(n - 1)
  BY DEF Said
<1>6. ASSUME NEW k \in K(n), k # key
      PROVE  Said(o, n - 1)[k] = Said(o, n)[k]
  <2>1. k \in K(n - 1)
    BY <1>2, <1>6
  <2> HIDE DEF K
  <2>2. Said(o, n - 1)[k] = o[LastOf(KeyAt(o, n - 1, k))].val
    BY <2>1 DEF Said, K
  <2>3. Said(o, n)[k] = o[LastOf(KeyAt(o, n, k))].val
    BY <1>6 DEF Said, K
  <2>4. QED
    BY <1>4, <1>6, <2>2, <2>3
<1>7. Said(o, n)[key] = val
  <2>1. key \in K(n)
    BY <1>2
  <2>2. QED
    BY <1>3, <2>1 DEF Said
<1>8. Said(o, n) = [k \in K(n) |-> Said(o, n)[k]]
  BY DEF Said
<1> HIDE DEF K, key, val
<1>9. Options!add(Said(o, n - 1), key, val)
        = [k \in K(n) |-> IF k = key THEN val ELSE Said(o, n - 1)[k]]
  BY <1>2, <1>5 DEF Options!add
<1>10. QED
  BY <1>6, <1>7, <1>8, <1>9 DEF key, val

LEMMA LoopExists ==
    ASSUME NEW s
    PROVE  \A n \in Nat : \E f : IsLoop(s, n, f)
<1> DEFINE T == {n \in Nat : ~\E f : IsLoop(s, n, f)}
           a == [ok |-> TRUE, m_args |-> [k \in {} |-> Options!None],
                 now_key |-> Options!None]
           next(x, y) == Options!Step(x, y)
<1> SUFFICES ASSUME T # {} PROVE FALSE
  OBVIOUS
<1>0. ASSUME NEW n, NEW f
      PROVE  IsLoop(s, n, f) <=>
                f = [i \in 0..n |-> IF i = 0 THEN a ELSE next(f[i - 1], s[i])]
  BY DEF IsLoop
<1> HIDE DEF a, next
<1>1. PICK n \in T : \A y \in T : n <= y
  BY LeastNat
<1>2. n # 0
  <2> DEFINE h == [i \in 0..0 |-> a]
  <2>1. h = [i \in 0..0 |-> IF i = 0 THEN a ELSE next(h[i - 1], s[i])]
    OBVIOUS
  <2> HIDE DEF h
  <2>2. IsLoop(s, 0, h)
    BY <1>0, <2>1
  <2>3. QED
    BY <1>1, <2>2
<1>3. n - 1 \in Nat /\ n \in Nat
  BY <1>1, <1>2
<1>4. PICK f : IsLoop(s, n - 1, f)
  BY <1>1, <1>3
<1> DEFINE g == [i \in 0..n |-> IF i = n THEN next(f[n - 1], s[n]) ELSE f[i]]
<1>5. ASSUME NEW i \in 0..n
      PROVE  g[i] = IF i = 0 THEN a ELSE next(g[i - 1], s[i])
  <2>1. i = n \/ i \in 0..(n - 1)
    BY <1>3
  <2>2. \A j \in 0..(n - 1) : j \in 0..n /\ j # n
    BY <1>3
  <2>3. \A j \in 0..(n - 1) : g[j] = f[j]
    BY <2>2
  <2>4. i # 0 => i - 1 \in 0..(n - 1)
    BY <1>3
  <2>5. CASE i = n
    <3>1. g[i] = next(f[n - 1], s[n])
      BY <2>5
    <3>2. g[n - 1] = f[n - 1]
      BY <1>2, <2>3, <2>4, <2>5
    <3> HIDE DEF g
    <3>3. QED
      BY <1>2, <2>5, <3>1, <3>2
  <2>6. CASE i \in 0..(n - 1)
    <3>1. f = [j \in 0..(n - 1) |-> IF j = 0 THEN a ELSE next(f[j - 1], s[j])]
      BY <1>0, <1>4
    <3>2. f[i] = IF i = 0 THEN a ELSE next(f[i - 1], s[i])
      BY <2>6, <3>1
    <3> HIDE DEF g
    <3>3. QED
      BY <2>3, <2>4, <2>6, <3>2
  <2>7. QED
    BY <2>1, <2>5, <2>6
<1>6. g = [i \in 0..n |-> IF i = 0 THEN a ELSE next(g[i - 1], s[i])]
  <2>1. g = [i \in 0..n |-> g[i]]
    OBVIOUS
  <2> HIDE DEF g
  <2>2. QED
    BY <1>5, <2>1
<1> HIDE DEF g
<1>7. IsLoop(s, n, g)
  BY <1>0, <1>6
<1>8. QED
  BY <1>1, <1>7

LEMMA LoopSteps ==
    ASSUME NEW s, NEW n \in Nat, NEW f, IsLoop(s, n, f)
    PROVE  /\ f[0] = Going([k \in {} |-> Options!None], Options!None)
           /\ \A i \in Nat : i + 1 <= n => f[i + 1] = Options!Step(f[i], s[i + 1])
<1>1. f[0] = Going([k \in {} |-> Options!None], Options!None)
  BY DEF IsLoop, Going
<1>2. ASSUME NEW i \in Nat, i + 1 <= n
      PROVE  f[i + 1] = Options!Step(f[i], s[i + 1])
  <2>1. i + 1 \in 0..n /\ i + 1 # 0 /\ (i + 1) - 1 = i
    BY <1>2
  <2> DEFINE j == i + 1
  <2>2. f[j] = Options!Step(f[j - 1], s[j])
    <3> HIDE DEF j
    <3>1. j \in 0..n /\ j # 0
      BY <2>1 DEF j
    <3>2. QED
      BY <3>1 DEF IsLoop
  <2>3. QED
    BY <2>1, <2>2
<1>3. QED
  BY <1>1, <1>2

\* An option is one word or two.
LEMMA WordsFacts ==
    ASSUME NEW opt, NEW S, KeyArg(opt.key) \in S,
           ValueArg(opt.val) \in S
    PROVE  /\ Words(opt) \in Seq(S) /\ Len(Words(opt)) \in {1, 2}
           /\ Words(opt)[1] = KeyArg(opt.key)
           /\ opt.val = Options!None => Len(Words(opt)) = 1
           /\ opt.val # Options!None =>
                /\ Len(Words(opt)) = 2
                /\ Words(opt)[2] = ValueArg(opt.val)
<1> DEFINE x == KeyArg(opt.key)
           y == ValueArg(opt.val)
<1>1. Words(opt) = IF opt.val = Options!None THEN <<x>> ELSE <<x, y>>
  BY DEF Words
<1>2. x \in S /\ y \in S
  OBVIOUS
<1> HIDE DEF x, y
<1>3. CASE opt.val = Options!None
  <2>1. /\ Words(opt) \in Seq(S) /\ Len(Words(opt)) = 1 /\ Words(opt)[1] = x
    BY <1>1, <1>2, <1>3
  <2>2. QED
    BY <1>3, <2>1 DEF x
<1>4. CASE opt.val # Options!None
  <2>1. /\ Words(opt) \in Seq(S) /\ Len(Words(opt)) = 2 /\ Words(opt)[1] = x
        /\ Words(opt)[2] = y
    BY <1>1, <1>2, <1>4
  <2>2. QED
    BY <1>4, <2>1 DEF x, y
<1>5. QED
  BY <1>3, <1>4

\* After the words of an option the map, with the key that waits, says what it
\* said before and this option.
LEMMA LoopOption ==
    ASSUME NEW s, NEW n \in Nat, NEW f, IsLoop(s, n, f), Len(s) = n,
           NEW opt, opt.key # Options!None, NEW at \in Nat,
           StandsAt(Words(opt), s, at),
           NEW m, NEW k, f[at] = Going(m, k)
    PROVE  \E m2, k2 :
                /\ f[at + Len(Words(opt))] = Going(m2, k2)
                /\ Settled(m2, k2)
                        = Options!add(Settled(m, k), opt.key, opt.val)
<1> DEFINE w == Words(opt)
           S == {KeyArg(opt.key), ValueArg(opt.val)}
<1>1. /\ w \in Seq(S) /\ Len(w) \in {1, 2} /\ w[1] = KeyArg(opt.key)
      /\ opt.val = Options!None => Len(w) = 1
      /\ opt.val # Options!None =>
            Len(w) = 2 /\ w[2] = ValueArg(opt.val)
  BY SMTT(60), WordsFacts
<1>2. at + Len(w) <= n /\ \A i \in 1..Len(w) : s[at + i] = w[i]
  BY DEF StandsAt
<1> HIDE DEF w, S
<1>3. f[at + 1] = Going(Settled(m, k), opt.key)
  <2>1. at + 1 <= n /\ s[at + 1] = w[1]
    BY <1>1, <1>2
  <2>2. f[at + 1] = Options!Step(Going(m, k), KeyArg(opt.key))
    BY <1>1, <2>1, LoopSteps
  <2>3. QED
    BY <2>2, StepKey
<1>4. CASE opt.val = Options!None
  <2>1. Len(w) = 1
    BY <1>1, <1>4
  <2>2. Settled(Settled(m, k), opt.key)
            = Options!add(Settled(m, k), opt.key, opt.val)
    BY <1>4 DEF Settled
  <2>3. QED
    BY <1>3, <2>1, <2>2 DEF w
<1>5. CASE opt.val # Options!None
  <2>1. Len(w) = 2 /\ w[2] = ValueArg(opt.val)
    BY <1>1, <1>5
  <2>2. (at + 1) + 1 <= n /\ s[(at + 1) + 1] = w[2] /\ at + 1 \in Nat
    <3>1. (at + 1) + 1 = at + 2
      OBVIOUS
    <3>2. QED
      BY <1>2, <2>1, <3>1
  <2>3. f[(at + 1) + 1]
            = Options!Step(Going(Settled(m, k), opt.key),
                           ValueArg(opt.val))
    BY <1>3, <2>1, <2>2, LoopSteps
  <2> DEFINE m2 == Options!add(Settled(m, k), opt.key, opt.val)
  <2>4. f[(at + 1) + 1] = Going(m2, Options!None)
    BY <2>3, StepValue
  <2>5. Settled(m2, Options!None) = m2
    BY DEF Settled
  <2>6. (at + 1) + 1 = at + Len(w)
    BY <2>1
  <2> HIDE DEF m2
  <2>7. f[at + Len(w)] = Going(m2, Options!None)
    BY <2>4, <2>6
  <2>8. QED
    BY <2>5, <2>7 DEF m2, w
<1>6. QED
  BY <1>4, <1>5

\* The strings; the provers do not know that these are.
OptionText == STRING \cup {Options!None, "c", "d", "v"}
OptionSet == [key : OptionText \ {Options!None}, val : OptionText]
Argument == [dash : BOOLEAN, text : OptionText]

LEMMA OptionFacts ==
    ASSUME NEW opt \in OptionSet
    PROVE  /\ opt.key # Options!None
           /\ KeyArg(opt.key) \in Argument /\ ValueArg(opt.val) \in Argument
  BY DEF OptionSet, Argument, KeyArg, ValueArg, Options!Arg

\* The command line is the words of the options joined.
LEMMA LineJoined ==
    ASSUME NEW o \in Seq(OptionSet)
    PROVE  /\ WordsOf(AllWords(o), Len(o), Argument)
           /\ \A f : IsLine(o, f) <=> IsJoined(AllWords(o), Len(o), f)
<1> DEFINE w == AllWords(o)
           n == Len(o)
           x(i) == KeyArg(o[i].key)
           y(i) == ValueArg(o[i].val)
           tail(i) == IF o[i].val = Options!None THEN <<>> ELSE <<y(i)>>
<1>1. ASSUME NEW i \in 1..n
      PROVE  /\ o[i] \in OptionSet /\ w[i] = Words(o[i]) /\ w[i] \in Seq(Argument)
             /\ x(i) \in Argument /\ y(i) \in Argument
  <2>1. o[i] \in OptionSet
    OBVIOUS
  <2>2. x(i) \in Argument /\ y(i) \in Argument
    BY <2>1, OptionFacts
  <2>3. Words(o[i]) \in Seq(Argument)
    BY <2>2, WordsFacts
  <2>4. QED
    BY <2>1, <2>2, <2>3 DEF AllWords
<1>2. ASSUME NEW i \in 1..n, NEW a \in Seq(Argument)
      PROVE  (a \o <<x(i)>>) \o tail(i) = a \o w[i]
  <2>1. /\ (a \o <<x(i)>>) \o <<>> = a \o <<x(i)>>
        /\ (a \o <<x(i)>>) \o <<y(i)>> = a \o <<x(i), y(i)>>
    <3> HIDE DEF x, y
    <3>1. QED
      BY <1>1, Associates
  <2>2. w[i] = IF o[i].val = Options!None THEN <<x(i)>> ELSE <<x(i), y(i)>>
    BY <1>1 DEF Words
  <2> HIDE DEF x, y, w
  <2>3. QED
    BY <2>1, <2>2
<1>3. ASSUME NEW f
      PROVE  IsLine(o, f) <=>
                f = [i \in 0..n |-> IF i = 0 THEN <<>>
                                    ELSE (f[i - 1] \o <<x(i)>>) \o tail(i)]
  BY DEF IsLine, KeyArg, ValueArg
<1> HIDE DEF x, y, tail, w
<1>4. WordsOf(w, n, Argument)
  BY <1>1 DEF WordsOf
<1>5. ASSUME NEW f, \A i \in 0..n : f[i] \in Seq(Argument)
      PROVE  [i \in 0..n |-> IF i = 0 THEN <<>>
                             ELSE (f[i - 1] \o <<x(i)>>) \o tail(i)]
                = [i \in 0..n |-> IF i = 0 THEN <<>> ELSE f[i - 1] \o w[i]]
  <2>1. \A i \in 0..n : i # 0 => i \in 1..n /\ i - 1 \in 0..n
    OBVIOUS
  <2>2. \A i \in 0..n : i # 0 =>
            (f[i - 1] \o <<x(i)>>) \o tail(i) = f[i - 1] \o w[i]
    BY <1>2, <1>5, <2>1
  <2>3. QED
    BY <2>2
<1>6. ASSUME NEW f, IsJoined(w, n, f) PROVE IsLine(o, f)
  <2>1. \A i \in 0..n : f[i] \in Seq(Argument)
    BY <1>4, <1>6, JoinedSeq
  <2>2. f = [i \in 0..n |-> IF i = 0 THEN <<>>
                            ELSE (f[i - 1] \o <<x(i)>>) \o tail(i)]
    BY <1>5, <1>6, <2>1 DEF IsJoined
  <2>3. QED
    BY <1>3, <2>2
<1>7. ASSUME NEW f, IsLine(o, f) PROVE IsJoined(w, n, f)
  <2> DEFINE T == {m \in Nat : m <= n /\ f[m] \notin Seq(Argument)}
  <2>1. f = [i \in 0..n |-> IF i = 0 THEN <<>>
                            ELSE (f[i - 1] \o <<x(i)>>) \o tail(i)]
    BY <1>3, <1>7
  <2>2. f[0] = <<>>
    BY <2>1
  <2>3. T = {}
    <3> SUFFICES ASSUME T # {} PROVE FALSE
      OBVIOUS
    <3>1. PICK m \in T : \A z \in T : m <= z
      BY LeastNat
    <3>2. m # 0
      <4>1. <<>> \in Seq(Argument)
        OBVIOUS
      <4>2. f[m] \notin Seq(Argument)
        BY <3>1
      <4>3. QED
        BY <2>2, <4>1, <4>2, Zenon
    <3>3. m \in 1..n /\ m \in 0..n /\ m - 1 \in Nat /\ m - 1 <= n /\ m - 1 < m
      BY <3>1, <3>2
    <3>4. f[m - 1] \in Seq(Argument)
      BY <3>1, <3>3
    <3>5. f[m] = (f[m - 1] \o <<x(m)>>) \o tail(m)
      BY <2>1, <3>2, <3>3
    <3>6. f[m] = f[m - 1] \o w[m]
      BY <1>2, <3>3, <3>4, <3>5
    <3>7. f[m - 1] \o w[m] \in Seq(Argument)
      BY <1>1, <3>3, <3>4
    <3>8. QED
      BY <3>1, <3>6, <3>7
  <2>4. \A i \in 0..n : f[i] \in Seq(Argument)
    <3>1. \A i \in 0..n : i \in Nat /\ i <= n
      OBVIOUS
    <3>2. QED
      BY <2>3, <3>1
  <2>5. QED
    BY <1>5, <2>1, <2>4 DEF IsJoined
<1>8. QED
  BY <1>4, <1>6, <1>7 DEF w

\* After all the words the map says what all the options say.
LEMMA LoopSays ==
    ASSUME NEW o \in Seq(OptionSet), NEW f, IsLine(o, f),
           NEW g, IsLoop(f[Len(o)], Len(f[Len(o)]), g)
    PROVE  \E m, k : /\ g[Len(f[Len(o)])] = Going(m, k)
                     /\ Settled(m, k) = Said(o, Len(o))
<1> DEFINE n == Len(o)
           d == f[n]
           w == AllWords(o)
           P(i) == \E m, k : /\ g[Len(f[i])] = Going(m, k)
                             /\ Settled(m, k) = Said(o, i)
           T == {i \in Nat : i <= n /\ ~P(i)}
<1>1. n \in Nat /\ WordsOf(w, n, Argument) /\ IsJoined(w, n, f)
  BY LineJoined
<1>2. ASSUME NEW i \in 1..n PROVE w[i] = Words(o[i]) /\ o[i] \in OptionSet
  BY DEF AllWords
<1> HIDE DEF w
<1>3. f[0] = <<>> /\ \A i \in 0..n : f[i] \in Seq(Argument)
  BY <1>1, JoinedSeq
<1>4. \A i \in 1..n : /\ StandsAt(w[i], d, Len(f[i - 1]))
                      /\ Len(f[i]) = Len(f[i - 1]) + Len(w[i])
  BY ZenonT(60), <1>1, JoinedStands
<1>5. d \in Seq(Argument) /\ Len(d) \in Nat /\ IsLoop(d, Len(d), g)
  BY <1>1, <1>3
<1> HIDE DEF d
<1>6. P(0)
  <2>1. Len(f[0]) = 0
    BY <1>3
  <2>2. g[0] = Going([k \in {} |-> Options!None], Options!None)
    BY <1>5, LoopSteps
  <2>3. Settled([k \in {} |-> Options!None], Options!None) = Said(o, 0)
    BY SaidNone DEF Settled
  <2>4. QED
    BY <2>1, <2>2, <2>3
<1>7. ASSUME NEW i \in 1..n, P(i - 1) PROVE P(i)
  <2> DEFINE at == Len(f[i - 1])
             opt == o[i]
  <2>1. PICK m, k : g[at] = Going(m, k) /\ Settled(m, k) = Said(o, i - 1)
    BY <1>7
  <2>2. at \in Nat /\ opt \in OptionSet /\ i \in Nat \ {0}
    BY <1>1, <1>2, <1>3
  <2>3. StandsAt(Words(opt), d, at) /\ Len(f[i]) = at + Len(Words(opt))
    BY <1>2, <1>4
  <2>4. opt.key # Options!None
    BY <2>2, OptionFacts
  <2>5. Options!add(Said(o, i - 1), opt.key, opt.val) = Said(o, i)
    BY <2>2, SaidMore
  <2> HIDE DEF at, opt
  <2>6. PICK m2, k2 :
            /\ g[at + Len(Words(opt))] = Going(m2, k2)
            /\ Settled(m2, k2) = Options!add(Settled(m, k), opt.key, opt.val)
    BY <1>5, <2>1, <2>2, <2>3, <2>4, LoopOption
  <2>7. g[Len(f[i])] = Going(m2, k2) /\ Settled(m2, k2) = Said(o, i)
    BY <2>1, <2>3, <2>5, <2>6
  <2>8. QED
    BY <2>7
<1> HIDE DEF P
<1>8. T = {}
  <2> SUFFICES ASSUME T # {} PROVE FALSE
    OBVIOUS
  <2>1. PICK i \in T : \A y \in T : i <= y
    BY LeastNat
  <2>2. i # 0
    BY <1>6, <2>1
  <2>3. i \in 1..n /\ i - 1 \in Nat /\ i - 1 <= n /\ i - 1 < i
    BY <1>1, <2>1, <2>2
  <2>4. P(i - 1)
    BY <2>1, <2>3
  <2>5. QED
    BY <1>7, <2>1, <2>3, <2>4
<1>9. P(n)
  <2>1. n <= n
    BY <1>1
  <2>2. QED
    BY <1>1, <1>8, <2>1
<1>10. QED
  BY <1>9 DEF P, d

\* Whatever the options on the command line, however many, with a value or
\* without, Env::init keeps each with the value of its last occurrence
\* (env.cc:19-59).
THEOREM CommandLineKept ==
    \A options \in Seq(OptionSet) : Options!OptionsKept(options)
<1> TAKE o \in Seq(OptionSet)
<1> DEFINE f == CHOOSE h : IsLine(o, h)
           d == f[Len(o)]
           g == CHOOSE h : IsLoop(d, Len(d), h)
<1>1. Len(o) \in Nat
  OBVIOUS
<1>2. IsLine(o, f)
  <2>1. \E h : IsLine(o, h)
    BY <1>1, JoinedExists, LineJoined
  <2>2. QED
    BY <2>1, Zenon
<1> DEFINE argv == CHOOSE h : h =
               [i \in 0..Len(o) |->
                    IF i = 0 THEN <<>>
                    ELSE h[i - 1] \o <<Options!Arg(TRUE, o[i].key)>>
                            \o (IF o[i].val = Options!None THEN <<>>
                                ELSE <<Options!Arg(FALSE, o[i].val)>>)]
<1>3. argv = f
  BY DEF IsLine
<1>4. Options!OptionsKept(o) <=>
        Options!init(argv[Len(o)]) = [ok |-> TRUE, m_args |-> Said(o, Len(o))]
  BY DEF Options!OptionsKept, Said, LastOf, KeyAt
<1> HIDE DEF f, argv
<1>5. Len(d) \in Nat
  <2>1. Len(o) \in 0..Len(o)
    BY <1>1
  <2>2. /\ WordsOf(AllWords(o), Len(o), Argument)
        /\ IsJoined(AllWords(o), Len(o), f)
    BY <1>2, LineJoined
  <2>3. d \in Seq(Argument)
    BY <1>1, <2>1, <2>2, JoinedSeq
  <2>4. QED
    BY <2>3
<1>6. IsLoop(d, Len(d), g)
  BY <1>5, LoopExists, Zenon
<1> HIDE DEF d
<1>7. PICK m, k : g[Len(d)] = Going(m, k) /\ Settled(m, k) = Said(o, Len(o))
  <2> HIDE DEF g
  <2>1. QED
    BY <1>2, <1>6, LoopSays DEF d
<1>8. Options!init(d)
        = [ok |-> g[Len(d)].ok,
           m_args |-> IF g[Len(d)].ok /\ g[Len(d)].now_key # Options!None
                      THEN Options!add(g[Len(d)].m_args, g[Len(d)].now_key,
                                       Options!None)
                      ELSE g[Len(d)].m_args]
  BY DEF Options!init, IsLoop
<1> HIDE DEF g
<1>9. Options!init(d) = [ok |-> TRUE, m_args |-> Settled(m, k)]
  <2>1. /\ g[Len(d)].ok = TRUE /\ g[Len(d)].m_args = m
        /\ g[Len(d)].now_key = k
    BY <1>7 DEF Going
  <2>2. QED
    BY <1>8, <2>1 DEF Settled
<1>10. QED
  BY <1>3, <1>4, <1>7, <1>9 DEF d

-----------------------------------------------------------------------------
(* A host and its port *)

LEMMA FirstOf ==
    ASSUME NEW s, NEW c, NEW i \in Nat, i \in Addr!Places(s, c),
           \A j \in Addr!Places(s, c) : j \in Nat /\ i <= j
    PROVE  Addr!First(s, c) = i
<1> DEFINE S == Addr!Places(s, c)
<1>1. Addr!First(s, c) = CHOOSE k \in S : \A j \in S : k <= j
  BY DEF Addr!First
<1> HIDE DEF S
<1>2. i \in S /\ \A j \in S : j \in Nat /\ i <= j
  BY DEF S
<1>3. /\ Addr!First(s, c) \in S
      /\ \A j \in S : Addr!First(s, c) <= j
  BY <1>1, <1>2
<1> DEFINE f == Addr!First(s, c)
<1>4. f \in Nat /\ i <= f /\ f <= i
  BY <1>2, <1>3
<1> HIDE DEF f
<1>5. f = i
  BY <1>4
<1>6. QED
  BY <1>5 DEF f

\* Within brackets: the node ends at the first closing bracket, and the text
\* after the colon that follows is the service.
LEMMA LookupBracketed ==
    ASSUME NEW S, NEW h \in Seq(S), NEW e \in 3..Len(h), h[1] = "[", h[e] = "]",
           \A j \in 1..(e - 1) : h[j] # "]",
           NEW node, node = SubSeq(h, 2, e - 1)
    PROVE  /\ e = Len(h) =>
                Addr!Lookup(h) = [node |-> node, service |-> Addr!Nothing]
           /\ \A port :
                e < Len(h) /\ h[e + 1] = ":" /\ port = SubSeq(h, e + 2, Len(h)) =>
                    Addr!Lookup(h) = [node |-> node, service |-> port]
<1>1. e \in Addr!Places(h, "]") /\ h # <<>>
  BY DEF Addr!Places
<1>2. \A j \in Addr!Places(h, "]") : j \in Nat /\ e <= j
  BY DEF Addr!Places
<1>3. Addr!First(h, "]") = e
  BY <1>1, <1>2, FirstOf
<1>4. node # <<>>
  <2>1. Len(node) = e - 2
    OBVIOUS
  <2>2. QED
    BY <2>1
<1>5. Addr!Lookup(h) =
          [node |-> node, service |-> IF e < Len(h) /\ h[e + 1] = ":"
                                      THEN SubSeq(h, e + 2, Len(h))
                                      ELSE Addr!Nothing]
  BY <1>1, <1>3, <1>4 DEF Addr!Lookup
<1>6. ASSUME e = Len(h)
      PROVE  Addr!Lookup(h) = [node |-> node, service |-> Addr!Nothing]
  <2>1. ~(e < Len(h))
    BY <1>6
  <2>2. QED
    BY <1>5, <2>1
<1>7. ASSUME NEW port, e < Len(h), h[e + 1] = ":", port = SubSeq(h, e + 2, Len(h))
      PROVE  Addr!Lookup(h) = [node |-> node, service |-> port]
  BY <1>5, <1>7
<1>8. QED
  BY <1>6, <1>7

\* Without a bracket at the beginning: one colon parts the node from the
\* service, and without a colon all is node.
LEMMA LookupPlain ==
    ASSUME NEW S, NEW h \in Seq(S), h # <<>>, h[1] # "["
    PROVE  /\ Addr!Places(h, ":") = {} =>
                Addr!Lookup(h) = [node |-> h, service |-> Addr!Nothing]
           /\ \A c \in 2..Len(h) : Addr!Places(h, ":") = {c} =>
                Addr!Lookup(h) = [node |-> SubSeq(h, 1, c - 1),
                                  service |-> SubSeq(h, c + 1, Len(h))]
<1>1. ASSUME Addr!Places(h, ":") = {}
      PROVE  Addr!Lookup(h) = [node |-> h, service |-> Addr!Nothing]
  BY <1>1 DEF Addr!Lookup
<1>2. ASSUME NEW c \in 2..Len(h), Addr!Places(h, ":") = {c}
      PROVE  Addr!Lookup(h) = [node |-> SubSeq(h, 1, c - 1),
                               service |-> SubSeq(h, c + 1, Len(h))]
  <2>1. Addr!First(h, ":") = c
    BY <1>2, FirstOf
  <2>2. SubSeq(h, 1, c - 1) # <<>>
    <3>1. Len(SubSeq(h, 1, c - 1)) = c - 1
      OBVIOUS
    <3>2. QED
      BY <3>1
  <2>3. QED
    BY <1>2, <2>1, <2>2 DEF Addr!Lookup
<1>3. QED
  BY <1>1, <1>2

\* A name without brackets, with a port that has no colon, in the form that
\* Address::Lookup expects, is taken apart into the name and the port
\* (address.cc:69-93), however long the two are.
THEOREM HostsSplit ==
    ASSUME NEW S, {"[", "]", ":"} \subseteq S,
           NEW node \in Seq(S) \ {<<>>}, NEW port \in Seq(S),
           Addr!Places(node, "[") = {}, Addr!Places(node, "]") = {},
           Addr!Places(port, ":") = {}
    PROVE  Addr!LookupSplits(node, port)
<1> DEFINE n == Len(node)
           p == Len(port)
<1>1. n \in Nat \ {0} /\ p \in Nat /\ node \in Seq(S)
  OBVIOUS
<1>2. /\ \A j \in 1..n : node[j] # "[" /\ node[j] # "]"
      /\ \A j \in 1..p : port[j] # ":"
  BY DEF Addr!Places
<1>3. CASE Addr!Places(node, ":") # {}
  <2> DEFINE a == <<"[">> \o node
             b == a \o <<"]">>
             c == b \o <<":">>
             h == c \o port
  <2>1. /\ <<"[">> \in Seq(S) /\ <<"]">> \in Seq(S) /\ <<":">> \in Seq(S)
        /\ Len(<<"[">>) = 1 /\ Len(<<"]">>) = 1 /\ Len(<<":">>) = 1
    OBVIOUS
  <2>2. /\ a \in Seq(S) /\ Len(a) = n + 1 /\ a[1] = "["
        /\ \A j \in 1..n : a[1 + j] = node[j]
    BY <2>1
  <2> HIDE DEF a
  <2>3. /\ b \in Seq(S) /\ Len(b) = n + 2 /\ b[n + 2] = "]"
        /\ \A j \in 1..(n + 1) : b[j] = a[j]
    BY <1>1, <2>1, <2>2
  <2> HIDE DEF b
  <2>4. /\ c \in Seq(S) /\ Len(c) = n + 3 /\ c[n + 3] = ":"
        /\ \A j \in 1..(n + 2) : c[j] = b[j]
    BY <1>1, <2>1, <2>3
  <2> HIDE DEF c
  <2>5. /\ h \in Seq(S) /\ Len(h) = (n + 3) + p
        /\ \A j \in 1..(n + 3) : h[j] = c[j]
        /\ \A j \in 1..p : h[(n + 3) + j] = port[j]
    <3>1. h = c \o port
      OBVIOUS
    <3> HIDE DEF h
    <3>2. /\ h \in Seq(S) /\ Len(h) = Len(c) + Len(port)
          /\ \A j \in 1..Len(c) : h[j] = c[j]
          /\ \A j \in 1..Len(port) : h[Len(c) + j] = port[j]
      <4>1. c \in Seq(S)
        BY <2>4
      <4>2. QED
        BY <4>1, <3>1
    <3>3. QED
      BY <2>4, <3>2
  <2> HIDE DEF h
  <2>6. \A j \in 1..(n + 1) : a[j] # "]"
    <3> TAKE j \in 1..(n + 1)
    <3>1. j = 1 \/ (j - 1 \in 1..n /\ 1 + (j - 1) = j)
      BY <1>1
    <3>2. QED
      BY ZenonT(60), <1>2, <2>2, <3>1
  <2>7. /\ b[1] = "[" /\ \A j \in 1..(n + 1) : b[j] # "]"
        /\ \A j \in 1..n : b[1 + j] = node[j]
    BY <1>1, <2>2, <2>3, <2>6
  <2>8. /\ h[1] = "[" /\ h[n + 2] = "]" /\ h[n + 3] = ":"
        /\ \A j \in 1..(n + 1) : h[j] # "]"
        /\ \A j \in 1..n : h[1 + j] = node[j]
    <3>1. /\ 1 \in 1..(n + 2) /\ n + 2 \in 1..(n + 2) /\ n + 3 \in 1..(n + 3)
          /\ \A j \in 1..(n + 2) : j \in 1..(n + 3)
          /\ \A j \in 1..(n + 1) : j \in 1..(n + 2)
          /\ \A j \in 1..n : 1 + j \in 1..(n + 2)
      BY <1>1
    <3>2. \A j \in 1..(n + 2) : h[j] = b[j]
      BY <2>4, <2>5, <3>1
    <3>3. h[n + 3] = ":"
      BY <2>4, <2>5, <3>1
    <3>4. QED
      BY <2>3, <2>7, <3>1, <3>2, <3>3
  <2>9. SubSeq(b, 2, n + 1) = node
    <3>1. StandsAt(node, b, 1)
      BY <1>1, <2>3, <2>7 DEF StandsAt
    <3>2. 2 = 1 + 1 /\ n + 1 = 1 + Len(node) /\ 1 \in Nat /\ node \in Seq(S)
      BY <1>1
    <3>3. b \in Seq(S)
      BY <2>3
    <3>4. QED
      BY <3>1, <3>2, <3>3, SubSeqStands
  <2>10. SubSeq(h, 2, n + 1) = node
    <3>1. StandsAt(node, h, 1)
      BY <1>1, <2>5, <2>8 DEF StandsAt
    <3>2. QED
      BY <1>1, <2>5, <3>1, SubSeqStands
  <2>11. SubSeq(h, n + 4, Len(h)) = port
    <3>1. StandsAt(port, h, n + 3)
      BY <1>1, <2>5 DEF StandsAt
    <3>2. n + 3 \in Nat /\ n + 4 = (n + 3) + 1
      BY <1>1
    <3>3. QED
      BY <1>1, <2>5, <3>1, <3>2, SubSeqStands
  <2> DEFINE e == n + 2
  <2>12. e \in 3..Len(b) /\ e \in 3..Len(h) /\ e - 1 = n + 1 /\ e + 1 = n + 3
         /\ e + 2 = n + 4 /\ ~(e < Len(b)) /\ e < Len(h)
    BY <1>1, <2>3, <2>5
  <2> HIDE DEF e, n, p
  <2>13. Addr!Lookup(b) = [node |-> node, service |-> Addr!Nothing]
    <3>1. b[e] = "]" /\ \A j \in 1..(e - 1) : b[j] # "]"
      BY <2>3, <2>7, <2>12 DEF e
    <3>2. node = SubSeq(b, 2, e - 1) /\ e = Len(b) /\ e \in 3..Len(b)
      BY <2>3, <2>9, <2>12 DEF e
    <3>3. b \in Seq(S) /\ b[1] = "["
      BY <2>3, <2>7
    <3>4. QED
      BY <3>1, <3>2, <3>3, LookupBracketed
  <2>14. Addr!Lookup(h) = [node |-> node, service |-> port]
    <3>1. h[e] = "]" /\ h[e + 1] = ":" /\ \A j \in 1..(e - 1) : h[j] # "]"
      BY <2>8, <2>12 DEF e
    <3>2. /\ node = SubSeq(h, 2, e - 1) /\ port = SubSeq(h, e + 2, Len(h))
          /\ e \in 3..Len(h) /\ e < Len(h)
      BY <2>10, <2>11, <2>12
    <3>3. h \in Seq(S) /\ h[1] = "["
      BY <2>5, <2>8
    <3>4. QED
      BY <3>1, <3>2, <3>3, LookupBracketed
  <2>15. QED
    BY <1>3, <2>13, <2>14 DEF Addr!LookupSplits, a, b, c, h
<1>4. CASE Addr!Places(node, ":") = {}
  <2> DEFINE c == node \o <<":">>
             h == c \o port
  <2>1. <<":">> \in Seq(S) /\ Len(<<":">>) = 1
    OBVIOUS
  <2>2. /\ c \in Seq(S) /\ Len(c) = n + 1 /\ c[n + 1] = ":"
        /\ \A j \in 1..n : c[j] = node[j]
    BY <1>1, <2>1
  <2> HIDE DEF c
  <2>3. /\ h \in Seq(S) /\ Len(h) = (n + 1) + p
        /\ \A j \in 1..(n + 1) : h[j] = c[j]
        /\ \A j \in 1..p : h[(n + 1) + j] = port[j]
    <3>1. h = c \o port
      OBVIOUS
    <3> HIDE DEF h
    <3>2. /\ h \in Seq(S) /\ Len(h) = Len(c) + Len(port)
          /\ \A j \in 1..Len(c) : h[j] = c[j]
          /\ \A j \in 1..Len(port) : h[Len(c) + j] = port[j]
      <4>1. c \in Seq(S)
        BY <2>2
      <4>2. QED
        BY <4>1, <3>1
    <3>3. QED
      BY <2>2, <3>2
  <2> HIDE DEF h
  <2>4. h[n + 1] = ":" /\ \A j \in 1..n : h[j] = node[j]
    BY <1>1, <2>2, <2>3
  <2>5. \A j \in 1..n : node[j] # ":"
    BY <1>4 DEF Addr!Places
  <2>6. Addr!Places(h, ":") = {n + 1}
    <3>1. ASSUME NEW j \in 1..Len(h), j # n + 1 PROVE h[j] # ":"
      <4>1. j \in 1..n \/ (j - (n + 1) \in 1..p /\ (n + 1) + (j - (n + 1)) = j)
        BY <1>1, <2>3, <3>1
      <4>2. CASE j \in 1..n
        BY <2>4, <2>5, <4>2
      <4>3. ASSUME NEW i \in 1..p, j = (n + 1) + i PROVE h[j] # ":"
        BY <1>2, <2>3, <4>3
      <4>4. QED
        BY <4>1, <4>2, <4>3
    <3>2. n + 1 \in 1..Len(h)
      BY <1>1, <2>3
    <3>3. QED
      BY <2>4, <3>1, <3>2 DEF Addr!Places
  <2>7. SubSeq(h, 1, n) = node
    <3>1. StandsAt(node, h, 0)
      BY <1>1, <2>3, <2>4 DEF StandsAt
    <3>2. QED
      BY <1>1, <2>3, <3>1, SubSeqStands
  <2>8. SubSeq(h, n + 2, Len(h)) = port
    <3>1. StandsAt(port, h, n + 1)
      BY <1>1, <2>3 DEF StandsAt
    <3>2. n + 1 \in Nat /\ n + 2 = (n + 1) + 1
      BY <1>1
    <3>3. QED
      BY <1>1, <2>3, <3>1, <3>2, SubSeqStands
  <2>9. Addr!Lookup(node) = [node |-> node, service |-> Addr!Nothing]
    BY <1>1, <1>2, <1>4, LookupPlain
  <2>10. Addr!Lookup(h) = [node |-> node, service |-> port]
    <3> DEFINE k == n + 1
    <3>1. k \in 2..Len(h) /\ k - 1 = n /\ k + 1 = n + 2
      BY <1>1, <2>3
    <3>2. h # <<>> /\ h[1] # "["
      BY SMTT(60), <1>1, <1>2, <2>3, <2>4
    <3>3. /\ node = SubSeq(h, 1, k - 1) /\ port = SubSeq(h, k + 1, Len(h))
          /\ Addr!Places(h, ":") = {k}
      BY <2>6, <2>7, <2>8, <3>1
    <3> HIDE DEF k
    <3>4. Addr!Lookup(h) = [node |-> SubSeq(h, 1, k - 1),
                            service |-> SubSeq(h, k + 1, Len(h))]
      BY <2>3, <3>1, <3>2, <3>3, LookupPlain
    <3>5. QED
      BY <3>3, <3>4
  <2>11. QED
    BY <1>4, <2>9, <2>10 DEF Addr!LookupSplits, c, h
<1>5. QED
  BY <1>3, <1>4

-----------------------------------------------------------------------------
(* The text of an IPv6 address *)

\* The text of groups without a gap.
ColonText(s) ==
    [k \in 1..(2 * Len(s) - 1) |-> IF k % 2 = 1 THEN s[(k + 1) \div 2]
                                   ELSE Addr!Colon]
Sign == Nat \cup {Addr!Colon}

LEMMA ColonTextFacts ==
    ASSUME NEW s \in Seq(Nat)
    PROVE  /\ ColonText(s) \in Seq(Sign)
           /\ Len(s) = 0 => Len(ColonText(s)) = 0
           /\ Len(s) # 0 => Len(ColonText(s)) = 2 * Len(s) - 1
           /\ \A k \in 1..Len(ColonText(s)) :
                /\ k % 2 = 1 => /\ (k + 1) \div 2 \in 1..Len(s)
                                /\ ColonText(s)[k] = s[(k + 1) \div 2]
                                /\ ColonText(s)[k] \in Nat
                /\ k % 2 # 1 => ColonText(s)[k] = Addr!Colon
<1> DEFINE n == Len(s)
           t == ColonText(s)
<1>1. n \in Nat
  OBVIOUS
<1>2. ASSUME NEW k \in 1..(2 * n - 1)
      PROVE  /\ k % 2 = 1 => /\ (k + 1) \div 2 \in 1..n
                             /\ t[k] = s[(k + 1) \div 2] /\ t[k] \in Nat
             /\ k % 2 # 1 => t[k] = Addr!Colon
             /\ t[k] \in Sign
  <2>1. k % 2 = 1 => (k + 1) \div 2 \in 1..n
    BY <1>1
  <2>2. t[k] = IF k % 2 = 1 THEN s[(k + 1) \div 2] ELSE Addr!Colon
    BY DEF ColonText
  <2>3. \A j \in 1..n : s[j] \in Nat
    OBVIOUS
  <2> HIDE DEF t
  <2>4. QED
    BY <2>1, <2>2, <2>3 DEF Sign
<1>3. t = [k \in 1..(2 * n - 1) |-> t[k]]
  BY DEF ColonText
<1> HIDE DEF t
<1>4. CASE n = 0
  <2>1. t \in Seq(Sign) /\ Len(t) = 0
    <3>1. 1..(2 * n - 1) = {}
      BY <1>4
    <3>2. t = <<>>
      BY <1>3, <3>1
    <3>3. QED
      BY <3>2
  <2>2. QED
    BY <1>4, <2>1 DEF t
<1>5. CASE n # 0
  <2>1. 2 * n - 1 \in Nat
    BY <1>1, <1>5
  <2>2. t \in Seq(Sign) /\ Len(t) = 2 * n - 1
    BY <1>2, <1>3, <2>1
  <2>3. QED
    BY <1>2, <1>5, <2>2 DEF t
<1>6. QED
  BY <1>4, <1>5

\* One group more.
LEMMA ColonTextMore ==
    ASSUME NEW s \in Seq(Nat), NEW x \in Nat, NEW t, t = ColonText(Append(s, x))
    PROVE  /\ Len(s) = 0 => t = <<x>>
           /\ Len(s) # 0 => t = (ColonText(s) \o <<Addr!Colon>>) \o <<x>>
<1> DEFINE n == Len(s)
           r == Append(s, x)
           c == ColonText(s)
           d == c \o <<Addr!Colon>>
           e == d \o <<x>>
<1>1. /\ n \in Nat /\ r \in Seq(Nat) /\ Len(r) = n + 1 /\ r[n + 1] = x
      /\ \A k \in 1..n : r[k] = s[k]
  OBVIOUS
<1> HIDE DEF r
<1>2. /\ t \in Seq(Sign) /\ Len(t) = 2 * (n + 1) - 1
      /\ \A k \in 1..Len(t) : /\ k % 2 = 1 => t[k] = r[(k + 1) \div 2]
                              /\ k % 2 # 1 => t[k] = Addr!Colon
  <2>1. t = ColonText(r)
    BY DEF r
  <2>2. Len(r) # 0
    BY <1>1
  <2>3. /\ t \in Seq(Sign) /\ Len(t) = 2 * Len(r) - 1
    BY <1>1, <2>1, <2>2, ColonTextFacts
  <2>4. \A k \in 1..Len(t) :
            /\ k % 2 = 1 => t[k] = r[(k + 1) \div 2]
            /\ k % 2 # 1 => t[k] = Addr!Colon
    BY <1>1, <2>1, ColonTextFacts
  <2>5. QED
    BY <1>1, <2>3, <2>4
<1>3. ASSUME n = 0 PROVE t = <<x>>
  <2>1. Len(t) = 1 /\ 1 \in 1..Len(t) /\ 1 % 2 = 1 /\ (1 + 1) \div 2 = 1 /\ n + 1 = 1
    BY <1>2, <1>3
  <2>2. t[1] = x
    BY <1>1, <1>2, <2>1
  <2>3. QED
    BY <1>2, <2>1, <2>2
<1>4. ASSUME n # 0 PROVE t = e
  <2>1. /\ c \in Seq(Sign) /\ Len(c) = 2 * n - 1
        /\ \A k \in 1..Len(c) : /\ k % 2 = 1 => /\ (k + 1) \div 2 \in 1..n
                                                /\ c[k] = s[(k + 1) \div 2]
                                /\ k % 2 # 1 => c[k] = Addr!Colon
    BY <1>4, ColonTextFacts
  <2> HIDE DEF c
  <2>2. Addr!Colon \in Sign /\ x \in Sign
    BY DEF Sign
  <2>3. /\ d \in Seq(Sign) /\ Len(d) = 2 * n /\ d[2 * n] = Addr!Colon
        /\ \A k \in 1..(2 * n - 1) : d[k] = c[k]
    <3>1. /\ d \in Seq(Sign) /\ Len(d) = Len(c) + 1 /\ d[Len(c) + 1] = Addr!Colon
          /\ \A k \in 1..Len(c) : d[k] = c[k]
      BY <2>1, <2>2
    <3> HIDE DEF d
    <3>2. Len(c) + 1 = 2 * n
      BY <1>1, <2>1
    <3>3. QED
      BY <2>1, <3>1, <3>2
  <2> HIDE DEF d
  <2>4. /\ e \in Seq(Sign) /\ Len(e) = 2 * n + 1 /\ e[2 * n + 1] = x
        /\ \A k \in 1..(2 * n) : e[k] = d[k]
    <3>1. /\ e \in Seq(Sign) /\ Len(e) = Len(d) + 1 /\ e[Len(d) + 1] = x
          /\ \A k \in 1..Len(d) : e[k] = d[k]
      BY SMTT(60), <2>2, <2>3
    <3> HIDE DEF e
    <3>2. QED
      BY <2>3, <3>1
  <2> HIDE DEF e
  <2>5. Len(t) = Len(e) /\ Len(t) = 2 * n + 1
    BY <1>1, <1>2, <2>4
  <2>6. ASSUME NEW k \in 1..Len(t) PROVE t[k] = e[k]
    <3>1. k \in 1..(2 * n - 1) \/ k = 2 * n \/ k = 2 * n + 1
      BY SMTT(60), <1>1, <2>5
    <3>2. CASE k \in 1..(2 * n - 1)
      <4>1. e[k] = c[k] /\ k \in 1..Len(c)
        BY <1>1, <2>1, <2>3, <2>4, <3>2
      <4>2. CASE k % 2 = 1
        BY <1>1, <1>2, <2>1, <4>1, <4>2
      <4>3. CASE k % 2 # 1
        BY <1>2, <2>1, <4>1, <4>3
      <4>4. QED
        BY <4>2, <4>3
    <3>3. CASE k = 2 * n
      <4>1. k % 2 # 1 /\ k \in 1..(2 * n)
        BY <1>1, <1>4, <3>3
      <4>2. QED
        BY <1>2, <2>3, <2>4, <3>3, <4>1
    <3>4. CASE k = 2 * n + 1
      <4>1. k % 2 = 1 /\ (k + 1) \div 2 = n + 1
        BY <1>1, <3>4
      <4>2. QED
        BY <1>1, <1>2, <2>4, <3>4, <4>1
    <3>5. QED
      BY <3>1, <3>2, <3>3, <3>4
  <2>7. QED
    BY <1>2, <2>4, <2>5, <2>6
<1>5. QED
  BY <1>3, <1>4

\* The first run of zeros is at p up to q - 1, or there is none and p and q are
\* behind the last group.
FirstGap(addr, p, q) ==
    /\ p \in 1..(Groups + 1) /\ q \in p..(Groups + 1)
    /\ \A i \in 1..(p - 1) : addr[i] # 0
    /\ \A i \in p..(q - 1) : addr[i] = 0
    /\ p <= Groups => p < q
    /\ q <= Groups => addr[q] # 0

LEMMA FirstGapExists == ASSUME NEW addr PROVE \E p, q : FirstGap(addr, p, q)
<1> DEFINE S == {i \in 1..(Groups + 1) : i = Groups + 1 \/ addr[i] = 0}
<1>1. Groups \in Nat \ {0}
  BY LibraryAssumption
<1>2. S \in SUBSET Nat /\ Groups + 1 \in S
  BY <1>1
<1>3. PICK p \in S : \A y \in S : p <= y
  BY <1>2, LeastNat
<1>4. p \in 1..(Groups + 1) /\ (p = Groups + 1 \/ addr[p] = 0)
  BY <1>3
<1>5. \A i \in 1..(p - 1) : addr[i] # 0
  <2> SUFFICES ASSUME NEW i \in 1..(p - 1), addr[i] = 0 PROVE FALSE
    OBVIOUS
  <2>1. i \in S /\ ~(p <= i)
    BY <1>1, <1>4
  <2>2. QED
    BY <1>3, <2>1
<1> DEFINE R == {i \in p..(Groups + 1) : i = Groups + 1 \/ addr[i] # 0}
<1>6. R \in SUBSET Nat /\ Groups + 1 \in R
  BY <1>1, <1>4
<1>7. PICK q \in R : \A y \in R : q <= y
  BY <1>6, LeastNat
<1>8. q \in p..(Groups + 1) /\ (q = Groups + 1 \/ addr[q] # 0)
  BY <1>7
<1>9. \A i \in p..(q - 1) : addr[i] = 0
  <2> SUFFICES ASSUME NEW i \in p..(q - 1), addr[i] # 0 PROVE FALSE
    OBVIOUS
  <2>1. i \in R /\ ~(q <= i)
    BY <1>1, <1>4, <1>8
  <2>2. QED
    BY <1>7, <2>1
<1>10. p <= Groups => p < q
  BY <1>1, <1>4, <1>8
<1>11. q <= Groups => addr[q] # 0
  BY <1>1, <1>8
<1>12. FirstGap(addr, p, q)
  BY <1>4, <1>5, <1>8, <1>9, <1>10, <1>11 DEF FirstGap
<1>13. QED
  BY <1>12

\* A turn of the loop of insert, and the text after n turns.
Shown(text, used) == [text |-> text, used |-> used]
Turn(b, addr, n) ==
    LET gap == n > 1 /\ addr[n - 1] = 0 /\ ~b.used
    IN  IF addr[n] = 0 /\ ~b.used THEN b
        ELSE [text |-> b.text
                    \o (IF gap THEN <<Addr!Colon>> ELSE <<>>)
                    \o (IF n > 1 THEN <<Addr!Colon>> ELSE <<>>)
                    \o <<addr[n]>>,
              used |-> b.used \/ gap]
IsInserted(addr, f) ==
    f = [n \in 0..Groups |-> IF n = 0 THEN [text |-> <<>>, used |-> FALSE]
                             ELSE Turn(f[n - 1], addr, n)]
Head6(addr, p) == ColonText(SubSeq(addr, 1, p - 1))
Gapped(addr, p) == (Head6(addr, p) \o <<Addr!Colon>>) \o <<Addr!Colon>>
After(addr, p, q, n) ==
    IF n < q THEN Shown(ColonText(SubSeq(addr, 1, IF n < p THEN n ELSE p - 1)), FALSE)
    ELSE Shown(Gapped(addr, p) \o ColonText(SubSeq(addr, q, n)), TRUE)

LEMMA TurnPlain ==
    ASSUME NEW t, NEW addr, NEW n, addr[n] # 0, ~(n > 1 /\ addr[n - 1] = 0)
    PROVE  Turn(Shown(t, FALSE), addr, n)
             = Shown(((t \o <<>>) \o (IF n > 1 THEN <<Addr!Colon>> ELSE <<>>))
                        \o <<addr[n]>>, FALSE)
  BY DEF Turn, Shown

LEMMA TurnSkip ==
    ASSUME NEW t, NEW addr, NEW n, addr[n] = 0
    PROVE  Turn(Shown(t, FALSE), addr, n) = Shown(t, FALSE)
  BY DEF Turn, Shown

LEMMA TurnGap ==
    ASSUME NEW t, NEW addr, NEW n, n > 1, addr[n] # 0, addr[n - 1] = 0
    PROVE  Turn(Shown(t, FALSE), addr, n)
             = Shown(((t \o <<Addr!Colon>>) \o <<Addr!Colon>>) \o <<addr[n]>>, TRUE)
  BY DEF Turn, Shown

LEMMA TurnUsed ==
    ASSUME NEW t, NEW addr, NEW n, n > 1
    PROVE  Turn(Shown(t, TRUE), addr, n)
             = Shown(((t \o <<>>) \o <<Addr!Colon>>) \o <<addr[n]>>, TRUE)
  BY DEF Turn, Shown

LEMMA ColonTexts ==
    ASSUME NEW s \in Seq(Nat)
    PROVE  ColonText(s) \in Seq(Sign) /\ (Len(s) = 0 => ColonText(s) = <<>>)
<1>1. ColonText(s) \in Seq(Sign) /\ (Len(s) = 0 => Len(ColonText(s)) = 0)
  BY ColonTextFacts
<1>2. QED
  BY <1>1

LEMMA TwoColons ==
    ASSUME NEW a \in Seq(Sign)
    PROVE  (a \o <<Addr!Colon>>) \o <<Addr!Colon>> \in Seq(Sign)
<1>1. Addr!Colon \in Sign
  BY DEF Sign
<1> DEFINE b == a \o <<Addr!Colon>>
<1>2. b \in Seq(Sign)
  BY <1>1
<1> HIDE DEF b
<1>3. b \o <<Addr!Colon>> \in Seq(Sign)
  BY <1>1, <1>2
<1>4. QED
  BY <1>3 DEF b

\* Behind the gap a group is put at the end of its own part.
LEMMA Behind ==
    ASSUME NEW g \in Seq(Sign), NEW c \in Seq(Sign), NEW x \in Nat
    PROVE  (((g \o c) \o <<>>) \o <<Addr!Colon>>) \o <<x>>
             = g \o ((c \o <<Addr!Colon>>) \o <<x>>)
<1> DEFINE k == <<Addr!Colon>>
           y == <<x>>
           gc == g \o c
           ck == c \o k
<1>1. k \in Seq(Sign) /\ y \in Seq(Sign)
  BY DEF Sign
<1>2. gc \in Seq(Sign) /\ gc \o <<>> = gc
  <2>1. gc \in Seq(Sign)
    OBVIOUS
  <2> HIDE DEF gc
  <2>2. QED
    BY <2>1, WithNothing
<1> HIDE DEF k, y
<1>3. ck \in Seq(Sign)
  BY <1>1
<1>4. gc \o k = g \o ck
  BY SMTT(60), <1>1, Assoc DEF gc, ck
<1> HIDE DEF gc, ck
<1>5. (g \o ck) \o y = g \o (ck \o y)
  BY SMTT(60), <1>1, <1>3, Assoc
<1>6. QED
  BY <1>2, <1>4, <1>5 DEF gc, ck, k, y

LEMMA AfterStep ==
    ASSUME NEW addr \in Seq(Nat), Len(addr) = Groups, NEW p, NEW q,
           FirstGap(addr, p, q), NEW n \in 1..Groups
    PROVE  Turn(After(addr, p, q, n - 1), addr, n) = After(addr, p, q, n)
<1>1. Groups \in Nat \ {0}
  BY LibraryAssumption
<1>2. /\ p \in 1..(Groups + 1) /\ q \in p..(Groups + 1)
      /\ \A i \in 1..(p - 1) : addr[i] # 0
      /\ \A i \in p..(q - 1) : addr[i] = 0
      /\ p <= Groups => p < q
      /\ q <= Groups => addr[q] # 0
  BY DEF FirstGap
<1>3. n \in Nat \ {0} /\ n - 1 \in Nat /\ addr[n] \in Nat
  BY <1>1
<1> DEFINE x == addr[n]
           m == n - 1
<1> HIDE DEF x
<1>4. CASE n < p
  <2> DEFINE s == SubSeq(addr, 1, n - 1)
             u == SubSeq(addr, 1, n)
             t == ColonText(s)
  <2>1. s \in Seq(Nat) /\ Len(s) = n - 1 /\ u = Append(s, x)
    <3>1. n \in 1..Len(addr) /\ 1 \in Nat \ {0}
      BY <1>1
    <3>2. QED
      BY <3>1, SubSeqMore DEF x
  <2>2. After(addr, p, q, n - 1) = Shown(t, FALSE) /\ After(addr, p, q, n) = Shown(ColonText(u), FALSE)
    <3>1. n - 1 < q /\ n - 1 < p /\ n < q
      BY <1>1, <1>2, <1>4
    <3>2. QED
      BY <1>4, <3>1 DEF After
  <2>3. addr[n] # 0 /\ ~(n > 1 /\ addr[n - 1] = 0)
    <3>1. n \in 1..(p - 1) /\ (n > 1 => n - 1 \in 1..(p - 1))
      BY <1>2, <1>4
    <3>2. QED
      BY <1>2, <3>1
  <2> HIDE DEF s, u
  <2>4. t \in Seq(Sign) /\ (Len(s) = 0 => t = <<>>)
    BY <2>1, ColonTexts
  <2>5. /\ Len(s) = 0 => ColonText(u) = <<x>>
        /\ Len(s) # 0 => ColonText(u) = (t \o <<Addr!Colon>>) \o <<x>>
    <3>1. x \in Nat
      BY <1>3 DEF x
    <3> HIDE DEF t
    <3>2. QED
      BY <2>1, <3>1, ColonTextMore DEF t
  <2> HIDE DEF t
  <2>6. Turn(Shown(t, FALSE), addr, n)
             = Shown(((t \o <<>>) \o (IF n > 1 THEN <<Addr!Colon>> ELSE <<>>))
                        \o <<x>>, FALSE)
    BY <2>3, TurnPlain DEF x
  <2>7. t \o <<>> = t
    BY <2>4, WithNothing
  <2>8. CASE n = 1
    <3>1. Len(s) = 0 /\ ~(n > 1)
      BY <2>1, <2>8
    <3>2. t = <<>> /\ ColonText(u) = <<x>>
      BY <2>4, <2>5, <3>1
    <3>3. (t \o <<>>) \o <<>> = <<>>
      BY <2>7, <3>2
    <3>4. <<>> \o <<x>> = <<x>>
      <4>1. <<x>> \in Seq({x})
        OBVIOUS
      <4>2. QED
        BY <4>1, WithNothing
    <3>5. QED
      BY <2>2, <2>6, <3>1, <3>2, <3>3, <3>4
  <2>9. CASE n # 1
    <3>1. Len(s) # 0 /\ n > 1
      BY <1>3, <2>1, <2>9
    <3>2. ColonText(u) = (t \o <<Addr!Colon>>) \o <<x>>
      BY <2>5, <3>1
    <3>3. QED
      BY <2>2, <2>6, <2>7, <3>1, <3>2
  <2>10. QED
    BY <2>8, <2>9
<1>5. CASE p <= n /\ n < q
  <2>1. addr[n] = 0
    <3>1. n \in p..(q - 1)
      BY <1>1, <1>2, <1>5
    <3>2. QED
      BY <1>2, <3>1
  <2>2. After(addr, p, q, n - 1) = Shown(Head6(addr, p), FALSE)
    <3>1. n - 1 < q /\ (n - 1 < p => n - 1 = p - 1)
      BY <1>1, <1>2, <1>5
    <3>2. QED
      BY <3>1 DEF After, Head6
  <2>3. After(addr, p, q, n) = Shown(Head6(addr, p), FALSE)
    <3>1. ~(n < p)
      BY <1>1, <1>2, <1>5
    <3>2. QED
      BY <1>5, <3>1 DEF After, Head6
  <2>4. QED
    BY <2>1, <2>2, <2>3, TurnSkip
<1>6. CASE n = q
  <2>1. addr[n] # 0 /\ addr[n - 1] = 0 /\ n > 1 /\ p < q
    <3>1. q <= Groups /\ p <= Groups /\ p < q
      BY <1>1, <1>2, <1>6
    <3>2. q - 1 \in p..(q - 1) /\ n > 1
      BY <1>1, <1>2, <1>6, <3>1
    <3>3. QED
      BY <1>2, <1>6, <3>1, <3>2
  <2>2. After(addr, p, q, n - 1) = Shown(Head6(addr, p), FALSE)
    <3>1. n - 1 < q /\ (n - 1 < p => n - 1 = p - 1)
      BY <1>1, <1>2, <1>6, <2>1
    <3>2. QED
      BY <3>1 DEF After, Head6
  <2>3. ColonText(SubSeq(addr, q, n)) = <<x>>
    <3> DEFINE s == SubSeq(addr, q, n - 1)
               u == SubSeq(addr, q, n)
    <3>1. q \in Nat \ {0} /\ n \in q..Len(addr)
      BY <1>1, <1>2, <1>6
    <3>2. s \in Seq(Nat) /\ Len(s) = n - q /\ u = Append(s, x)
      BY <3>1, SubSeqMore DEF x
    <3> HIDE DEF s, u
    <3>3. Len(s) = 0 /\ x \in Nat
      BY <1>3, <1>6, <3>1, <3>2 DEF x
    <3>4. ColonText(u) = <<x>>
      BY <3>2, <3>3, ColonTextMore
    <3>5. QED
      BY <3>4 DEF u
  <2>4. After(addr, p, q, n) = Shown(Gapped(addr, p) \o <<x>>, TRUE)
    <3>1. ~(n < q)
      BY <1>6, <1>3
    <3>2. QED
      BY <2>3, <3>1 DEF After
  <2>5. Turn(Shown(Head6(addr, p), FALSE), addr, n) = Shown(Gapped(addr, p) \o <<x>>, TRUE)
    BY <2>1, TurnGap DEF Gapped, x
  <2>6. QED
    BY <2>2, <2>4, <2>5
<1>7. CASE n > q
  <2> DEFINE s == SubSeq(addr, q, n - 1)
             u == SubSeq(addr, q, n)
             c == ColonText(s)
             h == SubSeq(addr, 1, p - 1)
             g == Gapped(addr, p)
  <2>1. q \in Nat \ {0} /\ n \in q..Len(addr) /\ p \in Nat \ {0} /\ p \in 1..Len(addr)
    BY <1>1, <1>2, <1>7
  <2>2. s \in Seq(Nat) /\ Len(s) = n - q /\ u = Append(s, x)
    BY <2>1, SubSeqMore DEF x
  <2>3. h \in Seq(Nat)
    <3>1. 1 \in Nat \ {0}
      OBVIOUS
    <3>2. QED
      BY <2>1, <3>1, SubSeqMore
  <2>4. After(addr, p, q, n - 1) = Shown(g \o c, TRUE) /\ After(addr, p, q, n) = Shown(g \o ColonText(u), TRUE)
    <3>1. ~(n - 1 < q) /\ ~(n < q)
      BY <1>1, <1>2, <1>7
    <3>2. QED
      BY <3>1 DEF After
  <2> HIDE DEF s, u, h
  <2>5. c \in Seq(Sign)
    BY <2>2, ColonTexts
  <2>6. g \in Seq(Sign)
    <3>1. Head6(addr, p) \in Seq(Sign)
      BY <2>3, ColonTexts DEF Head6, h
    <3>2. QED
      BY <3>1, TwoColons DEF Gapped
  <2>7. ColonText(u) = (c \o <<Addr!Colon>>) \o <<x>>
    <3>1. Len(s) # 0 /\ x \in Nat
      BY <1>3, <1>7, <2>1, <2>2 DEF x
    <3> HIDE DEF c
    <3>2. QED
      BY <2>2, <3>1, ColonTextMore DEF c
  <2>8. n > 1
    BY <1>1, <1>2, <1>7
  <2> HIDE DEF c, g
  <2> DEFINE t == g \o c
  <2>9. Turn(Shown(t, TRUE), addr, n) = Shown(((t \o <<>>) \o <<Addr!Colon>>) \o <<x>>, TRUE)
    BY <2>8, TurnUsed DEF x
  <2>10. (((g \o c) \o <<>>) \o <<Addr!Colon>>) \o <<x>>
             = g \o ((c \o <<Addr!Colon>>) \o <<x>>)
    BY <1>3, <2>5, <2>6, Behind DEF x
  <2>11. QED
    BY <2>4, <2>7, <2>9, <2>10
<1>8. QED
  BY <1>1, <1>2, <1>4, <1>5, <1>6, <1>7

LEMMA AfterNothing ==
    ASSUME NEW addr \in Seq(Nat), Len(addr) = Groups, NEW p, NEW q,
           FirstGap(addr, p, q)
    PROVE  After(addr, p, q, 0) = Shown(<<>>, FALSE)
<1>1. Groups \in Nat \ {0} /\ p \in 1..(Groups + 1) /\ q \in p..(Groups + 1)
  BY LibraryAssumption DEF FirstGap
<1> DEFINE s == SubSeq(addr, 1, 0)
<1>2. s \in Seq(Nat) /\ Len(s) = 0
  <2>1. 1 \in Nat \ {0} /\ 0 \in Nat /\ 1 + 0 <= Len(addr) + 1 /\ 0 = (1 + 0) - 1
    BY <1>1
  <2>2. QED
    BY <2>1, SubSeqFacts
<1> HIDE DEF s
<1>3. ColonText(s) = <<>>
  BY <1>2, ColonTexts
<1>4. 0 < q /\ 0 < p
  BY <1>1
<1>5. QED
  BY <1>3, <1>4 DEF After, s

\* The loop of insert, and what it has written after every turn.
Inserted(addr) == CHOOSE f : IsInserted(addr, f)

LEMMA InsertedIs ==
    ASSUME NEW addr \in Seq(Nat), Len(addr) = Groups, NEW p, NEW q,
           FirstGap(addr, p, q)
    PROVE  Inserted(addr)[Groups] = After(addr, p, q, Groups)
<1>1. Groups \in Nat \ {0}
  BY LibraryAssumption
<1>2. \E f : IsInserted(addr, f)
  <2> DEFINE w == [n \in 0..Groups |-> After(addr, p, q, n)]
  <2>1. ASSUME NEW n \in 0..Groups
        PROVE  After(addr, p, q, n)
                 = IF n = 0 THEN [text |-> <<>>, used |-> FALSE]
                   ELSE Turn(w[n - 1], addr, n)
    <3>1. CASE n = 0
      BY <3>1, AfterNothing DEF Shown
    <3>2. CASE n # 0
      <4>1. n \in 1..Groups /\ n - 1 \in 0..Groups
        BY <1>1, <3>2
      <4>2. w[n - 1] = After(addr, p, q, n - 1)
        BY <4>1
      <4>3. Turn(After(addr, p, q, n - 1), addr, n) = After(addr, p, q, n)
        BY <4>1, AfterStep
      <4>4. QED
        BY <3>2, <4>2, <4>3
    <3>3. QED
      BY <3>1, <3>2
  <2>2. w = [n \in 0..Groups |-> IF n = 0 THEN [text |-> <<>>, used |-> FALSE]
                                 ELSE Turn(w[n - 1], addr, n)]
    BY <2>1, Zenon
  <2>3. IsInserted(addr, w)
    BY <2>2 DEF IsInserted
  <2>4. QED
    BY <2>3
<1> DEFINE f == Inserted(addr)
<1>3. IsInserted(addr, f)
  BY <1>2, Zenon DEF Inserted
<1> HIDE DEF f
<1>4. \A n \in 0..Groups : f[n] = IF n = 0 THEN [text |-> <<>>, used |-> FALSE]
                                  ELSE Turn(f[n - 1], addr, n)
  <2> DEFINE G(n) == IF n = 0 THEN [text |-> <<>>, used |-> FALSE]
                     ELSE Turn(f[n - 1], addr, n)
  <2>1. f = [n \in 0..Groups |-> G(n)]
    BY <1>3 DEF IsInserted
  <2> HIDE DEF G
  <2>2. \A n \in 0..Groups : f[n] = G(n)
    BY <2>1
  <2>3. QED
    BY <2>2 DEF G
<1> DEFINE T == {n \in 0..Groups : f[n] # After(addr, p, q, n)}
<1>5. T = {}
  <2> SUFFICES ASSUME T # {} PROVE FALSE
    OBVIOUS
  <2>1. T \in SUBSET Nat
    BY <1>1
  <2>2. PICK m \in T : \A y \in T : m <= y
    BY <2>1, LeastNat
  <2>3. m \in 0..Groups /\ f[m] # After(addr, p, q, m)
    BY <2>2
  <2>4. m # 0
    <3>1. f[0] = Shown(<<>>, FALSE)
      BY <1>1, <1>4 DEF Shown
    <3>2. QED
      BY <2>3, <3>1, AfterNothing
  <2>5. m \in 1..Groups /\ m - 1 \in 0..Groups /\ m - 1 \notin T
    <3>1. m \in 1..Groups /\ m - 1 \in 0..Groups /\ ~(m <= m - 1)
      BY <1>1, <2>3, <2>4
    <3> HIDE DEF T
    <3>2. QED
      BY <2>2, <3>1
  <2>6. f[m - 1] = After(addr, p, q, m - 1)
    BY <2>5
  <2>7. f[m] = Turn(f[m - 1], addr, m)
    BY <1>4, <2>3, <2>4
  <2>8. QED
    BY <2>3, <2>5, <2>6, <2>7, AfterStep
<1>6. Groups \in 0..Groups /\ Groups \notin T
  BY <1>1, <1>5
<1>7. QED
  BY <1>6 DEF f

LEMMA InsertIs ==
    ASSUME NEW addr
    PROVE  Addr!insert(addr)
             = IF ~Inserted(addr)[Groups].used /\ addr[Groups] = 0
               THEN Inserted(addr)[Groups].text \o <<Addr!Colon, Addr!Colon>>
               ELSE Inserted(addr)[Groups].text
  BY DEF Addr!insert, Inserted, IsInserted, Turn

\* What insert prints of an address without a zero, and of one whose first zeros
\* are the groups from p to q - 1.
LEMMA InsertWhole ==
    ASSUME NEW addr \in Seq(Nat), Len(addr) = Groups,
           FirstGap(addr, Groups + 1, Groups + 1)
    PROVE  Addr!insert(addr) = ColonText(addr)
<1>1. Groups \in Nat \ {0}
  BY LibraryAssumption
<1>2. \A i \in 1..((Groups + 1) - 1) : addr[i] # 0
  BY DEF FirstGap
<1>3. addr[Groups] # 0
  BY <1>1, <1>2
<1> DEFINE s == SubSeq(addr, 1, Groups)
<1>4. s = addr
  <2>1. 1 \in Nat \ {0} /\ Groups \in Nat /\ 1 + Groups <= Len(addr) + 1 /\ Groups = (1 + Groups) - 1
    BY <1>1
  <2>2. s \in Seq(Nat) /\ Len(s) = Groups /\ \A k \in 1..Groups : s[k] = addr[(1 + k) - 1]
    BY <2>1, SubSeqFacts
  <2> HIDE DEF s
  <2>3. \A k \in 1..Groups : s[k] = addr[k]
    BY <1>1, <2>2
  <2>4. QED
    BY <2>2, <2>3
<1>5. After(addr, Groups + 1, Groups + 1, Groups) = Shown(ColonText(addr), FALSE)
  <2>1. Groups < Groups + 1
    BY <1>1
  <2>2. QED
    BY <1>4, <2>1 DEF After
<1>6. Inserted(addr)[Groups] = Shown(ColonText(addr), FALSE)
  BY <1>5, InsertedIs
<1>7. QED
  BY <1>3, <1>6, InsertIs DEF Shown

LEMMA InsertGap ==
    ASSUME NEW addr \in Seq(Nat), Len(addr) = Groups, NEW p, NEW q,
           FirstGap(addr, p, q), p <= Groups,
           NEW u, u = SubSeq(addr, q, Groups)
    PROVE  Addr!insert(addr) = Gapped(addr, p) \o ColonText(u)
<1>1. Groups \in Nat \ {0}
  BY LibraryAssumption
<1>2. /\ p \in 1..(Groups + 1) /\ q \in p..(Groups + 1) /\ p < q
      /\ \A i \in p..(q - 1) : addr[i] = 0
  BY DEF FirstGap
<1>3. CASE q = Groups + 1
  <2>1. addr[Groups] = 0
    <3>1. Groups \in p..(q - 1)
      BY <1>1, <1>2, <1>3
    <3>2. QED
      BY <1>2, <3>1
  <2>2. After(addr, p, q, Groups) = Shown(Head6(addr, p), FALSE)
    <3>1. Groups < q /\ ~(Groups < p)
      BY <1>1, <1>2, <1>3
    <3>2. QED
      BY <3>1 DEF After, Head6
  <2>3. Inserted(addr)[Groups] = Shown(Head6(addr, p), FALSE)
    BY <2>2, InsertedIs
  <2>4. Addr!insert(addr) = Head6(addr, p) \o <<Addr!Colon, Addr!Colon>>
    BY SMTT(60), <2>1, <2>3, InsertIs DEF Shown
  <2> DEFINE h == Head6(addr, p)
             c == <<Addr!Colon>>
  <2>5. h \in Seq(Sign)
    <3>1. 1 \in Nat \ {0} /\ p \in 1..Len(addr)
      BY <1>1, <1>2
    <3>2. SubSeq(addr, 1, p - 1) \in Seq(Nat)
      BY <3>1, SubSeqMore
    <3>3. QED
      BY <3>2, ColonTexts DEF Head6
  <2>6. c \o c = <<Addr!Colon, Addr!Colon>>
    <3> DEFINE y == Addr!Colon
               w == <<y>>
               r == w \o w
    <3> HIDE DEF y
    <3>1. w \in Seq({y}) /\ Len(w) = 1 /\ w[1] = y
      OBVIOUS
    <3> HIDE DEF w
    <3>4. r \in Seq({y}) /\ Len(r) = 2 /\ r[1] = y /\ r[2] = y
      <4>1. w \in Seq({y})
        BY <3>1
      <4>2. /\ r \in Seq({y}) /\ Len(r) = Len(w) + Len(w)
            /\ \A k \in 1..Len(w) : r[k] = w[k] /\ r[Len(w) + k] = w[k]
        BY <4>1
      <4> HIDE DEF r
      <4>3. 1 \in 1..Len(w) /\ Len(w) + 1 = 2
        BY <3>1
      <4>4. QED
        BY <3>1, <4>2, <4>3
    <3> HIDE DEF r
    <3>5. r = <<y, y>>
      BY <3>4
    <3>2. <<y>> \o <<y>> = <<y, y>>
      BY <3>5 DEF r, w
    <3>3. QED
      BY <3>2 DEF y
  <2>7. h \o (c \o c) = (h \o c) \o c
    <3>1. Addr!Colon \in Sign
      BY DEF Sign
    <3>2. c \in Seq(Sign)
      BY <3>1
    <3> HIDE DEF h, c
    <3>3. QED
      BY SMTT(60), <2>5, <3>2, Assoc
  <2> HIDE DEF h, c
  <2>8. (h \o c) \o c = Gapped(addr, p)
    BY DEF h, c, Gapped
  <2>9. Addr!insert(addr) = Gapped(addr, p)
    BY <2>4, <2>6, <2>7, <2>8 DEF h
  <2>10. u \in Seq(Nat) /\ Len(u) = 0
    <3>1. /\ q \in Nat \ {0} /\ 0 \in Nat /\ q + 0 <= Len(addr) + 1
          /\ Groups = (q + 0) - 1
      BY <1>1, <1>3
    <3>2. QED
      BY <3>1, SubSeqFacts
  <2>11. ColonText(u) = <<>>
    BY <2>10, ColonTexts
  <2>12. Gapped(addr, p) \in Seq(Sign)
    BY <2>5, TwoColons DEF Gapped, h
  <2>13. Gapped(addr, p) \o <<>> = Gapped(addr, p)
    BY <2>12, WithNothing
  <2>14. QED
    BY <2>9, <2>11, <2>13
<1>4. CASE q # Groups + 1
  <2>1. ~(Groups < q)
    BY <1>1, <1>2, <1>4
  <2>2. After(addr, p, q, Groups) = Shown(Gapped(addr, p) \o ColonText(u), TRUE)
    BY <2>1 DEF After
  <2>3. Inserted(addr)[Groups] = Shown(Gapped(addr, p) \o ColonText(u), TRUE)
    BY <2>2, InsertedIs
  <2> DEFINE t == Gapped(addr, p) \o ColonText(u)
  <2> HIDE DEF t
  <2>4. Inserted(addr)[Groups].used = TRUE /\ Inserted(addr)[Groups].text = t
    BY <2>3 DEF Shown, t
  <2>5. Addr!insert(addr) = t
    BY <2>4, InsertIs
  <2>6. QED
    BY <2>5 DEF t
<1>5. QED
  BY <1>3, <1>4

\* A text without a gap is read back as its groups.
LEMMA ColonTextRead ==
    ASSUME NEW s \in Seq(Nat), NEW t, t = ColonText(s)
    PROVE  /\ t \in Seq(Sign) /\ (Len(t) # 0 => Len(t) % 2 = 1)
           /\ \A k \in 1..Len(t) : t[k] = Addr!Colon <=> k % 2 = 0
           /\ Addr!Alternates(t) /\ Addr!Split(t) = s
<1> DEFINE n == Len(s)
           l == Len(t)
<1>1. /\ t \in Seq(Sign) /\ n \in Nat
      /\ (n = 0 => l = 0) /\ (n # 0 => l = 2 * n - 1)
  BY ColonTextFacts
<1>2. \A k \in 1..l :
        /\ k % 2 = 1 => /\ (k + 1) \div 2 \in 1..n
                        /\ t[k] = s[(k + 1) \div 2] /\ t[k] \in Nat
        /\ k % 2 # 1 => t[k] = Addr!Colon
  BY ColonTextFacts
<1>3. Addr!Colon \notin Nat
  BY DEF Addr!Colon
<1>4. l \in Nat /\ (l # 0 => l % 2 = 1) /\ (l + 1) \div 2 = n
  <2>1. CASE n = 0
    BY <1>1, <2>1
  <2>2. CASE n # 0
    <3>1. l = 2 * n - 1
      BY <1>1, <2>2
    <3> HIDE DEF l
    <3>2. QED
      BY <1>1, <2>2, <3>1
  <2>3. QED
    BY <2>1, <2>2
<1>5. ASSUME NEW k \in 1..l PROVE t[k] = Addr!Colon <=> k % 2 = 0
  <2>1. k % 2 = 0 \/ k % 2 = 1
    BY <1>4
  <2>2. CASE k % 2 = 0
    <3>1. k % 2 # 1
      BY <2>2
    <3>2. QED
      BY <1>2, <2>2, <3>1
  <2>3. CASE k % 2 = 1
    <3>1. k % 2 # 0 /\ t[k] \in Nat
      BY <1>2, <2>3
    <3>2. QED
      BY <1>3, <3>1
  <2>4. QED
    BY <2>1, <2>2, <2>3
<1>6. Addr!Alternates(t)
  <2>1. l = 0 => t = <<>>
    <3>1. t \in Seq(Sign)
      BY <1>1
    <3>2. QED
      BY <3>1
  <2>2. QED
    BY <1>4, <1>5, <2>1 DEF Addr!Alternates
<1>7. Addr!Split(t) = s
  <2> DEFINE r == [k \in 1..n |-> t[2 * k - 1]]
  <2>1. Addr!Split(t) = r
    BY <1>4 DEF Addr!Split
  <2>2. ASSUME NEW k \in 1..n PROVE t[2 * k - 1] = s[k]
    <3> DEFINE j == 2 * k - 1
    <3>0. l = 2 * n - 1
      BY <1>1
    <3>1. j \in 1..l /\ j % 2 = 1 /\ (j + 1) \div 2 = k
      <4> HIDE DEF l, n
      <4>1. n \in Nat
        BY <1>1
      <4>2. QED
        BY <3>0, <4>1
    <3> HIDE DEF j, l
    <3>2. t[j] = s[(j + 1) \div 2]
      BY <1>2, <3>1
    <3>3. QED
      BY <3>1, <3>2 DEF j
  <2>3. r = [k \in 1..n |-> s[k]]
    BY <2>2
  <2>4. s = [k \in 1..n |-> s[k]]
    OBVIOUS
  <2>5. QED
    BY <2>1, <2>3, <2>4
<1>8. QED
  BY <1>1, <1>4, <1>5, <1>6, <1>7

LEMMA WholeText ==
    ASSUME NEW addr \in Seq(Nat), NEW t, t = ColonText(addr)
    PROVE  Addr!Double(t) = {}
<1>1. t \in Seq(Sign) /\ \A k \in 1..Len(t) : t[k] = Addr!Colon <=> k % 2 = 0
  BY ColonTextRead
<1>2. Len(t) \in Nat
  BY <1>1
<1> SUFFICES ASSUME NEW i \in 1..(Len(t) - 1), t[i] = Addr!Colon, t[i + 1] = Addr!Colon
             PROVE  FALSE
  BY DEF Addr!Double
<1>3. i \in 1..Len(t) /\ i + 1 \in 1..Len(t)
  BY <1>2
<1>4. i % 2 = 0 /\ (i + 1) % 2 = 0
  BY <1>1, <1>3
<1>5. QED
  BY <1>2, <1>4

\* Two texts around a double colon.
Around(c, d) == ((c \o <<Addr!Colon>>) \o <<Addr!Colon>>) \o d
IsGapText(t, i, a, b, c, d) ==
    /\ c = ColonText(a) /\ d = ColonText(b) /\ t = Around(c, d)
    /\ i = Len(c) + 1

LEMMA GapText ==
    ASSUME NEW a \in Seq(Nat), NEW b \in Seq(Nat), NEW c, NEW d, NEW t, NEW i,
           IsGapText(t, i, a, b, c, d)
    PROVE  /\ i \in Addr!Double(t) /\ Addr!Double(t) = {i}
           /\ SubSeq(t, 1, i - 1) = c /\ SubSeq(t, i + 2, Len(t)) = d
<1> DEFINE e == c \o <<Addr!Colon>>
           g == e \o <<Addr!Colon>>
<1>0. /\ c = ColonText(a) /\ d = ColonText(b) /\ t = Around(c, d)
      /\ i = Len(c) + 1
  BY DEF IsGapText
<1>1. /\ c \in Seq(Sign) /\ (Len(c) # 0 => Len(c) % 2 = 1)
      /\ \A k \in 1..Len(c) : c[k] = Addr!Colon <=> k % 2 = 0
  BY <1>0, ColonTextRead
<1>2. /\ d \in Seq(Sign) /\ (Len(d) # 0 => Len(d) % 2 = 1)
      /\ \A k \in 1..Len(d) : d[k] = Addr!Colon <=> k % 2 = 0
  BY <1>0, ColonTextRead
<1>3. Addr!Colon \in Sign
  BY DEF Sign
<1>4. Len(c) \in Nat /\ Len(d) \in Nat
  BY <1>1, <1>2
<1>5. /\ e \in Seq(Sign) /\ Len(e) = Len(c) + 1 /\ e[Len(c) + 1] = Addr!Colon
      /\ \A k \in 1..Len(c) : e[k] = c[k]
  <2>1. c \in Seq(Sign)
    BY <1>1
  <2>2. QED
    BY <1>3, <2>1
<1> HIDE DEF e
<1>6. /\ g \in Seq(Sign) /\ Len(g) = Len(e) + 1 /\ g[Len(e) + 1] = Addr!Colon
      /\ \A k \in 1..Len(e) : g[k] = e[k]
  <2>1. e \in Seq(Sign)
    BY <1>5
  <2>2. QED
    BY <1>3, <2>1
<1>7. t = g \o d
  BY <1>0 DEF Around, g, e
<1> HIDE DEF g
<1>8. /\ t \in Seq(Sign) /\ Len(t) = Len(g) + Len(d)
      /\ \A k \in 1..Len(g) : t[k] = g[k]
      /\ \A k \in 1..Len(d) : t[Len(g) + k] = d[k]
  <2> DEFINE w == g \o d
  <2>1. g \in Seq(Sign) /\ d \in Seq(Sign)
    BY <1>2, <1>6
  <2>2. /\ w \in Seq(Sign) /\ Len(w) = Len(g) + Len(d)
        /\ \A k \in 1..Len(g) : w[k] = g[k]
        /\ \A k \in 1..Len(d) : w[Len(g) + k] = d[k]
    BY <2>1
  <2>3. QED
    BY <1>7, <2>2
<1> DEFINE n == Len(c)
           m == Len(d)
<1>9. /\ n \in Nat /\ m \in Nat /\ i = n + 1 /\ Len(t) = n + 2 + m
      /\ \A k \in 1..n : t[k] = c[k]
      /\ t[n + 1] = Addr!Colon /\ t[n + 2] = Addr!Colon
      /\ \A k \in 1..m : t[(n + 2) + k] = d[k]
  <2>1. Len(g) = n + 2 /\ Len(e) = n + 1
    BY <1>4, <1>5, <1>6
  <2>2. ASSUME NEW k \in 1..n PROVE t[k] = c[k]
    <3>1. k \in 1..Len(e) /\ k \in 1..Len(g)
      BY <1>4, <2>1
    <3>2. QED
      BY <1>5, <1>6, <1>8, <3>1
  <2>3. t[n + 1] = Addr!Colon
    <3>1. n + 1 \in 1..Len(e) /\ n + 1 \in 1..Len(g)
      BY <1>4, <2>1
    <3>2. QED
      BY <1>5, <1>6, <1>8, <3>1
  <2>4. t[n + 2] = Addr!Colon
    <3>1. n + 2 \in 1..Len(g) /\ n + 2 = Len(e) + 1
      BY <1>4, <2>1
    <3>2. QED
      BY <1>6, <1>8, <3>1
  <2>5. ASSUME NEW k \in 1..m PROVE t[(n + 2) + k] = d[k]
    BY <1>8, <2>1
  <2>6. QED
    BY <1>0, <1>4, <1>8, <2>1, <2>2, <2>3, <2>4, <2>5
<1>10. /\ n # 0 => n % 2 = 1
       /\ \A k \in 1..n : c[k] = Addr!Colon <=> k % 2 = 0
       /\ \A k \in 1..m : d[k] = Addr!Colon <=> k % 2 = 0
  BY <1>1, <1>2
<1> HIDE DEF n, m
<1>11. i \in Addr!Double(t)
  <2>1. i \in 1..(Len(t) - 1) /\ i + 1 = n + 2
    BY <1>9
  <2>2. QED
    BY <1>9, <2>1 DEF Addr!Double
<1>12. ASSUME NEW j \in Addr!Double(t) PROVE j = i
  <2>1. j \in 1..(Len(t) - 1) /\ t[j] = Addr!Colon /\ t[j + 1] = Addr!Colon
    BY DEF Addr!Double
  <2>2. ~(j < n)
    <3> SUFFICES ASSUME j < n PROVE FALSE
      OBVIOUS
    <3>1. j \in 1..n /\ j + 1 \in 1..n
      BY <1>9, <2>1
    <3>2. j % 2 = 0 /\ (j + 1) % 2 = 0
      BY <1>9, <1>10, <2>1, <3>1
    <3>3. j \in Nat
      BY <3>1
    <3>4. QED
      BY <3>2, <3>3, NotBothEven
  <2>3. j # n
    <3> SUFFICES ASSUME j = n PROVE FALSE
      OBVIOUS
    <3>1. n \in 1..n /\ n # 0
      BY <1>9, <2>1
    <3>2. n % 2 = 0 /\ n % 2 = 1
      BY <1>9, <1>10, <2>1, <3>1
    <3>3. QED
      BY <3>2
  <2>4. j # n + 2
    <3> SUFFICES ASSUME j = n + 2 PROVE FALSE
      OBVIOUS
    <3>1. 1 \in 1..m /\ j + 1 = (n + 2) + 1
      BY SMTT(60), <1>9, <2>1
    <3>2. 1 % 2 = 0
      BY <1>9, <1>10, <2>1, <3>1
    <3>3. QED
      BY <3>2
  <2>5. ~(j > n + 2)
    <3> SUFFICES ASSUME j > n + 2 PROVE FALSE
      OBVIOUS
    <3> DEFINE k == j - (n + 2)
    <3>1. /\ k \in 1..m /\ k + 1 \in 1..m /\ j = (n + 2) + k
          /\ j + 1 = (n + 2) + (k + 1)
      BY <1>9, <2>1
    <3> HIDE DEF k
    <3>2. k % 2 = 0 /\ (k + 1) % 2 = 0
      BY <1>9, <1>10, <2>1, <3>1
    <3>3. k \in Nat
      BY <3>1
    <3>4. QED
      BY <3>2, <3>3, NotBothEven
  <2>6. QED
    BY <1>9, <2>1, <2>2, <2>3, <2>4, <2>5
<1>13. SubSeq(t, 1, i - 1) = c
  <2> DEFINE u == SubSeq(t, 1, i - 1)
  <2>1. /\ 1 \in Nat \ {0} /\ n \in Nat /\ 1 + n <= Len(t) + 1 /\ i - 1 = (1 + n) - 1
    BY <1>9
  <2>0. t \in Seq(Sign)
    BY <1>8
  <2>2. u \in Seq(Sign) /\ Len(u) = n /\ \A k \in 1..n : u[k] = t[(1 + k) - 1]
    BY <2>0, <2>1, SubSeqFacts
  <2> HIDE DEF u
  <2>3. ASSUME NEW k \in 1..n PROVE u[k] = c[k]
    <3>1. (1 + k) - 1 = k
      BY <1>9
    <3>2. QED
      BY <1>9, <2>2, <3>1
  <2>4. c \in Seq(Sign) /\ Len(c) = n
    BY <1>1 DEF n
  <2>5. u = c
    BY <2>2, <2>3, <2>4
  <2>6. QED
    BY <2>5 DEF u
<1>14. SubSeq(t, i + 2, Len(t)) = d
  <2> DEFINE u == SubSeq(t, i + 2, Len(t))
             o == i + 2
             h == Len(t)
  <2>1. /\ o \in Nat \ {0} /\ m \in Nat /\ o + m <= Len(t) + 1 /\ h = (o + m) - 1
    <3>1. n \in Nat /\ m \in Nat /\ o = n + 3 /\ h = n + 2 + m /\ Len(t) = h
      BY <1>9
    <3> HIDE DEF o, h
    <3>2. QED
      BY <3>1
  <2>7. o = n + 3
    BY <1>9
  <2>0. t \in Seq(Sign) /\ u = SubSeq(t, o, h)
    BY <1>8
  <2> HIDE DEF u, o, h
  <2>2. u \in Seq(Sign) /\ Len(u) = m /\ \A k \in 1..m : u[k] = t[(o + k) - 1]
    BY <2>0, <2>1, SubSeqFacts
  <2>3. ASSUME NEW k \in 1..m PROVE u[k] = d[k]
    <3>1. (o + k) - 1 = (n + 2) + k
      BY <1>9, <2>7
    <3>2. QED
      BY <1>9, <2>2, <3>1
  <2>4. d \in Seq(Sign) /\ Len(d) = m
    BY <1>2 DEF m
  <2>5. u = d
    BY <2>2, <2>3, <2>4
  <2>6. QED
    BY <2>5 DEF u
<1>15. QED
  BY <1>11, <1>12, <1>13, <1>14

\* The first zeros of an address, between the groups in front of them and the
\* groups behind them.
Surround(addr, p, q, a, b, z) ==
    /\ Len(a) = p - 1 /\ \A k \in 1..(p - 1) : a[k] = addr[k]
    /\ Len(b) = (Groups + 1) - q
    /\ \A k \in 1..((Groups + 1) - q) : b[k] = addr[(q + k) - 1]
    /\ z = [k \in 1..(q - p) |-> 0]

Filling(a, z, b) == (a \o z) \o b

LEMMA Filled ==
    ASSUME NEW addr \in Seq(Nat), Len(addr) = Groups, NEW p, NEW q,
           FirstGap(addr, p, q), p <= Groups,
           NEW a \in Seq(Nat), NEW b \in Seq(Nat), NEW z,
           Surround(addr, p, q, a, b, z)
    PROVE  Filling(a, z, b) = addr
<1>1. Groups \in Nat \ {0} /\ p \in 1..Groups /\ q \in (p + 1)..(Groups + 1)
  BY LibraryAssumption DEF FirstGap
<1>2. \A i \in p..(q - 1) : addr[i] = 0
  BY DEF FirstGap
<1> DEFINE m == q - p
<1>0. /\ Len(a) = p - 1 /\ \A k \in 1..(p - 1) : a[k] = addr[k]
      /\ Len(b) = (Groups + 1) - q
      /\ \A k \in 1..((Groups + 1) - q) : b[k] = addr[(q + k) - 1]
      /\ z = [k \in 1..m |-> 0]
  BY DEF Surround
<1> DEFINE c == a \o z
           d == c \o b
<1>3. m \in Nat
  BY <1>1
<1>4. z \in Seq(Nat) /\ Len(z) = m /\ \A k \in 1..m : z[k] = 0
  BY <1>0, <1>3
<1>5. /\ c \in Seq(Nat) /\ Len(c) = Len(a) + Len(z)
      /\ \A k \in 1..Len(a) : c[k] = a[k]
      /\ \A k \in 1..Len(z) : c[Len(a) + k] = z[k]
  <2>1. a \in Seq(Nat) /\ z \in Seq(Nat) /\ IsJoin(c, a, z)
    BY <1>4 DEF IsJoin
  <2> HIDE DEF c
  <2>2. QED
    BY <2>1, JoinFacts
<1> HIDE DEF c
<1>6. /\ d \in Seq(Nat) /\ Len(d) = Len(c) + Len(b)
      /\ \A k \in 1..Len(c) : d[k] = c[k]
      /\ \A k \in 1..Len(b) : d[Len(c) + k] = b[k]
  <2>1. c \in Seq(Nat) /\ b \in Seq(Nat) /\ IsJoin(d, c, b)
    BY <1>5 DEF IsJoin
  <2> HIDE DEF d
  <2>2. QED
    BY <2>1, JoinFacts
<1> HIDE DEF d
<1>7. Len(z) = q - p /\ Len(c) = q - 1 /\ Len(d) = Groups
  BY <1>0, <1>1, <1>4, <1>5, <1>6
<1>8. ASSUME NEW k \in 1..Groups PROVE d[k] = addr[k]
  <2>1. CASE k < p
    <3>1. k \in 1..(p - 1) /\ k \in 1..Len(a) /\ k \in 1..Len(c)
      BY <1>0, <1>1, <1>7, <2>1
    <3>2. d[k] = c[k] /\ c[k] = a[k]
      BY <1>5, <1>6, <3>1
    <3>3. QED
      BY <1>0, <3>1, <3>2
  <2>2. CASE p <= k /\ k < q
    <3> DEFINE j == k - (p - 1)
    <3>1. /\ j \in 1..m /\ j \in 1..Len(z) /\ k = Len(a) + j /\ k \in 1..Len(c)
          /\ k \in p..(q - 1)
      BY <1>0, <1>1, <1>7, <2>2
    <3> HIDE DEF j
    <3>2. d[k] = c[k] /\ c[k] = z[j] /\ z[j] = 0
      BY <1>4, <1>5, <1>6, <3>1
    <3>3. addr[k] = 0
      BY <1>2, <3>1
    <3>4. QED
      BY <3>2, <3>3
  <2>3. CASE q <= k
    <3> DEFINE j == k - (q - 1)
    <3>1. /\ j \in 1..Len(b) /\ j \in 1..((Groups + 1) - q) /\ k = Len(c) + j
          /\ k = (q + j) - 1
      BY <1>0, <1>1, <1>7, <2>3
    <3> HIDE DEF j
    <3>2. d[k] = b[j]
      BY <1>6, <3>1
    <3>3. b[j] = addr[k]
      BY <1>0, <3>1
    <3>4. QED
      BY <3>2, <3>3
  <2>4. QED
    BY <1>0, <1>1, <2>1, <2>2, <2>3
<1>9. d = addr
  <2>1. d \in Seq(Nat) /\ addr \in Seq(Nat) /\ Len(d) = Groups
    BY <1>6, <1>7
  <2>2. QED
    BY <1>8, <2>1, SameSequence
<1>10. QED
  BY <1>9 DEF d, c, Filling

\* The text that IPv6Address::insert prints is read back, by the rules for a
\* double colon, as the address, wherever its zeros are and however many groups
\* it has.
THEOREM AddressesReadBack ==
    \A addr \in Seq(Nat) : Len(addr) = Groups => Addr!TextIsAddress(addr)
<1> SUFFICES ASSUME NEW addr \in Seq(Nat), Len(addr) = Groups
             PROVE  Addr!TextIsAddress(addr)
  OBVIOUS
<1>1. Groups \in Nat \ {0}
  BY LibraryAssumption
<1>2. PICK p, q : FirstGap(addr, p, q)
  BY FirstGapExists
<1>3. p \in 1..(Groups + 1) /\ q \in p..(Groups + 1) /\ (p <= Groups => p < q)
  BY <1>2 DEF FirstGap
<1> DEFINE t == Addr!insert(addr)
<1>4. CASE p = Groups + 1
  <2>1. q = Groups + 1
    BY <1>1, <1>3, <1>4
  <2>2. t = ColonText(addr)
    BY <1>2, <1>4, <2>1, InsertWhole
  <2> HIDE DEF t
  <2>3. Addr!Double(t) = {} /\ Addr!Alternates(t) /\ Addr!Split(t) = addr
    BY <2>2, WholeText, ColonTextRead
  <2>4. QED
    BY <2>3 DEF t, Addr!TextIsAddress
<1>5. CASE p <= Groups
  <2> DEFINE h == p - 1
             n == (Groups + 1) - q
             a == SubSeq(addr, 1, h)
             b == SubSeq(addr, q, Groups)
             c == ColonText(a)
             d == ColonText(b)
             i == Len(c) + 1
             m == q - p
  <2>1. a \in Seq(Nat) /\ Len(a) = h /\ \A k \in 1..h : a[k] = addr[k]
    <3>1. 1 \in Nat \ {0} /\ h \in Nat /\ 1 + h <= Len(addr) + 1 /\ h = (1 + h) - 1
      BY <1>1, <1>3, <1>5
    <3> HIDE DEF h
    <3>2. a \in Seq(Nat) /\ Len(a) = h /\ \A k \in 1..h : a[k] = addr[(1 + k) - 1]
      BY <3>1, SubSeqFacts
    <3>3. \A k \in 1..h : (1 + k) - 1 = k
      BY <3>1
    <3> HIDE DEF a
    <3>4. QED
      BY <3>2, <3>3
  <2>2. b \in Seq(Nat) /\ Len(b) = n /\ \A k \in 1..n : b[k] = addr[(q + k) - 1]
    <3>1. q \in Nat \ {0} /\ n \in Nat /\ q + n <= Len(addr) + 1 /\ Groups = (q + n) - 1
      BY <1>1, <1>3
    <3> HIDE DEF n
    <3>2. QED
      BY <3>1, SubSeqFacts
  <2>3. t = Around(c, d)
    BY <1>2, <1>5, InsertGap DEF Gapped, Head6, Around
  <2> HIDE DEF a, b, t
  <2>4. /\ Addr!Alternates(c) /\ Addr!Split(c) = a
        /\ Addr!Alternates(d) /\ Addr!Split(d) = b
    BY <2>1, <2>2, ColonTextRead
  <2>0. IsGapText(t, i, a, b, c, d)
    BY <2>3 DEF IsGapText
  <2> HIDE DEF c, d, i
  <2>5. /\ i \in Addr!Double(t) /\ Addr!Double(t) = {i}
        /\ SubSeq(t, 1, i - 1) = c /\ SubSeq(t, i + 2, Len(t)) = d
    BY <2>0, <2>1, <2>2, GapText
  <2>6. (Groups - Len(a)) - Len(b) = m /\ m >= 1
    BY <1>1, <1>3, <1>5, <2>1, <2>2
  <2>7. (a \o [k \in 1..m |-> 0]) \o b = addr
    <3> DEFINE z == [k \in 1..m |-> 0]
    <3>1. Surround(addr, p, q, a, b, z)
      BY <2>1, <2>2 DEF Surround
    <3> HIDE DEF z, m, h, n
    <3>4. Filling(a, z, b) = addr
      <4>1. a \in Seq(Nat) /\ b \in Seq(Nat)
        BY <2>1, <2>2
      <4>2. QED
        BY <1>2, <1>5, <3>1, <4>1, Filled
    <3>5. QED
      BY <3>4 DEF z, Filling
  <2> HIDE DEF m
  <2> DEFINE left == SubSeq(t, 1, i - 1)
             right == SubSeq(t, i + 2, Len(t))
             zeros == Groups - Len(Addr!Split(left)) - Len(Addr!Split(right))
  <2>8. left = c /\ right = d
    BY <2>5
  <2> HIDE DEF left, right
  <2>9. zeros = m
    BY <2>4, <2>6, <2>8
  <2> HIDE DEF zeros
  <2>10. /\ Addr!Double(t) = {i} /\ zeros >= 1
         /\ Addr!Alternates(left) /\ Addr!Alternates(right)
         /\ Addr!Split(left) \o [k \in 1..zeros |-> 0] \o Addr!Split(right) = addr
    BY <2>4, <2>5, <2>6, <2>7, <2>8, <2>9
  <2>11. QED
    BY <2>5, <2>10 DEF Addr!TextIsAddress, t, left, right, zeros
<1>6. QED
  BY <1>1, <1>3, <1>4, <1>5

-----------------------------------------------------------------------------
(* The pattern of a log formatter *)

\* The parts that a pattern is put together of: a text, an item, a bare date and
\* a date with its format.
\* The strings; the provers do not know that these are.
Glyph == STRING \cup {"%", "d", "m", "x", "Y", LBrace, RBrace}
Free(v, c) == \A k \in 1..Len(v) : v[k] # c
Begins(v) == v # <<>> /\ v[1] # LBrace
IsText(p) ==
    /\ p.item = "text" /\ p.format = <<>> /\ Begins(p.text)
    /\ Free(p.text, "%")
IsItem(p) ==
    /\ p.item \in Format!s_format_items /\ p.format = <<>>
    /\ p.text = <<"%", p.item>>
IsBare(p) == p.item = "d" /\ p.format = <<>> /\ p.text = <<"%", "d">>
IsDate(p) ==
    /\ p.item = "d" /\ p.text = <<"%", "d", LBrace>> \o p.format \o <<RBrace>>
    /\ Free(p.format, RBrace)
PatternParts ==
    {p \in [item : Glyph \cup {"text"}, text : Seq(Glyph), format : Seq(Glyph)] :
        IsText(p) \/ IsItem(p) \/ IsBare(p) \/ IsDate(p)}

\* The state of the loop of init, and the patterns with the text at its end.
B(mode, tmp, ps, df) ==
    [mode |-> mode, tmp |-> tmp, patterns |-> ps, dateformat |-> df]
Flushed(tmp, ps) == IF tmp = <<>> THEN ps ELSE Append(ps, Format!Text(tmp))
Pat == {p \in [type : {0, 1}, value : Seq(Glyph)] : Format!Known(p)}
IsRun(s, n, g) ==
    g = [i \in 0..n |-> IF i = 0 THEN Format!Start ELSE Format!Step(g[i - 1], s[i])]

LEMMA StepPlain ==
    ASSUME NEW tmp, NEW ps, NEW df, NEW c, c # "%"
    PROVE  Format!Step(B("string", tmp, ps, df), c) = B("string", Append(tmp, c), ps, df)
  BY DEF Format!Step, Format!InString, B

LEMMA StepBehindDate ==
    ASSUME NEW tmp, NEW ps, NEW df, NEW c, c # "%", c # LBrace
    PROVE  Format!Step(B("after_d", tmp, ps, df), c) = B("string", Append(tmp, c), ps, df)
  BY DEF Format!Step, Format!InString, B, LBrace, RBrace

LEMMA StepPercent ==
    ASSUME NEW mode \in {"string", "after_d"}, NEW tmp, NEW ps, NEW df
    PROVE  Format!Step(B(mode, tmp, ps, df), "%")
             = B("item", <<>>, Flushed(tmp, ps), df)
  BY DEF Format!Step, Format!InString, Format!Flush, B, Flushed

LEMMA StepItem ==
    ASSUME NEW tmp, NEW ps, NEW df, NEW c
    PROVE  Format!Step(B("item", tmp, ps, df), c)
             = B(IF c = "d" THEN "after_d" ELSE "string", tmp,
                 Append(ps, Format!Item(c)), df)
  BY DEF Format!Step, B

LEMMA StepOpen ==
    ASSUME NEW tmp, NEW ps, NEW df
    PROVE  Format!Step(B("after_d", tmp, ps, df), LBrace) = B("date", tmp, ps, df)
  BY DEF Format!Step, B, LBrace, RBrace

LEMMA StepDate ==
    ASSUME NEW tmp, NEW ps, NEW df, NEW c, c # RBrace
    PROVE  Format!Step(B("date", tmp, ps, df), c) = B("date", tmp, ps, Append(df, c))
  BY DEF Format!Step, B, LBrace, RBrace

LEMMA StepClose ==
    ASSUME NEW tmp, NEW ps, NEW df
    PROVE  Format!Step(B("date", tmp, ps, df), RBrace) = B("string", tmp, ps, df)
  BY DEF Format!Step, B, LBrace, RBrace

LEMMA RunExists ==
    ASSUME NEW s
    PROVE  \A n \in Nat : \E f : IsRun(s, n, f)
<1> DEFINE T == {n \in Nat : ~\E f : IsRun(s, n, f)}
           a == Format!Start
           next(x, y) == Format!Step(x, y)
<1> SUFFICES ASSUME T # {} PROVE FALSE
  OBVIOUS
<1>0. ASSUME NEW n, NEW f
      PROVE  IsRun(s, n, f) <=>
                f = [i \in 0..n |-> IF i = 0 THEN a ELSE next(f[i - 1], s[i])]
  BY DEF IsRun
<1> HIDE DEF a, next
<1>1. PICK n \in T : \A y \in T : n <= y
  BY LeastNat
<1>2. n # 0
  <2> DEFINE h == [i \in 0..0 |-> a]
  <2>1. h = [i \in 0..0 |-> IF i = 0 THEN a ELSE next(h[i - 1], s[i])]
    OBVIOUS
  <2> HIDE DEF h
  <2>2. IsRun(s, 0, h)
    BY <1>0, <2>1
  <2>3. QED
    BY <1>1, <2>2
<1>3. n - 1 \in Nat /\ n \in Nat
  BY <1>1, <1>2
<1>4. PICK f : IsRun(s, n - 1, f)
  BY <1>1, <1>3
<1> DEFINE g == [i \in 0..n |-> IF i = n THEN next(f[n - 1], s[n]) ELSE f[i]]
<1>5. ASSUME NEW i \in 0..n
      PROVE  g[i] = IF i = 0 THEN a ELSE next(g[i - 1], s[i])
  <2>1. i = n \/ i \in 0..(n - 1)
    BY <1>3
  <2>2. \A j \in 0..(n - 1) : j \in 0..n /\ j # n
    BY <1>3
  <2>3. \A j \in 0..(n - 1) : g[j] = f[j]
    BY <2>2
  <2>4. i # 0 => i - 1 \in 0..(n - 1)
    BY <1>3
  <2>5. CASE i = n
    <3>1. g[i] = next(f[n - 1], s[n])
      BY <2>5
    <3>2. g[n - 1] = f[n - 1]
      BY <1>2, <2>3, <2>4, <2>5
    <3> HIDE DEF g
    <3>3. QED
      BY <1>2, <2>5, <3>1, <3>2
  <2>6. CASE i \in 0..(n - 1)
    <3>1. f = [j \in 0..(n - 1) |-> IF j = 0 THEN a ELSE next(f[j - 1], s[j])]
      BY <1>0, <1>4
    <3>2. f[i] = IF i = 0 THEN a ELSE next(f[i - 1], s[i])
      BY <2>6, <3>1
    <3> HIDE DEF g
    <3>3. QED
      BY <2>3, <2>4, <2>6, <3>2
  <2>7. QED
    BY <2>1, <2>5, <2>6
<1>6. g = [i \in 0..n |-> IF i = 0 THEN a ELSE next(g[i - 1], s[i])]
  <2>1. g = [i \in 0..n |-> g[i]]
    OBVIOUS
  <2> HIDE DEF g
  <2>2. QED
    BY <1>5, <2>1
<1> HIDE DEF g
<1>7. IsRun(s, n, g)
  BY <1>0, <1>6
<1>8. QED
  BY <1>1, <1>7

LEMMA RunSteps ==
    ASSUME NEW s, NEW n \in Nat, NEW g, IsRun(s, n, g)
    PROVE  /\ g[0] = B("string", <<>>, <<>>, <<>>)
           /\ \A i \in Nat : i + 1 <= n => g[i + 1] = Format!Step(g[i], s[i + 1])
<1>1. g[0] = B("string", <<>>, <<>>, <<>>)
  BY DEF IsRun, B, Format!Start
<1>2. ASSUME NEW i \in Nat, i + 1 <= n
      PROVE  g[i + 1] = Format!Step(g[i], s[i + 1])
  <2>1. i + 1 \in 0..n /\ i + 1 # 0 /\ (i + 1) - 1 = i
    BY <1>2
  <2> DEFINE j == i + 1
  <2>2. g[j] = Format!Step(g[j - 1], s[j])
    <3> HIDE DEF j
    <3>1. j \in 0..n /\ j # 0
      BY <2>1 DEF j
    <3>2. QED
      BY <3>1 DEF IsRun
  <2>3. QED
    BY <2>1, <2>2
<1>3. QED
  BY <1>1, <1>2

\* A word stands in the pattern; the run over its k-th sign.
Runs(s, g, v, at) ==
    /\ Len(s) \in Nat /\ IsRun(s, Len(s), g) /\ v \in Seq(Glyph) /\ at \in Nat
    /\ StandsAt(v, s, at)

LEMMA RunOver ==
    ASSUME NEW s, NEW g, NEW v, NEW at, Runs(s, g, v, at), NEW k \in 1..Len(v)
    PROVE  g[at + k] = Format!Step(g[at + (k - 1)], v[k])
<1> DEFINE i == at + (k - 1)
<1>1. /\ Len(s) \in Nat /\ IsRun(s, Len(s), g) /\ v \in Seq(Glyph) /\ at \in Nat
      /\ StandsAt(v, s, at)
  BY DEF Runs
<1>2. i \in Nat /\ i + 1 = at + k /\ i + 1 <= Len(s) /\ s[i + 1] = v[k]
  BY <1>1 DEF StandsAt
<1> HIDE DEF i
<1>3. g[i + 1] = Format!Step(g[i], s[i + 1])
  BY <1>1, <1>2, RunSteps
<1>4. QED
  BY <1>2, <1>3 DEF i

\* The text t is u with the first k signs of v put behind it.
Lengthened(t, u, v, k) ==
    /\ t \in Seq(Glyph) /\ Len(t) = Len(u) + k
    /\ \A j \in 1..Len(u) : t[j] = u[j]
    /\ \A j \in 1..k : t[Len(u) + j] = v[j]

LEMMA LengthenedNone == ASSUME NEW u \in Seq(Glyph), NEW v PROVE Lengthened(u, u, v, 0)
  BY DEF Lengthened

LEMMA LengthenedMore ==
    ASSUME NEW u \in Seq(Glyph), NEW v \in Seq(Glyph), NEW k \in 1..Len(v),
           NEW t, Lengthened(t, u, v, k - 1)
    PROVE  Lengthened(Append(t, v[k]), u, v, k)
<1> DEFINE n == Len(u)
           x == v[k]
           r == Append(t, x)
<1>1. /\ t \in Seq(Glyph) /\ Len(t) = n + (k - 1) /\ n \in Nat /\ k \in Nat \ {0}
      /\ x \in Glyph
  BY DEF Lengthened
<1>2. /\ \A j \in 1..n : t[j] = u[j]
      /\ \A j \in 1..(k - 1) : t[n + j] = v[j]
  BY DEF Lengthened
<1> HIDE DEF x
<1>3. /\ r \in Seq(Glyph) /\ Len(r) = Len(t) + 1 /\ r[Len(t) + 1] = x
      /\ \A j \in 1..Len(t) : r[j] = t[j]
  <2>1. t \in Seq(Glyph) /\ x \in Glyph
    BY <1>1
  <2>2. QED
    BY <2>1
<1> HIDE DEF r, n
<1>4. Len(r) = n + k /\ Len(t) + 1 = n + k
  BY <1>1, <1>3
<1>5. ASSUME NEW j \in 1..n PROVE r[j] = u[j]
  <2>1. j \in 1..Len(t)
    BY <1>1
  <2>2. QED
    BY <1>2, <1>3, <2>1
<1>6. ASSUME NEW j \in 1..k PROVE r[n + j] = v[j]
  <2>1. CASE j = k
    BY <1>3, <1>4, <2>1 DEF x
  <2>2. CASE j # k
    <3>1. j \in 1..(k - 1) /\ n + j \in 1..Len(t)
      BY <1>1, <2>2
    <3>2. QED
      BY <1>2, <1>3, <3>1
  <2>3. QED
    BY <2>1, <2>2
<1>7. QED
  BY <1>3, <1>4, <1>5, <1>6 DEF Lengthened, n, r, x

LEMMA LengthenedAll ==
    ASSUME NEW u \in Seq(Glyph), NEW v \in Seq(Glyph), NEW t,
           Lengthened(t, u, v, Len(v))
    PROVE  t = u \o v
<1> DEFINE r == u \o v
           n == Len(u)
           m == Len(v)
<1>1. IsJoin(r, u, v)
  BY DEF IsJoin
<1> HIDE DEF r
<1>2. /\ r \in Seq(Glyph) /\ Len(r) = n + m
      /\ \A k \in 1..n : r[k] = u[k]
      /\ \A k \in 1..m : r[n + k] = v[k]
  BY <1>1, JoinFacts
<1>3. /\ t \in Seq(Glyph) /\ Len(t) = n + m
      /\ \A j \in 1..n : t[j] = u[j]
      /\ \A j \in 1..m : t[n + j] = v[j]
  BY DEF Lengthened
<1>4. n \in Nat /\ m \in Nat
  OBVIOUS
<1> HIDE DEF n, m
<1>5. ASSUME NEW k \in 1..(n + m) PROVE t[k] = r[k]
  <2>1. CASE k <= n
    <3>1. k \in 1..n
      BY <1>4, <2>1
    <3>2. QED
      BY <1>2, <1>3, <3>1
  <2>2. CASE ~(k <= n)
    <3> DEFINE j == k - n
    <3>1. j \in 1..m /\ k = n + j
      BY <1>4, <2>2
    <3> HIDE DEF j
    <3>2. QED
      BY <1>2, <1>3, <3>1
  <2>3. QED
    BY <2>1, <2>2
<1>6. t = r
  <2>1. t \in Seq(Glyph) /\ r \in Seq(Glyph) /\ Len(t) = n + m /\ Len(r) = n + m
    BY <1>2, <1>3
  <2>2. QED
    BY <1>5, <2>1, SameSequence
<1>7. QED
  BY <1>6 DEF r

LEMMA RunText ==
    ASSUME NEW s, NEW g, NEW v, NEW at, Runs(s, g, v, at), Begins(v),
           Free(v, "%"),
           NEW mode \in {"string", "after_d"}, NEW tmp \in Seq(Glyph), NEW ps,
           NEW df, g[at] = B(mode, tmp, ps, df)
    PROVE  g[at + Len(v)] = B("string", tmp \o v, ps, df)
<1> DEFINE n == Len(v)
           P(k) == \E t : Lengthened(t, tmp, v, k) /\ g[at + k] = B("string", t, ps, df)
           T == {k \in Nat : 1 <= k /\ k <= n /\ ~P(k)}
<1>1. v \in Seq(Glyph) /\ at \in Nat /\ n \in Nat \ {0}
  <2>1. v \in Seq(Glyph) /\ at \in Nat
    BY DEF Runs
  <2>2. n \in Nat \ {0}
    BY <2>1, NonEmpty DEF Begins
  <2>3. QED
    BY <2>1, <2>2
<1>2. ASSUME NEW k \in 1..n
      PROVE  v[k] # "%" /\ g[at + k] = Format!Step(g[at + (k - 1)], v[k])
  BY RunOver DEF Free
<1> HIDE DEF n
<1>3. P(1)
  <2> DEFINE c == v[1]
  <2>1. 1 \in 1..n /\ at + (1 - 1) = at /\ 1 \in 1..Len(v)
    BY <1>1 DEF n
  <2>2. c # "%" /\ g[at + 1] = Format!Step(g[at], c) /\ c # LBrace
    BY <1>2, <2>1 DEF Begins
  <2>3. Lengthened(Append(tmp, c), tmp, v, 1)
    <3>1. Lengthened(tmp, tmp, v, 1 - 1)
      BY LengthenedNone
    <3>2. QED
      BY <1>1, <2>1, <3>1, LengthenedMore
  <2> HIDE DEF c
  <2>4. g[at + 1] = B("string", Append(tmp, c), ps, df)
    <3>1. CASE mode = "string"
      BY <2>2, <3>1, StepPlain
    <3>2. CASE mode = "after_d"
      BY <2>2, <3>2, StepBehindDate
    <3>3. QED
      BY <3>1, <3>2
  <2>5. QED
    BY <2>3, <2>4
<1>4. ASSUME NEW k \in 2..n, P(k - 1) PROVE P(k)
  <2> DEFINE c == v[k]
  <2>1. k \in 1..n /\ k \in 1..Len(v)
    BY <1>1 DEF n
  <2>2. c # "%" /\ g[at + k] = Format!Step(g[at + (k - 1)], c)
    BY <1>2, <2>1
  <2>3. PICK t : Lengthened(t, tmp, v, k - 1) /\ g[at + (k - 1)] = B("string", t, ps, df)
    BY <1>4
  <2>4. Lengthened(Append(t, c), tmp, v, k)
    BY <1>1, <2>1, <2>3, LengthenedMore
  <2> HIDE DEF c
  <2>5. g[at + k] = B("string", Append(t, c), ps, df)
    BY <2>2, <2>3, StepPlain
  <2>6. QED
    BY <2>4, <2>5
<1> HIDE DEF P
<1>5. T = {}
  <2> SUFFICES ASSUME T # {} PROVE FALSE
    OBVIOUS
  <2>1. PICK k \in T : \A y \in T : k <= y
    BY LeastNat
  <2>2. k # 1
    BY <1>3, <2>1
  <2>3. k \in 2..n /\ k - 1 \in Nat /\ 1 <= k - 1 /\ k - 1 <= n /\ ~(k <= k - 1)
    BY <1>1, <2>1, <2>2
  <2>4. P(k - 1)
    BY <2>1, <2>3
  <2>5. QED
    BY <1>4, <2>1, <2>3, <2>4
<1>6. P(n)
  <2>1. 1 <= n /\ n <= n /\ n \in Nat
    BY <1>1
  <2>2. QED
    BY <1>5, <2>1
<1>7. PICK t : Lengthened(t, tmp, v, n) /\ g[at + n] = B("string", t, ps, df)
  BY <1>6 DEF P
<1>8. t = tmp \o v
  BY <1>1, <1>7, LengthenedAll DEF n
<1>9. QED
  BY <1>7, <1>8 DEF n

\* A percent sign and a letter.
LEMMA RunItem ==
    ASSUME NEW s, NEW g, NEW c, NEW at, NEW v, v = <<"%", c>>,
           Runs(s, g, v, at),
           NEW mode \in {"string", "after_d"}, NEW tmp, NEW ps, NEW df,
           g[at] = B(mode, tmp, ps, df)
    PROVE  g[at + 2] = B(IF c = "d" THEN "after_d" ELSE "string", <<>>,
                         Append(Flushed(tmp, ps), Format!Item(c)), df)
<1>1. at \in Nat /\ Len(v) = 2 /\ v[1] = "%" /\ v[2] = c
  BY DEF Runs
<1>2. \A k \in 1..Len(v) : g[at + k] = Format!Step(g[at + (k - 1)], v[k])
  BY RunOver
<1>3. 1 \in 1..Len(v) /\ 2 \in 1..Len(v) /\ at + (1 - 1) = at /\ at + (2 - 1) = at + 1
  BY <1>1
<1>4. g[at + 1] = Format!Step(g[at], "%") /\ g[at + 2] = Format!Step(g[at + 1], c)
  BY <1>1, <1>2, <1>3
<1>5. g[at + 1] = B("item", <<>>, Flushed(tmp, ps), df)
  BY <1>4, StepPercent
<1> DEFINE fl == Flushed(tmp, ps)
           no == <<>>
<1> HIDE DEF fl, no
<1>6. Format!Step(B("item", no, fl, df), c)
             = B(IF c = "d" THEN "after_d" ELSE "string", no,
                 Append(fl, Format!Item(c)), df)
  BY StepItem
<1>7. QED
  BY <1>4, <1>5, <1>6 DEF fl, no

\* A date and its format.
LEMMA RunFormat ==
    ASSUME NEW s, NEW g, NEW v, NEW at, Runs(s, g, v, at), Free(v, RBrace),
           NEW tmp, NEW ps, NEW df \in Seq(Glyph), g[at] = B("date", tmp, ps, df)
    PROVE  g[at + Len(v)] = B("date", tmp, ps, df \o v)
<1> DEFINE n == Len(v)
           P(k) == \E t : Lengthened(t, df, v, k) /\ g[at + k] = B("date", tmp, ps, t)
           T == {k \in Nat : k <= n /\ ~P(k)}
<1>1. v \in Seq(Glyph) /\ at \in Nat /\ n \in Nat
  BY DEF Runs
<1>2. ASSUME NEW k \in 1..n
      PROVE  v[k] # RBrace /\ g[at + k] = Format!Step(g[at + (k - 1)], v[k])
  BY RunOver DEF Free
<1> HIDE DEF n
<1>3. P(0)
  <2>1. at + 0 = at
    BY <1>1
  <2>2. Lengthened(df, df, v, 0)
    BY LengthenedNone
  <2>3. QED
    BY <2>1, <2>2
<1>4. ASSUME NEW k \in 1..n, P(k - 1) PROVE P(k)
  <2> DEFINE c == v[k]
  <2>1. k \in 1..Len(v)
    BY <1>1 DEF n
  <2>2. c # RBrace /\ g[at + k] = Format!Step(g[at + (k - 1)], c)
    BY <1>2
  <2>3. PICK t : Lengthened(t, df, v, k - 1) /\ g[at + (k - 1)] = B("date", tmp, ps, t)
    BY <1>4
  <2>4. Lengthened(Append(t, c), df, v, k)
    BY <1>1, <2>1, <2>3, LengthenedMore
  <2> HIDE DEF c
  <2>5. g[at + k] = B("date", tmp, ps, Append(t, c))
    BY <2>2, <2>3, StepDate
  <2>6. QED
    BY <2>4, <2>5
<1> HIDE DEF P
<1>5. T = {}
  <2> SUFFICES ASSUME T # {} PROVE FALSE
    OBVIOUS
  <2>1. PICK k \in T : \A y \in T : k <= y
    BY LeastNat
  <2>2. k # 0
    BY <1>3, <2>1
  <2>3. k \in 1..n /\ k - 1 \in Nat /\ k - 1 <= n /\ ~(k <= k - 1)
    BY <1>1, <2>1, <2>2
  <2>4. P(k - 1)
    BY <2>1, <2>3
  <2>5. QED
    BY <1>4, <2>1, <2>3, <2>4
<1>6. P(n)
  <2>1. n <= n /\ n \in Nat
    BY <1>1
  <2>2. QED
    BY <1>5, <2>1
<1>7. PICK t : Lengthened(t, df, v, n) /\ g[at + n] = B("date", tmp, ps, t)
  BY <1>6 DEF P
<1>8. t = df \o v
  BY <1>1, <1>7, LengthenedAll DEF n
<1>9. QED
  BY <1>7, <1>8 DEF n

\* The word of a date with a format, and its middle.
Braced(v, f) == v = <<"%", "d", LBrace>> \o f \o <<RBrace>>

LEMMA BracedFacts ==
    ASSUME NEW f \in Seq(Glyph), NEW v, Braced(v, f)
    PROVE  /\ Len(v) = Len(f) + 4 /\ v[1] = "%" /\ v[2] = "d" /\ v[3] = LBrace
           /\ v[Len(f) + 4] = RBrace /\ \A k \in 1..Len(f) : v[3 + k] = f[k]
<1> DEFINE h == <<"%", "d", LBrace>>
           t == <<RBrace>>
           a == h \o f
           b == a \o t
<1>1. h \in Seq(Glyph) /\ t \in Seq(Glyph)
  <2>1. "%" \in Glyph /\ "d" \in Glyph
    BY DEF Glyph
  <2>2. LBrace \in Glyph /\ RBrace \in Glyph
    BY DEF Glyph
  <2>3. QED
    BY <2>1, <2>2
<1>2. /\ Len(h) = 3 /\ h[1] = "%" /\ h[2] = "d" /\ h[3] = LBrace
      /\ Len(t) = 1 /\ t[1] = RBrace
  OBVIOUS
<1>3. IsJoin(a, h, f) /\ IsJoin(b, a, t)
  BY DEF IsJoin
<1>4. v = b
  BY DEF Braced
<1> HIDE DEF h, t, a, b
<1>5. /\ a \in Seq(Glyph) /\ Len(a) = Len(h) + Len(f)
      /\ \A k \in 1..Len(h) : a[k] = h[k]
      /\ \A k \in 1..Len(f) : a[Len(h) + k] = f[k]
  <2>1. h \in Seq(Glyph) /\ f \in Seq(Glyph) /\ IsJoin(a, h, f)
    BY <1>1, <1>3
  <2>2. QED
    BY <2>1, JoinFacts
<1>6. /\ Len(b) = Len(a) + Len(t)
      /\ \A k \in 1..Len(a) : b[k] = a[k]
      /\ \A k \in 1..Len(t) : b[Len(a) + k] = t[k]
  <2>1. a \in Seq(Glyph) /\ t \in Seq(Glyph) /\ IsJoin(b, a, t)
    BY <1>1, <1>3, <1>5
  <2>2. QED
    BY <2>1, JoinFacts
<1>7. Len(f) \in Nat
  OBVIOUS
<1>8. Len(a) = Len(f) + 3 /\ Len(b) = Len(f) + 4 /\ Len(a) + 1 = Len(f) + 4
  BY <1>2, <1>5, <1>6, <1>7
<1>9. \A k \in 1..3 : k \in 1..Len(h) /\ k \in 1..Len(a)
  BY <1>2, <1>7, <1>8
<1>10. b[1] = "%" /\ b[2] = "d" /\ b[3] = LBrace
  <2>1. 1 \in 1..3 /\ 2 \in 1..3 /\ 3 \in 1..3
    OBVIOUS
  <2>2. QED
    BY <1>2, <1>5, <1>6, <1>9, <2>1
<1>11. b[Len(f) + 4] = RBrace
  <2>1. 1 \in 1..Len(t)
    BY <1>2
  <2>2. QED
    BY <1>2, <1>6, <1>8, <2>1
<1>12. ASSUME NEW k \in 1..Len(f) PROVE b[3 + k] = f[k]
  <2>1. 3 + k \in 1..Len(a) /\ a[3 + k] = f[k]
    BY <1>2, <1>5, <1>7, <1>8
  <2>2. QED
    BY <1>6, <2>1
<1>13. QED
  BY <1>4, <1>8, <1>10, <1>11, <1>12

LEMMA RunDate ==
    ASSUME NEW s, NEW g, NEW f \in Seq(Glyph), NEW at, NEW v, Braced(v, f),
           Free(f, RBrace), Runs(s, g, v, at),
           NEW mode \in {"string", "after_d"}, NEW tmp, NEW ps,
           NEW df \in Seq(Glyph), g[at] = B(mode, tmp, ps, df)
    PROVE  g[at + Len(v)] = B("string", <<>>,
                              Append(Flushed(tmp, ps), Format!Item("d")), df \o f)
<1> DEFINE n == Len(f)
           fl == Flushed(tmp, ps)
           no == <<>>
           is == Append(fl, Format!Item("d"))
<1>1. /\ Len(v) = n + 4 /\ v[1] = "%" /\ v[2] = "d" /\ v[3] = LBrace
      /\ v[n + 4] = RBrace /\ \A k \in 1..n : v[3 + k] = f[k]
  BY BracedFacts
<1>2. at \in Nat /\ n \in Nat /\ StandsAt(v, s, at) /\ Len(s) \in Nat /\ IsRun(s, Len(s), g)
  BY DEF Runs
<1>3. ASSUME NEW k \in 1..Len(v)
      PROVE  g[at + k] = Format!Step(g[at + (k - 1)], v[k])
  BY RunOver
<1>4. /\ g[at + 1] = Format!Step(g[at], "%") /\ g[at + 2] = Format!Step(g[at + 1], "d")
      /\ g[at + 3] = Format!Step(g[at + 2], LBrace)
      /\ g[at + Len(v)] = Format!Step(g[(at + 3) + n], RBrace)
  <2>1. /\ 1 \in 1..Len(v) /\ 2 \in 1..Len(v) /\ 3 \in 1..Len(v) /\ n + 4 \in 1..Len(v)
        /\ at + (1 - 1) = at /\ at + (2 - 1) = at + 1 /\ at + (3 - 1) = at + 2
        /\ at + ((n + 4) - 1) = (at + 3) + n
    BY <1>1, <1>2
  <2>2. QED
    BY <1>1, <1>3, <2>1
<1>5. g[at + 1] = B("item", no, fl, df)
  BY <1>4, StepPercent
<1> HIDE DEF fl, no
<1>6. g[at + 2] = B("after_d", no, is, df)
  <2>1. Format!Step(B("item", no, fl, df), "d")
             = B(IF "d" = "d" THEN "after_d" ELSE "string", no,
                 Append(fl, Format!Item("d")), df)
    BY StepItem
  <2>2. QED
    BY <1>4, <1>5, <2>1
<1> HIDE DEF is
<1>7. g[at + 3] = B("date", no, is, df)
  BY <1>4, <1>6, StepOpen
<1>8. Runs(s, g, f, at + 3)
  <2>1. StandsAt(f, s, at + 3)
    <3>1. at + Len(v) <= Len(s) /\ \A k \in 1..Len(v) : s[at + k] = v[k]
      BY <1>2 DEF StandsAt
    <3>2. (at + 3) + n <= Len(s)
      BY <1>1, <1>2, <3>1
    <3>3. ASSUME NEW k \in 1..n PROVE s[(at + 3) + k] = f[k]
      <4>1. 3 + k \in 1..Len(v) /\ at + (3 + k) = (at + 3) + k
        BY <1>1, <1>2
      <4>2. s[at + (3 + k)] = v[3 + k]
        BY <3>1, <4>1
      <4>3. QED
        BY <1>1, <4>1, <4>2
    <3>4. QED
      BY <3>2, <3>3 DEF StandsAt
  <2>2. QED
    BY <1>2, <2>1 DEF Runs
<1>9. g[(at + 3) + n] = B("date", no, is, df \o f)
  <2> DEFINE a == at + 3
  <2>1. g[a] = B("date", no, is, df) /\ Runs(s, g, f, a)
    BY <1>7, <1>8
  <2> HIDE DEF a
  <2>2. g[a + Len(f)] = B("date", no, is, df \o f)
    BY <2>1, RunFormat
  <2>3. QED
    BY <2>2 DEF a
<1> DEFINE e == df \o f
<1> HIDE DEF e
<1>10. g[at + Len(v)] = B("string", no, is, e)
  BY <1>4, <1>9, StepClose DEF e
<1>11. QED
  BY <1>10 DEF no, is, fl, e

\* The items that the patterns ps become, with the format d of the dates.
ItemOf(p, d) == IF p = Format!Item("d") THEN Format!Date(d) ELSE p
Mapped(ps, d) == [k \in 1..Len(ps) |-> ItemOf(ps[k], d)]
Ready(d) == Pat \cup {Format!Date(d)}

LEMMA ItemOfs ==
    ASSUME NEW d
    PROVE  /\ \A t : ItemOf(Format!Text(t), d) = Format!Text(t)
           /\ \A c : c # "d" => ItemOf(Format!Item(c), d) = Format!Item(c)
           /\ ItemOf(Format!Item("d"), d) = Format!Date(d)
<1>1. \A t : Format!Text(t) # Format!Item("d")
  <2>1. \A t : Format!Text(t).type = 0
    BY DEF Format!Text
  <2>2. Format!Item("d").type = 1
    BY DEF Format!Item
  <2>3. QED
    BY <2>1, <2>2
<1>2. \A c : c # "d" => Format!Item(c) # Format!Item("d")
  <2>1. \A c : Format!Item(c).value[1] = c
    BY DEF Format!Item
  <2>2. QED
    BY <2>1
<1>3. QED
  BY <1>1, <1>2 DEF ItemOf

LEMMA Pats ==
    /\ \A t \in Seq(Glyph) : Format!Text(t) \in Pat
    /\ \A c \in Glyph : c \in Format!s_format_items \/ c = "d" => Format!Item(c) \in Pat
<1>1. ASSUME NEW t \in Seq(Glyph) PROVE Format!Text(t) \in Pat
  BY DEF Format!Text, Pat, Format!Known
<1>2. ASSUME NEW c \in Glyph, c \in Format!s_format_items \/ c = "d"
      PROVE  Format!Item(c) \in Pat
  <2>1. Format!Item(c) \in [type : {0, 1}, value : Seq(Glyph)]
    BY DEF Format!Item
  <2>2. Format!Item(c).value[1] = c
    BY DEF Format!Item
  <2>3. Format!Known(Format!Item(c))
    <3> DEFINE p == Format!Item(c)
    <3> HIDE DEF p
    <3>1. p.value[1] \in Format!s_format_items \cup {"d"}
      BY <1>2, <2>2 DEF p
    <3>2. Format!Known(p)
      BY <3>1 DEF Format!Known
    <3>3. QED
      BY <3>2 DEF p
  <2>4. QED
    BY <2>1, <2>3 DEF Pat
<1>3. QED
  BY <1>1, <1>2

LEMMA MappedFacts ==
    ASSUME NEW ps \in Seq(Pat), NEW d, NEW is, is = Mapped(ps, d)
    PROVE  /\ is \in Seq(Ready(d)) /\ Len(is) = Len(ps)
           /\ \A k \in 1..Len(ps) : is[k] = ItemOf(ps[k], d)
<1>1. Len(ps) \in Nat /\ \A k \in 1..Len(ps) : ps[k] \in Pat
  OBVIOUS
<1>2. \A k \in 1..Len(ps) : ItemOf(ps[k], d) \in Ready(d)
  BY <1>1 DEF ItemOf, Ready
<1>3. QED
  BY <1>1, <1>2 DEF Mapped

LEMMA MappedMore ==
    ASSUME NEW ps \in Seq(Pat), NEW x \in Pat, NEW d
    PROVE  Mapped(Append(ps, x), d) = Append(Mapped(ps, d), ItemOf(x, d))
<1> DEFINE n == Len(ps)
           qs == Append(ps, x)
           is == Mapped(ps, d)
           js == Mapped(qs, d)
           y == ItemOf(x, d)
           ks == Append(is, y)
<1>1. /\ qs \in Seq(Pat) /\ Len(qs) = n + 1 /\ n \in Nat /\ qs[n + 1] = x
      /\ \A k \in 1..n : qs[k] = ps[k]
  OBVIOUS
<1> HIDE DEF qs
<1>2. /\ is \in Seq(Ready(d)) /\ Len(is) = n
      /\ \A k \in 1..n : is[k] = ItemOf(ps[k], d)
  BY MappedFacts
<1>3. /\ js \in Seq(Ready(d)) /\ Len(js) = n + 1
      /\ \A k \in 1..(n + 1) : js[k] = ItemOf(qs[k], d)
  BY <1>1, MappedFacts
<1>4. y \in Ready(d)
  BY DEF ItemOf, Ready
<1> HIDE DEF is, js, y
<1>5. /\ ks \in Seq(Ready(d)) /\ Len(ks) = n + 1 /\ ks[n + 1] = y
      /\ \A k \in 1..n : ks[k] = is[k]
  <2>1. is \in Seq(Ready(d)) /\ Len(is) = n /\ n \in Nat
    BY <1>1, <1>2
  <2>2. QED
    BY <1>4, <2>1
<1> HIDE DEF ks, n
<1>6. ASSUME NEW k \in 1..(n + 1) PROVE js[k] = ks[k]
  <2>1. CASE k = n + 1
    BY <1>1, <1>3, <1>5, <2>1 DEF y
  <2>2. CASE k # n + 1
    <3>1. k \in 1..n
      BY <1>1, <2>2
    <3>2. QED
      BY <1>1, <1>2, <1>3, <1>5, <3>1
  <2>3. QED
    BY <2>1, <2>2
<1>7. js = ks
  <2>1. js \in Seq(Ready(d)) /\ ks \in Seq(Ready(d)) /\ Len(js) = n + 1 /\ Len(ks) = n + 1
    BY <1>3, <1>5
  <2>2. QED
    BY <1>6, <2>1, SameSequence
<1>8. QED
  BY <1>7 DEF js, ks, is, qs, y

\* One part more in the list of items.
Extended(is, p, date) ==
    LET e == Len(is)
    IN  CASE p.item = "text" /\ e > 0 /\ is[e].type = 0 ->
                [is EXCEPT ![e].value = @ \o p.text]
          [] p.item = "text" /\ ~(e > 0 /\ is[e].type = 0) ->
                Append(is, Format!Text(p.text))
          [] p.item = "d" -> Append(is, Format!Date(date))
          [] OTHER -> Append(is, Format!Item(p.item))

\* The text in tmp is not of the patterns yet, which end in an item.
Apart(tmp, ps) ==
    /\ tmp \in Seq(Glyph) /\ ps \in Seq(Pat)
    /\ tmp = <<>> => Len(ps) = 0 \/ ps[Len(ps)].type = 1

LEMMA FlushedFacts ==
    ASSUME NEW tmp, NEW ps, Apart(tmp, ps)
    PROVE  Flushed(tmp, ps) \in Seq(Pat)
<1>1. CASE tmp = <<>>
  BY <1>1 DEF Apart, Flushed
<1>2. CASE tmp # <<>>
  <2>1. Format!Text(tmp) \in Pat /\ ps \in Seq(Pat)
    BY Pats DEF Apart
  <2>2. QED
    BY <1>2, <2>1 DEF Flushed
<1>3. QED
  BY <1>1, <1>2

LEMMA ExtendedItem ==
    ASSUME NEW tmp, NEW ps, Apart(tmp, ps), NEW p \in PatternParts, ~IsText(p),
           NEW date
    PROVE  /\ Extended(Mapped(Flushed(tmp, ps), date), p, date)
                = Mapped(Append(Flushed(tmp, ps), Format!Item(p.item)), date)
           /\ Apart(<<>>, Append(Flushed(tmp, ps), Format!Item(p.item)))
<1> DEFINE qs == Flushed(tmp, ps)
           c == p.item
           x == Format!Item(c)
<1>1. qs \in Seq(Pat)
  BY FlushedFacts
<1>2. c # "text" /\ (c \in Format!s_format_items \/ c = "d") /\ c \in Glyph
  <2>1. IsItem(p) \/ IsBare(p) \/ IsDate(p)
    BY DEF PatternParts
  <2>2. c \in Format!s_format_items \/ c = "d"
    BY <2>1 DEF IsItem, IsBare, IsDate
  <2>3. c # "text"
    BY <2>2 DEF Format!s_format_items
  <2>4. c \in Glyph
    BY <2>3 DEF PatternParts
  <2>5. QED
    BY <2>2, <2>3, <2>4
<1> HIDE DEF qs, c
<1>3. x \in Pat
  BY <1>2, Pats
<1>4. x.type = 1
  BY DEF Format!Item
<1> HIDE DEF x
<1>5. Mapped(Append(qs, x), date) = Append(Mapped(qs, date), ItemOf(x, date))
  BY <1>1, <1>3, MappedMore
<1>6. ItemOf(x, date) = IF c = "d" THEN Format!Date(date) ELSE Format!Item(c)
  BY ItemOfs DEF x
<1>7. Extended(Mapped(qs, date), p, date)
        = Append(Mapped(qs, date),
                 IF c = "d" THEN Format!Date(date) ELSE Format!Item(c))
  BY <1>2 DEF Extended, c
<1>8. Apart(<<>>, Append(qs, x))
  <2> DEFINE rs == Append(qs, x)
  <2>1. rs \in Seq(Pat) /\ Len(rs) = Len(qs) + 1 /\ rs[Len(qs) + 1] = x
    BY <1>1, <1>3
  <2> HIDE DEF rs
  <2>2. <<>> \in Seq(Glyph) /\ rs[Len(rs)].type = 1
    BY <1>4, <2>1
  <2>3. QED
    BY <2>1, <2>2 DEF Apart, rs
<1>9. QED
  BY <1>5, <1>6, <1>7, <1>8 DEF qs, x, c

LEMMA TextLonger ==
    ASSUME NEW t, NEW v
    PROVE  /\ Format!Text(t).type = 0
           /\ [Format!Text(t) EXCEPT !.value = @ \o v] = Format!Text(t \o v)
<1> DEFINE r == Format!Text(t)
           w == t \o v
<1>1. r.type = 0 /\ r.value = t
  BY DEF Format!Text
<1>2. \A u : [r EXCEPT !.value = u] = Format!Text(u)
  BY DEF Format!Text
<1> HIDE DEF r
<1>3. [r EXCEPT !.value = @ \o v] = [r EXCEPT !.value = w]
  BY <1>1
<1> HIDE DEF w
<1>4. [r EXCEPT !.value = w] = Format!Text(w)
  BY <1>2
<1>5. QED
  BY <1>1, <1>3, <1>4 DEF r, w

LEMMA ExtendedText ==
    ASSUME NEW tmp, NEW ps, Apart(tmp, ps), NEW p, p.item = "text",
           NEW v \in Seq(Glyph), p.text = v, v # <<>>, NEW date
    PROVE  /\ Extended(Mapped(Flushed(tmp, ps), date), p, date)
                = Mapped(Flushed(tmp \o v, ps), date)
           /\ Apart(tmp \o v, ps)
<1>1. /\ tmp \in Seq(Glyph) /\ ps \in Seq(Pat)
      /\ tmp = <<>> => Len(ps) = 0 \/ ps[Len(ps)].type = 1
  BY DEF Apart
<1> DEFINE u == tmp \o v
           n == Len(ps)
           is == Mapped(ps, date)
<1>2. u \in Seq(Glyph) /\ u # <<>>
  <2>1. Len(v) \in Nat \ {0}
    BY NonEmpty
  <2>2. u \in Seq(Glyph) /\ Len(u) = Len(tmp) + Len(v)
    BY <1>1
  <2> HIDE DEF u
  <2>3. Len(tmp) \in Nat
    BY <1>1
  <2>4. Len(u) # 0
    BY <2>1, <2>2, <2>3
  <2>5. QED
    BY <2>2, <2>4
<1>3. /\ is \in Seq(Ready(date)) /\ Len(is) = n /\ n \in Nat
      /\ \A k \in 1..n : is[k] = ItemOf(ps[k], date)
  BY <1>1, MappedFacts
<1>4. Flushed(u, ps) = Append(ps, Format!Text(u))
  BY <1>2 DEF Flushed
<1>5. tmp = <<>> => u = v
  <2>1. <<>> \o v = v
    BY WithNothing
  <2>2. QED
    BY <2>1
<1> HIDE DEF u, is
<1>6. Format!Text(u) \in Pat /\ Format!Text(tmp) \in Pat
  BY <1>1, <1>2, Pats
<1>7. Mapped(Append(ps, Format!Text(u)), date) = Append(is, Format!Text(u))
  <2>1. ItemOf(Format!Text(u), date) = Format!Text(u)
    BY ItemOfs
  <2> DEFINE x == Format!Text(u)
  <2> HIDE DEF x
  <2>2. Mapped(Append(ps, x), date) = Append(Mapped(ps, date), ItemOf(x, date))
    BY <1>1, <1>6, MappedMore DEF x
  <2>3. QED
    BY <2>1, <2>2 DEF is, x
<1>8. Apart(u, ps)
  BY <1>1, <1>2 DEF Apart
<1>9. CASE tmp = <<>>
  <2>1. Flushed(tmp, ps) = ps
    BY <1>9 DEF Flushed
  <2>2. ~(Len(is) > 0 /\ is[Len(is)].type = 0)
    <3> SUFFICES ASSUME Len(is) > 0, is[Len(is)].type = 0 PROVE FALSE
      OBVIOUS
    <3>1. n \in 1..n /\ n # 0
      BY <1>3
    <3>2. is[n] = ItemOf(ps[n], date) /\ ps[n].type = 1
      BY <1>1, <1>3, <1>9, <3>1
    <3>3. Format!Date(date).type = 2
      BY DEF Format!Date
    <3>4. is[n].type = 1 \/ is[n].type = 2
      BY <3>2, <3>3 DEF ItemOf
    <3>5. QED
      BY <1>3, <3>4
  <2>3. Extended(is, p, date) = Append(is, Format!Text(v))
    BY <2>2 DEF Extended
  <2>4. QED
    BY <1>4, <1>5, <1>7, <1>8, <1>9, <2>1, <2>3 DEF is, u
<1>10. CASE tmp # <<>>
  <2> DEFINE js == Append(is, Format!Text(tmp))
             ks == Append(is, Format!Text(u))
             e == n + 1
  <2>1. Flushed(tmp, ps) = Append(ps, Format!Text(tmp))
    BY <1>10 DEF Flushed
  <2>2. Mapped(Flushed(tmp, ps), date) = js
    <3>1. ItemOf(Format!Text(tmp), date) = Format!Text(tmp)
      BY ItemOfs
    <3> DEFINE x == Format!Text(tmp)
    <3> HIDE DEF x
    <3>2. Mapped(Append(ps, x), date) = Append(Mapped(ps, date), ItemOf(x, date))
      BY <1>1, <1>6, MappedMore DEF x
    <3>3. QED
      BY <2>1, <3>1, <3>2 DEF is, x
  <2>3. Format!Text(tmp) \in Ready(date) /\ Format!Text(u) \in Ready(date)
    BY <1>6 DEF Ready
  <2> DEFINE x == Format!Text(tmp)
             y == Format!Text(u)
             S == Ready(date)
  <2>4. x.type = 0 /\ [x EXCEPT !.value = @ \o v] = y
    BY TextLonger DEF u
  <2> HIDE DEF x, y, S
  <2>5. is \in Seq(S) /\ Len(is) = n /\ n \in Nat /\ x \in S /\ y \in S
    BY <1>3, <2>3 DEF x, y, S
  <2>6. /\ js = Append(is, x) /\ ks = Append(is, y)
    BY DEF x, y
  <2> HIDE DEF js, ks
  <2>7. /\ js \in Seq(S) /\ Len(js) = e /\ js[e] = x
        /\ \A k \in 1..n : js[k] = is[k]
    BY <2>5, <2>6
  <2>8. /\ ks \in Seq(S) /\ Len(ks) = e /\ ks[e] = y
        /\ \A k \in 1..n : ks[k] = is[k]
    BY <2>5, <2>6
  <2>9. e \in 1..e /\ e > 0
    BY <2>5
  <2> DEFINE ls == [js EXCEPT ![e] = y]
  <2>10. Extended(js, p, date) = [js EXCEPT ![e].value = @ \o v]
    BY <2>4, <2>7, <2>9 DEF Extended
  <2>11. [js EXCEPT ![e].value = @ \o v] = ls
    BY <2>4, <2>7, <2>9
  <2>12. ls = ks
    <3>1. ls \in Seq(S) /\ Len(ls) = e
      BY <2>5, <2>7, <2>9
    <3>2. ASSUME NEW k \in 1..e PROVE ls[k] = ks[k]
      <4>1. CASE k = e
        BY <2>7, <2>8, <2>9, <4>1
      <4>2. CASE k # e
        <5>1. k \in 1..n
          BY <2>5, <4>2
        <5>2. QED
          BY <2>7, <2>8, <2>9, <4>2, <5>1
      <4>3. QED
        BY <4>1, <4>2
    <3> HIDE DEF ls
    <3>3. ks \in Seq(S) /\ Len(ks) = e
      BY <2>8
    <3>4. QED
      BY <3>1, <3>2, <3>3, SameSequence
  <2>13. QED
    BY <1>4, <1>7, <1>8, <2>2, <2>10, <2>11, <2>12 DEF ks, u
<1>11. QED
  BY <1>9, <1>10

LEMMA MadeIs ==
    ASSUME NEW tmp, NEW ps, Apart(tmp, ps), NEW df, NEW mode
    PROVE  Format!Made(B(mode, tmp, ps, df))
             = [m_error |-> FALSE, m_items |-> Mapped(Flushed(tmp, ps), df)]
<1> DEFINE b == B(mode, tmp, ps, df)
           qs == Flushed(tmp, ps)
           good == {n \in 0..Len(qs) : \A i \in 1..n : Format!Known(qs[i])}
           m == CHOOSE n \in good : \A k \in good : k <= n
<1>1. Format!Flush(b) = qs /\ b.dateformat = df
  BY DEF Format!Flush, Flushed, B
<1>2. qs \in Seq(Pat)
  BY FlushedFacts
<1> HIDE DEF b, qs
<1>3. Len(qs) \in Nat /\ \A i \in 1..Len(qs) : qs[i] \in Pat
  BY <1>2
<1>4. Len(qs) \in good /\ \A k \in good : k <= Len(qs)
  BY <1>3 DEF Pat
<1>5. m \in good /\ \A k \in good : k <= m
  <2> HIDE DEF good
  <2>1. QED
    BY <1>4, Zenon
<1>6. m = Len(qs)
  <2>1. m \in Nat
    BY <1>3, <1>5
  <2> HIDE DEF good, m
  <2>2. QED
    BY <1>3, <1>4, <1>5, <2>1
<1>7. Format!Made(b)
        = [m_error |-> m < Len(qs),
           m_items |-> [i \in 1..m |-> IF qs[i] = Format!Item("d")
                                       THEN Format!Date(df) ELSE qs[i]]]
  BY <1>1 DEF Format!Made
<1> HIDE DEF m
<1>8. (m < Len(qs)) = FALSE
  BY <1>3, <1>6
<1>9. [i \in 1..m |-> IF qs[i] = Format!Item("d") THEN Format!Date(df) ELSE qs[i]]
        = Mapped(qs, df)
  BY <1>6 DEF Mapped, ItemOf
<1>10. QED
  BY <1>7, <1>8, <1>9 DEF b, qs

LEMMA OutcomesIs ==
    ASSUME NEW s, Len(s) \in Nat, NEW g, g = CHOOSE h : IsRun(s, Len(s), h),
           NEW tmp, NEW ps, NEW df, g[Len(s)] = B("string", tmp, ps, df)
    PROVE  Format!Outcomes(s) = {Format!Made(B("string", tmp, ps, df))}
<1> DEFINE end == g[Len(s)]
<1>1. Format!Outcomes(s)
        = CASE end.mode = "date" -> {Format!Unclosed}
            [] end.mode = "after_d" -> {Format!Unclosed, Format!Made(end)}
            [] OTHER -> {Format!Made(end)}
  BY DEF Format!Outcomes, IsRun
<1>2. end.mode = "string"
  BY DEF B
<1> HIDE DEF end
<1>3. Format!Outcomes(s) = {Format!Made(end)}
  BY <1>1, <1>2
<1>4. QED
  BY <1>3 DEF end

\* The pattern, the formats and the items of a list of parts.
TextsOf(o) == [i \in 1..Len(o) |-> o[i].text]
FormatsOf(o) == [i \in 1..Len(o) |-> o[i].format]
IsPattern(o, f) ==
    f = [n \in 0..Len(o) |-> IF n = 0 THEN <<>> ELSE f[n - 1] \o o[n].text]
IsFormats(o, f) ==
    f = [n \in 0..Len(o) |-> IF n = 0 THEN <<>> ELSE f[n - 1] \o o[n].format]
IsItems(o, date, n, f) ==
    f = [i \in 0..n |-> IF i = 0 THEN <<>> ELSE Extended(f[i - 1], o[i], date)]

LEMMA PatternJoined ==
    ASSUME NEW o \in Seq(PatternParts)
    PROVE  /\ WordsOf(TextsOf(o), Len(o), Glyph)
           /\ WordsOf(FormatsOf(o), Len(o), Glyph)
           /\ \A f : IsPattern(o, f) <=> IsJoined(TextsOf(o), Len(o), f)
           /\ \A f : IsFormats(o, f) <=> IsJoined(FormatsOf(o), Len(o), f)
<1>1. ASSUME NEW i \in 1..Len(o)
      PROVE  o[i].text \in Seq(Glyph) /\ o[i].format \in Seq(Glyph)
  <2>1. o[i] \in PatternParts
    OBVIOUS
  <2>2. QED
    BY <2>1 DEF PatternParts
<1>2. ASSUME NEW i \in 1..Len(o)
      PROVE  TextsOf(o)[i] = o[i].text /\ FormatsOf(o)[i] = o[i].format
  BY DEF TextsOf, FormatsOf
<1>3. \A i \in 0..Len(o) : i # 0 => i \in 1..Len(o)
  OBVIOUS
<1>4. ASSUME NEW f
      PROVE  [n \in 0..Len(o) |-> IF n = 0 THEN <<>> ELSE f[n - 1] \o o[n].text]
               = [n \in 0..Len(o) |-> IF n = 0 THEN <<>> ELSE f[n - 1] \o TextsOf(o)[n]]
  BY <1>2, <1>3
<1>5. ASSUME NEW f
      PROVE  [n \in 0..Len(o) |-> IF n = 0 THEN <<>> ELSE f[n - 1] \o o[n].format]
               = [n \in 0..Len(o) |-> IF n = 0 THEN <<>> ELSE f[n - 1] \o FormatsOf(o)[n]]
  BY <1>2, <1>3
<1>6. /\ WordsOf(TextsOf(o), Len(o), Glyph)
      /\ WordsOf(FormatsOf(o), Len(o), Glyph)
  BY <1>1, <1>2 DEF WordsOf
<1>7. ASSUME NEW f PROVE IsPattern(o, f) <=> IsJoined(TextsOf(o), Len(o), f)
  BY <1>4 DEF IsPattern, IsJoined
<1>8. ASSUME NEW f PROVE IsFormats(o, f) <=> IsJoined(FormatsOf(o), Len(o), f)
  BY <1>5 DEF IsFormats, IsJoined
<1>9. QED
  BY <1>6, <1>7, <1>8

LEMMA ItemsExist ==
    ASSUME NEW s, NEW date
    PROVE  \A n \in Nat : \E f : IsItems(s, date, n, f)
<1> DEFINE T == {n \in Nat : ~\E f : IsItems(s, date, n, f)}
           next(x, y) == Extended(x, y, date)
<1> SUFFICES ASSUME T # {} PROVE FALSE
  OBVIOUS
<1>0. ASSUME NEW n, NEW f
      PROVE  IsItems(s, date, n, f) <=>
                f = [i \in 0..n |-> IF i = 0 THEN <<>> ELSE next(f[i - 1], s[i])]
  BY DEF IsItems
<1> HIDE DEF next
<1>1. PICK n \in T : \A y \in T : n <= y
  BY LeastNat
<1>2. n # 0
  <2> DEFINE h == [i \in 0..0 |-> <<>>]
  <2>1. h = [i \in 0..0 |-> IF i = 0 THEN <<>> ELSE next(h[i - 1], s[i])]
    OBVIOUS
  <2> HIDE DEF h
  <2>2. IsItems(s, date, 0, h)
    BY <1>0, <2>1
  <2>3. QED
    BY <1>1, <2>2
<1>3. n - 1 \in Nat /\ n \in Nat
  BY <1>1, <1>2
<1>4. PICK f : IsItems(s, date, n - 1, f)
  BY <1>1, <1>3
<1> DEFINE g == [i \in 0..n |-> IF i = n THEN next(f[n - 1], s[n]) ELSE f[i]]
<1>5. ASSUME NEW i \in 0..n
      PROVE  g[i] = IF i = 0 THEN <<>> ELSE next(g[i - 1], s[i])
  <2>1. i = n \/ i \in 0..(n - 1)
    BY <1>3
  <2>2. \A j \in 0..(n - 1) : j \in 0..n /\ j # n
    BY <1>3
  <2>3. \A j \in 0..(n - 1) : g[j] = f[j]
    BY <2>2
  <2>4. i # 0 => i - 1 \in 0..(n - 1)
    BY <1>3
  <2>5. CASE i = n
    <3>1. g[i] = next(f[n - 1], s[n])
      BY <2>5
    <3>2. g[n - 1] = f[n - 1]
      BY <1>2, <2>3, <2>4, <2>5
    <3> HIDE DEF g
    <3>3. QED
      BY <1>2, <2>5, <3>1, <3>2
  <2>6. CASE i \in 0..(n - 1)
    <3>1. f = [j \in 0..(n - 1) |-> IF j = 0 THEN <<>> ELSE next(f[j - 1], s[j])]
      BY <1>0, <1>4
    <3>2. f[i] = IF i = 0 THEN <<>> ELSE next(f[i - 1], s[i])
      BY <2>6, <3>1
    <3> HIDE DEF g
    <3>3. QED
      BY <2>3, <2>4, <2>6, <3>2
  <2>7. QED
    BY <2>1, <2>5, <2>6
<1>6. g = [i \in 0..n |-> IF i = 0 THEN <<>> ELSE next(g[i - 1], s[i])]
  <2>1. g = [i \in 0..n |-> g[i]]
    OBVIOUS
  <2> HIDE DEF g
  <2>2. QED
    BY <1>5, <2>1
<1> HIDE DEF g
<1>7. IsItems(s, date, n, g)
  BY <1>0, <1>6
<1>8. QED
  BY <1>1, <1>7

\* Where the loop is after i parts.
Kept(b, i, o, h, k, date) ==
    \E mode, tmp, ps, df :
        /\ b = B(mode, tmp, ps, df) /\ Apart(tmp, ps)
        /\ mode \in {"string", "after_d"}
        /\ mode = "after_d" => i > 0 /\ IsBare(o[i])
        /\ df = h[i] /\ k[i] = Mapped(Flushed(tmp, ps), date)

LEMMA KeptAgain ==
    ASSUME NEW s, NEW g, NEW at, NEW p \in PatternParts, Runs(s, g, p.text, at),
           NEW o, NEW h, NEW k, NEW date, NEW i \in Nat \ {0}, p = o[i],
           Kept(g[at], i - 1, o, h, k, date), h[i - 1] \in Seq(Glyph),
           h[i] = h[i - 1] \o p.format, k[i] = Extended(k[i - 1], p, date)
    PROVE  Kept(g[at + Len(p.text)], i, o, h, k, date)
<1>1. PICK mode, tmp, ps, df :
            /\ g[at] = B(mode, tmp, ps, df) /\ Apart(tmp, ps)
            /\ mode \in {"string", "after_d"}
            /\ df = h[i - 1] /\ k[i - 1] = Mapped(Flushed(tmp, ps), date)
  BY DEF Kept
<1> DEFINE v == p.text
           fl == Flushed(tmp, ps)
           x == Format!Item(p.item)
<1>2. v \in Seq(Glyph) /\ tmp \in Seq(Glyph) /\ p.format \in Seq(Glyph)
  BY <1>1 DEF PatternParts, Apart
<1>3. df \in Seq(Glyph) /\ (p.format = <<>> => h[i] = df)
  <2>1. df \in Seq(Glyph)
    BY <1>1
  <2>2. df \o <<>> = df
    BY <2>1, WithNothing
  <2>3. QED
    BY <1>1, <2>1, <2>2
<1>4. CASE IsText(p)
  <2>1. p.item = "text" /\ p.format = <<>> /\ Begins(v) /\ Free(v, "%") /\ v # <<>>
    BY <1>4, Zenon DEF IsText, Begins
  <2> HIDE DEF v
  <2>2. g[at + Len(v)] = B("string", tmp \o v, ps, df)
    BY <1>1, <1>2, <2>1, RunText DEF v
  <2>3. /\ Extended(Mapped(fl, date), p, date) = Mapped(Flushed(tmp \o v, ps), date)
        /\ Apart(tmp \o v, ps)
    BY <1>1, <1>2, <2>1, ExtendedText DEF v
  <2> DEFINE u == tmp \o v
  <2> HIDE DEF u
  <2>4. /\ g[at + Len(v)] = B("string", u, ps, df) /\ Apart(u, ps)
        /\ "string" \in {"string", "after_d"} /\ ~("string" = "after_d")
        /\ df = h[i] /\ k[i] = Mapped(Flushed(u, ps), date)
    BY <1>1, <1>3, <2>1, <2>2, <2>3 DEF u
  <2>5. QED
    BY <2>4 DEF Kept, v
<1>5. CASE ~IsText(p)
  <2>1. /\ k[i] = Mapped(Append(fl, x), date)
        /\ Apart(<<>>, Append(fl, x))
    BY <1>1, <1>5, ExtendedItem
  <2> DEFINE ps2 == Append(fl, x)
             no == <<>>
  <2>2. Flushed(no, ps2) = ps2
    BY DEF Flushed
  <2> HIDE DEF fl, x, ps2, no
  <2>3. k[i] = Mapped(Flushed(no, ps2), date) /\ Apart(no, ps2)
    BY <2>1, <2>2 DEF ps2, no
  <2>4. ASSUME g[at + Len(v)] = B("string", no, ps2, h[i])
        PROVE  Kept(g[at + Len(v)], i, o, h, k, date)
    <3>1. "string" \in {"string", "after_d"} /\ ~("string" = "after_d")
      OBVIOUS
    <3>2. QED
      BY <2>3, <2>4, <3>1 DEF Kept
  <2>8. ASSUME g[at + Len(v)] = B("after_d", no, ps2, h[i]), IsBare(p)
        PROVE  Kept(g[at + Len(v)], i, o, h, k, date)
    <3>1. "after_d" \in {"string", "after_d"} /\ i > 0
      OBVIOUS
    <3>2. QED
      BY <2>3, <2>8, <3>1 DEF Kept
  <2>5. CASE IsItem(p) \/ IsBare(p)
    <3>1. v = <<"%", p.item>> /\ p.format = <<>>
      BY <2>5 DEF IsItem, IsBare
    <3>2. g[at + 2] = B(IF p.item = "d" THEN "after_d" ELSE "string", <<>>,
                        Append(Flushed(tmp, ps), Format!Item(p.item)), df)
      <4> DEFINE c == p.item
      <4>1. v = <<"%", c>> /\ Runs(s, g, v, at)
        BY <3>1
      <4> HIDE DEF v, c
      <4>2. QED
        BY <1>1, <4>1, RunItem DEF c
    <3>3. Len(v) = 2
      BY <3>1
    <3>4. g[at + Len(v)] = B(IF p.item = "d" THEN "after_d" ELSE "string", no, ps2, h[i])
      BY <1>3, <3>1, <3>2, <3>3 DEF no, ps2, fl, x
    <3>5. p.item = "d" => IsBare(p)
      BY <2>5 DEF IsItem, Format!s_format_items
    <3> HIDE DEF v
    <3>6. CASE p.item = "d"
      <4>1. g[at + Len(v)] = B("after_d", no, ps2, h[i])
        BY <3>4, <3>6
      <4>2. QED
        BY <2>8, <3>5, <3>6, <4>1 DEF v
    <3>7. CASE p.item # "d"
      <4>1. g[at + Len(v)] = B("string", no, ps2, h[i])
        BY <3>4, <3>7
      <4>2. QED
        BY <2>4, <4>1 DEF v
    <3>8. QED
      BY <3>6, <3>7 DEF v
  <2>6. CASE IsDate(p)
    <3> DEFINE f == p.format
    <3>1. Braced(v, f) /\ Free(f, RBrace) /\ p.item = "d" /\ f \in Seq(Glyph)
      BY <1>2, <2>6, Zenon DEF IsDate, Braced, RBrace, LBrace
    <3>2. h[i] = df \o f
      BY <1>1
    <3> HIDE DEF f, v
    <3>3. g[at + Len(v)] = B("string", <<>>, Append(Flushed(tmp, ps), Format!Item("d")), df \o f)
      BY <1>1, <1>3, <3>1, RunDate DEF v
    <3>4. g[at + Len(v)] = B("string", no, ps2, h[i])
      BY <3>1, <3>2, <3>3 DEF no, ps2, fl, x
    <3>5. QED
      BY <2>4, <3>4 DEF v
  <2>7. QED
    BY <1>5, <2>5, <2>6 DEF PatternParts
<1>6. QED
  BY <1>4, <1>5

LEMMA PatternKept ==
    ASSUME NEW o \in Seq(PatternParts), NEW date, NEW f, IsPattern(o, f),
           NEW h, IsFormats(o, h), NEW k, IsItems(o, date, Len(o), k),
           NEW g, IsRun(f[Len(o)], Len(f[Len(o)]), g)
    PROVE  Kept(g[Len(f[Len(o)])], Len(o), o, h, k, date)
<1> DEFINE n == Len(o)
           d == f[n]
           w == TextsOf(o)
           P(i) == Kept(g[Len(f[i])], i, o, h, k, date)
           T == {i \in Nat : i <= n /\ ~P(i)}
<1>1. /\ n \in Nat /\ WordsOf(w, n, Glyph) /\ IsJoined(w, n, f)
      /\ WordsOf(FormatsOf(o), n, Glyph) /\ IsJoined(FormatsOf(o), n, h)
  BY PatternJoined
<1>2. ASSUME NEW i \in 1..n
      PROVE  /\ w[i] = o[i].text /\ o[i] \in PatternParts
             /\ h[i] = h[i - 1] \o o[i].format
             /\ k[i] = Extended(k[i - 1], o[i], date)
  <2>1. i \in 0..n /\ i # 0
    OBVIOUS
  <2>2. w[i] = o[i].text /\ o[i] \in PatternParts
    BY DEF TextsOf
  <2>3. h[i] = h[i - 1] \o o[i].format
    BY <2>1 DEF IsFormats
  <2>4. k[i] = Extended(k[i - 1], o[i], date)
    BY <2>1 DEF IsItems
  <2>5. QED
    BY <2>2, <2>3, <2>4
<1> HIDE DEF w
<1>3. f[0] = <<>> /\ \A i \in 0..n : f[i] \in Seq(Glyph)
  BY <1>1, JoinedSeq
<1>4. h[0] = <<>> /\ \A i \in 0..n : h[i] \in Seq(Glyph)
  BY <1>1, JoinedSeq
<1>5. \A i \in 1..n : /\ StandsAt(w[i], d, Len(f[i - 1]))
                      /\ Len(f[i]) = Len(f[i - 1]) + Len(w[i])
  BY ZenonT(60), <1>1, JoinedStands
<1>6. d \in Seq(Glyph) /\ Len(d) \in Nat /\ IsRun(d, Len(d), g)
  BY <1>1, <1>3
<1> HIDE DEF d
<1>7. P(0)
  <2>1. Len(f[0]) = 0
    BY <1>3
  <2>2. g[0] = B("string", <<>>, <<>>, <<>>)
    BY <1>6, RunSteps
  <2>3. k[0] = <<>>
    BY <1>1 DEF IsItems
  <2> DEFINE no == <<>>
  <2>4. Apart(no, no)
    BY DEF Apart
  <2>5. Mapped(Flushed(no, no), date) = no
    BY DEF Mapped, Flushed
  <2> HIDE DEF no
  <2>6. /\ g[Len(f[0])] = B("string", no, no, no) /\ Apart(no, no)
        /\ "string" \in {"string", "after_d"} /\ ~("string" = "after_d")
        /\ no = h[0] /\ k[0] = Mapped(Flushed(no, no), date)
    BY <1>4, <2>1, <2>2, <2>3, <2>4, <2>5 DEF no
  <2>7. QED
    BY <2>6 DEF Kept
<1>8. ASSUME NEW i \in 1..n, P(i - 1) PROVE P(i)
  <2> DEFINE at == Len(f[i - 1])
             p == o[i]
  <2>1. at \in Nat /\ i \in Nat \ {0} /\ i - 1 \in 0..n
    BY <1>1, <1>3
  <2>2. p \in PatternParts /\ p.text \in Seq(Glyph)
    BY <1>2 DEF PatternParts
  <2>3. StandsAt(p.text, d, at) /\ Len(f[i]) = at + Len(p.text)
    BY <1>2, <1>5
  <2>4. Runs(d, g, p.text, at)
    BY <1>6, <2>1, <2>2, <2>3 DEF Runs
  <2>5. /\ h[i - 1] \in Seq(Glyph) /\ h[i] = h[i - 1] \o p.format
        /\ k[i] = Extended(k[i - 1], p, date) /\ p = o[i]
    BY <1>2, <1>4, <2>1
  <2>6. Kept(g[at], i - 1, o, h, k, date)
    BY <1>8
  <2> HIDE DEF at, p
  <2>7. Kept(g[at + Len(p.text)], i, o, h, k, date)
    BY <2>1, <2>2, <2>4, <2>5, <2>6, KeptAgain
  <2>8. QED
    BY <2>3, <2>7
<1> HIDE DEF P
<1>9. T = {}
  <2> SUFFICES ASSUME T # {} PROVE FALSE
    OBVIOUS
  <2>1. PICK i \in T : \A y \in T : i <= y
    BY LeastNat
  <2>2. i # 0
    BY <1>7, <2>1
  <2>3. i \in 1..n /\ i - 1 \in Nat /\ i - 1 <= n /\ i - 1 < i
    BY <1>1, <2>1, <2>2
  <2>4. P(i - 1)
    BY <2>1, <2>3
  <2>5. QED
    BY <1>8, <2>1, <2>3, <2>4
<1>10. P(n)
  <2>1. n <= n
    BY <1>1
  <2>2. QED
    BY <1>1, <1>9, <2>1
<1>11. QED
  BY <1>10 DEF P, d

\* However many parts a pattern is put together of, in whatever order, and
\* however long the texts and the date formats, LogFormatter::init makes the
\* items that the parts stand for, unless %d stands bare at its end
\* (log.cpp:233-365).
THEOREM PatternsRead ==
    \A parts \in Seq(PatternParts) : Format!PatternRoundTrip(parts)
<1> TAKE o \in Seq(PatternParts)
<1> DEFINE n == Len(o)
           bare == o # <<>> /\ o[n].text = <<"%", "d">>
<1> DEFINE f == CHOOSE x : IsPattern(o, x)
           h == CHOOSE x : IsFormats(o, x)
           date == h[n]
           k == CHOOSE x : IsItems(o, date, n, x)
           d == f[n]
           g == CHOOSE x : IsRun(d, Len(d), x)
<1>1. Format!PatternRoundTrip(o) <=>
        bare \/ Format!Outcomes(f[n]) = {[m_error |-> FALSE, m_items |-> k[n]]}
  BY DEF Format!PatternRoundTrip, IsPattern, IsFormats, IsItems, Extended
<1> SUFFICES ASSUME ~bare
             PROVE  Format!Outcomes(f[n]) = {[m_error |-> FALSE, m_items |-> k[n]]}
  BY <1>1
<1>2. n \in Nat
  OBVIOUS
<1>3. IsPattern(o, f)
  <2>1. \E x : IsPattern(o, x)
    BY <1>2, JoinedExists, PatternJoined
  <2>2. QED
    BY <2>1, Zenon
<1>4. IsFormats(o, h)
  <2>1. \E x : IsFormats(o, x)
    BY <1>2, JoinedExists, PatternJoined
  <2>2. QED
    BY <2>1, Zenon
<1> HIDE DEF f, h
<1>5. IsItems(o, date, n, k)
  <2> HIDE DEF date
  <2>1. \E x : IsItems(o, date, n, x)
    BY <1>2, ItemsExist
  <2>2. QED
    BY <2>1, Zenon
<1>6. Len(d) \in Nat
  <2>1. WordsOf(TextsOf(o), n, Glyph) /\ IsJoined(TextsOf(o), n, f) /\ n \in 0..n
    BY <1>2, <1>3, PatternJoined
  <2>2. d \in Seq(Glyph)
    BY <1>2, <2>1, JoinedSeq
  <2>3. QED
    BY <2>2
<1> HIDE DEF k
<1>7. IsRun(d, Len(d), g)
  <2> HIDE DEF d
  <2>1. \E x : IsRun(d, Len(d), x)
    BY <1>6, RunExists
  <2>2. QED
    BY <2>1, Zenon
<1>8. g = CHOOSE x : IsRun(d, Len(d), x)
  OBVIOUS
<1> HIDE DEF g
<1>9. Kept(g[Len(d)], n, o, h, k, date)
  BY <1>3, <1>4, <1>5, <1>7, PatternKept
<1> HIDE DEF date
<1>10. PICK mode, tmp, ps, df :
            /\ g[Len(d)] = B(mode, tmp, ps, df) /\ Apart(tmp, ps)
            /\ mode \in {"string", "after_d"}
            /\ mode = "after_d" => n > 0 /\ IsBare(o[n])
            /\ df = h[n] /\ k[n] = Mapped(Flushed(tmp, ps), date)
  BY <1>9 DEF Kept
<1>11. mode = "string"
  <2>1. n > 0 => o # <<>>
    OBVIOUS
  <2>2. IsBare(o[n]) => o[n].text = <<"%", "d">>
    BY DEF IsBare
  <2>3. QED
    BY <1>10, <2>1, <2>2
<1> HIDE DEF bare, n, d
<1>12. Format!Outcomes(d) = {Format!Made(B("string", tmp, ps, df))}
  BY <1>6, <1>8, <1>10, <1>11, OutcomesIs
<1>13. Format!Made(B("string", tmp, ps, df))
          = [m_error |-> FALSE, m_items |-> Mapped(Flushed(tmp, ps), df)]
  BY ZenonT(60), <1>10, MadeIs
<1>14. df = date
  BY <1>10 DEF date
<1>15. QED
  BY <1>10, <1>12, <1>13, <1>14 DEF d

-----------------------------------------------------------------------------
(* URLs *)

ServerStates == {"s_req_server_start", "s_req_server", "s_req_server_with_at"}
UrlStates ==
    {"s_req_spaces_before_url", "s_req_schema", "s_req_schema_slash",
     "s_req_schema_slash_slash", "s_req_path", "s_req_query_string_start",
     "s_req_query_string", "s_req_fragment_start", "s_req_fragment", "s_dead"}
        \cup ServerStates
HostStates ==
    {"userinfo_start", "userinfo", "host_start", "host", "v6_start", "v6",
     "v6_end", "v6_zone_start", "v6_zone", "port_start", "port", "s_dead"}

IsUrlRun(str, f) ==
    f = [i \in 0..Len(str) |-> IF i = 0 THEN "s_req_spaces_before_url"
                               ELSE Uri!parse_url_char(f[i - 1], str[i])]
IsHostRun(str, s0, f) ==
    f = [i \in 0..Len(str) |-> IF i = 0 THEN s0
                               ELSE Uri!http_parse_host_char(f[i - 1], str[i])]

LEMMA UrlStep ==
    ASSUME NEW s \in UrlStates, NEW c PROVE Uri!parse_url_char(s, c) \in UrlStates
<1>1. Uri!parse_server_char(s, c) \in UrlStates
  BY DEF Uri!parse_server_char, UrlStates, ServerStates, Uri!Dead
<1>2. QED
  BY <1>1 DEF Uri!parse_url_char, UrlStates, ServerStates, Uri!Dead

LEMMA HostStep ==
    ASSUME NEW s \in HostStates, NEW c
    PROVE  Uri!http_parse_host_char(s, c) \in HostStates
  BY DEF Uri!http_parse_host_char, HostStates, Uri!Dead

LEMMA UrlRunExists ==
    ASSUME NEW str, Len(str) \in Nat PROVE \E f : IsUrlRun(str, f)
<1> DEFINE S == UrlStates
           N == Len(str)
           a == "s_req_spaces_before_url"
           step(s, i) == Uri!parse_url_char(s, str[i])
           t == [i \in 1..N |-> [s \in S |-> step(s, i)]]
<1>1. a \in S
  BY DEF UrlStates
<1>2. ASSUME NEW f
      PROVE  IsUrlRun(str, f) <=> f = [i \in 0..N |-> IF i = 0 THEN a ELSE step(f[i - 1], i)]
  BY DEF IsUrlRun
<1>3. \A s \in S, i \in 1..N : step(s, i) \in S
  BY UrlStep
<1> HIDE DEF S, a, step, N
<1>4. N \in Nat /\ IsTable(t, S, N)
  BY <1>3 DEF N, IsTable
<1>5. PICK f : f \in [0..N -> S] /\ f[0] = a /\ \A i \in 1..N : f[i] = t[i][f[i - 1]]
  <2> HIDE DEF t
  <2>1. \E f : Obeys(f, S, a, N, t)
    BY <1>1, <1>4, RecursionExists
  <2>2. QED
    BY <2>1 DEF Obeys
<1>6. ASSUME NEW i \in 0..N PROVE f[i] = IF i = 0 THEN a ELSE step(f[i - 1], i)
  <2>1. CASE i = 0
    BY <1>5, <2>1
  <2>2. CASE i # 0
    <3>1. i \in 1..N /\ i - 1 \in 0..N
      BY <1>4, <2>2
    <3>2. f[i - 1] \in S /\ f[i] = t[i][f[i - 1]]
      BY <1>5, <3>1
    <3>3. QED
      BY <2>2, <3>1, <3>2
  <2>3. QED
    BY <2>1, <2>2
<1>7. f = [i \in 0..N |-> IF i = 0 THEN a ELSE step(f[i - 1], i)]
  <2>1. f = [i \in 0..N |-> f[i]]
    BY <1>5
  <2>2. QED
    BY <1>6, <2>1
<1>8. QED
  BY <1>2, <1>7

LEMMA UrlRunSteps ==
    ASSUME NEW str, Len(str) \in Nat, NEW f, IsUrlRun(str, f)
    PROVE  /\ f[0] = "s_req_spaces_before_url"
           /\ \A i \in 1..Len(str) : f[i] = Uri!parse_url_char(f[i - 1], str[i])
  BY DEF IsUrlRun

LEMMA HostRunExists ==
    ASSUME NEW str, Len(str) \in Nat, NEW s0 \in HostStates
    PROVE  \E f : IsHostRun(str, s0, f)
<1> DEFINE S == HostStates
           N == Len(str)
           step(s, i) == Uri!http_parse_host_char(s, str[i])
           t == [i \in 1..N |-> [s \in S |-> step(s, i)]]
<1>2. ASSUME NEW f
      PROVE  IsHostRun(str, s0, f) <=>
                f = [i \in 0..N |-> IF i = 0 THEN s0 ELSE step(f[i - 1], i)]
  BY DEF IsHostRun
<1>3. \A s \in S, i \in 1..N : step(s, i) \in S
  BY HostStep
<1>1. s0 \in S
  OBVIOUS
<1> HIDE DEF S, step, N
<1>4. N \in Nat /\ IsTable(t, S, N)
  BY <1>3 DEF N, IsTable
<1>5. PICK f : f \in [0..N -> S] /\ f[0] = s0 /\ \A i \in 1..N : f[i] = t[i][f[i - 1]]
  <2> HIDE DEF t
  <2>1. \E f : Obeys(f, S, s0, N, t)
    BY <1>1, <1>4, RecursionExists
  <2>2. QED
    BY <2>1 DEF Obeys
<1>6. ASSUME NEW i \in 0..N PROVE f[i] = IF i = 0 THEN s0 ELSE step(f[i - 1], i)
  <2>1. CASE i = 0
    BY <1>5, <2>1
  <2>2. CASE i # 0
    <3>1. i \in 1..N /\ i - 1 \in 0..N
      BY <1>4, <2>2
    <3>2. f[i - 1] \in S /\ f[i] = t[i][f[i - 1]]
      BY <1>5, <3>1
    <3>3. QED
      BY <2>2, <3>1, <3>2
  <2>3. QED
    BY <2>1, <2>2
<1>7. f = [i \in 0..N |-> IF i = 0 THEN s0 ELSE step(f[i - 1], i)]
  <2>1. f = [i \in 0..N |-> f[i]]
    BY <1>5
  <2>2. QED
    BY <1>6, <2>1
<1>8. QED
  BY <1>2, <1>7

LEMMA HostRunSteps ==
    ASSUME NEW str, Len(str) \in Nat, NEW s0, NEW f, IsHostRun(str, s0, f)
    PROVE  /\ f[0] = s0
           /\ \A i \in 1..Len(str) : f[i] = Uri!http_parse_host_char(f[i - 1], str[i])
  BY DEF IsHostRun

\* The field after each character.
FieldRun(str, at, states, f) ==
    /\ Uri!Field(str, at, states) = f[Len(str)]
    /\ f[0] = <<>>
    /\ \A i \in 1..Len(str) :
          f[i] = IF at[i] \in states THEN Append(f[i - 1], str[i]) ELSE f[i - 1]

LEMMA FieldSteps ==
    ASSUME NEW X, NEW str \in Seq(X), NEW at, NEW states
    PROVE  \E f : FieldRun(str, at, states, f)
<1> DEFINE f == CHOOSE g : IsField(str, at, states, g)
<1>0. f = CHOOSE g : IsField(str, at, states, g)
  OBVIOUS
<1> HIDE DEF f
<1>1. Uri!Field(str, at, states) = f[Len(str)]
  BY DEF Uri!Field, IsField, f
<1>2. IsField(str, at, states, f)
  <2>1. \E g : IsField(str, at, states, g)
    BY FieldExists
  <2>2. QED
    BY <1>0, <2>1, Zenon
<1>3. \A i \in 1..Len(str) : i \in 0..Len(str) /\ i # 0
  OBVIOUS
<1> DEFINE G(i) == IF i = 0 THEN <<>>
                   ELSE IF at[i] \in states THEN Append(f[i - 1], str[i])
                   ELSE f[i - 1]
<1>4. f = [i \in 0..Len(str) |-> G(i)]
  BY <1>2 DEF IsField
<1> HIDE DEF G
<1>5. \A i \in 0..Len(str) : f[i] = G(i)
  BY <1>4
<1>6. 0 \in 0..Len(str)
  OBVIOUS
<1>7. f[0] = <<>>
  <2>1. f[0] = G(0)
    BY <1>5, <1>6
  <2>2. QED
    BY <2>1 DEF G
<1>8. ASSUME NEW i \in 1..Len(str)
      PROVE  f[i] = IF at[i] \in states THEN Append(f[i - 1], str[i]) ELSE f[i - 1]
  <2>1. f[i] = G(i) /\ i # 0
    BY <1>3, <1>5
  <2>2. QED
    BY <2>1 DEF G
<1>9. FieldRun(str, at, states, f)
  BY <1>1, <1>7, <1>8 DEF FieldRun
<1>10. QED
  BY <1>9

LEMMA DigitSet ==
    Uri!Digits = {"0", "1", "2", "3", "4", "5", "6", "7", "8", "9"}
<1>1. \A i \in 1..10 : i = 1 \/ i = 2 \/ i = 3 \/ i = 4 \/ i = 5 \/ i = 6
                        \/ i = 7 \/ i = 8 \/ i = 9 \/ i = 10
  OBVIOUS
<1>2. QED
  BY <1>1 DEF Uri!Digits, Uri!Digit

\* What leads to each state.
LEMMA UrlTrans ==
    ASSUME NEW s \in UrlStates, NEW c, NEW t, t = Uri!parse_url_char(s, c)
    PROVE  /\ t # "s_req_spaces_before_url"
           /\ t = "s_req_schema" =>
                c \in Uri!Letters /\ s \in {"s_req_spaces_before_url", "s_req_schema"}
           /\ t = "s_req_schema_slash" => s = "s_req_schema"
           /\ t = "s_req_schema_slash_slash" => s = "s_req_schema_slash"
           /\ t = "s_req_server_start" => s = "s_req_schema_slash_slash"
           /\ t \in {"s_req_server", "s_req_server_with_at"} => s \in ServerStates
           /\ t = "s_req_path" =>
                /\ c \in Uri!UrlChars
                /\ \/ s \in {"s_req_path", "s_req_spaces_before_url"}
                   \/ s \in ServerStates /\ c = "/"
           /\ t = "s_req_query_string_start" => s \in ServerStates \cup {"s_req_path"}
           /\ t = "s_req_query_string" =>
                /\ s \in {"s_req_query_string_start", "s_req_query_string"}
                /\ c \in Uri!UrlChars \cup {"?"}
           /\ t = "s_req_fragment_start" =>
                s \in {"s_req_path", "s_req_query_string_start",
                       "s_req_query_string", "s_req_fragment_start"}
           /\ t = "s_req_fragment" =>
                /\ s \in {"s_req_fragment_start", "s_req_fragment"}
                /\ c \in Uri!UrlChars \cup {"?", "#"}
                /\ s = "s_req_fragment_start" => c # "#"
<1> USE DEF Uri!Dead
<1>0. "/" \in Uri!UrlChars /\ "*" \in Uri!UrlChars
  BY DEF Uri!UrlChars, Uri!UserinfoChars
<1>1. CASE c \in Uri!White
  <2>0. /\ c \notin {"/", "*", ":", "?", "@", "#", "[", "]"}
        /\ c \notin Uri!Letters /\ c \notin Uri!UserinfoChars
        /\ c \notin Uri!UrlChars /\ c \notin Uri!UrlChars \cup {"?"}
        /\ c \notin Uri!UserinfoChars \cup {"[", "]"}
    BY <1>1, DigitSet DEF Uri!White, Uri!Letters, Uri!UserinfoChars, Uri!UrlChars, Uri!Alnum
  <2>1. Uri!parse_server_char(s, c) = "s_dead"
    BY <2>0 DEF Uri!parse_server_char
  <2>2. t = "s_dead"
    BY <1>1, <2>0, <2>1 DEF Uri!parse_url_char
  <2>3. QED
    BY <2>2
<1>2. CASE c \notin Uri!White
  <2>1. CASE s \in ServerStates
    <3>1. t = Uri!parse_server_char(s, c)
      BY <1>2, <2>1 DEF Uri!parse_url_char, ServerStates
    <3>2. /\ t \in {"s_req_path", "s_req_query_string_start", "s_dead",
                   "s_req_server_with_at", "s_req_server"}
          /\ t = "s_req_path" => c = "/"
      BY <3>1 DEF Uri!parse_server_char
    <3>3. QED
      BY <1>0, <2>1, <3>2
  <2>2. CASE s = "s_req_spaces_before_url"
    BY <1>0, <1>2, <2>2 DEF Uri!parse_url_char
  <2>3. CASE s = "s_req_schema"
    BY <1>2, <2>3 DEF Uri!parse_url_char
  <2>4. CASE s = "s_req_schema_slash"
    BY <1>2, <2>4 DEF Uri!parse_url_char
  <2>5. CASE s = "s_req_schema_slash_slash"
    BY <1>2, <2>5 DEF Uri!parse_url_char
  <2>6. CASE s = "s_req_path"
    BY <1>2, <2>6 DEF Uri!parse_url_char
  <2>7. CASE s \in {"s_req_query_string_start", "s_req_query_string"}
    BY <1>2, <2>7 DEF Uri!parse_url_char
  <2>8. CASE s = "s_req_fragment_start"
    <3>1. "#" \notin Uri!UrlChars \cup {"?"}
      BY DigitSet DEF Uri!UrlChars, Uri!UserinfoChars, Uri!Alnum, Uri!Letters
    <3>2. QED
      BY <1>2, <2>8, <3>1 DEF Uri!parse_url_char
  <2>9. CASE s = "s_req_fragment"
    BY <1>2, <2>9 DEF Uri!parse_url_char
  <2>10. CASE s = "s_dead"
    <3>1. t = "s_dead"
      BY <1>2, <2>10 DEF Uri!parse_url_char
    <3>2. QED
      BY <3>1
  <2>11. QED
    BY <2>1, <2>2, <2>3, <2>4, <2>5, <2>6, <2>7, <2>8, <2>9, <2>10 DEF UrlStates
<1>3. QED
  BY <1>1, <1>2

InBrackets == {"v6_start", "v6", "v6_zone_start", "v6_zone"}

LEMMA HostTrans ==
    ASSUME NEW s \in HostStates, NEW c, NEW t, t = Uri!http_parse_host_char(s, c)
    PROVE  /\ t = "userinfo" => c \in Uri!UserinfoChars
           /\ t = "host" => c \in Uri!HostChars
           /\ t = "port" => c \in Uri!Digits
           /\ s \in InBrackets \cup {"s_dead"} =>
                t \in InBrackets \cup {"v6_end", "s_dead"}
<1> USE DEF Uri!Dead
<1>1. CASE s \in {"userinfo_start", "userinfo"}
  BY <1>1 DEF Uri!http_parse_host_char, InBrackets
<1>2. CASE s = "host_start"
  BY <1>2 DEF Uri!http_parse_host_char, InBrackets
<1>3. CASE s \in {"host", "v6_end"}
  BY <1>3 DEF Uri!http_parse_host_char, InBrackets
<1>4. CASE s \in {"v6_start", "v6"}
  BY <1>4 DEF Uri!http_parse_host_char, InBrackets
<1>5. CASE s \in {"v6_zone_start", "v6_zone"}
  BY <1>5 DEF Uri!http_parse_host_char, InBrackets
<1>6. CASE s \in {"port_start", "port"}
  BY <1>6 DEF Uri!http_parse_host_char, InBrackets
<1>7. CASE s = "s_dead"
  BY <1>7 DEF Uri!http_parse_host_char, InBrackets
<1>8. QED
  BY <1>1, <1>2, <1>3, <1>4, <1>5, <1>6, <1>7 DEF HostStates

\* The characters of a field are of the class that its states read.
Reads(str, at, states, C) == \A i \in 1..Len(str) : at[i] \in states => str[i] \in C

LEMMA FieldCells ==
    ASSUME NEW X, NEW str \in Seq(X), NEW at, NEW states, NEW C,
           Reads(str, at, states, C), NEW f, FieldRun(str, at, states, f)
    PROVE  \A i \in 0..Len(str) : f[i] \in Seq(C)
<1> DEFINE N == Len(str)
           T == {i \in Nat : i <= N /\ f[i] \notin Seq(C)}
<1>1. /\ f[0] = <<>>
      /\ \A i \in 1..N :
            f[i] = IF at[i] \in states THEN Append(f[i - 1], str[i]) ELSE f[i - 1]
  BY DEF FieldRun
<1>2. N \in Nat
  OBVIOUS
<1>3. \A i \in 1..N : at[i] \in states => str[i] \in C
  BY DEF Reads
<1> HIDE DEF N
<1>4. T = {}
  <2> SUFFICES ASSUME T # {} PROVE FALSE
    OBVIOUS
  <2>1. PICK i \in T : \A y \in T : i <= y
    BY LeastNat
  <2>2. i # 0
    <3>1. <<>> \in Seq(C)
      OBVIOUS
    <3>2. f[i] \notin Seq(C)
      BY <2>1
    <3>3. QED
      BY <1>1, <3>1, <3>2, Zenon
  <2>3. i \in 1..N /\ i - 1 \in Nat /\ i - 1 <= N /\ ~(i <= i - 1)
    BY <1>2, <2>1, <2>2
  <2>4. f[i - 1] \in Seq(C)
    BY <2>1, <2>3
  <2>5. CASE at[i] \in states
    <3>1. str[i] \in C /\ f[i] = Append(f[i - 1], str[i])
      BY <1>1, <1>3, <2>3, <2>5
    <3> DEFINE v == f[i - 1]
               x == str[i]
               w == f[i]
    <3>2. v \in Seq(C) /\ x \in C /\ w = Append(v, x)
      BY <2>4, <3>1
    <3> HIDE DEF v, x, w
    <3>3. w \in Seq(C)
      BY <3>2
    <3>4. QED
      BY <2>1, <3>3 DEF w
  <2>6. CASE at[i] \notin states
    <3>1. f[i] = f[i - 1]
      BY <1>1, <2>3, <2>6
    <3>2. QED
      BY <2>1, <2>4, <3>1
  <2>7. QED
    BY <2>5, <2>6
<1>5. \A i \in 0..N : i \in Nat /\ i <= N
  BY <1>2
<1>6. \A i \in 0..N : f[i] \in Seq(C)
  BY <1>4, <1>5
<1>7. QED
  BY <1>6 DEF N

LEMMA FieldTyped ==
    ASSUME NEW X, NEW str \in Seq(X), NEW at, NEW states, NEW C,
           Reads(str, at, states, C)
    PROVE  Uri!Field(str, at, states) \in Seq(C)
<1>1. PICK f : FieldRun(str, at, states, f)
  BY FieldSteps
<1>2. \A i \in 0..Len(str) : f[i] \in Seq(C)
  BY <1>1, FieldCells
<1>3. Len(str) \in 0..Len(str) /\ Uri!Field(str, at, states) = f[Len(str)]
  BY <1>1 DEF FieldRun
<1>4. QED
  BY <1>2, <1>3

\* How the fields of a URL begin, and which of them there are in which state.
Shape(s, sch, srv, pth, frag) ==
    /\ s = "s_req_spaces_before_url" => Empty(sch) /\ Empty(srv) /\ Empty(pth)
    /\ s \in {"s_req_schema", "s_req_schema_slash", "s_req_schema_slash_slash"} =>
         ~Empty(sch) /\ Empty(srv) /\ Empty(pth)
    /\ s \in ServerStates => ~Empty(sch) /\ Empty(pth)
    /\ s = "s_req_path" => ~Empty(pth)
    /\ s \notin {"s_req_fragment", "s_dead"} => Empty(frag)
    /\ s = "s_req_fragment" => ~Empty(frag)
    /\ ~Empty(srv) => ~Empty(sch)
    /\ ~Empty(srv) /\ ~Empty(pth) => pth[1] = "/"
    /\ ~Empty(frag) => frag[1] # "#"

LEMMA ShapeStep ==
    ASSUME NEW X, NEW s \in UrlStates, NEW c \in X, NEW t,
           t = Uri!parse_url_char(s, c),
           NEW sch \in Seq(X), NEW srv \in Seq(X), NEW pth \in Seq(X),
           NEW frag \in Seq(X), Shape(s, sch, srv, pth, frag),
           NEW sch2, sch2 = IF t \in {"s_req_schema"} THEN Append(sch, c) ELSE sch,
           NEW srv2, srv2 = IF t \in {"s_req_server", "s_req_server_with_at"}
                            THEN Append(srv, c) ELSE srv,
           NEW pth2, pth2 = IF t \in {"s_req_path"} THEN Append(pth, c) ELSE pth,
           NEW frag2, frag2 = IF t \in {"s_req_fragment"} THEN Append(frag, c) ELSE frag
    PROVE  Shape(t, sch2, srv2, pth2, frag2)
<1>1. /\ t = "s_req_schema" => ~Empty(sch2)
      /\ t # "s_req_schema" => sch2 = sch
  BY Appended
<1>2. /\ t \in {"s_req_server", "s_req_server_with_at"} => ~Empty(srv2)
      /\ t \notin {"s_req_server", "s_req_server_with_at"} => srv2 = srv
  BY Appended
<1>3. /\ t = "s_req_path" =>
           ~Empty(pth2) /\ (Empty(pth) => pth2[1] = c) /\ (~Empty(pth) => pth2[1] = pth[1])
      /\ t # "s_req_path" => pth2 = pth
  BY ZenonT(60), Appended
<1>4. /\ t = "s_req_fragment" =>
           /\ ~Empty(frag2) /\ (Empty(frag) => frag2[1] = c)
           /\ ~Empty(frag) => frag2[1] = frag[1]
      /\ t # "s_req_fragment" => frag2 = frag
  BY ZenonT(60), Appended
<1>5. t \in UrlStates
  BY UrlStep
<1>6. /\ t # "s_req_spaces_before_url"
      /\ t = "s_req_schema" => s \in {"s_req_spaces_before_url", "s_req_schema"}
      /\ t = "s_req_schema_slash" => s = "s_req_schema"
      /\ t = "s_req_schema_slash_slash" => s = "s_req_schema_slash"
      /\ t = "s_req_server_start" => s = "s_req_schema_slash_slash"
      /\ t \in {"s_req_server", "s_req_server_with_at"} => s \in ServerStates
      /\ t = "s_req_path" =>
           \/ s \in {"s_req_path", "s_req_spaces_before_url"}
           \/ s \in ServerStates /\ c = "/"
      /\ t = "s_req_query_string_start" => s \in ServerStates \cup {"s_req_path"}
      /\ t = "s_req_query_string" =>
           s \in {"s_req_query_string_start", "s_req_query_string"}
      /\ t = "s_req_fragment_start" =>
           s \in {"s_req_path", "s_req_query_string_start",
                  "s_req_query_string", "s_req_fragment_start"}
      /\ t = "s_req_fragment" =>
           /\ s \in {"s_req_fragment_start", "s_req_fragment"}
           /\ s = "s_req_fragment_start" => c # "#"
  BY UrlTrans
<1>7. s = "s_dead" => t = "s_dead"
  BY <1>5, <1>6 DEF UrlStates, ServerStates
<1>8. CASE t = "s_req_schema"
  BY <1>1, <1>2, <1>3, <1>4, <1>6, <1>8 DEF Shape, ServerStates
<1>9. CASE t \in {"s_req_schema_slash", "s_req_schema_slash_slash"}
  BY <1>1, <1>2, <1>3, <1>4, <1>6, <1>9 DEF Shape, ServerStates
<1>10. CASE t \in ServerStates
  BY <1>1, <1>2, <1>3, <1>4, <1>6, <1>10 DEF Shape, ServerStates
<1>11. CASE t = "s_req_path"
  BY <1>1, <1>2, <1>3, <1>4, <1>6, <1>11 DEF Shape, ServerStates
<1>12. CASE t \in {"s_req_query_string_start", "s_req_query_string", "s_req_fragment_start"}
  BY <1>1, <1>2, <1>3, <1>4, <1>6, <1>12 DEF Shape, ServerStates
<1>13. CASE t = "s_req_fragment"
  BY <1>1, <1>2, <1>3, <1>4, <1>6, <1>13 DEF Shape, ServerStates
<1>14. CASE t = "s_dead"
  BY <1>1, <1>2, <1>3, <1>4, <1>14 DEF Shape, ServerStates
<1>15. QED
  BY <1>5, <1>6, <1>8, <1>9, <1>10, <1>11, <1>12, <1>13, <1>14 DEF UrlStates

\* The states of the two machines along a string.
UrlAt(str) == Uri!Along(Uri!parse_url_char, "s_req_spaces_before_url", str)
HostAt(str, s0) == Uri!Along(Uri!http_parse_host_char, s0, str)

LEMMA UrlAlong ==
    ASSUME NEW str, Len(str) \in Nat
    PROVE  IsUrlRun(str, UrlAt(str))
<1>1. UrlAt(str) = CHOOSE f : IsUrlRun(str, f)
  BY DEF UrlAt, Uri!Along, IsUrlRun
<1>2. \E f : IsUrlRun(str, f)
  BY UrlRunExists
<1>3. QED
  BY <1>1, <1>2, Zenon

LEMMA HostAlong ==
    ASSUME NEW str, Len(str) \in Nat, NEW s0 \in HostStates
    PROVE  IsHostRun(str, s0, HostAt(str, s0))
<1>1. HostAt(str, s0) = CHOOSE f : IsHostRun(str, s0, f)
  BY DEF HostAt, Uri!Along, IsHostRun
<1>2. \E f : IsHostRun(str, s0, f)
  BY HostRunExists
<1>3. QED
  BY <1>1, <1>2, Zenon

\* The fields that the states of a string mark.
Scheme(str, at) == Uri!Field(str, at, {"s_req_schema"})
Server(str, at) == Uri!Field(str, at, {"s_req_server", "s_req_server_with_at"})
Path(str, at) == Uri!Field(str, at, {"s_req_path"})
Query(str, at) == Uri!Field(str, at, {"s_req_query_string"})
Fragment(str, at) == Uri!Field(str, at, {"s_req_fragment"})
FoundAt(at) == \E i \in DOMAIN at : at[i] = "s_req_server_with_at"
NoServer ==
    [ok |-> TRUE, userinfo |-> <<>>, host |-> <<>>, v6 |-> FALSE, port |-> <<>>]
HostOf(server, found) ==
    IF Empty(server) THEN NoServer ELSE Uri!http_parse_host(server, found)
Refused(str, at, h) ==
    \/ Empty(str) \/ at[Len(str)] = "s_dead"
    \/ ~Empty(Scheme(str, at)) /\ Empty(Server(str, at))
    \/ ~h.ok
    \/ Uri!Number(h.port) > 65535
Parsed(str, at, h) ==
    [ok |-> TRUE, scheme |-> Scheme(str, at), userinfo |-> h.userinfo,
     host |-> h.host, v6 |-> h.v6, port |-> h.port, path |-> Path(str, at),
     query |-> Query(str, at), fragment |-> Fragment(str, at)]

LEMMA ParseUrl ==
    ASSUME NEW str, NEW at, at = UrlAt(str),
           NEW h, h = HostOf(Server(str, at), FoundAt(at))
    PROVE  Uri!http_parser_parse_url(str) =
             IF Refused(str, at, h) THEN Uri!Invalid ELSE Parsed(str, at, h)
  BY DEF Uri!http_parser_parse_url, UrlAt, HostOf, Scheme, Server, Path, Query,
         Fragment, FoundAt, NoServer, Refused, Parsed, Empty, Uri!Dead

\* The fields that the states of a host mark.
HostStart(found) == IF found THEN "userinfo_start" ELSE "host_start"
Userinfo(str, at) == Uri!Field(str, at, {"userinfo"})
HostName(str, at) == Uri!Field(str, at, {"host", "v6", "v6_zone_start", "v6_zone"})
PortText(str, at) == Uri!Field(str, at, {"port"})
Unfinished ==
    {"s_dead", "host_start", "v6_start", "v6", "v6_zone_start", "v6_zone",
     "port_start", "userinfo", "userinfo_start"}

LEMMA ParseHost ==
    ASSUME NEW str, NEW found, NEW at, at = HostAt(str, HostStart(found))
    PROVE  Uri!http_parse_host(str, found) =
             IF at[Len(str)] \in Unfinished THEN Uri!Invalid
             ELSE [ok |-> TRUE, userinfo |-> Userinfo(str, at),
                   host |-> HostName(str, at),
                   v6 |-> \E i \in DOMAIN at : at[i] = "v6_end",
                   port |-> PortText(str, at)]
  BY DEF Uri!http_parse_host, HostAt, HostStart, Userinfo, HostName, PortText,
         Unfinished, Uri!Dead

LEMMA UrlRunTyped ==
    ASSUME NEW str, Len(str) \in Nat, NEW at, IsUrlRun(str, at)
    PROVE  \A i \in 0..Len(str) : at[i] \in UrlStates
<1> DEFINE N == Len(str)
           T == {i \in Nat : i <= N /\ at[i] \notin UrlStates}
<1>1. /\ at[0] = "s_req_spaces_before_url" /\ N \in Nat
      /\ \A i \in 1..N : at[i] = Uri!parse_url_char(at[i - 1], str[i])
  BY UrlRunSteps
<1> HIDE DEF N
<1>2. T = {}
  <2> SUFFICES ASSUME T # {} PROVE FALSE
    OBVIOUS
  <2>1. PICK i \in T : \A y \in T : i <= y
    BY LeastNat
  <2>2. i # 0
    BY <1>1, <2>1 DEF UrlStates
  <2>3. i \in 1..N /\ i - 1 \in Nat /\ i - 1 <= N /\ ~(i <= i - 1)
    BY <1>1, <2>1, <2>2
  <2>4. at[i - 1] \in UrlStates
    BY <2>1, <2>3
  <2>5. at[i] \in UrlStates
    BY <1>1, <2>3, <2>4, UrlStep
  <2>6. QED
    BY <2>1, <2>5
<1>3. \A i \in 0..N : i \in Nat /\ i <= N
  BY <1>1
<1>4. QED
  BY <1>2, <1>3 DEF N

LEMMA HostRunTyped ==
    ASSUME NEW str, Len(str) \in Nat, NEW s0 \in HostStates, NEW at,
           IsHostRun(str, s0, at)
    PROVE  \A i \in 0..Len(str) : at[i] \in HostStates
<1> DEFINE N == Len(str)
           T == {i \in Nat : i <= N /\ at[i] \notin HostStates}
<1>1. /\ at[0] = s0 /\ N \in Nat
      /\ \A i \in 1..N : at[i] = Uri!http_parse_host_char(at[i - 1], str[i])
  BY HostRunSteps
<1> HIDE DEF N
<1>2. T = {}
  <2> SUFFICES ASSUME T # {} PROVE FALSE
    OBVIOUS
  <2>1. PICK i \in T : \A y \in T : i <= y
    BY LeastNat
  <2>2. i # 0
    BY <1>1, <2>1
  <2>3. i \in 1..N /\ i - 1 \in Nat /\ i - 1 <= N /\ ~(i <= i - 1)
    BY <1>1, <2>1, <2>2
  <2>4. at[i - 1] \in HostStates
    BY <2>1, <2>3
  <2>5. at[i] \in HostStates
    BY <1>1, <2>3, <2>4, HostStep
  <2>6. QED
    BY <2>1, <2>5
<1>3. \A i \in 0..N : i \in Nat /\ i <= N
  BY <1>1
<1>4. QED
  BY <1>2, <1>3 DEF N

LEMMA UrlFieldsTyped ==
    ASSUME NEW X, NEW str \in Seq(X), NEW at, IsUrlRun(str, at)
    PROVE  /\ Scheme(str, at) \in Seq(Uri!Letters)
           /\ Path(str, at) \in Seq(Uri!UrlChars)
           /\ Query(str, at) \in Seq(Uri!UrlChars \cup {"?"})
           /\ Fragment(str, at) \in Seq(Uri!UrlChars \cup {"?", "#"})
           /\ Server(str, at) \in Seq(X)
<1>1. /\ Len(str) \in Nat
      /\ \A i \in 1..Len(str) : at[i] = Uri!parse_url_char(at[i - 1], str[i])
  BY UrlRunSteps
<1>2. \A i \in 0..Len(str) : at[i] \in UrlStates
  BY <1>1, UrlRunTyped
<1>3. \A i \in 1..Len(str) : i - 1 \in 0..Len(str)
  BY <1>1
<1>4. ASSUME NEW i \in 1..Len(str)
      PROVE  /\ at[i] = "s_req_schema" => str[i] \in Uri!Letters
             /\ at[i] = "s_req_path" => str[i] \in Uri!UrlChars
             /\ at[i] = "s_req_query_string" => str[i] \in Uri!UrlChars \cup {"?"}
             /\ at[i] = "s_req_fragment" => str[i] \in Uri!UrlChars \cup {"?", "#"}
  <2>1. at[i - 1] \in UrlStates /\ at[i] = Uri!parse_url_char(at[i - 1], str[i])
    BY <1>1, <1>2, <1>3
  <2> DEFINE s == at[i - 1]
             c == str[i]
             t == at[i]
  <2>2. s \in UrlStates /\ t = Uri!parse_url_char(s, c)
    BY <2>1
  <2> HIDE DEF s, c, t
  <2>3. /\ t = "s_req_schema" => c \in Uri!Letters
        /\ t = "s_req_path" => c \in Uri!UrlChars
        /\ t = "s_req_query_string" => c \in Uri!UrlChars \cup {"?"}
        /\ t = "s_req_fragment" => c \in Uri!UrlChars \cup {"?", "#"}
    BY <2>2, UrlTrans
  <2>4. QED
    BY <2>3 DEF s, c, t
<1>5. /\ Reads(str, at, {"s_req_schema"}, Uri!Letters)
      /\ Reads(str, at, {"s_req_path"}, Uri!UrlChars)
      /\ Reads(str, at, {"s_req_query_string"}, Uri!UrlChars \cup {"?"})
      /\ Reads(str, at, {"s_req_fragment"}, Uri!UrlChars \cup {"?", "#"})
      /\ Reads(str, at, {"s_req_server", "s_req_server_with_at"}, X)
  BY <1>4 DEF Reads
<1>6. Scheme(str, at) \in Seq(Uri!Letters)
  BY <1>5, FieldTyped DEF Scheme
<1>7. Path(str, at) \in Seq(Uri!UrlChars)
  BY <1>5, FieldTyped DEF Path
<1>8. Query(str, at) \in Seq(Uri!UrlChars \cup {"?"})
  BY <1>5, FieldTyped DEF Query
<1>9. Fragment(str, at) \in Seq(Uri!UrlChars \cup {"?", "#"})
  BY <1>5, FieldTyped DEF Fragment
<1>10. Server(str, at) \in Seq(X)
  BY <1>5, FieldTyped DEF Server
<1>11. QED
  BY <1>6, <1>7, <1>8, <1>9, <1>10

\* How the fields begin.
LEMMA UrlFieldsShaped ==
    ASSUME NEW X, NEW str \in Seq(X), NEW at, IsUrlRun(str, at)
    PROVE  Shape(at[Len(str)], Scheme(str, at), Server(str, at), Path(str, at),
                 Fragment(str, at))
<1> DEFINE N == Len(str)
           SchS == {"s_req_schema"}
           SrvS == {"s_req_server", "s_req_server_with_at"}
           PthS == {"s_req_path"}
           FraS == {"s_req_fragment"}
<1>1. /\ at[0] = "s_req_spaces_before_url" /\ N \in Nat
      /\ \A i \in 1..N : at[i] = Uri!parse_url_char(at[i - 1], str[i])
  BY UrlRunSteps
<1>2. \A i \in 0..N : at[i] \in UrlStates
  BY <1>1, UrlRunTyped
<1> HIDE DEF SchS, SrvS, PthS, FraS
<1>3. PICK a : FieldRun(str, at, SchS, a)
  BY FieldSteps
<1>4. PICK b : FieldRun(str, at, SrvS, b)
  BY FieldSteps
<1>5. PICK p : FieldRun(str, at, PthS, p)
  BY FieldSteps
<1>6. PICK f : FieldRun(str, at, FraS, f)
  BY FieldSteps
<1>7. /\ Reads(str, at, SchS, X) /\ Reads(str, at, SrvS, X)
      /\ Reads(str, at, PthS, X) /\ Reads(str, at, FraS, X)
  BY DEF Reads
<1>8. /\ \A i \in 0..N : a[i] \in Seq(X)
      /\ \A i \in 0..N : b[i] \in Seq(X)
      /\ \A i \in 0..N : p[i] \in Seq(X)
      /\ \A i \in 0..N : f[i] \in Seq(X)
  BY <1>3, <1>4, <1>5, <1>6, <1>7, FieldCells
<1>9. /\ Empty(a[0]) /\ Empty(b[0]) /\ Empty(p[0]) /\ Empty(f[0])
      /\ Scheme(str, at) = a[N] /\ Server(str, at) = b[N] /\ Path(str, at) = p[N]
      /\ Fragment(str, at) = f[N]
  BY <1>3, <1>4, <1>5, <1>6
     DEF FieldRun, Empty, Scheme, Server, Path, Fragment, SchS, SrvS, PthS, FraS
<1>10. ASSUME NEW i \in 1..N
       PROVE /\ a[i] = IF at[i] \in SchS THEN Append(a[i - 1], str[i]) ELSE a[i - 1]
             /\ b[i] = IF at[i] \in SrvS THEN Append(b[i - 1], str[i]) ELSE b[i - 1]
             /\ p[i] = IF at[i] \in PthS THEN Append(p[i - 1], str[i]) ELSE p[i - 1]
             /\ f[i] = IF at[i] \in FraS THEN Append(f[i - 1], str[i]) ELSE f[i - 1]
  BY <1>3, <1>4, <1>5, <1>6 DEF FieldRun
<1> DEFINE P(i) == Shape(at[i], a[i], b[i], p[i], f[i])
           T == {i \in Nat : i <= N /\ ~P(i)}
<1>11. ASSUME NEW i \in 1..N, P(i - 1) PROVE P(i)
  <2>1. /\ i - 1 \in 0..N /\ str[i] \in X
    BY <1>1
  <2>2. /\ at[i - 1] \in UrlStates /\ at[i] = Uri!parse_url_char(at[i - 1], str[i])
        /\ a[i - 1] \in Seq(X) /\ b[i - 1] \in Seq(X) /\ p[i - 1] \in Seq(X)
        /\ f[i - 1] \in Seq(X)
    BY <1>1, <1>2, <1>8, <2>1
  <2> DEFINE s == at[i - 1]
             c == str[i]
             t == at[i]
             a1 == a[i - 1]
             b1 == b[i - 1]
             p1 == p[i - 1]
             f1 == f[i - 1]
             a2 == a[i]
             b2 == b[i]
             p2 == p[i]
             f2 == f[i]
  <2>3. /\ s \in UrlStates /\ c \in X /\ t = Uri!parse_url_char(s, c)
        /\ a1 \in Seq(X) /\ b1 \in Seq(X) /\ p1 \in Seq(X) /\ f1 \in Seq(X)
        /\ Shape(s, a1, b1, p1, f1)
    BY <1>11, <2>1, <2>2
  <2>4. /\ a2 = IF t \in SchS THEN Append(a1, c) ELSE a1
        /\ b2 = IF t \in SrvS THEN Append(b1, c) ELSE b1
        /\ p2 = IF t \in PthS THEN Append(p1, c) ELSE p1
        /\ f2 = IF t \in FraS THEN Append(f1, c) ELSE f1
    BY <1>10
  <2> HIDE DEF s, c, t, a1, b1, p1, f1, a2, b2, p2, f2
  <2>5. Shape(t, a2, b2, p2, f2)
    BY ZenonT(60), <2>3, <2>4, ShapeStep DEF SchS, SrvS, PthS, FraS
  <2>6. QED
    BY <2>5 DEF t, a2, b2, p2, f2
<1>12. P(0)
  BY <1>1, <1>9 DEF Shape, ServerStates
<1> HIDE DEF P, N
<1>13. T = {}
  <2> SUFFICES ASSUME T # {} PROVE FALSE
    OBVIOUS
  <2>1. PICK i \in T : \A y \in T : i <= y
    BY LeastNat
  <2>2. i # 0
    BY <1>12, <2>1
  <2>3. i \in 1..N /\ i - 1 \in Nat /\ i - 1 <= N /\ ~(i <= i - 1)
    BY <1>1, <2>1, <2>2
  <2>4. P(i - 1)
    BY <2>1, <2>3
  <2>5. QED
    BY <1>11, <2>1, <2>3, <2>4
<1>14. P(N)
  BY <1>1, <1>13
<1>15. QED
  BY <1>9, <1>14 DEF P, N

\* A host that was read to its end without a bracket being closed has none.
LEMMA HostFieldsTyped ==
    ASSUME NEW X, NEW str \in Seq(X), NEW s0 \in HostStates, NEW at,
           IsHostRun(str, s0, at), at[Len(str)] \notin Unfinished,
           ~\E i \in DOMAIN at : at[i] = "v6_end"
    PROVE  /\ Userinfo(str, at) \in Seq(Uri!UserinfoChars)
           /\ HostName(str, at) \in Seq(Uri!HostChars)
           /\ PortText(str, at) \in Seq(Uri!Digits)
<1> DEFINE N == Len(str)
           Bad == InBrackets \cup {"s_dead"}
<1>1. /\ N \in Nat
      /\ \A i \in 1..N : at[i] = Uri!http_parse_host_char(at[i - 1], str[i])
  BY HostRunSteps
<1>2. \A i \in 0..N : at[i] \in HostStates
  BY <1>1, HostRunTyped
<1>3. \A i \in 0..N : at[i] # "v6_end"
  <2>1. DOMAIN at = 0..N
    BY DEF IsHostRun
  <2>2. QED
    BY <2>1
<1>4. ASSUME NEW i \in 1..N
      PROVE  /\ at[i] = "userinfo" => str[i] \in Uri!UserinfoChars
             /\ at[i] = "host" => str[i] \in Uri!HostChars
             /\ at[i] = "port" => str[i] \in Uri!Digits
             /\ at[i - 1] \in Bad => at[i] \in Bad
  <2>1. i - 1 \in 0..N /\ i \in 0..N
    BY <1>1
  <2> DEFINE s == at[i - 1]
             c == str[i]
             t == at[i]
  <2>2. s \in HostStates /\ t = Uri!http_parse_host_char(s, c) /\ t # "v6_end"
    BY <1>1, <1>2, <1>3, <2>1
  <2> HIDE DEF s, c, t
  <2>3. /\ t = "userinfo" => c \in Uri!UserinfoChars
        /\ t = "host" => c \in Uri!HostChars
        /\ t = "port" => c \in Uri!Digits
        /\ s \in Bad => t \in Bad
    BY <2>2, HostTrans
  <2>4. QED
    BY <2>3 DEF s, c, t
<1>5. at[N] \notin Bad
  BY DEF Unfinished, InBrackets
<1> HIDE DEF N, Bad
<1>6. ASSUME NEW i \in 0..N PROVE at[i] \notin Bad
  <2> SUFFICES ASSUME at[i] \in Bad PROVE FALSE
    OBVIOUS
  <2> DEFINE T == {j \in Nat : i <= j /\ j <= N /\ at[j] \notin Bad}
  <2>1. N \in T
    BY <1>1, <1>5
  <2>2. PICK j \in T : \A y \in T : j <= y
    BY <2>1, LeastNat
  <2>3. /\ j \in 1..N /\ j - 1 \in Nat /\ j - 1 <= N /\ ~(j <= j - 1)
        /\ i <= j - 1
    BY <1>1, <2>2
  <2>4. at[j - 1] \in Bad
    BY <2>2, <2>3
  <2>5. at[j] \in Bad
    BY <1>4, <2>3, <2>4
  <2>6. QED
    BY <2>2, <2>5
<1>7. \A i \in 1..N : i \in 0..N
  BY <1>1
<1>8. ASSUME NEW i \in 1..N,
             at[i] \in {"host", "v6", "v6_zone_start", "v6_zone"}
      PROVE  str[i] \in Uri!HostChars
  <2>1. at[i] \notin InBrackets
    BY <1>6, <1>7 DEF Bad
  <2>2. at[i] = "host"
    BY <1>8, <2>1 DEF InBrackets
  <2>3. QED
    BY <1>4, <2>2
<1>9. /\ Reads(str, at, {"userinfo"}, Uri!UserinfoChars)
      /\ Reads(str, at, {"port"}, Uri!Digits)
      /\ Reads(str, at, {"host", "v6", "v6_zone_start", "v6_zone"}, Uri!HostChars)
  BY <1>4, <1>8 DEF Reads, N
<1>10. Userinfo(str, at) \in Seq(Uri!UserinfoChars)
  BY <1>9, FieldTyped DEF Userinfo
<1>11. HostName(str, at) \in Seq(Uri!HostChars)
  BY <1>9, FieldTyped DEF HostName
<1>12. PortText(str, at) \in Seq(Uri!Digits)
  BY <1>9, FieldTyped DEF PortText
<1>13. QED
  BY <1>10, <1>11, <1>12

\* The number of a sequence of digits.
DigitOf(x) == CHOOSE d \in 0..9 : Uri!Digit[d + 1] = x
IsNumber(str, v) ==
    v = [i \in 0..Len(str) |-> IF i = 0 THEN 0 ELSE 10 * v[i - 1] + DigitOf(str[i])]
NumberRun(str, v) ==
    /\ Uri!Number(str) = v[Len(str)] /\ v[0] = 0
    /\ \A i \in 1..Len(str) : v[i - 1] \in Nat /\ v[i] = 10 * v[i - 1] + DigitOf(str[i])

LEMMA DigitValue ==
    ASSUME NEW d \in 0..9
    PROVE  Uri!Digit[d + 1] \in Uri!Digits /\ DigitOf(Uri!Digit[d + 1]) = d
<1>1. d + 1 \in 1..10
  OBVIOUS
<1>2. \A e \in 0..9 : Uri!Digit[e + 1] = Uri!Digit[d + 1] => e = d
  <2>1. \A e \in 0..9 : e = 0 \/ e = 1 \/ e = 2 \/ e = 3 \/ e = 4 \/ e = 5 \/ e = 6
                        \/ e = 7 \/ e = 8 \/ e = 9
    OBVIOUS
  <2>2. /\ Uri!Digit[0 + 1] = "0" /\ Uri!Digit[1 + 1] = "1" /\ Uri!Digit[2 + 1] = "2"
        /\ Uri!Digit[3 + 1] = "3" /\ Uri!Digit[4 + 1] = "4" /\ Uri!Digit[5 + 1] = "5"
        /\ Uri!Digit[6 + 1] = "6" /\ Uri!Digit[7 + 1] = "7" /\ Uri!Digit[8 + 1] = "8"
        /\ Uri!Digit[9 + 1] = "9"
    BY DEF Uri!Digit
  <2>3. QED
    BY <2>1, <2>2
<1>3. \E e \in 0..9 : Uri!Digit[e + 1] = Uri!Digit[d + 1]
  OBVIOUS
<1> DEFINE x == Uri!Digit[d + 1]
<1>4. DigitOf(x) \in 0..9 /\ Uri!Digit[DigitOf(x) + 1] = x
  <2> HIDE DEF x
  <2>1. \E e \in 0..9 : Uri!Digit[e + 1] = x
    BY <1>3 DEF x
  <2>2. QED
    BY <2>1 DEF DigitOf
<1>5. QED
  BY <1>1, <1>2, <1>4 DEF Uri!Digits

LEMMA DigitRange ==
    ASSUME NEW x \in Uri!Digits
    PROVE  DigitOf(x) \in 0..9
<1>1. PICK i \in 1..10 : x = Uri!Digit[i]
  BY DEF Uri!Digits
<1>2. i - 1 \in 0..9 /\ (i - 1) + 1 = i
  OBVIOUS
<1>3. \E e \in 0..9 : Uri!Digit[e + 1] = x
  BY <1>1, <1>2
<1>4. QED
  BY <1>3 DEF DigitOf

LEMMA NumberSteps ==
    ASSUME NEW str \in Seq(Uri!Digits)
    PROVE  Uri!Number(str) \in Nat /\ \E v : NumberRun(str, v)
<1> DEFINE S == Nat
           N == Len(str)
           step(s, i) == 10 * s + DigitOf(str[i])
           t == [i \in 1..N |-> [s \in S |-> step(s, i)]]
<1>1. N \in Nat /\ 0 \in S
  OBVIOUS
<1>2. \A f : IsNumber(str, f) <=> f = [i \in 0..N |-> IF i = 0 THEN 0 ELSE step(f[i - 1], i)]
  BY DEF IsNumber
<1>3. ASSUME NEW s \in S, NEW i \in 1..N PROVE step(s, i) \in S
  <2>1. str[i] \in Uri!Digits
    OBVIOUS
  <2>2. DigitOf(str[i]) \in 0..9
    BY <2>1, DigitRange
  <2>3. QED
    BY <2>2
<1> HIDE DEF S, N, step
<1>4. IsTable(t, S, N)
  BY <1>3 DEF IsTable
<1>5. PICK f : f \in [0..N -> S] /\ f[0] = 0 /\ \A i \in 1..N : f[i] = t[i][f[i - 1]]
  <2> HIDE DEF t
  <2>1. \E f : Obeys(f, S, 0, N, t)
    BY <1>1, <1>4, RecursionExists
  <2>2. QED
    BY <2>1 DEF Obeys
<1>6. ASSUME NEW i \in 0..N PROVE f[i] = IF i = 0 THEN 0 ELSE step(f[i - 1], i)
  <2>1. CASE i = 0
    BY <1>5, <2>1
  <2>2. CASE i # 0
    <3>1. i \in 1..N /\ i - 1 \in 0..N
      BY <1>1, <2>2
    <3>2. f[i - 1] \in S /\ f[i] = t[i][f[i - 1]]
      BY <1>5, <3>1
    <3>3. QED
      BY <2>2, <3>1, <3>2
  <2>3. QED
    BY <2>1, <2>2
<1>7. f = [i \in 0..N |-> IF i = 0 THEN 0 ELSE step(f[i - 1], i)]
  <2>1. f = [i \in 0..N |-> f[i]]
    BY <1>5
  <2>2. QED
    BY <1>6, <2>1
<1>8. \E g : IsNumber(str, g)
  BY <1>2, <1>7
<1> DEFINE v == CHOOSE g : IsNumber(str, g)
<1>9. Uri!Number(str) = v[N]
  BY DEF Uri!Number, IsNumber, DigitOf, N
<1>10. v = CHOOSE g : IsNumber(str, g)
  OBVIOUS
<1> HIDE DEF v
<1>11. IsNumber(str, v)
  BY <1>8, <1>10, Zenon
<1>12. v = [i \in 0..N |-> IF i = 0 THEN 0 ELSE step(v[i - 1], i)]
  BY <1>2, <1>11
<1>13. /\ v[0] = 0
       /\ \A i \in 1..N : v[i] = step(v[i - 1], i)
  BY <1>1, <1>12
<1> DEFINE T == {i \in Nat : i <= N /\ v[i] \notin S}
<1>14. T = {}
  <2> SUFFICES ASSUME T # {} PROVE FALSE
    OBVIOUS
  <2>1. PICK i \in T : \A y \in T : i <= y
    BY LeastNat
  <2>2. i # 0
    BY <1>1, <1>13, <2>1
  <2>3. i \in 1..N /\ i - 1 \in Nat /\ i - 1 <= N /\ ~(i <= i - 1)
    BY <1>1, <2>1, <2>2
  <2>4. v[i - 1] \in S
    BY <2>1, <2>3
  <2>5. v[i] \in S
    BY <1>3, <1>13, <2>3, <2>4
  <2>6. QED
    BY <2>1, <2>5
<1>15. \A i \in 0..N : i \in Nat /\ i <= N
  BY <1>1
<1>16. \A i \in 0..N : v[i] \in S
  BY <1>14, <1>15
<1>17. \A i \in 1..N : i - 1 \in 0..N
  BY <1>1
<1>18. NumberRun(str, v)
  <2>1. \A i \in 1..N : v[i - 1] \in Nat /\ v[i] = 10 * v[i - 1] + DigitOf(str[i])
    BY <1>13, <1>16, <1>17 DEF S, step
  <2>2. QED
    BY <1>9, <1>13, <2>1 DEF NumberRun, N
<1>19. Uri!Number(str) \in Nat
  BY <1>1, <1>9, <1>16 DEF S
<1>20. QED
  BY <1>18, <1>19

LEMMA TenPowers ==
    /\ Uri!Power(10, 0) = 1 /\ Uri!Power(10, 1) = 10 /\ Uri!Power(10, 2) = 100
    /\ Uri!Power(10, 3) = 1000 /\ Uri!Power(10, 4) = 10000
    /\ Uri!Power(10, 5) = 100000
<1>1. \A n : Uri!Power(10, n) = Power(10, n)
  BY DEF Uri!Power, Power
<1>2. Power(10, 0) = 1
  BY PowerZero
<1>3. \A n \in Nat : Power(10, n + 1) = 10 * Power(10, n)
  BY PowerNext
<1>4. Power(10, 0 + 1) = 10 /\ 0 + 1 = 1
  BY <1>2, <1>3
<1>5. Power(10, 1 + 1) = 100 /\ 1 + 1 = 2
  BY <1>3, <1>4
<1>6. Power(10, 2 + 1) = 1000 /\ 2 + 1 = 3
  BY <1>3, <1>5
<1>7. Power(10, 3 + 1) = 10000 /\ 3 + 1 = 4
  BY <1>3, <1>6
<1>8. Power(10, 4 + 1) = 100000 /\ 4 + 1 = 5
  BY <1>3, <1>7
<1>9. QED
  BY <1>1, <1>2, <1>4, <1>5, <1>6, <1>7, <1>8

\* A port is read back from its numeral.
LEMMA NumeralBack ==
    ASSUME NEW n \in Nat, n <= 65535, NEW t, t = Uri!Numeral(n)
    PROVE  t \in Seq(Uri!Digits) /\ ~Empty(t) /\ Uri!Number(t) = n
<1> DEFINE Fits(w) ==
             n < Uri!Power(10, w) /\ (w = 1 \/ n >= Uri!Power(10, w - 1))
           W == CHOOSE w \in 1..5 : Fits(w)
           D(i) == (n \div Uri!Power(10, W - i)) % 10
           q(i) == n \div Uri!Power(10, W - i)
<1>0. n \in Nat
  OBVIOUS
<1>1. \E w \in 1..5 : Fits(w)
  <2>1. 2 - 1 = 1 /\ 3 - 1 = 2 /\ 4 - 1 = 3 /\ 5 - 1 = 4
    OBVIOUS
  <2>2. Fits(1) \/ Fits(2) \/ Fits(3) \/ Fits(4) \/ Fits(5)
    BY <2>1, TenPowers
  <2> HIDE DEF Fits
  <2>3. QED
    BY <2>2
<1>2. W \in 1..5 /\ Fits(W)
  <2> HIDE DEF Fits
  <2>1. QED
    BY <1>1
<1>3. t = [i \in 1..W |-> Uri!Digit[D(i) + 1]]
  BY DEF Uri!Numeral
<1>4. W \in 1..5 /\ n < Uri!Power(10, W)
  BY <1>2
<1> HIDE DEF W, Fits
<1>5. ASSUME NEW i \in 1..W
      PROVE  /\ q(i) \in Nat /\ D(i) \in 0..9 /\ D(i) = q(i) % 10
             /\ q(i) = 10 * q(i - 1) + D(i)
  <2> DEFINE k == W - i
  <2>1. k \in 0..4 /\ W - (i - 1) = k + 1
    BY <1>4
  <2> DEFINE a == q(i)
             b == q(i - 1)
             p == Uri!Power(10, k)
  <2>2. a = n \div p /\ b = n \div Uri!Power(10, k + 1) /\ D(i) = a % 10
    BY <2>1
  <2>7. Uri!Power(10, k + 1) = 10 * p /\ p \in Nat \ {0}
    <3>1. k = 0 \/ k = 1 \/ k = 2 \/ k = 3 \/ k = 4
      BY <2>1
    <3> HIDE DEF k
    <3>2. k + 1 = 1 \/ k + 1 = 2 \/ k + 1 = 3 \/ k + 1 = 4 \/ k + 1 = 5
      BY <3>1
    <3>3. QED
      BY <3>1, <3>2, TenPowers
  <2>6. a \in Nat /\ a = 10 * b + (a % 10)
    <3>1. IsQuotient(b, n, 10 * p) /\ IsQuotient(a, n, p) /\ p \in Nat \ {0}
      BY <2>2, <2>7 DEF IsQuotient
    <3> HIDE DEF k, a, b, p
    <3>2. QED
      BY <3>1, DivByTen
  <2>3. q(i) \in Nat /\ D(i) = q(i) % 10 /\ q(i) = 10 * q(i - 1) + D(i)
    <3> HIDE DEF q, D
    <3>1. QED
      BY <2>2, <2>6
  <2> HIDE DEF q
  <2>4. D(i) \in 0..9
    <3>1. q(i) % 10 \in 0..9
      BY <2>3
    <3> HIDE DEF D
    <3>2. QED
      BY <2>3, <3>1
  <2> HIDE DEF D
  <2>5. QED
    BY <2>3, <2>4
<1>6. q(0) = 0 /\ q(W) = n
  <2>1. W - 0 = W /\ W - W = 0
    BY <1>4
  <2>2. n \div Uri!Power(10, 0) = n
    BY TenPowers
  <2>3. n \div Uri!Power(10, W) = 0
    <3> DEFINE p == Uri!Power(10, W)
    <3>1. W = 1 \/ W = 2 \/ W = 3 \/ W = 4 \/ W = 5
      BY <1>4
    <3>2. p \in Nat \ {0} /\ n < p
      BY <1>4, <3>1, TenPowers
    <3> HIDE DEF p
    <3>3. n = p * 0 + n /\ n \in 0..(p - 1)
      BY <3>2
    <3>4. n \div p = 0
      BY <3>2, <3>3, QuotientIs
    <3>5. QED
      BY <3>4 DEF p
  <2>4. QED
    BY <2>1, <2>2, <2>3
<1> HIDE DEF D, q
<1>7. \A i \in 1..W : Uri!Digit[D(i) + 1] \in Uri!Digits /\ DigitOf(Uri!Digit[D(i) + 1]) = D(i)
  BY <1>5, DigitValue
<1>8. t \in Seq(Uri!Digits) /\ Len(t) = W /\ \A i \in 1..W : t[i] = Uri!Digit[D(i) + 1]
  <2> DEFINE x(i) == Uri!Digit[D(i) + 1]
  <2>1. \A i \in 1..W : x(i) \in Uri!Digits
    BY <1>7
  <2>2. t = [i \in 1..W |-> x(i)]
    BY <1>3
  <2> HIDE DEF x
  <2>3. t \in Seq(Uri!Digits) /\ Len(t) = W /\ \A i \in 1..W : t[i] = x(i)
    BY <1>4, <2>1, <2>2
  <2>4. QED
    BY <2>3 DEF x
<1>9. PICK v : NumberRun(t, v)
  BY <1>8, NumberSteps
<1>10. /\ Uri!Number(t) = v[W] /\ v[0] = 0
       /\ \A i \in 1..W : v[i] = 10 * v[i - 1] + DigitOf(t[i])
  BY <1>8, <1>9 DEF NumberRun
<1>11. \A i \in 1..W : v[i] = 10 * v[i - 1] + D(i)
  BY <1>7, <1>8, <1>10
<1> DEFINE T == {i \in Nat : i <= W /\ v[i] # q(i)}
<1>12. T = {}
  <2> SUFFICES ASSUME T # {} PROVE FALSE
    OBVIOUS
  <2>1. PICK i \in T : \A y \in T : i <= y
    <3>1. T \in SUBSET Nat
      OBVIOUS
    <3> HIDE DEF T
    <3>2. QED
      BY <3>1, LeastNat
  <2>2. i # 0
    BY <1>6, <1>10, <2>1
  <2>3. i \in 1..W /\ i - 1 \in Nat /\ i - 1 <= W /\ ~(i <= i - 1)
    BY <1>4, <2>1, <2>2
  <2>4. v[i - 1] = q(i - 1)
    BY <2>1, <2>3
  <2>5. v[i] = q(i)
    BY <1>5, <1>11, <2>3, <2>4
  <2>6. QED
    BY <2>1, <2>5
<1>13. v[W] = n
  BY <1>4, <1>6, <1>12
<1>14. ~Empty(t)
  BY <1>4, <1>8 DEF Empty
<1>15. QED
  BY <1>8, <1>10, <1>13, <1>14

UrlKeeps(t, w) == \A k \in 1..Len(w) : Uri!parse_url_char(t, w[k]) = t
HostKeeps(t, w) == \A k \in 1..Len(w) : Uri!http_parse_host_char(t, w[k]) = t

LEMMA UrlSpan ==
    ASSUME NEW str, Len(str) \in Nat, NEW at, IsUrlRun(str, at),
           NEW w, Len(w) \in Nat, NEW p \in Nat, StandsAt(w, str, p), NEW t,
           Len(w) # 0 => Uri!parse_url_char(at[p], w[1]) = t, UrlKeeps(t, w)
    PROVE  Spans(at, p, p + Len(w), t)
<1> DEFINE n == Len(w)
           N == Len(str)
<1>1. /\ n \in Nat /\ N \in Nat /\ p + n <= N
      /\ \A k \in 1..n : str[p + k] = w[k]
      /\ n # 0 => Uri!parse_url_char(at[p], w[1]) = t
      /\ \A k \in 1..n : Uri!parse_url_char(t, w[k]) = t
      /\ \A i \in 1..N : at[i] = Uri!parse_url_char(at[i - 1], str[i])
  BY UrlRunSteps DEF StandsAt, UrlKeeps
<1> HIDE DEF n, N
<1>2. n # 0 => at[p + 1] = t
  <2> SUFFICES ASSUME n # 0 PROVE at[p + 1] = t
    OBVIOUS
  <2>0. n \in Nat \ {0} /\ N \in Nat /\ p + n <= N
    BY <1>1
  <2>1. p + 1 \in 1..N /\ (p + 1) - 1 = p /\ 1 \in 1..n
    BY <2>0
  <2>2. at[p + 1] = Uri!parse_url_char(at[(p + 1) - 1], str[p + 1])
    BY <1>1, <2>1
  <2>3. QED
    BY <1>1, <2>1, <2>2
<1>3. ASSUME NEW k \in 2..n, at[(p + k) - 1] = t PROVE at[p + k] = t
  <2>0. n \in Nat /\ N \in Nat /\ p + n <= N
    BY <1>1
  <2>1. p + k \in 1..N /\ k \in 1..n
    BY <2>0
  <2>2. at[p + k] = Uri!parse_url_char(at[(p + k) - 1], str[p + k])
    BY <1>1, <2>1
  <2>3. QED
    BY <1>1, <1>3, <2>1, <2>2
<1>4. Spans(at, p, p + n, t)
  BY <1>1, <1>2, <1>3, Spanned
<1>5. QED
  BY <1>4 DEF n

LEMMA HostSpan ==
    ASSUME NEW str, Len(str) \in Nat, NEW s0, NEW at, IsHostRun(str, s0, at),
           NEW w, Len(w) \in Nat, NEW p \in Nat, StandsAt(w, str, p), NEW t,
           Len(w) # 0 => Uri!http_parse_host_char(at[p], w[1]) = t, HostKeeps(t, w)
    PROVE  Spans(at, p, p + Len(w), t)
<1> DEFINE n == Len(w)
           N == Len(str)
<1>1. /\ n \in Nat /\ N \in Nat /\ p + n <= N
      /\ \A k \in 1..n : str[p + k] = w[k]
      /\ n # 0 => Uri!http_parse_host_char(at[p], w[1]) = t
      /\ \A k \in 1..n : Uri!http_parse_host_char(t, w[k]) = t
      /\ \A i \in 1..N : at[i] = Uri!http_parse_host_char(at[i - 1], str[i])
  BY HostRunSteps DEF StandsAt, HostKeeps
<1> HIDE DEF n, N
<1>2. n # 0 => at[p + 1] = t
  <2> SUFFICES ASSUME n # 0 PROVE at[p + 1] = t
    OBVIOUS
  <2>0. n \in Nat \ {0} /\ N \in Nat /\ p + n <= N
    BY <1>1
  <2>1. p + 1 \in 1..N /\ (p + 1) - 1 = p /\ 1 \in 1..n
    BY <2>0
  <2>2. at[p + 1] = Uri!http_parse_host_char(at[(p + 1) - 1], str[p + 1])
    BY <1>1, <2>1
  <2>3. QED
    BY <1>1, <2>1, <2>2
<1>3. ASSUME NEW k \in 2..n, at[(p + k) - 1] = t PROVE at[p + k] = t
  <2>0. n \in Nat /\ N \in Nat /\ p + n <= N
    BY <1>1
  <2>1. p + k \in 1..N /\ k \in 1..n
    BY <2>0
  <2>2. at[p + k] = Uri!http_parse_host_char(at[(p + k) - 1], str[p + k])
    BY <1>1, <2>1
  <2>3. QED
    BY <1>1, <1>3, <2>1, <2>2
<1>4. Spans(at, p, p + n, t)
  BY <1>1, <1>2, <1>3, Spanned
<1>5. QED
  BY <1>4 DEF n

\* Of the first N characters, those after p and up to p + n are read in states.
Marks(at, states, N, p, n) ==
    \A i \in 1..N : at[i] \in states <=> (p < i /\ i <= p + n)

LEMMA FieldIs ==
    ASSUME NEW X, NEW str \in Seq(X), NEW at, NEW states, NEW w \in Seq(X),
           NEW p \in Nat, StandsAt(w, str, p),
           Marks(at, states, Len(str), p, Len(w))
    PROVE  Uri!Field(str, at, states) = w
<1> DEFINE N == Len(str)
           n == Len(w)
           L(i) == IF i <= p THEN 0 ELSE IF i <= p + n THEN i - p ELSE n
<1>1. PICK f : FieldRun(str, at, states, f)
  BY FieldSteps
<1>2. Reads(str, at, states, X)
  BY DEF Reads
<1>3. \A i \in 0..N : f[i] \in Seq(X)
  BY <1>1, <1>2, FieldCells
<1>4. /\ Uri!Field(str, at, states) = f[N] /\ f[0] = <<>>
      /\ \A i \in 1..N :
            f[i] = IF at[i] \in states THEN Append(f[i - 1], str[i]) ELSE f[i - 1]
  BY <1>1 DEF FieldRun
<1>5. /\ N \in Nat /\ n \in Nat /\ p + n <= N
      /\ \A k \in 1..n : str[p + k] = w[k]
  BY DEF StandsAt
<1>6. \A i \in 1..N : at[i] \in states <=> (p < i /\ i <= p + n)
  BY DEF Marks
<1> HIDE DEF N, n
<1> DEFINE P(i) == Len(f[i]) = L(i) /\ \A k \in 1..L(i) : f[i][k] = w[k]
           T == {i \in Nat : i <= N /\ ~P(i)}
<1>7. P(0)
  <2>1. Len(f[0]) = 0 /\ L(0) = 0
    BY <1>4
  <2>2. QED
    BY <2>1
<1>8. ASSUME NEW i \in 1..N, P(i - 1) PROVE P(i)
  <2>1. /\ i - 1 \in 0..N /\ i \in 0..N
    BY <1>5
  <2>2. CASE p < i /\ i <= p + n
    <3> DEFINE v == f[i - 1]
               x == str[i]
               u == f[i]
               m == L(i - 1)
    <3>1. /\ u = Append(v, x) /\ v \in Seq(X) /\ x \in X
      <4>1. at[i] \in states
        BY <1>6, <2>2
      <4>2. x \in X
        BY DEF N
      <4>3. QED
        BY <1>3, <1>4, <2>1, <4>1, <4>2
    <3>2. m \in Nat /\ L(i) = m + 1 /\ i = p + (m + 1) /\ m + 1 \in 1..n
      BY <1>5, <2>2
    <3>3. x = w[m + 1]
      BY <1>5, <3>2
    <3>4. Len(v) = m /\ \A k \in 1..m : v[k] = w[k]
      BY <1>8
    <3> HIDE DEF v, x, u, m
    <3>5. Len(u) = m + 1 /\ u[m + 1] = x /\ \A k \in 1..m : u[k] = v[k]
      BY <3>1, <3>4
    <3>6. \A k \in 1..(m + 1) : k = m + 1 \/ k \in 1..m
      BY <3>2
    <3>7. \A k \in 1..(m + 1) : u[k] = w[k]
      BY <3>3, <3>4, <3>5, <3>6
    <3>8. Len(u) = L(i) /\ \A k \in 1..L(i) : u[k] = w[k]
      <4> HIDE DEF L
      <4>1. QED
        BY <3>2, <3>5, <3>7
    <3>9. QED
      BY <3>8 DEF u
  <2>3. CASE ~(p < i /\ i <= p + n)
    <3>1. f[i] = f[i - 1]
      BY <1>4, <1>6, <2>3
    <3>2. L(i) = L(i - 1)
      BY <1>5, <2>3
    <3> HIDE DEF L
    <3>3. QED
      BY <1>8, <3>1, <3>2
  <2>4. QED
    BY <2>2, <2>3
<1> HIDE DEF P
<1>9. T = {}
  <2> SUFFICES ASSUME T # {} PROVE FALSE
    OBVIOUS
  <2>1. PICK i \in T : \A y \in T : i <= y
    <3>1. T \in SUBSET Nat
      OBVIOUS
    <3> HIDE DEF T
    <3>2. QED
      BY <3>1, LeastNat
  <2>2. i # 0
    BY <1>7, <2>1
  <2>3. i \in 1..N /\ i - 1 \in Nat /\ i - 1 <= N /\ ~(i <= i - 1)
    BY <1>5, <2>1, <2>2
  <2>4. P(i - 1)
    BY <2>1, <2>3
  <2>5. QED
    BY <1>8, <2>1, <2>3, <2>4
<1>10. P(N)
  BY <1>5, <1>9
<1>11. L(N) = n
  BY <1>5
<1>12. Len(f[N]) = n /\ (\A k \in 1..n : f[N][k] = w[k]) /\ f[N] \in Seq(X)
  <2>1. Len(f[N]) = L(N) /\ \A k \in 1..L(N) : f[N][k] = w[k]
    BY <1>10 DEF P
  <2>2. N \in 0..N
    BY <1>5
  <2> HIDE DEF L
  <2>3. QED
    BY <1>3, <1>11, <2>1, <2>2
<1> DEFINE g == f[N]
<1>13. /\ g \in Seq(X) /\ Len(g) = n /\ Len(w) = n /\ \A k \in 1..n : g[k] = w[k]
  BY <1>12 DEF n
<1> HIDE DEF g
<1>14. g = w
  BY <1>13, SameSequence
<1>15. QED
  BY <1>4, <1>14 DEF g

\* The steps that the parts of a written URL take.
LEMMA CharClasses ==
    /\ \A c \in Uri!UserinfoChars :
         c \notin {"/", "?", "@", "#", "[", "]"} /\ c \notin Uri!White
    /\ \A c \in Uri!UrlChars : c \notin {"?", "#"} /\ c \notin Uri!White
    /\ \A c \in Uri!HostChars : c \in Uri!UserinfoChars /\ c \notin {"[", ":"}
    /\ \A c \in Uri!Letters : c \in Uri!UserinfoChars /\ c \notin {"/", "*", ":"}
    /\ \A c \in Uri!Digits : c \in Uri!UserinfoChars
    /\ \A c \in Uri!UserinfoChars : c \in Uri!UrlChars
    /\ ":" \in Uri!UserinfoChars /\ "/" \in Uri!UrlChars /\ "@" \in Uri!UrlChars
    /\ {"/", "?", "@", "#", ":"} \cap Uri!White = {}
  BY DigitSet DEF Uri!UserinfoChars, Uri!White, Uri!UrlChars, Uri!HostChars,
                  Uri!Alnum, Uri!Letters

LEMMA SchemeSteps ==
    /\ \A c \in Uri!Letters :
         /\ Uri!parse_url_char("s_req_spaces_before_url", c) = "s_req_schema"
         /\ Uri!parse_url_char("s_req_schema", c) = "s_req_schema"
    /\ Uri!parse_url_char("s_req_schema", ":") = "s_req_schema_slash"
    /\ Uri!parse_url_char("s_req_schema_slash", "/") = "s_req_schema_slash_slash"
    /\ Uri!parse_url_char("s_req_schema_slash_slash", "/") = "s_req_server_start"
<1>1. ASSUME NEW c \in Uri!Letters
      PROVE  /\ Uri!parse_url_char("s_req_spaces_before_url", c) = "s_req_schema"
             /\ Uri!parse_url_char("s_req_schema", c) = "s_req_schema"
  <2>1. c \notin Uri!White /\ c \notin {"/", "*", ":"}
    BY CharClasses
  <2>2. QED
    BY <2>1 DEF Uri!parse_url_char
<1>2. ":" \notin Uri!White /\ "/" \notin Uri!White /\ ":" \notin Uri!Letters
  BY CharClasses
<1>3. Uri!parse_url_char("s_req_schema", ":") = "s_req_schema_slash"
  BY <1>2 DEF Uri!parse_url_char
<1>4. Uri!parse_url_char("s_req_schema_slash", "/") = "s_req_schema_slash_slash"
  BY <1>2 DEF Uri!parse_url_char
<1>5. Uri!parse_url_char("s_req_schema_slash_slash", "/") = "s_req_server_start"
  BY <1>2 DEF Uri!parse_url_char
<1>6. QED
  BY <1>1, <1>3, <1>4, <1>5

LEMMA ServerSteps ==
    /\ \A s \in ServerStates : \A c \in Uri!UserinfoChars :
         Uri!parse_url_char(s, c) = "s_req_server"
    /\ Uri!parse_url_char("s_req_server", "@") = "s_req_server_with_at"
    /\ \A s \in ServerStates : Uri!parse_url_char(s, "/") = "s_req_path"
<1>1. ASSUME NEW s \in ServerStates, NEW c \in Uri!UserinfoChars
      PROVE  Uri!parse_url_char(s, c) = "s_req_server"
  <2>1. c \notin Uri!White /\ c \notin {"/", "?", "@", "#", "[", "]"}
    BY CharClasses
  <2>2. Uri!parse_server_char(s, c) = "s_req_server"
    BY <2>1 DEF Uri!parse_server_char
  <2>3. QED
    BY <2>1, <2>2 DEF Uri!parse_url_char, ServerStates
<1>2. Uri!parse_url_char("s_req_server", "@") = "s_req_server_with_at"
  <2>1. "@" \notin Uri!White /\ "@" \notin Uri!UserinfoChars
    BY CharClasses
  <2>2. Uri!parse_server_char("s_req_server", "@") = "s_req_server_with_at"
    BY <2>1 DEF Uri!parse_server_char
  <2>3. QED
    BY <2>1, <2>2 DEF Uri!parse_url_char
<1>3. ASSUME NEW s \in ServerStates
      PROVE  Uri!parse_url_char(s, "/") = "s_req_path"
  <2>1. "/" \notin Uri!White /\ "/" \notin Uri!UserinfoChars
    BY CharClasses
  <2>2. Uri!parse_server_char(s, "/") = "s_req_path"
    BY <2>1 DEF Uri!parse_server_char
  <2>3. QED
    BY <2>1, <2>2 DEF Uri!parse_url_char, ServerStates
<1>4. QED
  BY <1>1, <1>2, <1>3

LEMMA PathSteps ==
    /\ \A c \in Uri!UrlChars : Uri!parse_url_char("s_req_path", c) = "s_req_path"
    /\ Uri!parse_url_char("s_req_path", "?") = "s_req_query_string_start"
    /\ \A s \in {"s_req_query_string_start", "s_req_query_string"} :
         \A c \in Uri!UrlChars \cup {"?"} :
           Uri!parse_url_char(s, c) = "s_req_query_string"
    /\ \A s \in {"s_req_path", "s_req_query_string"} :
         Uri!parse_url_char(s, "#") = "s_req_fragment_start"
    /\ \A c \in Uri!UrlChars \cup {"?"} :
         Uri!parse_url_char("s_req_fragment_start", c) = "s_req_fragment"
    /\ \A c \in Uri!UrlChars \cup {"?", "#"} :
         Uri!parse_url_char("s_req_fragment", c) = "s_req_fragment"
<1>1. /\ "?" \notin Uri!White /\ "#" \notin Uri!White /\ "?" \notin Uri!UrlChars
      /\ "#" \notin Uri!UrlChars
  BY CharClasses
<1>2. \A c \in Uri!UrlChars : c \notin {"?", "#"} /\ c \notin Uri!White
  BY CharClasses
<1>3. \A c \in Uri!UrlChars : Uri!parse_url_char("s_req_path", c) = "s_req_path"
  BY <1>2 DEF Uri!parse_url_char
<1>4. Uri!parse_url_char("s_req_path", "?") = "s_req_query_string_start"
  BY <1>1 DEF Uri!parse_url_char
<1>5. ASSUME NEW s \in {"s_req_query_string_start", "s_req_query_string"},
             NEW c \in Uri!UrlChars \cup {"?"}
      PROVE  Uri!parse_url_char(s, c) = "s_req_query_string"
  <2>1. c \notin Uri!White /\ c # "#"
    BY <1>1, <1>2
  <2>2. QED
    BY <2>1 DEF Uri!parse_url_char
<1>6. ASSUME NEW s \in {"s_req_path", "s_req_query_string"}
      PROVE  Uri!parse_url_char(s, "#") = "s_req_fragment_start"
  <2>1. "#" \notin Uri!UrlChars \cup {"?"}
    BY <1>1
  <2>2. QED
    BY <1>1, <2>1 DEF Uri!parse_url_char
<1>7. ASSUME NEW c \in Uri!UrlChars \cup {"?"}
      PROVE  Uri!parse_url_char("s_req_fragment_start", c) = "s_req_fragment"
  <2>1. c \notin Uri!White /\ c # "#"
    BY <1>1, <1>2
  <2>2. QED
    BY <2>1 DEF Uri!parse_url_char
<1>8. ASSUME NEW c \in Uri!UrlChars \cup {"?", "#"}
      PROVE  Uri!parse_url_char("s_req_fragment", c) = "s_req_fragment"
  <2>1. c \notin Uri!White /\ (c = "#" \/ c \in Uri!UrlChars \cup {"?"})
    BY <1>1, <1>2
  <2>2. QED
    BY <2>1 DEF Uri!parse_url_char
<1>9. QED
  BY <1>3, <1>4, <1>5, <1>6, <1>7, <1>8

LEMMA HostSteps ==
    /\ \A s \in {"userinfo_start", "userinfo"} : \A c \in Uri!UserinfoChars :
         Uri!http_parse_host_char(s, c) = "userinfo"
    /\ Uri!http_parse_host_char("userinfo", "@") = "host_start"
    /\ \A s \in {"host_start", "host"} : \A c \in Uri!HostChars :
         Uri!http_parse_host_char(s, c) = "host"
    /\ Uri!http_parse_host_char("host", ":") = "port_start"
    /\ \A s \in {"port_start", "port"} : \A c \in Uri!Digits :
         Uri!http_parse_host_char(s, c) = "port"
<1>1. /\ \A c \in Uri!UserinfoChars : c # "@"
      /\ \A c \in Uri!HostChars : c \notin {"[", ":"}
  BY CharClasses
<1>2. \A s \in {"userinfo_start", "userinfo"} : \A c \in Uri!UserinfoChars :
         Uri!http_parse_host_char(s, c) = "userinfo"
  BY <1>1 DEF Uri!http_parse_host_char
<1>3. Uri!http_parse_host_char("userinfo", "@") = "host_start"
  BY DEF Uri!http_parse_host_char
<1>4. \A s \in {"host_start", "host"} : \A c \in Uri!HostChars :
         Uri!http_parse_host_char(s, c) = "host"
  BY <1>1 DEF Uri!http_parse_host_char
<1>5. Uri!http_parse_host_char("host", ":") = "port_start"
  BY <1>1 DEF Uri!http_parse_host_char
<1>6. \A s \in {"port_start", "port"} : \A c \in Uri!Digits :
         Uri!http_parse_host_char(s, c) = "port"
  BY DEF Uri!http_parse_host_char
<1>7. QED
  BY <1>2, <1>3, <1>4, <1>5, <1>6

\* The host that toString writes: U is the user with its @, P the port with its
\* colon.
HostWord(sw, ui, U, host, P, digits) ==
    /\ ui \in Seq(Uri!UserinfoChars) /\ host \in Seq(Uri!HostChars) /\ ~Empty(host)
    /\ digits \in Seq(Uri!Digits)
    /\ \/ Empty(ui) /\ Empty(U)
       \/ ~Empty(ui) /\ IsJoin(U, ui, <<"@">>)
    /\ \/ Empty(digits) /\ Empty(P)
       \/ ~Empty(digits) /\ IsJoin(P, <<":">>, digits)
    /\ \E r : IsJoin(r, host, P) /\ IsJoin(sw, U, r)

\* Where its parts stand.
HostLaid(sw, ui, U, host, P, digits, h, p, N) ==
    /\ Len(ui) \in Nat /\ Len(host) \in Nat \ {0} /\ Len(digits) \in Nat
    /\ h \in Nat /\ p \in Nat /\ N \in Nat /\ Len(sw) = N /\ p = h + Len(host)
    /\ StandsAt(ui, sw, 0) /\ StandsAt(host, sw, h)
    /\ \/ Len(ui) = 0 /\ h = 0
       \/ Len(ui) # 0 /\ h = Len(ui) + 1 /\ sw[h] = "@"
    /\ \/ Len(digits) = 0 /\ N = p
       \/ /\ Len(digits) # 0 /\ N = p + 1 + Len(digits)
          /\ sw[p + 1] = ":" /\ StandsAt(digits, sw, p + 1)

LEMMA SeqUrl ==
    /\ \A v \in Seq(Uri!UserinfoChars) : v \in Seq(Uri!UrlChars)
    /\ \A v \in Seq(Uri!HostChars) : v \in Seq(Uri!UrlChars) /\ v \in Seq(Uri!UserinfoChars)
    /\ \A v \in Seq(Uri!Digits) : v \in Seq(Uri!UrlChars) /\ v \in Seq(Uri!UserinfoChars)
    /\ <<"@">> \in Seq(Uri!UrlChars) /\ <<":">> \in Seq(Uri!UrlChars)
    /\ <<":">> \in Seq(Uri!UserinfoChars)
<1>1. /\ Uri!UserinfoChars \subseteq Uri!UrlChars
      /\ Uri!HostChars \subseteq Uri!UserinfoChars /\ Uri!Digits \subseteq Uri!UserinfoChars
      /\ ":" \in Uri!UserinfoChars /\ "@" \in Uri!UrlChars /\ ":" \in Uri!UrlChars
  BY CharClasses
<1>2. \A A, D : A \subseteq D => \A v \in Seq(A) : v \in Seq(D)
  OBVIOUS
<1>3. <<"@">> \in Seq(Uri!UrlChars) /\ <<":">> \in Seq(Uri!UrlChars)
  BY <1>1
<1>4. <<":">> \in Seq(Uri!UserinfoChars)
  BY <1>1
<1>5. QED
  BY <1>1, <1>2, <1>3, <1>4

LEMMA HostLays ==
    ASSUME NEW sw, NEW ui, NEW U, NEW host, NEW P, NEW digits,
           HostWord(sw, ui, U, host, P, digits),
           NEW h, h = Len(U), NEW p, p = h + Len(host), NEW N, N = Len(sw)
    PROVE  /\ HostLaid(sw, ui, U, host, P, digits, h, p, N)
           /\ sw \in Seq(Uri!UrlChars) /\ U \in Seq(Uri!UrlChars)
           /\ P \in Seq(Uri!UrlChars) /\ ~Empty(sw)
<1> DEFINE C == Uri!UrlChars
           AtSign == <<"@">>
           Colon == <<":">>
<1>1. /\ ui \in Seq(C) /\ host \in Seq(C) /\ digits \in Seq(C)
      /\ AtSign \in Seq(C) /\ Colon \in Seq(C) /\ ~Empty(host)
  BY SeqUrl DEF HostWord
<1>2. /\ \/ Empty(ui) /\ Empty(U)
         \/ ~Empty(ui) /\ IsJoin(U, ui, AtSign)
      /\ \/ Empty(digits) /\ Empty(P)
         \/ ~Empty(digits) /\ IsJoin(P, Colon, digits)
  BY DEF HostWord
<1>3. PICK r : IsJoin(r, host, P) /\ IsJoin(sw, U, r)
  BY DEF HostWord
<1>4. Len(AtSign) = 1 /\ Len(Colon) = 1 /\ <<>> \in Seq(C)
  OBVIOUS
<1>5. ASSUME NEW s, NEW q, StandsAt(AtSign, s, q) PROVE s[q + 1] = "@"
  BY <1>5, SingleStands
<1>6. ASSUME NEW s, NEW q, StandsAt(Colon, s, q) PROVE s[q + 1] = ":"
  BY <1>6, SingleStands
<1> HIDE DEF C, AtSign, Colon
<1>7. U \in Seq(C) /\ P \in Seq(C)
  <2>1. Empty(U) => U \in Seq(C)
    BY <1>4 DEF Empty
  <2>2. Empty(P) => P \in Seq(C)
    BY <1>4 DEF Empty
  <2>3. QED
    BY <1>1, <1>2, <2>1, <2>2, JoinStands
<1>8. /\ r \in Seq(C) /\ Len(r) = Len(host) + Len(P)
      /\ StandsAt(host, r, 0) /\ StandsAt(P, r, Len(host))
  BY <1>1, <1>3, <1>7, JoinStands
<1>9. /\ sw \in Seq(C) /\ Len(sw) = Len(U) + Len(r)
      /\ StandsAt(U, sw, 0) /\ StandsAt(r, sw, Len(U))
  BY <1>3, <1>7, <1>8, JoinStands
<1> DEFINE a == Len(ui)
           b == Len(host)
           d == Len(digits)
           e == Len(P)
           f == Len(r)
<1>10. /\ a \in Nat /\ b \in Nat \ {0} /\ d \in Nat /\ e \in Nat /\ f \in Nat /\ h \in Nat
       /\ N \in Nat /\ p = h + b /\ N = h + f /\ f = b + e
       /\ Empty(ui) <=> a = 0
       /\ Empty(digits) <=> d = 0
       /\ Empty(U) <=> h = 0
       /\ Empty(P) <=> e = 0
       /\ Empty(sw) <=> N = 0
       /\ Len(U) = h /\ Len(sw) = N
  <2>1. /\ a \in Nat /\ b \in Nat /\ d \in Nat /\ e \in Nat /\ f \in Nat /\ Len(U) \in Nat
        /\ Len(sw) \in Nat
        /\ Empty(ui) <=> a = 0
        /\ Empty(host) <=> b = 0
        /\ Empty(digits) <=> d = 0
        /\ Empty(U) <=> Len(U) = 0
        /\ Empty(P) <=> e = 0
        /\ Empty(sw) <=> Len(sw) = 0
    BY <1>1, <1>7, <1>8, <1>9, EmptyLen
  <2> HIDE DEF a, b, d, e, f
  <2>2. QED
    BY <1>1, <1>8, <1>9, <2>1 DEF a, b, d, e, f
<1> HIDE DEF a, b, d, e, f
<1>11. StandsAt(host, sw, h) /\ StandsAt(P, sw, p)
  <2>1. h + 0 = h
    BY <1>10
  <2>2. StandsAt(host, sw, h + 0)
    BY <1>8, <1>9, <1>10, StandsDeep DEF b, f
  <2>3. StandsAt(P, sw, h + b)
    BY <1>8, <1>9, <1>10, StandsDeep DEF b, e, f
  <2>4. QED
    BY <1>10, <2>1, <2>2, <2>3
<1>12. /\ StandsAt(ui, sw, 0)
       /\ \/ a = 0 /\ h = 0
          \/ a # 0 /\ h = a + 1 /\ sw[h] = "@"
  <2>1. CASE Empty(ui) /\ Empty(U)
    <3>1. a = 0 /\ h = 0
      BY <1>10, <2>1
    <3>2. StandsAt(ui, sw, 0)
      BY <1>10, <3>1 DEF StandsAt, a
    <3>3. QED
      BY <3>1, <3>2
  <2>2. CASE ~Empty(ui) /\ IsJoin(U, ui, AtSign)
    <3>1. /\ Len(U) = a + 1 /\ StandsAt(ui, U, 0) /\ StandsAt(AtSign, U, a)
      BY ZenonT(60), <1>1, <1>4, <2>2, JoinStands DEF a
    <3>2. StandsAt(ui, sw, 0 + 0)
      BY <1>9, <1>10, <3>1, StandsDeep DEF a
    <3>3. StandsAt(AtSign, sw, 0 + a)
      <4>1. Len(AtSign) \in Nat
        BY <1>4
      <4>2. QED
        BY <1>9, <1>10, <3>1, <4>1, StandsDeep
    <3>4. sw[(0 + a) + 1] = "@"
      BY <1>5, <3>3
    <3>5. 0 + 0 = 0 /\ (0 + a) + 1 = h /\ a # 0 /\ h = a + 1
      BY <1>10, <2>2, <3>1
    <3>6. QED
      BY <3>2, <3>4, <3>5
  <2>3. QED
    BY <1>2, <2>1, <2>2
<1>13. \/ d = 0 /\ N = p
       \/ d # 0 /\ N = p + 1 + d /\ sw[p + 1] = ":" /\ StandsAt(digits, sw, p + 1)
  <2>1. CASE Empty(digits) /\ Empty(P)
    BY <1>10, <2>1
  <2>2. CASE ~Empty(digits) /\ IsJoin(P, Colon, digits)
    <3>1. /\ Len(P) = 1 + d /\ StandsAt(Colon, P, 0) /\ StandsAt(digits, P, 1)
      <4>1. /\ Len(P) = Len(Colon) + Len(digits) /\ StandsAt(Colon, P, 0)
            /\ StandsAt(digits, P, Len(Colon))
        BY <1>1, <2>2, JoinStands
      <4>2. QED
        BY <1>4, <4>1 DEF d
    <3>2. p \in Nat /\ Len(P) = e /\ Len(P) \in Nat /\ Len(Colon) \in Nat
      BY <1>4, <1>10 DEF e
    <3>3. StandsAt(digits, sw, p + 1)
      BY <1>10, <1>11, <3>1, <3>2, StandsDeep DEF d
    <3>4. StandsAt(Colon, sw, p + 0)
      BY <1>10, <1>11, <3>1, <3>2, StandsDeep
    <3>5. sw[(p + 0) + 1] = ":"
      BY <1>6, <3>4
    <3>6. (p + 0) + 1 = p + 1 /\ d # 0 /\ N = p + 1 + d
      <4>1. e = 1 + d
        BY <3>1, <3>2
      <4>2. QED
        BY <1>10, <2>2, <3>2, <4>1
    <3>7. QED
      BY <3>3, <3>5, <3>6
  <2>3. QED
    BY <1>2, <2>1, <2>2
<1>14. HostLaid(sw, ui, U, host, P, digits, h, p, N)
  <2>1. p \in Nat /\ p = h + Len(host) /\ Len(ui) = a /\ Len(host) = b /\ Len(digits) = d
    BY <1>10 DEF a, b, d
  <2>2. QED
    BY <1>10, <1>11, <1>12, <1>13, <2>1 DEF HostLaid
<1>15. ~Empty(sw)
  <2>1. N # 0
    BY <1>10
  <2>2. QED
    BY <1>10, <2>1
<1>16. QED
  BY <1>7, <1>9, <1>14, <1>15 DEF C

\* The states in which the written host is read.
HostMap(at, a, h, p, d, N) ==
    /\ Spans(at, 0, a, "userinfo") /\ (a # 0 => at[h] = "host_start")
    /\ Spans(at, h, p, "host") /\ (d # 0 => at[p + 1] = "port_start")
    /\ Spans(at, p + 1, N, "port")

LEMMA KeepsAll ==
    /\ \A v \in Seq(Uri!UserinfoChars) : HostKeeps("userinfo", v)
    /\ \A v \in Seq(Uri!HostChars) : HostKeeps("host", v)
    /\ \A v \in Seq(Uri!Digits) : HostKeeps("port", v)
<1>1. \A A : \A v \in Seq(A) : \A k \in 1..Len(v) : v[k] \in A
  OBVIOUS
<1>2. ASSUME NEW v \in Seq(Uri!UserinfoChars) PROVE HostKeeps("userinfo", v)
  BY <1>1, HostSteps DEF HostKeeps
<1>3. ASSUME NEW v \in Seq(Uri!HostChars) PROVE HostKeeps("host", v)
  BY <1>1, HostSteps DEF HostKeeps
<1>4. ASSUME NEW v \in Seq(Uri!Digits) PROVE HostKeeps("port", v)
  BY <1>1, HostSteps DEF HostKeeps
<1>5. QED
  BY <1>2, <1>3, <1>4

LEMMA HostReads ==
    ASSUME NEW sw, NEW ui, NEW U, NEW host, NEW P, NEW digits, NEW h, NEW p, NEW N,
           HostLaid(sw, ui, U, host, P, digits, h, p, N),
           ui \in Seq(Uri!UserinfoChars), host \in Seq(Uri!HostChars),
           digits \in Seq(Uri!Digits), NEW s0,
           s0 = IF Len(ui) = 0 THEN "host_start" ELSE "userinfo_start",
           NEW at, IsHostRun(sw, s0, at)
    PROVE  HostMap(at, Len(ui), h, p, Len(digits), N)
<1> DEFINE a == Len(ui)
           b == Len(host)
           d == Len(digits)
<1>1. /\ a \in Nat /\ b \in Nat \ {0} /\ d \in Nat /\ h \in Nat /\ p \in Nat /\ N \in Nat
      /\ Len(sw) = N /\ p = h + b
      /\ StandsAt(ui, sw, 0) /\ StandsAt(host, sw, h)
      /\ \/ a = 0 /\ h = 0
         \/ a # 0 /\ h = a + 1 /\ sw[h] = "@"
      /\ \/ d = 0 /\ N = p
         \/ d # 0 /\ N = p + 1 + d /\ sw[p + 1] = ":" /\ StandsAt(digits, sw, p + 1)
  BY DEF HostLaid
<1>2. /\ at[0] = s0
      /\ \A i \in 1..N : at[i] = Uri!http_parse_host_char(at[i - 1], sw[i])
  <2>1. Len(sw) \in Nat /\ Len(sw) = N
    BY <1>1
  <2>2. /\ at[0] = s0
        /\ \A i \in 1..Len(sw) : at[i] = Uri!http_parse_host_char(at[i - 1], sw[i])
    BY <2>1, HostRunSteps
  <2>3. QED
    BY <2>1, <2>2
<1>3. p <= N /\ h <= p /\ h \in 0..N /\ p \in 0..N
  <2>1. /\ a \in Nat /\ b \in Nat \ {0} /\ d \in Nat /\ h \in Nat /\ p \in Nat /\ N \in Nat
        /\ p = h + b /\ (N = p \/ N = p + 1 + d)
    BY <1>1
  <2> HIDE DEF a, b, d
  <2>2. QED
    BY <2>1
<1>4. /\ a # 0 => ui[1] \in Uri!UserinfoChars
      /\ host[1] \in Uri!HostChars
      /\ d # 0 => digits[1] \in Uri!Digits
  BY <1>1, FirstIn
<1>5. /\ HostKeeps("userinfo", ui) /\ HostKeeps("host", host) /\ HostKeeps("port", digits)
  BY KeepsAll
<1> HIDE DEF a, b, d
<1>6. Spans(at, 0, a, "userinfo")
  <2>1. a # 0 => Uri!http_parse_host_char(at[0], ui[1]) = "userinfo"
    BY <1>2, <1>4, HostSteps DEF a
  <2>2. Spans(at, 0, 0 + a, "userinfo")
    BY <1>1, <1>5, <2>1, HostSpan DEF a
  <2>3. 0 + a = a
    BY <1>1
  <2>4. QED
    BY <2>2, <2>3
<1>7. at[h] = "host_start"
  <2>1. CASE a = 0
    BY <1>1, <1>2, <2>1 DEF a
  <2>2. CASE a # 0
    <3>1. h = a + 1 /\ h \in 1..N /\ h - 1 = a /\ sw[h] = "@" /\ a \in (0 + 1)..a
      BY <1>1, <1>3, <2>2
    <3>2. at[a] = "userinfo"
      BY <1>6, <3>1 DEF Spans
    <3>3. at[h] = Uri!http_parse_host_char(at[h - 1], sw[h])
      BY <1>2, <3>1
    <3>4. QED
      BY <3>1, <3>2, <3>3, HostSteps
  <2>3. QED
    BY <2>1, <2>2
<1>8. Spans(at, h, p, "host")
  <2>1. Uri!http_parse_host_char(at[h], host[1]) = "host"
    BY <1>4, <1>7, HostSteps
  <2>2. Spans(at, h, h + b, "host")
    BY <1>1, <1>5, <2>1, HostSpan DEF b
  <2>3. QED
    BY <1>1, <2>2
<1>9. CASE d = 0
  <2>1. \A i \in ((p + 1) + 1)..N : FALSE
    BY <1>1, <1>9
  <2>2. Spans(at, p + 1, N, "port")
    BY <2>1 DEF Spans
  <2>3. QED
    BY <1>6, <1>7, <1>8, <1>9, <2>2 DEF HostMap, a, d
<1>10. CASE d # 0
  <2>1. /\ N = (p + 1) + d /\ sw[p + 1] = ":" /\ StandsAt(digits, sw, p + 1)
        /\ p + 1 \in 1..N /\ (p + 1) - 1 = p /\ p \in (h + 1)..p /\ p + 1 \in Nat
    <3>1. /\ N = p + 1 + d /\ sw[p + 1] = ":" /\ StandsAt(digits, sw, p + 1)
      BY <1>1, <1>10
    <3>2. b \in Nat \ {0} /\ d \in Nat /\ h \in Nat /\ p \in Nat /\ p = h + b
      BY <1>1
    <3>3. N = (p + 1) + d /\ p + 1 \in 1..N /\ (p + 1) - 1 = p /\ p \in (h + 1)..p /\ p + 1 \in Nat
      BY <3>1, <3>2
    <3>4. QED
      BY <3>1, <3>3
  <2>2. at[p] = "host"
    BY <1>8, <2>1 DEF Spans
  <2>3. at[p + 1] = "port_start"
    <3>1. at[p + 1] = Uri!http_parse_host_char(at[(p + 1) - 1], sw[p + 1])
      BY <1>2, <2>1
    <3>2. QED
      BY <2>1, <2>2, <3>1, HostSteps
  <2>4. Uri!http_parse_host_char(at[p + 1], digits[1]) = "port"
    BY <1>4, <1>10, <2>3, HostSteps
  <2>5. Spans(at, p + 1, (p + 1) + d, "port")
    BY <1>1, <1>5, <2>1, <2>4, HostSpan DEF d
  <2>6. QED
    BY <1>6, <1>7, <1>8, <2>1, <2>3, <2>5 DEF HostMap, a, d
<1>11. QED
  BY <1>9, <1>10

\* A host that was written is read with the parts it was written from.
LEMMA HostAgain ==
    ASSUME NEW sw, NEW ui, NEW U, NEW host, NEW P, NEW digits,
           HostWord(sw, ui, U, host, P, digits), NEW found \in BOOLEAN,
           found <=> ~Empty(ui)
    PROVE  Uri!http_parse_host(sw, found) =
             [ok |-> TRUE, userinfo |-> ui, host |-> host, v6 |-> FALSE,
              port |-> digits]
<1> DEFINE h == Len(U)
           p == h + Len(host)
           N == Len(sw)
           a == Len(ui)
           b == Len(host)
           d == Len(digits)
           s0 == HostStart(found)
           at == HostAt(sw, s0)
           C == Uri!UrlChars
<1>1. /\ HostLaid(sw, ui, U, host, P, digits, h, p, N) /\ sw \in Seq(C)
  <2> HIDE DEF h, p, N
  <2>1. h = Len(U) /\ p = h + Len(host) /\ N = Len(sw)
    BY DEF h, p, N
  <2>2. QED
    BY <2>1, HostLays
<1>2. /\ ui \in Seq(Uri!UserinfoChars) /\ host \in Seq(Uri!HostChars)
      /\ digits \in Seq(Uri!Digits)
  BY DEF HostWord
<1>3. ui \in Seq(C) /\ host \in Seq(C) /\ digits \in Seq(C)
  BY <1>2, SeqUrl
<1>4. s0 \in HostStates /\ s0 = IF Len(ui) = 0 THEN "host_start" ELSE "userinfo_start"
  BY <1>2, EmptyLen DEF HostStart, HostStates
<1>5. IsHostRun(sw, s0, at)
  <2> HIDE DEF s0
  <2>1. Len(sw) \in Nat
    BY <1>1
  <2>2. QED
    BY <1>4, <2>1, HostAlong
<1> HIDE DEF h, p, N, s0, at, C
<1>6. HostMap(at, Len(ui), h, p, Len(digits), N)
  BY <1>1, <1>2, <1>4, <1>5, HostReads
<1>7. /\ a \in Nat /\ b \in Nat \ {0} /\ d \in Nat /\ h \in Nat /\ p \in Nat /\ N \in Nat
      /\ N = Len(sw) /\ p = h + b
      /\ StandsAt(ui, sw, 0) /\ StandsAt(host, sw, h)
      /\ (a = 0 /\ h = 0) \/ (a # 0 /\ h = a + 1)
      /\ (d = 0 /\ N = p) \/ (d # 0 /\ N = p + 1 + d /\ StandsAt(digits, sw, p + 1))
  BY <1>1 DEF HostLaid
<1>8. /\ \A i \in (0 + 1)..a : at[i] = "userinfo"
      /\ \A i \in (h + 1)..p : at[i] = "host"
      /\ \A i \in ((p + 1) + 1)..N : at[i] = "port"
      /\ a # 0 => at[h] = "host_start"
      /\ d # 0 => at[p + 1] = "port_start"
  BY <1>6 DEF HostMap, Spans
<1> HIDE DEF a, b, d
<1>9. ASSUME NEW i \in 1..N
      PROVE  /\ at[i] = "userinfo" <=> i <= a
             /\ at[i] = "host" <=> (h < i /\ i <= p)
             /\ at[i] = "port" <=> p + 1 < i
             /\ at[i] \in {"userinfo", "host_start", "host", "port_start", "port"}
  <2>0. /\ a \in Nat /\ b \in Nat \ {0} /\ d \in Nat /\ h \in Nat /\ p \in Nat /\ N \in Nat
        /\ p = h + b
        /\ (a = 0 /\ h = 0) \/ (a # 0 /\ h = a + 1)
        /\ (d = 0 /\ N = p) \/ (d # 0 /\ N = p + 1 + d)
    BY <1>7
  <2>1. CASE i <= a
    <3>1. i \in (0 + 1)..a /\ ~(h < i) /\ ~(p + 1 < i)
      BY <2>0, <2>1
    <3>2. QED
      BY <1>8, <2>1, <3>1
  <2>2. CASE a < i /\ i <= h
    <3>1. i = h /\ a # 0 /\ ~(i <= a) /\ ~(h < i) /\ ~(p + 1 < i)
      BY <2>0, <2>2
    <3>2. QED
      BY <1>8, <3>1
  <2>3. CASE h < i /\ i <= p
    <3>1. i \in (h + 1)..p /\ ~(i <= a) /\ ~(p + 1 < i)
      BY <2>0, <2>3
    <3>2. QED
      BY <1>8, <2>3, <3>1
  <2>4. CASE i = p + 1
    <3>1. d # 0 /\ ~(i <= a) /\ ~(i <= p) /\ ~(p + 1 < i)
      BY <2>0, <2>4
    <3>2. at[i] = "port_start"
      BY <1>8, <2>4, <3>1
    <3>3. QED
      BY <3>1, <3>2
  <2>5. CASE p + 1 < i
    <3>1. i \in ((p + 1) + 1)..N /\ ~(i <= a) /\ ~(i <= p)
      BY <2>0, <2>5
    <3>2. QED
      BY <1>8, <2>5, <3>1
  <2>6. QED
    BY <2>0, <2>1, <2>2, <2>3, <2>4, <2>5
<1>10. at[N] \notin Unfinished
  <2>1. (h < N /\ N <= p) \/ p + 1 < N
    <3>1. /\ b \in Nat \ {0} /\ d \in Nat /\ h \in Nat /\ p \in Nat /\ N \in Nat
          /\ p = h + b
          /\ (d = 0 /\ N = p) \/ (d # 0 /\ N = p + 1 + d)
      BY <1>7
    <3>2. QED
      BY <3>1
  <2>2. N \in 1..N
    <3>1. b \in Nat \ {0} /\ h \in Nat /\ p = h + b /\ N \in Nat /\ (N = p \/ p + 1 < N)
      BY <1>7, <2>1
    <3>2. QED
      BY <3>1
  <2>3. at[N] = "host" \/ at[N] = "port"
    BY <1>9, <2>1, <2>2
  <2>4. QED
    BY <2>3 DEF Unfinished
<1>11. Userinfo(sw, at) = ui
  <2>1. \A i \in 1..N : at[i] \in {"userinfo"} <=> (0 < i /\ i <= 0 + a)
    BY <1>7, <1>9
  <2>2. Marks(at, {"userinfo"}, Len(sw), 0, Len(ui))
    BY <1>7, <2>1 DEF Marks, a
  <2>3. QED
    BY <1>1, <1>3, <1>7, <2>2, FieldIs DEF Userinfo
<1>12. HostName(sw, at) = host
  <2> DEFINE W == {"host", "v6", "v6_zone_start", "v6_zone"}
  <2>1. \A i \in 1..N : at[i] \in W <=> at[i] = "host"
    BY <1>9
  <2>2. Marks(at, W, Len(sw), h, Len(host))
    BY <1>7, <1>9, <2>1 DEF Marks, b
  <2> HIDE DEF W
  <2>3. Uri!Field(sw, at, W) = host
    BY <1>1, <1>3, <1>7, <2>2, FieldIs
  <2>4. QED
    BY <2>3 DEF HostName, W
<1>13. PortText(sw, at) = digits
  <2> DEFINE W == {"port"}
  <2>1. \A i \in 1..N : at[i] \in W <=> p + 1 < i
    BY <1>9
  <2> HIDE DEF W
  <2>2. CASE d = 0
    <3>1. N = p /\ p \in Nat
      BY <1>7, <2>2
    <3>2. \A i \in 1..N : ~(p + 1 < i) /\ ~(0 < i /\ i <= 0 + 0)
      BY <3>1
    <3>3. Marks(at, W, Len(sw), 0, Len(digits))
      BY <1>7, <2>1, <2>2, <3>2 DEF Marks, d
    <3>4. StandsAt(digits, sw, 0)
      BY <1>7, <2>2 DEF StandsAt, d
    <3>5. QED
      BY <1>1, <1>3, <3>3, <3>4, FieldIs DEF PortText, W
  <2>3. CASE d # 0
    <3>1. N = (p + 1) + d /\ p + 1 \in Nat /\ StandsAt(digits, sw, p + 1) /\ d \in Nat
      BY <1>7, <2>3
    <3>2. \A i \in 1..N : p + 1 < i <=> (p + 1 < i /\ i <= (p + 1) + d)
      BY <3>1
    <3>3. Marks(at, W, Len(sw), p + 1, Len(digits))
      BY <1>7, <2>1, <3>2 DEF Marks, d
    <3>4. QED
      BY <1>1, <1>3, <3>1, <3>3, FieldIs DEF PortText, W
  <2>4. QED
    BY <2>2, <2>3
<1>14. ~\E i \in DOMAIN at : at[i] = "v6_end"
  <2>1. DOMAIN at = 0..N
    BY <1>5, <1>7 DEF IsHostRun
  <2>2. at[0] # "v6_end"
    <3>1. at[0] = s0
      <4>1. Len(sw) \in Nat
        BY <1>1
      <4>2. QED
        BY <1>5, <4>1, HostRunSteps
    <3>2. QED
      BY <1>4, <3>1
  <2>3. \A i \in 0..N : i = 0 \/ i \in 1..N
    BY <1>7
  <2>4. QED
    BY <1>9, <2>1, <2>2, <2>3
<1>15. Uri!http_parse_host(sw, found) =
         IF at[Len(sw)] \in Unfinished THEN Uri!Invalid
         ELSE [ok |-> TRUE, userinfo |-> Userinfo(sw, at),
               host |-> HostName(sw, at),
               v6 |-> \E i \in DOMAIN at : at[i] = "v6_end",
               port |-> PortText(sw, at)]
  <2>1. at = HostAt(sw, HostStart(found))
    BY DEF at, s0
  <2>2. QED
    BY <2>1, ParseHost
<1> DEFINE v == \E i \in DOMAIN at : at[i] = "v6_end"
<1>16. v = FALSE
  BY <1>14
<1>17. Uri!http_parse_host(sw, found) =
         [ok |-> TRUE, userinfo |-> Userinfo(sw, at), host |-> HostName(sw, at),
          v6 |-> v, port |-> PortText(sw, at)]
  BY <1>7, <1>10, <1>15
<1> HIDE DEF v
<1>18. QED
  BY <1>11, <1>12, <1>13, <1>16, <1>17

\* The text of a URL and where its parts stand.
Slashes == <<":", "/", "/">>
UrlText == Uri!UrlChars \cup {"?", "#"}
UrlWord(t, sch, sw, pth, Q, F) ==
    t = ((((sch \o Slashes) \o sw) \o pth) \o Q) \o F
UrlLaid(t, sch, sw, pth, q, fr, p1, p3, p4, p5, N) ==
    /\ t \in Seq(UrlText) /\ Len(t) = N
    /\ p1 \in Nat /\ p3 \in Nat /\ p4 \in Nat /\ p5 \in Nat /\ N \in Nat
    /\ p1 = Len(sch) /\ p3 = (p1 + 3) + Len(sw) /\ p4 = p3 + Len(pth)
    /\ StandsAt(sch, t, 0) /\ t[p1 + 1] = ":" /\ t[p1 + 2] = "/" /\ t[p1 + 3] = "/"
    /\ StandsAt(sw, t, p1 + 3) /\ StandsAt(pth, t, p3)
    /\ MarkedAt(t, "?", q, p4, p5) /\ MarkedAt(t, "#", fr, p5, N)

LEMMA SlashesStand ==
    ASSUME NEW s, NEW p \in Nat, StandsAt(Slashes, s, p)
    PROVE  s[p + 1] = ":" /\ s[p + 2] = "/" /\ s[p + 3] = "/"
<1>1. /\ 1 \in 1..Len(Slashes) /\ 2 \in 1..Len(Slashes) /\ 3 \in 1..Len(Slashes)
      /\ Slashes[1] = ":" /\ Slashes[2] = "/" /\ Slashes[3] = "/"
  BY DEF Slashes
<1>2. QED
  BY <1>1 DEF StandsAt

LEMMA UrlLays ==
    ASSUME NEW t, NEW sch \in Seq(UrlText), NEW sw \in Seq(UrlText),
           NEW pth \in Seq(UrlText), NEW q \in Seq(UrlText), NEW fr \in Seq(UrlText),
           NEW Q, MarkedText(Q, "?", q), NEW F, MarkedText(F, "#", fr),
           UrlWord(t, sch, sw, pth, Q, F)
    PROVE  \E p1, p3, p4, p5, N : UrlLaid(t, sch, sw, pth, q, fr, p1, p3, p4, p5, N)
<1> DEFINE S == UrlText
           j1 == sch \o Slashes
           j2 == j1 \o sw
           j3 == j2 \o pth
           j4 == j3 \o Q
<1>1. "?" \in S /\ "#" \in S
  BY DEF UrlText
<1>2. Slashes \in Seq(S) /\ Len(Slashes) = 3
  <2>1. ":" \in S /\ "/" \in S
    BY CharClasses DEF UrlText
  <2>2. QED
    BY <2>1 DEF Slashes
<1>3. /\ IsJoin(j1, sch, Slashes) /\ IsJoin(j2, j1, sw) /\ IsJoin(j3, j2, pth)
      /\ IsJoin(j4, j3, Q) /\ IsJoin(t, j4, F)
  BY DEF UrlWord, IsJoin
<1>0. <<>> \in Seq(S)
  OBVIOUS
<1> HIDE DEF S, j1, j2, j3, j4
<1>4. Q \in Seq(S) /\ F \in Seq(S)
  BY <1>0, <1>1, MarkedStands DEF S
<1>11. sch \in Seq(S) /\ sw \in Seq(S) /\ pth \in Seq(S) /\ q \in Seq(S) /\ fr \in Seq(S)
  BY DEF S
<1>5. /\ j1 \in Seq(S) /\ Len(j1) = Len(sch) + Len(Slashes)
      /\ StandsAt(sch, j1, 0) /\ StandsAt(Slashes, j1, Len(sch))
  BY <1>2, <1>3, JoinStands DEF S
<1>6. /\ j2 \in Seq(S) /\ Len(j2) = Len(j1) + Len(sw) /\ StandsAt(sw, j2, Len(j1))
  <2>1. j1 \in Seq(S) /\ sw \in Seq(S) /\ IsJoin(j2, j1, sw)
    BY <1>3, <1>5, <1>11
  <2>2. QED
    BY <2>1, JoinStands
<1>7. /\ j3 \in Seq(S) /\ Len(j3) = Len(j2) + Len(pth) /\ StandsAt(pth, j3, Len(j2))
  <2>1. j2 \in Seq(S) /\ pth \in Seq(S) /\ IsJoin(j3, j2, pth)
    BY <1>3, <1>6, <1>11
  <2>2. QED
    BY <2>1, JoinStands
<1>8. /\ j4 \in Seq(S) /\ Len(j4) = Len(j3) + Len(Q) /\ StandsAt(Q, j4, Len(j3))
  <2>1. j3 \in Seq(S) /\ Q \in Seq(S) /\ IsJoin(j4, j3, Q)
    BY <1>3, <1>4, <1>7
  <2>2. QED
    BY <2>1, JoinStands
<1>9. /\ t \in Seq(S) /\ Len(t) = Len(j4) + Len(F) /\ StandsAt(F, t, Len(j4))
  <2>1. j4 \in Seq(S) /\ F \in Seq(S) /\ IsJoin(t, j4, F)
    BY <1>3, <1>4, <1>8
  <2>2. QED
    BY <2>1, JoinStands
<1> DEFINE p1 == Len(sch)
           p2 == Len(j1)
           p3 == Len(j2)
           p4 == Len(j3)
           p5 == Len(j4)
           N == Len(t)
<1>10. /\ p1 \in Nat /\ p2 \in Nat /\ p3 \in Nat /\ p4 \in Nat /\ p5 \in Nat /\ N \in Nat
       /\ p2 = p1 + 3 /\ p3 = p2 + Len(sw) /\ p4 = p3 + Len(pth) /\ p5 = p4 + Len(Q)
       /\ N = p5 + Len(F) /\ p1 = Len(sch) /\ 0 \in Nat
  BY <1>2, <1>5, <1>6, <1>7, <1>8, <1>9
<1> HIDE DEF p1, p2, p3, p4, p5, N
<1>12. StandsAt(Q, t, p4)
  <2>1. StandsAt(Q, j4, p4)
    BY <1>8 DEF p4
  <2>2. QED
    BY <1>3, <1>4, <1>8, <1>10, <2>1, StandsOn
<1>13. StandsAt(pth, t, p3)
  <2>1. StandsAt(pth, j3, p3)
    BY <1>7 DEF p3
  <2>2. StandsAt(pth, j4, p3)
    BY <1>3, <1>4, <1>7, <1>10, <1>11, <2>1, StandsOn
  <2>3. QED
    BY <1>3, <1>4, <1>8, <1>10, <1>11, <2>2, StandsOn
<1>14. StandsAt(sw, t, p2)
  <2>1. StandsAt(sw, j2, p2)
    BY <1>6 DEF p2
  <2>2. StandsAt(sw, j3, p2)
    BY ZenonT(60), <1>3, <1>6, <1>10, <1>11, <2>1, StandsOn
  <2>3. StandsAt(sw, j4, p2)
    BY ZenonT(60), <1>3, <1>4, <1>7, <1>10, <1>11, <2>2, StandsOn
  <2>4. QED
    BY <1>3, <1>4, <1>8, <1>10, <1>11, <2>3, StandsOn
<1>15. ASSUME NEW v \in Seq(S), NEW p \in Nat, StandsAt(v, j1, p)
       PROVE  StandsAt(v, t, p)
  <2>1. StandsAt(v, j2, p)
    BY <1>3, <1>5, <1>11, <1>15, StandsOn
  <2>2. StandsAt(v, j3, p)
    BY <1>3, <1>6, <1>11, <2>1, StandsOn
  <2>3. StandsAt(v, j4, p)
    BY <1>3, <1>4, <1>7, <2>2, StandsOn
  <2>4. QED
    BY <1>3, <1>4, <1>8, <2>3, StandsOn
<1>16. StandsAt(sch, t, 0)
  BY <1>5, <1>10, <1>11, <1>15
<1>17. StandsAt(Slashes, t, p1)
  <2>1. StandsAt(Slashes, j1, p1)
    BY <1>5 DEF p1
  <2>2. QED
    BY <1>2, <1>10, <1>15, <2>1
<1>18. t[p1 + 1] = ":" /\ t[p1 + 2] = "/" /\ t[p1 + 3] = "/"
  BY SMTT(60), <1>10, <1>17, SlashesStand
<1>19. MarkedAt(t, "?", q, p4, p5)
  <2>1. MarkedAt(t, "?", q, p4, p4 + Len(Q))
    BY <1>1, <1>9, <1>10, <1>11, <1>12, MarkedStands
  <2>2. QED
    BY <1>10, <2>1
<1>20. MarkedAt(t, "#", fr, p5, N)
  <2>1. StandsAt(F, t, p5)
    BY <1>9 DEF p5
  <2>2. MarkedAt(t, "#", fr, p5, p5 + Len(F))
    BY <1>1, <1>9, <1>10, <1>11, <2>1, MarkedStands
  <2>3. QED
    BY <1>10, <2>2
<1>21. UrlLaid(t, sch, sw, pth, q, fr, p1, p3, p4, p5, N)
  <2>1. t \in Seq(UrlText) /\ Len(t) = N
    BY <1>9 DEF S, N
  <2>2. QED
    BY <1>10, <1>13, <1>14, <1>16, <1>18, <1>19, <1>20, <2>1 DEF UrlLaid
<1>22. QED
  BY <1>21

LEMMA UrlKeepsAll ==
    /\ \A v \in Seq(Uri!Letters) : UrlKeeps("s_req_schema", v)
    /\ \A v \in Seq(Uri!UserinfoChars) : UrlKeeps("s_req_server", v)
    /\ \A v \in Seq(Uri!UrlChars) : UrlKeeps("s_req_path", v)
    /\ \A v \in Seq(Uri!UrlChars \cup {"?"}) : UrlKeeps("s_req_query_string", v)
    /\ \A v \in Seq(UrlText) : UrlKeeps("s_req_fragment", v)
<1>1. \A A : \A v \in Seq(A) : \A k \in 1..Len(v) : v[k] \in A
  OBVIOUS
<1>2. ASSUME NEW v \in Seq(Uri!Letters) PROVE UrlKeeps("s_req_schema", v)
  BY <1>1, SchemeSteps DEF UrlKeeps
<1>3. ASSUME NEW v \in Seq(Uri!UserinfoChars) PROVE UrlKeeps("s_req_server", v)
  <2>1. "s_req_server" \in ServerStates
    BY DEF ServerStates
  <2>2. QED
    BY <1>1, <2>1, ServerSteps DEF UrlKeeps
<1>4. ASSUME NEW v \in Seq(Uri!UrlChars) PROVE UrlKeeps("s_req_path", v)
  BY <1>1, PathSteps DEF UrlKeeps
<1>5. ASSUME NEW v \in Seq(Uri!UrlChars \cup {"?"})
      PROVE  UrlKeeps("s_req_query_string", v)
  BY <1>1, PathSteps DEF UrlKeeps
<1>6. ASSUME NEW v \in Seq(UrlText) PROVE UrlKeeps("s_req_fragment", v)
  BY <1>1, PathSteps DEF UrlKeeps, UrlText
<1>7. QED
  BY <1>2, <1>3, <1>4, <1>5, <1>6

\* What the part behind the user is made of.
LEMMA BehindUser ==
    ASSUME NEW sw, NEW ui, NEW U, NEW host, NEW P, NEW digits,
           HostWord(sw, ui, U, host, P, digits)
    PROVE  \E r : /\ r \in Seq(Uri!UserinfoChars) /\ StandsAt(r, sw, Len(U))
                  /\ Len(sw) = Len(U) + Len(r) /\ Len(r) # 0
<1> DEFINE C == Uri!UserinfoChars
           D == Uri!UrlChars
           Colon == <<":">>
<1>1. PICK r : IsJoin(r, host, P) /\ IsJoin(sw, U, r)
  BY DEF HostWord
<1>2. /\ host \in Seq(C) /\ digits \in Seq(C) /\ Colon \in Seq(C) /\ ~Empty(host)
      /\ (Empty(P) \/ IsJoin(P, Colon, digits)) /\ <<>> \in Seq(C)
  BY SeqUrl DEF HostWord
<1>3. U \in Seq(D)
  BY HostLays
<1>4. \A v \in Seq(C) : v \in Seq(D)
  BY SeqUrl
<1> HIDE DEF C, D, Colon
<1>5. P \in Seq(C)
  <2>1. Empty(P) => P \in Seq(C)
    BY <1>2 DEF Empty
  <2>2. QED
    BY <1>2, <2>1, JoinStands
<1>6. r \in Seq(C) /\ Len(r) = Len(host) + Len(P)
  BY <1>1, <1>2, <1>5, JoinStands
<1>7. StandsAt(r, sw, Len(U)) /\ Len(sw) = Len(U) + Len(r)
  <2>1. r \in Seq(D)
    BY <1>4, <1>6
  <2>2. QED
    BY <1>1, <1>3, <2>1, JoinStands
<1>8. Len(r) # 0
  <2>1. Len(host) \in Nat /\ Len(host) # 0 /\ Len(P) \in Nat
    BY <1>2, <1>5, EmptyLen
  <2> DEFINE x == Len(host)
             y == Len(P)
  <2>2. x \in Nat /\ x # 0 /\ y \in Nat /\ Len(r) = x + y
    BY <1>6, <2>1
  <2> HIDE DEF x, y
  <2>3. QED
    BY <2>2
<1>9. QED
  BY <1>6, <1>7, <1>8 DEF C

\* The states in which the server part is read.
ServerMap(at, p, e, user) ==
    /\ \A i \in (p + 1)..e : at[i] \in {"s_req_server", "s_req_server_with_at"}
    /\ ~user => \A i \in (p + 1)..e : at[i] = "s_req_server"
    /\ user => \E i \in (p + 1)..e : at[i] = "s_req_server_with_at"

LEMMA ServerReads ==
    ASSUME NEW t, Len(t) \in Nat, NEW at, IsUrlRun(t, at),
           NEW sw, NEW ui, NEW U, NEW host, NEW P, NEW digits,
           HostWord(sw, ui, U, host, P, digits),
           NEW p \in Nat, StandsAt(sw, t, p), at[p] = "s_req_server_start",
           NEW e, e = p + Len(sw), e <= Len(t)
    PROVE  ServerMap(at, p, e, ~Empty(ui))
<1> DEFINE C == Uri!UserinfoChars
           h == Len(U)
           a == Len(ui)
           M == Len(sw)
           f == h + Len(host)
<1>1. HostLaid(sw, ui, U, host, P, digits, h, f, M)
  <2> HIDE DEF h, f, M
  <2>1. h = Len(U) /\ f = h + Len(host) /\ M = Len(sw)
    BY DEF h, f, M
  <2>2. QED
    BY <2>1, HostLays
<1>2. /\ a \in Nat /\ h \in Nat /\ M \in Nat /\ StandsAt(ui, sw, 0)
      /\ (a = 0 /\ h = 0) \/ (a # 0 /\ h = a + 1 /\ sw[h] = "@")
  BY <1>1 DEF HostLaid
<1>3. ui \in Seq(C)
  BY DEF HostWord
<1>4. Empty(ui) <=> a = 0
  BY <1>3, EmptyLen
<1>5. PICK r : /\ r \in Seq(C) /\ StandsAt(r, sw, h) /\ M = h + Len(r) /\ Len(r) # 0
  BY BehindUser
<1> DEFINE m == Len(r)
           N == Len(t)
<1>6. m \in Nat /\ M = h + m /\ m # 0 /\ N \in Nat /\ e = p + M /\ e <= N
  BY <1>5
<1>7. \A i \in 1..N : at[i] = Uri!parse_url_char(at[i - 1], t[i])
  BY UrlRunSteps
<1>8. UrlKeeps("s_req_server", ui) /\ UrlKeeps("s_req_server", r)
  BY <1>3, <1>5, UrlKeepsAll
<1>9. r[1] \in C /\ (a # 0 => ui[1] \in C)
  BY <1>3, <1>5, FirstIn
<1>10. StandsAt(r, t, p + h) /\ StandsAt(ui, t, p + 0)
  BY <1>2, <1>5, <1>6, StandsDeep
<1>11. /\ "s_req_server_start" \in ServerStates /\ "s_req_server_with_at" \in ServerStates
  BY DEF ServerStates
<1> HIDE DEF C, h, a, M, f, m, N
<1>12. CASE a = 0
  <2>1. h = 0 /\ p + h = p
    BY <1>2, <1>12
  <2>2. Uri!parse_url_char(at[p + h], r[1]) = "s_req_server"
    BY <1>9, <1>11, <2>1, ServerSteps DEF C
  <2>3. Spans(at, p + h, (p + h) + m, "s_req_server")
    <3>1. p + h \in Nat
      BY <2>1
    <3>2. QED
      BY <1>6, <1>8, <1>10, <2>2, <3>1, UrlSpan DEF m
  <2>4. (p + h) + m = e /\ p + h = p
    BY <1>6, <2>1
  <2>5. \A i \in (p + 1)..e : at[i] = "s_req_server"
    BY <2>3, <2>4 DEF Spans
  <2>6. QED
    BY <1>4, <1>12, <2>5 DEF ServerMap
<1>13. CASE a # 0
  <2>1. /\ h = a + 1 /\ sw[h] = "@" /\ p + 0 = p /\ (p + h) - 1 = p + a
        /\ p + h \in 1..N /\ p + h \in (p + 1)..e /\ p + h \in Nat
        /\ e = (p + h) + m /\ h \in 1..M /\ p + a \in (p + 1)..(p + a)
    <3>1. h = a + 1 /\ sw[h] = "@"
      BY <1>2, <1>13
    <3>2. a \in Nat /\ a # 0
      BY <1>2, <1>13
    <3>3. QED
      BY <1>6, <3>1, <3>2
  <2>2. Spans(at, p, p + a, "s_req_server")
    <3>1. a # 0 => Uri!parse_url_char(at[p], ui[1]) = "s_req_server"
      BY <1>9, <1>11, ServerSteps DEF C
    <3>2. StandsAt(ui, t, p)
      BY <1>10, <2>1
    <3>3. QED
      BY <1>2, <1>6, <1>8, <3>1, <3>2, UrlSpan DEF a
  <2>3. at[p + a] = "s_req_server"
    BY <2>1, <2>2 DEF Spans
  <2>4. t[p + h] = "@"
    BY <2>1 DEF StandsAt, M
  <2>5. at[p + h] = "s_req_server_with_at"
    <3>1. at[p + h] = Uri!parse_url_char(at[(p + h) - 1], t[p + h])
      BY <1>7, <2>1
    <3>2. QED
      BY <2>1, <2>3, <2>4, <3>1, ServerSteps
  <2>6. Spans(at, p + h, (p + h) + m, "s_req_server")
    <3>1. Uri!parse_url_char(at[p + h], r[1]) = "s_req_server"
      BY <1>9, <1>11, <2>5, ServerSteps DEF C
    <3>2. QED
      BY <1>6, <1>8, <1>10, <2>1, <3>1, UrlSpan DEF m
  <2>7. ASSUME NEW i \in (p + 1)..e
        PROVE  at[i] \in {"s_req_server", "s_req_server_with_at"}
    <3>1. i \in (p + 1)..(p + a) \/ i = p + h \/ i \in ((p + h) + 1)..((p + h) + m)
      <4>1. a \in Nat /\ m \in Nat /\ h = a + 1 /\ e = (p + h) + m
        BY <1>2, <1>6, <2>1
      <4>2. QED
        BY <4>1
    <3>2. QED
      BY <2>2, <2>5, <2>6, <3>1 DEF Spans
  <2>8. QED
    BY <1>4, <1>13, <2>1, <2>5, <2>7 DEF ServerMap
<1>14. QED
  BY <1>12, <1>13

\* The states in which a written URL is read.
UrlMap(at, p1, p3, p4, p5, N, nq, nf, user) ==
    /\ Spans(at, 0, p1, "s_req_schema")
    /\ at[p1 + 1] = "s_req_schema_slash" /\ at[p1 + 2] = "s_req_schema_slash_slash"
    /\ at[p1 + 3] = "s_req_server_start"
    /\ ServerMap(at, p1 + 3, p3, user)
    /\ Spans(at, p3, p4, "s_req_path")
    /\ nq # 0 => at[p4 + 1] = "s_req_query_string_start"
    /\ Spans(at, p4 + 1, p5, "s_req_query_string")
    /\ nf # 0 => at[p5 + 1] = "s_req_fragment_start"
    /\ Spans(at, p5 + 1, N, "s_req_fragment")

LEMMA UrlReads ==
    ASSUME NEW t, NEW sch \in Seq(Uri!Letters), NEW pth \in Seq(Uri!UrlChars),
           NEW q \in Seq(Uri!UrlChars \cup {"?"}), NEW fr \in Seq(UrlText),
           Len(sch) # 0, Len(pth) # 0, pth[1] = "/", Len(fr) # 0 => fr[1] # "#",
           NEW sw, NEW ui, NEW U, NEW host, NEW P, NEW digits,
           HostWord(sw, ui, U, host, P, digits), Len(sw) \in Nat \ {0},
           NEW p1, NEW p3, NEW p4, NEW p5, NEW N,
           UrlLaid(t, sch, sw, pth, q, fr, p1, p3, p4, p5, N),
           NEW at, IsUrlRun(t, at)
    PROVE  UrlMap(at, p1, p3, p4, p5, N, Len(q), Len(fr), ~Empty(ui))
<1> DEFINE p2 == p1 + 3
           m == Len(sw)
           b == Len(pth)
           nq == Len(q)
           nf == Len(fr)
<1>1. /\ Len(t) = N /\ t \in Seq(UrlText)
      /\ p1 \in Nat /\ p3 \in Nat /\ p4 \in Nat /\ p5 \in Nat /\ N \in Nat
      /\ p1 = Len(sch) /\ p3 = p2 + m /\ p4 = p3 + b
  BY DEF UrlLaid
<1>2. /\ StandsAt(sch, t, 0) /\ t[p1 + 1] = ":" /\ t[p1 + 2] = "/" /\ t[p1 + 3] = "/"
      /\ StandsAt(sw, t, p2) /\ StandsAt(pth, t, p3)
  BY DEF UrlLaid
<1>3. /\ (nq = 0 /\ p5 = p4)
           \/ (nq # 0 /\ p5 = p4 + 1 + nq /\ t[p4 + 1] = "?" /\ StandsAt(q, t, p4 + 1))
      /\ (nf = 0 /\ N = p5)
           \/ (nf # 0 /\ N = p5 + 1 + nf /\ t[p5 + 1] = "#" /\ StandsAt(fr, t, p5 + 1))
  BY DEF UrlLaid, MarkedAt
<1>4. nq \in Nat /\ nf \in Nat /\ b \in Nat /\ m \in Nat \ {0} /\ b # 0 /\ p1 # 0
  BY SMTT(60), <1>1
<1>5. /\ at[0] = "s_req_spaces_before_url"
      /\ \A i \in 1..N : at[i] = Uri!parse_url_char(at[i - 1], t[i])
  <2>1. Len(t) \in Nat /\ Len(t) = N
    BY <1>1
  <2>2. /\ at[0] = "s_req_spaces_before_url"
        /\ \A i \in 1..Len(t) : at[i] = Uri!parse_url_char(at[i - 1], t[i])
    BY <2>1, UrlRunSteps
  <2>3. QED
    BY <2>1, <2>2
<1>6. /\ UrlKeeps("s_req_schema", sch) /\ UrlKeeps("s_req_path", pth)
      /\ UrlKeeps("s_req_query_string", q) /\ UrlKeeps("s_req_fragment", fr)
  BY UrlKeepsAll
<1>7. /\ sch[1] \in Uri!Letters
      /\ nq # 0 => q[1] \in Uri!UrlChars \cup {"?"}
      /\ nf # 0 => fr[1] \in Uri!UrlChars \cup {"?"}
  <2>1. nf # 0 => fr[1] \in UrlText
    BY FirstIn
  <2>2. sch[1] \in Uri!Letters /\ (nq # 0 => q[1] \in Uri!UrlChars \cup {"?"})
    BY FirstIn
  <2>3. QED
    BY <2>1, <2>2 DEF UrlText
<1>8. /\ p1 <= p2 /\ p2 <= p3 /\ p3 <= p4 /\ p4 <= p5 /\ p5 <= N
      /\ p2 < p3 /\ p3 < p4 /\ p2 \in Nat
  <2>1. (p5 = p4 \/ p5 = p4 + 1 + nq) /\ (N = p5 \/ N = p5 + 1 + nf)
    BY <1>3
  <2>2. /\ p1 \in Nat /\ p3 \in Nat /\ p4 \in Nat /\ p5 \in Nat /\ N \in Nat
        /\ p3 = p2 + m /\ p4 = p3 + b
        /\ nq \in Nat /\ nf \in Nat /\ b \in Nat /\ m \in Nat \ {0} /\ b # 0
    BY <1>1, <1>4
  <2>3. p2 = p1 + 3
    OBVIOUS
  <2> HIDE DEF m, b, nq, nf, p2
  <2>4. QED
    BY <2>1, <2>2, <2>3
<1>9. ASSUME NEW i \in Nat, i < N
      PROVE  at[i + 1] = Uri!parse_url_char(at[i], t[i + 1])
  <2>1. i + 1 \in 1..N /\ (i + 1) - 1 = i
    BY <1>1, <1>9
  <2>2. at[i + 1] = Uri!parse_url_char(at[(i + 1) - 1], t[i + 1])
    BY <1>5, <2>1
  <2>3. QED
    BY <2>1, <2>2
<1>10. Spans(at, 0, p1, "s_req_schema")
  <2>1. Uri!parse_url_char(at[0], sch[1]) = "s_req_schema"
    BY <1>5, <1>7, SchemeSteps
  <2>2. Spans(at, 0, 0 + Len(sch), "s_req_schema")
    BY <1>1, <1>2, <1>6, <2>1, UrlSpan
  <2>3. 0 + Len(sch) = p1
    BY <1>1
  <2>4. QED
    BY <2>2, <2>3
<1> HIDE DEF m, b, nq, nf, p2
<1>11. /\ at[p1 + 1] = "s_req_schema_slash"
       /\ at[p1 + 2] = "s_req_schema_slash_slash" /\ at[p2] = "s_req_server_start"
  <2>1. /\ p1 \in (0 + 1)..p1 /\ p1 < N /\ p1 + 1 < N /\ p1 + 2 < N
        /\ (p1 + 1) + 1 = p1 + 2 /\ (p1 + 2) + 1 = p1 + 3 /\ p1 + 1 \in Nat /\ p1 + 2 \in Nat
        /\ p2 = p1 + 3
    <3>1. p2 = p1 + 3
      BY DEF p2
    <3>2. QED
      BY SMTT(60), <1>1, <1>4, <1>8, <3>1
  <2>2. at[p1] = "s_req_schema"
    BY <1>10, <2>1 DEF Spans
  <2>3. at[p1 + 1] = Uri!parse_url_char(at[p1], t[p1 + 1])
    BY <1>1, <1>9, <2>1
  <2>4. at[p1 + 1] = "s_req_schema_slash"
    BY <1>2, <2>2, <2>3, SchemeSteps
  <2>5. at[(p1 + 1) + 1] = Uri!parse_url_char(at[p1 + 1], t[(p1 + 1) + 1])
    BY <1>9, <2>1
  <2>6. at[p1 + 2] = "s_req_schema_slash_slash"
    BY <1>2, <2>1, <2>4, <2>5, SchemeSteps
  <2>7. at[(p1 + 2) + 1] = Uri!parse_url_char(at[p1 + 2], t[(p1 + 2) + 1])
    BY <1>9, <2>1
  <2>8. at[p1 + 3] = "s_req_server_start"
    BY <1>2, <2>1, <2>6, <2>7, SchemeSteps
  <2>9. QED
    BY <2>1, <2>4, <2>6, <2>8
<1>12. ServerMap(at, p2, p3, ~Empty(ui))
  <2>1. Len(t) \in Nat /\ p3 = p2 + Len(sw) /\ p3 <= Len(t)
    BY <1>1, <1>8 DEF m
  <2>2. QED
    BY <1>2, <1>8, <1>11, <2>1, ServerReads
<1>13. Spans(at, p3, p4, "s_req_path")
  <2>1. p3 \in (p2 + 1)..p3
    BY SMTT(60), <1>1, <1>8
  <2>2. at[p3] \in ServerStates
    BY <1>12, <2>1 DEF ServerMap, ServerStates
  <2>3. Uri!parse_url_char(at[p3], pth[1]) = "s_req_path"
    BY <2>2, ServerSteps
  <2>4. Len(t) \in Nat /\ Len(pth) \in Nat
    BY <1>1
  <2>5. Spans(at, p3, p3 + Len(pth), "s_req_path")
    BY <1>1, <1>2, <1>6, <2>3, <2>4, UrlSpan
  <2>6. QED
    BY <1>1, <2>5 DEF b
<1>14. at[p4] = "s_req_path"
  <2>1. p4 \in (p3 + 1)..p4
    BY SMTT(60), <1>1, <1>8
  <2>2. QED
    BY <1>13, <2>1 DEF Spans
<1>15. /\ nq # 0 => at[p4 + 1] = "s_req_query_string_start"
       /\ Spans(at, p4 + 1, p5, "s_req_query_string")
       /\ at[p5] \in {"s_req_path", "s_req_query_string"}
  <2>1. CASE nq = 0
    <3>1. p5 = p4
      BY <1>3, <2>1
    <3>2. Spans(at, p4 + 1, p4, "s_req_query_string")
      BY <1>1, NoSpan
    <3>3. QED
      BY <1>14, <2>1, <3>1, <3>2
  <2>2. CASE nq # 0
    <3>1. p5 = (p4 + 1) + nq /\ t[p4 + 1] = "?" /\ StandsAt(q, t, p4 + 1)
      BY <1>3, <2>2
    <3>2. p4 < N /\ p4 + 1 \in Nat /\ p5 \in ((p4 + 1) + 1)..p5
      BY <1>1, <1>4, <1>8, <2>2, <3>1
    <3>3. at[p4 + 1] = "s_req_query_string_start"
      <4>1. at[p4 + 1] = Uri!parse_url_char(at[p4], t[p4 + 1])
        BY <1>1, <1>9, <3>2
      <4>2. QED
        BY <1>14, <3>1, <4>1, PathSteps
    <3>4. Uri!parse_url_char(at[p4 + 1], q[1]) = "s_req_query_string"
      BY <1>7, <2>2, <3>3, PathSteps
    <3>5. Spans(at, p4 + 1, (p4 + 1) + nq, "s_req_query_string")
      <4>1. Len(t) \in Nat /\ Len(q) \in Nat
        BY <1>1
      <4>2. QED
        BY <1>6, <3>1, <3>2, <3>4, <4>1, UrlSpan DEF nq
    <3>6. at[p5] = "s_req_query_string"
      BY <3>1, <3>2, <3>5 DEF Spans
    <3>7. QED
      BY <3>1, <3>3, <3>5, <3>6
  <2>3. QED
    BY <2>1, <2>2
<1>16. /\ nf # 0 => at[p5 + 1] = "s_req_fragment_start"
       /\ Spans(at, p5 + 1, N, "s_req_fragment")
  <2>1. CASE nf = 0
    <3>1. N = p5
      BY <1>3, <2>1
    <3>2. Spans(at, p5 + 1, p5, "s_req_fragment")
      BY <1>1, NoSpan
    <3>3. QED
      BY <2>1, <3>1, <3>2
  <2>2. CASE nf # 0
    <3>1. N = (p5 + 1) + nf /\ t[p5 + 1] = "#" /\ StandsAt(fr, t, p5 + 1)
      BY <1>3, <2>2
    <3>2. p5 < N /\ p5 + 1 \in Nat
      BY <1>1, <1>4, <2>2, <3>1
    <3>3. at[p5 + 1] = "s_req_fragment_start"
      <4>1. at[p5 + 1] = Uri!parse_url_char(at[p5], t[p5 + 1])
        BY <1>1, <1>9, <3>2
      <4>2. QED
        BY <1>15, <3>1, <4>1, PathSteps
    <3>4. Uri!parse_url_char(at[p5 + 1], fr[1]) = "s_req_fragment"
      BY <1>7, <2>2, <3>3, PathSteps
    <3>5. Spans(at, p5 + 1, (p5 + 1) + nf, "s_req_fragment")
      <4>1. Len(t) \in Nat /\ Len(fr) \in Nat
        BY <1>1
      <4>2. QED
        BY <1>6, <3>1, <3>2, <3>4, <4>1, UrlSpan DEF nf
    <3>6. QED
      BY <3>1, <3>3, <3>5
  <2>3. QED
    BY <2>1, <2>2
<1>17. QED
  BY <1>10, <1>11, <1>12, <1>13, <1>15, <1>16 DEF UrlMap, p2, nq, nf

\* A URL that was written is read with the parts it was written from.
LEMMA UrlAgain ==
    ASSUME NEW t, NEW sch \in Seq(Uri!Letters), NEW pth \in Seq(Uri!UrlChars),
           NEW q \in Seq(Uri!UrlChars \cup {"?"}), NEW fr \in Seq(UrlText),
           Len(sch) # 0, Len(pth) # 0, pth[1] = "/", Len(fr) # 0 => fr[1] # "#",
           NEW sw, NEW ui, NEW U, NEW host, NEW P, NEW digits,
           HostWord(sw, ui, U, host, P, digits), Len(sw) \in Nat \ {0},
           sw \in Seq(UrlText),
           NEW p1, NEW p3, NEW p4, NEW p5, NEW N,
           UrlLaid(t, sch, sw, pth, q, fr, p1, p3, p4, p5, N),
           NEW at, IsUrlRun(t, at)
    PROVE  /\ Scheme(t, at) = sch /\ Server(t, at) = sw /\ Path(t, at) = pth
           /\ Query(t, at) = q /\ Fragment(t, at) = fr
           /\ FoundAt(at) <=> ~Empty(ui)
           /\ ~Empty(t) /\ at[Len(t)] # "s_dead"
<1> DEFINE p2 == p1 + 3
           m == Len(sw)
           b == Len(pth)
           nq == Len(q)
           nf == Len(fr)
           C == UrlText
           SrvS == {"s_req_server", "s_req_server_with_at"}
<1>1. /\ Len(t) = N /\ t \in Seq(C) /\ p1 = Len(sch)
      /\ StandsAt(sch, t, 0) /\ StandsAt(sw, t, p2) /\ StandsAt(pth, t, p3)
  BY DEF UrlLaid
<1>2. /\ p1 \in Nat /\ p3 \in Nat /\ p4 \in Nat /\ p5 \in Nat /\ N \in Nat
      /\ p3 = p2 + m /\ p4 = p3 + b
  BY DEF UrlLaid
<1>3. /\ (nq = 0 /\ p5 = p4) \/ (nq # 0 /\ p5 = p4 + 1 + nq /\ StandsAt(q, t, p4 + 1))
      /\ (nf = 0 /\ N = p5) \/ (nf # 0 /\ N = p5 + 1 + nf /\ StandsAt(fr, t, p5 + 1))
  BY DEF UrlLaid, MarkedAt
<1>4. nq \in Nat /\ nf \in Nat /\ b \in Nat /\ m \in Nat \ {0} /\ b # 0 /\ p1 # 0
  BY SMTT(60), <1>1
<1>5. /\ sch \in Seq(C) /\ sw \in Seq(C) /\ pth \in Seq(C) /\ q \in Seq(C) /\ fr \in Seq(C)
  <2>1. /\ Uri!Letters \subseteq C /\ Uri!UrlChars \subseteq C
        /\ Uri!UrlChars \cup {"?"} \subseteq C
    BY CharClasses DEF UrlText
  <2>2. \A A, D : A \subseteq D => \A v \in Seq(A) : v \in Seq(D)
    OBVIOUS
  <2> HIDE DEF C
  <2>3. /\ sch \in Seq(C) /\ pth \in Seq(C) /\ q \in Seq(C)
    BY <2>1, <2>2
  <2>4. QED
    BY <2>3 DEF C
<1>6. UrlMap(at, p1, p3, p4, p5, N, nq, nf, ~Empty(ui))
  BY UrlReads
<1>7. /\ \A i \in (0 + 1)..p1 : at[i] = "s_req_schema"
      /\ at[p1 + 1] = "s_req_schema_slash" /\ at[p1 + 2] = "s_req_schema_slash_slash"
      /\ at[p2] = "s_req_server_start"
      /\ \A i \in (p2 + 1)..p3 : at[i] \in SrvS
      /\ \A i \in (p3 + 1)..p4 : at[i] = "s_req_path"
      /\ \A i \in ((p4 + 1) + 1)..p5 : at[i] = "s_req_query_string"
      /\ \A i \in ((p5 + 1) + 1)..N : at[i] = "s_req_fragment"
      /\ nq # 0 => at[p4 + 1] = "s_req_query_string_start"
      /\ nf # 0 => at[p5 + 1] = "s_req_fragment_start"
  BY <1>6 DEF UrlMap, Spans, ServerMap
<1>8. /\ Empty(ui) => \A i \in (p2 + 1)..p3 : at[i] = "s_req_server"
      /\ ~Empty(ui) => \E i \in (p2 + 1)..p3 : at[i] = "s_req_server_with_at"
  BY <1>6 DEF UrlMap, ServerMap
<1>9. /\ p2 = p1 + 3
      /\ p1 \in Nat /\ p3 \in Nat /\ p4 \in Nat /\ p5 \in Nat /\ N \in Nat
      /\ p3 = p2 + m /\ p4 = p3 + b
      /\ nq \in Nat /\ nf \in Nat /\ b \in Nat /\ m \in Nat \ {0} /\ b # 0 /\ p1 # 0
      /\ (nq = 0 /\ p5 = p4) \/ (nq # 0 /\ p5 = p4 + 1 + nq)
      /\ (nf = 0 /\ N = p5) \/ (nf # 0 /\ N = p5 + 1 + nf)
  BY <1>2, <1>3, <1>4
<1> HIDE DEF p2, m, b, nq, nf, C
<1>10. ASSUME NEW i \in 1..N
       PROVE  /\ at[i] = "s_req_schema" <=> i <= p1
              /\ at[i] \in SrvS <=> (p2 < i /\ i <= p3)
              /\ at[i] = "s_req_path" <=> (p3 < i /\ i <= p4)
              /\ at[i] = "s_req_query_string" <=> (p4 + 1 < i /\ i <= p5)
              /\ at[i] = "s_req_fragment" <=> p5 + 1 < i
              /\ at[i] # "s_dead"
              /\ at[i] = "s_req_server_with_at" => (p2 < i /\ i <= p3)
  <2>1. CASE i <= p1
    <3>1. /\ i \in (0 + 1)..p1 /\ ~(p2 < i) /\ ~(p3 < i) /\ ~(p4 + 1 < i)
          /\ ~(p5 + 1 < i)
      BY <1>9, <2>1
    <3>2. QED
      BY <1>7, <2>1, <3>1
  <2>2. CASE p1 < i /\ i <= p2
    <3>1. /\ ~(i <= p1) /\ ~(p2 < i) /\ ~(p3 < i) /\ ~(p4 + 1 < i)
          /\ ~(p5 + 1 < i) /\ (i = p1 + 1 \/ i = p1 + 2 \/ i = p2)
      BY <1>9, <2>2
    <3>2. at[i] \in {"s_req_schema_slash", "s_req_schema_slash_slash", "s_req_server_start"}
      BY <1>7, <3>1
    <3>3. QED
      BY <3>1, <3>2
  <2>3. CASE p2 < i /\ i <= p3
    <3>1. /\ i \in (p2 + 1)..p3 /\ ~(i <= p1) /\ ~(p3 < i) /\ ~(p4 + 1 < i)
          /\ ~(p5 + 1 < i)
      BY <1>9, <2>3
    <3>2. at[i] \in SrvS
      BY <1>7, <3>1
    <3>3. QED
      BY <2>3, <3>1, <3>2
  <2>4. CASE p3 < i /\ i <= p4
    <3>1. /\ i \in (p3 + 1)..p4 /\ ~(i <= p1) /\ ~(i <= p3) /\ ~(p4 + 1 < i)
          /\ ~(p5 + 1 < i)
      BY <1>9, <2>4
    <3>2. at[i] = "s_req_path"
      BY <1>7, <3>1
    <3>3. QED
      BY <2>4, <3>1, <3>2
  <2>5. CASE i = p4 + 1 /\ nq # 0
    <3>1. /\ ~(i <= p1) /\ ~(i <= p3) /\ ~(i <= p4) /\ ~(p4 + 1 < i) /\ ~(p5 + 1 < i)
      BY <1>9, <2>5
    <3>2. at[i] = "s_req_query_string_start"
      BY <1>7, <2>5
    <3>3. QED
      BY <3>1, <3>2
  <2>6. CASE p4 + 1 < i /\ i <= p5
    <3>1. /\ i \in ((p4 + 1) + 1)..p5 /\ ~(i <= p1) /\ ~(i <= p3) /\ ~(i <= p4)
          /\ ~(p5 + 1 < i)
      BY <1>9, <2>6
    <3>2. at[i] = "s_req_query_string"
      BY <1>7, <3>1
    <3>3. QED
      BY <2>6, <3>1, <3>2
  <2>7. CASE i = p5 + 1 /\ nf # 0
    <3>1. /\ ~(i <= p1) /\ ~(i <= p3) /\ ~(i <= p4) /\ ~(i <= p5) /\ ~(p5 + 1 < i)
      BY <1>9, <2>7
    <3>2. at[i] = "s_req_fragment_start"
      BY <1>7, <2>7
    <3>3. QED
      BY <3>1, <3>2
  <2>8. CASE p5 + 1 < i
    <3>1. /\ i \in ((p5 + 1) + 1)..N /\ ~(i <= p1) /\ ~(i <= p3) /\ ~(i <= p4)
          /\ ~(i <= p5)
      BY <1>9, <2>8
    <3>2. at[i] = "s_req_fragment"
      BY <1>7, <3>1
    <3>3. QED
      BY <2>8, <3>1, <3>2
  <2>9. \/ i <= p1 \/ (p1 < i /\ i <= p2) \/ (p2 < i /\ i <= p3) \/ (p3 < i /\ i <= p4)
        \/ (i = p4 + 1 /\ nq # 0) \/ (p4 + 1 < i /\ i <= p5) \/ (i = p5 + 1 /\ nf # 0)
        \/ p5 + 1 < i
    BY <1>9
  <2>10. QED
    BY <2>1, <2>2, <2>3, <2>4, <2>5, <2>6, <2>7, <2>8, <2>9
<1>11. Scheme(t, at) = sch
  <2>1. \A i \in 1..N : at[i] \in {"s_req_schema"} <=> (0 < i /\ i <= 0 + p1)
    BY <1>9, <1>10
  <2>2. Marks(at, {"s_req_schema"}, Len(t), 0, Len(sch))
    BY <1>1, <2>1 DEF Marks
  <2>3. QED
    BY <1>1, <1>5, <2>2, FieldIs DEF Scheme
<1>12. Server(t, at) = sw
  <2>1. \A i \in 1..N : at[i] \in SrvS <=> (p2 < i /\ i <= p2 + m)
    BY <1>9, <1>10
  <2>2. Marks(at, SrvS, Len(t), p2, Len(sw))
    BY <1>1, <2>1 DEF Marks, m
  <2>3. p2 \in Nat
    BY <1>9
  <2>4. QED
    BY <1>1, <1>5, <2>2, <2>3, FieldIs DEF Server
<1>13. Path(t, at) = pth
  <2>1. \A i \in 1..N : at[i] \in {"s_req_path"} <=> (p3 < i /\ i <= p3 + b)
    BY <1>9, <1>10
  <2>2. Marks(at, {"s_req_path"}, Len(t), p3, Len(pth))
    BY <1>1, <2>1 DEF Marks, b
  <2>3. QED
    BY <1>1, <1>5, <1>9, <2>2, FieldIs DEF Path
<1>14. Query(t, at) = q
  <2> DEFINE W == {"s_req_query_string"}
  <2>1. \A i \in 1..N : at[i] \in W <=> (p4 + 1 < i /\ i <= p5)
    BY <1>10
  <2> HIDE DEF W
  <2>2. CASE nq = 0
    <3>1. \A i \in 1..N : ~(p4 + 1 < i /\ i <= p5) /\ ~(0 < i /\ i <= 0 + 0)
      BY <1>9, <2>2
    <3>2. Marks(at, W, Len(t), 0, Len(q))
      BY <1>1, <2>1, <2>2, <3>1 DEF Marks, nq
    <3>3. StandsAt(q, t, 0)
      BY <1>1, <1>9, <2>2 DEF StandsAt, nq
    <3>4. QED
      BY <1>1, <1>5, <3>2, <3>3, FieldIs DEF Query, W
  <2>3. CASE nq # 0
    <3>1. p5 = (p4 + 1) + nq /\ p4 + 1 \in Nat /\ StandsAt(q, t, p4 + 1)
      BY <1>3, <1>9, <2>3
    <3>2. Marks(at, W, Len(t), p4 + 1, Len(q))
      BY <1>1, <2>1, <3>1 DEF Marks, nq
    <3>3. QED
      BY <1>1, <1>5, <3>1, <3>2, FieldIs DEF Query, W
  <2>4. QED
    BY <2>2, <2>3
<1>15. Fragment(t, at) = fr
  <2> DEFINE W == {"s_req_fragment"}
  <2>1. \A i \in 1..N : at[i] \in W <=> p5 + 1 < i
    BY <1>10
  <2> HIDE DEF W
  <2>2. CASE nf = 0
    <3>1. \A i \in 1..N : ~(p5 + 1 < i) /\ ~(0 < i /\ i <= 0 + 0)
      BY <1>9, <2>2
    <3>2. Marks(at, W, Len(t), 0, Len(fr))
      BY <1>1, <2>1, <2>2, <3>1 DEF Marks, nf
    <3>3. StandsAt(fr, t, 0)
      BY <1>1, <1>9, <2>2 DEF StandsAt, nf
    <3>4. QED
      BY <1>1, <1>5, <3>2, <3>3, FieldIs DEF Fragment, W
  <2>3. CASE nf # 0
    <3>1. N = (p5 + 1) + nf /\ p5 + 1 \in Nat /\ StandsAt(fr, t, p5 + 1)
      BY <1>3, <1>9, <2>3
    <3>2. \A i \in 1..N : p5 + 1 < i <=> (p5 + 1 < i /\ i <= (p5 + 1) + nf)
      BY <3>1
    <3>3. Marks(at, W, Len(t), p5 + 1, Len(fr))
      BY <1>1, <2>1, <3>2 DEF Marks, nf
    <3>4. QED
      BY <1>1, <1>5, <3>1, <3>3, FieldIs DEF Fragment, W
  <2>4. QED
    BY <2>2, <2>3
<1>16. FoundAt(at) <=> ~Empty(ui)
  <2>1. DOMAIN at = 0..N
    BY <1>1 DEF IsUrlRun
  <2>2. at[0] # "s_req_server_with_at"
    <3>1. Len(t) \in Nat
      BY <1>1, <1>9
    <3>2. at[0] = "s_req_spaces_before_url"
      BY <3>1, UrlRunSteps
    <3>3. QED
      BY <3>2
  <2>3. \A i \in 0..N : i = 0 \/ i \in 1..N
    BY <1>9
  <2>4. \A i \in 1..N : (p2 < i /\ i <= p3) => i \in (p2 + 1)..p3
    BY <1>9
  <2>5. \A i \in (p2 + 1)..p3 : i \in 0..N
    BY <1>9
  <2>6. ASSUME Empty(ui), NEW i \in DOMAIN at, at[i] = "s_req_server_with_at"
        PROVE  FALSE
    <3>1. i \in 1..N
      BY <2>1, <2>2, <2>3, <2>6
    <3>2. i \in (p2 + 1)..p3
      BY <1>10, <2>4, <2>6, <3>1
    <3>3. QED
      BY <1>8, <2>6, <3>2
  <2>7. ASSUME ~Empty(ui) PROVE FoundAt(at)
    BY <1>8, <2>1, <2>5, <2>7 DEF FoundAt
  <2>8. QED
    BY <2>6, <2>7 DEF FoundAt
<1>17. ~Empty(t) /\ at[Len(t)] # "s_dead"
  <2>1. N \in 1..N /\ N # 0
    BY <1>9
  <2>2. at[N] # "s_dead"
    BY <1>10, <2>1
  <2>3. ~Empty(t)
    BY <1>1, <2>1, EmptyLen
  <2>4. QED
    BY <1>1, <2>2, <2>3
<1>18. QED
  BY <1>11, <1>12, <1>13, <1>14, <1>15, <1>16, <1>17

\* A Uri that names a server, and what its parts are made of.
UriOf(sch, ui, host, port, pth, q, fr) ==
    [ok |-> TRUE, scheme |-> sch, userinfo |-> ui, host |-> host, v6 |-> FALSE,
     port |-> port, path |-> pth, query |-> q, fragment |-> fr]
UriParts(sch, ui, host, port, pth, q, fr) ==
    /\ sch \in Seq(Uri!Letters) /\ ~Empty(sch)
    /\ ui \in Seq(Uri!UserinfoChars)
    /\ host \in Seq(Uri!HostChars) /\ ~Empty(host)
    /\ port \in Nat /\ port <= 65535
    /\ pth \in Seq(Uri!UrlChars) /\ (~Empty(pth) => pth[1] = "/")
    /\ q \in Seq(Uri!UrlChars \cup {"?"})
    /\ fr \in Seq(UrlText) /\ (~Empty(fr) => fr[1] # "#")

LEMMA InvalidFields ==
    ASSUME NEW str, NEW u, u = Uri!Create(str), u.ok,
           NEW r, r = Uri!http_parser_parse_url(str)
    PROVE  /\ r.ok
           /\ u = [r EXCEPT !.port = IF r.port # <<>> THEN Uri!Number(r.port)
                                     ELSE Uri!DefaultPort(r)]
  BY DEF Uri!Create, Uri!FromFields, Uri!Invalid

LEMMA DefaultPorts ==
    ASSUME NEW r PROVE Uri!DefaultPort(r) \in Nat /\ Uri!DefaultPort(r) <= 65535
<1>1. Uri!DefaultPort(r) \in {80, 443, 0}
  BY DEF Uri!DefaultPort
<1>2. QED
  BY <1>1

\* The parts of the Uri that Create makes of a string.
LEMMA CreateMakes ==
    ASSUME NEW X, NEW str \in Seq(X), NEW u, u = Uri!Create(str),
           u.ok, u.host # <<>>, ~u.v6
    PROVE  \E sch, ui, host, port, pth, q, fr :
             /\ UriParts(sch, ui, host, port, pth, q, fr)
             /\ u = UriOf(sch, ui, host, port, pth, q, fr)
<1> DEFINE r == Uri!http_parser_parse_url(str)
           at == UrlAt(str)
           server == Server(str, at)
           found == FoundAt(at)
           h == HostOf(server, found)
           sch == Scheme(str, at)
           pth == Path(str, at)
           q == Query(str, at)
           fr == Fragment(str, at)
<1>0. Len(str) \in Nat
  OBVIOUS
<1>1. /\ r.ok
      /\ u = [r EXCEPT !.port = IF r.port # <<>> THEN Uri!Number(r.port)
                                ELSE Uri!DefaultPort(r)]
  BY InvalidFields
<1>2. r = IF Refused(str, at, h) THEN Uri!Invalid ELSE Parsed(str, at, h)
  <2> HIDE DEF at, h
  <2>1. at = UrlAt(str) /\ h = HostOf(Server(str, at), FoundAt(at))
    BY DEF at, h
  <2>2. QED
    BY <2>1, ParseUrl
<1>3. IsUrlRun(str, at)
  BY <1>0, UrlAlong
<1> HIDE DEF r, at
<1>4. /\ sch \in Seq(Uri!Letters) /\ pth \in Seq(Uri!UrlChars)
      /\ q \in Seq(Uri!UrlChars \cup {"?"})
      /\ fr \in Seq(UrlText) /\ server \in Seq(X)
  BY <1>3, UrlFieldsTyped DEF UrlText
<1>5. Shape(at[Len(str)], sch, server, pth, fr)
  BY <1>3, UrlFieldsShaped
<1>6. ~Refused(str, at, h) /\ r = Parsed(str, at, h)
  BY <1>1, <1>2 DEF Uri!Invalid
<1>7. /\ h.ok /\ ~(Uri!Number(h.port) > 65535)
  BY <1>6 DEF Refused
<1>8. r = [ok |-> TRUE, scheme |-> sch, userinfo |-> h.userinfo, host |-> h.host,
           v6 |-> h.v6, port |-> h.port, path |-> pth, query |-> q, fragment |-> fr]
  BY <1>6 DEF Parsed
<1> HIDE DEF h, sch, pth, q, fr, server, found
<1> DEFINE port == IF h.port # <<>> THEN Uri!Number(h.port) ELSE Uri!DefaultPort(r)
<1>9. /\ u = [ok |-> TRUE, scheme |-> sch, userinfo |-> h.userinfo, host |-> h.host,
              v6 |-> h.v6, port |-> port, path |-> pth, query |-> q, fragment |-> fr]
  BY <1>1, <1>8
<1>10. h.host # <<>> /\ ~h.v6
  BY <1>9
<1>11. ~Empty(server) /\ h = Uri!http_parse_host(server, found)
  <2>1. h = IF Empty(server) THEN NoServer ELSE Uri!http_parse_host(server, found)
    BY DEF h, HostOf
  <2>2. QED
    BY <1>10, <2>1 DEF NoServer
<1> DEFINE s0 == HostStart(found)
           ha == HostAt(server, s0)
           v6 == \E i \in DOMAIN ha : ha[i] = "v6_end"
<1>12. h = IF ha[Len(server)] \in Unfinished THEN Uri!Invalid
           ELSE [ok |-> TRUE, userinfo |-> Userinfo(server, ha),
                 host |-> HostName(server, ha), v6 |-> v6,
                 port |-> PortText(server, ha)]
  <2> HIDE DEF ha
  <2>1. ha = HostAt(server, HostStart(found))
    BY DEF ha
  <2>2. QED
    BY <1>11, <2>1, ParseHost
<1>13. s0 \in HostStates
  BY DEF HostStart, HostStates
<1>14. IsHostRun(server, s0, ha)
  <2> HIDE DEF s0
  <2>1. Len(server) \in Nat
    BY <1>4
  <2>2. QED
    BY <1>13, <2>1, HostAlong
<1> HIDE DEF ha, s0
<1>15. ha[Len(server)] \notin Unfinished
  <2> HIDE DEF v6
  <2>1. QED
    BY <1>7, <1>12 DEF Uri!Invalid
<1>16. /\ h.userinfo = Userinfo(server, ha) /\ h.host = HostName(server, ha)
       /\ h.v6 = v6 /\ h.port = PortText(server, ha)
  <2> HIDE DEF v6
  <2>1. QED
    BY <1>12, <1>15
<1>17. ~\E i \in DOMAIN ha : ha[i] = "v6_end"
  BY <1>10, <1>16
<1>18. /\ Userinfo(server, ha) \in Seq(Uri!UserinfoChars)
       /\ HostName(server, ha) \in Seq(Uri!HostChars)
       /\ PortText(server, ha) \in Seq(Uri!Digits)
  BY <1>4, <1>13, <1>14, <1>15, <1>17, HostFieldsTyped
<1>19. h.v6 = FALSE
  <2>1. v6 = FALSE
    BY <1>17
  <2> HIDE DEF v6
  <2>2. QED
    BY <1>16, <2>1
<1> HIDE DEF v6
<1> DEFINE ui == h.userinfo
           host == h.host
           digits == h.port
<1>20. /\ ui \in Seq(Uri!UserinfoChars) /\ host \in Seq(Uri!HostChars)
       /\ digits \in Seq(Uri!Digits)
  BY <1>16, <1>18
<1>21. port \in Nat /\ port <= 65535
  <2>1. Uri!Number(digits) \in Nat
    BY <1>20, NumberSteps
  <2>2. Uri!Number(digits) <= 65535
    <3> DEFINE n == Uri!Number(digits)
    <3>1. n \in Nat /\ ~(n > 65535)
      BY <1>7, <2>1
    <3> HIDE DEF n
    <3>2. n <= 65535
      BY <3>1
    <3>3. QED
      BY <3>2 DEF n
  <2>3. Uri!DefaultPort(r) \in Nat /\ Uri!DefaultPort(r) <= 65535
    BY DefaultPorts
  <2>4. QED
    BY <2>1, <2>2, <2>3
<1>22. ~Empty(sch) /\ (~Empty(pth) => pth[1] = "/") /\ (~Empty(fr) => fr[1] # "#")
  BY <1>5, <1>11 DEF Shape
<1>23. ~Empty(host)
  BY <1>10 DEF Empty
<1> HIDE DEF port
<1>24. UriParts(sch, ui, host, port, pth, q, fr)
  BY <1>4, <1>20, <1>21, <1>22, <1>23 DEF UriParts
<1>25. u = UriOf(sch, ui, host, port, pth, q, fr)
  BY <1>9, <1>19 DEF UriOf
<1> HIDE DEF ui, host
<1>26. QED
  BY <1>24, <1>25

\* The optional parts that toString writes.
UserText(ui) == IF ui = <<>> THEN <<>> ELSE Append(ui, "@")
PortPart(u) == IF Uri!isDefaultPort(u) THEN <<>> ELSE <<":">> \o Uri!Numeral(u.port)
MarkText(c, v) == IF v = <<>> THEN <<>> ELSE <<c>> \o v
UserJoined(ui, U) == (Empty(ui) /\ Empty(U)) \/ (~Empty(ui) /\ IsJoin(U, ui, <<"@">>))

LEMMA UserWritten ==
    ASSUME NEW ui \in Seq(Uri!UserinfoChars)
    PROVE  UserJoined(ui, UserText(ui))
<1>1. Append(ui, "@") = ui \o <<"@">>
  OBVIOUS
<1>2. QED
  BY <1>1 DEF Empty, IsJoin, UserText, UserJoined

LEMMA MarkWritten == ASSUME NEW v, NEW c PROVE MarkedText(MarkText(c, v), c, v)
  BY DEF MarkedText, Empty, IsJoin, MarkText

LEMMA NumberNothing == ASSUME NEW d, Empty(d) PROVE Uri!Number(d) = 0
<1>1. d = <<>>
  BY DEF Empty
<1>2. d \in Seq(Uri!Digits) /\ Len(d) = 0
  BY <1>1
<1>3. PICK v : NumberRun(d, v)
  BY <1>2, NumberSteps
<1>4. QED
  BY <1>2, <1>3 DEF NumberRun

LEMMA TextWritten ==
    ASSUME NEW u
    PROVE  Uri!toString(u) =
             ((((((u.scheme \o Slashes) \o UserText(u.userinfo)) \o u.host) \o PortPart(u))
                \o Uri!getPath(u)) \o MarkText("?", u.query)) \o MarkText("#", u.fragment)
  BY DEF Uri!toString, Slashes, UserText, PortPart, MarkText

UrlCase(t, at, sch, sw, pth, q, fr, ui) ==
    \E U, host, P, digits, p1, p3, p4, p5, N :
      /\ sch \in Seq(Uri!Letters) /\ pth \in Seq(Uri!UrlChars)
      /\ q \in Seq(Uri!UrlChars \cup {"?"}) /\ fr \in Seq(UrlText)
      /\ Len(sch) # 0 /\ Len(pth) # 0 /\ pth[1] = "/" /\ (Len(fr) # 0 => fr[1] # "#")
      /\ HostWord(sw, ui, U, host, P, digits) /\ Len(sw) \in Nat \ {0}
      /\ sw \in Seq(UrlText)
      /\ UrlLaid(t, sch, sw, pth, q, fr, p1, p3, p4, p5, N) /\ IsUrlRun(t, at)

LEMMA UrlCaseAgain ==
    ASSUME NEW t, NEW at, NEW sch, NEW sw, NEW pth, NEW q, NEW fr, NEW ui,
           UrlCase(t, at, sch, sw, pth, q, fr, ui)
    PROVE  /\ Scheme(t, at) = sch /\ Server(t, at) = sw /\ Path(t, at) = pth
           /\ Query(t, at) = q /\ Fragment(t, at) = fr
           /\ FoundAt(at) <=> ~Empty(ui)
           /\ ~Empty(t) /\ at[Len(t)] # "s_dead"
<1>1. PICK U, host, P, digits, p1, p3, p4, p5, N :
      /\ sch \in Seq(Uri!Letters) /\ pth \in Seq(Uri!UrlChars)
      /\ q \in Seq(Uri!UrlChars \cup {"?"}) /\ fr \in Seq(UrlText)
      /\ Len(sch) # 0 /\ Len(pth) # 0 /\ pth[1] = "/" /\ (Len(fr) # 0 => fr[1] # "#")
      /\ HostWord(sw, ui, U, host, P, digits) /\ Len(sw) \in Nat \ {0}
      /\ sw \in Seq(UrlText)
      /\ UrlLaid(t, sch, sw, pth, q, fr, p1, p3, p4, p5, N) /\ IsUrlRun(t, at)
  BY DEF UrlCase
<1>2. QED
  BY <1>1, UrlAgain

LEMMA PathSet ==
    ASSUME NEW sch, NEW ui, NEW host, NEW port, NEW pth, NEW q, NEW fr, NEW pa,
           NEW u, u = UriOf(sch, ui, host, port, pth, q, fr)
    PROVE  [u EXCEPT !.path = pa] = UriOf(sch, ui, host, port, pa, q, fr)
<1>1. u = [ok |-> TRUE, scheme |-> sch, userinfo |-> ui, host |-> host, v6 |-> FALSE,
           port |-> port, path |-> pth, query |-> q, fragment |-> fr]
  BY DEF UriOf
<1> DEFINE w == [u EXCEPT !.path = pa]
           e == [ok |-> TRUE, scheme |-> sch, userinfo |-> ui, host |-> host, v6 |-> FALSE,
                 port |-> port, path |-> pa, query |-> q, fragment |-> fr]
<1>2. DOMAIN u = {"ok", "scheme", "userinfo", "host", "v6", "port", "path", "query",
                  "fragment"}
  BY <1>1
<1>3. \A f \in DOMAIN u : w[f] = e[f]
  <2>1. e["path"] = pa
    OBVIOUS
  <2>2. \A f \in DOMAIN u : w[f] = IF f = "path" THEN pa ELSE u[f]
    OBVIOUS
  <2>3. /\ u["ok"] = e["ok"] /\ u["scheme"] = e["scheme"]
        /\ u["userinfo"] = e["userinfo"] /\ u["host"] = e["host"] /\ u["v6"] = e["v6"]
        /\ u["port"] = e["port"] /\ u["query"] = e["query"]
        /\ u["fragment"] = e["fragment"]
    BY <1>1
  <2> HIDE DEF w, e
  <2>4. ASSUME NEW f \in DOMAIN u PROVE w[f] = e[f]
    <3>1. CASE f = "path"
      BY <2>1, <2>2, <3>1, Zenon
    <3>2. CASE f # "path"
      <4>1. w[f] = u[f]
        BY <2>2, <3>2, Zenon
      <4>2. \/ f = "ok" \/ f = "scheme" \/ f = "userinfo" \/ f = "host" \/ f = "v6"
            \/ f = "port" \/ f = "query" \/ f = "fragment"
        BY <1>2, <3>2, Zenon
      <4>3. u[f] = e[f]
        BY <2>3, <4>2, Zenon
      <4>4. QED
        BY <4>1, <4>3, Zenon
    <3>3. QED
      BY <3>1, <3>2, Zenon
  <2>5. QED
    BY <2>4, Zenon
<1>4. /\ DOMAIN w = DOMAIN u /\ DOMAIN e = DOMAIN u
      /\ w = [f \in DOMAIN w |-> w[f]] /\ e = [f \in DOMAIN e |-> e[f]]
  BY <1>2
<1> HIDE DEF w, e
<1>5. w = e
  BY <1>3, <1>4
<1>6. QED
  BY <1>5 DEF UriOf, w, e

\* What toString writes is read as the Uri with its path.
LEMMA CreateAgain ==
    ASSUME NEW sch, NEW ui, NEW host, NEW port, NEW pth, NEW q, NEW fr,
           UriParts(sch, ui, host, port, pth, q, fr),
           NEW u, u = UriOf(sch, ui, host, port, pth, q, fr)
    PROVE  Uri!Create(Uri!toString(u)) =
             UriOf(sch, ui, host, port, Uri!getPath(u), q, fr)
<1> DEFINE pa == Uri!getPath(u)
           U == UserText(ui)
           digits == IF Uri!isDefaultPort(u) THEN <<>> ELSE Uri!Numeral(port)
           P == PortPart(u)
           Q == MarkText("?", q)
           F == MarkText("#", fr)
           r == host \o P
           sw == U \o r
           t == Uri!toString(u)
           C == Uri!UrlChars
<1>1. /\ sch \in Seq(Uri!Letters) /\ ~Empty(sch) /\ ui \in Seq(Uri!UserinfoChars)
      /\ host \in Seq(Uri!HostChars) /\ ~Empty(host)
      /\ port \in Nat /\ port <= 65535
      /\ pth \in Seq(Uri!UrlChars) /\ (~Empty(pth) => pth[1] = "/")
      /\ q \in Seq(Uri!UrlChars \cup {"?"})
      /\ fr \in Seq(UrlText) /\ (~Empty(fr) => fr[1] # "#")
  BY DEF UriParts
<1>2. /\ u.scheme = sch /\ u.port = port /\ u.path = pth
  BY DEF UriOf
<1>3. pa \in Seq(C) /\ ~Empty(pa) /\ pa[1] = "/"
  <2>1. "/" \in C
    BY CharClasses
  <2>2. <<"/">> \in Seq(C) /\ ~Empty(<<"/">>) /\ <<"/">>[1] = "/"
    BY <2>1 DEF Empty
  <2>3. pa = IF Empty(pth) THEN <<"/">> ELSE pth
    BY <1>2 DEF Uri!getPath, Empty
  <2> HIDE DEF pa
  <2>4. QED
    BY <1>1, <2>2, <2>3
<1>4. /\ digits \in Seq(Uri!Digits) /\ Uri!Number(digits) \in Nat
      /\ Uri!Number(digits) <= 65535
      /\ Empty(digits) => Uri!isDefaultPort(u)
      /\ ~Empty(digits) => Uri!Number(digits) = port
      /\ (Empty(digits) /\ Empty(P)) \/ (~Empty(digits) /\ IsJoin(P, <<":">>, digits))
  <2>1. CASE Uri!isDefaultPort(u)
    <3>1. digits = <<>> /\ P = <<>>
      BY <2>1 DEF PortPart
    <3> HIDE DEF digits, P
    <3>2. Empty(digits) /\ Empty(P) /\ digits \in Seq(Uri!Digits)
      BY <3>1 DEF Empty
    <3>3. Uri!Number(digits) = 0
      BY <3>2, NumberNothing
    <3>4. QED
      BY <2>1, <3>2, <3>3
  <2>2. CASE ~Uri!isDefaultPort(u)
    <3>1. digits = Uri!Numeral(port) /\ P = <<":">> \o digits
      BY <1>2, <2>2 DEF PortPart
    <3> HIDE DEF digits, P
    <3>2. digits \in Seq(Uri!Digits) /\ ~Empty(digits) /\ Uri!Number(digits) = port
      BY <1>1, <3>1, NumeralBack
    <3>3. IsJoin(P, <<":">>, digits)
      BY <3>1 DEF IsJoin
    <3>4. QED
      BY <1>1, <3>2, <3>3
  <2>3. QED
    BY <2>1, <2>2
<1>5. t = ((((((sch \o Slashes) \o U) \o host) \o P) \o pa) \o Q) \o F
  <2>1. /\ u.scheme = sch /\ u.userinfo = ui /\ u.host = host
        /\ u.query = q /\ u.fragment = fr
    BY DEF UriOf
  <2>2. t = ((((((u.scheme \o Slashes) \o UserText(u.userinfo)) \o u.host) \o PortPart(u))
              \o Uri!getPath(u)) \o MarkText("?", u.query)) \o MarkText("#", u.fragment)
    BY TextWritten
  <2> HIDE DEF t
  <2>3. QED
    BY <2>1, <2>2
<1>6. /\ (Empty(ui) /\ Empty(U)) \/ (~Empty(ui) /\ IsJoin(U, ui, <<"@">>))
  BY <1>1, UserWritten DEF UserJoined
<1>7. MarkedText(Q, "?", q) /\ MarkedText(F, "#", fr)
  BY MarkWritten
<1>8. IsJoin(r, host, P) /\ IsJoin(sw, U, r)
  BY DEF IsJoin
<1>9. HostWord(sw, ui, U, host, P, digits)
  <2> HIDE DEF r, sw, digits, P, U
  <2>1. QED
    BY <1>1, <1>4, <1>6, <1>8 DEF HostWord
<1> HIDE DEF U, P, Q, F, digits, pa, t
<1>10. sw \in Seq(C) /\ U \in Seq(C) /\ P \in Seq(C) /\ ~Empty(sw)
  <2> HIDE DEF sw
  <2>1. QED
    BY <1>9, HostLays
<1>11. /\ C \subseteq UrlText /\ Uri!Letters \subseteq C
       /\ Uri!UrlChars \cup {"?"} \subseteq UrlText
  BY CharClasses DEF UrlText
<1>12. \A A, D : A \subseteq D => \A v \in Seq(A) : v \in Seq(D)
  OBVIOUS
<1>13. host \in Seq(C) /\ sch \in Seq(C)
  BY <1>1, <1>11, <1>12, SeqUrl
<1>14. UrlWord(t, sch, sw, pa, Q, F)
  <2> DEFINE k == sch \o Slashes
             j1 == k \o U
             j2 == j1 \o host
             j3 == j2 \o P
  <2>1. k \in Seq(C)
    <3>1. Slashes \in Seq(C)
      <4>1. ":" \in C /\ "/" \in C
        BY CharClasses
      <4>2. QED
        BY <4>1 DEF Slashes
    <3> HIDE DEF C
    <3>2. QED
      BY <1>13, <3>1
  <2>2. t = ((j3 \o pa) \o Q) \o F
    BY <1>5
  <2>3. IsJoin(j1, k, U) /\ IsJoin(j2, j1, host) /\ IsJoin(j3, j2, P)
    BY DEF IsJoin
  <2>4. IsJoin(j3, k, sw)
    <3> HIDE DEF k, j1, j2, j3, sw, r, C
    <3>1. QED
      BY <1>8, <1>10, <1>13, <2>1, <2>3, Regrouped
  <2> HIDE DEF sw, j3
  <2>5. t = (((k \o sw) \o pa) \o Q) \o F
    BY <2>2, <2>4 DEF IsJoin
  <2>6. QED
    BY <2>5 DEF UrlWord
<1> HIDE DEF sw
<1>15. /\ sch \in Seq(UrlText) /\ sw \in Seq(UrlText) /\ pa \in Seq(UrlText)
       /\ q \in Seq(UrlText)
  <2>1. \A v \in Seq(C) : v \in Seq(UrlText)
    BY <1>11, <1>12
  <2>2. q \in Seq(UrlText)
    BY <1>1, <1>11, <1>12
  <2> HIDE DEF C
  <2>3. QED
    BY <1>3, <1>10, <1>13, <2>1, <2>2
<1>16. PICK p1, p3, p4, p5, N : UrlLaid(t, sch, sw, pa, q, fr, p1, p3, p4, p5, N)
  BY <1>1, <1>7, <1>14, <1>15, UrlLays
<1> DEFINE at == UrlAt(t)
           found == FoundAt(at)
           h == HostOf(Server(t, at), found)
<1>17. t \in Seq(UrlText)
  BY <1>16 DEF UrlLaid
<1>18. IsUrlRun(t, at)
  <2>1. Len(t) \in Nat
    BY <1>17
  <2>2. QED
    BY <2>1, UrlAlong
<1> HIDE DEF at
<1>19. /\ Len(sch) # 0 /\ Len(pa) # 0 /\ (Len(fr) # 0 => fr[1] # "#")
       /\ Len(sw) \in Nat \ {0}
  <2>1. /\ Empty(sch) <=> Len(sch) = 0
        /\ Empty(pa) <=> Len(pa) = 0
        /\ Empty(fr) <=> Len(fr) = 0
        /\ Empty(sw) <=> Len(sw) = 0
        /\ Len(sw) \in Nat
    BY <1>1, <1>3, <1>10, EmptyLen
  <2>2. QED
    BY <1>1, <1>3, <1>10, <2>1
<1>20. /\ Scheme(t, at) = sch /\ Server(t, at) = sw /\ Path(t, at) = pa
       /\ Query(t, at) = q /\ Fragment(t, at) = fr
       /\ found <=> ~Empty(ui)
       /\ ~Empty(t) /\ at[Len(t)] # "s_dead"
  <2>1. UrlCase(t, at, sch, sw, pa, q, fr, ui)
    BY <1>1, <1>3, <1>9, <1>15, <1>16, <1>18, <1>19 DEF UrlCase
  <2>2. QED
    BY <2>1, UrlCaseAgain
<1>21. found \in BOOLEAN
  BY DEF FoundAt
<1> HIDE DEF found
<1>22. h = [ok |-> TRUE, userinfo |-> ui, host |-> host, v6 |-> FALSE, port |-> digits]
  <2>1. h = Uri!http_parse_host(sw, found)
    BY <1>10, <1>20 DEF HostOf
  <2>2. Uri!http_parse_host(sw, found) =
          [ok |-> TRUE, userinfo |-> ui, host |-> host, v6 |-> FALSE, port |-> digits]
    BY <1>9, <1>20, <1>21, HostAgain
  <2> HIDE DEF h
  <2>3. QED
    BY <2>1, <2>2
<1>23. Uri!http_parser_parse_url(t) =
         IF Refused(t, at, h) THEN Uri!Invalid ELSE Parsed(t, at, h)
  <2> HIDE DEF h
  <2>1. at = UrlAt(t) /\ h = HostOf(Server(t, at), FoundAt(at))
    BY DEF at, h, found
  <2>2. QED
    BY <2>1, ParseUrl
<1> HIDE DEF h
<1>24. ~Refused(t, at, h)
  <2>1. ~(Uri!Number(digits) > 65535)
    <3> DEFINE n == Uri!Number(digits)
    <3>1. n \in Nat /\ n <= 65535
      BY <1>4
    <3> HIDE DEF n
    <3>2. ~(n > 65535)
      BY <3>1
    <3>3. QED
      BY <3>2 DEF n
  <2>2. h.ok /\ h.port = digits
    BY <1>22
  <2>3. QED
    BY <1>10, <1>20, <2>1, <2>2 DEF Refused
<1> DEFINE w == Uri!http_parser_parse_url(t)
<1>25. w = [ok |-> TRUE, scheme |-> sch, userinfo |-> ui, host |-> host, v6 |-> FALSE,
            port |-> digits, path |-> pa, query |-> q, fragment |-> fr]
  <2>1. Parsed(t, at, h) =
          [ok |-> TRUE, scheme |-> sch, userinfo |-> ui, host |-> host, v6 |-> FALSE,
           port |-> digits, path |-> pa, query |-> q, fragment |-> fr]
    BY <1>20, <1>22 DEF Parsed
  <2> HIDE DEF w
  <2>2. w = Parsed(t, at, h)
    BY <1>23, <1>24 DEF w
  <2>3. QED
    BY <2>1, <2>2
<1> HIDE DEF w
<1>26. (IF digits # <<>> THEN Uri!Number(digits) ELSE Uri!DefaultPort(w)) = port
  <2>1. CASE digits # <<>>
    BY <1>4, <2>1 DEF Empty
  <2>2. CASE digits = <<>>
    <3>1. Uri!isDefaultPort(u)
      BY <1>4, <2>2 DEF Empty
    <3>2. w.scheme = sch
      BY <1>25
    <3>3. Uri!Https \notin Uri!Http
      BY DEF Uri!Https, Uri!Http
    <3>4. Uri!DefaultPort(w) = port
      BY <1>2, <3>1, <3>2, <3>3 DEF Uri!DefaultPort, Uri!isDefaultPort
    <3>5. QED
      BY <2>2, <3>4
  <2>3. QED
    BY <2>1, <2>2
<1>27. Uri!Create(t) = [w EXCEPT !.port = IF w.port # <<>> THEN Uri!Number(w.port)
                                          ELSE Uri!DefaultPort(w)]
  <2>1. w.ok
    BY <1>25
  <2>2. QED
    BY <2>1 DEF Uri!Create, Uri!FromFields, w
<1>28. Uri!Create(t) = [w EXCEPT !.port = port]
  <2>1. w.port = digits
    BY <1>25
  <2>2. QED
    BY <1>26, <1>27, <2>1
<1>29. Uri!Create(t) = UriOf(sch, ui, host, port, pa, q, fr)
  BY <1>25, <1>28 DEF UriOf
<1>30. QED
  BY <1>29 DEF t, pa

\* uri.cc:Create and toString, for every string that the 16-bit offsets of the
\* parser can measure and that is not written longer than that: a Uri that names a server and is
\* not an IPv6 address in brackets is, once written, read as the same scheme, user,
\* host, port, path, query and fragment, and its port is the one connected to.
THEOREM UrlsReadBack ==
    ASSUME NEW X
    PROVE  \A str \in Seq(X) : Uri!UriRoundTrip(str)
<1> SUFFICES ASSUME NEW str \in Seq(X), NEW u, u = Uri!Create(str),
                    u.ok, u.host # <<>>, ~u.v6, Uri!Fits(str),
                    Uri!Fits(Uri!toString(u)), NEW v, v = Uri!Create(Uri!toString(u))
             PROVE  /\ v.ok
                    /\ Uri!getPort(v) = Uri!getPort(u)
                    /\ v = [u EXCEPT !.path = Uri!getPath(u)]
  BY DEF Uri!UriRoundTrip
<1>1. PICK sch, ui, host, port, pth, q, fr :
             /\ UriParts(sch, ui, host, port, pth, q, fr)
             /\ u = UriOf(sch, ui, host, port, pth, q, fr)
  BY CreateMakes
<1> DEFINE pa == Uri!getPath(u)
<1>2. v = UriOf(sch, ui, host, port, pa, q, fr)
  BY <1>1, CreateAgain
<1> HIDE DEF pa
<1>3. /\ u.scheme = sch /\ u.port = port /\ v.scheme = sch /\ v.port = port /\ v.ok
  BY <1>1, <1>2 DEF UriOf
<1>4. Uri!getPort(v) = Uri!getPort(u)
  BY <1>3 DEF Uri!getPort
<1>5. v = [u EXCEPT !.path = pa]
  BY <1>1, <1>2, PathSet
<1>6. QED
  BY <1>3, <1>4, <1>5 DEF pa

-----------------------------------------------------------------------------
(* The inputs that a conversion is tried on *)

UrlSigns == {"h", "s", "x", "@", ":", "9", "8", "0", "/", "?", "#", "[", "]"}
NodeSigns == {"h", ":", "."}
InputInv ==
    /\ part = "url" => input \in Seq(UrlSigns)
    /\ part = "text" => input \in Seq(Octet)
    /\ part = "number" => input \in {<<n>> : n \in Signed}
    /\ part = "format" => input \in Seq(PatternParts)
    /\ part = "options" => input \in Seq(OptionSet)
    /\ part = "node" => input \in Seq(NodeSigns)
    /\ part = "groups" => input \in Seq({0, 7})

LEMMA PiecesOf ==
    /\ Pieces["url"] = UrlPieces /\ Pieces["text"] = TextPieces
    /\ Pieces["number"] = {} /\ Pieces["format"] = FormatPieces
    /\ Pieces["options"] = OptionPieces /\ Pieces["node"] = NodePieces
    /\ Pieces["groups"] = GroupPieces
    /\ Conversions = {"url", "text", "number", "format", "options", "node", "groups"}
  BY DEF Pieces, Conversions

LEMMA UrlPiecesTyped == \A p \in UrlPieces : p \in Seq(UrlSigns)
<1> SUFFICES ASSUME NEW p \in UrlPieces PROVE p \in Seq(UrlSigns)
  OBVIOUS
<1>1. CASE p = <<"8", "0">>
  BY <1>1 DEF UrlSigns
<1>2. CASE p # <<"8", "0">>
  <2>1. PICK c \in UrlSigns : p = <<c>>
    BY <1>2 DEF UrlPieces, UrlSigns
  <2>2. QED
    BY <2>1
<1>3. QED
  BY <1>1, <1>2

LEMMA TextPiecesTyped == \A p \in TextPieces : p \in Seq(Octet)
<1> SUFFICES ASSUME NEW p \in TextPieces PROVE p \in Seq(Octet)
  OBVIOUS
<1>1. PICK c \in {97, 32, 43, 37, 200, 49} : p = <<c>>
  BY DEF TextPieces
<1>2. c \in Octet
  BY DEF Octet
<1>3. QED
  BY <1>1, <1>2

LEMMA OptionPiecesTyped == \A p \in OptionPieces : p \in Seq(OptionSet)
<1> SUFFICES ASSUME NEW p \in OptionPieces PROVE p \in Seq(OptionSet)
  OBVIOUS
<1>1. PICK o \in [key : {"c", "d"}, val : {"", "v"}] : p = <<o>>
  BY DEF OptionPieces
<1>2. {"c", "d"} \subseteq OptionText \ {Options!None} /\ {"", "v"} \subseteq OptionText
  BY DEF OptionText, Options!None
<1>3. o \in OptionSet
  BY <1>2 DEF OptionSet
<1>4. <<o>> \in Seq(OptionSet)
  BY <1>3, SingleTyped
<1>5. QED
  BY <1>1, <1>4, Zenon

LEMMA NodePiecesTyped == \A p \in NodePieces : p \in Seq(NodeSigns)
<1> SUFFICES ASSUME NEW p \in NodePieces PROVE p \in Seq(NodeSigns)
  OBVIOUS
<1>1. PICK c \in NodeSigns : p = <<c>>
  BY DEF NodePieces, NodeSigns
<1>2. QED
  BY <1>1

LEMMA GroupPiecesTyped == \A p \in GroupPieces : p \in Seq({0, 7})
<1> SUFFICES ASSUME NEW p \in GroupPieces PROVE p \in Seq({0, 7})
  OBVIOUS
<1>1. PICK g \in {0, 7} : p = <<g>>
  BY DEF GroupPieces
<1>2. QED
  BY <1>1

LEMMA PartTyped ==
    ASSUME NEW item \in Glyph \cup {"text"}, NEW text \in Seq(Glyph),
           NEW format \in Seq(Glyph), NEW p, p = FormatPart(item, text, format),
           IsText(p) \/ IsItem(p) \/ IsBare(p) \/ IsDate(p)
    PROVE  p \in PatternParts
<1>1. p \in [item : Glyph \cup {"text"}, text : Seq(Glyph), format : Seq(Glyph)]
  BY DEF FormatPart
<1>2. QED
  BY <1>1 DEF PatternParts

LEMMA FormatPiecesTyped == \A p \in FormatPieces : p \in Seq(PatternParts)
<1> SUFFICES ASSUME NEW p \in FormatPieces PROVE p \in Seq(PatternParts)
  OBVIOUS
<1>1. PICK q : /\ p = <<q>>
               /\ \/ q = FormatPart("text", <<"x">>, <<>>)
                  \/ q = FormatPart("text", <<RBrace>>, <<>>)
                  \/ q = FormatPart("m", <<"%", "m">>, <<>>)
                  \/ q = FormatPart("%", <<"%", "%">>, <<>>)
                  \/ q = FormatPart("d", <<"%", "d">>, <<>>)
                  \/ q = FormatPart("d", <<"%", "d", LBrace, "%", "Y", RBrace>>,
                                    <<"%", "Y">>)
  BY DEF FormatPieces
<1>2. /\ LBrace # RBrace /\ LBrace # "%" /\ RBrace # "%" /\ LBrace # "x" /\ RBrace # "Y"
  BY Zenon DEF LBrace, RBrace
<1>3. {"%", "d", "m", "x", "Y", LBrace, RBrace} \subseteq Glyph
  BY DEF Glyph
<1>4. ASSUME NEW c \in {"x", RBrace}, q = FormatPart("text", <<c>>, <<>>)
      PROVE  q \in PatternParts
  <2>1. c \in Glyph /\ c # "%" /\ c # LBrace
    BY <1>2, <1>3
  <2>2. <<c>> \in Seq(Glyph) /\ <<>> \in Seq(Glyph)
    BY <2>1
  <2>3. /\ q.item = "text" /\ q.text = <<c>> /\ q.format = <<>>
    BY <1>4 DEF FormatPart
  <2>4. IsText(q)
    BY <2>1, <2>3 DEF IsText, Begins, Free
  <2>5. QED
    BY <1>4, <2>2, <2>4, PartTyped
<1>5. ASSUME NEW c \in {"m", "%"}, q = FormatPart(c, <<"%", c>>, <<>>)
      PROVE  q \in PatternParts
  <2>1. c \in Glyph /\ c \in Format!s_format_items
    BY <1>3 DEF Format!s_format_items
  <2>2. <<"%", c>> \in Seq(Glyph) /\ <<>> \in Seq(Glyph)
    BY <1>3, <2>1
  <2>3. IsItem(q)
    BY <1>5, <2>1 DEF IsItem, FormatPart
  <2>4. QED
    BY <1>5, <2>1, <2>2, <2>3, PartTyped
<1>6. ASSUME q = FormatPart("d", <<"%", "d">>, <<>>) PROVE q \in PatternParts
  <2> DEFINE t == <<"%", "d">>
             f == <<>>
             c == "d"
  <2>1. t \in Seq(Glyph) /\ f \in Seq(Glyph) /\ c \in Glyph \cup {"text"}
    BY <1>3
  <2>2. IsBare(q)
    BY <1>6 DEF IsBare, FormatPart
  <2>3. q = FormatPart(c, t, f)
    BY <1>6
  <2> HIDE DEF c, t, f
  <2>4. QED
    BY <2>1, <2>2, <2>3, PartTyped
<1>7. ASSUME q = FormatPart("d", <<"%", "d", LBrace, "%", "Y", RBrace>>, <<"%", "Y">>)
      PROVE  q \in PatternParts
  <2> DEFINE t == <<"%", "d", LBrace, "%", "Y", RBrace>>
             f == <<"%", "Y">>
             c == "d"
  <2>1. t \in Seq(Glyph) /\ f \in Seq(Glyph) /\ c \in Glyph \cup {"text"}
    BY <1>3
  <2>2. t = <<"%", "d", LBrace>> \o f \o <<RBrace>>
    OBVIOUS
  <2>3. Free(f, RBrace)
    BY <1>2 DEF Free
  <2> HIDE DEF t, f
  <2>4. q = FormatPart(c, t, f)
    BY <1>7 DEF t, f
  <2>5. IsDate(q)
    <3>1. q.item = "d" /\ q.text = t /\ q.format = f
      BY <2>4 DEF FormatPart
    <3>2. QED
      BY <2>2, <2>3, <3>1 DEF IsDate
  <2> HIDE DEF c
  <2>6. QED
    BY <2>1, <2>4, <2>5, PartTyped
<1>8. q \in PatternParts
  BY <1>1, <1>4, <1>5, <1>6, <1>7
<1>9. QED
  BY <1>1, <1>8

LEMMA InputInit == MCInit => InputInv
<1> SUFFICES ASSUME MCInit PROVE InputInv
  OBVIOUS
<1>1. input \in CASE part = "number" -> {<<n>> : n \in Signed}
                  [] part = "url" -> {<<>>, Begun}
                  [] OTHER -> {<<>>}
  BY DEF MCInit
<1>2. part = "number" => input \in {<<n>> : n \in Signed}
  BY <1>1, Zenon
<1>3. part = "url" => input = <<>> \/ input = Begun
  BY <1>1
<1>4. part # "number" /\ part # "url" => input = <<>>
  BY <1>1
<1>5. Begun \in Seq(UrlSigns) /\ <<>> \in Seq(UrlSigns)
  BY DEF Begun, UrlSigns
<1>6. /\ <<>> \in Seq(Octet) /\ <<>> \in Seq(PatternParts) /\ <<>> \in Seq(OptionSet)
      /\ <<>> \in Seq(NodeSigns) /\ <<>> \in Seq({0, 7})
  OBVIOUS
<1>7. QED
  BY <1>2, <1>3, <1>4, <1>5, <1>6, Zenon DEF InputInv

LEMMA InputStep ==
    InputInv /\ [MCNext]_<<part, input, vars, logVars, sockVars>> => InputInv'
<1> SUFFICES ASSUME InputInv, [MCNext]_<<part, input, vars, logVars, sockVars>>
             PROVE  InputInv'
  OBVIOUS
<1>1. part' = part
  BY DEF MCNext
<1>2. CASE input' = input
  BY <1>1, <1>2 DEF InputInv
<1>3. CASE Grow
  <2>1. PICK p \in Pieces[part] : input' = input \o p
    BY <1>3 DEF Grow
  <2>2. part = "url" => input' \in Seq(UrlSigns)
    <3> SUFFICES ASSUME part = "url" PROVE input' \in Seq(UrlSigns)
      OBVIOUS
    <3>1. input \in Seq(UrlSigns) /\ p \in Seq(UrlSigns)
      BY <2>1, PiecesOf, UrlPiecesTyped DEF InputInv
    <3>2. QED
      BY <2>1, <3>1, JoinTyped
  <2>3. part = "text" => input' \in Seq(Octet)
    <3> SUFFICES ASSUME part = "text" PROVE input' \in Seq(Octet)
      OBVIOUS
    <3>1. input \in Seq(Octet) /\ p \in Seq(Octet)
      BY <2>1, PiecesOf, TextPiecesTyped DEF InputInv
    <3>2. QED
      BY <2>1, <3>1, JoinTyped
  <2>4. part # "number"
    BY <2>1, PiecesOf
  <2>5. part = "format" => input' \in Seq(PatternParts)
    <3> SUFFICES ASSUME part = "format" PROVE input' \in Seq(PatternParts)
      OBVIOUS
    <3>1. input \in Seq(PatternParts) /\ p \in Seq(PatternParts)
      BY <2>1, PiecesOf, FormatPiecesTyped DEF InputInv
    <3>2. QED
      BY <2>1, <3>1, JoinTyped
  <2>6. part = "options" => input' \in Seq(OptionSet)
    <3> SUFFICES ASSUME part = "options" PROVE input' \in Seq(OptionSet)
      OBVIOUS
    <3>1. input \in Seq(OptionSet) /\ p \in Seq(OptionSet)
      BY <2>1, PiecesOf, OptionPiecesTyped DEF InputInv
    <3>2. QED
      BY <2>1, <3>1, JoinTyped
  <2>7. part = "node" => input' \in Seq(NodeSigns)
    <3> SUFFICES ASSUME part = "node" PROVE input' \in Seq(NodeSigns)
      OBVIOUS
    <3>1. input \in Seq(NodeSigns) /\ p \in Seq(NodeSigns)
      BY <2>1, PiecesOf, NodePiecesTyped DEF InputInv
    <3>2. QED
      BY <2>1, <3>1, JoinTyped
  <2>8. part = "groups" => input' \in Seq({0, 7})
    <3> SUFFICES ASSUME part = "groups" PROVE input' \in Seq({0, 7})
      OBVIOUS
    <3>1. input \in Seq({0, 7}) /\ p \in Seq({0, 7})
      BY <2>1, PiecesOf, GroupPiecesTyped DEF InputInv
    <3>2. QED
      BY <2>1, <3>1, JoinTyped
  <2>9. QED
    BY <1>1, <2>2, <2>3, <2>4, <2>5, <2>6, <2>7, <2>8 DEF InputInv
<1>4. QED
  BY <1>2, <1>3 DEF MCNext

LEMMA BitsPrefix ==
    LET bit(i) == IF input[i] = 0 THEN 0 ELSE Power(2, i - 1)
        a == Code!Sum(bit, Groups)
    IN  \A n \in 1..AddrBits : Addr!PrefixSound(a, n)
<1> DEFINE F == CHOOSE h : IsBits(input, Groups, h)
           bit(i) == IF input[i] = 0 THEN 0 ELSE Power(2, i - 1)
<1>1. Groups \in Nat /\ AddrBits \in Nat /\ Groups <= AddrBits
  BY LibraryAssumption
<1>2. Code!Sum(bit, Groups) = F[Groups]
  BY DEF Code!Sum, IsBits
<1>3. IsBits(input, Groups, F)
  <2>1. \E h : IsBits(input, Groups, h)
    BY <1>1, BitsExist
  <2>2. QED
    BY <2>1, Zenon
<1> HIDE DEF F
<1>4. F[Groups] \in Nat /\ F[Groups] < Power(2, Groups)
  BY <1>1, <1>3, BitsBelow
<1>5. Power(2, Groups) <= Power(2, AddrBits)
  BY <1>1, PowerGrows
<1>6. Power(2, Groups) \in Nat /\ Power(2, AddrBits) \in Nat
  BY <1>1, PowerPositive
<1>7. F[Groups] \in 0..(Power(2, AddrBits) - 1)
  BY <1>4, <1>5, <1>6
<1>8. \A n \in 1..AddrBits : Addr!PrefixSound(F[Groups], n)
  BY <1>7, PrefixesSound
<1>9. QED
  BY <1>2, <1>8

\* The conversions that the parts try, for every word width and every length of
\* the inputs: what was written is what is read (uri.cc, bytearray.cc, util.cpp,
\* log.cpp, env.cc, address.cc).
THEOREM ConversionsCorrect == MCSpec => []RoundTrips
<1>1. InputInv => RoundTrips
  <2> SUFFICES ASSUME InputInv PROVE RoundTrips
    OBVIOUS
  <2>1. CASE part = "url"
    <3>1. Uri!UriRoundTrip(input)
      BY <2>1, UrlsReadBack DEF InputInv
    <3>2. QED
      BY <2>1, <3>1 DEF RoundTrips
  <2>2. CASE part = "text"
    <3>1. Code!TextRoundTrip(input)
      BY <2>2, TextsSurvive DEF InputInv
    <3>2. QED
      BY <2>2, <3>1 DEF RoundTrips
  <2>3. CASE part = "number"
    <3>1. PICK x \in Signed : input = <<x>>
      BY <2>3 DEF InputInv
    <3>2. Code!NumberRoundTrip(x) /\ input[1] = x
      BY <3>1, NumbersSurvive DEF Signed
    <3>3. QED
      BY <2>3, <3>2 DEF RoundTrips
  <2>4. CASE part = "format"
    <3>1. Format!PatternRoundTrip(input)
      BY <2>4, PatternsRead DEF InputInv
    <3>2. QED
      BY <2>4, <3>1 DEF RoundTrips
  <2>5. CASE part = "options"
    <3>1. Options!OptionsKept(input)
      BY <2>5, CommandLineKept DEF InputInv
    <3>2. QED
      BY <2>5, <3>1 DEF RoundTrips
  <2>6. CASE part = "node" /\ input # <<>>
    <3> DEFINE S == {"[", "]", ":", "h", ".", "8", "0"}
               port == <<"8", "0">>
    <3>1. input \in Seq(NodeSigns)
      BY <2>6 DEF InputInv
    <3>2. input \in Seq(S) \ {<<>>} /\ port \in Seq(S) /\ {"[", "]", ":"} \subseteq S
      BY <2>6, <3>1 DEF NodeSigns
    <3>3. Addr!Places(input, "[") = {} /\ Addr!Places(input, "]") = {}
      <4>1. \A i \in 1..Len(input) : input[i] \in NodeSigns
        BY <3>1
      <4>2. \A i \in 1..Len(input) : input[i] # "[" /\ input[i] # "]"
        BY <4>1 DEF NodeSigns
      <4>3. QED
        BY <4>2 DEF Addr!Places
    <3>4. Addr!Places(port, ":") = {}
      BY DEF Addr!Places
    <3> HIDE DEF S, port
    <3>5. Addr!LookupSplits(input, port)
      BY <3>2, <3>3, <3>4, HostsSplit
    <3>6. QED
      BY <2>6, <3>5 DEF RoundTrips, port
  <2>7. CASE part = "groups" /\ Len(input) = Groups
    <3>1. input \in Seq({0, 7}) /\ {0, 7} \subseteq Nat
      BY <2>7 DEF InputInv
    <3>2. input \in Seq(Nat)
      BY <3>1
    <3>3. Addr!TextIsAddress(input)
      BY <2>7, <3>2, AddressesReadBack
    <3>4. LET bit(i) == IF input[i] = 0 THEN 0 ELSE Power(2, i - 1)
              a == Code!Sum(bit, Groups)
          IN  \A n \in 1..AddrBits : Addr!PrefixSound(a, n)
      BY BitsPrefix
    <3>5. QED
      BY <2>7, <3>3, <3>4 DEF RoundTrips
  <2>8. CASE /\ part \notin {"url", "text", "number", "format", "options"}
             /\ ~(part = "node" /\ input # <<>>)
             /\ ~(part = "groups" /\ Len(input) = Groups)
    BY <2>8 DEF RoundTrips
  <2>9. QED
    BY <2>1, <2>2, <2>3, <2>4, <2>5, <2>6, <2>7, <2>8, Zenon
<1>2. QED
  BY <1>1, InputInit, InputStep, PTL DEF MCSpec

===============================================================================
