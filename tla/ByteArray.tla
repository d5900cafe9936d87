----------------------------- MODULE ByteArray -----------------------------
(***************************************************************************)
(* ByteArray (bytearray.cc): bytes in a chain of blocks of BaseSize, with  *)
(* a cursor that is a position and a pointer to its block, and the calls   *)
(* of SocketStream (socket_stream.cc) that receive into it and send from   *)
(* it.  It implements ByteFile.                                            *)
(*                                                                         *)
(* A block is a function from offsets to bytes, m_cur the index of one, or *)
(* Null behind the last.  Byte number k counted from the start of block c  *)
(* is at offset k % BaseSize of block c + k \div BaseSize: that is where   *)
(* the copying loops get by following next.                                *)
(***************************************************************************)
EXTENDS Integers, Sequences

CONSTANTS Byte, Junk, BaseSize,
          LenSpan,      \* lengths that fit a length field, which is one byte
          MaxBlocks,    \* bound: blocks of the array
          MaxWrite      \* bound: bytes of one write

ASSUME ByteArrayAssumption ==
    /\ BaseSize \in Nat \ {0} /\ LenSpan \in Nat \ {0}
    /\ MaxBlocks \in Nat \ {0} /\ MaxWrite \in Nat
    /\ Byte \subseteq Nat /\ Junk \notin Byte

VARIABLES
    nodes, m_cur,
    m_position, m_size, m_capacity,
    got,        \* what the last call returned, and for one that only looks
                \* the position it looked at
    crashed     \* the call that followed a null block: the loop it was in,
                \* the position it copied at and the bytes it was after

vars == <<nodes, m_cur, m_position, m_size, m_capacity, got, crashed>>

\* The file that the blocks hold.
File == INSTANCE ByteFile WITH
    file <- [i \in 1..m_size |-> nodes[1 + (i - 1) \div BaseSize]
                                      [(i - 1) % BaseSize]],
    pos <- m_position

Null == 0
Alive == [call |-> "none", at |-> 0, size |-> 0]
Offsets == 0..(BaseSize - 1)
NewNode == [o \in Offsets |-> Junk]

Init ==
    /\ nodes = <<NewNode>> /\ m_cur = 1
    /\ m_position = 0 /\ m_size = 0 /\ m_capacity = BaseSize
    /\ got = File!Moved(<<>>) /\ crashed = Alive

-----------------------------------------------------------------------------
npos == m_position % BaseSize
ReadSize == m_size - m_position

\* The block that holds byte k from the start of block c.
Follow(ns, c, k) ==
    IF c + k \div BaseSize <= Len(ns) THEN c + k \div BaseSize ELSE Null
\* The bytes that a loop copies out, and the blocks after one copied in.
Copy(k, size) ==
    [i \in 1..size |-> nodes[m_cur + (k + i - 1) \div BaseSize]
                            [(k + i - 1) % BaseSize]]
Store(ns, c, bs) ==
    [n \in 1..Len(ns) |-> [o \in Offsets |->
        LET i == (n - c) * BaseSize + o - npos + 1
        IN  IF i \in 1..Len(bs) THEN bs[i] ELSE ns[n][o]]]

Crash(call, at, size) ==
    /\ crashed' = [call |-> call, at |-> at, size |-> size]
    /\ UNCHANGED <<nodes, m_cur, m_position, m_size, m_capacity, got>>

-----------------------------------------------------------------------------
(* addCapacity *)

OldCap == m_capacity - m_position
Count(size) == IF OldCap >= size THEN 0
               ELSE (size - OldCap + BaseSize - 1) \div BaseSize
Grown(size) == nodes \o [i \in 1..Count(size) |-> NewNode]

\* Mutant of GrownCur: the cursor is not put on the first new block.
GrownCurKept(size) == m_cur

GrownCur(size) == IF Count(size) > 0 /\ OldCap = 0 THEN Len(nodes) + 1
                  ELSE m_cur

-----------------------------------------------------------------------------
\* Mutant of Position: the size follows the position down as well.
PositionTruncates(ns, v) ==
    /\ m_position' = v /\ m_size' = v
    /\ m_cur' = Follow(ns, 1, v)

\* setPosition, also after a receive and a send; the loop stops at the block
\* whose end is not yet reached.
Position(ns, v) ==
    /\ m_position' = v
    /\ m_size' = IF v > m_size THEN v ELSE m_size
    /\ m_cur' = Follow(ns, 1, v)

\* Also readFromFile, which writes BaseSize bytes at a time.
Write(bs) ==
    LET size == Len(bs)
        ns == Grown(size)
        cur == GrownCur(size)
    IN  /\ crashed = Alive /\ Len(ns) <= MaxBlocks
        /\ IF cur = Null THEN Crash("copy", m_position, size)
           ELSE /\ nodes' = Store(ns, cur, bs)
                /\ m_cur' = Follow(ns, cur, npos + size)
                /\ m_position' = m_position + size
                /\ m_size' = IF m_position' > m_size THEN m_position' ELSE m_size
                /\ m_capacity' = m_capacity + BaseSize * Count(size)
                /\ got' = File!Moved(<<>>) /\ UNCHANGED crashed

\* writeString*: the length, cut to the width of its field, and the bytes.
WriteString(str) ==
    LET len == Len(str) % LenSpan
    IN  len \in Byte /\ Write(<<len>> \o str)

\* read() of more than there is throws and changes nothing.
Read(size) ==
    /\ crashed = Alive /\ size <= ReadSize
    /\ IF m_cur = Null THEN Crash("copy", m_position, size)
       ELSE /\ got' = File!Moved(Copy(npos, size))
            /\ m_cur' = Follow(nodes, m_cur, npos + size)
            /\ m_position' = m_position + size
            /\ UNCHANGED <<nodes, m_size, m_capacity, crashed>>

\* readString*: the length, then read() of as many bytes, which may throw
\* when the length has been consumed, and which looks at m_cur even for 0.
ReadString(len) ==
    /\ crashed = Alive /\ 1 <= ReadSize /\ m_cur # Null
    /\ Copy(npos, 1)[1] \in {len, Junk}
    /\ LET cur == Follow(nodes, m_cur, npos + 1)
           short == len > ReadSize - 1
           n == IF short THEN 1 ELSE len + 1
       IN  IF ~short /\ cur = Null THEN Crash("copy", m_position, len)
           ELSE /\ got' = File!Moved(IF short THEN <<>>
                                     ELSE SubSeq(Copy(npos, n), 2, n))
                /\ m_position' = m_position + n
                /\ m_cur' = Follow(nodes, m_cur, npos + n)
                /\ UNCHANGED <<nodes, m_size, m_capacity, crashed>>

\* read(buf, size, position), for toString() with m_position and all there is
\* to read: the loop begins at m_cur, whatever the position.
\* m_size - position is unsigned and wraps.
ReadAt(size, position) ==
    LET from == position % BaseSize
    IN  /\ crashed = Alive
        /\ position > m_size \/ position + size <= m_size
        /\ IF \/ m_cur = Null
              \/ from + size > m_capacity - BaseSize * (m_cur - 1)
           THEN Crash("readAt", position, size)
           ELSE /\ got' = File!Looked(position, Copy(from, size))
                /\ UNCHANGED <<nodes, m_cur, m_position, m_size, m_capacity,
                               crashed>>

\* writeToFile: block by block, min(read_size, BaseSize) - diff bytes of each,
\* where diff is npos in the first.  With less than a block to read from
\* inside a block, diff and read_size only change places from turn to turn,
\* so that the loop ends at the null block behind the last; otherwise it
\* writes what there is to read.
WriteToFile ==
    /\ crashed = Alive
    /\ IF ReadSize > 0 /\ (m_cur = Null \/ (npos > 0 /\ ReadSize < BaseSize))
       THEN Crash("writeToFile", m_position, ReadSize)
       ELSE /\ got' = File!Looked(m_position, Copy(npos, ReadSize))
            /\ UNCHANGED <<nodes, m_cur, m_position, m_size, m_capacity,
                           crashed>>

SetPosition(v) ==
    /\ crashed = Alive /\ v <= m_capacity
    /\ Position(nodes, v)
    /\ got' = File!Moved(<<>>) /\ UNCHANGED <<nodes, m_capacity, crashed>>

Clear ==
    /\ crashed = Alive
    /\ nodes' = <<nodes[1]>> /\ m_cur' = 1
    /\ m_position' = 0 /\ m_size' = 0 /\ m_capacity' = BaseSize
    /\ got' = File!Moved(<<>>) /\ UNCHANGED crashed

\* SocketStream::read: getWriteBuffers for up to len bytes, of which recv
\* fills some, and setPosition behind them.
Receive(len, bs) ==
    LET ns == Grown(len)
        cur == GrownCur(len)
    IN  /\ crashed = Alive /\ Len(ns) <= MaxBlocks /\ Len(bs) <= len
        /\ IF cur = Null THEN Crash("copy", m_position, len)
           ELSE /\ nodes' = Store(ns, cur, bs)
                /\ m_capacity' = m_capacity + BaseSize * Count(len)
                /\ IF bs # <<>> THEN Position(ns, m_position + Len(bs))
                   ELSE m_cur' = cur /\ UNCHANGED <<m_position, m_size>>
                /\ got' = File!Moved(<<>>) /\ UNCHANGED crashed

\* SocketStream::write: getReadBuffers, of which send takes the first n.
Send(n) ==
    /\ crashed = Alive /\ 0 < n /\ n <= ReadSize
    /\ IF m_cur = Null THEN Crash("copy", m_position, n)
       ELSE /\ got' = File!Moved(Copy(npos, n))
            /\ Position(nodes, m_position + n)
            /\ UNCHANGED <<nodes, m_capacity, crashed>>

Texts == UNION {[1..n -> Byte] : n \in 1..MaxWrite}

Next ==
    \/ \E bs \in Texts : Write(bs)
    \/ \E bs \in Texts \cup {<<>>} : Len(bs) < MaxWrite /\ WriteString(bs)
    \/ \E n \in 0..(BaseSize * MaxBlocks) :
            Read(n) \/ SetPosition(n) \/ Send(n)
    \/ \E len \in Byte : ReadString(len)
    \/ \E n, p \in 0..(BaseSize * MaxBlocks) : ReadAt(n, p)
    \/ WriteToFile \/ Clear
    \/ \E len \in 1..MaxWrite, bs \in Texts \cup {<<>>} : Receive(len, bs)

Spec == Init /\ [][Next]_vars

-----------------------------------------------------------------------------
(* Properties *)

\* The calls that may follow a null block.
MayCrash ==
    \/ crashed.size = 0
    \/ crashed.call = "writeToFile" /\ npos > 0 /\ ReadSize < BaseSize
    \/ /\ crashed.call = "readAt"
       /\ \/ crashed.at > m_size
          \/ crashed.at \div BaseSize # m_position \div BaseSize

\* m_cur is the block of m_position, and null only when m_position is the
\* capacity, however the calls came before.  A null block is followed by no
\* call but a read of no bytes there (bytearray.cc:385, an empty string at the
\* end), a writeToFile from inside a block with less than a block to read
\* (bytearray.cc:473-474) and a read at a position behind the end or of
\* another block than that of m_position (bytearray.cc:417).
CursorFollows ==
    /\ m_capacity = BaseSize * Len(nodes)
    /\ m_position <= m_size /\ m_size <= m_capacity
    /\ m_cur = Follow(nodes, 1, m_position)
    /\ crashed = Alive \/ MayCrash

\* A ByteArray is a file: whatever the blocks, what is read, received, sent or
\* exported is what was written there last (bytearray.cc:345-480, 624-652),
\* except that read(buf, size, position) is right for the positions of the
\* block of m_position only.
IsFile == File!Spec
=============================================================================
