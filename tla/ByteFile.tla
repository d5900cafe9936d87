------------------------------ MODULE ByteFile ------------------------------
(***************************************************************************)
(* What a ByteArray promises: a file of bytes with a position.  Blocks and *)
(* capacity are its own affair, but for reads aside from the position.     *)
(***************************************************************************)
EXTENDS Integers, Sequences

CONSTANTS
    Byte, Junk,     \* byte values; what memory nobody wrote holds
    BaseSize,       \* bytes of a block
    MaxWrite        \* bound: bytes of one write

VARIABLES
    file, pos,      \* the bytes up to m_size, and m_position
    got             \* what the last call returned, with the position it looked
                    \* at, or NoPos if it was one that moves the position

vars == <<file, pos, got>>

Longer(m, n) == IF m > n THEN m ELSE n
Unread == SubSeq(file, pos + 1, Len(file))

\* Answers of the calls that move the position, and of those that only look.
NoPos == -1
Moved(bs) == [at |-> NoPos, bytes |-> bs]
Looked(p, bs) == [at |-> p, bytes |-> bs]

Init == file = <<>> /\ pos = 0 /\ got = Moved(<<>>)

Write(bs) ==
    /\ file' = [i \in 1..Longer(Len(file), pos + Len(bs)) |->
                    IF i > pos /\ i <= pos + Len(bs) THEN bs[i - pos]
                    ELSE file[i]]
    /\ pos' = pos + Len(bs) /\ got' = Moved(<<>>)

Read(n) ==
    /\ n <= Len(Unread)
    /\ got' = Moved(SubSeq(Unread, 1, n))
    /\ pos' = pos + n
    /\ UNCHANGED file

\* A string after its length; when it is cut short, only the length is read.
ReadString(n) ==
    /\ Unread # <<>> /\ Unread[1] \in {n, Junk}
    /\ IF n < Len(Unread)
       THEN got' = Moved(SubSeq(Unread, 2, n + 1)) /\ pos' = pos + n + 1
       ELSE got' = Moved(<<>>) /\ pos' = pos + 1
    /\ UNCHANGED file

\* Past the end the file grows by whatever the memory holds.
Seek ==
    /\ got' = Moved(<<>>)
    /\ Len(file') = Longer(Len(file), pos')
    /\ SubSeq(file', 1, Len(file)) = file

\* toString(), writeToFile() and read() at a position p: what is
\* there, if p is in the block of the position.
Peek ==
    /\ UNCHANGED <<file, pos>>
    /\ got'.at \in Nat
    /\ LET p == got'.at
           n == Len(got'.bytes)
       IN  p \div BaseSize = pos \div BaseSize /\ p <= Len(file) =>
                /\ p + n <= Len(file)
                /\ got'.bytes = SubSeq(file, p + 1, p + n)

Clear == file' = <<>> /\ pos' = 0 /\ got' = Moved(<<>>)

Next ==
    \/ \E n \in 1..MaxWrite : \E bs \in [1..n -> Byte] : Write(bs)
    \/ \E n \in 0..Len(Unread) : Read(n)
    \/ \E n \in Byte : ReadString(n)
    \/ Seek \/ Peek \/ Clear

Spec == Init /\ [][Next]_vars
=============================================================================
