------------------------------- MODULE Codec -------------------------------
(***************************************************************************)
(* The encodings of bytearray.cc (variable length integers, zigzag, fixed  *)
(* size integers in either byte order) and the %-encoding of util.cpp.     *)
(*                                                                         *)
(* A word has WordBits bits, a byte one bit more than the GroupBits that a *)
(* variable length integer puts in it: 32 or 64, and 7.                    *)
(***************************************************************************)
EXTENDS Integers, Sequences, Powers

CONSTANTS WordBits, GroupBits

Word == Power(2, WordBits)
Group == Power(2, GroupBits)
\* The bytes of uint8_t tmp[5] and tmp[10].
MaxGroups == (WordBits + GroupBits - 1) \div GroupBits

Least(S) == CHOOSE n \in S : \A m \in S : n <= m
Sum(f(_), n) ==
    LET s[i \in 0..n] == IF i = 0 THEN 0 ELSE s[i - 1] + f(i) IN s[n]

\* writeUint32, writeUint64: groups from the lowest, all but the last marked.
writeUint(v) ==
    LET n == Least({m \in 1..WordBits : v < Power(Group, m)})
    IN  [i \in 1..n |-> ((v \div Power(Group, i - 1)) % Group)
                            + (IF i < n THEN Group ELSE 0)]

\* Mutant of readUint: the byte that ends the number is not read.
readUintStopsShort(bs) ==
    LET n == Least({i \in 1..MaxGroups : i = MaxGroups \/ bs[i] < Group})
        group(i) == (bs[i] % Group) * Power(Group, i - 1)
    IN  [value |-> Sum(group, n - 1) % Word, used |-> n]

\* readUint32, readUint64: to a byte without the mark or the last that fits.
readUint(bs) ==
    LET n == Least({i \in 1..MaxGroups : i = MaxGroups \/ bs[i] < Group})
        group(i) == (bs[i] % Group) * Power(Group, i - 1)
    IN  [value |-> Sum(group, n) % Word, used |-> n]

EncodeZigzag(v) == IF v < 0 THEN ((-v) * 2 - 1) % Word ELSE v * 2
DecodeZigzag(u) == IF u % 2 = 0 THEN u \div 2 ELSE -(u \div 2) - 1

\* writeFint*, readFint*: the bytes of the word, swapped for the other order.
ByteSize == 2 * Group
WordBytes == WordBits \div (GroupBits + 1)
writeFint(u, little) ==
    [i \in 1..WordBytes |->
        (u \div Power(ByteSize, IF little THEN i - 1 ELSE WordBytes - i))
            % ByteSize]
readFint(bs, little) ==
    LET part(i) == bs[IF little THEN i ELSE WordBytes + 1 - i]
                       * Power(ByteSize, i - 1)
    IN  Sum(part, WordBytes)

\* Every signed word survives zigzag and the variable length encoding, in no
\* more bytes than the buffer of the writer has and whatever follows, and the
\* fixed encoding in both byte orders (bytearray.cc:64-166, 207-284).
NumberRoundTrip(x) ==
    LET u == EncodeZigzag(x)
        bs == writeUint(u)
    IN  /\ DecodeZigzag(u) = x /\ u \in 0..(Word - 1)
        /\ Len(bs) <= MaxGroups
        /\ \A after \in {0, Group, ByteSize - 1} :
                readUint(bs \o [i \in 1..MaxGroups |-> after])
                    = [value |-> u, used |-> Len(bs)]
        /\ \A little \in BOOLEAN : readFint(writeFint(u, little), little) = u

-----------------------------------------------------------------------------
(* util.cpp; characters by their codes *)

SPACE == 32
PERCENT == 37
PLUS == 43
Unreserved ==
    {45, 46, 61, 95, 126} \cup (48..57) \cup (65..90) \cup (97..122)
hexdigits(d) == IF d < 10 THEN 48 + d ELSE 55 + d
isxdigit(c) == c \in (48..57) \cup (65..70) \cup (97..102)
xdigit_chars(c) ==
    IF c <= 57 THEN c - 48 ELSE IF c <= 70 THEN c - 55 ELSE c - 87

UrlEncode(str, space_as_plus) ==
    LET code(c) ==
            CASE c \in Unreserved -> <<c>>
              [] c = SPACE /\ space_as_plus -> <<PLUS>>
              [] OTHER -> <<PERCENT, hexdigits(c \div 16), hexdigits(c % 16)>>
        ss[i \in 0..Len(str)] ==
            IF i = 0 THEN <<>> ELSE ss[i - 1] \o code(str[i])
    IN  ss[Len(str)]

UrlDecode(str, space_as_plus) ==
    LET isHex(i) == str[i] = PERCENT /\ i + 2 <= Len(str)
                        /\ isxdigit(str[i + 1]) /\ isxdigit(str[i + 2])
        ss[n \in 0..Len(str)] ==    \* the last n characters decoded
            LET i == Len(str) + 1 - n
            IN  CASE n = 0 -> <<>>
                  [] n > 0 /\ str[i] = PLUS /\ space_as_plus ->
                        <<SPACE>> \o ss[n - 1]
                  [] n > 0 /\ isHex(i) ->
                        <<16 * xdigit_chars(str[i + 1])
                            + xdigit_chars(str[i + 2])>> \o ss[n - 3]
                  [] OTHER -> <<str[i]>> \o ss[n - 1]
    IN  ss[Len(str)]

\* Any text survives UrlEncode and UrlDecode, signs that the encoding itself
\* uses included (util.cpp:442-505).
TextRoundTrip(str) ==
    \A plus \in BOOLEAN : UrlDecode(UrlEncode(str, plus), plus) = str
=============================================================================
