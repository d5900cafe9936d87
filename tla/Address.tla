------------------------------ MODULE Address ------------------------------
(***************************************************************************)
(* The text and the arithmetic of address.cc: how Address::Lookup splits   *)
(* "node:service", how an IPv6 address is printed, and the network and     *)
(* broadcast address of a prefix.                                          *)
(*                                                                         *)
(* A text is a sequence of one-letter strings, or of groups of an IPv6     *)
(* address and colons; an IPv4 address is a number of AddrBits bits.       *)
(***************************************************************************)
EXTENDS Integers, Sequences, Powers

CONSTANTS AddrBits, Groups

Nothing == <<"null">>   \* a null service

Places(s, c) == {i \in 1..Len(s) : s[i] = c}
First(s, c) == CHOOSE i \in Places(s, c) : \A j \in Places(s, c) : i <= j

\* What Lookup hands to getaddrinfo.  Of a text with several colons and no
\* brackets the service is all from the first one, and the node the whole.
Lookup(host) ==
    LET bracketed == host # <<>> /\ host[1] = "[" /\ Places(host, "]") # {}
        end == First(host, "]")
        node6 == IF bracketed THEN SubSeq(host, 2, end - 1) ELSE <<>>
        service6 == IF bracketed /\ end < Len(host) /\ host[end + 1] = ":"
                    THEN SubSeq(host, end + 2, Len(host)) ELSE Nothing
        colons == Places(host, ":")
        colon == First(host, ":")
        single == colons = {colon}
        node4 == IF colons # {} /\ single THEN SubSeq(host, 1, colon - 1)
                 ELSE <<>>
    IN  CASE node6 # <<>> -> [node |-> node6, service |-> service6]
          [] node6 = <<>> /\ colons = {} ->
                [node |-> host, service |-> Nothing]
          [] OTHER ->
                [node |-> IF node4 # <<>> THEN node4 ELSE host,
                 service |-> SubSeq(host, IF single THEN colon + 1 ELSE colon,
                                    Len(host))]

\* A name or an address and a port, with the brackets that a colon in the
\* address calls for, is taken apart into just these (address.cc:69-93).
LookupSplits(node, port) ==
    LET inside == IF Places(node, ":") # {} THEN <<"[">> \o node \o <<"]">>
                  ELSE node
    IN  /\ Lookup(inside \o <<":">> \o port)
                = [node |-> node, service |-> port]
        /\ Lookup(inside) = [node |-> node, service |-> Nothing]

-----------------------------------------------------------------------------
(* IPv6Address::insert, without the brackets and the port *)

Colon == -1

insert(addr) ==
    LET \* the text and used_zeros after the first n groups
        os[n \in 0..Groups] ==
            IF n = 0 THEN [text |-> <<>>, used |-> FALSE]
            ELSE LET b == os[n - 1]
                     gap == n > 1 /\ addr[n - 1] = 0 /\ ~b.used
                 IN  IF addr[n] = 0 /\ ~b.used THEN b
                     ELSE [text |-> b.text
                                \o (IF gap THEN <<Colon>> ELSE <<>>)
                                \o (IF n > 1 THEN <<Colon>> ELSE <<>>)
                                \o <<addr[n]>>,
                           used |-> b.used \/ gap]
        all == os[Groups]
    IN  IF ~all.used /\ addr[Groups] = 0 THEN all.text \o <<Colon, Colon>>
        ELSE all.text

\* The groups of a text that alternates: at every other place.
Split(text) == [k \in 1..((Len(text) + 1) \div 2) |-> text[2 * k - 1]]
Double(text) ==
    {i \in 1..(Len(text) - 1) : text[i] = Colon /\ text[i + 1] = Colon}
Alternates(text) ==
    /\ text = <<>> \/ Len(text) % 2 = 1
    /\ \A i \in 1..Len(text) : text[i] = Colon <=> i % 2 = 0

\* The text of an IPv6 address is read back, by the rules for a double colon,
\* as that address, wherever its zeros are (address.cc:393-417).
TextIsAddress(addr) ==
    LET text == insert(addr)
    IN  \/ /\ Double(text) = {} /\ Alternates(text)
           /\ Split(text) = addr
        \/ \E i \in Double(text) :
            LET left == SubSeq(text, 1, i - 1)
                right == SubSeq(text, i + 2, Len(text))
                zeros == Groups - Len(Split(left)) - Len(Split(right))
            IN  /\ Double(text) = {i} /\ zeros >= 1
                /\ Alternates(left) /\ Alternates(right)
                /\ Split(left) \o [k \in 1..zeros |-> 0] \o Split(right) = addr

-----------------------------------------------------------------------------
(* IPv4: a mask is all ones below the prefix *)

\* The code shifts an int: here as the builds do, for 1 bit too, where the
\* int overflows, but not for 0 bits, where the shift is as wide as the int
\* and gives 0 or 1 after the build, and the mask all ones or none.
CreateMask(bits) == Power(2, AddrBits - bits) - 1
\* a & ~mask and a | mask for a mask of this form.
networkAddress(a, prefix_len) == a - (a % (CreateMask(prefix_len) + 1))
broadcastAddress(a, prefix_len) ==
    networkAddress(a, prefix_len) + CreateMask(prefix_len)
subnetMask(prefix_len) == Power(2, AddrBits) - 1 - CreateMask(prefix_len)

\* The addresses of a network are those from the network address to the
\* broadcast address: they share both, and the subnet mask is the network
\* address of all ones (address.cc:308-337).  This is said of prefixes
\* from 1 on: networkAddress(0) and broadcastAddress(0), which the code
\* accepts, are right in some builds only.
PrefixSound(a, prefix_len) ==
    LET low == networkAddress(a, prefix_len)
        high == broadcastAddress(a, prefix_len)
    IN  /\ \A b \in 0..(Power(2, AddrBits) - 1) :
                b \in low..high <=> networkAddress(b, prefix_len) = low
        /\ subnetMask(prefix_len)
                = networkAddress(Power(2, AddrBits) - 1, prefix_len)
=============================================================================
