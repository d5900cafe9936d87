------------------------------- MODULE Socket -------------------------------
(***************************************************************************)
(* Socket (socket.cc): objects that own a descriptor, open it lazily, lose *)
(* it and open another.  The kernel gives out the lowest free descriptor,  *)
(* so that a number that was closed soon belongs to somebody else.         *)
(*                                                                         *)
(* The address of a descriptor is the number of the socket call that       *)
(* opened it; getsockname and getpeername never fail on an open one.       *)
(***************************************************************************)
EXTENDS Integers

CONSTANTS Sock, Fd,
          MaxOpens      \* bound: descriptors ever opened

VARIABLES
    sock,       \* the objects
    open,       \* per descriptor: its address, or Closed
    listening,  \* the descriptors on which listen has been called
    opens,      \* descriptors opened so far
    leaked      \* accepted, and then refused by init

vars == <<sock, open, listening, opens, leaked>>

Closed == 0
Null == 0
Given == -1     \* an address that the caller has passed

\* again: the last connect kept a local address of an earlier descriptor.
NoSocket == [live |-> FALSE, m_sock |-> -1, m_isConnected |-> FALSE,
             m_localAddress |-> Null, m_remoteAddress |-> Null, again |-> FALSE]

Init ==
    /\ sock = [s \in Sock |-> NoSocket]
    /\ open = [fd \in Fd |-> Closed]
    /\ listening = {} /\ opens = 0 /\ leaked = {}

-----------------------------------------------------------------------------
Live(s) == sock[s].live
isValid(s) == sock[s].m_sock # -1
Free == {fd \in Fd : open[fd] = Closed}
Lowest == CHOOSE fd \in Free : \A k \in Free : fd <= k
getLocalAddress(local, fd) == IF local # Null THEN local ELSE open'[fd]

\* socket() or accept() gives a descriptor, or none when there is none left.
Opens(fd) ==
    \/ Free = {} /\ fd = -1 /\ UNCHANGED <<open, opens>>
    \/ /\ Free # {} /\ opens < MaxOpens /\ fd = Lowest
       /\ opens' = opens + 1 /\ open' = [open EXCEPT ![fd] = opens']

\* newSock, called where there is no valid descriptor yet.
newSock(s, fd) ==
    IF isValid(s) THEN fd = sock[s].m_sock /\ UNCHANGED <<open, opens>>
    ELSE Opens(fd)

\* Mutant of Shut: m_sock is kept after the close.
ShutKeepsFd(s) == [sock[s] EXCEPT !.m_isConnected = FALSE]

\* close(): what becomes of the object.
Shut(s) == [sock[s] EXCEPT !.m_isConnected = FALSE, !.m_sock = -1]

\* ... and of the descriptor.
Closes(s) ==
    /\ open' = [fd \in Fd |-> IF fd = sock[s].m_sock THEN Closed ELSE open[fd]]
    /\ listening' = listening \ {sock[s].m_sock}
    /\ UNCHANGED <<opens, leaked>>

-----------------------------------------------------------------------------
CreateTCP(s) ==
    /\ ~Live(s)
    /\ sock' = [sock EXCEPT ![s] = [NoSocket EXCEPT !.live = TRUE]]
    /\ UNCHANGED <<open, listening, opens, leaked>>

\* Connected even when there was no descriptor for it.
CreateUDP(s) ==
    /\ ~Live(s)
    /\ \E fd \in Fd \cup {-1} :
            /\ Opens(fd)
            /\ sock' = [sock EXCEPT ![s] = [NoSocket EXCEPT
                    !.live = TRUE, !.m_sock = fd, !.m_isConnected = TRUE]]
    /\ UNCHANGED <<listening, leaked>>

\* Whether ::bind succeeds or not, the address is the one that was passed;
\* the socket that probes a Unix address is gone when bind returns.
bind(s) ==
    /\ Live(s)
    /\ \E fd \in Fd \cup {-1} :
            /\ newSock(s, fd)
            /\ sock' = [sock EXCEPT ![s].m_sock = fd,
                                    ![s].m_localAddress = Given]
    /\ UNCHANGED <<listening, leaked>>

\* What a connect with m_localAddress = local leaves of the object.
Aimed(s, local) ==
    [sock[s] EXCEPT !.m_localAddress = local, !.m_remoteAddress = Given,
                    !.again = local # Null /\ (@ \/ ~isValid(s))]

\* There is no descriptor or the families differ; ::connect fails and the
\* socket, an older one or just opened, is closed; or it succeeds.
Connect(s, local) ==
    /\ Live(s)
    /\ \/ \E fd \in Fd \cup {-1} :
            /\ newSock(s, fd)
            /\ sock' = [sock EXCEPT ![s] = [Aimed(s, local) EXCEPT !.m_sock = fd]]
            /\ UNCHANGED <<listening, leaked>>
       \/ /\ sock' = [sock EXCEPT ![s] = [Shut(s) EXCEPT
                !.m_localAddress = local, !.m_remoteAddress = Given]]
          /\ Closes(s)
       \/ \E fd \in Fd :
            /\ newSock(s, fd)
            /\ sock' = [sock EXCEPT ![s] = [Aimed(s, local) EXCEPT
                    !.m_sock = fd, !.m_isConnected = TRUE,
                    !.m_localAddress = getLocalAddress(local, fd)]]
            /\ UNCHANGED <<listening, leaked>>

connect(s) == Connect(s, sock[s].m_localAddress)
reconnect(s) == sock[s].m_remoteAddress # Null /\ Connect(s, Null)

listen(s) ==
    /\ Live(s) /\ isValid(s)
    /\ listening' = listening \cup {sock[s].m_sock}
    /\ UNCHANGED <<sock, open, opens, leaked>>

\* init() takes only a descriptor that the hooked accept has registered with
\* FdManager; what it refuses is closed by nobody.
accept(s, n, hooked) ==
    /\ Live(s) /\ sock[s].m_sock \in listening /\ ~Live(n)
    /\ \E fd \in Fd :
        /\ Opens(fd)
        /\ IF hooked
           THEN /\ sock' = [sock EXCEPT ![n] = [NoSocket EXCEPT
                        !.live = TRUE, !.m_sock = fd, !.m_isConnected = TRUE,
                        !.m_localAddress = opens', !.m_remoteAddress = opens']]
                /\ UNCHANGED leaked
           ELSE leaked' = leaked \cup {fd} /\ UNCHANGED sock
    /\ UNCHANGED listening

\* close(), and ~Socket() when nobody holds the object any more.
close(s, last) ==
    /\ Live(s)
    /\ sock' = [sock EXCEPT ![s] = IF last THEN NoSocket ELSE Shut(s)]
    /\ Closes(s)

Next ==
    \E s \in Sock :
        \/ CreateTCP(s) \/ CreateUDP(s) \/ bind(s) \/ connect(s)
        \/ reconnect(s) \/ listen(s)
        \/ \E n \in Sock, hooked \in BOOLEAN : accept(s, n, hooked)
        \/ \E last \in BOOLEAN : close(s, last)

Spec == Init /\ [][Next]_vars

-----------------------------------------------------------------------------
\* Every open descriptor belongs to exactly one Socket, but for those that
\* accept has leaked, and every Socket with a descriptor has an open one:
\* whatever is closed and opened, none is lost, closed twice or shared
\* (socket.cc:122-254).  The local address of a connected Socket is that of
\* its present descriptor, unless it was passed to bind or kept by a connect
\* after a close, which unlike reconnect does not forget it.
FdsOwned ==
    /\ \A fd \in Fd : open[fd] # Closed =>
            \/ fd \in leaked /\ \A s \in Sock : sock[s].m_sock # fd
            \/ fd \notin leaked /\ \E s \in Sock :
                    \A r \in Sock : sock[r].m_sock = fd <=> r = s
    /\ \A s \in Sock : isValid(s) =>
            /\ open[sock[s].m_sock] # Closed
            /\ sock[s].m_isConnected /\ ~sock[s].again =>
                    sock[s].m_localAddress \in
                        {Null, Given, open[sock[s].m_sock]}
=============================================================================
