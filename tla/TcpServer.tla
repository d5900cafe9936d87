----------------------------- MODULE TcpServer -----------------------------
(***************************************************************************)
(* TcpServer (tcp_server.cc) with the ServletDispatch of an HttpServer:    *)
(* bind(), start(), stop(), one accept loop per listening socket and start *)
(* on the accept worker, one handleClient per client on the io worker.     *)
(* start() and stop() only schedule: the loops and the closing of the      *)
(* sockets run later, in any order.  The accept() of a loop and the close  *)
(* of its socket are those of hook.cc, so that one may fall between two    *)
(* steps of the other.  m_socks has no lock in the code; here start(),     *)
(* bind() and the tasks of stop() use it one after the other.              *)
(***************************************************************************)
EXTENDS Naturals, Sequences, FiniteSets

CONSTANTS
    Addrs,          \* addresses; at most one socket is made for each
    Clients,
    Uris, Patterns, \* what requests name, what servlets are registered for
    Matches,        \* fnmatch: the pairs <<pattern, uri>> that match
    Servlets, NotFound,
    MaxStarts,      \* bound: calls of start()
    MaxAdds         \* bound: servlets registered

VARIABLES
    m_socks, m_isStop,
    sock,       \* the socket of each address: "none", "listening", "closed"
    loops,      \* where the loop of the n-th start on a socket is
    starts,     \* calls of start() that scheduled loops
    closers,    \* tasks of stop() that have not ended
    closing,    \* the socket that is between its cancelAll and its close
    late,       \* loops that registered their event in between
    aborted,    \* an assertion of addEvent() has ended the program
    dropped,    \* sockets a failed bind() forgot
    client,     \* where a client is, and how often it was handled
    m_datas, m_globs,   \* the servlets by uri, and by pattern in order
    adds, current       \* registrations; the servlet last set for a pattern

server == <<m_socks, m_isStop, sock, loops, starts, closers, closing, late,
            aborted, dropped, client>>
dispatch == <<m_datas, m_globs, adds, current>>
vars == <<server, dispatch>>

Init ==
    /\ m_socks = {} /\ m_isStop = TRUE
    /\ sock = [a \in Addrs |-> "none"]
    /\ loops = [l \in (1..MaxStarts) \X Addrs |-> "none"]
    /\ starts = 0 /\ closers = 0 /\ closing = {} /\ late = {}
    /\ aborted = FALSE /\ dropped = {}
    /\ client = [c \in Clients |-> "away"]
    /\ m_datas = <<>> /\ m_globs = <<>>
    /\ adds = 0 /\ current = [p \in Patterns |-> NotFound]

-----------------------------------------------------------------------------
(* tcp_server.cc *)

\* bind(): every address gets its socket; if one fails, all are forgotten.
Bind(as, fails) ==
    /\ as # {} /\ fails \subseteq as
    /\ \A a \in as : sock[a] = "none"
    /\ sock' = [a \in Addrs |->
                    IF a \in as \ fails THEN "listening" ELSE sock[a]]
    /\ IF fails = {} THEN m_socks' = m_socks \cup as /\ UNCHANGED dropped
       ELSE m_socks' = {} /\ dropped' = dropped \cup m_socks \cup (as \ fails)
    /\ UNCHANGED <<m_isStop, loops, starts, closers, closing, late, client,
                   dispatch>>

Start ==
    /\ m_isStop /\ starts < MaxStarts
    /\ m_isStop' = FALSE /\ starts' = starts + 1
    /\ loops' = [l \in DOMAIN loops |->
                    IF l[1] = starts + 1 /\ l[2] \in m_socks THEN "check"
                    ELSE loops[l]]
    /\ UNCHANGED <<m_socks, sock, closers, closing, late, dropped, client,
                   dispatch>>

Stop ==
    /\ closers < 2
    /\ m_isStop' = TRUE /\ closers' = closers + 1
    /\ UNCHANGED <<m_socks, sock, loops, starts, closing, late, dropped,
                   client, dispatch>>

Waiting(a) == {l \in DOMAIN loops : l[2] = a /\ loops[l] = "wait"}

\* Mutant of CancelSock: the socket is closed without a cancelAll.
CancelSockSkips(a) ==
    /\ closers > 0 /\ closing = {} /\ a \in m_socks /\ sock[a] = "listening"
    /\ closing' = {a}
    /\ UNCHANGED <<m_socks, m_isStop, sock, loops, starts, closers, late,
                   dropped, client, dispatch>>

\* The task of stop(): cancelAll of every socket, which wakes who waits...
CancelSock(a) ==
    /\ closers > 0 /\ closing = {} /\ a \in m_socks /\ sock[a] = "listening"
    /\ closing' = {a}
    /\ loops' = [l \in DOMAIN loops |->
                    IF l \in Waiting(a) THEN "accept" ELSE loops[l]]
    /\ UNCHANGED <<m_socks, m_isStop, sock, starts, closers, late, dropped,
                   client, dispatch>>
\* ...and close: the kernel forgets the socket with the events registered.
CloseSock(a) ==
    /\ a \in closing
    /\ sock' = [sock EXCEPT ![a] = "closed"] /\ closing' = {}
    /\ UNCHANGED <<m_socks, m_isStop, loops, starts, closers, late, dropped,
                   client, dispatch>>
ClearSocks ==
    /\ closers > 0 /\ closing = {} /\ \A a \in m_socks : sock[a] = "closed"
    /\ closers' = closers - 1 /\ m_socks' = {}
    /\ UNCHANGED <<m_isStop, sock, loops, starts, closing, late, dropped,
                   client, dispatch>>

\* startAccept: the condition of the loop...
Check(l) ==
    /\ loops[l] = "check"
    /\ loops' = [loops EXCEPT ![l] = IF m_isStop THEN "ended" ELSE "accept"]
    /\ UNCHANGED <<m_socks, m_isStop, sock, starts, closers, closing, late,
                   dropped, client, dispatch>>
\* ...and accept(): a client, EAGAIN, or the error of a closed socket...
Accept(l, c) ==
    /\ loops[l] = "accept" /\ sock[l[2]] = "listening"
    /\ client[c] = "away"
    /\ client' = [client EXCEPT ![c] = "accepted"]
    /\ loops' = [loops EXCEPT ![l] = "check"]
    /\ UNCHANGED <<m_socks, m_isStop, sock, starts, closers, closing, late,
                   dropped, dispatch>>
AcceptFails(l) ==
    /\ loops[l] = "accept"
    /\ loops' = [loops EXCEPT ![l] =
                    IF sock[l[2]] = "closed" THEN "check" ELSE "add"]
    /\ UNCHANGED <<m_socks, m_isStop, sock, starts, closers, closing, late,
                   dropped, client, dispatch>>
\* ...after EAGAIN addEvent, which asserts that nobody else waits, fails on a
\* closed socket, or leaves the loop to wait...
AddEvent(l) ==
    /\ loops[l] = "add" /\ Waiting(l[2]) = {}
    /\ loops' = [loops EXCEPT ![l] =
                    IF sock[l[2]] = "closed" THEN "check" ELSE "wait"]
    /\ late' = IF l[2] \in closing THEN late \cup {l} ELSE late
    /\ UNCHANGED <<m_socks, m_isStop, sock, starts, closers, closing, dropped,
                   client, dispatch>>
AddEventAborts(l) ==
    /\ loops[l] = "add" /\ Waiting(l[2]) # {}
    /\ aborted' = TRUE
    /\ UNCHANGED <<m_socks, m_isStop, sock, loops, starts, closers, closing,
                   late, dropped, client, dispatch>>
\* ...until epoll reports a client, and accept() tries again.
EventFires(l) ==
    /\ loops[l] = "wait" /\ sock[l[2]] = "listening"
    /\ loops' = [loops EXCEPT ![l] = "accept"] /\ late' = late \ {l}
    /\ UNCHANGED <<m_socks, m_isStop, sock, starts, closers, closing, dropped,
                   client, dispatch>>

-----------------------------------------------------------------------------
(* servlet.cc, under m_mutex *)

First(seq, test(_)) ==
    LET hits == {i \in DOMAIN seq : test(seq[i])}
    IN  IF hits = {} THEN 0 ELSE CHOOSE i \in hits : \A j \in hits : i <= j
Without(seq, i) ==
    IF i = 0 THEN seq
    ELSE SubSeq(seq, 1, i - 1) \o SubSeq(seq, i + 1, Len(seq))
EraseGlob(p) == Without(m_globs, First(m_globs, LAMBDA g : g[1] = p))

AddServlet(u, s) ==
    /\ adds < MaxAdds /\ adds' = adds + 1
    /\ m_datas' = [v \in DOMAIN m_datas \cup {u} |->
                        IF v = u THEN s ELSE m_datas[v]]
    /\ UNCHANGED <<server, m_globs, current>>
DelServlet(u) ==
    /\ u \in DOMAIN m_datas
    /\ m_datas' = [v \in DOMAIN m_datas \ {u} |-> m_datas[v]]
    /\ UNCHANGED <<server, m_globs, adds, current>>

\* Mutant of AddGlobServlet: the entry of the same pattern is not erased.
AddGlobServletKeepsOld(p, s) ==
    /\ adds < MaxAdds /\ adds' = adds + 1
    /\ m_globs' = Append(m_globs, <<p, s>>)
    /\ current' = [current EXCEPT ![p] = s]
    /\ UNCHANGED <<server, m_datas>>
AddGlobServlet(p, s) ==
    /\ adds < MaxAdds /\ adds' = adds + 1
    /\ m_globs' = Append(EraseGlob(p), <<p, s>>)
    /\ current' = [current EXCEPT ![p] = s]
    /\ UNCHANGED <<server, m_datas>>
DelGlobServlet(p) ==
    /\ current[p] # NotFound
    /\ m_globs' = EraseGlob(p)
    /\ current' = [current EXCEPT ![p] = NotFound]
    /\ UNCHANGED <<server, m_datas, adds>>

\* getMatchedServlet: the exact uri, the first pattern that matches, NotFound.
getMatchedServlet(u) ==
    LET i == First(m_globs, LAMBDA g : <<g[1], u>> \in Matches)
    IN  IF u \in DOMAIN m_datas THEN m_datas[u]
        ELSE IF i = 0 THEN NotFound ELSE m_globs[i][2]

\* handleClient: the servlet answers, the client is closed.
HandleClient(c, u) ==
    /\ client[c] = "accepted"
    /\ client' = [client EXCEPT ![c] = getMatchedServlet(u)]
    /\ UNCHANGED <<m_socks, m_isStop, sock, loops, starts, closers, closing,
                   late, dropped, dispatch>>

Next ==
    /\ ~aborted
    /\ \/ \E l \in DOMAIN loops : AddEventAborts(l)
       \/ /\ UNCHANGED aborted
          /\ \/ \E as, fails \in SUBSET Addrs : Bind(as, fails)
             \/ Start \/ Stop \/ ClearSocks
             \/ \E a \in Addrs : CancelSock(a) \/ CloseSock(a)
             \/ \E l \in DOMAIN loops :
                    \/ Check(l) \/ AcceptFails(l) \/ AddEvent(l)
                    \/ EventFires(l)
                    \/ \E c \in Clients : Accept(l, c)
             \/ \E u \in Uris, s \in Servlets : AddServlet(u, s)
             \/ \E u \in Uris : DelServlet(u)
             \/ \E p \in Patterns, s \in Servlets : AddGlobServlet(p, s)
             \/ \E p \in Patterns : DelGlobServlet(p)
             \/ \E c \in Clients, u \in Uris : HandleClient(c, u)

Spec == Init /\ [][Next]_vars

-----------------------------------------------------------------------------
(* Properties *)

\* A server that was stopped goes quiet: once the last task of stop() has
\* ended, every accept loop has ended or is about to be told of the closed
\* socket, so that it reads m_isStop again (tcp_server.cc:72, 97-106), however
\* often start() and stop() came before those tasks.  The code does not keep
\* two kinds of loop to this: those on sockets that a failed bind() forgot
\* (tcp_server.cc:58-61), which no stop() reaches, and those whose addEvent
\* fell between the cancelAll and the close_f of the close (hook.cc:343-347),
\* which wait on a descriptor that is gone.
StopWakesLoops ==
    m_isStop /\ closers = 0 =>
        \A l \in DOMAIN loops :
            loops[l] \in {"accept", "add", "wait"} /\ l[2] \notin dropped =>
                /\ sock[l[2]] = "closed"
                /\ loops[l] = "wait" => l \in late

\* A request is never answered by a servlet that another one has replaced or
\* that was removed, although addGlobServlet erases one entry at most and
\* getMatchedServlet takes the first that matches (servlet.cc:64-76, 116-129).
DispatchCurrent ==
    \A u \in Uris \ DOMAIN m_datas :
        LET s == getMatchedServlet(u)
        IN  IF s = NotFound
            THEN \A p \in Patterns : <<p, u>> \in Matches => current[p] = s
            ELSE \E p \in Patterns : <<p, u>> \in Matches /\ current[p] = s
=============================================================================
