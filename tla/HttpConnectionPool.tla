------------------------- MODULE HttpConnectionPool -------------------------
(***************************************************************************)
(* HttpConnectionPool of http_connection.cc: threads take a connection     *)
(* with getConnection(), send a request, wait for the response with the    *)
(* receive timeout set, and give the connection back through ReleasePtr,   *)
(* the deleter of the shared pointer.  m_createTime is never assigned, so  *)
(* the two tests of a connection's age compare m_maxAliveTime with the     *)
(* time of day.  The server answers the requests of a connection in turn.  *)
(***************************************************************************)
EXTENDS Integers, Sequences, FiniteSets

CONSTANTS
    Callers,        \* threads that call doRequest
    Conns,          \* the HttpConnection objects ever made
    None,           \* the null pointer
    m_maxAliveTime, Now,    \* milliseconds; Now is GetCurrentMS()
    m_maxRequest,
    MaxCalls        \* bound: requests of one caller

ASSUME PoolAssumption ==
    /\ None \notin Conns
    /\ m_maxAliveTime \in Nat /\ Now \in Nat /\ m_maxRequest \in Nat

VARIABLES
    m_conns, m_total,   \* the pool
    m_request,          \* requests of each connection
    conn,               \* "unmade", "connected", "closed" or "deleted"
    wire,               \* the callers whose answers will come, in order
    pc, hold,           \* where a caller is in doRequest, its connection
    invalid,            \* invalid_conns of getConnection()
    calls, answer       \* requests made; whose answer was received last

vars == <<m_conns, m_total, m_request, conn, wire, pc, hold, invalid, calls,
          answer>>

m_createTime == 0

Init ==
    /\ m_conns = <<>> /\ m_total = 0
    /\ m_request = [c \in Conns |-> 0]
    /\ conn = [c \in Conns |-> "unmade"]
    /\ wire = [c \in Conns |-> <<>>]
    /\ pc = [t \in Callers |-> "idle"]
    /\ hold = [t \in Callers |-> None]
    /\ invalid = [t \in Callers |-> {}]
    /\ calls = [t \in Callers |-> 0]
    /\ answer = [t \in Callers |-> None]

At(t, p) == pc[t] = p
Goto(t, p) == pc' = [pc EXCEPT ![t] = p]

-----------------------------------------------------------------------------
\* The loop of getConnection() under the lock: connections that are closed or
\* fail the test of age are set aside, the first other one is taken.
Usable(c) == conn[c] = "connected" /\ ~(m_createTime + m_maxAliveTime > Now)

TakeConn(t) ==
    /\ At(t, "idle") /\ calls[t] < MaxCalls
    /\ calls' = [calls EXCEPT ![t] = @ + 1]
    /\ LET good == {i \in DOMAIN m_conns : Usable(m_conns[i])}
           n == IF good = {} THEN Len(m_conns) + 1
                ELSE CHOOSE i \in good : \A j \in good : i <= j
       IN  /\ invalid' = [invalid EXCEPT
                            ![t] = {m_conns[i] : i \in 1..(n - 1)}]
           /\ hold' = [hold EXCEPT
                            ![t] = IF good = {} THEN None ELSE m_conns[n]]
           /\ m_conns' = SubSeq(m_conns, n + 1, Len(m_conns))
    /\ Goto(t, "drop")
    /\ UNCHANGED <<m_total, m_request, conn, wire, answer>>

\* After the lock: the invalid ones are deleted and leave the total.
DropInvalid(t) ==
    /\ At(t, "drop")
    /\ conn' = [c \in Conns |-> IF c \in invalid[t] THEN "deleted" ELSE conn[c]]
    /\ m_total' = m_total - Cardinality(invalid[t])
    /\ invalid' = [invalid EXCEPT ![t] = {}]
    /\ Goto(t, IF hold[t] = None THEN "connect" ELSE "send")
    /\ UNCHANGED <<m_conns, m_request, wire, hold, calls, answer>>

\* A new connection; the address, the socket or the connect may fail.
Connect(t, c) ==
    /\ At(t, "connect") /\ conn[c] = "unmade"
    /\ conn' = [conn EXCEPT ![c] = "connected"]
    /\ hold' = [hold EXCEPT ![t] = c]
    /\ m_total' = m_total + 1
    /\ Goto(t, "send")
    /\ UNCHANGED <<m_conns, m_request, wire, invalid, calls, answer>>
ConnectFails(t) ==
    /\ At(t, "connect")
    /\ Goto(t, "idle")
    /\ UNCHANGED <<m_conns, m_total, m_request, conn, wire, hold, invalid,
                   calls, answer>>

-----------------------------------------------------------------------------
\* doRequest: setRecvTimeout, sendRequest, recvResponse.
Send(t) ==
    /\ At(t, "send")
    /\ wire' = [wire EXCEPT ![hold[t]] = Append(@, t)]
    /\ answer' = [answer EXCEPT ![t] = None]
    /\ Goto(t, "recv")
    /\ UNCHANGED <<m_conns, m_total, m_request, conn, hold, invalid, calls>>
\* The peer has gone: send() fails, the socket still counts as connected.
SendFails(t) ==
    /\ At(t, "send") /\ wire[hold[t]] = <<>>
    /\ Goto(t, "release")
    /\ UNCHANGED <<m_conns, m_total, m_request, conn, wire, hold, invalid,
                   calls, answer>>

Recv(t) ==
    /\ At(t, "recv")
    /\ answer' = [answer EXCEPT ![t] = Head(wire[hold[t]])]
    /\ wire' = [wire EXCEPT ![hold[t]] = Tail(@)]
    /\ Goto(t, "release")
    /\ UNCHANGED <<m_conns, m_total, m_request, conn, hold, invalid, calls>>

\* Mutant of RecvFails: a timeout leaves the connection open.
RecvFailsKeepsOpen(t) ==
    /\ At(t, "recv")
    /\ Goto(t, "release")
    /\ UNCHANGED <<m_conns, m_total, m_request, conn, wire, hold, invalid,
                   calls, answer>>

\* The timeout, the end of the stream or a response that does not parse:
\* recvResponse() closes the connection.
RecvFails(t) ==
    /\ At(t, "recv")
    /\ conn' = [conn EXCEPT ![hold[t]] = "closed"]
    /\ Goto(t, "release")
    /\ UNCHANGED <<m_conns, m_total, m_request, wire, hold, invalid, calls,
                   answer>>

\* Mutant of ReleasePtr: a connection that is deleted stays in the total.
ReleasePtrKeepsTotal(t) ==
    /\ At(t, "release")
    /\ IF conn[hold[t]] # "connected"
       THEN conn' = [conn EXCEPT ![hold[t]] = "deleted"] /\ UNCHANGED m_conns
       ELSE m_conns' = Append(m_conns, hold[t]) /\ UNCHANGED conn
    /\ hold' = [hold EXCEPT ![t] = None]
    /\ Goto(t, "idle")
    /\ UNCHANGED <<m_total, m_request, wire, invalid, calls, answer>>

ReleasePtr(t) ==
    /\ At(t, "release")
    /\ LET c == hold[t]
       IN  /\ m_request' = [m_request EXCEPT ![c] = @ + 1]
           /\ IF \/ conn[c] # "connected"
                 \/ m_createTime + m_maxAliveTime >= Now
                 \/ m_request'[c] >= m_maxRequest
              THEN /\ conn' = [conn EXCEPT ![c] = "deleted"]
                   /\ m_total' = m_total - 1
                   /\ UNCHANGED m_conns
              ELSE /\ m_conns' = Append(m_conns, c)
                   /\ UNCHANGED <<conn, m_total>>
    /\ hold' = [hold EXCEPT ![t] = None]
    /\ Goto(t, "idle")
    /\ UNCHANGED <<wire, invalid, calls, answer>>

Next == \E t \in Callers :
    \/ TakeConn(t) \/ DropInvalid(t) \/ ConnectFails(t)
    \/ \E c \in Conns : Connect(t, c)
    \/ Send(t) \/ SendFails(t) \/ Recv(t) \/ RecvFails(t) \/ ReleasePtr(t)

Spec == Init /\ [][Next]_vars

-----------------------------------------------------------------------------
(* Properties *)

\* A caller is given the answer to its own request: a connection with an
\* answer outstanding never goes back to the pool, because whatever makes
\* recvResponse() give up also closes the connection (http_connection.cc:
\* 43-62), and no two callers hold the same one.
AnswersMatch == \A t \in Callers : answer[t] \in {t, None}

\* m_total counts the connections that exist: pooled, held by a caller or set
\* aside by one that has not yet deleted them (http_connection.cc:304-308,
\* 328, 341).
Pooled == {m_conns[i] : i \in DOMAIN m_conns}
TotalExact ==
    /\ m_total = Cardinality({c \in Conns : conn[c] \in {"connected", "closed"}})
    /\ {c \in Conns : conn[c] \in {"connected", "closed"}}
         = Pooled \cup ({hold[t] : t \in Callers} \ {None})
               \cup UNION {invalid[t] : t \in Callers}
=============================================================================
