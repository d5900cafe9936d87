------------------------------- MODULE MCHttp -------------------------------
(***************************************************************************)
(* The http layer: the connection pool of a client, the TcpServer with its *)
(* servlets, and the parser that reads a connection on both sides.  They   *)
(* share no state, so each behaviour is one of the part it begins with.    *)
(* The servlets of the server meet its sockets only where a client is      *)
(* handled: one part registers none, the other starts once and never stops.*)
(***************************************************************************)
EXTENDS HttpConnectionPool

CONSTANTS
    MaxMessages, MaxHeaders, MaxUrl, MaxBody, UMax,
    Addrs, Clients, Uris, Patterns, Matches, Servlets, NotFound, MaxStarts,
    MaxAdds,
    u1, p1, p2

\* ServletDispatch makes the servlet of m_default itself (servlet.cc:22): it is
\* none of those that are registered.
ASSUME ServletAssumption == NotFound \notin Servlets
\* ULLONG_MAX, scaled down: room for two hexadecimal digits (http_parser.c:1969).
ASSUME LengthAssumption == UMax \in Nat /\ UMax >= 16

VARIABLES
    part,
    hp, data, mark, open, sent,
    m_socks, m_isStop, sock, loops, starts, closers, closing, late, aborted,
    dropped, client, m_datas, m_globs, adds, current

parserVars == <<hp, data, mark, open, sent>>
serverVars == <<m_socks, m_isStop, sock, loops, starts, closers, closing,
                late, aborted, dropped, client, m_datas, m_globs, adds,
                current>>

Parser == INSTANCE HttpParser
Server == INSTANCE TcpServer

MCUris == {u1}
MCPatterns == {p1, p2}
\* Both patterns match the uri.
MCMatches == MCPatterns \X MCUris

MCInit ==
    /\ part \in {"pool", "parser", "server", "servlets"}
    /\ Init /\ Parser!Init /\ Server!Init
MCNext ==
    /\ UNCHANGED part
    /\ \/ part = "pool" /\ Next /\ UNCHANGED <<parserVars, serverVars>>
       \/ part = "parser" /\ Parser!Next /\ UNCHANGED <<vars, serverVars>>
       \/ /\ part = "server" /\ Server!Next /\ adds' = 0
          /\ UNCHANGED <<vars, parserVars>>
       \/ /\ part = "servlets" /\ Server!Next /\ starts' <= 1 /\ closers' = 0
          /\ UNCHANGED <<vars, parserVars>>
MCSpec == MCInit /\ [][MCNext]_<<part, vars, parserVars, serverVars>>

\* The body of a message is what the peer sent, however the reads cut it.
BodyWhole == Parser!BodyWhole
\* Headers that no read cut are stored as sent, the last value of a name.
HeadersWhole == Parser!HeadersWhole
\* After stop() no accept loop is left in accept(), but for one that came
\* between the cancelAll and the close_f of its socket.
StopWakesLoops == Server!StopWakesLoops
\* A replaced or removed servlet answers nobody.
DispatchCurrent == Server!DispatchCurrent
=============================================================================
