----------------------------- MODULE HttpParser -----------------------------
(***************************************************************************)
(* One HTTP connection read through http_parser.c: the parser's states,    *)
(* the callbacks of http_parser.cc that fill the HttpRequest or            *)
(* HttpResponse, and the loops of HttpSession::recvRequest,                *)
(* HttpConnection::recvResponse and HttpServer::handleClient around them.  *)
(*                                                                         *)
(* The peer sends pieces: a piece of a URL, of a header's name, of its     *)
(* value, of the body.  The network may end a read after any piece; the    *)
(* parser then hands the callback the part it has, and hands it the rest   *)
(* when the next read has come.  Runs of characters that the parser only   *)
(* checks (the method, "HTTP/1.1", CR LF) are one piece.                   *)
(***************************************************************************)
EXTENDS Url, FiniteSets

CONSTANTS
    MaxMessages,    \* messages the peer sends
    MaxHeaders,     \* header lines of one message
    MaxUrl,         \* characters of a URL
    MaxBody,        \* body bytes the peer sends
    UMax            \* ULLONG_MAX, a Nat >= 16: also content_length when unset

Connection == <<"Conn", "ection">>
ContentLength == <<"Content", "-Length">>
TransferEncoding == <<"Transfer", "-Encoding">>
UpgradeHeader == <<"Up", "grade">>
Other == <<"X-", "Name">>
HeaderNames == {Connection, ContentLength, TransferEncoding, UpgradeHeader,
                Other}
\* The values the peer writes for each header: pieces, or digits.
ValuesOf(n) ==
    CASE n = Connection -> {<<"clo", "se">>, <<"keep-", "alive">>,
                            <<"upgr", "ade">>}
      [] n = ContentLength -> {<<>>, <<"x">>, <<"0">>, <<"2">>, <<"2", "2">>}
      [] n = TransferEncoding -> {<<"chun", "ked">>}
      [] n = UpgradeHeader -> {<<"h2c">>}
      [] OTHER -> {<<>>, <<"v", "w">>}

VARIABLES
    hp,      \* the http_parser: state, header_state, flags, content_length ...
    data,      \* the HttpRequest or HttpResponse being filled, and m_field
    mark,   \* the field being read and the part of it in this read
    open,   \* the connection
    sent    \* what the peer sent since a request was last taken

vars == <<hp, data, mark, open, sent>>

NoMark == [of |-> "none", text |-> <<>>]
NewParser(t) ==
    [type |-> t, state |-> "s_start", flags |-> {}, content_length |-> UMax,
     method |-> "GET", status |-> 200, minor |-> 1, upgrade |-> FALSE,
     header |-> <<>>, value |-> <<>>, rest |-> <<>>]
NewData == [path |-> <<"/">>, headers |-> <<>>, body |-> <<>>, field |-> <<>>,
            finished |-> FALSE, close |-> TRUE]
NewSent == [messages |-> 0, lines |-> <<>>, url |-> <<>>, body |-> <<>>,
            announced |-> 0, cut |-> FALSE, folded |-> FALSE]

Init ==
    /\ \E t \in {"HTTP_REQUEST", "HTTP_RESPONSE"} : hp = NewParser(t)
    /\ data = NewData /\ mark = NoMark /\ open = TRUE /\ sent = NewSent

At(states) == open /\ hp.state \in states
\* The parser and what it has parsed are dropped.
Fresh == hp' = NewParser(hp.type) /\ data' = NewData /\ mark' = NoMark /\ sent' = NewSent
\* SET_ERRNO: execute() ends there, hasError() makes the session close.
Fail == open' = FALSE /\ Fresh

-----------------------------------------------------------------------------
(* The callbacks of http_parser.cc *)

\* The URL is parsed again from the part that this callback was given.
on_url(text) ==
    [data EXCEPT !.path = LET u == http_parser_parse_url(text)
                       IN  IF u.ok /\ u.path # <<>> THEN u.path ELSE @]
on_header_field(text) == [data EXCEPT !.field = text]
on_header_value(text) ==
    [data EXCEPT !.headers = [n \in DOMAIN @ \cup {data.field} |->
                              IF n = data.field THEN text ELSE @[n]]]
on_body(text) == [data EXCEPT !.body = @ \o text]

\* CALLBACK_DATA: the part since the mark, which is cleared.
Deliver(m) ==
    CASE m.of = "url" -> on_url(m.text)
      [] m.of = "header_field" -> on_header_field(m.text)
      [] m.of = "header_value" -> on_header_value(m.text)
      [] m.of = "body" -> on_body(m.text)
      [] OTHER -> data
Refused(m) == m.of = "url" /\ ~http_parser_parse_url(m.text).ok

MARK(f, piece) == mark' = [of |-> f, text |-> <<piece>>]
MARKMORE(f, piece) == mark' = [of |-> f, text |-> Append(mark.text, piece)]

-----------------------------------------------------------------------------
(* The start line *)

\* s_start_req: CR LF before it is skipped, another character is an error.
StartRequest(m) ==
    /\ At({"s_start"}) /\ hp.type = "HTTP_REQUEST"
    /\ sent.messages < MaxMessages
    /\ hp' = [hp EXCEPT !.state = "s_req_spaces_before_url", !.flags = {},
                      !.content_length = UMax, !.method = m]
    /\ sent' = [sent EXCEPT !.messages = @ + 1, !.url = <<>>]
    /\ UNCHANGED <<data, mark, open>>

UrlStates == {"s_req_server", "s_req_path", "s_req_query_string_start",
              "s_req_query_string"}

\* s_req_spaces_before_url and the states of parse_url_char.
UrlPiece(ch) ==
    /\ At({"s_req_spaces_before_url"} \cup UrlStates)
    /\ Len(sent.url) < MaxUrl
    /\ LET first == hp.state = "s_req_spaces_before_url"
           s == parse_url_char(IF first /\ hp.method = "CONNECT"
                               THEN "s_req_server_start" ELSE hp.state, ch)
       IN  /\ s # Dead
           /\ hp' = [hp EXCEPT !.state = s]
    /\ IF hp.state = "s_req_spaces_before_url"
       THEN MARK("url", ch) ELSE MARKMORE("url", ch)
    /\ sent' = [sent EXCEPT !.url = Append(@, ch)]
    /\ UNCHANGED <<data, open>>

\* ' ' ends the URL: "HTTP/1.x" CR LF follows, and the headers.
UrlEnd(minor) ==
    /\ At(UrlStates)
    /\ IF Refused(mark) THEN Fail
       ELSE /\ data' = Deliver(mark) /\ mark' = NoMark
            /\ hp' = [hp EXCEPT !.state = "s_header_field_start",
                              !.minor = minor]
            /\ UNCHANGED <<open, sent>>

\* s_start_res: "HTTP/1.x", the code and the reason, up to CR LF.
StartResponse(code, minor) ==
    /\ At({"s_start"}) /\ hp.type = "HTTP_RESPONSE"
    /\ sent.messages < MaxMessages
    /\ hp' = [hp EXCEPT !.state = "s_header_field_start", !.flags = {},
                      !.content_length = UMax, !.status = code,
                      !.minor = minor]
    /\ sent' = [sent EXCEPT !.messages = @ + 1]
    /\ UNCHANGED <<data, mark, open>>

-----------------------------------------------------------------------------
(* The headers *)

\* s_header_value_lws: what the finished header says goes into the flags.
Finish ==
    hp.flags \cup
    (CASE hp.header = Connection /\ hp.value = <<"keep-", "alive">> ->
                {"F_CONNECTION_KEEP_ALIVE"}
       [] hp.header = Connection /\ hp.value = <<"clo", "se">> ->
                {"F_CONNECTION_CLOSE"}
       [] hp.header = Connection /\ hp.value = <<"upgr", "ade">> ->
                {"F_CONNECTION_UPGRADE"}
       [] hp.header = TransferEncoding /\ hp.value = <<"chun", "ked">> ->
                {"F_CHUNKED"}
       [] OTHER -> {})

\* s_header_field_start and the first piece of a name.
HeaderField(n) ==
    /\ At({"s_header_field_start", "s_header_value_lws"})
    /\ Len(sent.lines) < MaxHeaders
    /\ hp' = [hp EXCEPT !.state = "s_header_field", !.flags = Finish,
                      !.header = n, !.value = <<>>, !.rest = Tail(n)]
    /\ MARK("header_field", Head(n))
    /\ sent' = [sent EXCEPT !.lines = Append(@, <<n, <<>>>>)]
    /\ UNCHANGED <<data, open>>

HeaderFieldMore ==
    /\ At({"s_header_field"}) /\ hp.rest # <<>>
    /\ hp' = [hp EXCEPT !.rest = Tail(@)]
    /\ MARKMORE("header_field", Head(hp.rest))
    /\ UNCHANGED <<data, open, sent>>

\* Mutant of HeaderFieldEnd: the name is kept only when none is kept yet.
HeaderFieldEndLate ==
    /\ At({"s_header_field"}) /\ hp.rest = <<>>
    /\ hp' = [hp EXCEPT !.state = "s_header_value_discard_ws"]
    /\ data' = (IF data.field = <<>> THEN Deliver(mark) ELSE data)
    /\ mark' = NoMark
    /\ UNCHANGED <<open, sent>>

\* ':' ends the name.
HeaderFieldEnd ==
    /\ At({"s_header_field"}) /\ hp.rest = <<>>
    /\ hp' = [hp EXCEPT !.state = "s_header_value_discard_ws"]
    /\ data' = Deliver(mark) /\ mark' = NoMark
    /\ UNCHANGED <<open, sent>>

Announce(v) ==
    [sent EXCEPT !.lines[Len(sent.lines)] = <<hp.header, v>>,
                 !.announced = IF hp.header = ContentLength
                               THEN Number(v) ELSE @]

\* Mutant of TooLong: the length is not compared with the limit.
TooLongNever(n) == FALSE

\* The conservative limit for one more digit of Content-Length.
TooLong(n) == (UMax - 10) \div 10 < n

LengthOk(v) == v # <<>> /\ v[1] \in Digits /\ "F_CONTENTLENGTH" \notin hp.flags

\* s_header_value_start: the first character of the value.
HeaderValue(v) ==
    /\ At({"s_header_value_discard_ws"})
    /\ v # <<>>
    /\ hp.header = ContentLength => LengthOk(v)
    /\ hp' = [hp EXCEPT
                !.state = "s_header_value", !.value = v, !.rest = Tail(v),
                !.content_length = IF hp.header = ContentLength
                                   THEN Number(<<v[1]>>) ELSE @,
                !.flags = CASE hp.header = ContentLength ->
                                    @ \cup {"F_CONTENTLENGTH"}
                            [] hp.header = UpgradeHeader -> @ \cup {"F_UPGRADE"}
                            [] OTHER -> @]
    /\ MARK("header_value", Head(v))
    /\ sent' = Announce(v)
    /\ UNCHANGED <<data, open>>

\* A Content-Length that is empty, no number or the second one.
HeaderValueRefused(v) ==
    /\ At({"s_header_value_discard_ws"}) /\ hp.header = ContentLength
    /\ ~LengthOk(v)
    /\ Fail

\* s_header_value_discard_lws: a header with an empty value.
HeaderValueEmpty(v) ==
    /\ At({"s_header_value_discard_ws"}) /\ hp.header # ContentLength
    /\ v = <<>>
    /\ hp' = [hp EXCEPT !.state = "s_header_field_start"]
    /\ data' = on_header_value(<<>>)
    /\ UNCHANGED <<mark, open, sent>>

HeaderValueMore ==
    /\ At({"s_header_value"}) /\ hp.rest # <<>>
    /\ IF hp.header = ContentLength /\ TooLong(hp.content_length) THEN Fail
       ELSE /\ hp' = [hp EXCEPT
                !.rest = Tail(@),
                !.content_length = IF hp.header = ContentLength
                                   THEN (10 * @ + Number(<<Head(hp.rest)>>))
                                            % (UMax + 1)
                                   ELSE @]
            /\ MARKMORE("header_value", Head(hp.rest))
            /\ UNCHANGED <<data, open, sent>>

\* CR LF: the value is handed over, the flags wait for the next line.
HeaderValueEnd ==
    /\ At({"s_header_value"}) /\ hp.rest = <<>>
    /\ hp' = [hp EXCEPT !.state = "s_header_value_lws"]
    /\ data' = Deliver(mark) /\ mark' = NoMark
    /\ UNCHANGED <<open, sent>>

\* A line that begins with ' ' continues the value: it is another value for
\* the callback, and no longer the word the flags were waiting for.
HeaderValueFold ==
    /\ At({"s_header_value_lws"}) /\ ~sent.folded
    /\ hp' = [hp EXCEPT !.state = "s_header_value",
                      !.value = IF hp.header = ContentLength THEN @ ELSE <<>>]
    /\ MARK("header_value", "SP")
    /\ sent' = [sent EXCEPT !.folded = TRUE]
    /\ UNCHANGED <<data, open>>

-----------------------------------------------------------------------------
(* The end of the headers and the body *)

http_message_needs_eof(q) ==
    /\ q.type = "HTTP_RESPONSE"
    /\ q.status \notin {101, 204, 304}
    /\ "F_CHUNKED" \notin q.flags /\ q.content_length = UMax
http_should_keep_alive(q) ==
    /\ IF q.minor > 0 THEN "F_CONNECTION_CLOSE" \notin q.flags
       ELSE "F_CONNECTION_KEEP_ALIVE" \in q.flags
    /\ ~http_message_needs_eof(q)

\* s_message_done: NEW_MESSAGE() and on_message_complete.
MessageComplete(q) ==
    /\ hp' = [q EXCEPT !.state = IF http_should_keep_alive(q) THEN "s_start"
                                ELSE Dead]
    /\ data' = [Deliver(mark) EXCEPT !.finished = TRUE]
    /\ mark' = NoMark

\* s_headers_almost_done and s_headers_done: CR LF on a line of its own.
HeadersDone ==
    /\ At({"s_header_field_start", "s_header_value_lws"})
    /\ LET f == Finish
           upgrade == IF {"F_UPGRADE", "F_CONNECTION_UPGRADE"} \subseteq f
                      THEN hp.type = "HTTP_REQUEST" \/ hp.status = 101
                      ELSE hp.type = "HTTP_REQUEST" /\ hp.method = "CONNECT"
           q == [hp EXCEPT !.flags = f, !.upgrade = upgrade]
           hasBody == "F_CHUNKED" \in f \/ q.content_length \notin {0, UMax}
       IN  \/ "F_TRAILING" \in f /\ MessageComplete([hp EXCEPT !.flags = f])
              /\ UNCHANGED <<open, sent>>
           \/ "F_TRAILING" \notin f /\ {"F_CHUNKED", "F_CONTENTLENGTH"} \subseteq f
              /\ Fail
           \/ /\ "F_TRAILING" \notin f
              /\ ~({"F_CHUNKED", "F_CONTENTLENGTH"} \subseteq f)
              /\ IF \/ upgrade /\ (hp.method = "CONNECT" \/ ~hasBody)
                    \/ ~hasBody /\ ~http_message_needs_eof(q)
                 THEN MessageComplete(q)
                 ELSE /\ hp' = [q EXCEPT !.state =
                            CASE "F_CHUNKED" \in f -> "s_chunk_size_start"
                              [] hasBody /\ "F_CHUNKED" \notin f ->
                                        "s_body_identity"
                              [] OTHER -> "s_body_identity_eof"]
                      /\ UNCHANGED <<data, mark>>
              /\ UNCHANGED <<open, sent>>

Byte == Len(sent.body) + 1
SendByte == /\ Len(sent.body) < MaxBody
            /\ sent' = [sent EXCEPT !.body = Append(@, Byte)]
MarkByte == mark' = [of |-> "body",
                     text |-> IF mark.of = "body" THEN Append(mark.text, Byte)
                              ELSE <<Byte>>]

\* Bytes the parser reads up to content_length; the last one is delivered
\* with the end of the message.
BodyIdentity ==
    /\ At({"s_body_identity"}) /\ SendByte
    /\ LET q == [hp EXCEPT !.content_length = @ - 1]
       IN  IF q.content_length > 0 THEN hp' = q /\ MarkByte /\ UNCHANGED data
           ELSE /\ hp' = [q EXCEPT !.state = IF http_should_keep_alive(q)
                                            THEN "s_start" ELSE Dead]
                /\ data' = [data EXCEPT !.body = Append(
                                @ \o (IF mark.of = "body" THEN mark.text
                                      ELSE <<>>), Byte),
                                  !.finished = TRUE]
                /\ mark' = NoMark
    /\ UNCHANGED open

BodyIdentityEof ==
    /\ At({"s_body_identity_eof"}) /\ SendByte /\ MarkByte
    /\ UNCHANGED <<hp, data, open>>

\* The size of a chunk in hexadecimal, any parameters and CR LF.
ChunkSize(v) ==
    /\ At({"s_chunk_size_start"})
    /\ LET first == Number(<<v[1]>>)
           n == IF Len(v) = 1 THEN first
                ELSE (16 * first + Number(<<v[2]>>)) % (UMax + 1)
       IN  IF Len(v) = 2 /\ (UMax - 16) \div 16 < first THEN Fail
           ELSE /\ hp' = [hp EXCEPT
                    !.content_length = n, !.header = <<>>,
                    !.flags = IF n = 0 THEN @ \cup {"F_TRAILING"} ELSE @,
                    !.state = IF n = 0 THEN "s_header_field_start"
                              ELSE "s_chunk_data"]
                /\ UNCHANGED <<data, mark, open, sent>>

ChunkData ==
    /\ At({"s_chunk_data"}) /\ SendByte /\ MarkByte
    /\ hp' = [hp EXCEPT !.content_length = @ - 1,
                      !.state = IF hp.content_length = 1
                                THEN "s_chunk_data_almost_done" ELSE @]
    /\ UNCHANGED <<data, open>>

\* CR LF after the data; the mark is unset when the read ended before it.
ChunkDataDone ==
    /\ At({"s_chunk_data_almost_done"})
    /\ hp' = [hp EXCEPT !.state = "s_chunk_size_start"]
    /\ data' = Deliver(mark) /\ mark' = NoMark
    /\ UNCHANGED <<open, sent>>

\* s_dead: only CR and LF may follow a message that closes the connection.
AfterClose ==
    /\ At({Dead})
    /\ Fail

-----------------------------------------------------------------------------
(* Reads *)

\* The mark a read begins with when it continues a field.
Resumed(state) ==
    [of |-> CASE state \in UrlStates -> "url"
              [] state = "s_header_field" -> "header_field"
              [] state = "s_header_value" -> "header_value"
              [] OTHER -> "none",
     text |-> <<>>]

\* HttpRequest::init: m_close, from the Connection header as it was stored.
InitClose ==
    IF Connection \in DOMAIN data.headers /\ data.headers[Connection] # <<>>
    THEN data.headers[Connection] # <<"keep-", "alive">> ELSE data.close

Upgraded == hp.upgrade /\ hp.type = "HTTP_REQUEST"

\* The read ends: leftover marks are delivered, execute() returns, and the
\* loop of recvRequest() or recvResponse() reads on.
EndRead ==
    /\ open /\ ~data.finished
    /\ mark # Resumed(hp.state) \/ Upgraded
    /\ IF Refused(mark) \/ Upgraded THEN Fail
       ELSE /\ data' = Deliver(mark)
            /\ mark' = Resumed(hp.state)
            /\ sent' = [sent EXCEPT !.cut = @ \/ mark'.of # "none"]
            /\ UNCHANGED <<hp, open>>

\* The read ends with the message complete: recvRequest() returns and
\* handleClient() answers and goes on or closes; recvResponse() returns to
\* its caller.  A message begun in the same read goes with the old parser.
Take ==
    /\ open /\ data.finished
    /\ open' = (hp.type = "HTTP_REQUEST" /\ ~hp.upgrade /\ ~Refused(mark)
                    /\ ~InitClose)
    /\ Fresh

\* read() <= 0: what has been parsed is dropped, a body up to EOF too.
Eof ==
    /\ open /\ ~data.finished
    /\ Fail

\* A character that no case of the state expects.
Malformed ==
    /\ At({"s_start", "s_req_spaces_before_url", "s_header_field_start",
           "s_chunk_size_start"})
    /\ Fail

Next ==
    \/ \E m \in {"GET", "CONNECT"} : StartRequest(m)
    \/ \E ch \in {"/", "x", "?"} : UrlPiece(ch)
    \/ \E minor \in {0, 1} : UrlEnd(minor)
    \/ \E code \in {200, 101, 204}, minor \in {0, 1} : StartResponse(code, minor)
    \/ \E n \in HeaderNames : HeaderField(n)
    \/ HeaderFieldMore \/ HeaderFieldEnd
    \/ \E v \in ValuesOf(hp.header) :
            \/ HeaderValue(v) \/ HeaderValueRefused(v) \/ HeaderValueEmpty(v)
    \/ HeaderValueMore \/ HeaderValueEnd \/ HeaderValueFold
    \/ HeadersDone
    \/ BodyIdentity \/ BodyIdentityEof
    \/ \E v \in {<<"0">>, <<"1">>, <<"2">>, <<"0", "1">>, <<"1", "1">>} :
            ChunkSize(v)
    \/ ChunkData \/ ChunkDataDone
    \/ AfterClose \/ EndRead \/ Take \/ Eof \/ Malformed

Spec == Init /\ [][Next]_vars

-----------------------------------------------------------------------------
(* Properties *)

\* One message has been read to its end and no byte of another has.
OneMessage == /\ data.finished /\ sent.messages = 1 /\ ~Upgraded
              /\ hp.state \in {"s_start", Dead}

\* However the network cuts the stream, the body of a request or response is
\* the bytes the peer sent, no more and no less, and as many as it announced:
\* what a read left behind is delivered once (http_parser.c:2054-2076), a
\* length never wraps (1549), a length beside chunks is refused (1769).
BodyWhole ==
    OneMessage =>
        /\ data.body = sent.body
        /\ "F_CONTENTLENGTH" \in hp.flags /\ "F_CHUNKED" \notin hp.flags
                => Len(data.body) = sent.announced

Last(n) == CHOOSE i \in DOMAIN sent.lines :
                /\ sent.lines[i][1] = n
                /\ \A j \in DOMAIN sent.lines : sent.lines[j][1] = n => j <= i

\* When no read ended inside the URL, a name or a value, the path and every
\* header are stored as they were sent, the last value of a name winning.
\* (A read that ends there leaves the callbacks of http_parser.cc, which
\* overwrite instead of appending, with a part: the header is lost.)
HeadersWhole ==
    OneMessage /\ ~sent.cut /\ ~sent.folded =>
        /\ DOMAIN data.headers = {sent.lines[i][1] : i \in DOMAIN sent.lines}
        /\ \A n \in DOMAIN data.headers : data.headers[n] = sent.lines[Last(n)][2]
        /\ hp.type = "HTTP_REQUEST" =>
                data.path = http_parser_parse_url(sent.url).path
=============================================================================
