-------------------------------- MODULE Url --------------------------------
(***************************************************************************)
(* The URL grammar of http_parser.c (parse_url_char, http_parse_host and   *)
(* http_parser_parse_url) and the Uri class of uri.cc built on it.         *)
(*                                                                         *)
(* A URL is a sequence of characters, each a one-letter string.  A letter  *)
(* or a digit stands for its class; a port is the sequence of its digits.  *)
(***************************************************************************)
EXTENDS Naturals, Sequences, Powers

Digit == <<"0", "1", "2", "3", "4", "5", "6", "7", "8", "9">>
Digits == {Digit[i] : i \in 1..10}
Letters == {"h", "s", "x"}
Alnum == Letters \cup Digits
UserinfoChars == Alnum \cup {":", "-", ".", "%", "*", "&", "="}
HostChars == Alnum \cup {".", "-"}
UrlChars == UserinfoChars \cup {"/", "@", "[", "]"}
White == {"SP", "CR", "LF"}
Dead == "s_dead"

-----------------------------------------------------------------------------
\* The server part, which ends at the first '/' or '?'.
parse_server_char(s, ch) ==
    CASE ch = "/" -> "s_req_path"
      [] ch = "?" -> "s_req_query_string_start"
      [] ch = "@" -> IF s = "s_req_server_with_at" THEN Dead
                     ELSE "s_req_server_with_at"
      [] ch \in UserinfoChars \cup {"[", "]"} -> "s_req_server"
      [] OTHER -> Dead

parse_url_char(s, ch) ==
    CASE ch \in White -> Dead
      [] s = "s_req_spaces_before_url" ->
            IF ch \in {"/", "*"} THEN "s_req_path"
            ELSE IF ch \in Letters THEN "s_req_schema" ELSE Dead
      [] s = "s_req_schema" ->
            IF ch \in Letters THEN s
            ELSE IF ch = ":" THEN "s_req_schema_slash" ELSE Dead
      [] s = "s_req_schema_slash" ->
            IF ch = "/" THEN "s_req_schema_slash_slash" ELSE Dead
      [] s = "s_req_schema_slash_slash" ->
            IF ch = "/" THEN "s_req_server_start" ELSE Dead
      [] s \in {"s_req_server_start", "s_req_server", "s_req_server_with_at"} ->
            parse_server_char(s, ch)
      [] s = "s_req_path" ->
            CASE ch \in UrlChars -> s
              [] ch = "?" -> "s_req_query_string_start"
              [] ch = "#" -> "s_req_fragment_start"
              [] OTHER -> Dead
      [] s \in {"s_req_query_string_start", "s_req_query_string"} ->
            CASE ch \in UrlChars \cup {"?"} -> "s_req_query_string"
              [] ch = "#" -> "s_req_fragment_start"
              [] OTHER -> Dead
      [] s \in {"s_req_fragment_start", "s_req_fragment"} ->
            CASE ch = "#" -> s
              [] ch \in UrlChars \cup {"?"} -> "s_req_fragment"
              [] OTHER -> Dead
      [] OTHER -> Dead

http_parse_host_char(s, ch) ==
    CASE s \in {"userinfo_start", "userinfo"} ->
            IF ch = "@" THEN "host_start"
            ELSE IF ch \in UserinfoChars THEN "userinfo" ELSE Dead
      [] s = "host_start" ->
            IF ch = "[" THEN "v6_start"
            ELSE IF ch \in HostChars THEN "host" ELSE Dead
      [] s \in {"host", "v6_end"} ->
            IF s = "host" /\ ch \in HostChars THEN s
            ELSE IF ch = ":" THEN "port_start" ELSE Dead
      [] s \in {"v6_start", "v6"} ->
            CASE s = "v6" /\ ch = "]" -> "v6_end"
              [] ch \in Digits \cup {":", "."} -> "v6"
              [] s = "v6" /\ ch = "%" -> "v6_zone_start"
              [] OTHER -> Dead
      [] s \in {"v6_zone_start", "v6_zone"} ->
            IF s = "v6_zone" /\ ch = "]" THEN "v6_end"
            ELSE IF ch \in HostChars \cup {"%"} THEN "v6_zone" ELSE Dead
      [] s \in {"port_start", "port"} -> IF ch \in Digits THEN "port" ELSE Dead
      [] OTHER -> Dead

\* States of a character machine along a string, the start state first.
Along(step(_, _), s0, str) ==
    LET at[i \in 0..Len(str)] ==
            IF i = 0 THEN s0 ELSE step(at[i - 1], str[i])
    IN  at
\* The characters read in one of the given states.
Field(str, at, states) ==
    LET got[i \in 0..Len(str)] ==
            IF i = 0 THEN <<>>
            ELSE IF at[i] \in states THEN Append(got[i - 1], str[i])
            ELSE got[i - 1]
    IN  got[Len(str)]

\* The number a sequence of digits denotes, and back.
Number(str) ==
    LET v[i \in 0..Len(str)] ==
            IF i = 0 THEN 0
            ELSE 10 * v[i - 1]
                     + (CHOOSE d \in 0..9 : Digit[d + 1] = str[i])
    IN  v[Len(str)]
Numeral(n) ==
    LET width == CHOOSE w \in 1..5 :
                    n < Power(10, w) /\ (w = 1 \/ n >= Power(10, w - 1))
    IN  [i \in 1..width |-> Digit[((n \div Power(10, width - i)) % 10) + 1]]

Invalid == [ok |-> FALSE]

\* Where a field is in the text and how long it is are two uint16_t: the
\* fields below are those of texts that these can measure.
Fits(str) == Len(str) <= 65535

\* http_parse_host: the host must not end in the middle of one of its parts.
http_parse_host(host, found_at) ==
    LET at == Along(http_parse_host_char,
                    IF found_at THEN "userinfo_start" ELSE "host_start", host)
    IN  IF at[Len(host)] \in {Dead, "host_start", "v6_start", "v6",
                              "v6_zone_start", "v6_zone", "port_start",
                              "userinfo", "userinfo_start"}
        THEN Invalid
        ELSE [ok |-> TRUE,
              userinfo |-> Field(host, at, {"userinfo"}),
              host |-> Field(host, at, {"host", "v6", "v6_zone_start",
                                        "v6_zone"}),
              v6 |-> \E i \in DOMAIN at : at[i] = "v6_end",
              port |-> Field(host, at, {"port"})]

\* http_parser_parse_url with is_connect = 0 (its only use).
http_parser_parse_url(str) ==
    LET at == Along(parse_url_char, "s_req_spaces_before_url", str)
        schema == Field(str, at, {"s_req_schema"})
        server == Field(str, at, {"s_req_server", "s_req_server_with_at"})
        h == IF server = <<>>
             THEN [ok |-> TRUE, userinfo |-> <<>>, host |-> <<>>, v6 |-> FALSE,
                   port |-> <<>>]
             ELSE http_parse_host(server, \E i \in DOMAIN at :
                                              at[i] = "s_req_server_with_at")
    IN  IF \/ str = <<>> \/ at[Len(str)] = Dead
           \/ schema # <<>> /\ server = <<>>
           \/ ~h.ok
           \/ Number(h.port) > 65535
        THEN Invalid
        ELSE [ok |-> TRUE, scheme |-> schema, userinfo |-> h.userinfo,
              host |-> h.host, v6 |-> h.v6, port |-> h.port,
              path |-> Field(str, at, {"s_req_path"}),
              query |-> Field(str, at, {"s_req_query_string"}),
              fragment |-> Field(str, at, {"s_req_fragment"})]

-----------------------------------------------------------------------------
(* uri.cc *)

\* The schemes, by the letters the model writes them with.
Http == {<<"h">>, <<"x">>}              \* "http" and "ws"
Https == <<"h", "s">>                   \* "https"
Wss == <<"x", "s">>                     \* "wss"

\* Uri::Create; only http, ws and https have a default port here.
DefaultPort(u) == IF u.scheme \in Http THEN 80
                  ELSE IF u.scheme = Https THEN 443 ELSE 0
FromFields(u) ==
    IF ~u.ok THEN Invalid
    ELSE [u EXCEPT !.port = IF @ # <<>> THEN Number(@) ELSE DefaultPort(u)]
Create(str) == FromFields(http_parser_parse_url(str))

getPort(u) == IF u.port # 0 THEN u.port
              ELSE IF u.scheme \in Http THEN 80
              ELSE IF u.scheme \in {Https, Wss} THEN 443 ELSE 0
getPath(u) == IF u.path = <<>> THEN <<"/">> ELSE u.path
isDefaultPort(u) == \/ u.scheme \in Http /\ u.port = 80
                    \/ u.scheme = Https /\ u.port = 443

toString(u) ==
    u.scheme \o <<":", "/", "/">>
      \o (IF u.userinfo = <<>> THEN <<>> ELSE Append(u.userinfo, "@"))
      \o u.host \o (IF isDefaultPort(u) THEN <<>> ELSE <<":">> \o Numeral(u.port))
      \o getPath(u)
      \o (IF u.query = <<>> THEN <<>> ELSE <<"?">> \o u.query)
      \o (IF u.fragment = <<>> THEN <<>> ELSE <<"#">> \o u.fragment)

\* What a Uri that names a server says survives being written and read
\* again, if both texts fit the parser's offsets (http_parser.h:365): the scheme, the user, the host, the port that is connected to, the
\* path, the query and the fragment.  Not so for an IPv6 host, which Create
\* strips of the brackets that toString does not put back.
UriRoundTrip(str) ==
    \A u \in {Create(str)} : u.ok /\ u.host # <<>> /\ ~u.v6
            /\ Fits(str) /\ Fits(toString(u)) =>
        \A v \in {Create(toString(u))} :
            /\ v.ok
            /\ getPort(v) = getPort(u)
            /\ v = [u EXCEPT !.path = getPath(u)]
=============================================================================
