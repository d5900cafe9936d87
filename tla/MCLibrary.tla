----------------------------- MODULE MCLibrary -----------------------------
(***************************************************************************)
(* The parts of the library that stand alone: the byte array, one          *)
(* configuration variable with the loggers that follow it, the sockets,    *)
(* and the conversions, whose inputs grow by a piece at a time.  They      *)
(* share no state, so each behaviour is one of the part it begins with.    *)
(***************************************************************************)
EXTENDS ByteArray, Powers

CONSTANTS
    WordBits, GroupBits, AddrBits, Groups,
    Thread, Files, Contents, Name, MaxListeners, MaxEdits,
    Sock, Fd, MaxOpens,
    MaxUrl, MaxText     \* bounds: pieces of a URL, of another input

\* Descriptors are not negative, the first listener is there from the start.
\* A word is whole bytes.  The groups of an IPv6 address stand for bits of an
\* IPv4 address where a prefix is tried: 8 and 32 in the code.
ASSUME LibraryAssumption ==
    /\ Fd \subseteq Nat
    /\ Files \in Seq(STRING) /\ MaxListeners \in Nat \ {0}
    /\ WordBits \in Nat \ {0} /\ GroupBits \in Nat \ {0} /\ AddrBits \in Nat
    /\ Groups \in Nat \ {0} /\ Groups <= AddrBits
    /\ WordBits % (GroupBits + 1) = 0

VARIABLES
    part,
    input,      \* what a conversion is tried on
    m_val, m_cbs, s_fun_id, job, file, s_file2modifytime, loaded, told, last,
    missed, overlap, logger, daemon, since, aborted,
    sock, open, listening, opens, leaked

logVars == <<m_val, m_cbs, s_fun_id, job, file, s_file2modifytime, loaded,
             told, last, missed, overlap, logger, daemon, since, aborted>>
sockVars == <<sock, open, listening, opens, leaked>>

Define(name, level, appenders) ==
    [name |-> name, level |-> level, appenders |-> appenders]
MCFiles == <<"log.yml">>
MCName == {"system", "http"}
MCContents == {
    \* two loggers; an unknown appender, an unknown level and a second entry
    \* of a name
    <<Define("system", "info", <<"file", "bogus", "stdout">>),
      Define("http", "loud", <<"stdout">>), Define("system", "debug", <<>>)>>,
    \* the same level with other appenders, and one logger less
    <<Define("system", "INFO", <<"stdout">>)>>,
    \* no name
    <<Define("", "info", <<>>)>>}

Loggers == INSTANCE Log WITH crashed <- aborted
Sockets == INSTANCE Socket
Uri == INSTANCE Url
Code == INSTANCE Codec
Addr == INSTANCE Address
Format == INSTANCE LogFormatter
Options == INSTANCE Env

-----------------------------------------------------------------------------
(* Inputs of the conversions *)

FormatPart(item, text, format) ==
    [item |-> item, text |-> text, format |-> format]
LBrace == "{"
RBrace == "}"
UrlPieces ==
    {<<"h">>, <<"s">>, <<"x">>, <<"@">>, <<":">>, <<"9">>, <<"8", "0">>,
     <<"/">>, <<"?">>, <<"#">>, <<"[">>, <<"]">>}
TextPieces == {<<c>> : c \in {97, 32, 43, 37, 200, 49}}
FormatPieces == {<<p>> : p \in {
    FormatPart("text", <<"x">>, <<>>), FormatPart("text", <<RBrace>>, <<>>),
    FormatPart("m", <<"%", "m">>, <<>>), FormatPart("%", <<"%", "%">>, <<>>),
    FormatPart("d", <<"%", "d">>, <<>>),
    FormatPart("d", <<"%", "d", LBrace, "%", "Y", RBrace>>, <<"%", "Y">>)}}
OptionPieces == {<<o>> : o \in [key : {"c", "d"}, val : {"", "v"}]}
NodePieces == {<<"h">>, <<":">>, <<".">>}
GroupPieces == {<<0>>, <<7>>}
Pieces == [
    url |-> UrlPieces, text |-> TextPieces, number |-> {}, format |-> FormatPieces,
    options |-> OptionPieces, node |-> NodePieces, groups |-> GroupPieces]
\* A URL grows from nothing and from a scheme and a host.
Begun == <<"h", ":", "/", "/", "x">>
Most ==
    CASE part = "url" -> IF Len(input) >= 5 /\ SubSeq(input, 1, 5) = Begun
                         THEN MaxUrl + 5 ELSE MaxUrl
      [] part = "number" -> 1
      [] part = "groups" -> Groups
      [] OTHER -> MaxText
Conversions == DOMAIN Pieces

\* A URL that the parser has already refused is not made longer.
Viable(str) ==
    part = "url" /\ str # <<>> =>
        Uri!Along(Uri!parse_url_char, "s_req_spaces_before_url", str)[Len(str)]
            # Uri!Dead
Grow ==
    /\ Len(input) < Most /\ Viable(input)
    /\ \E p \in Pieces[part] : input' = input \o p

\* What was written is what is read: a URL, a number, a text, a log pattern,
\* a command line, a host with its port, an IPv6 address, a prefix.
RoundTrips ==
    CASE part = "url" -> Uri!UriRoundTrip(input)
      [] part = "text" -> Code!TextRoundTrip(input)
      [] part = "number" -> Code!NumberRoundTrip(input[1])
      [] part = "format" -> Format!PatternRoundTrip(input)
      [] part = "options" -> Options!OptionsKept(input)
      [] part = "node" /\ input # <<>> -> Addr!LookupSplits(input, <<"8", "0">>)
      [] part = "groups" /\ Len(input) = Groups ->
            /\ Addr!TextIsAddress(input)
            /\ LET bit(i) == IF input[i] = 0 THEN 0 ELSE Power(2, i - 1)
                   a == Code!Sum(bit, Groups)
               IN  \A n \in 1..AddrBits : Addr!PrefixSound(a, n)
      [] OTHER -> TRUE

-----------------------------------------------------------------------------
\* The words of a signed type.
Signed == (-Power(2, WordBits - 1))..(Power(2, WordBits - 1) - 1)

MCInit ==
    /\ part \in {"bytes", "config", "sockets"} \cup Conversions
    /\ input \in CASE part = "number" -> {<<n>> : n \in Signed}
                   [] part = "url" -> {<<>>, Begun}
                   [] OTHER -> {<<>>}
    /\ Init /\ Sockets!Init /\ Loggers!LogInit
    /\ part # "config" => ~daemon /\ Len(file[1].text) = 3

\* What follows a call that only looks would follow without it as well.
MCNext ==
    /\ UNCHANGED part
    /\ \/ /\ part = "bytes" /\ got.at = File!NoPos /\ Next
          /\ UNCHANGED <<input, logVars, sockVars>>
       \/ /\ part = "config" /\ Loggers!LogNext
          /\ UNCHANGED <<input, vars, sockVars>>
       \/ /\ part = "sockets" /\ Sockets!Next
          /\ UNCHANGED <<input, vars, logVars>>
       \/ /\ part \in Conversions /\ Grow
          /\ UNCHANGED <<vars, logVars, sockVars>>

MCSpec == MCInit /\ [][MCNext]_<<part, input, vars, logVars, sockVars>>

\* A listener that was there for a change knows the value of the variable.
ListenersInformed == Loggers!ListenersInformed
\* A file that is skipped as known has been read as it is.
FileNotSkipped == Loggers!FileNotSkipped
\* The configuration adds and removes loggers.
LoggersComeAndGo == Loggers!LoggersComeAndGo
\* Every open descriptor has one owner.
FdsOwned == Sockets!FdsOwned
=============================================================================
