---------------------------- MODULE LogFormatter ----------------------------
(***************************************************************************)
(* LogFormatter::init (log.cpp): the pattern of a log formatter taken      *)
(* apart, character by character, into the items that write an event.      *)
(* Characters are one-letter strings.                                      *)
(***************************************************************************)
EXTENDS Naturals, Sequences

s_format_items == {"m", "p", "c", "r", "f", "l", "t", "F", "N", "%", "T", "n"}

Text(s) == [type |-> 0, value |-> s]
Item(c) == [type |-> 1, value |-> <<c>>]
Date(format) == [type |-> 2, value |-> format]

Flush(b) == IF b.tmp = <<>> THEN b.patterns ELSE Append(b.patterns, Text(b.tmp))

Start == [mode |-> "string", tmp |-> <<>>, patterns |-> <<>>,
          dateformat |-> <<>>]

\* parsing_string, with tmp so far.
InString(b, c) ==
    IF c = "%" THEN [b EXCEPT !.mode = "item", !.patterns = Flush(b), !.tmp = <<>>]
    ELSE [b EXCEPT !.mode = "string", !.tmp = Append(@, c)]

\* One turn of the loop; the inner loop over a date format is a mode.
Step(b, c) ==
    CASE b.mode = "string" -> InString(b, c)
      [] b.mode = "item" ->
            [b EXCEPT !.mode = IF c = "d" THEN "after_d" ELSE "string",
                      !.patterns = Append(@, Item(c))]
      [] b.mode = "after_d" ->
            IF c = "{" THEN [b EXCEPT !.mode = "date"] ELSE InString(b, c)
      [] b.mode = "date" ->
            IF c = "}" THEN [b EXCEPT !.mode = "string"]
            ELSE [b EXCEPT !.dateformat = Append(@, c)]

\* The items made of the patterns, up to one that is unknown.
Known(p) == p.type = 0 \/ p.value[1] \in s_format_items \cup {"d"}
Made(b) ==
    LET ps == Flush(b)
        good == {n \in 0..Len(ps) : \A i \in 1..n : Known(ps[i])}
        n == CHOOSE n \in good : \A k \in good : k <= n
        item(p) == IF p = Item("d") THEN Date(b.dateformat) ELSE p
    IN  [m_error |-> n < Len(ps), m_items |-> [i \in 1..n |-> item(ps[i])]]

Unclosed == [m_error |-> TRUE, m_items |-> <<>>]

\* The outcomes of init().  A pattern that ends in %d is read behind its end
\* in search of a brace, and whatever is there decides.
Outcomes(m_pattern) ==
    LET b[n \in 0..Len(m_pattern)] ==
            IF n = 0 THEN Start ELSE Step(b[n - 1], m_pattern[n])
        last == b[Len(m_pattern)]
    IN  CASE last.mode = "date" -> {Unclosed}
          [] last.mode = "after_d" -> {Unclosed, Made(last)}
          [] OTHER -> {Made(last)}

\* A pattern put together of items (a text, %m, %%, and %d with or without a
\* format) gives these items, with neighbouring texts in one, unless %d stands
\* bare at its end; two dates share the two formats joined (log.cpp:233-365).
PatternRoundTrip(parts) ==
    LET \* the pattern, the items and the date formats of the first n parts
        pattern[n \in 0..Len(parts)] ==
            IF n = 0 THEN <<>> ELSE pattern[n - 1] \o parts[n].text
        formats[n \in 0..Len(parts)] ==
            IF n = 0 THEN <<>> ELSE formats[n - 1] \o parts[n].format
        date == formats[Len(parts)]
        items[n \in 0..Len(parts)] ==
            IF n = 0 THEN <<>>
            ELSE LET is == items[n - 1]
                     p == parts[n]
                     e == Len(is)
                 IN  CASE p.item = "text" /\ e > 0 /\ is[e].type = 0 ->
                            [is EXCEPT ![e].value = @ \o p.text]
                       [] p.item = "text" /\ ~(e > 0 /\ is[e].type = 0) ->
                            Append(is, Text(p.text))
                       [] p.item = "d" -> Append(is, Date(date))
                       [] OTHER -> Append(is, Item(p.item))
        bare == parts # <<>> /\ parts[Len(parts)].text = <<"%", "d">>
    IN  bare \/ Outcomes(pattern[Len(parts)])
                    = {[m_error |-> FALSE, m_items |-> items[Len(parts)]]}
=============================================================================
