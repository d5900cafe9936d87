-------------------------------- MODULE Env --------------------------------
(***************************************************************************)
(* Env::init (env.cc): the command line as a map of options.  An argument  *)
(* is a record: whether it starts with a dash, and the rest of it.         *)
(***************************************************************************)
EXTENDS Naturals, Sequences

None == ""
Arg(dash, text) == [dash |-> dash, text |-> text]

\* Adding to m_args, a function on the keys added so far.
add(args, key, val) ==
    [k \in DOMAIN args \cup {key} |-> IF k = key THEN val ELSE args[k]]

\* One argument of the loop.  A lone dash, and a value that follows no key,
\* end it.
Step(b, arg) ==
    CASE ~b.ok -> b
      [] b.ok /\ arg.dash /\ arg.text = None -> [b EXCEPT !.ok = FALSE]
      [] b.ok /\ arg.dash /\ arg.text # None ->
            [b EXCEPT !.m_args = IF b.now_key = None THEN @
                                 ELSE add(@, b.now_key, None),
                      !.now_key = arg.text]
      [] b.ok /\ ~arg.dash /\ b.now_key = None -> [b EXCEPT !.ok = FALSE]
      [] OTHER -> [b EXCEPT !.m_args = add(@, b.now_key, arg.text),
                            !.now_key = None]

init(argv) ==
    LET b[n \in 0..Len(argv)] ==
            IF n = 0
            THEN [ok |-> TRUE, m_args |-> [k \in {} |-> None], now_key |-> None]
            ELSE Step(b[n - 1], argv[n])
        last == b[Len(argv)]
    IN  [ok |-> last.ok,
         m_args |-> IF last.ok /\ last.now_key # None
                    THEN add(last.m_args, last.now_key, None)
                    ELSE last.m_args]

\* Whatever options are given, with a value or without, each is kept with the
\* value of its last occurrence (env.cc:19-59).
OptionsKept(options) ==
    LET argv[n \in 0..Len(options)] ==
            IF n = 0 THEN <<>>
            ELSE argv[n - 1] \o <<Arg(TRUE, options[n].key)>>
                    \o (IF options[n].val = None THEN <<>>
                        ELSE <<Arg(FALSE, options[n].val)>>)
        keys == {options[i].key : i \in 1..Len(options)}
        at(k) == {i \in 1..Len(options) : options[i].key = k}
        final(k) == CHOOSE i \in at(k) : \A j \in at(k) : j <= i
    IN  init(argv[Len(options)])
            = [ok |-> TRUE, m_args |-> [k \in keys |-> options[final(k)].val]]
=============================================================================
