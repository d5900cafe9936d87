-------------------------------- MODULE Log --------------------------------
(***************************************************************************)
(* The loggers of log.cpp as the configuration variable "logs" governs     *)
(* them: the conversion from YAML to std::set<LogDefine>, its comparison,  *)
(* and the listener of LogIniter, the first listener of the variable.      *)
(*                                                                         *)
(* A set of LogDefine, ordered by name, is a function on the names in it.  *)
(* A logger that does not exist yet is the one that getLogger creates.     *)
(***************************************************************************)
EXTENDS Naturals, Sequences

CONSTANTS Thread, Files, Contents, Name, MaxListeners, MaxEdits

VARIABLES
    m_val, m_cbs, s_fun_id, job, file, s_file2modifytime, loaded, told, last,
    missed, overlap,
    logger,     \* per name: m_level and m_appenders
    daemon,     \* the program was started with -d
    since,      \* per name: its appenders when the configuration introduced it
    crashed     \* a null logger has been followed

-----------------------------------------------------------------------------
(* Conversion and comparison *)

Level == [FATAL |-> 0, ALERT |-> 100, CRIT |-> 200, ERROR |-> 300,
          WARN |-> 400, NOTICE |-> 500, INFO |-> 600, DEBUG |-> 700,
          NOTSET |-> 800]
Lower == [fatal |-> "FATAL", alert |-> "ALERT", crit |-> "CRIT",
          error |-> "ERROR", warn |-> "WARN", notice |-> "NOTICE",
          info |-> "INFO", debug |-> "DEBUG"]
FromString(str) ==
    CASE str \in DOMAIN Lower -> Lower[str]
      [] \E k \in DOMAIN Lower : Lower[k] = str -> str
      [] OTHER -> "NOTSET"

\* LexicalCast<std::string, LogDefine>: an appender without a type, with an
\* unknown one, or of type file without a file, is left out.
LogDefine(e) ==
    [level |-> FromString(e.level),
     appenders |-> SelectSeq(e.appenders, LAMBDA a : a \in {"file", "stdout"})]

\* LexicalCast<std::string, std::set<LogDefine>>: an entry without a name
\* throws, and of two with the same name the first is kept.
LogDefines(text) ==
    IF \E i \in 1..Len(text) : text[i].name \notin Name THEN {}
    ELSE LET at(n) == {i \in 1..Len(text) : text[i].name = n}
             first(n) == CHOOSE i \in at(n) : \A j \in at(n) : i <= j
         IN  {[n \in {n \in Name : at(n) # {}} |-> LogDefine(text[first(n)])]}

\* LogDefine::operator== compares the appenders of one side with themselves.
SameDefine(d, e) == d.level = e.level
SameDefines(v, w) ==
    DOMAIN v = DOMAIN w /\ \A n \in DOMAIN v : SameDefine(v[n], w[n])

Empty == [n \in {} |-> LogDefine([level |-> "", appenders |-> <<>>])]

Values == {Empty} \cup UNION {LogDefines(text) : text \in Contents}

INSTANCE Config WITH
    Default <- Empty,
    FromStr <- [text \in Contents |-> LogDefines(text)],
    Same <- {vw \in Values \X Values : SameDefines(vw[1], vw[2])}

-----------------------------------------------------------------------------
(* Loggers *)

NewLogger == [level |-> "INFO", appenders |-> <<>>]

LogInit ==
    /\ Init
    /\ logger = [n \in Name |-> NewLogger]
    /\ daemon \in BOOLEAN
    /\ since = [n \in Name |-> <<>>]
    /\ crashed = FALSE

\* The appenders made for a definition: none for the terminal of a daemon.
Appenders(as) ==
    IF daemon THEN SelectSeq(as, LAMBDA a : a = "file") ELSE as

\* Logger::log: the appenders that an event of level l reaches.
Output(n, l) ==
    IF Level[l] <= Level[logger[n].level] THEN logger[n].appenders ELSE <<>>

\* Mutant of OnChange: a logger that is no longer configured keeps its
\* appenders.
OnChangeKeeps(old, new) ==
    IF \E n \in DOMAIN old \cap DOMAIN new : ~SameDefine(new[n], old[n])
    THEN crashed' = TRUE /\ UNCHANGED logger
    ELSE /\ logger' = [n \in Name |->
                CASE n \in DOMAIN new \ DOMAIN old ->
                        [level |-> new[n].level,
                         appenders |-> Appenders(new[n].appenders)]
                  [] n \in DOMAIN old \ DOMAIN new ->
                        [logger[n] EXCEPT !.level = "NOTSET"]
                  [] OTHER -> logger[n]]
         /\ UNCHANGED crashed

\* The listener of LogIniter.  For a changed logger the code compares where
\* it means to assign, and follows a null pointer.
OnChange(old, new) ==
    IF \E n \in DOMAIN old \cap DOMAIN new : ~SameDefine(new[n], old[n])
    THEN crashed' = TRUE /\ UNCHANGED logger
    ELSE /\ logger' = [n \in Name |->
                CASE n \in DOMAIN new \ DOMAIN old ->
                        [level |-> new[n].level,
                         appenders |-> Appenders(new[n].appenders)]
                  [] n \in DOMAIN old \ DOMAIN new ->
                        [level |-> "NOTSET", appenders |-> <<>>]
                  [] OTHER -> logger[n]]
         /\ UNCHANGED crashed

\* The listener's calls are one step: LoggersComeAndGo says
\* nothing of two that run at once.
NotifyLoggers(t) ==
    /\ Notify(t)
    /\ IF Called(t) = 1 THEN OnChange(m_val, job[t].v)
       ELSE UNCHANGED <<logger, crashed>>
    /\ UNCHANGED <<since, daemon>>

\* The store, with the bookkeeping of since.
StoreDefines(t) ==
    /\ Store(t)
    /\ since' = [n \in Name |->
            CASE n \in DOMAIN m_val' \ DOMAIN m_val -> m_val'[n].appenders
              [] n \in DOMAIN m_val \ DOMAIN m_val' -> <<>>
              [] OTHER -> since[n]]
    /\ UNCHANGED <<logger, daemon, crashed>>

LogNext ==
    /\ ~crashed
    /\ \/ \E t \in Thread : NotifyLoggers(t) \/ StoreDefines(t)
       \/ /\ \/ \E t \in Thread :
                    \/ SetValue(t) \/ Unlock(t) \/ CheckFile(t) \/ LoadFile(t)
                    \/ \E force \in BOOLEAN : LoadFromConfDir(t, force)
             \/ addListener \/ \E l \in m_cbs : delListener(l)
             \/ \E f \in File, text \in Contents : Edit(f, text)
          /\ UNCHANGED <<logger, daemon, since, crashed>>

LogSpec == LogInit /\ [][LogNext]_<<vars, logger, daemon, since, crashed>>

-----------------------------------------------------------------------------
\* The configuration adds and removes loggers as it says: between two sets of
\* the variable, unless two threads have set it at once, a logger it does not
\* name writes nothing, although the level of one removed is then the most
\* permissive, and one whose appenders are those it was introduced with writes
\* the events up to its level to them (log.cpp:692-742).  Of a definition that
\* is changed in place it says nothing: the code follows a null logger if the
\* level has changed (log.cpp:705), inside a set that then never ends, and
\* keeps the old appenders if those have (log.cpp:603).
LoggersComeAndGo ==
    overlap \/ Setting # {} \/ \A n \in Name, l \in DOMAIN Level :
        /\ n \notin DOMAIN m_val => Output(n, l) = <<>>
        /\ n \in DOMAIN m_val /\ since[n] = m_val[n].appenders =>
                Output(n, l) = IF Level[l] <= Level[m_val[n].level]
                               THEN Appenders(m_val[n].appenders) ELSE <<>>
=============================================================================
