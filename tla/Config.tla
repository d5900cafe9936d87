------------------------------- MODULE Config -------------------------------
(***************************************************************************)
(* One ConfigVar (config.h): its value, its listeners, the read-write lock *)
(* around them, and Config::LoadFromConfDir (config.cc), with which        *)
(* threads load it from files that are edited meanwhile.                   *)
(*                                                                         *)
(* A thread that runs the listeners holds the read lock; the write lock is *)
(* held within one action only.  FromStr gives for a text the set of its   *)
(* value, or the empty set when the conversion throws; Same is the set of  *)
(* the pairs that are equal by the operator == of the value's type.        *)
(***************************************************************************)
EXTENDS Naturals, Sequences

CONSTANTS
    Thread,
    Files,              \* what ListAllFile finds, in its order
    Contents,           \* the texts a file may hold
    Default,            \* the value given to Config::Lookup
    FromStr, Same,
    MaxListeners,       \* bound: listeners ever added
    MaxEdits            \* bound: edits of a file

VARIABLES
    m_val, m_cbs, s_fun_id,
    job,        \* per thread: where it is in setValue and LoadFromConfDir
    file,       \* per file: its text, its mtime, and whether two edits share it
    s_file2modifytime,
    loaded,     \* per file: the mtime that it had when it was last read
    told, last, \* per listener: the values it has seen, and the latest
    missed,     \* the listeners added between a notification and its store
    overlap     \* two setValue have been under way at once

vars == <<m_val, m_cbs, s_fun_id, job, file, s_file2modifytime, loaded,
          told, last, missed, overlap>>

File == 1..Len(Files)
Listener == 1..MaxListeners
Idle == [at |-> "idle", left |-> <<>>, force |-> FALSE, v |-> Default,
         todo |-> {}]

Init ==
    /\ m_val = Default
    /\ m_cbs = {1} /\ s_fun_id = 1
    /\ job = [t \in Thread |-> Idle]
    /\ file \in [File -> [text : Contents, mtime : {1}, twice : {FALSE}, edits : {0}]]
    /\ s_file2modifytime = [f \in File |-> 0]
    /\ loaded = [f \in File |-> 0]
    /\ told = [l \in Listener |-> {Default}]
    /\ last = [l \in Listener |-> Default]
    /\ missed = {} /\ overlap = FALSE

At(t, where) == job[t].at = where

\* Mutant of Readers: the lock is released before the listeners are called.
ReadersReleased == {}

\* The threads that hold the read lock.
Readers == {t \in Thread : At(t, "notify")}

\* A thread is done with a value: back to the files, or to its caller.
Done(t) ==
    job' = [job EXCEPT ![t] =
        IF @.left = <<>> THEN Idle ELSE [@ EXCEPT !.at = "check"]]

-----------------------------------------------------------------------------
(* ConfigVar::setValue *)

Setting == {t \in Thread : At(t, "notify") \/ At(t, "store")}

\* Under the read lock, an equal value is not set.
SetValue(t) ==
    /\ At(t, "set")
    /\ IF <<job[t].v, m_val>> \in Same
       THEN Done(t) /\ UNCHANGED overlap
       ELSE /\ job' = [job EXCEPT ![t].at = "notify", ![t].todo = m_cbs]
            /\ overlap' = (overlap \/ Setting # {})
    /\ UNCHANGED <<m_val, m_cbs, s_fun_id, file, s_file2modifytime, loaded,
                   told, last, missed>>

\* The next listener, in the order of the ids.
Called(t) == CHOOSE l \in job[t].todo : \A k \in job[t].todo : l <= k

Notify(t) ==
    /\ At(t, "notify") /\ job[t].todo # {}
    /\ job' = [job EXCEPT ![t].todo = @ \ {Called(t)}]
    /\ told' = [told EXCEPT ![Called(t)] = @ \cup {job[t].v}]
    /\ last' = [last EXCEPT ![Called(t)] = job[t].v]
    /\ UNCHANGED <<m_val, m_cbs, s_fun_id, file, s_file2modifytime, loaded,
                   missed, overlap>>

\* The end of the block gives back the read lock.
Unlock(t) ==
    /\ At(t, "notify") /\ job[t].todo = {}
    /\ job' = [job EXCEPT ![t].at = "store"]
    /\ UNCHANGED <<m_val, m_cbs, s_fun_id, file, s_file2modifytime, loaded,
                   told, last, missed, overlap>>

\* Mutant of Store: the file's mtime is noted after the load.
StoreNotesTime(t) ==
    /\ At(t, "store") /\ Readers = {}
    /\ m_val' = job[t].v
    /\ Done(t)
    /\ s_file2modifytime' = [f \in File |-> file[f].mtime]
    /\ UNCHANGED <<m_cbs, s_fun_id, file, loaded, told, last, missed, overlap>>

\* Under the write lock.
Store(t) ==
    /\ At(t, "store") /\ Readers = {}
    /\ m_val' = job[t].v
    /\ Done(t)
    /\ UNCHANGED <<m_cbs, s_fun_id, file, s_file2modifytime, loaded, told,
                   last, missed, overlap>>

addListener ==
    /\ Readers = {} /\ s_fun_id < MaxListeners
    /\ s_fun_id' = s_fun_id + 1
    /\ m_cbs' = m_cbs \cup {s_fun_id'}
    /\ told' = [told EXCEPT ![s_fun_id'] = {m_val}]
    /\ last' = [last EXCEPT ![s_fun_id'] = m_val]
    /\ missed' = IF \E t \in Thread : At(t, "store")
                 THEN missed \cup {s_fun_id'} ELSE missed
    /\ UNCHANGED <<m_val, job, file, s_file2modifytime, loaded, overlap>>

\* The first listener is LogIniter's, which has dropped its key.
delListener(key) ==
    /\ Readers = {} /\ key > 1
    /\ m_cbs' = m_cbs \ {key}
    /\ UNCHANGED <<m_val, s_fun_id, job, file, s_file2modifytime, loaded, told,
                   last, missed, overlap>>

-----------------------------------------------------------------------------
(* Config::LoadFromConfDir *)

LoadFromConfDir(t, force) ==
    /\ At(t, "idle") /\ Files # <<>>
    /\ job' = [job EXCEPT ![t].at = "check", ![t].force = force,
                          ![t].left = [f \in File |-> f]]
    /\ UNCHANGED <<m_val, m_cbs, s_fun_id, file, s_file2modifytime, loaded,
                   told, last, missed, overlap>>

\* The loop's test under s_mutex: a file whose mtime is known is skipped.  The
\* lstat before the lock is in the same step: what comes between the two makes
\* the mtime that is noted an older one, and the file is then loaded again.
CheckFile(t) ==
    /\ At(t, "check")
    /\ LET f == Head(job[t].left)
           rest == Tail(job[t].left)
           mtime == file[f].mtime
       IN  IF ~job[t].force /\ s_file2modifytime[f] = mtime
           THEN /\ job' = [job EXCEPT ![t] =
                            IF rest = <<>> THEN Idle ELSE [@ EXCEPT !.left = rest]]
                /\ UNCHANGED s_file2modifytime
           ELSE /\ s_file2modifytime' = [s_file2modifytime EXCEPT ![f] = mtime]
                /\ job' = [job EXCEPT ![t].at = "load"]
    /\ UNCHANGED <<m_val, m_cbs, s_fun_id, file, loaded, told, last, missed,
                   overlap>>

\* YAML::LoadFile, LoadFromYaml and fromString: an exception ends the file.
LoadFile(t) ==
    /\ At(t, "load")
    /\ LET f == Head(job[t].left)
           rest == Tail(job[t].left)
       IN  /\ loaded' = [loaded EXCEPT ![f] = file[f].mtime]
           /\ \/ \E v \in FromStr[file[f].text] :
                    job' = [job EXCEPT ![t].at = "set", ![t].v = v,
                                       ![t].left = rest]
              \/ /\ FromStr[file[f].text] = {}
                 /\ job' = [job EXCEPT ![t] =
                        IF rest = <<>> THEN Idle
                        ELSE [@ EXCEPT !.at = "check", !.left = rest]]
    /\ UNCHANGED <<m_val, m_cbs, s_fun_id, file, s_file2modifytime, told, last,
                   missed, overlap>>

\* Somebody writes the file, in the second of the last edit or a later one.
Edit(f, text) ==
    /\ \E mtime \in {file[f].mtime, file[f].mtime + 1} :
            /\ file[f].edits < MaxEdits
            /\ file' = [file EXCEPT ![f] =
                    [text |-> text, mtime |-> mtime,
                     twice |-> mtime = file[f].mtime,
                     edits |-> file[f].edits + 1]]
    /\ UNCHANGED <<m_val, m_cbs, s_fun_id, job, s_file2modifytime, loaded,
                   told, last, missed, overlap>>

-----------------------------------------------------------------------------
(* Properties *)

\* Every listener has been told the value of the variable, and unless two
\* threads set it at once the value is the last that it has been told
\* (config.h:392-404: listeners first, the value after another lock).  A
\* listener added between the two steps of a set is not told.
ListenersInformed ==
    \A l \in m_cbs \ missed :
        /\ m_val \in told[l]
        /\ last[l] = m_val \/ overlap \/ Setting # {}

\* A file that LoadFromConfDir would skip has been read as it now is, or is
\* about to be, whoever edits it during a load (config.cc:84-94); only two
\* edits within one second escape it.
FileNotSkipped ==
    \A f \in File :
        s_file2modifytime[f] = file[f].mtime /\ ~file[f].twice
            => \/ loaded[f] = file[f].mtime
               \/ \E t \in Thread : At(t, "load") /\ Head(job[t].left) = f
=============================================================================
