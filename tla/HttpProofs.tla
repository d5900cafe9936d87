----------------------------- MODULE HttpProofs -----------------------------
(***************************************************************************)
(* Proofs about the http layer of MCHttp: the connection pool, the         *)
(* TcpServer with its servlets and the parser, for every set of callers,   *)
(* connections, addresses, patterns and servlets and every bound.          *)
(***************************************************************************)
EXTENDS MCHttp, DataLemmas, FiniteSetTheorems, TLAPS

-----------------------------------------------------------------------------
(* The connection pool: the inductive invariant *)

PoolPlaces == {"idle", "drop", "connect", "send", "recv", "release"}
PoolTypes ==
    /\ m_conns \in Seq(Conns)
    /\ m_total \in Int
    /\ m_request \in [Conns -> Nat]
    /\ conn \in [Conns -> {"unmade", "connected", "closed", "deleted"}]
    /\ wire \in [Conns -> Seq(Callers)]
    /\ pc \in [Callers -> PoolPlaces]
    /\ hold \in [Callers -> Conns \cup {None}]
    /\ invalid \in [Callers -> SUBSET Conns]

\* Which places of doRequest have a connection, and in what state it is.
HoldInv ==
    \A t \in Callers :
        /\ hold[t] # None => pc[t] \in {"drop", "send", "recv", "release"}
        /\ pc[t] \in {"send", "recv", "release"} => hold[t] # None
        /\ invalid[t] # {} => pc[t] = "drop"
        /\ hold[t] # None =>
                \/ conn[hold[t]] = "connected"
                \/ pc[t] = "release" /\ conn[hold[t]] = "closed"
        /\ \A c \in invalid[t] : conn[c] = "connected"

\* A connection is in the pool once, held by one caller or set aside by one.
PlaceInv ==
    /\ \A i \in DOMAIN m_conns : conn[m_conns[i]] = "connected"
    /\ \A i, j \in DOMAIN m_conns : m_conns[i] = m_conns[j] => i = j
    /\ \A t \in Callers, i \in DOMAIN m_conns :
            hold[t] # m_conns[i] /\ m_conns[i] \notin invalid[t]
    /\ \A t, u \in Callers :
            /\ hold[t] # None /\ hold[t] = hold[u] => t = u
            /\ hold[t] \notin invalid[u]
            /\ t # u => invalid[t] \cap invalid[u] = {}

\* A connection that can be used has no answer outstanding but the one its
\* holder waits for.
WireInv ==
    \A c \in Conns :
        /\ conn[c] = "unmade" => wire[c] = <<>>
        /\ conn[c] = "connected" =>
            \/ wire[c] = <<>> /\ \A t \in Callers : hold[t] = c => pc[t] # "recv"
            \/ \E t \in Callers :
                    hold[t] = c /\ pc[t] = "recv" /\ wire[c] = <<t>>

Existing == {c \in Conns : conn[c] \in {"connected", "closed"}}
FoundInv ==
    \A c \in Existing :
        \/ \E i \in DOMAIN m_conns : m_conns[i] = c
        \/ \E t \in Callers : hold[t] = c \/ c \in invalid[t]
CountInv == IsFiniteSet(Existing) /\ m_total = Cardinality(Existing)

PoolInv == /\ PoolTypes /\ HoldInv /\ PlaceInv /\ WireInv /\ FoundInv
           /\ CountInv /\ AnswersMatch

-----------------------------------------------------------------------------
(* Lemmas about taking a connection *)

\* What the loop of getConnection does to the list: the first n - 1 entries
\* are set aside, the n-th is taken, the others stay.
Later(S, s, n, r) ==
    /\ r \in Seq(S)
    /\ \A i \in DOMAIN r : n + i \in DOMAIN s /\ r[i] = s[n + i]
    /\ \A j \in DOMAIN s : j > n => j - n \in DOMAIN r /\ r[j - n] = s[j]
LEMMA TakeFacts ==
    ASSUME NEW S, NEW s \in Seq(S), NEW n \in 1..(Len(s) + 1)
    PROVE  Later(S, s, n, SubSeq(s, n + 1, Len(s)))
<1> DEFINE r == SubSeq(s, n + 1, Len(s))
<1>1. Len(s) \in Nat /\ DOMAIN s = 1..Len(s)
  OBVIOUS
<1>2. DOMAIN r = 1..(Len(s) - n) /\ \A i \in 1..(Len(s) - n) : r[i] = s[n + i]
  <2>1. CASE n = Len(s) + 1
    BY <1>1, <2>1
  <2>2. CASE n <= Len(s)
    BY <1>1, <2>2
  <2>3. QED
    BY <1>1, <2>1, <2>2
<1>3. r \in Seq(S)
  BY <1>1
<1> HIDE DEF r
<1>4. \A i \in DOMAIN r : n + i \in DOMAIN s /\ r[i] = s[n + i]
  BY <1>1, <1>2
<1>5. ASSUME NEW j \in DOMAIN s, j > n
      PROVE  j - n \in DOMAIN r /\ r[j - n] = s[j]
  <2>1. j - n \in 1..(Len(s) - n) /\ n + (j - n) = j
    BY <1>1, <1>5
  <2>2. QED
    BY <1>2, <2>1
<1>6. Later(S, s, n, r)
  BY <1>3, <1>4, <1>5 DEF Later
<1>7. QED
  BY <1>6 DEF r

\* One call of getConnection: n is where the loop stopped.
LEMMA TakeConnFacts ==
    ASSUME PoolTypes, NEW t \in Callers, TakeConn(t)
    PROVE  \E n \in 1..(Len(m_conns) + 1) :
             /\ invalid' = [invalid EXCEPT ![t] = {m_conns[i] : i \in 1..(n - 1)}]
             /\ m_conns' = SubSeq(m_conns, n + 1, Len(m_conns))
             /\ \/ n = Len(m_conns) + 1 /\ hold' = [hold EXCEPT ![t] = None]
                \/ n \in DOMAIN m_conns /\ hold' = [hold EXCEPT ![t] = m_conns[n]]
<1> DEFINE good == {i \in DOMAIN m_conns : Usable(m_conns[i])}
           n == IF good = {} THEN Len(m_conns) + 1
                ELSE CHOOSE i \in good : \A j \in good : i <= j
<1>1. /\ invalid' = [invalid EXCEPT ![t] = {m_conns[i] : i \in 1..(n - 1)}]
      /\ hold' = [hold EXCEPT ![t] = IF good = {} THEN None ELSE m_conns[n]]
      /\ m_conns' = SubSeq(m_conns, n + 1, Len(m_conns))
  BY DEF TakeConn
<1>2. Len(m_conns) \in Nat /\ DOMAIN m_conns = 1..Len(m_conns)
  BY DEF PoolTypes
<1>3. good \in SUBSET Nat
  BY <1>2
<1>4. CASE good = {}
  <2>1. n = Len(m_conns) + 1
    BY <1>4
  <2>2. n \in 1..(Len(m_conns) + 1) /\ hold' = [hold EXCEPT ![t] = None]
    BY <1>1, <1>2, <1>4, <2>1
  <2> HIDE DEF n
  <2>3. QED
    BY <1>1, <2>1, <2>2
<1>5. CASE good # {}
  <2>1. n \in good
    BY <1>3, <1>5, LeastNat
  <2>2. n \in DOMAIN m_conns
    BY <2>1
  <2>3. hold' = [hold EXCEPT ![t] = m_conns[n]]
    BY <1>1, <1>5
  <2> HIDE DEF n, good
  <2>4. n \in 1..(Len(m_conns) + 1)
    BY <1>2, <2>2
  <2>5. QED
    BY <1>1, <2>2, <2>3, <2>4
<1>6. QED
  BY <1>4, <1>5

\* The same, position by position.
LEMMA TakeStep ==
    ASSUME PoolTypes, NEW t \in Callers, TakeConn(t)
    PROVE  \E n \in 1..(Len(m_conns) + 1) :
             /\ invalid'[t] = {m_conns[i] : i \in 1..(n - 1)}
             /\ 1..(n - 1) \in SUBSET DOMAIN m_conns
             /\ \/ hold'[t] = None /\ n = Len(m_conns) + 1
                \/ n \in DOMAIN m_conns /\ hold'[t] = m_conns[n]
             /\ \A i \in DOMAIN m_conns' :
                    n + i \in DOMAIN m_conns /\ m_conns'[i] = m_conns[n + i]
             /\ \A j \in DOMAIN m_conns : j > n =>
                    j - n \in DOMAIN m_conns' /\ m_conns'[j - n] = m_conns[j]
             /\ \A u \in Callers \ {t} :
                    hold'[u] = hold[u] /\ invalid'[u] = invalid[u]
                    /\ pc'[u] = pc[u]
             /\ pc[t] = "idle" /\ pc'[t] = "drop" /\ conn' = conn /\ wire' = wire
             /\ m_total' = m_total /\ answer' = answer
<1>1. PICK n \in 1..(Len(m_conns) + 1) :
         /\ invalid' = [invalid EXCEPT ![t] = {m_conns[i] : i \in 1..(n - 1)}]
         /\ m_conns' = SubSeq(m_conns, n + 1, Len(m_conns))
         /\ \/ n = Len(m_conns) + 1 /\ hold' = [hold EXCEPT ![t] = None]
            \/ n \in DOMAIN m_conns /\ hold' = [hold EXCEPT ![t] = m_conns[n]]
  BY TakeConnFacts
<1>2. /\ \A i \in DOMAIN m_conns' :
            n + i \in DOMAIN m_conns /\ m_conns'[i] = m_conns[n + i]
      /\ \A j \in DOMAIN m_conns : j > n =>
            j - n \in DOMAIN m_conns' /\ m_conns'[j - n] = m_conns[j]
  <2>1. m_conns \in Seq(Conns)
    BY DEF PoolTypes
  <2>2. Later(Conns, m_conns, n, SubSeq(m_conns, n + 1, Len(m_conns)))
    BY <2>1, TakeFacts
  <2>3. Later(Conns, m_conns, n, m_conns')
    BY <1>1, <2>2
  <2>4. QED
    BY <2>3 DEF Later
<1>3. /\ invalid'[t] = {m_conns[i] : i \in 1..(n - 1)}
      /\ \A u \in Callers \ {t} : invalid'[u] = invalid[u]
  BY <1>1 DEF PoolTypes
<1>4. /\ \/ hold'[t] = None /\ n = Len(m_conns) + 1
         \/ n \in DOMAIN m_conns /\ hold'[t] = m_conns[n]
      /\ \A u \in Callers \ {t} : hold'[u] = hold[u]
  <2>1. hold \in [Callers -> Conns \cup {None}]
    BY DEF PoolTypes
  <2>2. CASE n = Len(m_conns) + 1 /\ hold' = [hold EXCEPT ![t] = None]
    BY <2>1, <2>2
  <2>3. CASE n \in DOMAIN m_conns /\ hold' = [hold EXCEPT ![t] = m_conns[n]]
    BY <2>1, <2>3
  <2>4. QED
    BY <1>1, <2>2, <2>3
<1>5. 1..(n - 1) \in SUBSET DOMAIN m_conns
  BY DEF PoolTypes
<1>6. /\ pc[t] = "idle" /\ pc'[t] = "drop" /\ conn' = conn /\ wire' = wire
      /\ m_total' = m_total /\ answer' = answer
      /\ \A u \in Callers \ {t} : pc'[u] = pc[u]
  BY DEF TakeConn, At, Goto, PoolTypes
<1>7. QED
  BY <1>2, <1>3, <1>4, <1>5, <1>6

\* ReleasePtr deletes the connection or gives it back.
LEMMA ReleaseFacts ==
    ASSUME NEW t, ReleasePtr(t)
    PROVE  \/ /\ conn' = [conn EXCEPT ![hold[t]] = "deleted"]
              /\ m_total' = m_total - 1 /\ m_conns' = m_conns
           \/ /\ conn[hold[t]] = "connected" /\ conn' = conn
              /\ m_total' = m_total /\ m_conns' = Append(m_conns, hold[t])
  BY DEF ReleasePtr

\* A caller in recvResponse waits for its own answer and no other.
LEMMA RecvFacts ==
    ASSUME PoolInv, NEW t \in Callers, pc[t] = "recv"
    PROVE  /\ hold[t] \in Conns /\ conn[hold[t]] = "connected"
           /\ wire[hold[t]] = <<t>>
<1>1. hold[t] # None /\ hold[t] \in Conns
  BY DEF PoolInv, PoolTypes, HoldInv
<1>2. conn[hold[t]] = "connected"
  BY <1>1 DEF PoolInv, HoldInv
<1>3. PICK u \in Callers : hold[u] = hold[t] /\ wire[hold[t]] = <<u>>
  BY <1>1, <1>2 DEF PoolInv, WireInv
<1>4. u = t
  BY <1>1, <1>3 DEF PoolInv, PlaceInv
<1>5. QED
  BY <1>1, <1>2, <1>3, <1>4

-----------------------------------------------------------------------------
(* The connection pool: every step keeps the invariant *)

LEMMA PoolInit == Init => PoolInv
<1> SUFFICES ASSUME Init PROVE PoolInv
  OBVIOUS
<1>1. PoolTypes /\ HoldInv /\ PlaceInv
  BY DEF Init, PoolTypes, PoolPlaces, HoldInv, PlaceInv
<1>2. WireInv /\ AnswersMatch
  BY DEF Init, WireInv, AnswersMatch
<1>3. Existing = {}
  BY DEF Init, Existing
<1>4. FoundInv /\ CountInv
  BY <1>3, FS_EmptySet DEF Init, FoundInv, CountInv
<1>5. QED
  BY <1>1, <1>2, <1>4 DEF PoolInv

LEMMA PoolTypesStep == PoolInv /\ [Next]_vars => PoolTypes'
<1> SUFFICES ASSUME PoolInv, [Next]_vars PROVE PoolTypes'
  OBVIOUS
<1> USE PoolAssumption DEF PoolInv, PoolTypes, PoolPlaces, HoldInv, Goto, At
<1>1. ASSUME NEW t \in Callers, TakeConn(t) PROVE PoolTypes'
  <2>1. PICK n \in 1..(Len(m_conns) + 1) :
             /\ invalid' = [invalid EXCEPT ![t] = {m_conns[i] : i \in 1..(n - 1)}]
             /\ m_conns' = SubSeq(m_conns, n + 1, Len(m_conns))
             /\ \/ n = Len(m_conns) + 1 /\ hold' = [hold EXCEPT ![t] = None]
                \/ n \in DOMAIN m_conns /\ hold' = [hold EXCEPT ![t] = m_conns[n]]
    BY <1>1, TakeConnFacts
  <2>2. m_conns' \in Seq(Conns)
    BY <2>1, TakeFacts
  <2>3. {m_conns[i] : i \in 1..(n - 1)} \in SUBSET Conns
    OBVIOUS
  <2>4. invalid' \in [Callers -> SUBSET Conns]
    BY <2>1, <2>3
  <2>5. hold' \in [Callers -> Conns \cup {None}]
    <3>1. CASE hold' = [hold EXCEPT ![t] = None]
      BY <3>1
    <3>2. CASE n \in DOMAIN m_conns /\ hold' = [hold EXCEPT ![t] = m_conns[n]]
      <4>1. m_conns[n] \in Conns
        BY <3>2
      <4>2. QED
        BY <3>2, <4>1
    <3>3. QED
      BY <2>1, <3>1, <3>2
  <2>6. QED
    BY <1>1, <2>2, <2>4, <2>5 DEF TakeConn
<1>2. ASSUME NEW t \in Callers, DropInvalid(t) PROVE PoolTypes'
  <2>1. Cardinality(invalid[t]) \in Nat
    <3>1. invalid[t] \in SUBSET Existing /\ IsFiniteSet(Existing)
      BY DEF Existing, CountInv
    <3>2. QED
      BY <3>1, FS_Subset, FS_CardinalityType
  <2>2. QED
    BY <1>2, <2>1 DEF DropInvalid
<1>3. ASSUME NEW t \in Callers, ConnectFails(t) PROVE PoolTypes'
  BY <1>3 DEF ConnectFails
<1>4. ASSUME NEW t \in Callers, NEW c \in Conns, Connect(t, c) PROVE PoolTypes'
  BY <1>4 DEF Connect
<1>5. ASSUME NEW t \in Callers, Send(t) PROVE PoolTypes'
  <2>1. hold[t] \in Conns
    BY <1>5 DEF Send
  <2>2. wire' \in [Conns -> Seq(Callers)]
    BY <1>5, <2>1 DEF Send
  <2>3. QED
    BY <1>5, <2>2 DEF Send
<1>6. ASSUME NEW t \in Callers, SendFails(t) PROVE PoolTypes'
  BY <1>6 DEF SendFails
<1>7. ASSUME NEW t \in Callers, Recv(t) PROVE PoolTypes'
  <2>1. hold[t] \in Conns /\ wire[hold[t]] = <<t>>
    BY <1>7, RecvFacts DEF Recv
  <2>2. Tail(wire[hold[t]]) \in Seq(Callers)
    BY <2>1
  <2>3. wire' \in [Conns -> Seq(Callers)]
    BY <1>7, <2>1, <2>2 DEF Recv
  <2>4. QED
    BY <1>7, <2>3 DEF Recv
<1>8. ASSUME NEW t \in Callers, RecvFails(t) PROVE PoolTypes'
  BY <1>8 DEF RecvFails
<1>9. ASSUME NEW t \in Callers, ReleasePtr(t) PROVE PoolTypes'
  <2>1. hold[t] \in Conns
    BY <1>9 DEF ReleasePtr
  <2>2. m_request' \in [Conns -> Nat]
    BY <1>9, <2>1 DEF ReleasePtr
  <2>3. CASE conn' = [conn EXCEPT ![hold[t]] = "deleted"]
             /\ m_total' = m_total - 1 /\ m_conns' = m_conns
    BY <1>9, <2>1, <2>2, <2>3 DEF ReleasePtr
  <2>4. CASE conn' = conn /\ m_total' = m_total
             /\ m_conns' = Append(m_conns, hold[t])
    BY <1>9, <2>1, <2>2, <2>4 DEF ReleasePtr
  <2>5. QED
    BY <1>9, <2>3, <2>4, ReleaseFacts
<1>10. CASE UNCHANGED vars
  BY <1>10 DEF vars
<1>11. QED
  BY <1>1, <1>2, <1>3, <1>4, <1>5, <1>6, <1>7, <1>8, <1>9, <1>10 DEF Next

\* Which places of doRequest have a connection, step by step.
LEMMA HoldStep == PoolInv /\ [Next]_vars => HoldInv'
<1> SUFFICES ASSUME PoolInv, [Next]_vars PROVE HoldInv'
  OBVIOUS
<1> USE PoolAssumption DEF PoolInv, PoolTypes, HoldInv, PlaceInv, Goto, At
<1>1. ASSUME NEW t \in Callers, TakeConn(t) PROVE HoldInv'
  <2>1. PICK n \in 1..(Len(m_conns) + 1) :
             /\ invalid'[t] = {m_conns[i] : i \in 1..(n - 1)}
             /\ 1..(n - 1) \in SUBSET DOMAIN m_conns
             /\ \/ hold'[t] = None /\ n = Len(m_conns) + 1
                \/ n \in DOMAIN m_conns /\ hold'[t] = m_conns[n]
             /\ \A i \in DOMAIN m_conns' :
                    n + i \in DOMAIN m_conns /\ m_conns'[i] = m_conns[n + i]
             /\ \A j \in DOMAIN m_conns : j > n =>
                    j - n \in DOMAIN m_conns' /\ m_conns'[j - n] = m_conns[j]
             /\ \A u \in Callers \ {t} :
                    hold'[u] = hold[u] /\ invalid'[u] = invalid[u]
                    /\ pc'[u] = pc[u]
             /\ pc[t] = "idle" /\ pc'[t] = "drop" /\ conn' = conn /\ wire' = wire
             /\ m_total' = m_total /\ answer' = answer
    BY <1>1, TakeStep DEF PoolInv
  <2> HIDE DEF HoldInv
  <2>2. ASSUME NEW u \in Callers, u # t
        PROVE  /\ hold'[u] = hold[u] /\ invalid'[u] = invalid[u]
               /\ pc'[u] = pc[u] /\ conn' = conn
    BY <2>1, <2>2
  <2>3. \A i \in 1..(n - 1) : conn[m_conns[i]] = "connected"
    BY <2>1
  <2>4. \A c \in invalid'[t] : conn'[c] = "connected"
    BY <2>1, <2>3
  <2>5. hold'[t] # None => conn'[hold'[t]] = "connected"
    BY <2>1
  <2>6. pc'[t] = "drop"
    BY <2>1
  <2> HIDE DEF PoolInv, PlaceInv
  <2>7. HoldInv
    BY DEF PoolInv
  <2>8. QED
    BY <2>2, <2>4, <2>5, <2>6, <2>7 DEF HoldInv
<1>2. ASSUME NEW t \in Callers, DropInvalid(t) PROVE HoldInv'
  BY <1>2 DEF DropInvalid
<1>3. ASSUME NEW t \in Callers, ConnectFails(t) PROVE HoldInv'
  BY <1>3 DEF ConnectFails
<1>4. ASSUME NEW t \in Callers, NEW c \in Conns, Connect(t, c) PROVE HoldInv'
  BY <1>4 DEF Connect
<1>5. ASSUME NEW t \in Callers, Send(t) PROVE HoldInv'
  <2>1. hold[t] \in Conns
    BY <1>5 DEF Send
  <2>2. QED
    BY <1>5, <2>1 DEF Send
<1>6. ASSUME NEW t \in Callers, SendFails(t) PROVE HoldInv'
  BY <1>6 DEF SendFails
<1>7. ASSUME NEW t \in Callers, Recv(t) PROVE HoldInv'
  <2>1. hold[t] \in Conns /\ wire[hold[t]] = <<t>>
    BY <1>7, RecvFacts DEF Recv
  <2>2. QED
    BY <1>7, <2>1 DEF Recv
<1>8. ASSUME NEW t \in Callers, RecvFails(t) PROVE HoldInv'
  <2>1. hold[t] \in Conns
    BY <1>8 DEF RecvFails
  <2>2. QED
    BY <1>8, <2>1 DEF RecvFails
<1>9. ASSUME NEW t \in Callers, ReleasePtr(t) PROVE HoldInv'
  <2>1. hold[t] \in Conns
    BY <1>9 DEF ReleasePtr
  <2>2. CASE conn' = [conn EXCEPT ![hold[t]] = "deleted"]
             /\ m_total' = m_total - 1 /\ m_conns' = m_conns
    BY <1>9, <2>1, <2>2 DEF ReleasePtr
  <2>3. CASE conn[hold[t]] = "connected" /\ conn' = conn /\ m_total' = m_total
             /\ m_conns' = Append(m_conns, hold[t])
    BY <1>9, <2>1, <2>3 DEF ReleasePtr
  <2>4. QED
    BY <1>9, <2>2, <2>3, ReleaseFacts
<1>10. CASE UNCHANGED vars
  BY <1>10 DEF vars
<1>11. QED
  BY <1>1, <1>2, <1>3, <1>4, <1>5, <1>6, <1>7, <1>8, <1>9, <1>10 DEF Next

\* No step puts a connection in two places.
LEMMA PlaceStep == PoolInv /\ [Next]_vars => PlaceInv'
<1> SUFFICES ASSUME PoolInv, [Next]_vars PROVE PlaceInv'
  OBVIOUS
<1> USE PoolAssumption DEF PoolInv, PoolTypes, HoldInv, PlaceInv, Goto, At
<1>1. ASSUME NEW t \in Callers, TakeConn(t) PROVE PlaceInv'
  <2>1. PICK n \in 1..(Len(m_conns) + 1) :
             /\ invalid'[t] = {m_conns[i] : i \in 1..(n - 1)}
             /\ 1..(n - 1) \in SUBSET DOMAIN m_conns
             /\ \/ hold'[t] = None /\ n = Len(m_conns) + 1
                \/ n \in DOMAIN m_conns /\ hold'[t] = m_conns[n]
             /\ \A i \in DOMAIN m_conns' :
                    n + i \in DOMAIN m_conns /\ m_conns'[i] = m_conns[n + i]
             /\ \A j \in DOMAIN m_conns : j > n =>
                    j - n \in DOMAIN m_conns' /\ m_conns'[j - n] = m_conns[j]
             /\ \A u \in Callers \ {t} :
                    hold'[u] = hold[u] /\ invalid'[u] = invalid[u]
                    /\ pc'[u] = pc[u]
             /\ pc[t] = "idle" /\ pc'[t] = "drop" /\ conn' = conn /\ wire' = wire
             /\ m_total' = m_total /\ answer' = answer
    BY <1>1, TakeStep DEF PoolInv
  <2>2. n \in Nat /\ \A i \in DOMAIN m_conns' : i \in Nat /\ i > 0
    <3>1. m_conns' \in Seq(Conns)
      BY PoolTypesStep DEF PoolTypes
    <3>2. QED
      BY <3>1
  <2>3. \A i \in DOMAIN m_conns' : conn'[m_conns'[i]] = "connected"
    BY <2>1
  <2>4. \A i, j \in DOMAIN m_conns' : m_conns'[i] = m_conns'[j] => i = j
    BY <2>1, <2>2
  <2>5. ASSUME NEW i \in DOMAIN m_conns', NEW u \in Callers
        PROVE  hold'[u] # m_conns'[i] /\ m_conns'[i] \notin invalid'[u]
    <3>1. n + i \in DOMAIN m_conns /\ m_conns'[i] = m_conns[n + i]
      BY <2>1
    <3>2. CASE u # t
      BY <2>1, <3>1, <3>2
    <3>3. CASE u = t
      <4>1. \A k \in 1..n : k # n + i
        BY <2>2
      <4>2. hold'[t] # m_conns'[i]
        BY <2>1, <3>1, <4>1
      <4>3. \A k \in 1..(n - 1) : m_conns[k] # m_conns[n + i]
        BY <2>1, <2>2, <3>1, <4>1
      <4>4. QED
        BY <2>1, <3>1, <3>3, <4>2, <4>3
    <3>4. QED
      BY <3>2, <3>3
  <2>6. ASSUME NEW u \in Callers, u # t
        PROVE  /\ hold'[t] # hold'[u] \/ hold'[t] = None
               /\ hold'[t] \notin invalid'[u] /\ hold'[u] \notin invalid'[t]
               /\ invalid'[t] \cap invalid'[u] = {}
               /\ hold'[u] = hold[u] /\ invalid'[u] = invalid[u]
    <3>1. hold'[u] = hold[u] /\ invalid'[u] = invalid[u]
      BY <2>1, <2>6
    <3>2. hold'[t] # hold[u] \/ hold'[t] = None
      BY <2>1
    <3>3. hold'[t] \notin invalid[u]
      BY <2>1
    <3>4. \A c \in invalid'[t] : c # hold[u] /\ c \notin invalid[u]
      BY <2>1
    <3>5. QED
      BY <3>1, <3>2, <3>3, <3>4
  <2>7. hold'[t] \notin invalid'[t]
    <3>1. \A k \in 1..(n - 1) : k # n
      BY <2>2
    <3>2. None \notin invalid'[t]
      BY <2>1
    <3>3. n \in DOMAIN m_conns => m_conns[n] \notin invalid'[t]
      BY <2>1, <3>1
    <3>4. QED
      BY <2>1, <3>2, <3>3
  <2>8. PlaceInv
    OBVIOUS
  <2> HIDE DEF PoolInv, PoolTypes, HoldInv, PlaceInv
  <2>9. QED
    BY <2>3, <2>4, <2>5, <2>6, <2>7, <2>8 DEF PlaceInv
<1>2. ASSUME NEW t \in Callers, DropInvalid(t) PROVE PlaceInv'
  BY <1>2 DEF DropInvalid
<1>3. ASSUME NEW t \in Callers, ConnectFails(t) PROVE PlaceInv'
  BY <1>3 DEF ConnectFails
<1>4. ASSUME NEW t \in Callers, NEW c \in Conns, Connect(t, c) PROVE PlaceInv'
  BY <1>4 DEF Connect
<1>5. ASSUME NEW t \in Callers, Send(t) PROVE PlaceInv'
  <2>1. hold[t] \in Conns
    BY <1>5 DEF Send
  <2>2. QED
    BY <1>5, <2>1 DEF Send
<1>6. ASSUME NEW t \in Callers, SendFails(t) PROVE PlaceInv'
  BY <1>6 DEF SendFails
<1>7. ASSUME NEW t \in Callers, Recv(t) PROVE PlaceInv'
  <2>1. hold[t] \in Conns /\ wire[hold[t]] = <<t>>
    BY <1>7, RecvFacts DEF Recv
  <2>2. QED
    BY <1>7, <2>1 DEF Recv
<1>8. ASSUME NEW t \in Callers, RecvFails(t) PROVE PlaceInv'
  <2>1. hold[t] \in Conns
    BY <1>8 DEF RecvFails
  <2>2. QED
    BY <1>8, <2>1 DEF RecvFails
<1>9. ASSUME NEW t \in Callers, ReleasePtr(t) PROVE PlaceInv'
  <2>1. hold[t] \in Conns
    BY <1>9 DEF ReleasePtr
  <2>2. CASE conn' = [conn EXCEPT ![hold[t]] = "deleted"]
             /\ m_total' = m_total - 1 /\ m_conns' = m_conns
    BY <1>9, <2>1, <2>2 DEF ReleasePtr
  <2>3. CASE conn[hold[t]] = "connected" /\ conn' = conn /\ m_total' = m_total
             /\ m_conns' = Append(m_conns, hold[t])
    <3>1. /\ DOMAIN m_conns' = 1..(Len(m_conns) + 1)
          /\ DOMAIN m_conns = 1..Len(m_conns) /\ Len(m_conns) \in Nat
          /\ \A i \in DOMAIN m_conns : m_conns'[i] = m_conns[i]
          /\ m_conns'[Len(m_conns) + 1] = hold[t]
      BY <2>1, <2>3
    <3>2. /\ hold'[t] = None /\ invalid' = invalid
          /\ \A u \in Callers \ {t} : hold'[u] = hold[u]
      BY <1>9 DEF ReleasePtr
    <3>3. hold[t] # None
      BY <2>1
    <3>4. \A i \in DOMAIN m_conns' : conn'[m_conns'[i]] = "connected"
      BY <2>3, <3>1
    <3>5. \A i, j \in DOMAIN m_conns' : m_conns'[i] = m_conns'[j] => i = j
      <4>1. \A i \in DOMAIN m_conns : m_conns[i] # hold[t]
        OBVIOUS
      <4>2. \A i, j \in DOMAIN m_conns : m_conns[i] = m_conns[j] => i = j
        OBVIOUS
      <4>3. \A i \in DOMAIN m_conns' : i \in DOMAIN m_conns \/ i = Len(m_conns) + 1
        BY <3>1
      <4> HIDE DEF PoolInv, PoolTypes, HoldInv, PlaceInv
      <4>4. QED
        BY <3>1, <4>1, <4>2, <4>3
    <3>6. ASSUME NEW u \in Callers, NEW i \in DOMAIN m_conns'
          PROVE  hold'[u] # m_conns'[i] /\ m_conns'[i] \notin invalid'[u]
      <4>1. CASE i = Len(m_conns) + 1
        BY <3>1, <3>2, <3>3, <4>1
      <4>2. CASE i \in DOMAIN m_conns
        <5>1. m_conns[i] # None
          BY <4>2
        <5>2. QED
          BY <3>1, <3>2, <4>2, <5>1
      <4>3. QED
        BY <3>1, <4>1, <4>2
    <3>7. \A u, w \in Callers :
             /\ hold'[u] # None /\ hold'[u] = hold'[w] => u = w
             /\ hold'[u] \notin invalid'[w]
             /\ u # w => invalid'[u] \cap invalid'[w] = {}
      BY <3>2
    <3> HIDE DEF PoolInv, PoolTypes, HoldInv
    <3>8. QED
      BY <3>4, <3>5, <3>6, <3>7 DEF PlaceInv
  <2>4. QED
    BY <1>9, <2>2, <2>3, ReleaseFacts
<1>10. CASE UNCHANGED vars
  BY <1>10 DEF vars
<1>11. QED
  BY <1>1, <1>2, <1>3, <1>4, <1>5, <1>6, <1>7, <1>8, <1>9, <1>10 DEF Next

\* No step leaves an answer outstanding on a connection others can use.
LEMMA WireStep == PoolInv /\ [Next]_vars => WireInv'
<1> SUFFICES ASSUME PoolInv, [Next]_vars PROVE WireInv'
  OBVIOUS
<1> USE PoolAssumption DEF PoolInv, PoolTypes, HoldInv, PlaceInv, WireInv,
        Goto, At
<1>1. ASSUME NEW t \in Callers, TakeConn(t) PROVE WireInv'
  <2>1. PICK n \in 1..(Len(m_conns) + 1) :
             /\ invalid'[t] = {m_conns[i] : i \in 1..(n - 1)}
             /\ 1..(n - 1) \in SUBSET DOMAIN m_conns
             /\ \/ hold'[t] = None /\ n = Len(m_conns) + 1
                \/ n \in DOMAIN m_conns /\ hold'[t] = m_conns[n]
             /\ \A i \in DOMAIN m_conns' :
                    n + i \in DOMAIN m_conns /\ m_conns'[i] = m_conns[n + i]
             /\ \A j \in DOMAIN m_conns : j > n =>
                    j - n \in DOMAIN m_conns' /\ m_conns'[j - n] = m_conns[j]
             /\ \A u \in Callers \ {t} :
                    hold'[u] = hold[u] /\ invalid'[u] = invalid[u]
                    /\ pc'[u] = pc[u]
             /\ pc[t] = "idle" /\ pc'[t] = "drop" /\ conn' = conn /\ wire' = wire
             /\ m_total' = m_total /\ answer' = answer
    BY <1>1, TakeStep DEF PoolInv
  <2> SUFFICES ASSUME NEW c \in Conns
               PROVE  /\ conn'[c] = "unmade" => wire'[c] = <<>>
                      /\ conn'[c] = "connected" =>
                           \/ /\ wire'[c] = <<>>
                              /\ \A u \in Callers : hold'[u] = c => pc'[u] # "recv"
                           \/ \E u \in Callers :
                                 /\ hold'[u] = c /\ pc'[u] = "recv"
                                 /\ wire'[c] = <<u>>
    OBVIOUS
  <2>2. pc'[t] = "drop" /\ pc[t] = "idle"
    BY <2>1
  <2>3. \A u \in Callers : pc[u] = "recv" <=> pc'[u] = "recv"
    BY <2>1
  <2>4. \A u \in Callers : pc[u] = "recv" => hold'[u] = hold[u]
    BY <2>1
  <2>5. conn' = conn /\ wire' = wire
    BY <2>1
  <2>6. WireInv
    OBVIOUS
  <2> HIDE DEF PoolInv, PoolTypes, HoldInv, PlaceInv, WireInv
  <2>7. QED
    BY <2>3, <2>4, <2>5, <2>6 DEF WireInv
<1>2. ASSUME NEW t \in Callers, DropInvalid(t) PROVE WireInv'
  BY <1>2 DEF DropInvalid
<1>3. ASSUME NEW t \in Callers, ConnectFails(t) PROVE WireInv'
  BY <1>3 DEF ConnectFails
<1>4. ASSUME NEW t \in Callers, NEW c \in Conns, Connect(t, c) PROVE WireInv'
  BY <1>4 DEF Connect
<1>5. ASSUME NEW t \in Callers, Send(t) PROVE WireInv'
  <2>1. hold[t] \in Conns
    BY <1>5 DEF Send
  <2>2. QED
    <3>1. conn[hold[t]] = "connected" /\ wire[hold[t]] = <<>>
      BY <1>5, <2>1 DEF Send
    <3>2. /\ wire'[hold[t]] = <<t>> /\ pc'[t] = "recv"
          /\ \A c \in Conns \ {hold[t]} : wire'[c] = wire[c]
          /\ \A u \in Callers \ {t} : pc'[u] = pc[u]
          /\ hold' = hold /\ conn' = conn
      BY <1>5, <2>1, <3>1 DEF Send
    <3>3. WireInv /\ pc[t] # "recv"
      BY <1>5 DEF Send
    <3> HIDE DEF PoolInv, PoolTypes, HoldInv, PlaceInv, WireInv
    <3>4. QED
      BY <2>1, <3>1, <3>2, <3>3 DEF WireInv
<1>6. ASSUME NEW t \in Callers, SendFails(t) PROVE WireInv'
  BY <1>6 DEF SendFails
<1>7. ASSUME NEW t \in Callers, Recv(t) PROVE WireInv'
  <2>1. hold[t] \in Conns /\ wire[hold[t]] = <<t>>
    BY <1>7, RecvFacts DEF Recv
  <2>2. QED
    BY <1>7, <2>1 DEF Recv
<1>8. ASSUME NEW t \in Callers, RecvFails(t) PROVE WireInv'
  <2>1. hold[t] \in Conns
    BY <1>8 DEF RecvFails
  <2>2. QED
    BY <1>8, <2>1 DEF RecvFails
<1>9. ASSUME NEW t \in Callers, ReleasePtr(t) PROVE WireInv'
  <2>1. hold[t] \in Conns
    BY <1>9 DEF ReleasePtr
  <2>2. CASE conn' = [conn EXCEPT ![hold[t]] = "deleted"]
             /\ m_total' = m_total - 1 /\ m_conns' = m_conns
    BY <1>9, <2>1, <2>2 DEF ReleasePtr
  <2>3. CASE conn[hold[t]] = "connected" /\ conn' = conn /\ m_total' = m_total
             /\ m_conns' = Append(m_conns, hold[t])
    BY <1>9, <2>1, <2>3 DEF ReleasePtr
  <2>4. QED
    BY <1>9, <2>2, <2>3, ReleaseFacts
<1>10. CASE UNCHANGED vars
  BY <1>10 DEF vars
<1>11. QED
  BY <1>1, <1>2, <1>3, <1>4, <1>5, <1>6, <1>7, <1>8, <1>9, <1>10 DEF Next

\* No step loses a connection.
LEMMA FoundStep == PoolInv /\ [Next]_vars => FoundInv'
<1> SUFFICES ASSUME PoolInv, [Next]_vars PROVE FoundInv'
  OBVIOUS
<1> USE PoolAssumption DEF PoolInv, PoolTypes, HoldInv, PlaceInv, FoundInv,
        Existing, Goto, At
<1>1. ASSUME NEW t \in Callers, TakeConn(t) PROVE FoundInv'
  <2>1. PICK n \in 1..(Len(m_conns) + 1) :
             /\ invalid'[t] = {m_conns[i] : i \in 1..(n - 1)}
             /\ 1..(n - 1) \in SUBSET DOMAIN m_conns
             /\ \/ hold'[t] = None /\ n = Len(m_conns) + 1
                \/ n \in DOMAIN m_conns /\ hold'[t] = m_conns[n]
             /\ \A i \in DOMAIN m_conns' :
                    n + i \in DOMAIN m_conns /\ m_conns'[i] = m_conns[n + i]
             /\ \A j \in DOMAIN m_conns : j > n =>
                    j - n \in DOMAIN m_conns' /\ m_conns'[j - n] = m_conns[j]
             /\ \A u \in Callers \ {t} :
                    hold'[u] = hold[u] /\ invalid'[u] = invalid[u]
                    /\ pc'[u] = pc[u]
             /\ pc[t] = "idle" /\ pc'[t] = "drop" /\ conn' = conn /\ wire' = wire
             /\ m_total' = m_total /\ answer' = answer
    BY <1>1, TakeStep DEF PoolInv
  <2> SUFFICES ASSUME NEW c \in Existing
               PROVE  \/ \E i \in DOMAIN m_conns' : m_conns'[i] = c
                      \/ \E u \in Callers : hold'[u] = c \/ c \in invalid'[u]
    BY <2>1
  <2>2. CASE \E i \in DOMAIN m_conns : m_conns[i] = c
    <3>1. PICK i \in DOMAIN m_conns : m_conns[i] = c
      BY <2>2
    <3>2. CASE i > n
      BY <2>1, <3>1, <3>2
    <3>3. CASE i = n
      <4>1. i # Len(m_conns) + 1
        BY <3>1
      <4>2. QED
        BY <2>1, <3>1, <3>3, <4>1
    <3>4. CASE i < n
      <4>1. i \in 1..(n - 1)
        BY <3>1, <3>4
      <4>2. c \in invalid'[t]
        BY <2>1, <3>1, <4>1
      <4>3. QED
        BY <4>2
    <3>5. QED
      BY <3>1, <3>2, <3>3, <3>4
  <2>3. CASE \E u \in Callers : hold[u] = c \/ c \in invalid[u]
    <3>1. PICK u \in Callers : hold[u] = c \/ c \in invalid[u]
      BY <2>3
    <3>2. u # t
      <4>1. hold[t] = None /\ invalid[t] = {} /\ c # None
        <5>1. pc[t] = "idle"
          BY <2>1
        <5>2. hold[t] = None /\ invalid[t] = {}
          BY <5>1
        <5>3. QED
          BY <5>2
      <4>2. QED
        BY <3>1, <4>1
    <3>3. hold'[u] = c \/ c \in invalid'[u]
      BY <2>1, <3>1, <3>2
    <3>4. QED
      BY <3>3
  <2>4. QED
    BY <2>2, <2>3
<1>2. ASSUME NEW t \in Callers, DropInvalid(t) PROVE FoundInv'
  <2> SUFFICES ASSUME NEW c \in Conns, conn'[c] \in {"connected", "closed"}
               PROVE  \/ \E i \in DOMAIN m_conns' : m_conns'[i] = c
                      \/ \E u \in Callers : hold'[u] = c \/ c \in invalid'[u]
    OBVIOUS
  <2>1. conn'[c] = conn[c] /\ c \notin invalid[t]
    BY <1>2 DEF DropInvalid
  <2>2. /\ m_conns' = m_conns /\ hold' = hold
        /\ \A u \in Callers \ {t} : invalid'[u] = invalid[u]
    BY <1>2 DEF DropInvalid
  <2>3. \/ \E i \in DOMAIN m_conns : m_conns[i] = c
        \/ \E u \in Callers : hold[u] = c \/ c \in invalid[u]
    BY <2>1
  <2>4. QED
    BY <2>1, <2>2, <2>3
<1>3. ASSUME NEW t \in Callers, ConnectFails(t) PROVE FoundInv'
  BY <1>3 DEF ConnectFails
<1>4. ASSUME NEW t \in Callers, NEW c \in Conns, Connect(t, c) PROVE FoundInv'
  <2>1. /\ \A d \in Conns \ {c} : conn'[d] = conn[d]
        /\ m_conns' = m_conns /\ invalid' = invalid
        /\ \A u \in Callers \ {t} : hold'[u] = hold[u]
        /\ hold'[t] = c /\ hold[t] = None
    <3>1. hold[t] = None
      BY <1>4 DEF Connect
    <3>2. QED
      BY <1>4, <3>1 DEF Connect
  <2>2. FoundInv
    OBVIOUS
  <2>3. None \notin Conns
    OBVIOUS
  <2> HIDE DEF PoolInv, PoolTypes, HoldInv, PlaceInv, FoundInv
  <2>4. QED
    BY <2>1, <2>2, <2>3 DEF FoundInv
<1>5. ASSUME NEW t \in Callers, Send(t) PROVE FoundInv'
  <2>1. hold[t] \in Conns
    BY <1>5 DEF Send
  <2>2. QED
    BY <1>5, <2>1 DEF Send
<1>6. ASSUME NEW t \in Callers, SendFails(t) PROVE FoundInv'
  BY <1>6 DEF SendFails
<1>7. ASSUME NEW t \in Callers, Recv(t) PROVE FoundInv'
  <2>1. hold[t] \in Conns /\ wire[hold[t]] = <<t>>
    BY <1>7, RecvFacts DEF Recv
  <2>2. QED
    BY <1>7, <2>1 DEF Recv
<1>8. ASSUME NEW t \in Callers, RecvFails(t) PROVE FoundInv'
  <2>1. hold[t] \in Conns
    BY <1>8 DEF RecvFails
  <2>2. QED
    <3>1. Existing' = Existing
      BY <1>8, <2>1 DEF RecvFails
    <3>2. m_conns' = m_conns /\ hold' = hold /\ invalid' = invalid /\ FoundInv
      BY <1>8 DEF RecvFails
    <3> HIDE DEF PoolInv, PoolTypes, HoldInv, PlaceInv, FoundInv, Existing
    <3>3. QED
      BY <3>1, <3>2 DEF FoundInv
<1>9. ASSUME NEW t \in Callers, ReleasePtr(t) PROVE FoundInv'
  <2>1. hold[t] \in Conns
    BY <1>9 DEF ReleasePtr
  <2>2. CASE conn' = [conn EXCEPT ![hold[t]] = "deleted"]
             /\ m_total' = m_total - 1 /\ m_conns' = m_conns
    BY <1>9, <2>1, <2>2 DEF ReleasePtr
  <2>3. CASE conn[hold[t]] = "connected" /\ conn' = conn /\ m_total' = m_total
             /\ m_conns' = Append(m_conns, hold[t])
    <3>1. /\ DOMAIN m_conns' = 1..(Len(m_conns) + 1)
          /\ DOMAIN m_conns = 1..Len(m_conns) /\ Len(m_conns) \in Nat
          /\ \A i \in DOMAIN m_conns : m_conns'[i] = m_conns[i]
          /\ m_conns'[Len(m_conns) + 1] = hold[t]
      BY <2>1, <2>3
    <3>2. /\ invalid' = invalid /\ conn' = conn
          /\ \A u \in Callers \ {t} : hold'[u] = hold[u]
      BY <1>9, <2>3 DEF ReleasePtr
    <3>3. FoundInv
      OBVIOUS
    <3>4. DOMAIN m_conns \in SUBSET DOMAIN m_conns'
          /\ Len(m_conns) + 1 \in DOMAIN m_conns'
      BY <3>1
    <3> HIDE DEF PoolInv, PoolTypes, HoldInv, PlaceInv, FoundInv
    <3>5. QED
      BY <3>1, <3>2, <3>3, <3>4 DEF FoundInv
  <2>4. QED
    BY <1>9, <2>2, <2>3, ReleaseFacts
<1>10. CASE UNCHANGED vars
  BY <1>10 DEF vars
<1>11. QED
  BY <1>1, <1>2, <1>3, <1>4, <1>5, <1>6, <1>7, <1>8, <1>9, <1>10 DEF Next

\* m_total is changed by every step that changes which connections exist.
LEMMA CountStep == PoolInv /\ [Next]_vars => CountInv'
<1> SUFFICES ASSUME PoolInv, [Next]_vars PROVE CountInv'
  OBVIOUS
<1>1. ASSUME Existing' = Existing, m_total' = m_total PROVE CountInv'
  BY <1>1 DEF PoolInv, CountInv
<1>2. ASSUME UNCHANGED <<conn, m_total>> PROVE CountInv'
  BY <1>1, <1>2 DEF Existing
<1>3. ASSUME NEW t \in Callers, DropInvalid(t) PROVE CountInv'
  <2>1. invalid[t] \in SUBSET Existing
    BY DEF PoolInv, PoolTypes, HoldInv, Existing
  <2>2. Existing' = Existing \ invalid[t]
    BY <1>3 DEF DropInvalid, Existing
  <2>3. IsFiniteSet(Existing) /\ m_total = Cardinality(Existing)
    BY DEF PoolInv, CountInv
  <2>4. m_total' = m_total - Cardinality(invalid[t])
    BY <1>3 DEF DropInvalid
  <2>5. Existing \cap invalid[t] = invalid[t]
    BY <2>1
  <2>6. IsFiniteSet(Existing \ invalid[t])
        /\ Cardinality(Existing \ invalid[t])
             = Cardinality(Existing) - Cardinality(invalid[t])
    BY <2>3, <2>5, FS_Difference
  <2>7. QED
    BY <2>2, <2>3, <2>4, <2>6 DEF CountInv
<1>4. ASSUME NEW t \in Callers, NEW c \in Conns, Connect(t, c) PROVE CountInv'
  <2>1. c \notin Existing
    BY <1>4 DEF Connect, Existing
  <2>2. Existing' = Existing \cup {c}
    BY <1>4 DEF Connect, Existing, PoolInv, PoolTypes
  <2>3. IsFiniteSet(Existing) /\ m_total = Cardinality(Existing)
    BY DEF PoolInv, CountInv
  <2>4. m_total' = m_total + 1
    BY <1>4 DEF Connect
  <2>5. QED
    BY <2>1, <2>2, <2>3, <2>4, FS_AddElement DEF CountInv
<1>5. ASSUME NEW t \in Callers, RecvFails(t) PROVE CountInv'
  <2>1. hold[t] \in Conns /\ conn[hold[t]] = "connected"
    BY <1>5, RecvFacts DEF RecvFails, At
  <2>2. Existing' = Existing
    BY <1>5, <2>1 DEF RecvFails, Existing, PoolInv, PoolTypes
  <2>3. m_total' = m_total
    BY <1>5 DEF RecvFails
  <2>4. QED
    BY <1>1, <2>2, <2>3
<1>6. ASSUME NEW t \in Callers, ReleasePtr(t) PROVE CountInv'
  <2>1. CASE conn' = [conn EXCEPT ![hold[t]] = "deleted"]
             /\ m_total' = m_total - 1
    <3>1. hold[t] # None
      BY <1>6 DEF ReleasePtr, At, PoolInv, HoldInv
    <3>2. hold[t] \in Existing
      BY <3>1 DEF PoolInv, PoolTypes, HoldInv, Existing
    <3>3. Existing' = Existing \ {hold[t]}
      BY <2>1, <3>2 DEF PoolInv, PoolTypes, Existing
    <3>4. IsFiniteSet(Existing) /\ m_total = Cardinality(Existing)
      BY DEF PoolInv, CountInv
    <3>5. QED
      BY <2>1, <3>2, <3>3, <3>4, FS_RemoveElement DEF CountInv
  <2>2. QED
    BY <1>2, <1>6, <2>1, ReleaseFacts
<1>7. ASSUME NEW t \in Callers,
             TakeConn(t) \/ ConnectFails(t) \/ Send(t) \/ SendFails(t) \/ Recv(t)
      PROVE  CountInv'
  BY <1>2, <1>7 DEF TakeConn, ConnectFails, Send, SendFails, Recv
<1>8. CASE UNCHANGED vars
  BY <1>2, <1>8 DEF vars
<1>9. QED
  BY <1>3, <1>4, <1>5, <1>6, <1>7, <1>8 DEF Next

\* The answer a caller reads is the head of a wire that holds its own only.
LEMMA AnswersStep == PoolInv /\ [Next]_vars => AnswersMatch'
<1> SUFFICES ASSUME PoolInv, [Next]_vars PROVE AnswersMatch'
  OBVIOUS
<1>1. ASSUME NEW t \in Callers, NEW a \in {t, None},
             answer' = [answer EXCEPT ![t] = a]
      PROVE  AnswersMatch'
  BY <1>1 DEF PoolInv, AnswersMatch
<1>2. ASSUME answer' = answer PROVE AnswersMatch'
  BY <1>2 DEF PoolInv, AnswersMatch
<1>3. ASSUME NEW t \in Callers, Recv(t) PROVE AnswersMatch'
  <2>1. wire[hold[t]] = <<t>>
    BY <1>3, RecvFacts DEF Recv, At
  <2>2. answer' = [answer EXCEPT ![t] = t]
    BY <1>3, <2>1 DEF Recv
  <2>3. QED
    BY <1>1, <2>2
<1>4. ASSUME NEW t \in Callers, Send(t) PROVE AnswersMatch'
  BY <1>1, <1>4 DEF Send
<1>5. CASE answer' = answer
  BY <1>2, <1>5
<1>6. QED
  BY <1>3, <1>4, <1>5 DEF Next, vars, TakeConn, DropInvalid, ConnectFails,
     Connect, SendFails, RecvFails, ReleasePtr

LEMMA PoolStep == PoolInv /\ [Next]_vars => PoolInv'
  BY PoolTypesStep, HoldStep, PlaceStep, WireStep, FoundStep, CountStep,
     AnswersStep DEF PoolInv

\* Where every connection that exists is.
LEMMA TotalFollows == PoolInv => TotalExact
<1> SUFFICES ASSUME PoolInv PROVE TotalExact
  OBVIOUS
<1> DEFINE places == Pooled \cup ({hold[t] : t \in Callers} \ {None})
                         \cup UNION {invalid[t] : t \in Callers}
<1>1. m_total = Cardinality(Existing)
  BY DEF PoolInv, CountInv
<1>2. ASSUME NEW c \in Existing PROVE c \in places
  <2>1. c # None
    BY PoolAssumption DEF Existing
  <2>2. QED
    BY <2>1 DEF PoolInv, FoundInv, Pooled
<1>3. ASSUME NEW c \in places PROVE c \in Existing
  <2>1. CASE c \in Pooled
    BY <2>1 DEF Pooled, PoolInv, PoolTypes, PlaceInv, Existing
  <2>2. CASE c \in {hold[t] : t \in Callers} \ {None}
    BY <2>2 DEF PoolInv, PoolTypes, HoldInv, Existing
  <2>3. CASE c \in UNION {invalid[t] : t \in Callers}
    BY <2>3 DEF PoolInv, PoolTypes, HoldInv, Existing
  <2>4. QED
    BY <2>1, <2>2, <2>3
<1>4. Existing = places
  BY <1>2, <1>3
<1>5. QED
  BY <1>1, <1>4 DEF TotalExact, Existing

LEMMA PoolAlways == Spec => []PoolInv
  BY PoolInit, PoolStep, PTL DEF Spec

\* For every number of callers, connections and requests, a caller of
\* doRequest is given the answer to its own request or none: a connection
\* with an answer outstanding never goes back to the pool.
THEOREM AnswersCorrect == Spec => []AnswersMatch
<1>1. PoolInv => AnswersMatch
  BY DEF PoolInv
<1>2. QED
  BY <1>1, PoolAlways, PTL

\* m_total is the number of connections that exist, and each of these is in
\* the pool, held by a caller or set aside to be deleted.
THEOREM TotalCorrect == Spec => []TotalExact
  BY PoolAlways, TotalFollows, PTL

-----------------------------------------------------------------------------
(* TcpServer: the inductive invariant *)

Running == {"check", "accept", "add", "wait"}
ServerTypes ==
    /\ m_socks \in SUBSET Addrs
    /\ closers \in Nat
    /\ sock \in [Addrs -> {"none", "listening", "closed"}]
    /\ loops \in [(1..MaxStarts) \X Addrs -> Running \cup {"none", "ended"}]

\* A loop that runs has a socket, and stop() will reach that socket or has
\* closed it, unless a failed bind() forgot it.
LoopInv ==
    /\ \A a \in m_socks : sock[a] # "none"
    /\ \A l \in (1..MaxStarts) \X Addrs : loops[l] \in Running =>
            /\ sock[l[2]] # "none"
            /\ l[2] \in dropped \cup m_socks \/ sock[l[2]] = "closed"

\* After the cancelAll of a socket only late loops wait on it.
LateInv ==
    /\ closing \subseteq Addrs /\ \A a \in closing : sock[a] # "none"
    /\ \A l \in (1..MaxStarts) \X Addrs :
            loops[l] = "wait" /\ (l[2] \in closing \/ sock[l[2]] = "closed")
                => l \in late

ServerInv == ServerTypes /\ LoopInv /\ LateInv /\ StopWakesLoops

LEMMA ServerInit == Server!Init => ServerInv
<1> SUFFICES ASSUME Server!Init PROVE ServerInv
  OBVIOUS
<1>1. ServerTypes /\ LoopInv /\ LateInv
  BY DEF Server!Init, ServerTypes, LoopInv, LateInv, Running
<1>2. StopWakesLoops
  BY DEF Server!Init, StopWakesLoops, Server!StopWakesLoops
<1>3. QED
  BY <1>1, <1>2 DEF ServerInv

LEMMA ServerStep == ServerInv /\ [Server!Next]_Server!vars => ServerInv'
<1> SUFFICES ASSUME ServerInv, [Server!Next]_Server!vars PROVE ServerInv'
  OBVIOUS
<1> USE DEF ServerInv, ServerTypes, LoopInv, LateInv, StopWakesLoops,
            Server!StopWakesLoops, Running
<1>1. ASSUME NEW as \in SUBSET Addrs, NEW fails \in SUBSET Addrs,
             Server!Bind(as, fails)
      PROVE  ServerInv'
  <2>1. /\ sock' \in [Addrs -> {"none", "listening", "closed"}]
        /\ UNCHANGED <<m_isStop, loops, closers, closing, late>>
    BY <1>1 DEF Server!Bind
  <2>2. \A a \in Addrs : sock[a] # "none" => sock'[a] = sock[a]
    BY <1>1 DEF Server!Bind
  <2>3. \/ m_socks' = m_socks \cup as /\ fails = {} /\ dropped' = dropped
        \/ m_socks' = {} /\ dropped' = dropped \cup m_socks \cup (as \ fails)
    BY <1>1 DEF Server!Bind
  <2>4. \A a \in as \ fails : sock'[a] = "listening"
    BY <1>1 DEF Server!Bind
  <2>5. /\ dropped \cup m_socks \subseteq dropped' \cup m_socks'
        /\ dropped \subseteq dropped'
    BY <2>3
  <2>6. m_socks' \in SUBSET Addrs /\ \A a \in m_socks' : sock'[a] # "none"
    BY <2>2, <2>3, <2>4
  <2>7. \A l \in (1..MaxStarts) \X Addrs : loops'[l] \in Running =>
            /\ sock'[l[2]] # "none"
            /\ l[2] \in dropped' \cup m_socks' \/ sock'[l[2]] = "closed"
    BY <2>1, <2>2, <2>5
  <2>8. StopWakesLoops'
    BY <2>1, <2>2, <2>5
  <2>9. /\ closing' \subseteq Addrs
        /\ \A a \in closing' : sock'[a] # "none"
    BY <2>1, <2>2
  <2>10. ASSUME NEW l \in (1..MaxStarts) \X Addrs, loops'[l] = "wait",
                l[2] \in closing' \/ sock'[l[2]] = "closed"
         PROVE  l \in late'
    <3>1. loops[l] = "wait" /\ l[2] \in Addrs /\ sock[l[2]] # "none"
      BY <2>1, <2>10
    <3>2. sock'[l[2]] = sock[l[2]]
      BY <2>2, <3>1
    <3>3. QED
      BY <2>1, <2>10, <3>1, <3>2
  <2>11. QED
    BY <2>1, <2>6, <2>7, <2>8, <2>9, <2>10
<1>2. CASE Server!Start
  BY <1>2 DEF Server!Start
<1>3. CASE Server!Stop
  BY <1>3 DEF Server!Stop
<1>4. CASE Server!ClearSocks
  BY <1>4 DEF Server!ClearSocks
<1>12. ASSUME NEW a \in Addrs, Server!CancelSock(a) PROVE ServerInv'
  BY <1>12 DEF Server!CancelSock, Server!Waiting
<1>13. ASSUME NEW a \in Addrs, Server!CloseSock(a) PROVE ServerInv'
  BY <1>13 DEF Server!CloseSock
<1>14. ASSUME NEW l \in DOMAIN loops, Server!AddEvent(l) PROVE ServerInv'
  BY <1>14 DEF Server!AddEvent
<1>15. ASSUME NEW l \in DOMAIN loops, Server!EventFires(l) PROVE ServerInv'
  BY <1>15 DEF Server!EventFires
<1>5. ASSUME NEW l \in DOMAIN loops, Server!Check(l) PROVE ServerInv'
  BY <1>5 DEF Server!Check
<1>6. ASSUME NEW l \in DOMAIN loops, Server!AcceptFails(l) PROVE ServerInv'
  BY <1>6 DEF Server!AcceptFails
<1>7. ASSUME NEW l \in DOMAIN loops, NEW c \in Clients, Server!Accept(l, c)
      PROVE  ServerInv'
  BY <1>7 DEF Server!Accept
<1>8. ASSUME UNCHANGED <<m_socks, m_isStop, sock, loops, closers, closing, late,
                         dropped>>
      PROVE  ServerInv'
  BY <1>8
<1>9. ASSUME \/ \E u \in Uris, s \in Servlets : Server!AddServlet(u, s)
             \/ \E u \in Uris : Server!DelServlet(u)
             \/ \E p \in Patterns, s \in Servlets : Server!AddGlobServlet(p, s)
             \/ \E p \in Patterns : Server!DelGlobServlet(p)
             \/ \E c \in Clients, u \in Uris : Server!HandleClient(c, u)
             \/ \E l \in DOMAIN loops : Server!AddEventAborts(l)
      PROVE  ServerInv'
  <2> HIDE DEF ServerInv
  <2>1. UNCHANGED <<m_socks, m_isStop, sock, loops, closers, closing, late,
                    dropped>>
    BY <1>9 DEF Server!AddEventAborts, Server!AddServlet, Server!DelServlet, Server!AddGlobServlet,
       Server!DelGlobServlet, Server!HandleClient, Server!server
  <2>2. QED
    BY <1>8, <2>1
<1>10. CASE UNCHANGED Server!vars
  <2> HIDE DEF ServerInv
  <2>1. QED
    BY <1>8, <1>10 DEF Server!vars, Server!server
<1> HIDE DEF ServerInv
<1>11. QED
  BY <1>1, <1>2, <1>3, <1>4, <1>5, <1>6, <1>7, <1>9, <1>10, <1>12, <1>13, <1>14,
     <1>15 DEF Server!Next

\* Once the last task of stop() has ended, no accept loop of a stopped server
\* is left in accept(), but for sockets a failed bind() forgot and for loops
\* that registered their event between the cancelAll and the close_f of their
\* socket (hook.cc:343-347): for every number of addresses and of starts.
THEOREM StopCorrect == Server!Spec => []StopWakesLoops
<1>1. ServerInv => StopWakesLoops
  BY DEF ServerInv
<1>2. QED
  BY <1>1, ServerInit, ServerStep, PTL DEF Server!Spec

-----------------------------------------------------------------------------
(* The servlets *)

\* m_globs has one entry for each pattern that has a servlet, the current one.
GlobTypes ==
    /\ m_globs \in Seq(Patterns \X Servlets)
    /\ current \in [Patterns -> Servlets \cup {NotFound}]
GlobInv ==
    /\ \A i \in DOMAIN m_globs : current[m_globs[i][1]] = m_globs[i][2]
    /\ \A i, j \in DOMAIN m_globs : m_globs[i][1] = m_globs[j][1] => i = j
    /\ \A p \in Patterns : current[p] # NotFound =>
            \E i \in DOMAIN m_globs : m_globs[i][1] = p

\* addGlobServlet and delGlobServlet erase the one entry of the pattern.
LEMMA EraseFacts ==
    ASSUME GlobTypes, GlobInv, NEW p \in Patterns
    PROVE  LET r == Server!EraseGlob(p)
           IN  /\ r \in Seq(Patterns \X Servlets)
               /\ \A k \in DOMAIN r : r[k][1] # p /\ current[r[k][1]] = r[k][2]
               /\ \A k, n \in DOMAIN r : r[k][1] = r[n][1] => k = n
               /\ \A q \in Patterns \ {p} : current[q] # NotFound =>
                        \E k \in DOMAIN r : r[k][1] = q
<1> DEFINE hits == {i \in DOMAIN m_globs : m_globs[i][1] = p}
           x == IF hits = {} THEN 0 ELSE CHOOSE i \in hits : \A j \in hits : i <= j
           r == Server!Without(m_globs, x)
<1>1. Server!EraseGlob(p) = r
  BY DEF Server!EraseGlob, Server!First
<1>2. m_globs \in Seq(Patterns \X Servlets) /\ DOMAIN m_globs \in SUBSET Nat
  BY DEF GlobTypes
<1>3. CASE hits = {}
  <2>1. r = m_globs
    BY <1>3 DEF Server!Without
  <2>2. \A k \in DOMAIN m_globs : m_globs[k][1] # p
    BY <1>3
  <2> HIDE DEF r
  <2>3. QED
    BY <1>1, <1>2, <2>1, <2>2 DEF GlobInv
<1>4. CASE hits # {}
  <2>1. hits \in SUBSET Nat
    BY <1>2
  <2>2. x \in hits
    BY <1>4, <2>1, LeastNat
  <2>3. x \in DOMAIN m_globs /\ m_globs[x][1] = p
    BY <2>2
  <2> HIDE DEF x
  <2>4. /\ r \in Seq(Patterns \X Servlets)
        /\ \A k \in DOMAIN r :
             \E j \in DOMAIN m_globs :
                j = (IF k < x THEN k ELSE k + 1) /\ r[k] = m_globs[j]
        /\ \A j \in DOMAIN m_globs : j # x => \E k \in DOMAIN r : r[k] = m_globs[j]
    <3>1. x # 0
      BY <1>2, <2>3
    <3>2. Server!Without(m_globs, x)
            = SubSeq(m_globs, 1, x - 1) \o SubSeq(m_globs, x + 1, Len(m_globs))
      BY <3>1, Zenon DEF Server!Without
    <3>3. Erased(Patterns \X Servlets, m_globs, x, r)
      BY <1>2, <2>3, <3>2, RemoveAt, Zenon
    <3>4. QED
      BY <3>3, Zenon DEF Erased
  <2> HIDE DEF r, hits
  <2>5. DOMAIN r \in SUBSET Nat /\ x \in Nat
    BY <1>2, <2>3, <2>4
  <2>6. ASSUME NEW k \in DOMAIN r PROVE r[k][1] # p /\ current[r[k][1]] = r[k][2]
    <3>1. PICK j \in DOMAIN m_globs :
                j = (IF k < x THEN k ELSE k + 1) /\ r[k] = m_globs[j]
      BY <2>4
    <3>2. j # x
      BY <2>5, <3>1
    <3>3. QED
      BY <2>3, <3>1, <3>2 DEF GlobInv
  <2>7. ASSUME NEW k \in DOMAIN r, NEW n \in DOMAIN r,
               r[k][1] = r[n][1] PROVE k = n
    <3>1. PICK j \in DOMAIN m_globs :
                j = (IF k < x THEN k ELSE k + 1) /\ r[k] = m_globs[j]
      BY <2>4
    <3>2. PICK m \in DOMAIN m_globs :
                m = (IF n < x THEN n ELSE n + 1) /\ r[n] = m_globs[m]
      BY <2>4
    <3>3. j = m
      BY <2>7, <3>1, <3>2 DEF GlobInv
    <3>4. QED
      BY <2>5, <3>1, <3>2, <3>3
  <2>8. ASSUME NEW q \in Patterns \ {p}, current[q] # NotFound
        PROVE  \E k \in DOMAIN r : r[k][1] = q
    <3>1. PICK j \in DOMAIN m_globs : m_globs[j][1] = q
      BY <2>8 DEF GlobInv
    <3>2. QED
      BY <2>3, <2>4, <3>1
  <2>9. QED
    BY <1>1, <2>4, <2>6, <2>7, <2>8
<1>5. QED
  BY <1>3, <1>4

LEMMA GlobInit == Server!Init => GlobTypes /\ GlobInv
  BY DEF Server!Init, GlobTypes, GlobInv

LEMMA GlobStep ==
    GlobTypes /\ GlobInv /\ [Server!Next]_Server!vars => GlobTypes' /\ GlobInv'
<1> SUFFICES ASSUME GlobTypes, GlobInv, [Server!Next]_Server!vars
             PROVE  GlobTypes' /\ GlobInv'
  OBVIOUS
<1>1. ASSUME UNCHANGED <<m_globs, current>> PROVE GlobTypes' /\ GlobInv'
  BY <1>1 DEF GlobTypes, GlobInv
<1>2. ASSUME NEW p \in Patterns, Server!DelGlobServlet(p)
      PROVE  GlobTypes' /\ GlobInv'
  <2> DEFINE r == Server!EraseGlob(p)
  <2>1. m_globs' = r /\ current' = [current EXCEPT ![p] = NotFound]
    BY <1>2 DEF Server!DelGlobServlet
  <2>2. /\ r \in Seq(Patterns \X Servlets)
        /\ \A k \in DOMAIN r : r[k][1] # p /\ current[r[k][1]] = r[k][2]
        /\ \A k, n \in DOMAIN r : r[k][1] = r[n][1] => k = n
        /\ \A q \in Patterns \ {p} : current[q] # NotFound =>
                 \E k \in DOMAIN r : r[k][1] = q
    BY EraseFacts
  <2> HIDE DEF r
  <2>3. /\ current' \in [Patterns -> Servlets \cup {NotFound}]
        /\ current'[p] = NotFound
        /\ \A q \in Patterns \ {p} : current'[q] = current[q]
    BY <2>1 DEF GlobTypes
  <2>4. \A k \in DOMAIN r : r[k][1] \in Patterns
    BY <2>2
  <2>5. QED
    BY <2>1, <2>2, <2>3, <2>4 DEF GlobTypes, GlobInv
<1>3. ASSUME NEW p \in Patterns, NEW s \in Servlets,
             Server!AddGlobServlet(p, s)
      PROVE  GlobTypes' /\ GlobInv'
  <2> DEFINE r == Server!EraseGlob(p)
             g == Append(r, <<p, s>>)
  <2>1. m_globs' = g /\ current' = [current EXCEPT ![p] = s]
    BY <1>3 DEF Server!AddGlobServlet
  <2>2. /\ r \in Seq(Patterns \X Servlets)
        /\ \A k \in DOMAIN r : r[k][1] # p /\ current[r[k][1]] = r[k][2]
        /\ \A k, n \in DOMAIN r : r[k][1] = r[n][1] => k = n
        /\ \A q \in Patterns \ {p} : current[q] # NotFound =>
                 \E k \in DOMAIN r : r[k][1] = q
    BY EraseFacts
  <2> HIDE DEF r
  <2>3. /\ g \in Seq(Patterns \X Servlets)
        /\ DOMAIN g = DOMAIN r \cup {Len(r) + 1}
        /\ Len(r) + 1 \notin DOMAIN r
        /\ \A k \in DOMAIN r : g[k] = r[k]
        /\ g[Len(r) + 1] = <<p, s>>
    BY <2>2
  <2> HIDE DEF g
  <2>4. /\ current' \in [Patterns -> Servlets \cup {NotFound}]
        /\ current'[p] = s
        /\ \A q \in Patterns \ {p} : current'[q] = current[q]
    BY <2>1 DEF GlobTypes
  <2>5. \A k \in DOMAIN r : r[k][1] \in Patterns
    BY <2>2
  <2>6. \A k \in DOMAIN g : current'[g[k][1]] = g[k][2]
    BY <2>2, <2>3, <2>4, <2>5
  <2>7. \A k, n \in DOMAIN g : g[k][1] = g[n][1] => k = n
    BY <2>2, <2>3
  <2>8. \A q \in Patterns : current'[q] # NotFound => \E k \in DOMAIN g : g[k][1] = q
    BY <2>2, <2>3, <2>4
  <2>9. QED
    BY <2>1, <2>3, <2>4, <2>6, <2>7, <2>8 DEF GlobTypes, GlobInv
<1>4. ASSUME Server!Next, ~UNCHANGED <<m_globs, current>>
      PROVE  \/ \E p \in Patterns, s \in Servlets : Server!AddGlobServlet(p, s)
             \/ \E p \in Patterns : Server!DelGlobServlet(p)
  BY <1>4 DEF Server!Next, Server!Bind, Server!Start, Server!Stop,
     Server!CancelSock, Server!CloseSock, Server!ClearSocks, Server!Check,
     Server!AcceptFails, Server!Accept, Server!AddEvent, Server!AddEventAborts,
     Server!EventFires,
     Server!AddServlet, Server!DelServlet, Server!HandleClient, Server!dispatch
<1>5. CASE UNCHANGED Server!vars
  BY <1>1, <1>5 DEF Server!vars, Server!dispatch
<1>6. QED
  BY <1>1, <1>2, <1>3, <1>4, <1>5

\* The first entry that matches is a current one.
LEMMA MatchFacts ==
    ASSUME GlobTypes, GlobInv, NEW u \in Uris \ DOMAIN m_datas
    PROVE  LET s == Server!getMatchedServlet(u)
           IN  IF s = NotFound
               THEN \A p \in Patterns : <<p, u>> \in Matches => current[p] = s
               ELSE \E p \in Patterns : <<p, u>> \in Matches /\ current[p] = s
<1> DEFINE hits == {i \in DOMAIN m_globs : <<m_globs[i][1], u>> \in Matches}
           x == IF hits = {} THEN 0 ELSE CHOOSE i \in hits : \A j \in hits : i <= j
           s == Server!getMatchedServlet(u)
<1>1. s = IF x = 0 THEN NotFound ELSE m_globs[x][2]
  BY DEF Server!getMatchedServlet, Server!First
<1> HIDE DEF s
<1>2. m_globs \in Seq(Patterns \X Servlets) /\ DOMAIN m_globs = 1..Len(m_globs)
      /\ Len(m_globs) \in Nat
  BY DEF GlobTypes
<1>3. CASE hits = {}
  <2>1. s = NotFound
    BY <1>1, <1>3
  <2>2. \A i \in DOMAIN m_globs : <<m_globs[i][1], u>> \notin Matches
    BY <1>3
  <2> HIDE DEF hits
  <2>3. QED
    BY <2>1, <2>2 DEF s, GlobInv
<1>4. CASE hits # {}
  <2>1. hits \in SUBSET Nat
    BY <1>2
  <2>2. x \in hits
    BY <1>4, <2>1, LeastNat
  <2>3. x \in DOMAIN m_globs /\ <<m_globs[x][1], u>> \in Matches
    BY <2>2
  <2> HIDE DEF x
  <2>4. x # 0 /\ m_globs[x] \in Patterns \X Servlets
    BY <1>2, <2>3
  <2>5. s = m_globs[x][2]
    BY <1>1, <2>4
  <2>6. /\ m_globs[x][1] \in Patterns /\ s # NotFound
        /\ current[m_globs[x][1]] = s
    BY <2>3, <2>4, <2>5, ServletAssumption DEF GlobInv
  <2> HIDE DEF hits
  <2>7. QED
    BY <2>3, <2>6 DEF s
<1>5. QED
  BY <1>3, <1>4

\* A request whose uri has no servlet of its own is answered by the servlet
\* last registered for a pattern that matches it, by NotFound only if there
\* is none: for every set of patterns, servlets and uris.
THEOREM DispatchCorrect == Server!Spec => []DispatchCurrent
<1>1. GlobTypes /\ GlobInv => DispatchCurrent
  BY MatchFacts DEF DispatchCurrent, Server!DispatchCurrent
<1>2. QED
  BY <1>1, GlobInit, GlobStep, PTL DEF Server!Spec

-----------------------------------------------------------------------------
(* The parser *)

\* What the digits of a length stand for, and the function Number is made of.
ValueOf(c) == CHOOSE d \in 0..9 : Parser!Digit[d + 1] = c
IsNumber(s, n, g) ==
    g = [i \in 0..n |-> IF i = 0 THEN 0 ELSE 10 * g[i - 1] + ValueOf(s[i])]

LEMMA NumberOf ==
    ASSUME NEW s, NEW n \in Nat, Len(s) = n, NEW f, IsNumber(s, n, f)
    PROVE  \E g : IsNumber(s, n, g) /\ Parser!Number(s) = g[n]
<1> DEFINE g == CHOOSE h : IsNumber(s, Len(s), h)
<1>1. IsNumber(s, Len(s), g)
  BY Zenon
<1>2. Parser!Number(s) = g[Len(s)]
  BY DEF Parser!Number, IsNumber, ValueOf
<1>3. QED
  BY <1>1, <1>2

\* The digits of the lengths.
LEMMA DigitOf ==
    /\ (CHOOSE d \in 0..9 : Parser!Digit[d + 1] = "0") = 0
    /\ (CHOOSE d \in 0..9 : Parser!Digit[d + 1] = "2") = 2
<1>1. \A d \in 0..9 : Parser!Digit[d + 1] = "0" <=> d = 0
  BY DEF Parser!Digit
<1>2. \A d \in 0..9 : Parser!Digit[d + 1] = "2" <=> d = 2
  BY DEF Parser!Digit
<1>3. \A d \in 0..9 : Parser!Digit[d + 1] = "0" <=> d = 0
  BY <1>1
<1>4. (CHOOSE d \in 0..9 : Parser!Digit[d + 1] = "0")
         = (CHOOSE d \in 0..9 : d = 0)
  BY <1>1
<1>5. (CHOOSE d \in 0..9 : Parser!Digit[d + 1] = "2")
         = (CHOOSE d \in 0..9 : d = 2)
  BY <1>2
<1>6. QED
  BY <1>4, <1>5

LEMMA Numbers ==
    /\ Parser!Number(<<"0">>) = 0
    /\ Parser!Number(<<"2">>) = 2
    /\ Parser!Number(<<"2", "2">>) = 22
<1>1. ValueOf("0") = 0 /\ ValueOf("2") = 2
  BY DigitOf DEF ValueOf
<1>2. Parser!Number(<<"0">>) = 0
  <2> DEFINE s == <<"0">>
             f == [i \in 0..1 |-> 0]
  <2>1. Len(s) = 1 /\ s[1] = "0"
    OBVIOUS
  <2>2. IsNumber(s, 1, f)
    BY <1>1, <2>1 DEF IsNumber
  <2> HIDE DEF f, s
  <2>3. PICK g : IsNumber(s, 1, g) /\ Parser!Number(s) = g[1]
    BY NumberOf, <2>1, <2>2
  <2>4. g[0] = 0 /\ g[1] = 10 * g[0] + ValueOf(s[1])
    BY <2>3 DEF IsNumber
  <2>5. QED
    BY <1>1, <2>1, <2>3, <2>4 DEF s
<1>3. Parser!Number(<<"2">>) = 2
  <2> DEFINE s == <<"2">>
             f == [i \in 0..1 |-> IF i = 0 THEN 0 ELSE 2]
  <2>1. Len(s) = 1 /\ s[1] = "2"
    OBVIOUS
  <2>2. IsNumber(s, 1, f)
    BY <1>1, <2>1 DEF IsNumber
  <2> HIDE DEF f, s
  <2>3. PICK g : IsNumber(s, 1, g) /\ Parser!Number(s) = g[1]
    BY NumberOf, <2>1, <2>2
  <2>4. g[0] = 0 /\ g[1] = 10 * g[0] + ValueOf(s[1])
    BY <2>3 DEF IsNumber
  <2>5. QED
    BY <1>1, <2>1, <2>3, <2>4 DEF s
<1>4. Parser!Number(<<"2", "2">>) = 22
  <2> DEFINE s == <<"2", "2">>
             f == [i \in 0..2 |-> IF i = 0 THEN 0 ELSE IF i = 1 THEN 2 ELSE 22]
  <2>1. Len(s) = 2 /\ s[1] = "2" /\ s[2] = "2"
    OBVIOUS
  <2>2. IsNumber(s, 2, f)
    BY <1>1, <2>1 DEF IsNumber
  <2> HIDE DEF f, s
  <2>3. PICK g : IsNumber(s, 2, g) /\ Parser!Number(s) = g[2]
    BY NumberOf, <2>1, <2>2
  <2>4. g[0] = 0 /\ g[1] = 10 * g[0] + ValueOf(s[1]) /\ g[2] = 10 * g[1] + ValueOf(s[2])
    BY <2>3 DEF IsNumber
  <2>5. QED
    BY <1>1, <2>1, <2>3, <2>4 DEF s
<1>5. QED
  BY <1>2, <1>3, <1>4

BodyStates == {"s_body_identity", "s_body_identity_eof", "s_chunk_data",
               "s_chunk_data_almost_done"}
ChunkStates == {"s_chunk_size_start", "s_chunk_data",
                "s_chunk_data_almost_done"}
EndStates == {"s_start", Parser!Dead}
\* From the start line to the empty line behind the headers.
InHead(s) == s \notin BodyStates \cup ChunkStates \cup EndStates

ParserTypes ==
    /\ DOMAIN hp = {"type", "state", "flags", "content_length", "method",
                    "status", "minor", "upgrade", "header", "value", "rest"}
    /\ DOMAIN data = {"path", "headers", "body", "field", "finished", "close"}
    /\ DOMAIN sent = {"messages", "lines", "url", "body", "announced", "cut",
                      "folded"}
    /\ data.body \in Seq(Nat) /\ sent.body \in Seq(Nat)
    /\ sent.messages \in Nat
    /\ mark.of = "body" => mark.text \in Seq(Nat)

\* The bytes since the mark are still to be delivered.
Marked == IF mark.of = "body" THEN mark.text ELSE <<>>
BytesInv ==
    /\ mark.of = "body" => hp.state \in BodyStates
    /\ data.body \o Marked = sent.body

\* Digits of Content-Length are still to be read.
Pending == /\ hp.state = "s_header_value" /\ hp.header = Parser!ContentLength
           /\ hp.rest # <<>>
ModeInv ==
    /\ sent.messages = 0 => hp.state = "s_start" /\ sent.body = <<>>
    /\ hp.type # "HTTP_REQUEST" => hp.method # "CONNECT"
    /\ hp.state = "s_header_value_lws" => hp.rest = <<>>
    /\ sent.messages = 1 =>
        /\ "F_TRAILING" \in hp.flags => "F_CHUNKED" \in hp.flags
        /\ hp.state \in ChunkStates => "F_CHUNKED" \in hp.flags
        /\ InHead(hp.state) /\ "F_CHUNKED" \notin hp.flags => sent.body = <<>>
\* The length of the first message: as announced, less the bytes read.
LengthInv ==
    /\ sent.messages = 1
    /\ "F_CONTENTLENGTH" \in hp.flags /\ "F_CHUNKED" \notin hp.flags
    =>  /\ InHead(hp.state) /\ ~Pending =>
                /\ hp.content_length = sent.announced
                /\ hp.content_length \in Nat /\ hp.content_length # UMax
        /\ Pending => /\ hp.content_length = 2 /\ sent.announced = 22
                      /\ hp.rest = <<"2">>
        /\ hp.state = "s_body_identity" =>
                /\ hp.content_length \in Nat \ {0}
                /\ hp.content_length + Len(sent.body) = sent.announced
        /\ hp.state \in EndStates =>
                Len(sent.body) = sent.announced \/ Parser!Upgraded
ParserInv == ParserTypes /\ BytesInv /\ ModeInv /\ LengthInv

\* The callbacks leave all but their own field alone; on_body takes the mark.
LEMMA DeliverFacts ==
    ASSUME ParserTypes, BytesInv
    PROVE  /\ DOMAIN Parser!Deliver(mark) = DOMAIN data
           /\ Parser!Deliver(mark).body = sent.body
           /\ mark.of # "body" => data.body = sent.body
<1> USE DEF ParserTypes
<1>1. ASSUME NEW t
      PROVE  /\ DOMAIN Parser!on_url(t) = DOMAIN data
             /\ Parser!on_url(t).body = data.body
  BY DEF Parser!on_url
<1>2. ASSUME NEW t
      PROVE  /\ DOMAIN Parser!on_header_field(t) = DOMAIN data
             /\ Parser!on_header_field(t).body = data.body
  BY DEF Parser!on_header_field
<1>3. ASSUME NEW t
      PROVE  /\ DOMAIN Parser!on_header_value(t) = DOMAIN data
             /\ Parser!on_header_value(t).body = data.body
  BY DEF Parser!on_header_value
<1>4. /\ DOMAIN Parser!on_body(mark.text) = DOMAIN data
      /\ Parser!on_body(mark.text).body = data.body \o mark.text
  BY DEF Parser!on_body
<1>5. mark.of # "body" => data.body = sent.body
  <2> SUFFICES ASSUME mark.of # "body" PROVE data.body = sent.body
    OBVIOUS
  <2>1. data.body \o <<>> = sent.body
    BY DEF BytesInv, Marked
  <2>2. data.body \in Seq(Nat)
    BY DEF ParserTypes
  <2>3. data.body \o <<>> = data.body
    BY <2>2, WithNothing
  <2>4. QED
    BY <2>1, <2>3
<1>6. mark.of = "body" => data.body \o mark.text = sent.body
  BY DEF BytesInv, Marked
<1>7. QED
  BY <1>1, <1>2, <1>3, <1>4, <1>5, <1>6 DEF Parser!Deliver

\* A parser that has just been made.
LEMMA FreshFacts ==
    ASSUME ParserInv, Parser!Fresh
    PROVE  ParserInv'
<1> USE DEF Parser!Fresh, Parser!NewParser, Parser!NewData, Parser!NewSent,
            Parser!NoMark
<1>1. ParserTypes'
  BY DEF ParserTypes
<1>2. BytesInv'
  BY DEF BytesInv, Marked
<1>3. ModeInv' /\ LengthInv'
  BY DEF ModeInv, LengthInv, Pending, InHead, EndStates, BodyStates,
     ChunkStates
<1>4. QED
  BY <1>1, <1>2, <1>3 DEF ParserInv

LEMMA ParserInit == Parser!Init => ParserInv
<1> SUFFICES ASSUME Parser!Init PROVE ParserInv
  OBVIOUS
<1> USE DEF Parser!Init, Parser!NewParser, Parser!NewData, Parser!NewSent,
            Parser!NoMark
<1>1. ParserTypes
  BY DEF ParserTypes
<1>2. BytesInv
  BY DEF BytesInv, Marked
<1>3. ModeInv /\ LengthInv
  BY DEF ModeInv, LengthInv, Pending, InHead, EndStates, BodyStates,
     ChunkStates
<1>4. QED
  BY <1>1, <1>2, <1>3 DEF ParserInv

UrlResults ==
    {Parser!Dead, "s_req_path", "s_req_schema", "s_req_server",
     "s_req_server_with_at", "s_req_query_string_start", "s_req_query_string",
     "s_req_fragment_start"}
\* The characters of a URL lead to no state past the URL.
LEMMA UrlStateFacts ==
    ASSUME NEW ch,
           NEW s \in {"s_req_spaces_before_url", "s_req_server_start"}
                        \cup Parser!UrlStates
    PROVE  Parser!parse_url_char(s, ch) \in UrlResults
<1>1. Parser!parse_server_char(s, ch) \in UrlResults
  BY DEF Parser!parse_server_char, UrlResults
<1>2. QED
  BY <1>1 DEF Parser!parse_url_char, UrlResults, Parser!UrlStates

\* A step within the start line or the headers.
LEMMA HeadKeeps ==
    ASSUME ParserInv, InHead(hp.state), InHead(hp'.state),
           DOMAIN hp' = DOMAIN hp, DOMAIN data' = DOMAIN data,
           DOMAIN sent' = DOMAIN sent,
           data'.body = sent.body, sent'.body = sent.body, mark'.of # "body",
           sent'.messages = sent.messages, hp'.type = hp.type,
           hp'.method = hp.method, hp.flags \subseteq hp'.flags,
           "F_TRAILING" \in hp'.flags => "F_TRAILING" \in hp.flags,
           hp'.state = "s_header_value_lws" => hp'.rest = <<>>
    PROVE  /\ ParserTypes' /\ BytesInv' /\ ModeInv'
           /\ /\ ~Pending /\ ~Pending'
              /\ "F_CONTENTLENGTH" \in hp'.flags
                    => "F_CONTENTLENGTH" \in hp.flags
              /\ hp'.content_length = hp.content_length
              /\ sent'.announced = sent.announced
              => ParserInv'
<1>1. ParserTypes'
  BY DEF ParserInv, ParserTypes
<1>2. BytesInv'
  BY DEF ParserInv, ParserTypes, BytesInv, Marked
<1>3. ModeInv'
  BY DEF ParserInv, ModeInv, InHead, EndStates, ChunkStates
<1>4. ASSUME ~Pending, ~Pending',
             "F_CONTENTLENGTH" \in hp'.flags => "F_CONTENTLENGTH" \in hp.flags,
             hp'.content_length = hp.content_length,
             sent'.announced = sent.announced
      PROVE  LengthInv'
  BY <1>4 DEF ParserInv, LengthInv, InHead, BodyStates, EndStates
<1>5. QED
  BY <1>1, <1>2, <1>3, <1>4 DEF ParserInv

\* The flags of a finished header line.
LEMMA FinishFacts ==
    /\ hp.flags \subseteq Parser!Finish
    /\ "F_TRAILING" \in Parser!Finish => "F_TRAILING" \in hp.flags
    /\ "F_CONTENTLENGTH" \in Parser!Finish => "F_CONTENTLENGTH" \in hp.flags
  BY DEF Parser!Finish

\* A byte of the body is sent and waits behind the mark.
LEMMA SendFacts ==
    ASSUME ParserTypes, BytesInv, Parser!SendByte
    PROVE  /\ DOMAIN sent' = DOMAIN sent /\ sent'.messages = sent.messages
           /\ sent'.announced = sent.announced
           /\ sent'.body = Append(sent.body, Parser!Byte)
           /\ sent'.body \in Seq(Nat) /\ Len(sent'.body) = Len(sent.body) + 1
           /\ Parser!Byte \in Nat
           /\ Parser!MarkByte => /\ mark'.of = "body"
                                 /\ mark'.text \in Seq(Nat)
                                 /\ data.body \o mark'.text = sent'.body
<1>1. Parser!Byte \in Nat
  BY DEF Parser!Byte, ParserTypes
<1>2. sent' = [sent EXCEPT !.body = Append(sent.body, Parser!Byte)]
  BY DEF Parser!SendByte
<1>3. /\ DOMAIN sent' = DOMAIN sent /\ sent'.messages = sent.messages
      /\ sent'.announced = sent.announced
      /\ sent'.body = Append(sent.body, Parser!Byte)
  BY <1>2 DEF ParserTypes
<1>4. sent'.body \in Seq(Nat) /\ Len(sent'.body) = Len(sent.body) + 1
  BY <1>1, <1>3 DEF ParserTypes
<1>5. ASSUME Parser!MarkByte
      PROVE  /\ mark'.of = "body" /\ mark'.text \in Seq(Nat)
             /\ data.body \o mark'.text = sent'.body
  <2>1. mark'.of = "body" /\ mark'.text = Append(Marked, Parser!Byte)
    <3>1. mark'.of = "body"
      BY <1>5 DEF Parser!MarkByte
    <3>2. mark'.text = IF mark.of = "body" THEN Append(mark.text, Parser!Byte)
                       ELSE <<Parser!Byte>>
      BY <1>5 DEF Parser!MarkByte
    <3>3. Append(<<>>, Parser!Byte) = <<Parser!Byte>>
      BY <1>1
    <3>4. QED
      BY <3>1, <3>2, <3>3 DEF Marked
  <2>2. Marked \in Seq(Nat)
    BY DEF Marked, ParserTypes
  <2>3. \A a, b \in Seq(Nat), c \in Nat :
            a \o Append(b, c) = Append(a \o b, c) /\ Append(b, c) \in Seq(Nat)
    OBVIOUS
  <2>4. data.body \in Seq(Nat) /\ data.body \o Marked = sent.body
    BY DEF ParserTypes, BytesInv
  <2> HIDE DEF Marked
  <2>5. /\ data.body \o Append(Marked, Parser!Byte)
                = Append(data.body \o Marked, Parser!Byte)
        /\ Append(Marked, Parser!Byte) \in Seq(Nat)
    BY <1>1, <2>2, <2>3, <2>4
  <2>6. QED
    BY <1>3, <2>1, <2>4, <2>5
<1>6. QED
  BY <1>1, <1>3, <1>4, <1>5

\* NEW_MESSAGE() at the end of the headers.
LEMMA CompleteFacts ==
    ASSUME ParserInv, InHead(hp.state), NEW q, DOMAIN q = DOMAIN hp,
           q.type = hp.type, q.method = hp.method,
           Parser!MessageComplete(q), sent' = sent,
           sent.messages = 1 /\ "F_TRAILING" \in q.flags
                => "F_CHUNKED" \in q.flags,
           sent.messages = 1 /\ "F_CONTENTLENGTH" \in q.flags
                    /\ "F_CHUNKED" \notin q.flags
                => \/ Len(sent.body) = sent.announced
                   \/ q.upgrade /\ q.type = "HTTP_REQUEST"
    PROVE  ParserInv'
<1>0. ParserTypes /\ BytesInv /\ ModeInv
  BY DEF ParserInv
<1>1. /\ hp' = [q EXCEPT !.state = IF Parser!http_should_keep_alive(q)
                                   THEN "s_start" ELSE Parser!Dead]
      /\ data' = [Parser!Deliver(mark) EXCEPT !.finished = TRUE]
      /\ mark' = Parser!NoMark
  BY DEF Parser!MessageComplete
<1>2. /\ DOMAIN hp' = DOMAIN hp /\ hp'.type = hp.type
      /\ hp'.method = hp.method /\ hp'.flags = q.flags
      /\ hp'.state \in EndStates
  BY <1>0, <1>1 DEF ParserTypes, EndStates
<1>3. q.upgrade => hp'.upgrade
  BY <1>0, <1>1 DEF ParserTypes
<1>4. DOMAIN data' = DOMAIN data /\ data'.body = sent.body
  BY <1>0, <1>1, DeliverFacts DEF ParserTypes
<1>5. mark'.of = "none"
  BY <1>1 DEF Parser!NoMark
<1>6. sent.messages # 0
  BY <1>0 DEF ModeInv, InHead, EndStates
<1>7. ParserTypes'
  BY <1>0, <1>2, <1>4, <1>5 DEF ParserTypes
<1>8. BytesInv'
  BY <1>0, <1>4, <1>5 DEF ParserTypes, BytesInv, Marked
<1>9. ModeInv'
  BY <1>0, <1>2, <1>6 DEF ModeInv, InHead, EndStates, ChunkStates, Parser!Dead
<1>10. LengthInv'
  BY <1>2, <1>3 DEF LengthInv, InHead, EndStates, Pending, Parser!Dead,
     Parser!Upgraded
<1>11. QED
  BY <1>7, <1>8, <1>9, <1>10 DEF ParserInv

LEMMA ParserStep == ParserInv /\ [Parser!Next]_Parser!vars => ParserInv'
<1> SUFFICES ASSUME ParserInv, [Parser!Next]_Parser!vars PROVE ParserInv'
  OBVIOUS
<1> USE DEF Parser!At, InHead, EndStates, BodyStates, ChunkStates, Parser!Dead
<1>0. ParserTypes /\ BytesInv /\ ModeInv /\ LengthInv
  BY DEF ParserInv
<1>a. /\ DOMAIN Parser!Deliver(mark) = DOMAIN data
      /\ Parser!Deliver(mark).body = sent.body
      /\ mark.of # "body" => data.body = sent.body
  BY <1>0, DeliverFacts
<1>1. ASSUME NEW m \in {"GET", "CONNECT"}, Parser!StartRequest(m)
      PROVE  ParserInv'
  <2>2. ParserTypes'
    BY <1>0, <1>a, <1>1 DEF ParserTypes, BytesInv, Parser!StartRequest
  <2>3. BytesInv'
    BY <1>0, <1>a, <1>1 DEF ParserTypes, BytesInv, Marked,
       Parser!StartRequest
  <2>4. ModeInv'
    BY <1>0, <1>1 DEF ParserTypes, ModeInv, Parser!StartRequest
  <2>5. LengthInv'
    BY <1>0, <1>1, LengthAssumption DEF ParserTypes, ModeInv, LengthInv,
       Pending, Parser!StartRequest, Parser!Upgraded
  <2>6. QED
    BY <2>2, <2>3, <2>4, <2>5 DEF ParserInv
<1>2. ASSUME NEW ch \in {"/", "x", "?"}, Parser!UrlPiece(ch)
      PROVE  ParserInv'
  <2> DEFINE s0 == IF hp.state = "s_req_spaces_before_url"
                        /\ hp.method = "CONNECT"
                   THEN "s_req_server_start" ELSE hp.state
             s == Parser!parse_url_char(s0, ch)
  <2>1. /\ s # Parser!Dead /\ hp' = [hp EXCEPT !.state = s]
        /\ sent' = [sent EXCEPT !.url = Append(@, ch)]
        /\ UNCHANGED <<data, open>>
    BY <1>2 DEF Parser!UrlPiece
  <2>2. mark'.of = "url"
    BY <1>2 DEF Parser!UrlPiece, Parser!MARK, Parser!MARKMORE
  <2>3. /\ hp.state \in {"s_req_spaces_before_url"} \cup Parser!UrlStates
        /\ s0 \in {"s_req_spaces_before_url", "s_req_server_start"}
                        \cup Parser!UrlStates
    BY <1>2 DEF Parser!UrlPiece
  <2>4. s \in UrlResults
    BY <2>3, UrlStateFacts
  <2> HIDE DEF s0, s
  <2>5. InHead(hp.state) /\ InHead(s) /\ mark.of # "body"
    BY <1>0, <2>1, <2>3, <2>4 DEF UrlResults, Parser!UrlStates, BytesInv
  <2>6. s \notin {"s_header_value", "s_header_value_lws", "s_body_identity",
                  "s_start"} \cup ChunkStates
    BY <2>4 DEF UrlResults
  <2>7. /\ DOMAIN hp' = DOMAIN hp /\ hp'.state = s
        /\ hp'.flags = hp.flags /\ hp'.type = hp.type
        /\ hp'.method = hp.method /\ hp'.content_length = hp.content_length
    BY <1>0, <2>1 DEF ParserTypes
  <2>8. /\ DOMAIN sent' = DOMAIN sent /\ sent'.body = sent.body
        /\ sent'.messages = sent.messages /\ sent'.announced = sent.announced
    BY <1>0, <2>1 DEF ParserTypes
  <2>9. data.body = sent.body /\ data' = data
    BY <1>a, <2>1, <2>5
  <2>10. QED
    BY <1>0, <2>2, <2>3, <2>5, <2>6, <2>7, <2>8, <2>9, HeadKeeps DEF Pending,
       ParserInv, Parser!UrlStates
<1>3. ASSUME NEW minor \in {0, 1}, Parser!UrlEnd(minor)
      PROVE  ParserInv'
  <2>0. CASE Parser!Refused(mark)
    BY <1>3, <2>0, FreshFacts DEF Parser!UrlEnd, Parser!Fail
  <2>1. CASE ~Parser!Refused(mark)
    <3>1. /\ data' = Parser!Deliver(mark) /\ mark' = Parser!NoMark
          /\ hp' = [hp EXCEPT !.state = "s_header_field_start",
                        !.minor = minor]
          /\ sent' = sent /\ hp.state \in Parser!UrlStates
      BY <1>3, <2>1 DEF Parser!UrlEnd
    <3>2. InHead(hp.state) /\ InHead("s_header_field_start") /\ ~Pending
      BY <3>1 DEF Parser!UrlStates, Pending
    <3>3. /\ DOMAIN hp' = DOMAIN hp /\ hp'.state = "s_header_field_start"
          /\ hp'.flags = hp.flags /\ hp'.type = hp.type
          /\ hp'.method = hp.method /\ hp'.content_length = hp.content_length
      BY <1>0, <3>1 DEF ParserTypes
    <3>4. mark'.of = "none"
      BY <3>1 DEF Parser!NoMark
    <3>5. QED
      BY <1>0, <1>a, <3>1, <3>2, <3>3, <3>4, HeadKeeps DEF Pending, ParserInv
  <2>2. QED
    BY <2>0, <2>1
<1>4. ASSUME NEW code \in {200, 101, 204}, NEW minor \in {0, 1},
             Parser!StartResponse(code, minor)
      PROVE  ParserInv'
  <2>2. ParserTypes'
    BY <1>0, <1>a, <1>4 DEF ParserTypes, BytesInv, Parser!StartResponse
  <2>3. BytesInv'
    BY <1>0, <1>a, <1>4 DEF ParserTypes, BytesInv, Marked,
       Parser!StartResponse
  <2>4. ModeInv'
    BY <1>0, <1>4 DEF ParserTypes, ModeInv, Parser!StartResponse
  <2>5. LengthInv'
    BY <1>0, <1>4, LengthAssumption DEF ParserTypes, ModeInv, LengthInv,
       Pending, Parser!StartResponse, Parser!Upgraded
  <2>6. QED
    BY <2>2, <2>3, <2>4, <2>5 DEF ParserInv
<1>5. ASSUME NEW n \in Parser!HeaderNames, Parser!HeaderField(n)
      PROVE  ParserInv'
  <2>2. ParserTypes'
    BY <1>0, <1>a, <1>5 DEF ParserTypes, BytesInv, Parser!HeaderField,
       Parser!MARK, Parser!Finish
  <2>3. BytesInv'
    BY <1>0, <1>a, <1>5 DEF ParserTypes, BytesInv, Marked,
       Parser!HeaderField, Parser!MARK, Parser!Finish
  <2>4. ModeInv'
    BY <1>0, <1>5 DEF ParserTypes, ModeInv, Parser!HeaderField, Parser!MARK,
       Parser!Finish
  <2>5. LengthInv'
    BY <1>0, <1>5, LengthAssumption DEF ParserTypes, ModeInv, LengthInv,
       Pending, Parser!HeaderField, Parser!MARK, Parser!Finish,
       Parser!Upgraded
  <2>6. QED
    BY <2>2, <2>3, <2>4, <2>5 DEF ParserInv
<1>6. ASSUME Parser!HeaderFieldMore
      PROVE  ParserInv'
  <2>2. ParserTypes'
    BY <1>0, <1>a, <1>6 DEF ParserTypes, BytesInv, Parser!HeaderFieldMore,
       Parser!MARKMORE
  <2>3. BytesInv'
    BY <1>0, <1>a, <1>6 DEF ParserTypes, BytesInv, Marked,
       Parser!HeaderFieldMore, Parser!MARKMORE
  <2>4. ModeInv'
    BY <1>0, <1>6 DEF ParserTypes, ModeInv, Parser!HeaderFieldMore,
       Parser!MARKMORE
  <2>5. LengthInv'
    BY <1>0, <1>6, LengthAssumption DEF ParserTypes, ModeInv, LengthInv,
       Pending, Parser!HeaderFieldMore, Parser!MARKMORE, Parser!Upgraded
  <2>6. QED
    BY <2>2, <2>3, <2>4, <2>5 DEF ParserInv
<1>7. ASSUME Parser!HeaderFieldEnd
      PROVE  ParserInv'
  <2>2. ParserTypes'
    BY <1>0, <1>a, <1>7 DEF ParserTypes, BytesInv, Parser!HeaderFieldEnd,
       Parser!NoMark
  <2>3. BytesInv'
    BY <1>0, <1>a, <1>7 DEF ParserTypes, BytesInv, Marked,
       Parser!HeaderFieldEnd, Parser!NoMark
  <2>4. ModeInv'
    BY <1>0, <1>7 DEF ParserTypes, ModeInv, Parser!HeaderFieldEnd,
       Parser!NoMark
  <2>5. LengthInv'
    BY <1>0, <1>7, LengthAssumption DEF ParserTypes, ModeInv, LengthInv,
       Pending, Parser!HeaderFieldEnd, Parser!NoMark, Parser!Upgraded
  <2>6. QED
    BY <2>2, <2>3, <2>4, <2>5 DEF ParserInv
<1>8. ASSUME NEW v \in Parser!ValuesOf(hp.header), Parser!HeaderValue(v)
      PROVE  ParserInv'
  <2> DEFINE own == hp.header = Parser!ContentLength
  <2>1. /\ hp.state = "s_header_value_discard_ws"
        /\ v # <<>> /\ (own => Parser!LengthOk(v))
        /\ hp' = [hp EXCEPT
                !.state = "s_header_value", !.value = v, !.rest = Tail(v),
                !.content_length = IF own THEN Parser!Number(<<v[1]>>) ELSE @,
                !.flags = CASE own -> @ \cup {"F_CONTENTLENGTH"}
                            [] hp.header = Parser!UpgradeHeader
                                    -> @ \cup {"F_UPGRADE"}
                            [] OTHER -> @]
        /\ Parser!MARK("header_value", Head(v))
        /\ sent' = Parser!Announce(v) /\ data' = data
    BY <1>8 DEF Parser!HeaderValue
  <2>2. /\ InHead(hp.state) /\ InHead("s_header_value") /\ ~Pending
        /\ data'.body = sent.body /\ DOMAIN data' = DOMAIN data
    BY <1>0, <1>a, <2>1 DEF BytesInv, Pending
  <2>3. mark'.of = "header_value"
    BY <2>1 DEF Parser!MARK
  <2>4. /\ DOMAIN sent' = DOMAIN sent /\ sent'.body = sent.body
        /\ sent'.messages = sent.messages
        /\ sent'.announced = IF own THEN Parser!Number(v) ELSE sent.announced
    BY <1>0, <2>1 DEF ParserTypes, Parser!Announce
  <2>5. /\ DOMAIN hp' = DOMAIN hp /\ hp'.state = "s_header_value"
        /\ hp'.type = hp.type /\ hp'.method = hp.method
        /\ hp'.header = hp.header /\ hp'.rest = Tail(v)
        /\ hp'.content_length = IF own THEN Parser!Number(<<v[1]>>)
                                ELSE hp.content_length
    BY <1>0, <2>1 DEF ParserTypes
  <2>6. \/ own /\ hp'.flags = hp.flags \cup {"F_CONTENTLENGTH"}
        \/ ~own /\ hp'.flags \in {hp.flags \cup {"F_UPGRADE"}, hp.flags}
    <3>1. hp'.flags = CASE own -> hp.flags \cup {"F_CONTENTLENGTH"}
                        [] hp.header = Parser!UpgradeHeader
                                -> hp.flags \cup {"F_UPGRADE"}
                        [] OTHER -> hp.flags
      BY <1>0, <2>1 DEF ParserTypes
    <3>2. own => hp.header # Parser!UpgradeHeader
      BY DEF Parser!UpgradeHeader, Parser!ContentLength
    <3>3. QED
      BY <3>1, <3>2
  <2>7. ParserTypes' /\ BytesInv' /\ ModeInv'
    BY <2>2, <2>3, <2>4, <2>5, <2>6, HeadKeeps
  <2>8. CASE ~own
    BY <2>2, <2>3, <2>4, <2>5, <2>6, <2>8, HeadKeeps DEF Pending
  <2>9. CASE own
    <3>1. v \in {<<>>, <<"x">>, <<"0">>, <<"2">>, <<"2", "2">>}
      <4>1. Parser!ContentLength # Parser!Connection
        BY DEF Parser!ContentLength, Parser!Connection
      <4>2. /\ Parser!ContentLength # Parser!TransferEncoding
            /\ Parser!ContentLength # Parser!UpgradeHeader
        BY DEF Parser!ContentLength, Parser!TransferEncoding,
           Parser!UpgradeHeader
      <4>3. Parser!ValuesOf(Parser!ContentLength)
                = {<<>>, <<"x">>, <<"0">>, <<"2">>, <<"2", "2">>}
        BY <4>1, <4>2 DEF Parser!ValuesOf
      <4>4. QED
        BY <1>8, <2>9, <4>3
    <3>2. "x" \notin Parser!Digits
      BY DEF Parser!Digits, Parser!Digit
    <3>3. v[1] \in Parser!Digits
      BY <2>1, <2>9 DEF Parser!LengthOk
    <3>4. v \in {<<"0">>, <<"2">>, <<"2", "2">>}
      BY <2>1, <3>1, <3>2, <3>3
    <3>5. CASE v = <<"0">>
      <4>1. /\ v[1] = "0" /\ Tail(v) = <<>>
        BY <3>5
      <4>2. hp'.content_length = 0 /\ sent'.announced = 0 /\ hp'.rest = <<>>
        BY <2>4, <2>5, <2>9, <3>5, <4>1, Numbers
      <4>3. QED
        BY <2>2, <2>5, <2>7, <4>2, LengthAssumption DEF ParserInv, LengthInv,
           Pending
    <3>6. CASE v = <<"2">>
      <4>1. /\ v[1] = "2" /\ Tail(v) = <<>>
        BY <3>6
      <4>2. hp'.content_length = 2 /\ sent'.announced = 2 /\ hp'.rest = <<>>
        BY <2>4, <2>5, <2>9, <3>6, <4>1, Numbers
      <4>3. QED
        BY <2>2, <2>5, <2>7, <4>2, LengthAssumption DEF ParserInv, LengthInv,
           Pending
    <3>7. CASE v = <<"2", "2">>
      <4>1. /\ v[1] = "2" /\ Tail(v) = <<"2">>
        BY <3>7
      <4>2. hp'.content_length = 2 /\ sent'.announced = 22 /\ hp'.rest = <<"2">>
        BY <2>4, <2>5, <2>9, <3>7, <4>1, Numbers
      <4>3. Pending'
        <5>1. hp'.rest # <<>>
          BY <4>2
        <5>2. QED
          BY <2>5, <2>9, <5>1 DEF Pending
      <4>4. QED
        BY <2>2, <2>5, <2>7, <4>2, <4>3 DEF ParserInv, LengthInv
    <3>8. QED
      BY <3>4, <3>5, <3>6, <3>7
  <2>10. QED
    BY <2>8, <2>9
<1>9. ASSUME NEW v \in Parser!ValuesOf(hp.header), Parser!HeaderValueRefused(v)
      PROVE  ParserInv'
  BY <1>9, FreshFacts DEF Parser!HeaderValueRefused, Parser!Fail
<1>10. ASSUME NEW v \in Parser!ValuesOf(hp.header), Parser!HeaderValueEmpty(v)
      PROVE  ParserInv'
  <2>2. ParserTypes'
    BY <1>0, <1>a, <1>10 DEF ParserTypes, BytesInv, Parser!HeaderValueEmpty,
       Parser!on_header_value
  <2>3. BytesInv'
    BY <1>0, <1>a, <1>10 DEF ParserTypes, BytesInv, Marked,
       Parser!HeaderValueEmpty, Parser!on_header_value
  <2>4. ModeInv'
    BY <1>0, <1>10 DEF ParserTypes, ModeInv, Parser!HeaderValueEmpty,
       Parser!on_header_value
  <2>5. LengthInv'
    BY <1>0, <1>10, LengthAssumption DEF ParserTypes, ModeInv, LengthInv,
       Pending, Parser!HeaderValueEmpty, Parser!on_header_value,
       Parser!Upgraded
  <2>6. QED
    BY <2>2, <2>3, <2>4, <2>5 DEF ParserInv
<1>11. ASSUME Parser!HeaderValueMore
      PROVE  ParserInv'
  <2> DEFINE long == hp.header = Parser!ContentLength
                        /\ Parser!TooLong(hp.content_length)
  <2>0. CASE long
    BY <1>11, <2>0, FreshFacts DEF Parser!HeaderValueMore, Parser!Fail
  <2>1. CASE ~long
    <3>1. /\ hp' = [hp EXCEPT
                !.rest = Tail(@),
                !.content_length = IF hp.header = Parser!ContentLength
                    THEN (10 * @ + Parser!Number(<<Head(hp.rest)>>)) % (UMax + 1)
                    ELSE @]
          /\ data' = data /\ sent' = sent
          /\ hp.state = "s_header_value" /\ hp.rest # <<>>
          /\ Parser!MARKMORE("header_value", Head(hp.rest))
      BY <1>11, <2>1 DEF Parser!HeaderValueMore
    <3>2. mark'.of = "header_value"
      BY <3>1 DEF Parser!MARKMORE
    <3>3. /\ InHead(hp.state) /\ hp.state # "s_header_value_lws"
          /\ data'.body = sent.body /\ sent' = sent /\ DOMAIN data' = DOMAIN data
      BY <1>0, <1>a, <3>1 DEF BytesInv
    <3>4. /\ DOMAIN hp' = DOMAIN hp /\ hp'.state = hp.state
          /\ hp'.flags = hp.flags /\ hp'.type = hp.type
          /\ hp'.method = hp.method /\ hp'.header = hp.header
          /\ hp'.rest = Tail(hp.rest)
      BY <1>0, <3>1 DEF ParserTypes
    <3>5. ParserTypes' /\ BytesInv' /\ ModeInv'
      BY <1>0, <1>a, <3>1, <3>2, <3>3, <3>4, HeadKeeps DEF ParserInv
    <3>6. CASE hp.header # Parser!ContentLength
      <4>1. hp'.content_length = hp.content_length
        BY <1>0, <3>1, <3>6 DEF ParserTypes
      <4>2. QED
        BY <1>0, <3>2, <3>3, <3>4, <3>6, <4>1, HeadKeeps DEF ParserInv,
           Pending
    <3>7. CASE hp.header = Parser!ContentLength
      <4>1. SUFFICES ASSUME sent.messages = 1, "F_CONTENTLENGTH" \in hp.flags,
                            "F_CHUNKED" \notin hp.flags
                     PROVE  LengthInv'
        BY <3>1, <3>4, <3>5 DEF LengthInv, ParserInv
      <4>2. Pending
        BY <3>1, <3>7 DEF Pending
      <4>3. hp.content_length = 2 /\ sent.announced = 22 /\ hp.rest = <<"2">>
        BY <1>0, <4>1, <4>2 DEF LengthInv
      <4>4. UMax >= 30
        BY <2>1, <3>7, <4>3, LengthAssumption DEF Parser!TooLong
      <4>5. Head(hp.rest) = "2" /\ Tail(hp.rest) = <<>>
        BY <4>3
      <4>6. hp'.content_length = (10 * 2 + Parser!Number(<<"2">>)) % (UMax + 1)
        BY <1>0, <3>1, <3>7, <4>3, <4>5 DEF ParserTypes
      <4>7. hp'.content_length = 22
        BY <4>4, <4>6, Numbers, LengthAssumption
      <4>8. QED
        BY <3>1, <3>3, <3>4, <4>3, <4>4, <4>5, <4>7 DEF LengthInv, Pending
    <3>8. QED
      BY <3>6, <3>7
  <2>2. QED
    BY <2>0, <2>1
<1>12. ASSUME Parser!HeaderValueEnd
      PROVE  ParserInv'
  <2>2. ParserTypes'
    BY <1>0, <1>a, <1>12 DEF ParserTypes, BytesInv, Parser!HeaderValueEnd,
       Parser!NoMark
  <2>3. BytesInv'
    BY <1>0, <1>a, <1>12 DEF ParserTypes, BytesInv, Marked,
       Parser!HeaderValueEnd, Parser!NoMark
  <2>4. ModeInv'
    BY <1>0, <1>12 DEF ParserTypes, ModeInv, Parser!HeaderValueEnd,
       Parser!NoMark
  <2>5. LengthInv'
    BY <1>0, <1>12, LengthAssumption DEF ParserTypes, ModeInv, LengthInv,
       Pending, Parser!HeaderValueEnd, Parser!NoMark, Parser!Upgraded
  <2>6. QED
    BY <2>2, <2>3, <2>4, <2>5 DEF ParserInv
<1>13. ASSUME Parser!HeaderValueFold
      PROVE  ParserInv'
  <2>2. ParserTypes'
    BY <1>0, <1>a, <1>13 DEF ParserTypes, BytesInv, Parser!HeaderValueFold,
       Parser!MARK
  <2>3. BytesInv'
    BY <1>0, <1>a, <1>13 DEF ParserTypes, BytesInv, Marked,
       Parser!HeaderValueFold, Parser!MARK
  <2>4. ModeInv'
    BY <1>0, <1>13 DEF ParserTypes, ModeInv, Parser!HeaderValueFold,
       Parser!MARK
  <2>5. LengthInv'
    BY <1>0, <1>13, LengthAssumption DEF ParserTypes, ModeInv, LengthInv,
       Pending, Parser!HeaderValueFold, Parser!MARK, Parser!Upgraded
  <2>6. QED
    BY <2>2, <2>3, <2>4, <2>5 DEF ParserInv
<1>14. ASSUME Parser!HeadersDone
      PROVE  ParserInv'
  <2> DEFINE f == Parser!Finish
             up == IF {"F_UPGRADE", "F_CONNECTION_UPGRADE"} \subseteq f
                   THEN hp.type = "HTTP_REQUEST" \/ hp.status = 101
                   ELSE hp.type = "HTTP_REQUEST" /\ hp.method = "CONNECT"
             q == [hp EXCEPT !.flags = f, !.upgrade = up]
             has == "F_CHUNKED" \in f \/ q.content_length \notin {0, UMax}
             both == {"F_CHUNKED", "F_CONTENTLENGTH"} \subseteq f
             done == \/ up /\ (hp.method = "CONNECT" \/ ~has)
                     \/ ~has /\ ~Parser!http_message_needs_eof(q)
  <2>1. /\ hp.flags \subseteq f
        /\ "F_TRAILING" \in f => "F_TRAILING" \in hp.flags
        /\ "F_CONTENTLENGTH" \in f => "F_CONTENTLENGTH" \in hp.flags
    BY FinishFacts
  <2>2. /\ hp.state \in {"s_header_field_start", "s_header_value_lws"}
        /\ InHead(hp.state) /\ ~Pending /\ mark.of # "body"
    BY <1>0, <1>14 DEF Parser!HeadersDone, BytesInv, Pending
  <2>3. sent.messages = 1 /\ "F_TRAILING" \in f => "F_CHUNKED" \in f
    BY <1>0, <2>1 DEF ModeInv
  <2>4. ASSUME sent.messages = 1, "F_CONTENTLENGTH" \in f, "F_CHUNKED" \notin f
        PROVE  /\ sent.body = <<>> /\ hp.content_length = sent.announced
               /\ hp.content_length \in Nat /\ hp.content_length # UMax
    BY <1>0, <2>1, <2>2, <2>4 DEF ModeInv, LengthInv
  <2>5. /\ DOMAIN q = DOMAIN hp /\ q.type = hp.type /\ q.method = hp.method
        /\ q.flags = f /\ q.content_length = hp.content_length
        /\ q.rest = hp.rest /\ q.header = hp.header
    BY <1>0 DEF ParserTypes
  <2>6. up => q.upgrade
    BY <1>0 DEF ParserTypes
  <2>7. \/ /\ "F_TRAILING" \in f
           /\ Parser!MessageComplete([hp EXCEPT !.flags = f]) /\ sent' = sent
        \/ Parser!Fail
        \/ /\ "F_TRAILING" \notin f
           /\ IF done THEN Parser!MessageComplete(q)
              ELSE /\ hp' = [q EXCEPT !.state =
                            CASE "F_CHUNKED" \in f -> "s_chunk_size_start"
                              [] has /\ "F_CHUNKED" \notin f ->
                                        "s_body_identity"
                              [] OTHER -> "s_body_identity_eof"]
                   /\ UNCHANGED <<data, mark>>
           /\ sent' = sent
    BY <1>14 DEF Parser!HeadersDone
  <2> HIDE DEF f, up, q, both
  <2>8. CASE /\ "F_TRAILING" \in f
             /\ Parser!MessageComplete([hp EXCEPT !.flags = f]) /\ sent' = sent
    <3> DEFINE r == [hp EXCEPT !.flags = f]
    <3>1. /\ DOMAIN r = DOMAIN hp /\ r.type = hp.type /\ r.method = hp.method
          /\ r.flags = f
      BY <1>0 DEF ParserTypes
    <3>2. Parser!MessageComplete(r)
      BY <2>8
    <3> HIDE DEF r
    <3>3. QED
      BY <2>2, <2>3, <2>8, <3>1, <3>2, CompleteFacts
  <2>9. CASE Parser!Fail
    BY <2>9, FreshFacts DEF Parser!Fail
  <2>10. CASE "F_TRAILING" \notin f /\ done /\ Parser!MessageComplete(q)
                /\ sent' = sent
    <3>1. ASSUME sent.messages = 1, "F_CONTENTLENGTH" \in f,
                 "F_CHUNKED" \notin f
          PROVE  \/ Len(sent.body) = sent.announced
                 \/ q.upgrade /\ q.type = "HTTP_REQUEST"
      <4>1. CASE has
        <5>1. up /\ hp.method = "CONNECT"
          BY <2>10, <4>1
        <5>2. hp.type = "HTTP_REQUEST"
          BY <1>0, <5>1 DEF ModeInv
        <5>3. QED
          BY <2>5, <2>6, <5>1, <5>2
      <4>2. CASE ~has
        BY <2>4, <2>5, <3>1, <4>2
      <4>3. QED
        BY <4>1, <4>2
    <3>2. QED
      BY <2>2, <2>5, <2>10, <3>1, CompleteFacts
  <2>11. CASE /\ "F_TRAILING" \notin f
              /\ hp' = [q EXCEPT !.state =
                            CASE "F_CHUNKED" \in f -> "s_chunk_size_start"
                              [] has /\ "F_CHUNKED" \notin f ->
                                        "s_body_identity"
                              [] OTHER -> "s_body_identity_eof"]
              /\ data' = data /\ mark' = mark /\ sent' = sent
    <3>1. /\ DOMAIN hp' = DOMAIN hp /\ hp'.type = hp.type
          /\ hp'.method = hp.method /\ hp'.flags = f
          /\ hp'.content_length = hp.content_length
      BY <1>0, <2>5, <2>11 DEF ParserTypes
    <3>2. \/ "F_CHUNKED" \in f /\ hp'.state = "s_chunk_size_start"
          \/ "F_CHUNKED" \notin f /\ has /\ hp'.state = "s_body_identity"
          \/ "F_CHUNKED" \notin f /\ ~has /\ hp'.state = "s_body_identity_eof"
      <4>1. hp'.state = CASE "F_CHUNKED" \in f -> "s_chunk_size_start"
                          [] has /\ "F_CHUNKED" \notin f ->
                                    "s_body_identity"
                          [] OTHER -> "s_body_identity_eof"
        BY <1>0, <2>5, <2>11 DEF ParserTypes
      <4>2. QED
        BY <4>1
    <3>3. sent.messages # 0
      BY <1>0, <2>2 DEF ModeInv
    <3>4. ParserTypes' /\ BytesInv'
      BY <1>0, <2>2, <2>11, <3>1 DEF ParserTypes, BytesInv, Marked
    <3>5. ModeInv'
      BY <1>0, <2>3, <2>11, <3>1, <3>2, <3>3 DEF ModeInv
    <3>6. LengthInv'
      BY <2>4, <2>5, <2>11, <3>1, <3>2 DEF LengthInv, Pending
    <3>7. QED
      BY <3>4, <3>5, <3>6 DEF ParserInv
  <2>12. QED
    BY <2>7, <2>8, <2>9, <2>10, <2>11
<1>15. ASSUME Parser!BodyIdentity
      PROVE  ParserInv'
  <2> DEFINE q == [hp EXCEPT !.content_length = @ - 1]
  <2>1. /\ hp.state = "s_body_identity" /\ Parser!SendByte
        /\ IF q.content_length > 0
           THEN hp' = q /\ Parser!MarkByte /\ UNCHANGED data
           ELSE /\ hp' = [q EXCEPT !.state = IF Parser!http_should_keep_alive(q)
                                             THEN "s_start" ELSE Parser!Dead]
                /\ data' = [data EXCEPT !.body =
                                    Append(@ \o Marked, Parser!Byte),
                                        !.finished = TRUE]
                /\ mark' = Parser!NoMark
    BY <1>15 DEF Parser!BodyIdentity, Marked
  <2>2. /\ DOMAIN q = DOMAIN hp /\ q.type = hp.type /\ q.method = hp.method
        /\ q.flags = hp.flags /\ q.state = hp.state /\ q.upgrade = hp.upgrade
        /\ q.content_length = hp.content_length - 1
    BY <1>0 DEF ParserTypes
  <2>3. /\ DOMAIN sent' = DOMAIN sent /\ sent'.messages = sent.messages
        /\ sent'.announced = sent.announced
        /\ sent'.body = Append(sent.body, Parser!Byte)
        /\ sent'.body \in Seq(Nat) /\ Len(sent'.body) = Len(sent.body) + 1
        /\ Parser!Byte \in Nat
    BY <1>0, <2>1, SendFacts
  <2>4. sent.messages # 0 /\ ~InHead(hp.state)
    BY <1>0, <2>1 DEF ModeInv
  <2>5. ASSUME sent.messages = 1, "F_CONTENTLENGTH" \in hp.flags,
               "F_CHUNKED" \notin hp.flags
        PROVE  /\ hp.content_length \in Nat \ {0}
               /\ hp.content_length + Len(sent.body) = sent.announced
    BY <1>0, <2>1, <2>5 DEF LengthInv
  <2> HIDE DEF q
  <2>6. CASE q.content_length > 0
    <3>1. hp' = q /\ Parser!MarkByte /\ data' = data
      BY <2>1, <2>6
    <3>2. /\ mark'.of = "body" /\ mark'.text \in Seq(Nat)
          /\ data.body \o mark'.text = sent'.body
      BY <1>0, <2>1, <3>1, SendFacts
    <3>3. ParserTypes'
      BY <1>0, <2>2, <2>3, <3>1, <3>2 DEF ParserTypes
    <3>4. BytesInv'
      BY <2>1, <2>2, <3>1, <3>2 DEF BytesInv, Marked
    <3>5. ModeInv'
      BY <1>0, <2>1, <2>2, <2>3, <2>4, <3>1 DEF ModeInv
    <3>6. LengthInv'
      BY <1>0, <2>1, <2>2, <2>3, <2>4, <2>5, <2>6, <3>1 DEF LengthInv,
         Pending, ParserTypes
    <3>7. QED
      BY <3>3, <3>4, <3>5, <3>6 DEF ParserInv
  <2>7. CASE ~(q.content_length > 0)
    <3>1. /\ hp' = [q EXCEPT !.state = IF Parser!http_should_keep_alive(q)
                                       THEN "s_start" ELSE Parser!Dead]
          /\ data' = [data EXCEPT !.body = Append(@ \o Marked, Parser!Byte),
                                  !.finished = TRUE]
          /\ mark' = Parser!NoMark
      BY <2>1, <2>7
    <3>2. /\ DOMAIN hp' = DOMAIN hp /\ hp'.type = hp.type
          /\ hp'.method = hp.method /\ hp'.flags = hp.flags
          /\ hp'.state \in {"s_start", Parser!Dead}
      BY <1>0, <2>2, <3>1 DEF ParserTypes
    <3>3. DOMAIN data' = DOMAIN data /\ data'.body = sent'.body
      BY <1>0, <2>3, <3>1 DEF ParserTypes, BytesInv
    <3>4. mark'.of = "none"
      BY <3>1 DEF Parser!NoMark
    <3>5. ParserTypes'
      BY <1>0, <2>3, <3>2, <3>3, <3>4 DEF ParserTypes
    <3>6. BytesInv'
      BY <2>3, <3>3, <3>4 DEF BytesInv, Marked
    <3>7. ModeInv'
      BY <1>0, <2>3, <2>4, <3>2 DEF ModeInv
    <3>8. LengthInv'
      BY <1>0, <2>2, <2>3, <2>5, <2>7, <3>2 DEF LengthInv, Pending,
         ParserTypes
    <3>9. QED
      BY <3>5, <3>6, <3>7, <3>8 DEF ParserInv
  <2>8. QED
    BY <2>6, <2>7
<1>16. ASSUME Parser!BodyIdentityEof
      PROVE  ParserInv'
  <2>1. /\ DOMAIN sent' = DOMAIN sent /\ sent'.messages = sent.messages
        /\ sent'.body \in Seq(Nat)
        /\ mark'.of = "body" /\ mark'.text \in Seq(Nat)
        /\ data.body \o mark'.text = sent'.body /\ data' = data
    BY <1>0, <1>16, SendFacts DEF Parser!BodyIdentityEof
  <2>2. ParserTypes'
    BY <1>0, <1>16, <2>1 DEF ParserTypes, Parser!BodyIdentityEof
  <2>3. BytesInv'
    BY <1>0, <1>16, <2>1 DEF ParserTypes, BytesInv, Marked,
       Parser!BodyIdentityEof
  <2>4. ModeInv'
    BY <1>0, <1>16 DEF ParserTypes, ModeInv, Parser!BodyIdentityEof,
       Parser!SendByte, Parser!MarkByte, Parser!Byte
  <2>5. LengthInv'
    BY <1>0, <1>16, LengthAssumption DEF ParserTypes, ModeInv, LengthInv,
       Pending, Parser!BodyIdentityEof, Parser!SendByte, Parser!MarkByte,
       Parser!Byte, Parser!Upgraded
  <2>6. QED
    BY <2>2, <2>3, <2>4, <2>5 DEF ParserInv
<1>17. ASSUME NEW v, Parser!ChunkSize(v)
      PROVE  ParserInv'
  <2> DEFINE first == Parser!Number(<<v[1]>>)
             n == IF Len(v) = 1 THEN first
                  ELSE (16 * first + Parser!Number(<<v[2]>>)) % (UMax + 1)
             long == Len(v) = 2 /\ (UMax - 16) \div 16 < first
  <2>1. CASE long
    BY <1>17, <2>1, FreshFacts DEF Parser!ChunkSize, Parser!Fail
  <2>2. CASE ~long
    <3>1. /\ hp.state = "s_chunk_size_start"
          /\ hp' = [hp EXCEPT
                    !.content_length = n, !.header = <<>>,
                    !.flags = IF n = 0 THEN @ \cup {"F_TRAILING"} ELSE @,
                    !.state = IF n = 0 THEN "s_header_field_start"
                              ELSE "s_chunk_data"]
          /\ data' = data /\ mark' = mark /\ sent' = sent
      BY <1>17, <2>2 DEF Parser!ChunkSize
    <3> HIDE DEF n
    <3>2. /\ DOMAIN hp' = DOMAIN hp /\ hp'.type = hp.type
          /\ hp'.method = hp.method /\ hp.flags \subseteq hp'.flags
          /\ hp'.state \in {"s_header_field_start", "s_chunk_data"}
      BY <1>0, <3>1 DEF ParserTypes
    <3>3. sent.messages # 0 /\ mark.of # "body"
      BY <1>0, <3>1 DEF ModeInv, BytesInv
    <3>4. sent.messages = 1 => "F_CHUNKED" \in hp'.flags
      BY <1>0, <3>1, <3>2 DEF ModeInv
    <3>5. ParserTypes'
      BY <1>0, <3>1, <3>2 DEF ParserTypes
    <3>6. BytesInv'
      BY <1>0, <3>1, <3>3 DEF BytesInv, Marked
    <3>7. ModeInv' /\ LengthInv'
      BY <1>0, <3>1, <3>2, <3>3, <3>4 DEF ModeInv, LengthInv
    <3>8. QED
      BY <3>5, <3>6, <3>7 DEF ParserInv
  <2>3. QED
    BY <2>1, <2>2
<1>18. ASSUME Parser!ChunkData
      PROVE  ParserInv'
  <2>1. /\ DOMAIN sent' = DOMAIN sent /\ sent'.messages = sent.messages
        /\ sent'.body \in Seq(Nat)
        /\ mark'.of = "body" /\ mark'.text \in Seq(Nat)
        /\ data.body \o mark'.text = sent'.body /\ data' = data
    BY <1>0, <1>18, SendFacts DEF Parser!ChunkData
  <2>2. ParserTypes'
    BY <1>0, <1>18, <2>1 DEF ParserTypes, Parser!ChunkData
  <2>3. BytesInv'
    BY <1>0, <1>18, <2>1 DEF ParserTypes, BytesInv, Marked, Parser!ChunkData
  <2>4. ModeInv'
    BY <1>0, <1>18 DEF ParserTypes, ModeInv, Parser!ChunkData,
       Parser!SendByte, Parser!MarkByte, Parser!Byte
  <2>5. LengthInv'
    BY <1>0, <1>18, LengthAssumption DEF ParserTypes, ModeInv, LengthInv,
       Pending, Parser!ChunkData, Parser!SendByte, Parser!MarkByte,
       Parser!Byte, Parser!Upgraded
  <2>6. QED
    BY <2>2, <2>3, <2>4, <2>5 DEF ParserInv
<1>19. ASSUME Parser!ChunkDataDone
      PROVE  ParserInv'
  <2>2. ParserTypes'
    BY <1>0, <1>a, <1>19 DEF ParserTypes, BytesInv, Parser!ChunkDataDone,
       Parser!NoMark
  <2>3. BytesInv'
    BY <1>0, <1>a, <1>19 DEF ParserTypes, BytesInv, Marked,
       Parser!ChunkDataDone, Parser!NoMark
  <2>4. ModeInv'
    BY <1>0, <1>19 DEF ParserTypes, ModeInv, Parser!ChunkDataDone,
       Parser!NoMark
  <2>5. LengthInv'
    BY <1>0, <1>19, LengthAssumption DEF ParserTypes, ModeInv, LengthInv,
       Pending, Parser!ChunkDataDone, Parser!NoMark, Parser!Upgraded
  <2>6. QED
    BY <2>2, <2>3, <2>4, <2>5 DEF ParserInv
<1>20. ASSUME Parser!AfterClose
      PROVE  ParserInv'
  BY <1>20, FreshFacts DEF Parser!AfterClose, Parser!Fail
<1>21. ASSUME Parser!EndRead
      PROVE  ParserInv'
  <2>1. CASE Parser!Refused(mark) \/ Parser!Upgraded
    BY <1>21, <2>1, FreshFacts DEF Parser!EndRead, Parser!Fail
  <2>2. CASE ~(Parser!Refused(mark) \/ Parser!Upgraded)
    <3>1. /\ data' = Parser!Deliver(mark) /\ mark' = Parser!Resumed(hp.state)
          /\ sent' = [sent EXCEPT !.cut = @ \/ mark'.of # "none"]
          /\ hp' = hp
      BY <1>21, <2>2 DEF Parser!EndRead
    <3>2. mark'.of # "body"
      BY <3>1 DEF Parser!Resumed
    <3>3. /\ DOMAIN sent' = DOMAIN sent /\ sent'.body = sent.body
          /\ sent'.messages = sent.messages /\ sent'.announced = sent.announced
      BY <1>0, <3>1 DEF ParserTypes
    <3>4. ParserTypes'
      BY <1>0, <1>a, <3>1, <3>2, <3>3 DEF ParserTypes
    <3>5. BytesInv'
      BY <1>0, <1>a, <3>1, <3>2, <3>3 DEF ParserTypes, BytesInv, Marked
    <3>6. ModeInv'
      BY <1>0, <3>1, <3>3 DEF ModeInv
    <3>7. LengthInv'
      BY <1>0, <3>1, <3>3 DEF LengthInv, Pending, Parser!Upgraded
    <3>8. QED
      BY <3>4, <3>5, <3>6, <3>7 DEF ParserInv
  <2>3. QED
    BY <2>1, <2>2
<1>22. ASSUME Parser!Take
      PROVE  ParserInv'
  BY <1>22, FreshFacts DEF Parser!Take, Parser!Fail
<1>23. ASSUME Parser!Eof
      PROVE  ParserInv'
  BY <1>23, FreshFacts DEF Parser!Eof, Parser!Fail
<1>24. ASSUME Parser!Malformed
      PROVE  ParserInv'
  BY <1>24, FreshFacts DEF Parser!Malformed, Parser!Fail
<1>25. ASSUME UNCHANGED Parser!vars
      PROVE  ParserInv'
  BY <1>25, <1>0 DEF Parser!vars, ParserInv, ParserTypes, BytesInv, Marked,
     ModeInv, LengthInv, Pending, Parser!Upgraded
<1>26. QED
  BY <1>1, <1>2, <1>3, <1>4, <1>5, <1>6, <1>7, <1>8, <1>9, <1>10, <1>11,
     <1>12, <1>13, <1>14, <1>15, <1>16, <1>17, <1>18, <1>19, <1>20, <1>21,
     <1>22, <1>23, <1>24, <1>25 DEF Parser!Next

\* The body of a request or a response is what the peer sent, as long as it
\* announced, wherever the network cuts the stream and whatever follows, for
\* every number of messages, headers and bytes and every ULLONG_MAX.
THEOREM BodyCorrect == Parser!Spec => []BodyWhole
<1>1. ParserInv => BodyWhole
  <2> SUFFICES ASSUME ParserInv, Parser!OneMessage PROVE Parser!BodyWhole
    BY DEF BodyWhole, Parser!BodyWhole
  <2>1. sent.messages = 1 /\ hp.state \in EndStates /\ ~Parser!Upgraded
    BY DEF Parser!OneMessage, EndStates
  <2>2. mark.of # "body"
    BY <2>1 DEF ParserInv, BytesInv, BodyStates, EndStates, Parser!Dead
  <2>3. data.body = sent.body
    BY <2>2, DeliverFacts DEF ParserInv
  <2>4. QED
    BY <2>1, <2>3 DEF Parser!BodyWhole, ParserInv, LengthInv
<1>2. QED
  BY <1>1, ParserInit, ParserStep, PTL DEF Parser!Spec

-----------------------------------------------------------------------------
(* The parser's headers: the inductive invariant *)

\* A header line is being read: it is the last of the lines sent, and the only
\* one that is not stored yet.
LineStates == {"s_header_field", "s_header_value_discard_ws", "s_header_value"}
\* The states after the URL.
PastUrl == {"s_header_field_start", "s_header_value_lws"} \cup LineStates
                \cup BodyStates \cup ChunkStates \cup EndStates
Pieces == {"Conn", "ection", "Content", "-Length", "Transfer", "-Encoding", "Up",
           "grade", "X-", "Name", "clo", "se", "keep-", "alive", "upgr", "ade",
           "0", "2", "chun", "ked", "h2c", "v", "w", "/", "x", "?"}
Line == Seq(Pieces) \X Seq(Pieces)

\* Of the first m lines, h holds the last value of every name.
Stored(lines, m, h) ==
    /\ DOMAIN h = {lines[i][1] : i \in 1..m}
    /\ \A i \in 1..m : (\A j \in (i + 1)..m : lines[j][1] # lines[i][1])
                            => h[lines[i][1]] = lines[i][2]

\* The headers with one more.
With(h, n, v) == [x \in DOMAIN h \cup {n} |-> IF x = n THEN v ELSE h[x]]

\* The first message, and no read has ended inside a field of it.
Whole == sent.messages = 1 /\ ~sent.cut /\ ~sent.folded
Taken == IF hp.state \in LineStates THEN Len(sent.lines) - 1
         ELSE Len(sent.lines)
\* Nothing is kept from an earlier message.
StartInv ==
    sent.messages = 0 => sent.lines = <<>> /\ data.headers = <<>>
                            /\ mark.of = "none"
MarkInv ==
    Whole => /\ mark.of = "url" => hp.state \notin PastUrl
             /\ mark.of = "header_field" => hp.state = "s_header_field"
             /\ mark.of = "header_value" => hp.state = "s_header_value"
StoredInv ==
    Whole => sent.lines \in Seq(Line) /\ Stored(sent.lines, Taken, data.headers)
\* The part since the mark and the rest are the name, or the value.
LineInv ==
    Whole /\ hp.state \in LineStates =>
        /\ sent.lines # <<>> /\ hp.header \in Seq(Pieces)
        /\ sent.lines[Len(sent.lines)][1] = hp.header
        /\ hp.state # "s_header_value" =>
                sent.lines[Len(sent.lines)][2] = <<>>
        /\ hp.state # "s_header_value_discard_ws" =>
                mark.text \in Seq(Pieces) /\ hp.rest \in Seq(Pieces)
        /\ hp.state = "s_header_field" =>
                mark.of = "header_field" /\ mark.text \o hp.rest = hp.header
        /\ hp.state # "s_header_field" => data.field = hp.header
        /\ hp.state = "s_header_value" =>
                /\ mark.of = "header_value"
                /\ mark.text \o hp.rest = sent.lines[Len(sent.lines)][2]
\* The path is that of the URL, which began with '/' unless it is CONNECT's.
PathInv ==
    Whole /\ hp.type = "HTTP_REQUEST" =>
        /\ hp.state = "s_req_spaces_before_url" => sent.url = <<>>
        /\ hp.state \in Parser!UrlStates =>
                /\ mark.of = "url" /\ mark.text = sent.url
                /\ sent.url \in Seq(Pieces) /\ sent.url # <<>>
                /\ hp.method # "CONNECT" => sent.url[1] = "/"
        /\ hp.state \in PastUrl /\ hp.method # "CONNECT" =>
                data.path = Parser!http_parser_parse_url(sent.url).path
\* CONNECT ends with its headers, as an upgrade.
ConnectInv ==
    sent.messages = 1 /\ hp.method = "CONNECT" =>
        /\ hp.state \notin BodyStates \cup ChunkStates
        /\ "F_TRAILING" \notin hp.flags
        /\ hp.state \in EndStates => Parser!Upgraded
HeadersInv == /\ StartInv /\ MarkInv /\ StoredInv /\ LineInv /\ PathInv
              /\ ConnectInv

\* Lines past the stored ones do not matter.
LEMMA StoredSame ==
    ASSUME NEW a, NEW b, NEW m \in Nat, NEW h, Stored(a, m, h),
           \A i \in 1..m : a[i] = b[i]
    PROVE  Stored(b, m, h)
<1>1. {a[i][1] : i \in 1..m} = {b[i][1] : i \in 1..m}
  OBVIOUS
<1>2. ASSUME NEW i \in 1..m, \A j \in (i + 1)..m : b[j][1] # b[i][1]
      PROVE  h[b[i][1]] = b[i][2]
  <2>1. \A j \in (i + 1)..m : j \in 1..m
    OBVIOUS
  <2>2. \A j \in (i + 1)..m : a[j][1] # a[i][1]
    BY <1>2, <2>1
  <2>3. QED
    BY <1>2, <2>2 DEF Stored
<1>3. QED
  BY <1>1, <1>2 DEF Stored

\* on_header_value stores one more line.
LEMMA StoredNext ==
    ASSUME NEW lines, NEW k \in Nat, k - 1 \in Nat, NEW h,
           Stored(lines, k - 1, h), NEW n, NEW v,
           lines[k][1] = n, lines[k][2] = v
    PROVE  Stored(lines, k, With(h, n, v))
<1> DEFINE g == With(h, n, v)
<1> USE DEF With
<1>0. PICK m \in Nat : m = k - 1 /\ m + 1 = k
  OBVIOUS
<1>1. \A i \in 1..k : i \in 1..m \/ i = k
  BY <1>0
<1>2. \A i \in 1..m : i \in 1..k
  BY <1>0
<1>3. k \in 1..k
  BY <1>0
<1>4. DOMAIN h = {lines[i][1] : i \in 1..m}
  BY <1>0 DEF Stored
<1>5. DOMAIN g = {lines[i][1] : i \in 1..k}
  BY <1>1, <1>2, <1>3, <1>4
<1>6. ASSUME NEW i \in 1..k,
             \A j \in (i + 1)..k : lines[j][1] # lines[i][1]
      PROVE  g[lines[i][1]] = lines[i][2]
  <2>1. CASE i = k
    BY <2>1
  <2>2. CASE i \in 1..m
    <3>1. k \in (i + 1)..k
      BY <1>0, <2>2
    <3>2. lines[i][1] # n
      BY <1>6, <3>1
    <3>3. \A j \in (i + 1)..m : j \in (i + 1)..k
      BY <1>0, <2>2
    <3>4. h[lines[i][1]] = lines[i][2]
      BY <1>0, <1>6, <2>2, <3>3 DEF Stored
    <3>5. lines[i][1] \in DOMAIN h
      BY <1>4, <2>2
    <3>6. QED
      BY <3>2, <3>4, <3>5
  <2>3. QED
    BY <1>1, <2>1, <2>2
<1>7. QED
  BY <1>5, <1>6 DEF Stored

\* The stored value of a name is that of its last line.
LEMMA StoredLast ==
    ASSUME NEW lines, NEW m \in Nat, NEW h, Stored(lines, m, h),
           NEW n \in DOMAIN h
    PROVE  \E i \in 1..m : /\ lines[i][1] = n
                           /\ \A j \in 1..m : lines[j][1] = n => j <= i
                           /\ h[n] = lines[i][2]
<1> DEFINE T == {k \in 0..m : m - k \in 1..m /\ lines[m - k][1] = n}
<1>1. PICK i \in 1..m : lines[i][1] = n
  BY DEF Stored
<1>2. m - i \in 0..m /\ m - (m - i) = i
  OBVIOUS
<1>3. m - i \in T
  BY <1>1, <1>2
<1>4. T \in SUBSET Nat
  OBVIOUS
<1>5. PICK k \in T : \A y \in T : k <= y
  BY <1>3, <1>4, LeastNat
<1>6. k \in 0..m /\ m - k \in 1..m /\ lines[m - k][1] = n
  BY <1>5
<1>7. ASSUME NEW j \in 1..m, lines[j][1] = n
      PROVE  j <= m - k
  <2>1. m - j \in 0..m /\ m - (m - j) = j
    OBVIOUS
  <2>2. m - j \in T
    BY <1>7, <2>1
  <2>3. k <= m - j
    BY <1>5, <2>2
  <2>4. QED
    BY <1>6, <2>3
<1>8. \A j \in ((m - k) + 1)..m : lines[j][1] # n
  <2>1. \A j \in ((m - k) + 1)..m : j \in 1..m /\ ~(j <= m - k)
    BY <1>6
  <2>2. QED
    BY <1>7, <2>1
<1>9. h[n] = lines[m - k][2]
  BY <1>6, <1>8 DEF Stored
<1>10. QED
  BY <1>6, <1>7, <1>9

\* The function that Along is made of, for parse_url_char from its start.
IsAlong(s, n, f) ==
    f = [i \in 0..n |-> IF i = 0 THEN "s_req_spaces_before_url"
                        ELSE Parser!parse_url_char(f[i - 1], s[i])]
LEMMA AlongExists ==
    ASSUME NEW s
    PROVE  \A n \in Nat : \E f : IsAlong(s, n, f)
<1> DEFINE T == {n \in Nat : ~\E f : IsAlong(s, n, f)}
<1> SUFFICES ASSUME T # {} PROVE FALSE
  OBVIOUS
<1>1. PICK n \in T : \A y \in T : n <= y
  BY LeastNat
<1>2. n # 0
  <2>1. IsAlong(s, 0, [i \in 0..0 |-> "s_req_spaces_before_url"])
    BY DEF IsAlong
  <2>2. QED
    BY <1>1, <2>1
<1>3. n - 1 \in Nat /\ n \in Nat
  BY <1>1, <1>2
<1>4. PICK f : IsAlong(s, n - 1, f)
  BY <1>1, <1>3
<1> DEFINE g == [i \in 0..n |-> IF i = n THEN Parser!parse_url_char(f[n - 1], s[n])
                                ELSE f[i]]
<1>5. ASSUME NEW i \in 0..n
      PROVE  g[i] = IF i = 0 THEN "s_req_spaces_before_url"
                    ELSE Parser!parse_url_char(g[i - 1], s[i])
  <2>1. i = n \/ i \in 0..(n - 1)
    BY <1>3
  <2>2. \A j \in 0..(n - 1) : j \in 0..n /\ j # n
    BY <1>3
  <2>3. \A j \in 0..(n - 1) : g[j] = f[j]
    BY <2>2
  <2>4. i # 0 => i - 1 \in 0..(n - 1)
    BY <1>3
  <2>5. CASE i = n
    <3>1. g[i] = Parser!parse_url_char(f[n - 1], s[n])
      BY <2>5
    <3>2. n - 1 \in 0..(n - 1)
      BY <1>3
    <3>3. g[n - 1] = f[n - 1]
      BY <2>3, <3>2
    <3> HIDE DEF g
    <3>4. QED
      BY <1>2, <2>5, <3>1, <3>3
  <2>6. CASE i \in 0..(n - 1)
    <3>1. f[i] = IF i = 0 THEN "s_req_spaces_before_url"
                 ELSE Parser!parse_url_char(f[i - 1], s[i])
      BY <1>4, <2>6 DEF IsAlong
    <3> HIDE DEF g
    <3>2. QED
      BY <2>3, <2>4, <2>6, <3>1
  <2>7. QED
    BY <2>1, <2>5, <2>6
<1>6. g = [i \in 0..n |-> IF i = 0 THEN "s_req_spaces_before_url"
                          ELSE Parser!parse_url_char(g[i - 1], s[i])]
  <2>1. DOMAIN g = 0..n
    OBVIOUS
  <2>2. g = [i \in 0..n |-> g[i]]
    OBVIOUS
  <2> HIDE DEF g
  <2>3. QED
    BY <1>5, <2>2
<1>7. IsAlong(s, n, g)
  BY <1>6 DEF IsAlong
<1>8. QED
  BY <1>1, <1>7

\* ... and the one that Field is made of.
IsHeaderField(s, n, at, S, f) ==
    f = [i \in 0..n |-> IF i = 0 THEN <<>>
                        ELSE IF at[i] \in S THEN Append(f[i - 1], s[i])
                        ELSE f[i - 1]]
LEMMA HeaderFieldExists ==
    ASSUME NEW s, NEW at, NEW S
    PROVE  \A n \in Nat : \E f : IsHeaderField(s, n, at, S, f)
<1> DEFINE T == {n \in Nat : ~\E f : IsHeaderField(s, n, at, S, f)}
           Step(x, i) == IF at[i] \in S THEN Append(x, s[i]) ELSE x
<1> SUFFICES ASSUME T # {} PROVE FALSE
  OBVIOUS
<1>1. PICK n \in T : \A y \in T : n <= y
  BY LeastNat
<1>2. n # 0
  <2>1. IsHeaderField(s, 0, at, S, [i \in 0..0 |-> <<>>])
    BY DEF IsHeaderField
  <2>2. QED
    BY <1>1, <2>1
<1>3. n - 1 \in Nat /\ n \in Nat
  BY <1>1, <1>2
<1>4. PICK f : IsHeaderField(s, n - 1, at, S, f)
  BY <1>1, <1>3
<1> DEFINE g == [i \in 0..n |-> IF i = n THEN Step(f[n - 1], n) ELSE f[i]]
<1>5. ASSUME NEW i \in 0..n
      PROVE  g[i] = IF i = 0 THEN <<>> ELSE Step(g[i - 1], i)
  <2>1. i = n \/ i \in 0..(n - 1)
    BY <1>3
  <2>2. \A j \in 0..(n - 1) : j \in 0..n /\ j # n
    BY <1>3
  <2>3. \A j \in 0..(n - 1) : g[j] = f[j]
    BY <2>2
  <2>4. i # 0 => i - 1 \in 0..(n - 1)
    BY <1>3
  <2>5. CASE i = n
    <3>1. g[i] = Step(f[n - 1], n)
      BY <2>5
    <3>2. n - 1 \in 0..(n - 1)
      BY <1>3
    <3>3. g[n - 1] = f[n - 1]
      BY <2>3, <3>2
    <3> HIDE DEF g, Step
    <3>4. QED
      BY <1>2, <2>5, <3>1, <3>3
  <2>6. CASE i \in 0..(n - 1)
    <3>1. f[i] = IF i = 0 THEN <<>> ELSE Step(f[i - 1], i)
      BY <1>4, <2>6 DEF IsHeaderField
    <3> HIDE DEF g, Step
    <3>2. QED
      BY <2>3, <2>4, <2>6, <3>1
  <2>7. QED
    BY <2>1, <2>5, <2>6
<1>6. g = [i \in 0..n |-> IF i = 0 THEN <<>> ELSE Step(g[i - 1], i)]
  <2>1. g = [i \in 0..n |-> g[i]]
    OBVIOUS
  <2> HIDE DEF g, Step
  <2>2. QED
    BY <1>5, <2>1
<1> HIDE DEF g
<1>7. IsHeaderField(s, n, at, S, g)
  BY <1>6 DEF IsHeaderField
<1>8. QED
  BY <1>1, <1>7

LEMMA StoredNone == <<>> \in Seq(Line) /\ Len(<<>>) = 0 /\ Stored(<<>>, 0, <<>>)
  BY DEF Stored

\* A URL that begins with '/' has a path.
LEMMA PathFirst ==
    ASSUME NEW P, NEW u \in Seq(P), u # <<>>, u[1] = "/",
           Parser!http_parser_parse_url(u).ok
    PROVE  Parser!http_parser_parse_url(u).path # <<>>
<1> DEFINE at == CHOOSE f : IsAlong(u, Len(u), f)
           S == {"s_req_path"}
           got == CHOOSE f : IsHeaderField(u, Len(u), at, S, f)
<1>1. Len(u) \in Nat /\ Len(u) >= 1
  OBVIOUS
<1>2. IsAlong(u, Len(u), at)
  <2>1. \E f : IsAlong(u, Len(u), f)
    BY <1>1, AlongExists
  <2>2. QED
    BY <2>1, Zenon
<1>3. Parser!Along(Parser!parse_url_char, "s_req_spaces_before_url", u) = at
  BY DEF Parser!Along, IsAlong
<1>a. \/ Parser!http_parser_parse_url(u) = Parser!Invalid
      \/ Parser!http_parser_parse_url(u).path = Parser!Field(u, at, S)
  <2> DEFINE schema == Parser!Field(u, at, {"s_req_schema"})
             server == Parser!Field(u, at, {"s_req_server",
                                            "s_req_server_with_at"})
             h == IF server = <<>>
                  THEN [ok |-> TRUE, userinfo |-> <<>>, host |-> <<>>,
                        v6 |-> FALSE, port |-> <<>>]
                  ELSE Parser!http_parse_host(server, \E i \in DOMAIN at :
                                                at[i] = "s_req_server_with_at")
             r == [ok |-> TRUE, scheme |-> schema, userinfo |-> h.userinfo,
                   host |-> h.host, v6 |-> h.v6, port |-> h.port,
                   path |-> Parser!Field(u, at, {"s_req_path"}),
                   query |-> Parser!Field(u, at, {"s_req_query_string"}),
                   fragment |-> Parser!Field(u, at, {"s_req_fragment"})]
             bad == \/ u = <<>> \/ at[Len(u)] = Parser!Dead
                    \/ schema # <<>> /\ server = <<>>
                    \/ ~h.ok
                    \/ Parser!Number(h.port) > 65535
  <2>1. Parser!http_parser_parse_url(u) = IF bad THEN Parser!Invalid ELSE r
    BY DEF Parser!http_parser_parse_url, Parser!Along, IsAlong
  <2>2. r.path = Parser!Field(u, at, S)
    OBVIOUS
  <2> HIDE DEF bad, r
  <2>3. QED
    BY <2>1, <2>2
<1> HIDE DEF at
<1>4. IsHeaderField(u, Len(u), at, S, got)
  <2>1. \E f : IsHeaderField(u, Len(u), at, S, f)
    BY <1>1, HeaderFieldExists
  <2>2. QED
    BY <2>1, Zenon
<1>5. Parser!Field(u, at, S) = got[Len(u)]
  BY DEF Parser!Field, IsHeaderField
<1> HIDE DEF got, S
<1>6. Parser!http_parser_parse_url(u).path = got[Len(u)]
  BY <1>a, <1>5 DEF Parser!Invalid
<1>7. at[1] = "s_req_path"
  <2>1. at[0] = "s_req_spaces_before_url"
    BY <1>1, <1>2 DEF IsAlong
  <2>2. at[1] = Parser!parse_url_char(at[0], u[1])
    BY <1>1, <1>2 DEF IsAlong
  <2>3. Parser!parse_url_char("s_req_spaces_before_url", "/") = "s_req_path"
    BY DEF Parser!parse_url_char, Parser!White
  <2>4. QED
    BY <2>1, <2>2, <2>3
<1>8. got[1] = Append(<<>>, u[1])
  <2>1. 0 \in 0..Len(u) /\ 1 \in 0..Len(u)
    BY <1>1
  <2>2. got[0] = <<>>
    BY <1>4, <2>1 DEF IsHeaderField
  <2>3. ASSUME NEW i \in 0..Len(u), i = 1
        PROVE  got[i] = Append(<<>>, u[i])
    <3>1. got[i] = IF at[i] \in S THEN Append(got[i - 1], u[i])
                   ELSE got[i - 1]
      BY <1>4, <2>3 DEF IsHeaderField
    <3>2. at[i] \in S /\ i - 1 = 0
      BY <1>7, <2>3 DEF S
    <3>3. QED
      BY <2>2, <3>1, <3>2
  <2>4. QED
    BY <2>1, <2>3
<1> DEFINE T == {n \in Nat : n \in 1..Len(u)
                    /\ ~(got[n] \in Seq(P) /\ got[n] # <<>>)}
<1>9. T = {}
  <2> SUFFICES ASSUME T # {} PROVE FALSE
    OBVIOUS
  <2>1. PICK n \in T : \A y \in T : n <= y
    BY LeastNat
  <2>2. got[1] \in Seq(P) /\ got[1] # <<>>
    BY <1>1, <1>8
  <2>3. n # 1 /\ n \in 1..Len(u)
    BY <2>1, <2>2
  <2>4. n - 1 \in Nat /\ n - 1 \in 1..Len(u) /\ n - 1 < n /\ n # 0 /\ n \in 0..Len(u)
    BY <1>1, <2>3
  <2>5. n - 1 \notin T
    BY <2>1, <2>4
  <2>6. got[n - 1] \in Seq(P) /\ got[n - 1] # <<>>
    BY <2>4, <2>5
  <2>7. got[n] = IF at[n] \in S THEN Append(got[n - 1], u[n]) ELSE got[n - 1]
    BY <1>4, <2>4 DEF IsHeaderField
  <2>8. u[n] \in P
    BY <2>3
  <2>9. /\ Append(got[n - 1], u[n]) \in Seq(P)
        /\ Append(got[n - 1], u[n]) # <<>>
    BY <2>6, <2>8
  <2>10. QED
    BY <2>1, <2>6, <2>7, <2>9
<1>10. Len(u) \notin T /\ Len(u) \in 1..Len(u)
  BY <1>1, <1>9
<1>11. QED
  BY <1>6, <1>10

\* A piece of a name or a value moves from what is left to the mark.
LEMMA PieceFacts ==
    \A a, r \in Seq(Pieces) : r # <<>> =>
        /\ Append(a, Head(r)) \in Seq(Pieces) /\ Tail(r) \in Seq(Pieces)
        /\ Append(a, Head(r)) \o Tail(r) = a \o r
        /\ <<Head(r)>> \in Seq(Pieces) /\ <<Head(r)>> \o Tail(r) = r
<1> SUFFICES ASSUME NEW P, NEW a \in Seq(P), NEW r \in Seq(P), r # <<>>
             PROVE  /\ Append(a, Head(r)) \in Seq(P) /\ Tail(r) \in Seq(P)
                    /\ Append(a, Head(r)) \o Tail(r) = a \o r
                    /\ <<Head(r)>> \in Seq(P) /\ <<Head(r)>> \o Tail(r) = r
  OBVIOUS
<1>1. Head(r) \in P /\ Tail(r) \in Seq(P) /\ Len(Tail(r)) = Len(r) - 1
  OBVIOUS
<1>2. Append(a, Head(r)) \in Seq(P)
  BY <1>1
<1>3. Append(a, Head(r)) \o Tail(r) = a \o r
  OBVIOUS
<1>4. <<Head(r)>> \in Seq(P) /\ <<Head(r)>> \o Tail(r) = r
  OBVIOUS
<1>5. QED
  BY <1>1, <1>2, <1>3, <1>4

\* The names and the values are sequences of pieces.
LEMMA TupleFacts ==
    ASSUME NEW P, NEW a \in P, NEW b \in P
    PROVE  /\ <<a, b>> \in Seq(P) /\ <<a, b>> # <<>>
           /\ <<a>> \in Seq(P) /\ <<>> \in Seq(P)
  OBVIOUS

LEMMA NameFacts ==
    ASSUME NEW n \in Parser!HeaderNames
    PROVE  n \in Seq(Pieces) /\ n # <<>>
<1>1. \E a, b \in Pieces : n = <<a, b>>
  BY DEF Parser!HeaderNames, Parser!Connection, Parser!ContentLength,
     Parser!TransferEncoding, Parser!UpgradeHeader, Parser!Other, Pieces
<1>2. QED
  BY <1>1, TupleFacts

LEMMA ValueFacts ==
    ASSUME NEW n, NEW v \in Parser!ValuesOf(n)
    PROVE  v \in Seq(Pieces)
<1>1. v \in {<<"clo", "se">>, <<"keep-", "alive">>, <<"upgr", "ade">>, <<>>,
             <<"x">>, <<"0">>, <<"2">>, <<"2", "2">>, <<"chun", "ked">>,
             <<"h2c">>, <<"v", "w">>}
  BY DEF Parser!ValuesOf
<1>2. \E a, b \in Pieces : v = <<a, b>> \/ v = <<a>> \/ v = <<>>
  BY <1>1 DEF Pieces
<1>3. QED
  BY <1>2, TupleFacts

\* What the callbacks do to the path, the name and the headers.
LEMMA DeliverHead ==
    ASSUME ParserTypes
    PROVE  /\ mark.of \notin {"url", "header_field", "header_value"} =>
                /\ Parser!Deliver(mark).headers = data.headers
                /\ Parser!Deliver(mark).path = data.path
                /\ Parser!Deliver(mark).field = data.field
           /\ mark.of = "url" =>
                /\ Parser!Deliver(mark).headers = data.headers
                /\ Parser!Deliver(mark).field = data.field
                /\ LET u == Parser!http_parser_parse_url(mark.text)
                   IN  u.ok /\ u.path # <<>> => Parser!Deliver(mark).path = u.path
           /\ mark.of = "header_field" =>
                /\ Parser!Deliver(mark).headers = data.headers
                /\ Parser!Deliver(mark).path = data.path
                /\ Parser!Deliver(mark).field = mark.text
           /\ mark.of = "header_value" =>
                /\ Parser!Deliver(mark).path = data.path
                /\ Parser!Deliver(mark).headers =
                        With(data.headers, data.field, mark.text)
<1> USE DEF ParserTypes
<1>1. CASE mark.of = "url"
  <2>1. Parser!Deliver(mark) = Parser!on_url(mark.text)
    BY <1>1 DEF Parser!Deliver
  <2>2. QED
    BY <1>1, <2>1 DEF Parser!on_url
<1>2. CASE mark.of = "header_field"
  <2>1. Parser!Deliver(mark) = Parser!on_header_field(mark.text)
    BY <1>2 DEF Parser!Deliver
  <2>2. QED
    BY <1>2, <2>1 DEF Parser!on_header_field
<1>3. CASE mark.of = "header_value"
  <2>1. Parser!Deliver(mark) = Parser!on_header_value(mark.text)
    BY <1>3 DEF Parser!Deliver
  <2>2. QED
    BY <1>3, <2>1 DEF Parser!on_header_value, With
<1>4. CASE mark.of \notin {"url", "header_field", "header_value"}
  <2>1. Parser!Deliver(mark) \in {data, Parser!on_body(mark.text)}
    BY <1>4 DEF Parser!Deliver
  <2>2. QED
    BY <1>4, <2>1 DEF Parser!on_body
<1>5. QED
  BY <1>1, <1>2, <1>3, <1>4

\* A parser that has just been made holds nothing.
LEMMA HeadersFresh ==
    ASSUME Parser!Fresh
    PROVE  HeadersInv'
<1>1. sent'.messages = 0 /\ sent'.lines = <<>>
  BY DEF Parser!Fresh, Parser!NewSent
<1>2. data'.headers = <<>> /\ mark'.of = "none"
  BY DEF Parser!Fresh, Parser!NewData, Parser!NoMark
<1>3. ~Whole'
  BY <1>1 DEF Whole
<1>4. QED
  BY <1>1, <1>2, <1>3 DEF HeadersInv, StartInv, MarkInv, StoredInv, LineInv,
     PathInv, ConnectInv

LEMMA HeadersInit == Parser!Init => HeadersInv
<1> SUFFICES ASSUME Parser!Init PROVE HeadersInv
  OBVIOUS
<1>1. sent.messages = 0 /\ sent.lines = <<>>
  BY DEF Parser!Init, Parser!NewSent
<1>2. data.headers = <<>> /\ mark.of = "none"
  BY DEF Parser!Init, Parser!NewData, Parser!NoMark
<1>3. ~Whole
  BY <1>1 DEF Whole
<1>4. QED
  BY <1>1, <1>2, <1>3 DEF HeadersInv, StartInv, MarkInv, StoredInv, LineInv,
     PathInv, ConnectInv

\* It is enough to look at a message that is still whole.
LEMMA HeadersCases ==
    ASSUME sent'.messages # 0, ConnectInv',
           Whole' => MarkInv' /\ StoredInv' /\ LineInv' /\ PathInv'
    PROVE  HeadersInv'
  BY DEF HeadersInv, StartInv, MarkInv, StoredInv, LineInv, PathInv

\* A step within the head of CONNECT.
LEMMA ConnectKeeps ==
    ASSUME ConnectInv, sent'.messages = sent.messages, hp'.method = hp.method,
           "F_TRAILING" \in hp'.flags => "F_TRAILING" \in hp.flags,
           InHead(hp'.state)
    PROVE  ConnectInv'
  BY DEF ConnectInv, InHead

\* A step that touches no field of the head.
LEMMA HeadersKeep ==
    ASSUME HeadersInv, ConnectInv', sent'.messages # 0, Whole' => Whole,
           hp.state \in PastUrl \ LineStates, hp'.state \in PastUrl \ LineStates,
           hp'.type = hp.type, hp'.method = hp.method,
           sent'.lines = sent.lines, sent'.url = sent.url,
           Whole => data'.headers = data.headers /\ data'.path = data.path,
           mark'.of \in {"none", "body"}
    PROVE  HeadersInv'
<1> SUFFICES ASSUME Whole'
             PROVE  MarkInv' /\ StoredInv' /\ LineInv' /\ PathInv'
  BY HeadersCases
<1>1. Whole
  OBVIOUS
<1>2. MarkInv' /\ LineInv'
  BY DEF MarkInv, LineInv
<1>3. StoredInv'
  BY <1>1 DEF HeadersInv, StoredInv, Taken
<1>4. PathInv'
  <2>1. hp'.state \notin Parser!UrlStates /\ hp'.state # "s_req_spaces_before_url"
    BY DEF PastUrl, LineStates, BodyStates, ChunkStates, EndStates,
       Parser!UrlStates, Parser!Dead
  <2>2. QED
    BY <1>1, <2>1 DEF HeadersInv, PathInv
<1>5. QED
  BY <1>2, <1>3, <1>4

LEMMA HeadersStep ==
    ParserInv /\ HeadersInv /\ [Parser!Next]_Parser!vars => HeadersInv'
<1> SUFFICES ASSUME ParserInv, HeadersInv, [Parser!Next]_Parser!vars
             PROVE  HeadersInv'
  OBVIOUS
<1>0. /\ ParserTypes /\ BytesInv /\ ModeInv
      /\ StartInv /\ MarkInv /\ StoredInv /\ LineInv /\ PathInv /\ ConnectInv
      /\ ModeInv'
  BY ParserStep DEF ParserInv, HeadersInv
<1>a. hp.state # "s_start" => sent.messages # 0
  BY <1>0 DEF ModeInv
<1>b. ASSUME Parser!SendByte, hp.state \in BodyStates, hp'.method = hp.method
      PROVE  /\ ConnectInv' /\ sent'.messages # 0 /\ (Whole' => Whole)
             /\ sent'.lines = sent.lines /\ sent'.url = sent.url
  <2>1. sent' = [sent EXCEPT !.body = Append(sent.body, Parser!Byte)]
    BY <1>b DEF Parser!SendByte
  <2>2. /\ sent'.messages = sent.messages /\ sent'.lines = sent.lines
        /\ sent'.url = sent.url /\ sent'.cut = sent.cut
        /\ sent'.folded = sent.folded
    BY <1>0, <2>1 DEF ParserTypes
  <2>3. hp.state # "s_start"
    BY <1>b DEF BodyStates
  <2>4. ConnectInv'
    BY <1>0, <1>b, <2>2 DEF ConnectInv
  <2>5. QED
    BY <1>a, <2>2, <2>3, <2>4 DEF Whole
<1>1. ASSUME NEW m \in {"GET", "CONNECT"}, Parser!StartRequest(m)
      PROVE  HeadersInv'
  <2>1. /\ hp' = [hp EXCEPT !.state = "s_req_spaces_before_url", !.flags = {},
                      !.content_length = UMax, !.method = m]
        /\ sent' = [sent EXCEPT !.messages = @ + 1, !.url = <<>>]
        /\ data' = data /\ mark' = mark
    BY <1>1 DEF Parser!StartRequest
  <2>2. hp'.state = "s_req_spaces_before_url" /\ hp'.flags = {}
    BY <1>0, <2>1 DEF ParserTypes
  <2>3. /\ sent'.messages = sent.messages + 1 /\ sent'.lines = sent.lines
        /\ sent'.url = <<>> /\ sent.messages \in Nat
    BY <1>0, <2>1 DEF ParserTypes
  <2>4. ConnectInv'
    BY <2>2 DEF ConnectInv, BodyStates, ChunkStates, EndStates, Parser!Dead
  <2>5. ASSUME Whole'
        PROVE  MarkInv' /\ StoredInv' /\ LineInv' /\ PathInv'
    <3>1. sent.messages = 0
      BY <2>3, <2>5 DEF Whole
    <3>2. sent'.lines = <<>> /\ data'.headers = <<>> /\ mark'.of = "none"
      BY <1>0, <2>1, <2>3, <3>1 DEF StartInv
    <3>3. StoredInv'
      BY <2>2, <3>2, StoredNone DEF StoredInv, Taken, LineStates
    <3>4. QED
      BY <2>2, <2>3, <3>2, <3>3 DEF MarkInv, LineInv, PathInv, LineStates,
         PastUrl, BodyStates, ChunkStates, EndStates, Parser!UrlStates,
         Parser!Dead
  <2>6. QED
    BY <2>3, <2>4, <2>5, HeadersCases
<1>2. ASSUME NEW ch \in {"/", "x", "?"}, Parser!UrlPiece(ch)
      PROVE  HeadersInv'
  <2> DEFINE s0 == IF hp.state = "s_req_spaces_before_url"
                        /\ hp.method = "CONNECT"
                   THEN "s_req_server_start" ELSE hp.state
             s == Parser!parse_url_char(s0, ch)
  <2>1. /\ hp' = [hp EXCEPT !.state = s] /\ s # Parser!Dead
        /\ sent' = [sent EXCEPT !.url = Append(@, ch)]
        /\ data' = data
        /\ hp.state \in {"s_req_spaces_before_url"} \cup Parser!UrlStates
    BY <1>2 DEF Parser!UrlPiece, Parser!At
  <2>2. /\ hp.state = "s_req_spaces_before_url" => mark'.text = <<ch>>
        /\ hp.state # "s_req_spaces_before_url" =>
                mark'.text = Append(mark.text, ch)
        /\ mark'.of = "url"
    BY <1>2 DEF Parser!UrlPiece, Parser!MARK, Parser!MARKMORE
  <2>3. s \in UrlResults
    BY <2>1, UrlStateFacts
  <2>4. hp.state = "s_req_spaces_before_url" /\ hp.method # "CONNECT"
            /\ s \in Parser!UrlStates => ch = "/"
    BY DEF Parser!parse_url_char, Parser!UrlStates, Parser!Letters,
       Parser!Dead, Parser!White
  <2> HIDE DEF s0, s
  <2>5. /\ hp'.state = s /\ hp'.flags = hp.flags /\ hp'.type = hp.type
        /\ hp'.method = hp.method
    BY <1>0, <2>1 DEF ParserTypes
  <2>6. /\ sent'.messages = sent.messages /\ sent'.lines = sent.lines
        /\ sent'.cut = sent.cut /\ sent'.folded = sent.folded
        /\ sent'.url = Append(sent.url, ch)
    BY <1>0, <2>1 DEF ParserTypes
  <2>7. /\ s \notin PastUrl /\ hp.state \notin PastUrl
        /\ s \notin LineStates /\ hp.state \notin LineStates
        /\ s # "s_req_spaces_before_url" /\ InHead(s)
    BY <2>1, <2>3 DEF UrlResults, PastUrl, LineStates, BodyStates,
       ChunkStates, EndStates, InHead, Parser!Dead, Parser!UrlStates
  <2>8. ConnectInv' /\ sent'.messages # 0
    BY <1>0, <1>a, <2>1, <2>5, <2>6, <2>7, ConnectKeeps DEF Parser!UrlStates
  <2>9. ASSUME Whole'
        PROVE  MarkInv' /\ StoredInv' /\ LineInv' /\ PathInv'
    <3>1. Whole
      BY <2>6, <2>9 DEF Whole
    <3>2. MarkInv' /\ LineInv'
      BY <2>2, <2>5, <2>7 DEF MarkInv, LineInv
    <3>3. StoredInv'
      BY <1>0, <2>1, <2>5, <2>6, <2>7, <3>1 DEF StoredInv, Taken
    <3>4. ch \in Pieces
      BY DEF Pieces
    <3>5. ASSUME hp.type = "HTTP_REQUEST", s \in Parser!UrlStates
          PROVE  /\ mark'.text = sent'.url /\ sent'.url \in Seq(Pieces)
                 /\ sent'.url # <<>>
                 /\ hp.method # "CONNECT" => sent'.url[1] = "/"
      <4>1. CASE hp.state = "s_req_spaces_before_url"
        <5>1. sent.url = <<>>
          BY <1>0, <3>1, <3>5, <4>1 DEF PathInv
        <5>2. sent'.url = <<ch>>
          BY <2>6, <3>4, <5>1
        <5>3. QED
          BY <2>2, <2>4, <3>4, <3>5, <4>1, <5>2
      <4>2. CASE hp.state \in Parser!UrlStates
        <5>1. /\ mark.text = sent.url /\ sent.url \in Seq(Pieces)
              /\ sent.url # <<>>
              /\ hp.method # "CONNECT" => sent.url[1] = "/"
          BY <1>0, <3>1, <3>5, <4>2 DEF PathInv
        <5>2. hp.state # "s_req_spaces_before_url"
          BY <4>2 DEF Parser!UrlStates
        <5>3. \A u \in Seq(Pieces) : u # <<>> =>
                    /\ Append(u, ch) \in Seq(Pieces) /\ Append(u, ch) # <<>>
                    /\ Append(u, ch)[1] = u[1]
          BY <3>4
        <5>4. QED
          BY <2>2, <2>6, <5>1, <5>2, <5>3
      <4>3. QED
        BY <2>1, <4>1, <4>2
    <3>6. PathInv'
      BY <2>2, <2>5, <2>7, <3>5 DEF PathInv
    <3>7. QED
      BY <3>2, <3>3, <3>6
  <2>10. QED
    BY <2>8, <2>9, HeadersCases
<1>3. ASSUME NEW minor \in {0, 1}, Parser!UrlEnd(minor)
      PROVE  HeadersInv'
  <2>1. CASE Parser!Refused(mark)
    BY <1>3, <2>1, HeadersFresh DEF Parser!UrlEnd, Parser!Fail
  <2>2. CASE ~Parser!Refused(mark)
    <3>1. /\ data' = Parser!Deliver(mark) /\ mark' = Parser!NoMark
          /\ hp' = [hp EXCEPT !.state = "s_header_field_start",
                        !.minor = minor]
          /\ sent' = sent /\ hp.state \in Parser!UrlStates
      BY <1>3, <2>2 DEF Parser!UrlEnd, Parser!At
    <3>2. /\ hp'.state = "s_header_field_start" /\ hp'.flags = hp.flags
          /\ hp'.type = hp.type /\ hp'.method = hp.method
      BY <1>0, <3>1 DEF ParserTypes
    <3>3. mark'.of = "none"
      BY <3>1 DEF Parser!NoMark
    <3>4. ConnectInv' /\ sent'.messages # 0
      <4>1. InHead(hp'.state)
        BY <3>2 DEF InHead, BodyStates, ChunkStates, EndStates, Parser!Dead
      <4>2. hp.state # "s_start"
        BY <3>1 DEF Parser!UrlStates
      <4>3. QED
        BY <1>0, <1>a, <3>1, <3>2, <4>1, <4>2, ConnectKeeps
    <3>5. hp.state \notin PastUrl /\ hp.state \notin LineStates
      BY <3>1 DEF PastUrl, LineStates, BodyStates, ChunkStates, EndStates,
         Parser!Dead, Parser!UrlStates
    <3>6. hp'.state \notin LineStates
      BY <3>2 DEF LineStates
    <3>7. ASSUME Whole'
          PROVE  MarkInv' /\ StoredInv' /\ LineInv' /\ PathInv'
      <4>1. Whole
        BY <3>1, <3>7 DEF Whole
      <4>2. MarkInv' /\ LineInv'
        BY <3>3, <3>6 DEF MarkInv, LineInv
      <4>3. data'.headers = data.headers
        <5>1. mark.of \notin {"header_field", "header_value"}
          BY <1>0, <3>1, <4>1 DEF MarkInv, Parser!UrlStates
        <5>2. QED
          BY <1>0, <3>1, <5>1, DeliverHead
      <4>4. StoredInv'
        BY <1>0, <3>1, <3>5, <3>6, <4>1, <4>3 DEF StoredInv, Taken
      <4>5. ASSUME hp.type = "HTTP_REQUEST", hp.method # "CONNECT"
            PROVE  data'.path = Parser!http_parser_parse_url(sent.url).path
        <5>1. /\ mark.of = "url" /\ mark.text = sent.url
              /\ sent.url \in Seq(Pieces) /\ sent.url # <<>>
              /\ sent.url[1] = "/"
          BY <1>0, <3>1, <4>1, <4>5 DEF PathInv
        <5>2. Parser!http_parser_parse_url(sent.url).ok
          BY <2>2, <5>1 DEF Parser!Refused
        <5>3. Parser!http_parser_parse_url(sent.url).path # <<>>
          BY <5>1, <5>2, PathFirst
        <5>4. QED
          BY <1>0, <3>1, <5>1, <5>2, <5>3, DeliverHead
      <4>6. PathInv'
        BY <3>1, <3>2, <4>5 DEF PathInv, Parser!UrlStates
      <4>7. QED
        BY <4>2, <4>4, <4>6
    <3>8. QED
      BY <3>4, <3>7, HeadersCases
  <2>3. QED
    BY <2>1, <2>2
<1>4. ASSUME NEW code \in {200, 101, 204}, NEW minor \in {0, 1},
             Parser!StartResponse(code, minor)
      PROVE  HeadersInv'
  <2>1. /\ hp' = [hp EXCEPT !.state = "s_header_field_start", !.flags = {},
                      !.content_length = UMax, !.status = code,
                      !.minor = minor]
        /\ sent' = [sent EXCEPT !.messages = @ + 1]
        /\ data' = data /\ mark' = mark /\ hp.type = "HTTP_RESPONSE"
    BY <1>4 DEF Parser!StartResponse
  <2>2. hp'.state = "s_header_field_start" /\ hp'.type = "HTTP_RESPONSE"
    BY <1>0, <2>1 DEF ParserTypes
  <2>3. /\ sent'.messages = sent.messages + 1 /\ sent'.lines = sent.lines
        /\ sent.messages \in Nat
    BY <1>0, <2>1 DEF ParserTypes
  <2>4. ConnectInv'
    BY <1>0, <2>2 DEF ConnectInv, ModeInv
  <2>5. ASSUME Whole'
        PROVE  MarkInv' /\ StoredInv' /\ LineInv' /\ PathInv'
    <3>1. sent.messages = 0
      BY <2>3, <2>5 DEF Whole
    <3>2. sent'.lines = <<>> /\ data'.headers = <<>> /\ mark'.of = "none"
      BY <1>0, <2>1, <2>3, <3>1 DEF StartInv
    <3>3. StoredInv'
      BY <2>2, <3>2, StoredNone DEF StoredInv, Taken, LineStates
    <3>4. QED
      BY <2>2, <3>2, <3>3 DEF MarkInv, LineInv, PathInv, LineStates
  <2>6. QED
    BY <2>3, <2>4, <2>5, HeadersCases
<1>5. ASSUME NEW n \in Parser!HeaderNames, Parser!HeaderField(n)
      PROVE  HeadersInv'
  <2> DEFINE line == <<n, <<>>>>
  <2>1. /\ hp' = [hp EXCEPT !.state = "s_header_field", !.flags = Parser!Finish,
                      !.header = n, !.value = <<>>, !.rest = Tail(n)]
        /\ sent' = [sent EXCEPT !.lines = Append(@, line)]
        /\ data' = data
        /\ hp.state \in {"s_header_field_start", "s_header_value_lws"}
    BY <1>5 DEF Parser!HeaderField, Parser!At
  <2>2. mark'.of = "header_field" /\ mark'.text = <<Head(n)>>
    BY <1>5 DEF Parser!HeaderField, Parser!MARK
  <2>3. /\ hp'.state = "s_header_field" /\ hp'.flags = Parser!Finish
        /\ hp'.header = n /\ hp'.rest = Tail(n) /\ hp'.type = hp.type
        /\ hp'.method = hp.method
    BY <1>0, <2>1 DEF ParserTypes
  <2>4. /\ sent'.messages = sent.messages /\ sent'.lines = Append(sent.lines, line)
        /\ sent'.cut = sent.cut /\ sent'.folded = sent.folded
        /\ sent'.url = sent.url
    BY <1>0, <2>1 DEF ParserTypes
  <2>5. ConnectInv' /\ sent'.messages # 0
    <3>1. InHead(hp'.state)
      BY <2>3 DEF InHead, BodyStates, ChunkStates, EndStates, Parser!Dead
    <3>2. QED
      BY <1>0, <1>a, <2>1, <2>3, <2>4, <3>1, ConnectKeeps, FinishFacts
  <2>6. ASSUME Whole'
        PROVE  MarkInv' /\ StoredInv' /\ LineInv' /\ PathInv'
    <3>1. Whole
      BY <2>4, <2>6 DEF Whole
    <3>2. n \in Seq(Pieces) /\ n # <<>> /\ line \in Line
      <4>1. n \in Seq(Pieces) /\ n # <<>>
        BY NameFacts
      <4>2. <<>> \in Seq(Pieces)
        OBVIOUS
      <4>3. QED
        BY <4>1, <4>2 DEF Line
    <3>3. line[1] = n /\ line[2] = <<>>
      OBVIOUS
    <3>4. sent.lines \in Seq(Line) /\ hp.state \notin LineStates
             /\ Stored(sent.lines, Len(sent.lines), data.headers)
      BY <1>0, <2>1, <3>1 DEF StoredInv, Taken, LineStates
    <3> HIDE DEF line
    <3>5. /\ sent'.lines \in Seq(Line) /\ Len(sent.lines) \in Nat
          /\ Len(sent'.lines) = Len(sent.lines) + 1
          /\ sent'.lines # <<>> /\ sent'.lines[Len(sent'.lines)] = line
          /\ \A i \in 1..Len(sent.lines) : sent.lines[i] = sent'.lines[i]
      BY <2>4, <3>2, <3>4
    <3>6. Stored(sent'.lines, Len(sent.lines), data.headers)
      BY <3>4, <3>5, StoredSame
    <3>7. (Len(sent.lines) + 1) - 1 = Len(sent.lines)
      BY <3>5
    <3>8. StoredInv'
      BY <2>1, <2>3, <3>5, <3>6, <3>7 DEF StoredInv, Taken, LineStates
    <3>9. MarkInv'
      BY <2>2, <2>3 DEF MarkInv
    <3>10. LineInv'
      <4>1. /\ mark'.text \in Seq(Pieces) /\ hp'.rest \in Seq(Pieces)
            /\ mark'.text \o hp'.rest = n
        BY <2>2, <2>3, <3>2, PieceFacts
      <4>2. QED
        BY <2>2, <2>3, <3>2, <3>3, <3>5, <4>1 DEF LineInv
    <3>11. PathInv'
      BY <1>0, <2>1, <2>3, <2>4, <3>1 DEF PathInv, PastUrl, LineStates,
         Parser!UrlStates
    <3>12. QED
      BY <3>8, <3>9, <3>10, <3>11
  <2>7. QED
    BY <2>5, <2>6, HeadersCases
<1>6. ASSUME Parser!HeaderFieldMore
      PROVE  HeadersInv'
  <2>1. /\ hp' = [hp EXCEPT !.rest = Tail(@)] /\ hp.rest # <<>>
        /\ data' = data /\ sent' = sent /\ hp.state = "s_header_field"
    BY <1>6 DEF Parser!HeaderFieldMore, Parser!At
  <2>2. mark'.of = "header_field" /\ mark'.text = Append(mark.text, Head(hp.rest))
    BY <1>6 DEF Parser!HeaderFieldMore, Parser!MARKMORE
  <2>3. /\ hp'.state = hp.state /\ hp'.flags = hp.flags
        /\ hp'.header = hp.header /\ hp'.rest = Tail(hp.rest)
        /\ hp'.type = hp.type /\ hp'.method = hp.method
    BY <1>0, <2>1 DEF ParserTypes
  <2>4. ConnectInv' /\ sent'.messages # 0
    <3>1. InHead(hp'.state)
      BY <2>1, <2>3 DEF InHead, BodyStates, ChunkStates, EndStates, Parser!Dead
    <3>2. QED
      BY <1>0, <1>a, <2>1, <2>3, <3>1, ConnectKeeps
  <2>5. ASSUME Whole'
        PROVE  MarkInv' /\ StoredInv' /\ LineInv' /\ PathInv'
    <3>1. Whole /\ hp.state \in LineStates
      BY <2>1, <2>5 DEF Whole, LineStates
    <3>2. /\ mark.text \in Seq(Pieces) /\ hp.rest \in Seq(Pieces)
          /\ mark.text \o hp.rest = hp.header
      BY <1>0, <2>1, <3>1 DEF LineInv
    <3>3. /\ mark'.text \in Seq(Pieces) /\ hp'.rest \in Seq(Pieces)
          /\ mark'.text \o hp'.rest = hp.header
      BY <2>1, <2>2, <2>3, <3>2, PieceFacts
    <3>4. LineInv'
      BY <1>0, <2>1, <2>2, <2>3, <3>1, <3>3 DEF LineInv
    <3>5. MarkInv' /\ StoredInv' /\ PathInv'
      BY <1>0, <2>1, <2>2, <2>3, <3>1 DEF MarkInv, StoredInv, Taken, PathInv,
         Parser!UrlStates
    <3>6. QED
      BY <3>4, <3>5
  <2>6. QED
    BY <2>4, <2>5, HeadersCases
<1>7. ASSUME Parser!HeaderFieldEnd
      PROVE  HeadersInv'
  <2>1. /\ hp' = [hp EXCEPT !.state = "s_header_value_discard_ws"]
        /\ data' = Parser!Deliver(mark) /\ mark' = Parser!NoMark
        /\ sent' = sent /\ hp.state = "s_header_field" /\ hp.rest = <<>>
    BY <1>7 DEF Parser!HeaderFieldEnd, Parser!At
  <2>2. mark'.of = "none"
    BY <2>1 DEF Parser!NoMark
  <2>3. /\ hp'.state = "s_header_value_discard_ws" /\ hp'.flags = hp.flags
        /\ hp'.header = hp.header /\ hp'.type = hp.type
        /\ hp'.method = hp.method
    BY <1>0, <2>1 DEF ParserTypes
  <2>4. ConnectInv' /\ sent'.messages # 0
    <3>1. InHead(hp'.state)
      BY <2>3 DEF InHead, BodyStates, ChunkStates, EndStates, Parser!Dead
    <3>2. QED
      BY <1>0, <1>a, <2>1, <2>3, <3>1, ConnectKeeps
  <2>5. ASSUME Whole'
        PROVE  MarkInv' /\ StoredInv' /\ LineInv' /\ PathInv'
    <3>1. Whole /\ hp.state \in LineStates /\ hp'.state \in LineStates
      BY <2>1, <2>3, <2>5 DEF Whole, LineStates
    <3>2. /\ mark.of = "header_field" /\ mark.text \in Seq(Pieces)
          /\ mark.text \o hp.rest = hp.header
      BY <1>0, <2>1, <3>1 DEF LineInv
    <3>3. mark.text = hp.header
      BY <2>1, <3>2
    <3>4. /\ data'.headers = data.headers /\ data'.path = data.path
          /\ data'.field = hp.header
      BY <1>0, <2>1, <3>2, <3>3, DeliverHead
    <3>5. LineInv'
      BY <1>0, <2>1, <2>2, <2>3, <3>1, <3>4 DEF LineInv
    <3>6. MarkInv' /\ StoredInv'
      BY <1>0, <2>1, <2>2, <2>3, <3>1, <3>4 DEF MarkInv, StoredInv, Taken
    <3>7. PathInv'
      BY <1>0, <2>1, <2>3, <3>1, <3>4 DEF PathInv, PastUrl, Parser!UrlStates
    <3>8. QED
      BY <3>5, <3>6, <3>7
  <2>6. QED
    BY <2>4, <2>5, HeadersCases
<1>8. ASSUME NEW v \in Parser!ValuesOf(hp.header), Parser!HeaderValue(v)
      PROVE  HeadersInv'
  <2> DEFINE line == <<hp.header, v>>
             k == Len(sent.lines)
  <2>1. /\ hp.state = "s_header_value_discard_ws" /\ v # <<>>
        /\ hp' = [hp EXCEPT
                !.state = "s_header_value", !.value = v, !.rest = Tail(v),
                !.content_length = IF hp.header = Parser!ContentLength
                                   THEN Parser!Number(<<v[1]>>) ELSE @,
                !.flags = CASE hp.header = Parser!ContentLength
                                    -> @ \cup {"F_CONTENTLENGTH"}
                            [] hp.header = Parser!UpgradeHeader
                                    -> @ \cup {"F_UPGRADE"}
                            [] OTHER -> @]
        /\ sent' = Parser!Announce(v) /\ data' = data
    BY <1>8 DEF Parser!HeaderValue, Parser!At
  <2>2. mark'.of = "header_value" /\ mark'.text = <<Head(v)>>
    BY <1>8 DEF Parser!HeaderValue, Parser!MARK
  <2>3. /\ hp'.state = "s_header_value" /\ hp'.header = hp.header
        /\ hp'.rest = Tail(v) /\ hp'.type = hp.type /\ hp'.method = hp.method
    BY <1>0, <2>1 DEF ParserTypes
  <2>4. "F_TRAILING" \in hp'.flags => "F_TRAILING" \in hp.flags
    <3>1. hp'.flags = CASE hp.header = Parser!ContentLength
                                -> hp.flags \cup {"F_CONTENTLENGTH"}
                        [] hp.header = Parser!UpgradeHeader
                                -> hp.flags \cup {"F_UPGRADE"}
                        [] OTHER -> hp.flags
      BY <1>0, <2>1 DEF ParserTypes
    <3>2. QED
      BY <3>1
  <2>5. /\ sent'.messages = sent.messages
        /\ sent'.lines = [sent.lines EXCEPT ![k] = line]
        /\ sent'.cut = sent.cut /\ sent'.folded = sent.folded
        /\ sent'.url = sent.url
    BY <1>0, <2>1 DEF ParserTypes, Parser!Announce
  <2>6. ConnectInv' /\ sent'.messages # 0
    <3>1. InHead(hp'.state)
      BY <2>3 DEF InHead, BodyStates, ChunkStates, EndStates, Parser!Dead
    <3>2. QED
      BY <1>0, <1>a, <2>1, <2>3, <2>4, <2>5, <3>1, ConnectKeeps
  <2>7. ASSUME Whole'
        PROVE  MarkInv' /\ StoredInv' /\ LineInv' /\ PathInv'
    <3>1. Whole /\ hp.state \in LineStates /\ hp'.state \in LineStates
      BY <2>1, <2>3, <2>5, <2>7 DEF Whole, LineStates
    <3>2. /\ sent.lines \in Seq(Line) /\ sent.lines # <<>>
          /\ Stored(sent.lines, k - 1, data.headers)
          /\ hp.header \in Seq(Pieces) /\ data.field = hp.header
      BY <1>0, <2>1, <3>1 DEF StoredInv, LineInv, Taken
    <3>3. v \in Seq(Pieces)
      BY ValueFacts
    <3>4. line \in Line /\ line[1] = hp.header /\ line[2] = v
      BY <3>2, <3>3 DEF Line
    <3> HIDE DEF line
    <3>5. /\ k \in Nat /\ k >= 1 /\ k - 1 \in Nat
      BY <3>2
    <3>6. /\ sent'.lines \in Seq(Line) /\ Len(sent'.lines) = k
          /\ sent'.lines # <<>> /\ sent'.lines[k] = line
          /\ \A i \in 1..(k - 1) : sent.lines[i] = sent'.lines[i]
      BY <2>5, <3>2, <3>4, <3>5
    <3>7. Stored(sent'.lines, k - 1, data.headers)
      BY <3>2, <3>5, <3>6, StoredSame
    <3>8. StoredInv'
      BY <2>1, <3>1, <3>6, <3>7 DEF StoredInv, Taken
    <3>9. MarkInv'
      BY <2>2, <2>3 DEF MarkInv
    <3>10. LineInv'
      <4>1. /\ mark'.text \in Seq(Pieces) /\ hp'.rest \in Seq(Pieces)
            /\ mark'.text \o hp'.rest = v
        BY <2>1, <2>2, <2>3, <3>3, PieceFacts
      <4>2. QED
        BY <2>1, <2>2, <2>3, <3>2, <3>4, <3>6, <4>1 DEF LineInv
    <3>11. PathInv'
      BY <1>0, <2>1, <2>3, <2>5, <3>1 DEF PathInv, PastUrl, Parser!UrlStates
    <3>12. QED
      BY <3>8, <3>9, <3>10, <3>11
  <2>8. QED
    BY <2>6, <2>7, HeadersCases
<1>9. ASSUME NEW v \in Parser!ValuesOf(hp.header), Parser!HeaderValueRefused(v)
      PROVE  HeadersInv'
  BY <1>9, HeadersFresh DEF Parser!HeaderValueRefused, Parser!Fail
<1>10. ASSUME NEW v \in Parser!ValuesOf(hp.header), Parser!HeaderValueEmpty(v)
       PROVE  HeadersInv'
  <2> DEFINE k == Len(sent.lines)
  <2>1. /\ hp.state = "s_header_value_discard_ws"
        /\ hp' = [hp EXCEPT !.state = "s_header_field_start"]
        /\ data' = Parser!on_header_value(<<>>) /\ mark' = mark /\ sent' = sent
    BY <1>10 DEF Parser!HeaderValueEmpty, Parser!At
  <2>2. /\ hp'.state = "s_header_field_start" /\ hp'.flags = hp.flags
        /\ hp'.type = hp.type /\ hp'.method = hp.method
    BY <1>0, <2>1 DEF ParserTypes
  <2>3. ConnectInv' /\ sent'.messages # 0
    <3>1. InHead(hp'.state)
      BY <2>2 DEF InHead, BodyStates, ChunkStates, EndStates, Parser!Dead
    <3>2. QED
      BY <1>0, <1>a, <2>1, <2>2, <3>1, ConnectKeeps
  <2>4. ASSUME Whole'
        PROVE  MarkInv' /\ StoredInv' /\ LineInv' /\ PathInv'
    <3>1. Whole /\ hp.state \in LineStates /\ hp'.state \notin LineStates
      BY <2>1, <2>2, <2>4 DEF Whole, LineStates
    <3>2. /\ data'.path = data.path
          /\ data'.headers = With(data.headers, data.field, <<>>)
      BY <1>0, <2>1 DEF ParserTypes, Parser!on_header_value, With
    <3>3. /\ sent.lines \in Seq(Line) /\ sent.lines # <<>>
          /\ Stored(sent.lines, k - 1, data.headers)
          /\ data.field = hp.header /\ sent.lines[k][1] = hp.header
          /\ sent.lines[k][2] = <<>>
      BY <1>0, <2>1, <3>1 DEF StoredInv, LineInv, Taken
    <3>4. k \in Nat /\ k - 1 \in Nat
      BY <3>3
    <3>5. Stored(sent.lines, k, data'.headers)
      BY <3>2, <3>3, <3>4, StoredNext
    <3>6. StoredInv'
      BY <2>1, <3>1, <3>3, <3>4, <3>5 DEF StoredInv, Taken
    <3>7. MarkInv' /\ LineInv'
      BY <1>0, <2>1, <3>1 DEF MarkInv, LineInv, PastUrl
    <3>8. PathInv'
      BY <1>0, <2>1, <2>2, <3>1, <3>2 DEF PathInv, PastUrl, Parser!UrlStates
    <3>9. QED
      BY <3>6, <3>7, <3>8
  <2>5. QED
    BY <2>3, <2>4, HeadersCases
<1>11. ASSUME Parser!HeaderValueMore
       PROVE  HeadersInv'
  <2> DEFINE long == hp.header = Parser!ContentLength
                        /\ Parser!TooLong(hp.content_length)
  <2>1. CASE long
    BY <1>11, <2>1, HeadersFresh DEF Parser!HeaderValueMore, Parser!Fail
  <2>2. CASE ~long
    <3>1. /\ hp' = [hp EXCEPT
                !.rest = Tail(@),
                !.content_length = IF hp.header = Parser!ContentLength
                    THEN (10 * @ + Parser!Number(<<Head(hp.rest)>>)) % (UMax + 1)
                    ELSE @]
          /\ data' = data /\ sent' = sent
          /\ hp.state = "s_header_value" /\ hp.rest # <<>>
      BY <1>11, <2>2 DEF Parser!HeaderValueMore, Parser!At
    <3>2. /\ mark'.of = "header_value"
          /\ mark'.text = Append(mark.text, Head(hp.rest))
      BY <1>11, <2>2 DEF Parser!HeaderValueMore, Parser!MARKMORE
    <3>3. /\ hp'.state = hp.state /\ hp'.flags = hp.flags
          /\ hp'.header = hp.header /\ hp'.rest = Tail(hp.rest)
          /\ hp'.type = hp.type /\ hp'.method = hp.method
      BY <1>0, <3>1 DEF ParserTypes
    <3>4. ConnectInv' /\ sent'.messages # 0
      <4>1. InHead(hp'.state)
        BY <3>1, <3>3 DEF InHead, BodyStates, ChunkStates, EndStates,
           Parser!Dead
      <4>2. QED
        BY <1>0, <1>a, <3>1, <3>3, <4>1, ConnectKeeps
    <3>5. ASSUME Whole'
          PROVE  MarkInv' /\ StoredInv' /\ LineInv' /\ PathInv'
      <4>1. Whole /\ hp.state \in LineStates
        BY <3>1, <3>5 DEF Whole, LineStates
      <4>2. /\ mark.text \in Seq(Pieces) /\ hp.rest \in Seq(Pieces)
            /\ mark.text \o hp.rest = sent.lines[Len(sent.lines)][2]
        BY <1>0, <3>1, <4>1 DEF LineInv
      <4>3. /\ mark'.text \in Seq(Pieces) /\ hp'.rest \in Seq(Pieces)
            /\ mark'.text \o hp'.rest = mark.text \o hp.rest
        BY ZenonT(60), <3>1, <3>2, <3>3, <4>2, PieceFacts
      <4>4. LineInv'
        BY <1>0, <3>1, <3>2, <3>3, <4>1, <4>2, <4>3 DEF LineInv
      <4>5. MarkInv' /\ StoredInv' /\ PathInv'
        BY <1>0, <3>1, <3>2, <3>3, <4>1 DEF MarkInv, StoredInv, Taken, PathInv,
           Parser!UrlStates
      <4>6. QED
        BY <4>4, <4>5
    <3>6. QED
      BY <3>4, <3>5, HeadersCases
  <2>3. QED
    BY <2>1, <2>2
<1>12. ASSUME Parser!HeaderValueEnd
       PROVE  HeadersInv'
  <2> DEFINE k == Len(sent.lines)
  <2>1. /\ hp' = [hp EXCEPT !.state = "s_header_value_lws"]
        /\ data' = Parser!Deliver(mark) /\ mark' = Parser!NoMark
        /\ sent' = sent /\ hp.state = "s_header_value" /\ hp.rest = <<>>
    BY <1>12 DEF Parser!HeaderValueEnd, Parser!At
  <2>2. mark'.of = "none"
    BY <2>1 DEF Parser!NoMark
  <2>3. /\ hp'.state = "s_header_value_lws" /\ hp'.flags = hp.flags
        /\ hp'.type = hp.type /\ hp'.method = hp.method
    BY <1>0, <2>1 DEF ParserTypes
  <2>4. ConnectInv' /\ sent'.messages # 0
    <3>1. InHead(hp'.state)
      BY <2>3 DEF InHead, BodyStates, ChunkStates, EndStates, Parser!Dead
    <3>2. QED
      BY <1>0, <1>a, <2>1, <2>3, <3>1, ConnectKeeps
  <2>5. ASSUME Whole'
        PROVE  MarkInv' /\ StoredInv' /\ LineInv' /\ PathInv'
    <3>1. Whole /\ hp.state \in LineStates /\ hp'.state \notin LineStates
      BY <2>1, <2>3, <2>5 DEF Whole, LineStates
    <3>2. /\ mark.of = "header_value" /\ mark.text \in Seq(Pieces)
          /\ mark.text \o hp.rest = sent.lines[k][2]
          /\ data.field = hp.header /\ sent.lines[k][1] = hp.header
          /\ sent.lines # <<>>
      BY <1>0, <2>1, <3>1 DEF LineInv
    <3>3. mark.text = sent.lines[k][2]
      BY <2>1, <3>2
    <3>4. /\ sent.lines \in Seq(Line)
          /\ Stored(sent.lines, k - 1, data.headers)
      BY <1>0, <3>1 DEF StoredInv, Taken
    <3>5. k \in Nat /\ k - 1 \in Nat
      BY <3>2, <3>4
    <3>6. /\ data'.path = data.path
          /\ data'.headers = With(data.headers, data.field, mark.text)
      BY <1>0, <2>1, <3>2, DeliverHead
    <3>7. Stored(sent.lines, k, data'.headers)
      BY <3>2, <3>3, <3>4, <3>5, <3>6, StoredNext
    <3>8. StoredInv'
      BY <2>1, <3>1, <3>4, <3>7 DEF StoredInv, Taken
    <3>9. MarkInv' /\ LineInv'
      BY <2>2, <3>1 DEF MarkInv, LineInv
    <3>10. PathInv'
      BY <1>0, <2>1, <2>3, <3>1, <3>6 DEF PathInv, PastUrl, Parser!UrlStates
    <3>11. QED
      BY <3>8, <3>9, <3>10
  <2>6. QED
    BY <2>4, <2>5, HeadersCases
<1>13. ASSUME Parser!HeaderValueFold
       PROVE  HeadersInv'
  <2>1. /\ hp' = [hp EXCEPT !.state = "s_header_value",
                      !.value = IF hp.header = Parser!ContentLength THEN @
                                ELSE <<>>]
        /\ sent' = [sent EXCEPT !.folded = TRUE]
        /\ hp.state = "s_header_value_lws"
    BY <1>13 DEF Parser!HeaderValueFold, Parser!At
  <2>2. /\ hp'.state = "s_header_value" /\ hp'.flags = hp.flags
        /\ hp'.method = hp.method
    BY <1>0, <2>1 DEF ParserTypes
  <2>3. sent'.messages = sent.messages /\ sent'.folded
    BY <1>0, <2>1 DEF ParserTypes
  <2>4. InHead(hp'.state)
    BY <2>2 DEF InHead, BodyStates, ChunkStates, EndStates, Parser!Dead
  <2>5. ConnectInv' /\ sent'.messages # 0
    BY <1>0, <1>a, <2>1, <2>2, <2>3, <2>4, ConnectKeeps
  <2>6. ~Whole'
    BY <2>3 DEF Whole
  <2>7. QED
    BY <2>5, <2>6, HeadersCases
<1>14. ASSUME Parser!HeadersDone
       PROVE  HeadersInv'
  <2> DEFINE f == Parser!Finish
             up == IF {"F_UPGRADE", "F_CONNECTION_UPGRADE"} \subseteq f
                   THEN hp.type = "HTTP_REQUEST" \/ hp.status = 101
                   ELSE hp.type = "HTTP_REQUEST" /\ hp.method = "CONNECT"
             q == [hp EXCEPT !.flags = f, !.upgrade = up]
             r == [hp EXCEPT !.flags = f]
             has == "F_CHUNKED" \in f \/ q.content_length \notin {0, UMax}
             done == \/ up /\ (hp.method = "CONNECT" \/ ~has)
                     \/ ~has /\ ~Parser!http_message_needs_eof(q)
  <2>1. hp.state \in {"s_header_field_start", "s_header_value_lws"}
    BY <1>14 DEF Parser!HeadersDone, Parser!At
  <2>2. hp.state \in PastUrl \ LineStates /\ sent.messages # 0
    BY <1>a, <2>1 DEF PastUrl, LineStates
  <2>3. hp.method = "CONNECT" => up /\ hp.type = "HTTP_REQUEST"
    BY <1>0 DEF ModeInv
  <2>4. /\ q.type = hp.type /\ q.method = hp.method /\ q.flags = f
        /\ up => q.upgrade
        /\ r.type = hp.type /\ r.method = hp.method /\ r.flags = f
        /\ DOMAIN q = DOMAIN hp /\ DOMAIN r = DOMAIN hp
    BY <1>0 DEF ParserTypes
  <2>5. \/ "F_TRAILING" \in f /\ Parser!MessageComplete(r) /\ sent' = sent
        \/ Parser!Fail
        \/ /\ "F_TRAILING" \notin f
           /\ IF done THEN Parser!MessageComplete(q)
              ELSE /\ hp' = [q EXCEPT !.state =
                            CASE "F_CHUNKED" \in f -> "s_chunk_size_start"
                              [] has /\ "F_CHUNKED" \notin f ->
                                        "s_body_identity"
                              [] OTHER -> "s_body_identity_eof"]
                   /\ UNCHANGED <<data, mark>>
           /\ sent' = sent
    BY <1>14 DEF Parser!HeadersDone
  <2>6. "F_TRAILING" \in f => "F_TRAILING" \in hp.flags
    BY FinishFacts
  <2>7. Whole => mark.of \notin {"url", "header_field", "header_value"}
    BY <1>0, <2>1, <2>2 DEF MarkInv
  <2> HIDE DEF f, up, q, r, has, done
  <2>8. ASSUME NEW p, DOMAIN p = DOMAIN hp, p.type = hp.type,
               p.method = hp.method, p.flags = f, Parser!MessageComplete(p),
               sent' = sent,
               sent.messages = 1 /\ hp.method = "CONNECT" =>
                    p.upgrade /\ "F_TRAILING" \notin f
        PROVE  HeadersInv'
    <3>1. /\ hp' = [p EXCEPT !.state = IF Parser!http_should_keep_alive(p)
                                       THEN "s_start" ELSE Parser!Dead]
          /\ data' = [Parser!Deliver(mark) EXCEPT !.finished = TRUE]
          /\ mark' = Parser!NoMark
      BY <2>8 DEF Parser!MessageComplete
    <3>2. /\ hp'.type = hp.type /\ hp'.method = hp.method /\ hp'.flags = f
          /\ hp'.state \in EndStates /\ (p.upgrade => hp'.upgrade)
      BY <1>0, <2>8, <3>1 DEF ParserTypes, EndStates
    <3>3. hp'.state \in PastUrl \ LineStates
      BY <3>2 DEF PastUrl, LineStates, EndStates, Parser!Dead
    <3>4. mark'.of = "none"
      BY <3>1 DEF Parser!NoMark
    <3>5. Whole => data'.headers = data.headers /\ data'.path = data.path
      BY <1>0, <2>7, <3>1, DeliverFacts, DeliverHead DEF ParserTypes
    <3>6. ConnectInv'
      BY <2>3, <2>8, <3>2 DEF ConnectInv, BodyStates, ChunkStates, EndStates,
         Parser!Dead, Parser!Upgraded
    <3>7. Whole' => Whole
      BY <2>8 DEF Whole
    <3>8. QED
      BY <2>2, <2>8, <3>2, <3>3, <3>4, <3>5, <3>6, <3>7, HeadersKeep
  <2>9. CASE "F_TRAILING" \in f /\ Parser!MessageComplete(r) /\ sent' = sent
    <3>1. ~(sent.messages = 1 /\ hp.method = "CONNECT")
      BY <1>0, <2>6, <2>9 DEF ConnectInv
    <3>2. QED
      BY <2>4, <2>8, <2>9, <3>1
  <2>10. CASE Parser!Fail
    BY <2>10, HeadersFresh DEF Parser!Fail
  <2>11. CASE /\ "F_TRAILING" \notin f /\ done /\ Parser!MessageComplete(q)
              /\ sent' = sent
    BY <2>3, <2>4, <2>8, <2>11
  <2>12. CASE /\ "F_TRAILING" \notin f /\ ~done
              /\ hp' = [q EXCEPT !.state =
                            CASE "F_CHUNKED" \in f -> "s_chunk_size_start"
                              [] has /\ "F_CHUNKED" \notin f ->
                                        "s_body_identity"
                              [] OTHER -> "s_body_identity_eof"]
              /\ data' = data /\ mark' = mark /\ sent' = sent
    <3>1. hp.method # "CONNECT"
      BY <2>3, <2>12 DEF done
    <3>2. /\ hp'.type = hp.type /\ hp'.method = hp.method
          /\ hp'.state \in {"s_chunk_size_start", "s_body_identity",
                            "s_body_identity_eof"}
      BY <1>0, <2>4, <2>12 DEF ParserTypes
    <3>3. hp'.state \in PastUrl \ LineStates
      BY <3>2 DEF PastUrl, LineStates, BodyStates, ChunkStates
    <3>4. ConnectInv'
      BY <3>1, <3>2 DEF ConnectInv
    <3>5. ASSUME Whole'
          PROVE  MarkInv' /\ StoredInv' /\ LineInv' /\ PathInv'
      <4>1. Whole
        BY <2>12, <3>5 DEF Whole
      <4>2. MarkInv' /\ LineInv'
        BY <2>7, <2>12, <3>3, <4>1 DEF MarkInv, LineInv
      <4>3. StoredInv'
        BY <1>0, <2>2, <2>12, <3>3, <4>1 DEF StoredInv, Taken
      <4>4. PathInv'
        BY <1>0, <2>2, <2>12, <3>2, <4>1 DEF PathInv, Parser!UrlStates
      <4>5. QED
        BY <4>2, <4>3, <4>4
    <3>6. QED
      BY <2>2, <2>12, <3>4, <3>5, HeadersCases
  <2>13. QED
    BY <2>5, <2>9, <2>10, <2>11, <2>12
<1>15. ASSUME Parser!BodyIdentity
       PROVE  HeadersInv'
  <2> DEFINE q == [hp EXCEPT !.content_length = @ - 1]
  <2>1. /\ hp.state = "s_body_identity" /\ Parser!SendByte
        /\ \/ hp' = q /\ Parser!MarkByte /\ data' = data
           \/ /\ hp' = [q EXCEPT !.state = IF Parser!http_should_keep_alive(q)
                                           THEN "s_start" ELSE Parser!Dead]
              /\ data' = [data EXCEPT !.body = data'.body, !.finished = TRUE]
              /\ mark' = Parser!NoMark
    <3>1. /\ hp.state = "s_body_identity" /\ Parser!SendByte
          /\ IF q.content_length > 0
             THEN hp' = q /\ Parser!MarkByte /\ UNCHANGED data
             ELSE /\ hp' = [q EXCEPT !.state =
                                IF Parser!http_should_keep_alive(q)
                                THEN "s_start" ELSE Parser!Dead]
                  /\ data' = [data EXCEPT !.body =
                                    Append(@ \o Marked, Parser!Byte),
                                          !.finished = TRUE]
                  /\ mark' = Parser!NoMark
      BY <1>15 DEF Parser!BodyIdentity, Parser!At, Marked
    <3> HIDE DEF q
    <3>2. ASSUME NEW b, data' = [data EXCEPT !.body = b, !.finished = TRUE]
          PROVE  data' = [data EXCEPT !.body = data'.body, !.finished = TRUE]
      BY <1>0, <3>2 DEF ParserTypes
    <3>3. QED
      BY <3>1, <3>2
  <2>2. /\ q.type = hp.type /\ q.method = hp.method /\ q.state = hp.state
        /\ DOMAIN q = DOMAIN hp
    BY <1>0 DEF ParserTypes
  <2> HIDE DEF q
  <2>3. /\ hp'.type = hp.type /\ hp'.method = hp.method
        /\ hp'.state \in {"s_body_identity"} \cup EndStates
    BY <1>0, <2>1, <2>2 DEF ParserTypes, EndStates
  <2>4. data'.headers = data.headers /\ data'.path = data.path
    BY <1>0, <2>1 DEF ParserTypes
  <2>5. mark'.of \in {"none", "body"}
    BY <2>1 DEF Parser!NoMark, Parser!MarkByte
  <2>6. QED
    BY <1>b, <2>1, <2>3, <2>4, <2>5, HeadersKeep DEF PastUrl, LineStates,
       BodyStates, EndStates, Parser!Dead
<1>16. ASSUME Parser!BodyIdentityEof
       PROVE  HeadersInv'
  <2>1. /\ hp.state = "s_body_identity_eof" /\ Parser!SendByte
        /\ hp' = hp /\ data' = data
    BY <1>16 DEF Parser!BodyIdentityEof, Parser!At
  <2>2. mark'.of = "body"
    BY <1>16 DEF Parser!BodyIdentityEof, Parser!MarkByte
  <2>3. QED
    BY <1>b, <2>1, <2>2, HeadersKeep DEF PastUrl, LineStates, BodyStates
<1>17. ASSUME NEW v, Parser!ChunkSize(v)
       PROVE  HeadersInv'
  <2> DEFINE first == Parser!Number(<<v[1]>>)
             n == IF Len(v) = 1 THEN first
                  ELSE (16 * first + Parser!Number(<<v[2]>>)) % (UMax + 1)
             long == Len(v) = 2 /\ (UMax - 16) \div 16 < first
  <2>1. CASE long
    BY <1>17, <2>1, HeadersFresh DEF Parser!ChunkSize, Parser!Fail
  <2>2. CASE ~long
    <3>1. /\ hp.state = "s_chunk_size_start"
          /\ hp' = [hp EXCEPT
                    !.content_length = n, !.header = <<>>,
                    !.flags = IF n = 0 THEN @ \cup {"F_TRAILING"} ELSE @,
                    !.state = IF n = 0 THEN "s_header_field_start"
                              ELSE "s_chunk_data"]
          /\ data' = data /\ mark' = mark /\ sent' = sent
      BY <1>17, <2>2 DEF Parser!ChunkSize, Parser!At
    <3> HIDE DEF n
    <3>2. /\ hp'.type = hp.type /\ hp'.method = hp.method
          /\ hp'.state \in {"s_header_field_start", "s_chunk_data"}
      BY <1>0, <3>1 DEF ParserTypes
    <3>3. /\ hp.state \in PastUrl \ LineStates
          /\ hp'.state \in PastUrl \ LineStates
          /\ hp.state \in ChunkStates
      BY <3>1, <3>2 DEF PastUrl, LineStates, BodyStates, ChunkStates
    <3>4. ~(sent.messages = 1 /\ hp.method = "CONNECT")
      BY <1>0, <3>3 DEF ConnectInv
    <3>5. ConnectInv' /\ sent'.messages # 0
      BY <1>a, <3>1, <3>2, <3>4 DEF ConnectInv
    <3>6. ASSUME Whole'
          PROVE  MarkInv' /\ StoredInv' /\ LineInv' /\ PathInv'
      <4>1. Whole
        BY <3>1, <3>6 DEF Whole
      <4>2. mark.of \notin {"url", "header_field", "header_value"}
        BY <1>0, <3>1, <3>3, <4>1 DEF MarkInv
      <4>3. MarkInv' /\ LineInv'
        BY <3>1, <3>3, <4>2 DEF MarkInv, LineInv
      <4>4. StoredInv'
        BY <1>0, <3>1, <3>3, <4>1 DEF StoredInv, Taken
      <4>5. PathInv'
        BY <1>0, <3>1, <3>2, <3>3, <4>1 DEF PathInv, Parser!UrlStates
      <4>6. QED
        BY <4>3, <4>4, <4>5
    <3>7. QED
      BY <3>5, <3>6, HeadersCases
  <2>3. QED
    BY <2>1, <2>2
<1>18. ASSUME Parser!ChunkData
       PROVE  HeadersInv'
  <2>1. /\ hp.state = "s_chunk_data" /\ Parser!SendByte /\ data' = data
        /\ hp' = [hp EXCEPT !.content_length = @ - 1,
                      !.state = IF hp.content_length = 1
                                THEN "s_chunk_data_almost_done" ELSE @]
    BY <1>18 DEF Parser!ChunkData, Parser!At
  <2>2. mark'.of = "body"
    BY <1>18 DEF Parser!ChunkData, Parser!MarkByte
  <2>3. /\ hp'.type = hp.type /\ hp'.method = hp.method
        /\ hp'.state \in {"s_chunk_data", "s_chunk_data_almost_done"}
    BY <1>0, <2>1 DEF ParserTypes
  <2>4. QED
    BY <1>b, <2>1, <2>2, <2>3, HeadersKeep DEF PastUrl, LineStates,
       BodyStates, ChunkStates
<1>19. ASSUME Parser!ChunkDataDone
       PROVE  HeadersInv'
  <2>1. /\ hp.state = "s_chunk_data_almost_done"
        /\ hp' = [hp EXCEPT !.state = "s_chunk_size_start"]
        /\ data' = Parser!Deliver(mark) /\ mark' = Parser!NoMark
        /\ sent' = sent
    BY <1>19 DEF Parser!ChunkDataDone, Parser!At
  <2>2. mark'.of = "none"
    BY <2>1 DEF Parser!NoMark
  <2>3. /\ hp'.type = hp.type /\ hp'.method = hp.method
        /\ hp'.state = "s_chunk_size_start"
    BY <1>0, <2>1 DEF ParserTypes
  <2>4. /\ hp.state \in PastUrl \ LineStates
        /\ hp'.state \in PastUrl \ LineStates
        /\ hp.state \in ChunkStates
    BY <2>1, <2>3 DEF PastUrl, LineStates, BodyStates, ChunkStates
  <2>5. Whole => mark.of \notin {"url", "header_field", "header_value"}
    BY <1>0, <2>1, <2>4 DEF MarkInv
  <2>6. Whole => data'.headers = data.headers /\ data'.path = data.path
    BY <1>0, <2>1, <2>5, DeliverHead
  <2>7. ConnectInv' /\ sent'.messages # 0
    BY <1>0, <1>a, <2>1, <2>3, <2>4 DEF ConnectInv
  <2>8. Whole' => Whole
    BY <2>1 DEF Whole
  <2>9. QED
    BY <2>1, <2>2, <2>3, <2>4, <2>6, <2>7, <2>8, HeadersKeep
<1>20. ASSUME Parser!AfterClose
       PROVE  HeadersInv'
  BY <1>20, HeadersFresh DEF Parser!AfterClose, Parser!Fail
<1>21. ASSUME Parser!EndRead
       PROVE  HeadersInv'
  <2>1. CASE Parser!Refused(mark) \/ Parser!Upgraded
    BY <1>21, <2>1, HeadersFresh DEF Parser!EndRead, Parser!Fail
  <2>2. CASE ~(Parser!Refused(mark) \/ Parser!Upgraded)
    <3>1. /\ data' = Parser!Deliver(mark) /\ mark' = Parser!Resumed(hp.state)
          /\ sent' = [sent EXCEPT !.cut = @ \/ mark'.of # "none"]
          /\ hp' = hp
      BY <1>21, <2>2 DEF Parser!EndRead
    <3>2. /\ sent'.messages = sent.messages /\ sent'.lines = sent.lines
          /\ sent'.url = sent.url /\ sent'.folded = sent.folded
          /\ sent.cut \/ mark'.of # "none" => sent'.cut
      BY <1>0, <3>1 DEF ParserTypes
    <3>3. /\ mark'.of = "none" =>
                hp.state \notin Parser!UrlStates
                        \cup {"s_header_field", "s_header_value"}
          /\ mark' = Parser!Resumed(hp.state)
      BY <3>1 DEF Parser!Resumed, Parser!UrlStates
    <3>4. ConnectInv'
      BY <1>0, <3>1, <3>2 DEF ConnectInv, Parser!Upgraded
    <3>5. ASSUME Whole'
          PROVE  MarkInv' /\ StoredInv' /\ LineInv' /\ PathInv'
      <4>1. Whole /\ mark'.of = "none"
        BY <3>2, <3>5 DEF Whole
      <4>2. mark.of \notin {"header_field", "header_value"}
        BY <1>0, <3>3, <4>1 DEF MarkInv
      <4>3. data'.headers = data.headers /\ data'.field = data.field
        BY <1>0, <3>1, <4>2, DeliverHead
      <4>4. hp.state \in PastUrl => data'.path = data.path
        BY <1>0, <3>1, <4>1, <4>2, DeliverHead DEF MarkInv
      <4>5. MarkInv' /\ StoredInv'
        BY <1>0, <3>1, <3>2, <4>1, <4>3 DEF MarkInv, StoredInv, Taken
      <4>6. LineInv'
        BY <1>0, <3>1, <3>2, <3>3, <4>1, <4>3 DEF LineInv, LineStates
      <4>7. PathInv'
        BY <1>0, <3>1, <3>2, <3>3, <4>1, <4>4 DEF PathInv
      <4>8. QED
        BY <4>5, <4>6, <4>7
    <3>6. CASE sent.messages # 0
      BY <3>2, <3>4, <3>5, <3>6, HeadersCases
    <3>7. CASE sent.messages = 0
      <4>1. mark.of = "none" /\ hp.state = "s_start"
        BY <1>0, <3>7 DEF StartInv, ModeInv
      <4>2. mark'.of = "none"
        BY <3>1, <4>1 DEF Parser!Resumed, Parser!UrlStates
      <4>3. data'.headers = data.headers
        BY <1>0, <3>1, <4>1, DeliverHead
      <4>4. StartInv'
        BY <1>0, <3>2, <3>7, <4>2, <4>3 DEF StartInv
      <4>5. ~Whole'
        BY <3>2, <3>7 DEF Whole
      <4>6. QED
        BY <3>4, <4>4, <4>5 DEF HeadersInv, MarkInv, StoredInv, LineInv, PathInv
    <3>8. QED
      BY <3>6, <3>7
  <2>3. QED
    BY <2>1, <2>2
<1>22. ASSUME Parser!Take
       PROVE  HeadersInv'
  BY <1>22, HeadersFresh DEF Parser!Take
<1>23. ASSUME Parser!Eof
       PROVE  HeadersInv'
  BY <1>23, HeadersFresh DEF Parser!Eof, Parser!Fail
<1>24. ASSUME Parser!Malformed
       PROVE  HeadersInv'
  BY <1>24, HeadersFresh DEF Parser!Malformed, Parser!Fail
<1>25. ASSUME UNCHANGED Parser!vars
       PROVE  HeadersInv'
  <2>1. hp' = hp /\ data' = data /\ mark' = mark /\ sent' = sent
    BY <1>25 DEF Parser!vars
  <2>2. Whole' <=> Whole
    BY <2>1 DEF Whole
  <2>3. QED
    BY <1>0, <2>1, <2>2 DEF HeadersInv, StartInv, MarkInv, StoredInv, Taken,
       LineInv, PathInv, ConnectInv, Parser!Upgraded
<1>26. QED
  BY <1>1, <1>2, <1>3, <1>4, <1>5, <1>6, <1>7, <1>8, <1>9, <1>10, <1>11,
     <1>12, <1>13, <1>14, <1>15, <1>16, <1>17, <1>18, <1>19, <1>20, <1>21,
     <1>22, <1>23, <1>24, <1>25 DEF Parser!Next

\* Headers and the path of a message that no read cut inside a field are stored
\* as they were sent, the last value of a name winning, for every number of
\* messages, header lines, URL characters and body bytes.
THEOREM HeadersCorrect == Parser!Spec => []HeadersWhole
<1>1. HeadersInv => HeadersWhole
  <2> SUFFICES ASSUME HeadersInv, Parser!OneMessage, ~sent.cut, ~sent.folded
               PROVE  /\ DOMAIN data.headers =
                            {sent.lines[i][1] : i \in DOMAIN sent.lines}
                      /\ \A n \in DOMAIN data.headers :
                            data.headers[n] = sent.lines[Parser!Last(n)][2]
                      /\ hp.type = "HTTP_REQUEST" => data.path =
                            Parser!http_parser_parse_url(sent.url).path
    BY DEF HeadersWhole, Parser!HeadersWhole
  <2> DEFINE k == Len(sent.lines)
  <2>1. Whole /\ hp.state \in EndStates /\ ~Parser!Upgraded
    BY DEF Whole, Parser!OneMessage, EndStates
  <2>2. hp.state \in PastUrl /\ hp.state \notin LineStates
    BY <2>1 DEF PastUrl, LineStates, EndStates, Parser!Dead
  <2>3. sent.lines \in Seq(Line) /\ Stored(sent.lines, k, data.headers)
    BY <2>1, <2>2 DEF HeadersInv, StoredInv, Taken
  <2>4. k \in Nat /\ DOMAIN sent.lines = 1..k
    BY <2>3
  <2> HIDE DEF k
  <2>5. DOMAIN data.headers = {sent.lines[i][1] : i \in DOMAIN sent.lines}
    BY <2>3, <2>4 DEF Stored
  <2>6. ASSUME NEW n \in DOMAIN data.headers
        PROVE  data.headers[n] = sent.lines[Parser!Last(n)][2]
    <3>1. PICK i \in 1..k :
              /\ sent.lines[i][1] = n
              /\ \A j \in 1..k : sent.lines[j][1] = n => j <= i
              /\ data.headers[n] = sent.lines[i][2]
      BY <2>3, <2>4, StoredLast
    <3> DEFINE Max(x) == /\ sent.lines[x][1] = n
                         /\ \A j \in DOMAIN sent.lines :
                                sent.lines[j][1] = n => j <= x
    <3>2. i \in DOMAIN sent.lines /\ Max(i)
      BY <2>4, <3>1
    <3>3. Parser!Last(n) = CHOOSE x \in DOMAIN sent.lines : Max(x)
      BY DEF Parser!Last
    <3>4. Parser!Last(n) \in DOMAIN sent.lines /\ Max(Parser!Last(n))
      <4> HIDE DEF Max
      <4>1. QED
        BY <3>2, <3>3
    <3>5. Parser!Last(n) = i
      <4>1. i <= Parser!Last(n) /\ Parser!Last(n) <= i
        BY <3>2, <3>4
      <4>2. Parser!Last(n) \in Nat /\ i \in Nat
        BY <2>4, <3>4
      <4>3. QED
        BY <4>1, <4>2
    <3>6. QED
      BY <3>1, <3>5
  <2>7. ASSUME hp.type = "HTTP_REQUEST"
        PROVE  data.path = Parser!http_parser_parse_url(sent.url).path
    <3>1. hp.method # "CONNECT"
      BY <2>1 DEF HeadersInv, ConnectInv, Whole
    <3>2. QED
      BY <2>1, <2>2, <2>7, <3>1 DEF HeadersInv, PathInv
  <2>8. QED
    BY <2>5, <2>6, <2>7
<1>2. Parser!Spec => [](ParserInv /\ HeadersInv)
  BY ParserInit, ParserStep, HeadersInit, HeadersStep, PTL DEF Parser!Spec
<1>3. QED
  BY <1>1, <1>2, PTL
=============================================================================
