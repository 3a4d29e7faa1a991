-------------------------- MODULE SftpClientProofs --------------------------
(***************************************************************************)
(* Proofs about SftpClient for every set of requests, window and id range: *)
(* the registry hands a reply to the request it answers and to no other,   *)
(* knows every reply it has coming, and never exceeds the window.          *)
(***************************************************************************)
EXTENDS SftpClient, TLAPS, FiniteSetTheorems

\* The registry's own types.
RegTypes == /\ pending \in [Ids -> Reqs \cup {None}]
            /\ abandoned \in [Ids -> Reqs \cup {None}]
            /\ nextId \in Ids
            /\ server \subseteq [id : Ids, req : Reqs]
            /\ closed \in BOOLEAN

\* No id is in both maps; the requests the server owes a reply have different ids.
OneMap == \A i \in Ids : pending[i] # None => abandoned[i] = None
UniqueIds == \A m, n \in server : m.id = n.id => m = n

\* While the client is open, the id of a request on the wire is registered for that
\* request, in one map or the other.
Held == ~closed => \A m \in server :
          \/ pending[m.id] = m.req
          \/ pending[m.id] = None /\ abandoned[m.id] = m.req

ClosedEmpty == closed => \A i \in Ids : pending[i] = None

\* Outside #drainQueue nothing waits while there is room.
NoIdle == now # "drain" /\ queue # <<>> => ~HasRoom

RInv == RegTypes /\ OneMap /\ UniqueIds /\ Held /\ ClosedEmpty /\ WindowRespected

-----------------------------------------------------------------------------
\* Ids wrap around.
LEMMA NextIdType == \A i \in Ids : (i % MaxId) + 1 \in Ids
BY ClientAssumption DEF Ids

\* The requests in flight are finitely many.
LEMMA InFlightFinite == IsFiniteSet(InFlight) /\ Cardinality(InFlight) \in Nat
<1>1. InFlight \subseteq 1..MaxId
  BY DEF InFlight, Ids
<1>2. IsFiniteSet(1..MaxId)
  BY ClientAssumption, FS_Interval
<1>3. IsFiniteSet(InFlight)
  BY <1>1, <1>2, FS_Subset
<1> QED BY <1>3, FS_CardinalityType

\* Removing requests from flight keeps the window.
LEMMA FewerInFlight ==
  ASSUME WindowRespected, InFlight' \subseteq InFlight
  PROVE  WindowRespected'
<1>1. IsFiniteSet(InFlight) /\ Cardinality(InFlight) \in Nat
  BY InFlightFinite
<1>2. IsFiniteSet(InFlight') /\ Cardinality(InFlight') <= Cardinality(InFlight)
  BY <1>1, FS_Subset
<1>3. Cardinality(InFlight') \in Nat
  BY <1>2, FS_CardinalityType
<1> QED BY <1>1, <1>2, <1>3, ClientAssumption DEF WindowRespected

\* Starting a request while there is room.
LEMMA StartKeeps ==
  ASSUME RInv, NEW r \in Reqs, HasRoom, Start(r), closed' = closed
  PROVE  RInv'
<1>1. CASE Refuse(r, "failed") \/ Refuse(r, "aborted")
  BY <1>1 DEF Refuse, registry, RInv, RegTypes, OneMap, UniqueIds, Held, ClosedEmpty,
              WindowRespected, InFlight
<1>2. CASE ~closed /\ Dispatch(r)
  <2>1. PICK i \in Ids :
          /\ pending[i] = None /\ abandoned[i] = None
          /\ pending' = [pending EXCEPT ![i] = r]
          /\ nextId' = (i % MaxId) + 1
          /\ server' = server \cup {[id |-> i, req |-> r]}
          /\ abandoned' = abandoned
    BY <1>2 DEF Dispatch, Allocated, Free
  <2>2. None \notin Reqs /\ r # None
    BY ClientAssumption
  <2>3. RegTypes'
    BY <2>1, NextIdType DEF RInv, RegTypes
  <2>4. OneMap'
    BY <2>1 DEF RInv, RegTypes, OneMap
  <2>5. \A m \in server : m.id # i /\ m.id \in Ids /\ m.req \in Reqs
    BY <1>2, <2>1, <2>2 DEF RInv, RegTypes, Held
  <2>6. UniqueIds'
    BY <2>1, <2>5 DEF RInv, UniqueIds
  <2>7. Held'
    BY <1>2, <2>1, <2>5 DEF RInv, RegTypes, Held
  <2>8. ClosedEmpty'
    BY <1>2 DEF ClosedEmpty
  <2>9. WindowRespected'
    <3>1. InFlight' = InFlight \cup {i} /\ i \notin InFlight
      BY <2>1, <2>2 DEF InFlight, RInv, RegTypes
    <3>2. Cardinality(InFlight') = Cardinality(InFlight) + 1
      BY <3>1, InFlightFinite, FS_AddElement
    <3>3. Cardinality(InFlight) < Window /\ Cardinality(InFlight) \in Nat
      BY InFlightFinite DEF HasRoom
    <3> QED BY <3>2, <3>3, ClientAssumption DEF WindowRespected
  <2> QED BY <2>3, <2>4, <2>6, <2>7, <2>8, <2>9 DEF RInv
<1> QED BY <1>1, <1>2 DEF Start

\* So does a request that starts or is queued,
LEMMA RequestKeeps ==
  ASSUME RInv, NEW r \in Reqs, Request(r), closed' = closed
  PROVE  RInv'
<1>1. CASE HasRoom /\ Start(r)
  BY <1>1, StartKeeps
<1>2. CASE UNCHANGED <<registry, server>>
  BY <1>2 DEF registry, RInv, RegTypes, OneMap, UniqueIds, Held, ClosedEmpty,
              WindowRespected, InFlight
<1> QED BY <1>1, <1>2 DEF Request

\* Giving up on an id moves it from one map to the other.
LEMMA AbandonKeeps ==
  ASSUME RInv, NEW i \in Ids, Abandon(i), server' = server, closed' = closed
  PROVE  RInv'
<1>1. RegTypes'
  BY DEF RInv, RegTypes, Abandon
<1>2. OneMap' /\ UniqueIds' /\ ClosedEmpty'
  BY DEF RInv, RegTypes, OneMap, UniqueIds, ClosedEmpty, Abandon
<1>3. Held'
  BY ClientAssumption DEF RInv, RegTypes, OneMap, Held, Abandon
<1>4. WindowRespected'
  <2>1. InFlight' \subseteq InFlight
    BY DEF RInv, RegTypes, Abandon, InFlight
  <2> QED BY <2>1, FewerInFlight DEF RInv
<1> QED BY <1>1, <1>2, <1>3, <1>4 DEF RInv

\* The same for an id captured by a timer or a listener, whatever it is.
LEMMA AbandonAnyKeeps ==
  ASSUME RInv, NEW i \in 0..MaxId, Abandon(i), server' = server, closed' = closed
  PROVE  RInv'
<1>1. CASE i \in Ids
  BY <1>1, AbandonKeeps
<1>2. CASE i \notin Ids
  <2>1. pending' = pending /\ abandoned' = abandoned /\ nextId' = nextId
    BY <1>2 DEF Abandon, RInv, RegTypes
  <2> QED BY <2>1 DEF RInv, RegTypes, OneMap, UniqueIds, Held, ClosedEmpty,
                      WindowRespected, InFlight
<1> QED BY <1>1, <1>2

\* ... and the end of the client, which abandons everything.
LEMMA CloseKeeps ==
  ASSUME RInv, OnClose, server' \subseteq server
  PROVE  RInv'
<1>1. closed' = TRUE
  BY DEF OnClose
<1>2. UniqueIds' /\ Held'
  BY <1>1 DEF RInv, UniqueIds, Held
<1>3. CASE closed
  <2>1. UNCHANGED registry
    BY <1>3 DEF OnClose
  <2>2. RegTypes' /\ OneMap' /\ ClosedEmpty' /\ WindowRespected'
    BY <1>1, <1>3, <2>1
       DEF registry, RInv, RegTypes, OneMap, ClosedEmpty, WindowRespected, InFlight
  <2> QED BY <1>2, <2>2 DEF RInv
<1>4. CASE ~closed
  <2>1. /\ pending' = [i \in Ids |-> None]
        /\ abandoned' = [i \in Ids |-> None]
        /\ nextId' = nextId
    BY <1>4 DEF OnClose
  <2>2. RegTypes' /\ OneMap' /\ ClosedEmpty'
    BY <1>1, <2>1 DEF RInv, RegTypes, OneMap, ClosedEmpty
  <2>3. InFlight' \subseteq InFlight
    BY <2>1 DEF InFlight
  <2> QED BY <1>2, <2>2, <2>3, FewerInFlight DEF RInv
<1> QED BY <1>3, <1>4 DEF RInv, RegTypes

\* A reply takes its own id out of the map it was in.
LEMMA ReplyKeeps ==
  ASSUME RInv, NEW m \in server, ReplyPending(m) \/ ReplyAbandoned(m)
  PROVE  RInv'
<1>1. m.id \in Ids /\ server' = server \ {m} /\ closed' = closed /\ nextId' = nextId
  BY DEF RInv, RegTypes, ReplyPending, ReplyAbandoned
<1>2. \/ pending' = [pending EXCEPT ![m.id] = None] /\ abandoned' = abandoned
      \/ pending' = pending /\ abandoned' = [abandoned EXCEPT ![m.id] = None]
  BY DEF ReplyPending, ReplyAbandoned
<1>3. RegTypes' /\ OneMap' /\ ClosedEmpty'
  BY <1>1, <1>2 DEF RInv, RegTypes, OneMap, ClosedEmpty
<1>4. \A n \in server' : n \in server /\ n.id # m.id /\ n.id \in Ids
  BY <1>1 DEF RInv, RegTypes, UniqueIds
<1>5. UniqueIds'
  BY <1>4 DEF RInv, UniqueIds
<1>6. Held'
  BY <1>1, <1>2, <1>4 DEF RInv, RegTypes, Held
<1>7. InFlight' \subseteq InFlight
  BY <1>1, <1>2 DEF InFlight, RInv, RegTypes
<1> QED BY <1>3, <1>5, <1>6, <1>7, FewerInFlight DEF RInv

-----------------------------------------------------------------------------
\* What the whole of the state keeps: the registry, its types, and a full window
\* whenever requests wait.
IInv == TypeOK /\ RInv /\ NoIdle

\* The types of the queue.
LEMMA EmptyQueueType == <<>> \in Seq(Reqs)
OBVIOUS

\* The queue loses its first request, or gains a last one, and keeps its type.
LEMMA QueueTypes ==
  ASSUME queue \in Seq(Reqs)
  PROVE  /\ \A r \in Reqs : Append(queue, r) \in Seq(Reqs)
         /\ queue # <<>> => Head(queue) \in Reqs /\ Tail(queue) \in Seq(Reqs)
OBVIOUS

\* The types a started, queued or refused request leaves behind.
LEMMA RequestTypes ==
  ASSUME TypeOK, NEW r \in Reqs, (Start(r) /\ UNCHANGED queue) \/ Request(r)
  PROVE  /\ st' \in [Reqs -> {"idle", "queued", "pending"} \cup Settled]
         /\ id' \in [Reqs -> 0..MaxId]
         /\ pending' \in [Ids -> Reqs \cup {None}]
         /\ abandoned' \in [Ids -> Reqs \cup {None}]
         /\ nextId' \in Ids
         /\ queue' \in Seq(Reqs)
         /\ listening' \subseteq Signalled
         /\ server' \subseteq [id : Ids, req : Reqs]
<1>1. ASSUME Dispatch(r)
      PROVE  /\ st' \in [Reqs -> {"idle", "queued", "pending"} \cup Settled]
             /\ id' \in [Reqs -> 0..MaxId]
             /\ pending' \in [Ids -> Reqs \cup {None}]
             /\ abandoned' \in [Ids -> Reqs \cup {None}]
             /\ nextId' \in Ids
             /\ listening' \subseteq Signalled
             /\ server' \subseteq [id : Ids, req : Reqs]
  <2>1. PICK i \in Ids :
          /\ pending' = [pending EXCEPT ![i] = r]
          /\ nextId' = (i % MaxId) + 1
          /\ id' = [id EXCEPT ![r] = i]
          /\ st' = [st EXCEPT ![r] = "pending"]
          /\ listening' = IF r \in Signalled THEN listening \cup {r} ELSE listening
          /\ server' = server \cup {[id |-> i, req |-> r]}
          /\ abandoned' = abandoned
    BY <1>1 DEF Dispatch
  <2>2. i \in 0..MaxId
    BY DEF Ids
  <2> QED BY <2>1, <2>2, NextIdType DEF TypeOK
<1>2. ASSUME NEW o \in Settled, Refuse(r, o)
      PROVE  /\ st' \in [Reqs -> {"idle", "queued", "pending"} \cup Settled]
             /\ UNCHANGED <<id, pending, abandoned, nextId, listening, server>>
  BY <1>2 DEF Refuse, TypeOK, registry
<1>3. CASE Start(r) /\ UNCHANGED queue
  <2>1. CASE Dispatch(r)
    BY <1>1, <1>3, <2>1 DEF TypeOK
  <2>2. CASE Refuse(r, "failed") \/ Refuse(r, "aborted")
    BY <1>2, <1>3, <2>2 DEF TypeOK, Settled
  <2> QED BY <1>3, <2>1, <2>2 DEF Start
<1>4. CASE queue' = Append(queue, r) /\ st' = [st EXCEPT ![r] = "queued"]
           /\ UNCHANGED <<id, registry, listening, server>>
  BY <1>4, QueueTypes DEF TypeOK, registry
<1> QED BY <1>3, <1>4 DEF Request

\* #request leaves nothing waiting behind free room.
LEMMA RequestNoIdle ==
  ASSUME NoIdle, NEW r \in Reqs, Request(r), now # "drain"
  PROVE  queue' # <<>> => ~HasRoom'
<1>1. CASE HasRoom /\ UNCHANGED queue
  BY <1>1 DEF NoIdle
<1>2. CASE ~HasRoom /\ UNCHANGED registry
  BY <1>2 DEF HasRoom, InFlight, registry
<1> QED BY <1>1, <1>2 DEF Request

\* A new client has nothing in flight and nothing waiting.
LEMMA InitInv == Init => IInv
<1> SUFFICES ASSUME Init
             PROVE  IInv
  OBVIOUS
<1>1. 1 \in Ids /\ 0 \in 0..MaxId
  BY ClientAssumption DEF Ids
<1>2. TypeOK
  BY <1>1, EmptyQueueType DEF Init, TypeOK
<1>3. InFlight = {}
  BY DEF Init, InFlight
<1>4. WindowRespected
  BY <1>3, FS_EmptySet, ClientAssumption DEF WindowRespected
<1>5. RInv
  BY <1>1, <1>4 DEF Init, RInv, RegTypes, OneMap, UniqueIds, Held, ClosedEmpty
<1> QED BY <1>2, <1>5 DEF IInv, NoIdle, Init

\* Every action keeps the invariant.
LEMMA StepInv ==
  ASSUME IInv, [Next]_vars
  PROVE  IInv'
<1> USE DEF IInv
<1>1. CASE DrainStep
  <2>1. Head(queue) \in Reqs /\ Tail(queue) \in Seq(Reqs) /\ HasRoom /\ closed' = closed
    BY <1>1, QueueTypes DEF DrainStep, TypeOK
  <2>2. RInv'
    BY <1>1, <2>1, StartKeeps DEF DrainStep
  <2>3. CASE Dispatch(Head(queue))
    <3>1. PICK i \in Ids :
            /\ st' = [st EXCEPT ![Head(queue)] = "pending"]
            /\ id' = [id EXCEPT ![Head(queue)] = i]
            /\ listening' = IF Head(queue) \in Signalled
                            THEN listening \cup {Head(queue)} ELSE listening
      BY <2>3 DEF Dispatch
    <3>2. i \in 0..MaxId
      BY DEF Ids
    <3>3. st' \in [Reqs -> {"idle", "queued", "pending"} \cup Settled]
          /\ id' \in [Reqs -> 0..MaxId] /\ listening' \subseteq Signalled
      BY <2>1, <3>1, <3>2 DEF TypeOK
    <3> QED BY <1>1, <2>1, <2>2, <3>3 DEF DrainStep, TypeOK, NoIdle, RInv, RegTypes
  <2>4. CASE Refuse(Head(queue), "failed") \/ Refuse(Head(queue), "aborted")
    BY <1>1, <2>1, <2>2, <2>4
       DEF DrainStep, Refuse, TypeOK, NoIdle, RInv, RegTypes, Settled
  <2> QED BY <1>1, <2>3, <2>4 DEF DrainStep, Start
<1>2. CASE DrainDone
  BY <1>2 DEF DrainDone, TypeOK, NoIdle, RInv, RegTypes, OneMap, UniqueIds, Held,
              ClosedEmpty, WindowRespected, HasRoom, InFlight, registry
<1>3. CASE Handshake \/ HandshakeTimeout \/ LimitsSettled
  <2>1. hs' \in {"waiting", "failed", "ready"}
        /\ UNCHANGED <<st, id, registry, queue, listening, aborted, closed, alive, now,
                       server, granted>>
    BY <1>3 DEF Handshake, HandshakeTimeout, LimitsSettled
  <2>2. TypeOK'
    BY <2>1 DEF TypeOK, registry
  <2>3. RInv' /\ NoIdle'
    BY <2>1 DEF NoIdle, RInv, RegTypes, OneMap, UniqueIds, Held, ClosedEmpty,
                WindowRespected, HasRoom, InFlight, registry
  <2> QED BY <2>2, <2>3
<1>4. CASE Version
  <2>1. CASE UNCHANGED <<st, id, registry, queue, listening, server>>
             /\ hs' \in {"failed", "ready"}
    BY <1>4, <2>1 DEF Version, TypeOK, NoIdle, RInv, RegTypes, OneMap, UniqueIds, Held,
                      ClosedEmpty, WindowRespected, HasRoom, InFlight, registry
  <2>2. CASE Request(Limits) /\ hs' = "limits"
    <3>1. Limits \in Reqs
      BY DEF Reqs
    <3>2. RInv'
      BY <1>4, <2>2, <3>1, RequestKeeps DEF Version
    <3>3. NoIdle'
      BY <1>4, <2>2, <3>1, RequestNoIdle DEF Version, NoIdle
    <3>4. TypeOK'
      BY <1>4, <2>2, <3>1, RequestTypes DEF Version, TypeOK
    <3> QED BY <3>2, <3>3, <3>4
  <2> QED BY <1>4, <2>1, <2>2 DEF Version
<1>5. CASE BadFrame \/ ChannelClose \/ \E m \in server : UnknownReply(m)
  <2>1. OnClose /\ server' \subseteq server /\ closed' = TRUE /\ now' = now
        /\ UNCHANGED <<id, aborted, hs, granted>> /\ alive' \in BOOLEAN
    BY <1>5 DEF BadFrame, ChannelClose, UnknownReply, OnClose, TypeOK
  <2>2. RInv'
    BY <2>1, CloseKeeps
  <2>3. TypeOK'
    <3>1. st' \in [Reqs -> {"idle", "queued", "pending"} \cup Settled]
      BY <2>1 DEF OnClose, TypeOK, Settled
    <3>2. queue' \in Seq(Reqs) /\ listening' \subseteq Signalled
      BY <2>1, EmptyQueueType DEF OnClose, TypeOK
    <3> QED BY <2>1, <2>2, <3>1, <3>2 DEF TypeOK, RInv, RegTypes
  <2>4. NoIdle'
    <3>1. CASE closed
      BY <2>1, <3>1 DEF OnClose, NoIdle, HasRoom, InFlight, registry
    <3>2. CASE ~closed
      BY <2>1, <3>2 DEF OnClose, NoIdle
    <3> QED BY <3>1, <3>2
  <2> QED BY <2>2, <2>3, <2>4
<1>6. ASSUME NEW r \in Reqs, Timeout(r)
      PROVE  IInv'
  <2>1. /\ Abandon(id[r]) /\ server' = server /\ closed' = closed /\ now' = "drain"
    BY <1>6 DEF Timeout
  <2>2. id[r] \in 0..MaxId
    BY DEF TypeOK
  <2>3. RInv'
    BY <2>1, <2>2, AbandonAnyKeeps
  <2> QED BY <1>6, <2>1, <2>3 DEF Timeout, TypeOK, NoIdle, Settled, RInv, RegTypes
<1>7. ASSUME NEW u \in Users, Abort(u)
      PROVE  IInv'
  <2>1. u \in Reqs
    BY DEF Reqs
  <2>2. CASE UNCHANGED <<st, registry, listening, now>>
    BY <1>7, <2>2 DEF Abort, TypeOK, NoIdle, RInv, RegTypes, OneMap, UniqueIds, Held,
                      ClosedEmpty, WindowRespected, HasRoom, InFlight, registry
  <2>3. CASE u \in listening
    <3>1. /\ Abandon(id[u]) /\ server' = server /\ closed' = closed /\ now' = "drain"
      BY <1>7, <2>3 DEF Abort
    <3>2. id[u] \in 0..MaxId
      BY <2>1 DEF TypeOK
    <3>3. RInv'
      BY <3>1, <3>2, AbandonAnyKeeps
    <3> QED BY <1>7, <2>1, <2>3, <3>1, <3>3
            DEF Abort, TypeOK, NoIdle, Settled, RInv, RegTypes
  <2> QED BY <1>7, <2>2, <2>3 DEF Abort
<1>8. ASSUME NEW m \in server, ReplyPending(m) \/ ReplyAbandoned(m)
      PROVE  IInv'
  <2>1. RInv'
    BY <1>8, ReplyKeeps
  <2>2. NoIdle'
    BY <1>8 DEF ReplyPending, ReplyAbandoned, NoIdle, HasRoom, InFlight
  <2>3. granted' \subseteq Openers
    BY <1>8 DEF ReplyPending, ReplyAbandoned, TypeOK
  <2>4. CASE ReplyPending(m)
    <3>1. pending[m.id] \in Reqs
      BY <2>4 DEF ReplyPending, TypeOK
    <3>2. st' \in [Reqs -> {"idle", "queued", "pending"} \cup Settled]
      BY <2>4, <3>1 DEF ReplyPending, TypeOK, Settled
    <3>3. listening' \subseteq Signalled /\ now' = "drain"
      BY <2>4 DEF ReplyPending, TypeOK
    <3>4. TypeOK'
      BY <2>1, <2>3, <2>4, <3>2, <3>3 DEF ReplyPending, TypeOK, RInv, RegTypes
    <3> QED BY <2>1, <2>2, <3>4
  <2>5. CASE ReplyAbandoned(m)
    <3>1. now' \in {"idle", "drain"} \cup Closers
      BY <2>5, ClientAssumption DEF ReplyAbandoned, TypeOK
    <3>2. TypeOK'
      BY <2>1, <2>3, <2>5, <3>1 DEF ReplyAbandoned, TypeOK, RInv, RegTypes
    <3> QED BY <2>1, <2>2, <3>2
  <2> QED BY <1>8, <2>4, <2>5
<1>9. ASSUME NEW r \in Reqs, Request(r), now \in {"idle"} \cup Closers, now' = "idle",
             UNCHANGED <<aborted, closed, alive, hs, granted>>
      PROVE  IInv'
  <2>1. RInv'
    BY <1>9, RequestKeeps
  <2>2. TypeOK'
    BY <1>9, RequestTypes DEF TypeOK
  <2>3. now # "drain"
    BY <1>9, ClientAssumption
  <2> QED BY <1>9, <2>1, <2>2, <2>3, RequestNoIdle DEF NoIdle
<1>10. CASE UNCHANGED vars
  BY <1>10 DEF vars, TypeOK, NoIdle, RInv, RegTypes, OneMap, UniqueIds, Held, ClosedEmpty,
               WindowRespected, HasRoom, InFlight
<1> QED
  <2>1. ASSUME NEW u \in Users, Issue(u)
        PROVE  IInv'
    BY <1>9, <2>1 DEF Issue, Reqs
  <2>2. ASSUME NEW u \in Openers, CloseHandle(u)
        PROVE  IInv'
    BY <1>9, <2>2, ClientAssumption DEF CloseHandle, Reqs
  <2>3. ASSUME NEW c \in Closers, CloseLateHandle(c)
        PROVE  IInv'
    BY <1>9, <2>3 DEF CloseLateHandle, Reqs
  <2> HIDE DEF IInv
  <2> QED BY <1>1, <1>2, <1>3, <1>4, <1>5, <1>6, <1>7, <1>8, <1>10,
             <2>1, <2>2, <2>3 DEF Next

\* The invariant of the client: what the theorems below follow from.
THEOREM Invariance == Spec => []IInv
<1>1. Init => IInv
  BY InitInv
<1>2. IInv /\ [Next]_vars => IInv'
  BY StepInv
<1> QED BY <1>1, <1>2, PTL DEF Spec

\* Every variable of the client has its type, in every reachable state.
THEOREM TypeOKHolds == Spec => []TypeOK
<1>1. IInv => TypeOK
  BY DEF IInv
<1> QED BY <1>1, Invariance, PTL

\* A reply is never handed to a request it does not answer, for every window, id
\* range and set of requests: allocateId skips the ids of both maps.
THEOREM CorrelatedHolds == Spec => []Correlated
<1>1. IInv => Correlated
  BY ClientAssumption DEF IInv, RInv, RegTypes, Held, ClosedEmpty, Correlated
<1> QED BY <1>1, Invariance, PTL

\* A reply to a request that was really issued never kills the session.
THEOREM EveryReplyKnownHolds == Spec => []EveryReplyKnown
<1>1. IInv => EveryReplyKnown
  BY ClientAssumption DEF IInv, RInv, RegTypes, Held, EveryReplyKnown
<1> QED BY <1>1, Invariance, PTL

\* #maxInFlight is never exceeded, and no request waits in the queue while there is room.
THEOREM WindowKeptHolds == Spec => []WindowKept
<1>1. IInv => WindowKept
  BY DEF IInv, RInv, NoIdle, NoIdleSlot, WindowKept
<1> QED BY <1>1, Invariance, PTL

-----------------------------------------------------------------------------
\* A caller's request is in the queue at most once, and what it waits for is its start. An id
\* in use by a caller's request is the one it was given, and the request is in flight.
Waiting == \A i \in 1..Len(queue) : queue[i] \in Users =>
             /\ st[queue[i]] = "queued"
             /\ \A j \in 1..Len(queue) : i # j => queue[j] # queue[i]
Underway == \A i \in Ids : pending[i] \in Users =>
              st[pending[i]] = "pending" /\ id[pending[i]] = i

\* What a step does to the queue and to the promises of those in it: nothing, or the first one
\* starts, or another one joins them, or the queue is forgotten.
QueueStep ==
  \/ queue' = queue /\ \A u \in Users : st[u] = "queued" => st'[u] = "queued"
  \/ /\ queue # <<>> /\ queue' = Tail(queue)
     /\ \A u \in Users : u # Head(queue) => st'[u] = st[u]
  \/ \E r \in Reqs : /\ queue' = Append(queue, r) /\ st' = [st EXCEPT ![r] = "queued"]
                     /\ r \in Users => st[r] = "idle"
  \/ queue' = <<>>

\* What a step does to the ids in use: some are given up by requests that settle, or one is taken.
IdStep ==
  \/ /\ id' = id
     /\ \A i \in Ids : /\ pending'[i] \in {pending[i], None}
                       /\ pending'[i] \in Users => st'[pending'[i]] = st[pending'[i]]
  \/ \E r \in Reqs, i \in Ids :
       /\ pending' = [pending EXCEPT ![i] = r] /\ id' = [id EXCEPT ![r] = i]
       /\ st' = [st EXCEPT ![r] = "pending"]
       /\ r \in Users => st[r] # "pending"

\* The types the next lemmas need.
LEMMA Typed ==
  ASSUME IInv
  PROVE  /\ st \in [Reqs -> {"idle", "queued", "pending"} \cup Settled]
         /\ pending \in [Ids -> Reqs \cup {None}] /\ id \in [Reqs -> 0..MaxId]
         /\ queue \in Seq(Reqs) /\ aborted \subseteq Users
         /\ None \notin Users /\ Users \subseteq Reqs /\ Closers \cap Users = {} /\ Limits \notin Users
  BY ClientAssumption DEF IInv, TypeOK, Reqs

\* Such steps keep what Waiting says,
LEMMA WaitingKept == ASSUME IInv, Waiting, QueueStep PROVE Waiting'
<1>0. queue \in Seq(Reqs) /\ st \in [Reqs -> {"idle", "queued", "pending"} \cup Settled]
  BY Typed
<1>1. CASE queue' = queue /\ \A u \in Users : st[u] = "queued" => st'[u] = "queued"
  BY <1>1 DEF Waiting
<1>2. CASE /\ queue # <<>> /\ queue' = Tail(queue)
           /\ \A u \in Users : u # Head(queue) => st'[u] = st[u]
  <2>1. /\ Head(queue) = queue[1] /\ 1 \in 1..Len(queue)
        /\ \A i \in 1..Len(queue') : /\ queue'[i] = queue[i + 1] /\ i + 1 \in 1..Len(queue)
                                     /\ i + 1 # 1 /\ i \in Int
    BY <1>0, <1>2
  <2> QED BY <1>2, <2>1 DEF Waiting
<1>3. ASSUME NEW r \in Reqs, queue' = Append(queue, r), st' = [st EXCEPT ![r] = "queued"],
             r \in Users => st[r] = "idle"
      PROVE  Waiting'
  <2>1. /\ Len(queue) \in Nat /\ Len(queue') = Len(queue) + 1 /\ queue'[Len(queue) + 1] = r
        /\ \A i \in 1..Len(queue) : queue'[i] = queue[i] /\ queue[i] \in Reqs
    BY <1>0, <1>3
  <2>2. \A i \in 1..Len(queue) : queue[i] \in Users => queue[i] # r
    BY <1>3 DEF Waiting
  <2>3. \A i \in 1..Len(queue') : i \in 1..Len(queue) \/ i = Len(queue) + 1
    BY <2>1
  <2> QED BY <1>0, <1>3, <2>1, <2>2, <2>3 DEF Waiting
<1>4. CASE queue' = <<>>
  BY <1>4 DEF Waiting
<1> QED BY <1>1, <1>2, <1>3, <1>4 DEF QueueStep

\* ... and what Underway says.
LEMMA UnderwayKept == ASSUME IInv, Underway, IdStep PROVE Underway'
<1>0. SUFFICES ASSUME NEW i \in Ids, pending'[i] \in Users
      PROVE  st'[pending'[i]] = "pending" /\ id'[pending'[i]] = i
  BY DEF Underway
<1>1. CASE /\ id' = id
           /\ \A k \in Ids : /\ pending'[k] \in {pending[k], None}
                             /\ pending'[k] \in Users => st'[pending'[k]] = st[pending'[k]]
  BY <1>0, <1>1, Typed DEF Underway
<1>2. ASSUME NEW r \in Reqs, NEW k \in Ids, pending' = [pending EXCEPT ![k] = r],
             id' = [id EXCEPT ![r] = k], st' = [st EXCEPT ![r] = "pending"],
             r \in Users => st[r] # "pending"
      PROVE  st'[pending'[i]] = "pending" /\ id'[pending'[i]] = i
  <2>1. CASE i = k
    BY <1>2, <2>1, Typed
  <2>2. CASE i # k
    <3>1. pending'[i] = pending[i]
      BY <1>2, <2>2, Typed
    <3>2. pending[i] # r /\ pending[i] \in Reqs
      BY <1>0, <1>2, <3>1, Typed DEF Underway
    <3> QED BY <1>0, <1>2, <3>1, <3>2, Typed DEF Underway
  <2> QED BY <2>1, <2>2
<1> QED BY <1>1, <1>2 DEF IdStep

\* What starting a request does to the promises and the ids.
LEMMA Started ==
  ASSUME IInv, NEW r \in Reqs, Start(r), r \in Users => st[r] # "pending", Underway
  PROVE  /\ IdStep /\ \E o \in {"pending", "failed", "aborted"} : st' = [st EXCEPT ![r] = o]
         /\ st'[r] = "aborted" => r \in aborted
<1>1. CASE Refuse(r, "failed") \/ (r \in aborted /\ Refuse(r, "aborted"))
  <2>1. /\ pending' = pending /\ id' = id
        /\ \E o \in {"failed", "aborted"} : st' = [st EXCEPT ![r] = o]
        /\ st'[r] = "aborted" => r \in aborted
    BY <1>1, Typed DEF Refuse, registry
  <2>2. \A i \in Ids : pending[i] # r \/ r \notin Users
    BY DEF Underway
  <2> QED BY <2>1, <2>2, Typed DEF IdStep
<1>2. CASE Dispatch(r)
  BY <1>2, Typed DEF Dispatch, IdStep
<1> QED BY <1>1, <1>2 DEF Start

\* What issuing one does.
LEMMA Requested ==
  ASSUME IInv, Underway, NEW r \in Reqs, Request(r), st[r] = "idle" \/ r \notin Users
  PROVE  /\ QueueStep /\ IdStep
         /\ \E o \in {"queued", "pending", "failed", "aborted"} : st' = [st EXCEPT ![r] = o]
         /\ st'[r] = "aborted" => r \in aborted
<1>1. CASE Start(r) /\ UNCHANGED queue
  <2>1. /\ IdStep /\ \E o \in {"pending", "failed", "aborted"} : st' = [st EXCEPT ![r] = o]
        /\ st'[r] = "aborted" => r \in aborted
    BY <1>1, Started
  <2> QED BY <1>1, <2>1, Typed DEF QueueStep
<1>2. CASE /\ queue' = Append(queue, r) /\ st' = [st EXCEPT ![r] = "queued"]
           /\ UNCHANGED <<id, registry>>
  <2>1. \A i \in Ids : pending[i] # r \/ r \notin Users
    BY DEF Underway
  <2> QED BY <1>2, <2>1, Typed DEF QueueStep, IdStep, registry
<1> QED BY <1>1, <1>2 DEF Request

\* Every step is of these two kinds.
LEMMA StepLife ==
  ASSUME IInv, Waiting, Underway, [Next]_vars
  PROVE  QueueStep /\ IdStep
<1>1. CASE UNCHANGED <<st, id, pending, queue>>
  BY <1>1 DEF QueueStep, IdStep
<1>2. CASE DrainStep
  <2>1. queue # <<>> /\ queue' = Tail(queue) /\ Head(queue) \in Reqs /\ Start(Head(queue))
    BY <1>2, Typed DEF DrainStep
  <2>2. Head(queue) \in Users => st[Head(queue)] = "queued"
    BY <2>1, Typed DEF Waiting
  <2>3. IdStep /\ \E o \in {"pending", "failed", "aborted"} : st' = [st EXCEPT ![Head(queue)] = o]
    BY <2>1, <2>2, Started
  <2> QED BY <2>1, <2>3, Typed DEF QueueStep
<1>3. CASE Version
  BY <1>1, <1>3, Requested, Typed DEF Version, Reqs, registry
<1>4. CASE OnClose /\ id' = id
  <2>1. CASE UNCHANGED <<st, registry, queue, listening>>
    BY <1>1, <1>4, <2>1 DEF registry
  <2>2. CASE queue' = <<>> /\ pending' = [i \in Ids |-> None]
    BY <1>4, <2>2, Typed DEF QueueStep, IdStep
  <2> QED BY <1>4, <2>1, <2>2 DEF OnClose
<1>5. ASSUME NEW r \in Reqs, NEW i \in 0..MaxId, NEW o,
             st' = st \/ (st' = [st EXCEPT ![r] = o] /\ (r \in Users => st[r] = "pending")),
             pending' = [pending EXCEPT ![i] = None], UNCHANGED <<id, queue>>,
             \A k \in Ids : pending[k] = r /\ r \in Users => k = i
      PROVE  QueueStep /\ IdStep
  <2>1. QueueStep
    BY <1>5, Typed DEF QueueStep
  <2>2. ASSUME NEW k \in Ids PROVE /\ pending'[k] \in {pending[k], None}
                                   /\ pending'[k] \in Users => st'[pending'[k]] = st[pending'[k]]
    <3>1. CASE k = i
      BY <1>5, <3>1, Typed
    <3>2. CASE k # i
      BY <1>5, <3>2, Typed
    <3> QED BY <3>1, <3>2
  <2> QED BY <1>5, <2>1, <2>2 DEF IdStep
<1>6. ASSUME NEW r \in Reqs, Timeout(r) PROVE QueueStep /\ IdStep
  <2>1. /\ id[r] \in 0..MaxId /\ UNCHANGED <<id, queue>> /\ st[r] = "pending"
        /\ st' = [st EXCEPT ![r] = "timedout"] /\ pending' = [pending EXCEPT ![id[r]] = None]
    BY <1>6, Typed DEF Timeout, Abandon
  <2>2. \A k \in Ids : pending[k] = r /\ r \in Users => k = id[r]
    BY DEF Underway
  <2> QED BY <1>5, <2>1, <2>2
<1>7. ASSUME NEW u \in Users, Abort(u) PROVE QueueStep /\ IdStep
  <2>1. CASE UNCHANGED <<st, registry, listening, now>>
    BY <1>1, <1>7, <2>1 DEF Abort, registry
  <2>2. CASE Abandon(id[u]) /\ st' = IF st[u] = "pending" THEN [st EXCEPT ![u] = "aborted"] ELSE st
    <3>1. /\ UNCHANGED <<id, queue>> /\ pending' = [pending EXCEPT ![id[u]] = None]
          /\ id[u] \in 0..MaxId /\ u \in Reqs
          /\ \A k \in Ids : pending[k] = u => k = id[u]
      BY <1>7, <2>2, Typed DEF Abort, Abandon, Underway
    <3> QED BY <1>5, <2>2, <3>1
  <2> QED BY <1>7, <2>1, <2>2 DEF Abort
<1>8. ASSUME NEW m \in server, ReplyPending(m) PROVE QueueStep /\ IdStep
  <2>1. m.id \in Ids /\ m.id \in 0..MaxId
    BY DEF IInv, TypeOK, Ids
  <2>2. pending[m.id] \in Reqs /\ (pending[m.id] \in Users => st[pending[m.id]] = "pending")
    BY <1>8, <2>1, Typed DEF ReplyPending, Underway
  <2>3. \A k \in Ids : pending[k] = pending[m.id] /\ pending[m.id] \in Users => k = m.id
    BY <2>1 DEF Underway
  <2> QED BY <1>5, <1>8, <2>1, <2>2, <2>3 DEF ReplyPending
<1>9. ASSUME NEW r \in Reqs, Request(r), st[r] = "idle" \/ r \notin Users
      PROVE  QueueStep /\ IdStep
  BY <1>9, Requested
<1>10. ASSUME NEW u \in Users, Issue(u) PROVE QueueStep /\ IdStep
  BY <1>9, <1>10, Typed DEF Issue
<1>11. ASSUME NEW u \in Openers, CloseHandle(u) PROVE QueueStep /\ IdStep
  BY <1>9, <1>11, Typed, ClientAssumption DEF CloseHandle, Reqs
<1>12. ASSUME NEW c \in Closers, CloseLateHandle(c) PROVE QueueStep /\ IdStep
  BY <1>9, <1>12, Typed DEF CloseLateHandle, Reqs
<1>13. CASE DrainDone \/ Handshake \/ HandshakeTimeout \/ LimitsSettled \/ UNCHANGED vars
            \/ \E m \in server : ReplyAbandoned(m)
  BY <1>1, <1>13 DEF DrainDone, Handshake, HandshakeTimeout, LimitsSettled, ReplyAbandoned, registry, vars
<1>14. CASE BadFrame \/ ChannelClose \/ \E m \in server : UnknownReply(m)
  BY <1>4, <1>14 DEF BadFrame, ChannelClose, UnknownReply
<1> QED BY <1>2, <1>3, <1>6, <1>7, <1>8, <1>10, <1>11, <1>12, <1>13, <1>14 DEF Next

\* Both hold in every reachable state.
LEMMA Lives == Spec => [](IInv /\ Waiting /\ Underway)
<1>1. Init => Waiting /\ Underway
  <2>1. None \notin Users
    BY ClientAssumption DEF Reqs
  <2> QED BY <2>1 DEF Init, Waiting, Underway
<1>2. IInv /\ Waiting /\ Underway /\ [Next]_vars => Waiting' /\ Underway'
  BY StepLife, WaitingKept, UnderwayKept
<1> QED BY <1>1, <1>2, Invariance, PTL DEF Spec

\* A timeout or a cancellation settles no other promise and takes no other request's id.
THEOREM GivingUpIsPrivateHolds == Spec => GivingUpIsPrivate
<1> DEFINE Private(r) == \A q \in Reqs \ {r} :
             /\ st'[q] = st[q]
             /\ st[q] = "pending" /\ pending[id[q]] = q => pending'[id[q]] = q
           GivesUp(r) == st'[r] \in {"timedout", "aborted"} /\ st[r] = "pending"
<1>1. ASSUME IInv, Waiting, Underway, [Next]_vars, NEW r \in Reqs, GivesUp(r)
      PROVE  Private(r)
  <2>1. CASE DrainStep
    <3>1. Head(queue) \in Reqs /\ Start(Head(queue)) /\ queue # <<>>
      BY <1>1, <2>1, Typed DEF DrainStep
    <3>2. Head(queue) \in Users => st[Head(queue)] = "queued"
      BY <1>1, <3>1, Typed DEF Waiting
    <3>3. /\ \E o \in {"pending", "failed", "aborted"} : st' = [st EXCEPT ![Head(queue)] = o]
          /\ st'[Head(queue)] = "aborted" => Head(queue) \in aborted
      BY <1>1, <3>1, <3>2, Started
    <3> QED BY <1>1, <3>2, <3>3, Typed
  <2>2. ASSUME NEW q \in Reqs, Request(q), st[q] = "idle" \/ q \notin Users PROVE FALSE
    <3>1. /\ \E o \in {"queued", "pending", "failed", "aborted"} : st' = [st EXCEPT ![q] = o]
          /\ st'[q] = "aborted" => q \in aborted
      BY <1>1, <2>2, Requested
    <3> QED BY <1>1, <2>2, <3>1, Typed
  <2>3. ASSUME NEW q \in Reqs, Timeout(q) PROVE Private(r)
    <3>1. /\ r = q /\ st' = [st EXCEPT ![r] = "timedout"]
          /\ pending[id[r]] = r /\ pending' = [pending EXCEPT ![id[r]] = None]
      BY <1>1, <2>3, Typed DEF Timeout, Abandon
    <3> QED BY <3>1, Typed
  <2>4. ASSUME NEW u \in Users, Abort(u) PROVE Private(r)
    <3>1. /\ r = u /\ st' = [st EXCEPT ![r] = "aborted"]
          /\ pending[id[r]] \in {r, None} /\ pending' = [pending EXCEPT ![id[r]] = None]
      BY <1>1, <2>4, Typed DEF Abort, Abandon, SignalInTime
    <3>2. None \notin Reqs
      BY ClientAssumption
    <3> QED BY <3>1, <3>2, Typed
  <2>5. CASE UNCHANGED st
    BY <1>1, <2>5
  <2>6. CASE OnClose
    BY <1>1, <2>6, Typed DEF OnClose, registry
  <2>7. ASSUME NEW m \in server, ReplyPending(m) PROVE FALSE
    BY <1>1, <2>7, Typed DEF ReplyPending
  <2>8. CASE Version
    BY <1>1, <2>2, <2>5, <2>8, Typed DEF Version, Reqs
  <2>9. ASSUME NEW u \in Users, Issue(u) PROVE FALSE
    BY <1>1, <2>2, <2>9, Typed DEF Issue
  <2>10. ASSUME NEW u \in Openers, CloseHandle(u) PROVE FALSE
    BY <1>1, <2>2, <2>10, Typed, ClientAssumption DEF CloseHandle, Reqs
  <2>11. ASSUME NEW c \in Closers, CloseLateHandle(c) PROVE FALSE
    BY <1>1, <2>2, <2>11, Typed DEF CloseLateHandle, Reqs
  <2>12. CASE DrainDone \/ Handshake \/ HandshakeTimeout \/ LimitsSettled \/ UNCHANGED vars
              \/ \E m \in server : ReplyAbandoned(m)
    BY <2>5, <2>12 DEF DrainDone, Handshake, HandshakeTimeout, LimitsSettled, ReplyAbandoned, vars
  <2>13. CASE BadFrame \/ ChannelClose \/ \E m \in server : UnknownReply(m)
    BY <2>6, <2>13 DEF BadFrame, ChannelClose, UnknownReply
  <2> HIDE DEF Private
  <2> QED BY <1>1, <2>1, <2>3, <2>4, <2>7, <2>8, <2>9, <2>10, <2>11, <2>12, <2>13 DEF Next
<1>2. IInv /\ Waiting /\ Underway /\ [Next]_vars => [\A r \in Reqs : GivesUp(r) => Private(r)]_vars
  BY <1>1
<1> QED BY Lives, <1>2, PTL DEF Spec, GivingUpIsPrivate

\* What HandlesAccounted says of one opener.
Accounted(u) == closed \/ st[u] = "answered" \/ now = CloseOf[u] \/ st[CloseOf[u]] # "idle"

\* Every step keeps it of every handle granted.
LEMMA StepHandles ==
  ASSUME IInv, Waiting, Underway, HandlesAccounted, [Next]_vars
  PROVE  HandlesAccounted'
<1>0. /\ granted \subseteq Openers /\ Openers \subseteq Users /\ CloseOf \in [Openers -> Closers]
      /\ "idle" \notin Closers /\ "drain" \notin Closers /\ Closers \subseteq Reqs
      /\ \A u \in granted : Accounted(u)
  BY ClientAssumption DEF IInv, TypeOK, HandlesAccounted, Accounted, Reqs
<1> SUFFICES ASSUME NEW u \in granted', u \in Openers, CloseOf[u] \in Closers PROVE Accounted(u)'
  <2>1. granted' \subseteq Openers
    BY StepInv DEF IInv, TypeOK
  <2> QED BY <1>0, <2>1 DEF HandlesAccounted, Accounted
<1>1. ASSUME u \in granted, closed' = closed,
             st[u] = "answered" => st'[u] = "answered",
             st[CloseOf[u]] # "idle" => st'[CloseOf[u]] # "idle",
             now = CloseOf[u] => now' = now \/ st'[CloseOf[u]] # "idle"
      PROVE  Accounted(u)'
  BY <1>0, <1>1 DEF Accounted
<1>2. CASE DrainStep
  <2>1. Head(queue) \in Reqs /\ Start(Head(queue)) /\ queue # <<>> /\ UNCHANGED <<granted, closed, now>>
    BY <1>2, Typed DEF DrainStep
  <2>2. Head(queue) \in Users => st[Head(queue)] = "queued"
    BY <2>1, Typed DEF Waiting
  <2>3. \E o \in {"pending", "failed", "aborted"} : st' = [st EXCEPT ![Head(queue)] = o]
    BY <2>1, <2>2, Started
  <2>4. /\ st[u] = "answered" => st'[u] = "answered"
        /\ st[CloseOf[u]] # "idle" => st'[CloseOf[u]] # "idle"
    BY <1>0, <2>1, <2>2, <2>3, Typed
  <2> QED BY <1>1, <2>1, <2>4
<1>3. ASSUME NEW r \in Reqs, Request(r), r \in Users => st[r] = "idle", UNCHANGED <<granted, closed>>,
             now \in {"idle", r}
      PROVE  Accounted(u)'
  <2>1. \E o \in {"queued", "pending", "failed", "aborted"} : st' = [st EXCEPT ![r] = o]
    BY <1>3, Requested
  <2>2. /\ st[u] = "answered" => st'[u] = "answered"
        /\ st[CloseOf[u]] # "idle" => st'[CloseOf[u]] # "idle"
        /\ now = CloseOf[u] => st'[CloseOf[u]] # "idle"
    BY <1>0, <1>3, <2>1, Typed
  <2> QED BY <1>1, <1>3, <2>2
<1>4. ASSUME now = "idle" \/ now = "drain", UNCHANGED <<granted, closed>>,
             \A r \in Reqs : st'[r] = st[r] \/ (st[r] = "pending" /\ st'[r] # "idle")
      PROVE  Accounted(u)'
  BY <1>0, <1>1, <1>4, Typed
<1>5. CASE DrainDone \/ Handshake \/ HandshakeTimeout \/ LimitsSettled
  BY <1>4, <1>5 DEF DrainDone, Handshake, HandshakeTimeout, LimitsSettled
<1>6. CASE Version
  <2>1. CASE UNCHANGED st
    BY <1>4, <1>6, <2>1 DEF Version
  <2>2. CASE Request(Limits)
    BY <1>3, <1>6, <2>2, Typed DEF Version, Reqs
  <2> QED BY <1>6, <2>1, <2>2 DEF Version
<1>7. CASE OnClose
  BY <1>7 DEF OnClose, Accounted
<1>8. ASSUME NEW r \in Reqs, Timeout(r) PROVE Accounted(u)'
  BY <1>4, <1>8, Typed DEF Timeout
<1>9. ASSUME NEW r \in Users, Abort(r) PROVE Accounted(u)'
  BY <1>4, <1>9, Typed DEF Abort
<1>10. ASSUME NEW m \in server, ReplyPending(m) PROVE Accounted(u)'
  <2>1. m.id \in Ids /\ m.req \in Reqs /\ pending[m.id] \in Reqs
    BY <1>10, Typed DEF IInv, TypeOK, ReplyPending
  <2>2. /\ st' = [st EXCEPT ![pending[m.id]] = "answered"] /\ now = "idle" /\ closed' = closed
        /\ u \in granted \/ u = m.req
    BY <1>10 DEF ReplyPending
  <2>3. CASE u \in granted
    BY <1>0, <1>1, <2>1, <2>2, <2>3, Typed
  <2>4. CASE u = m.req
    <3>1. ~closed => pending[m.id] = m.req
      BY <1>10, ClientAssumption DEF ReplyPending, IInv, RInv, Held
    <3> QED BY <2>1, <2>2, <2>4, <3>1, Typed DEF Accounted
  <2> QED BY <2>2, <2>3, <2>4
<1>11. ASSUME NEW m \in server, ReplyAbandoned(m) PROVE Accounted(u)'
  <2>1. /\ now = "idle" /\ UNCHANGED <<st, closed>>
        /\ u \in granted \/ now' = CloseOf[u]
    BY <1>11 DEF ReplyAbandoned
  <2> QED BY <1>0, <1>1, <2>1 DEF Accounted
<1>12. ASSUME NEW r \in Users, Issue(r) PROVE Accounted(u)'
  BY <1>3, <1>12, Typed DEF Issue
<1>13. ASSUME NEW r \in Openers, CloseHandle(r) PROVE Accounted(u)'
  BY <1>0, <1>3, <1>13, Typed DEF CloseHandle
<1>14. ASSUME NEW c \in Closers, CloseLateHandle(c) PROVE Accounted(u)'
  BY <1>0, <1>3, <1>14, Typed DEF CloseLateHandle
<1>15. CASE BadFrame \/ ChannelClose \/ \E m \in server : UnknownReply(m)
  BY <1>7, <1>15 DEF BadFrame, ChannelClose, UnknownReply
<1>16. CASE UNCHANGED vars
  BY <1>0, <1>16 DEF vars, Accounted
<1> QED BY <1>2, <1>5, <1>6, <1>8, <1>9, <1>10, <1>11, <1>12, <1>13, <1>14, <1>15, <1>16 DEF Next

\* "A handle arriving late for an abandoned OPEN is closed rather than leaked."
THEOREM HandlesAccountedHolds == Spec => []HandlesAccounted
<1>1. Init => HandlesAccounted
  BY DEF Init, HandlesAccounted
<1>2. IInv /\ Waiting /\ Underway /\ HandlesAccounted /\ [Next]_vars => HandlesAccounted'
  BY StepHandles
<1> QED BY <1>1, <1>2, Lives, PTL DEF Spec
=============================================================================
