------------------------------ MODULE SftpClient ------------------------------
(***************************************************************************)
(* SftpClient and RequestRegistry (sftp-protocol/src/client): the          *)
(* handshake, the window of requests in flight, the queue behind it, the   *)
(* matching of replies by id, timeouts, cancellation, and what the death   *)
(* of the channel does to all of them.                                     *)
(*                                                                         *)
(* A synchronous stretch of JavaScript that loops (#drainQueue) or calls   *)
(* on (#closeHandleQuietly in #onData) is several actions here; `now` says *)
(* which stretch is running, and no other action interleaves with it.      *)
(***************************************************************************)
EXTENDS Integers, Sequences, FiniteSets

CONSTANTS Users,      \* requests issued by callers
          Openers,    \* those of them that are OPEN or OPENDIR
          Closers,    \* the CLOSE requests for the handles they obtain
          CloseOf,    \* the CLOSE that belongs to each opener
          Limits,     \* the limits@openssh.com request of the handshake
          Signalled,  \* the user requests that carry an AbortSignal
          Window,     \* #maxInFlight
          MaxId,      \* MAX_REQUEST_ID, 2^32 - 1 in the code
          None

Reqs == Users \cup Closers \cup {Limits}
Ids == 1..MaxId

ASSUME ClientAssumption ==
  /\ Openers \subseteq Users
  /\ Signalled \subseteq Users
  /\ CloseOf \in [Openers -> Closers]
  /\ \A a, b \in Openers : CloseOf[a] = CloseOf[b] => a = b
  /\ Users \cap Closers = {} /\ Limits \notin Users \cup Closers
  /\ None \notin Reqs /\ {"idle", "drain"} \cap Closers = {}
  /\ Window \in Nat \ {0} /\ MaxId \in Nat \ {0}

VARIABLES st,         \* what the promise of each request has come to
          id,         \* the requestId captured by its timer and its abort listener
          pending,    \* RequestRegistry.#pending
          abandoned,  \* RequestRegistry.#abandoned
          nextId,     \* RequestRegistry.#nextId
          queue,      \* #queue
          listening,  \* requests whose abort listener is registered
          aborted,    \* requests whose AbortSignal has fired
          closed,     \* #closed
          alive,      \* the channel still delivers bytes
          hs,         \* how far handshake() has come
          now,        \* the synchronous stretch that is running
          server,     \* requests on the wire or at the server, not yet answered
          granted     \* openers whose HANDLE reply has been delivered

registry == <<pending, abandoned, nextId>>
vars == <<st, id, pending, abandoned, nextId, queue, listening, aborted,
          closed, alive, hs, now, server, granted>>

Settled == {"answered", "timedout", "aborted", "failed"}

InFlight == {i \in Ids : pending[i] # None}
\* Slips the properties must notice are defined before the definition they would
\* replace and named after it: here a window one too wide.
HasRoom_OneMore == Cardinality(InFlight) <= Window

HasRoom == Cardinality(InFlight) < Window

-----------------------------------------------------------------------------
Init == /\ st = [r \in Reqs |-> "idle"]
        /\ id = [r \in Reqs |-> 0]
        /\ pending = [i \in Ids |-> None]
        /\ abandoned = [i \in Ids |-> None]
        /\ nextId = 1
        /\ queue = <<>>
        /\ listening = {} /\ aborted = {} /\ server = {} /\ granted = {}
        /\ closed = FALSE /\ alive = TRUE
        /\ hs = "none"
        /\ now = "idle"

\* Slip: an abandoned id is taken for a free one.
Free_Abandoned(i) == pending[i] = None

\* allocateId: the first id from #nextId on, cyclically, that is in neither map.
\* Between 2^32 - 1 ids one is always free; here that is a bound on the instance.
Free(i) == pending[i] = None /\ abandoned[i] = None
Distance(i) == (i - nextId) % MaxId
Allocated(i) == Free(i) /\ \A j \in Ids : Free(j) => Distance(i) <= Distance(j)

\* The `start` closure of #request, outside a closed connection and an aborted
\* signal: register the request and write it. (The only ByteChannel refuses a write
\* after its exit, when #closed is already set, so the write does not throw here.)
Dispatch(r) ==
  \E i \in Ids :
    /\ Allocated(i)
    /\ pending' = [pending EXCEPT ![i] = r]
    /\ nextId' = (i % MaxId) + 1
    /\ id' = [id EXCEPT ![r] = i]
    /\ st' = [st EXCEPT ![r] = "pending"]
    /\ listening' = IF r \in Signalled THEN listening \cup {r} ELSE listening
    /\ server' = server \cup {[id |-> i, req |-> r]}
    /\ UNCHANGED abandoned

Refuse(r, outcome) == /\ st' = [st EXCEPT ![r] = outcome]
                      /\ UNCHANGED <<id, registry, listening, server>>

Start(r) == \/ closed /\ Refuse(r, "failed")
            \/ ~closed /\ r \in aborted /\ Refuse(r, "aborted")
            \/ ~closed /\ r \notin aborted /\ Dispatch(r)

\* #request: start now if the window has room, or wait for a slot.
Request(r) == \/ HasRoom /\ Start(r) /\ UNCHANGED queue
              \/ /\ ~HasRoom
                 /\ queue' = Append(queue, r)
                 /\ st' = [st EXCEPT ![r] = "queued"]
                 /\ UNCHANGED <<id, registry, listening, server>>

-----------------------------------------------------------------------------
\* #drainQueue, one turn of its loop, and its end.
DrainStep == /\ now = "drain"
             /\ queue # <<>> /\ HasRoom
             /\ Start(Head(queue))
             /\ queue' = Tail(queue)
             /\ UNCHANGED <<aborted, closed, alive, hs, now, granted>>

DrainDone == /\ now = "drain"
             /\ queue = <<>> \/ ~HasRoom
             /\ now' = "idle"
             /\ UNCHANGED <<st, id, registry, queue, listening, aborted,
                            closed, alive, hs, server, granted>>

\* Slip: the id of a request given up on is forgotten at once.
Abandon_Forget(i) == /\ pending' = [pending EXCEPT ![i] = None]
                     /\ UNCHANGED <<abandoned, nextId>>

\* RequestRegistry.abandon
Abandon(i) == /\ pending' = [pending EXCEPT ![i] = None]
              /\ abandoned' = IF pending[i] = None THEN abandoned
                              ELSE [abandoned EXCEPT ![i] = pending[i]]
              /\ UNCHANGED nextId

\* Slips: the slot is freed but nobody is told; the oldest request is given up on.
Timeout_NoDrain(r) ==
  /\ now = "idle"
  /\ st[r] = "pending" /\ pending[id[r]] = r
  /\ Abandon(id[r])
  /\ st' = [st EXCEPT ![r] = "timedout"]
  /\ UNCHANGED <<id, queue, listening, aborted, closed, alive, hs, now, server, granted>>

Timeout_Oldest(r) ==
  /\ now = "idle"
  /\ st[r] = "pending" /\ pending[id[r]] = r
  /\ \E i \in InFlight : (\A j \in InFlight : i <= j) /\ Abandon(i)
  /\ st' = [st EXCEPT ![r] = "timedout"]
  /\ now' = "drain"
  /\ UNCHANGED <<id, queue, listening, aborted, closed, alive, hs, server, granted>>

\* A request's timer fires. take and abandon clear the timer, so only a registered
\* request still has one. The abort listener stays registered.
Timeout(r) == /\ now = "idle"
              /\ st[r] = "pending" /\ pending[id[r]] = r
              /\ Abandon(id[r])
              /\ st' = [st EXCEPT ![r] = "timedout"]
              /\ now' = "drain"
              /\ UNCHANGED <<id, queue, listening, aborted, closed, alive, hs, server, granted>>

\* Bound: the listener of a request that has settled captures an id that could be
\* given out again; in the code that is 2^32 requests later, and no caller keeps an
\* AbortSignal that long.
SignalInTime(r) == r \in listening => pending[id[r]] \in {r, None}

\* The caller's AbortSignal fires: onAbort, if its listener is still registered.
Abort(r) ==
  /\ now = "idle"
  /\ r \in Signalled \ aborted
  /\ SignalInTime(r)
  /\ aborted' = aborted \cup {r}
  /\ \/ /\ r \notin listening
        /\ UNCHANGED <<st, registry, listening, now>>
     \/ /\ r \in listening
        /\ Abandon(id[r])
        /\ st' = IF st[r] = "pending" THEN [st EXCEPT ![r] = "aborted"] ELSE st
        /\ listening' = listening \ {r}
        /\ now' = "drain"
  /\ UNCHANGED <<id, queue, closed, alive, hs, server, granted>>

-----------------------------------------------------------------------------
\* #onData with a reply to a request in flight: take, then resolve, which drains.
ReplyPending(m) ==
  /\ now = "idle" /\ alive /\ m \in server
  /\ pending[m.id] # None
  /\ server' = server \ {m}
  /\ pending' = [pending EXCEPT ![m.id] = None]
  /\ st' = [st EXCEPT ![pending[m.id]] = "answered"]
  /\ listening' = listening \ {pending[m.id]}
  /\ now' = "drain"
  /\ granted' \in {granted} \cup
                  (IF m.req \in Openers THEN {granted \cup {m.req}} ELSE {})
  /\ UNCHANGED <<id, abandoned, nextId, queue, aborted, closed, alive, hs>>

\* Slip: a late handle is discarded like any other late reply.
ReplyAbandoned_Leak(m) ==
  /\ now = "idle" /\ alive /\ m \in server
  /\ pending[m.id] = None /\ abandoned[m.id] # None
  /\ server' = server \ {m}
  /\ abandoned' = [abandoned EXCEPT ![m.id] = None]
  /\ granted' \in {granted} \cup
                  (IF m.req \in Openers THEN {granted \cup {m.req}} ELSE {})
  /\ UNCHANGED <<st, id, pending, nextId, queue, listening, aborted, closed, alive, hs, now>>

\* ... with a late reply to a request given up on: discarded, and if it carries a
\* handle, #closeHandleQuietly is called at once.
ReplyAbandoned(m) ==
  /\ now = "idle" /\ alive /\ m \in server
  /\ pending[m.id] = None /\ abandoned[m.id] # None
  /\ server' = server \ {m}
  /\ abandoned' = [abandoned EXCEPT ![m.id] = None]
  /\ \/ UNCHANGED <<granted, now>>
     \/ /\ m.req \in Openers
        /\ granted' = granted \cup {m.req}
        /\ now' = CloseOf[m.req]
  /\ UNCHANGED <<st, id, pending, nextId, queue, listening, aborted, closed, alive, hs>>

CloseLateHandle(c) == /\ now = c /\ c \in Closers
                      /\ Request(c)
                      /\ now' = "idle"
                      /\ UNCHANGED <<aborted, closed, alive, hs, granted>>

\* Slip: the maps are cleared without rejecting what was in them.
OnClose_NoReject ==
  /\ closed' = TRUE
  /\ queue' = <<>>
  /\ listening' = listening \ {pending[i] : i \in InFlight}
  /\ pending' = [i \in Ids |-> None]
  /\ abandoned' = [i \in Ids |-> None]
  /\ UNCHANGED <<st, nextId>>

\* #onClose: refuse new work, forget the queue, reject what is in flight (failAll).
OnClose ==
  /\ closed' = TRUE
  /\ IF closed THEN UNCHANGED <<st, registry, queue, listening>>
     ELSE /\ queue' = <<>>
          /\ st' = [r \in Reqs |-> IF \E i \in Ids : pending[i] = r
                                   THEN "failed" ELSE st[r]]
          /\ listening' = listening \ {pending[i] : i \in InFlight}
          /\ pending' = [i \in Ids |-> None]
          /\ abandoned' = [i \in Ids |-> None]
          /\ UNCHANGED nextId

\* A frame the decoder or decodeResponse rejects, or a reply with an id that is in
\* neither map: only the client closes, the channel stays.
BadFrame == /\ now = "idle" /\ alive /\ ~closed
            /\ OnClose
            /\ UNCHANGED <<id, aborted, alive, hs, now, server, granted>>

UnknownReply(m) == /\ now = "idle" /\ alive /\ m \in server
                   /\ pending[m.id] = None /\ abandoned[m.id] = None
                   /\ OnClose
                   /\ server' = server \ {m}
                   /\ UNCHANGED <<id, aborted, alive, hs, now, granted>>

\* The channel dies, or the owner calls dispose().
ChannelClose == /\ now = "idle" /\ alive
                /\ OnClose
                /\ alive' = FALSE
                /\ UNCHANGED <<id, aborted, hs, now, server, granted>>

-----------------------------------------------------------------------------
\* handshake(): write INIT and wait for VERSION.
Handshake == /\ now = "idle" /\ hs = "none" /\ hs' = "waiting"
             /\ UNCHANGED <<st, id, registry, queue, listening, aborted, closed,
                            alive, now, server, granted>>

HandshakeTimeout == /\ now = "idle" /\ hs = "waiting" /\ hs' = "failed"
                    /\ UNCHANGED <<st, id, registry, queue, listening, aborted,
                                   closed, alive, now, server, granted>>

\* VERSION arrives: another version, version 3 without limits@openssh.com, or with.
Version == /\ now = "idle" /\ alive /\ hs = "waiting"
           /\ \/ /\ hs' \in {"failed", "ready"}
                 /\ UNCHANGED <<st, id, registry, queue, listening, server>>
              \/ hs' = "limits" /\ Request(Limits)
           /\ UNCHANGED <<aborted, closed, alive, now, granted>>

\* Slip: only an answer completes the handshake.
LimitsSettled_Answer == /\ now = "idle" /\ hs = "limits" /\ st[Limits] = "answered"
                        /\ hs' = "ready"
                        /\ UNCHANGED <<st, id, registry, queue, listening, aborted,
                                       closed, alive, now, server, granted>>

\* The limits request is best effort: however it settles, the handshake completes.
LimitsSettled == /\ now = "idle" /\ hs = "limits" /\ st[Limits] \in Settled
                 /\ hs' = "ready"
                 /\ UNCHANGED <<st, id, registry, queue, listening, aborted,
                                closed, alive, now, server, granted>>

\* A caller issues its request.
Issue(u) == /\ now = "idle" /\ hs = "ready"
            /\ st[u] = "idle"
            /\ Request(u)
            /\ UNCHANGED <<aborted, closed, alive, hs, now, granted>>

\* The caller whose OPEN or OPENDIR was answered with a handle closes it, in the
\* finally block of its operation.
CloseHandle(u) == /\ now = "idle"
                  /\ u \in granted /\ st[u] = "answered" /\ st[CloseOf[u]] = "idle"
                  /\ Request(CloseOf[u])
                  /\ UNCHANGED <<aborted, closed, alive, hs, now, granted>>

Next == \/ DrainStep \/ DrainDone
        \/ Handshake \/ HandshakeTimeout \/ Version \/ LimitsSettled
        \/ BadFrame \/ ChannelClose
        \/ \E r \in Reqs : Timeout(r)
        \/ \E u \in Users : Issue(u) \/ Abort(u)
        \/ \E u \in Openers : CloseHandle(u)
        \/ \E c \in Closers : CloseLateHandle(c)
        \/ \E m \in server : ReplyPending(m) \/ ReplyAbandoned(m) \/ UnknownReply(m)

Spec == Init /\ [][Next]_vars

\* Synchronous code runs to its end, timers fire, and finally blocks run. Nothing is
\* assumed of the server: it may never answer.
Fairness == /\ WF_vars(DrainStep \/ DrainDone)
            /\ WF_vars(HandshakeTimeout) /\ WF_vars(LimitsSettled)
            /\ \A r \in Reqs : WF_vars(Timeout(r))
            /\ \A u \in Openers : WF_vars(CloseHandle(u))
            /\ \A c \in Closers : WF_vars(CloseLateHandle(c))

FairSpec == Spec /\ Fairness

-----------------------------------------------------------------------------
\* Every variable has its type. (No run lists it; SftpClientProofs proves it.)
TypeOK == /\ st \in [Reqs -> {"idle", "queued", "pending"} \cup Settled]
          /\ id \in [Reqs -> 0..MaxId]
          /\ pending \in [Ids -> Reqs \cup {None}]
          /\ abandoned \in [Ids -> Reqs \cup {None}]
          /\ nextId \in Ids
          /\ queue \in Seq(Reqs)
          /\ listening \subseteq Signalled /\ aborted \subseteq Signalled
          /\ closed \in BOOLEAN /\ alive \in BOOLEAN
          /\ hs \in {"none", "waiting", "limits", "ready", "failed"}
          /\ now \in {"idle", "drain"} \cup Closers
          /\ server \subseteq [id : Ids, req : Reqs]
          /\ granted \subseteq Openers

\* A reply can only ever be handed to the request it answers: an id is not reused
\* while a reply to its previous holder may still arrive ("instead of being handed
\* to the next unrelated request -- which previously poisoned the session").
Correlated == \A m \in server : pending[m.id] # None => pending[m.id] = m.req

\* A reply to a request that was really issued is never taken for a stream that is
\* out of sync: "the session must survive a late response".
EveryReplyKnown ==
  ~closed => \A m \in server : pending[m.id] # None \/ abandoned[m.id] # None

\* No more than #maxInFlight requests are outstanding, and none waits while there
\* is room ("that many outstanding at once, with the rest queued").
WindowRespected == Cardinality(InFlight) <= Window
NoIdleSlot == now = "idle" /\ queue # <<>> => ~HasRoom

\* Both: the window is kept, and used.
WindowKept == WindowRespected /\ NoIdleSlot

\* A handle the server granted is closed, is about to be, or still belongs to the
\* caller that asked for it: "a handle arriving late for an abandoned OPEN is closed
\* rather than leaked".
HandlesAccounted ==
  \A u \in granted : \/ closed
                     \/ st[u] = "answered"
                     \/ now = CloseOf[u]
                     \/ st[CloseOf[u]] # "idle"

\* Giving up on one request settles no other one: a timeout or a cancellation
\* changes only its own promise, and starts waiting ones.
GivingUpIsPrivate ==
  [][\A r \in Reqs : st'[r] \in {"timedout", "aborted"} /\ st[r] = "pending" =>
        \A q \in Reqs \ {r} :
          /\ st'[q] = st[q]
          /\ st[q] = "pending" /\ pending[id[q]] = q => pending'[id[q]] = q]_vars

\* A request in flight settles, whatever the server and the channel do.
InFlightSettles == \A r \in Reqs : (st[r] = "pending") ~> (st[r] \in Settled)

\* "Reject everything outstanding -- the channel died": every request that was
\* issued settles.
EveryRequestSettles ==
  \A r \in Reqs : (st[r] \in {"queued", "pending"}) ~> (st[r] \in Settled)

\* No run checks this, and it is false: handshake() does not notice that the channel is
\* gone, and goes on waiting until its timer fires.
HandshakeSeesClose == closed => hs # "waiting"

\* handshake() returns or throws.
HandshakeEnds == (hs = "waiting") ~> (hs \in {"ready", "failed"})

\* Nobody waits for ever for an answer: neither a request in flight nor the handshake.
WaitsEnd == InFlightSettles /\ HandshakeEnds
=============================================================================
