--------------------------- MODULE SessionManager ---------------------------
(***************************************************************************)
(* SessionManager, ReconnectScheduler and ConnectionStateModel: who may     *)
(* start a connection, who shares one, what a disconnect, a lost connection *)
(* and the retries do to one another, and what the user is shown.          *)
(*                                                                         *)
(* An attempt is one call of #establish with the askpass server, the ssh    *)
(* child and the RemoteSession it makes. Continuations of a settled promise *)
(* run before the next event.                                              *)
(***************************************************************************)
EXTENDS Integers, FiniteSets

CONSTANTS Hosts,
          Clicks,        \* the calls of connect() or require() by the user
          Retries,       \* the runs of the ReconnectScheduler there may be at once
          MaxTries,      \* #maxAttempts of the scheduler
          MaxMade,       \* bound on the attempts made
          MaxGen,        \* bound on the scheduler's #generation, at which no disconnect happens
          None,
          Disconnects,   \* whether the user may disconnect
          Disposes,      \* whether the extension may be deactivated
          EarlyDrops,    \* whether a child may exit while the askpass server stops
          Breaks,        \* whether a client may die of a protocol error
          AskpassFails   \* whether the askpass server may fail to start

Callers == Clicks \cup Retries
Attempts == 1..MaxMade
Flags == {Disconnects, Disposes, EarlyDrops, Breaks, AskpassFails}

ASSUME ManagerAssumption ==
  /\ Clicks \cap Retries = {} /\ None \notin Hosts
  /\ IsFiniteSet(Clicks) /\ IsFiniteSet(Retries)
  /\ MaxTries \in Nat \ {0} /\ MaxMade \in Nat /\ MaxGen \in Nat
  /\ Flags \subseteq BOOLEAN

VARIABLES made,        \* attempts so far
          host, via,   \* of each attempt: its alias, and whether a retry made it
          phase,       \* how far #establish has come
          child,       \* its ssh process
          closed,      \* RemoteSession.#closed
          broken,      \* SftpClient.#closed after a protocol error
          prev,        \* the session it is disposing of first
          current,     \* #session
          connecting,  \* #connecting
          auto,        \* #autoReconnect
          disposed,    \* #disposed
          status,      \* the ConnectionSnapshot: status and alias
          parting,     \* sessions whose dispose() a disconnect() awaits
          sched,       \* the scheduler: #running, #generation, and the pending timer
          pc, want, on, got,  \* of each caller of connect(): where it is, the alias it
                              \* asked for, the attempt it awaits, the session it got
          run          \* of each retry: its attempt number, generation and alias

attempt == <<made, host, via, phase, child, closed, broken, prev>>
manager == <<current, connecting, auto, disposed, status, parting>>
callers == <<pc, want, on, got, run>>
vars == <<attempt, manager, sched, callers>>

NoRun == [try |-> 0, gen |-> 0, host |-> None]

Init == /\ made = 0
        /\ host = [n \in Attempts |-> None] /\ via = [n \in Attempts |-> FALSE]
        /\ phase = [n \in Attempts |-> "none"] /\ child = [n \in Attempts |-> "none"]
        /\ closed = [n \in Attempts |-> FALSE] /\ broken = [n \in Attempts |-> FALSE]
        /\ prev = [n \in Attempts |-> 0]
        /\ current = 0 /\ connecting = 0
        /\ auto = FALSE /\ disposed = FALSE
        /\ status = <<"disconnected", None>>
        /\ parting = {}
        /\ sched = [running |-> FALSE, gen |-> 0, timer |-> NoRun]
        /\ pc = [c \in Callers |-> "idle"] /\ want = [c \in Callers |-> None]
        /\ on = [c \in Callers |-> 0] /\ got = [c \in Callers |-> 0]
        /\ run = [r \in Retries |-> NoRun]

\* The getter `session`.
Session == IF current # 0 /\ (closed[current] \/ broken[current]) THEN 0 ELSE current

InProgress == {"closing", "askpass", "connecting", "stopping", "failing"}
Settled(n) == phase[n] \in {"returned", "threw"}

HostOf(n) == IF n = 0 THEN None ELSE host[n]

\* No continuation is waiting to run.
Queued == {c \in Callers : pc[c] = "queued"}
Quiet == /\ \A c \in Queued : ~Settled(on[c])
         /\ \A r \in Retries : pc[r] # "done"
Room == made + Cardinality(Queued) < MaxMade

-----------------------------------------------------------------------------
\* ReconnectScheduler.stop
Stopped == [running |-> FALSE, gen |-> sched.gen + 1, timer |-> NoRun]

\* ReconnectScheduler.start: a no-op while it is running.
Started(h) == IF sched.running THEN sched
              ELSE [running |-> TRUE, gen |-> sched.gen + 1,
                    timer |-> [try |-> 1, gen |-> sched.gen + 1, host |-> h]]

-----------------------------------------------------------------------------
\* Slip: the session is let go of, not disposed of.
Discarded_Keep(n) == closed

\* RemoteSession.dispose, which closes the ssh child's input.
Discarded(n) == [closed EXCEPT ![n] = TRUE]

\* #establish up to its first await: away with the present session, or on to the
\* askpass server at once.
Establish(c, h, v) ==
  LET n == made + 1 IN
    /\ made' = n
    /\ host' = [host EXCEPT ![n] = h] /\ via' = [via EXCEPT ![n] = v]
    /\ prev' = [prev EXCEPT ![n] = current]
    /\ current' = 0
    /\ connecting' = n
    /\ IF current # 0
       THEN /\ closed' = Discarded(current)
            /\ phase' = [phase EXCEPT ![n] = "closing"]
            /\ UNCHANGED status
       ELSE /\ phase' = [phase EXCEPT ![n] = "askpass"]
            /\ status' = <<IF v THEN "reconnecting" ELSE "connecting", h>>
            /\ UNCHANGED closed
    /\ pc' = [pc EXCEPT ![c] = "awaiting"]
    /\ want' = [want EXCEPT ![c] = h] /\ on' = [on EXCEPT ![c] = n]
    /\ UNCHANGED <<child, broken, got>>

Wait(c, h, how) == /\ pc' = [pc EXCEPT ![c] = how]
                   /\ want' = [want EXCEPT ![c] = h]
                   /\ on' = [on EXCEPT ![c] = connecting]
                   /\ UNCHANGED <<attempt, current, connecting, status, got>>

\* Slip: whichever attempt is in flight is shared.
Join_AnyHost(c, h, v) == \/ connecting # 0 /\ Wait(c, h, "awaiting")
                         \/ connecting = 0 /\ Establish(c, h, v)

\* Slip: every call makes an attempt of its own.
Join_NotShared(c, h, v) == Establish(c, h, v)

\* The loop of connect(): share an attempt for the same host, let one for another host
\* finish first, or make one.
Join(c, h, v) ==
  \/ HostOf(connecting) = h /\ Wait(c, h, "awaiting")
  \/ connecting # 0 /\ host[connecting] # h /\ Wait(c, h, "queued")
  \/ connecting = 0 /\ Establish(c, h, v)

\* connect() after its first lines: the present session will do, or join.
Enter(c, h, v) ==
  \/ /\ HostOf(Session) = h
     /\ pc' = [pc EXCEPT ![c] = "done"]
     /\ want' = [want EXCEPT ![c] = h]
     /\ got' = [got EXCEPT ![c] = Session]
     /\ UNCHANGED <<attempt, current, connecting, status, on>>
  \/ HostOf(Session) # h /\ Join(c, h, v)

\* connect() called by the user or on demand: this cancels a reconnect cycle.
Call(c, h) ==
  /\ Quiet /\ Room /\ ~disposed /\ pc[c] = "idle"
  /\ sched' = Stopped /\ auto' = TRUE
  /\ Enter(c, h, FALSE)
  /\ UNCHANGED <<disposed, parting, run>>

\* The user clicks on h.
Connect(c, h) == Call(c, h)

\* require() without a session: connect to the host that is shown.
Require(c) ==
  /\ Session = 0 /\ auto /\ status[2] # None
  /\ Call(c, status[2])

\* A caller that let another attempt finish goes round the loop again.
Requeue(c) ==
  /\ c \in Queued /\ Settled(on[c])
  /\ Join(c, want[c], c \in Retries)
  /\ UNCHANGED <<auto, disposed, parting, sched, run>>

-----------------------------------------------------------------------------
Progress(n, from, to) == /\ Quiet /\ phase[n] = from
                         /\ phase' = [phase EXCEPT ![n] = to]

\* The old session is gone, or its grace is over: now the askpass server.
Disposed(n) ==
  /\ Progress(n, "closing", "askpass")
  /\ status' = <<IF via[n] THEN "reconnecting" ELSE "connecting", host[n]>>
  /\ UNCHANGED <<made, host, via, child, closed, broken, prev, current, connecting, auto,
                 disposed, parting, sched, callers>>

\* The askpass server listens: spawn ssh.
Spawned(n) ==
  /\ Progress(n, "askpass", "connecting")
  /\ child' = [child EXCEPT ![n] = "running"]
  /\ UNCHANGED <<made, host, via, closed, broken, prev, manager, sched, callers>>

\* Slip: nobody is told.
Established_Untold(n) ==
  /\ Progress(n, "connecting", "stopping") /\ child[n] = "running"
  /\ current' = n
  /\ UNCHANGED <<made, host, via, child, closed, broken, prev, connecting, auto, status,
                 disposed, parting, sched, callers>>

\* The handshake and realpath succeed: this is the session now.
Established(n) ==
  /\ Progress(n, "connecting", "stopping") /\ child[n] = "running"
  /\ current' = n
  /\ status' = <<"connected", host[n]>>
  /\ UNCHANGED <<made, host, via, child, closed, broken, prev, connecting, auto,
                 disposed, parting, sched, callers>>

\* They fail, because the child is gone or for another reason; nobody disposes of the
\* transport.
Refused(n) ==
  /\ Progress(n, "connecting", "failing")
  /\ status' = <<"failed", host[n]>>
  /\ UNCHANGED <<made, host, via, child, closed, broken, prev, current, connecting, auto,
                 disposed, parting, sched, callers>>

\* Slip: a failed attempt stays in #connecting.
Cleared_OnSuccess(n) == IF phase'[n] = "returned" /\ connecting = n THEN 0 ELSE connecting

\* The finally of the connect() that made the attempt.
Cleared(n) == IF connecting = n THEN 0 ELSE connecting

\* The promise of an attempt settles, and with it every connect() that awaits it.
Settle(n) ==
  /\ Quiet
  /\ \/ phase[n] = "stopping" /\ phase' = [phase EXCEPT ![n] = "returned"]
     \/ phase[n] = "failing" /\ phase' = [phase EXCEPT ![n] = "threw"]
     \/ AskpassFails /\ phase[n] = "askpass" /\ phase' = [phase EXCEPT ![n] = "threw"]
  /\ connecting' = Cleared(n)
  /\ pc' = [c \in Callers |-> IF pc[c] = "awaiting" /\ on[c] = n THEN "done" ELSE pc[c]]
  /\ got' = [c \in Callers |-> IF pc[c] = "awaiting" /\ on[c] = n /\ phase[n] = "stopping"
                               THEN n ELSE got[c]]
  /\ UNCHANGED <<made, host, via, child, closed, broken, prev, current, auto, disposed,
                 status, parting, sched, want, on, run>>

-----------------------------------------------------------------------------
\* Slip: the loss of a session is only told when it will be retried.
UnexpectedClose_Silent(n) ==
  /\ closed' = [closed EXCEPT ![n] = TRUE]
  /\ IF disposed THEN UNCHANGED <<current, status, sched>>
     ELSE /\ current' = 0
          /\ IF auto THEN status' = <<"reconnecting", host[n]>> ELSE UNCHANGED status
          /\ sched' = IF auto THEN Started(host[n]) ELSE sched

\* #handleUnexpectedClose, called when a session closes that nobody disposed of.
UnexpectedClose(n) ==
  /\ closed' = [closed EXCEPT ![n] = TRUE]
  /\ IF disposed THEN UNCHANGED <<current, status, sched>>
     ELSE /\ current' = 0
          /\ status' = <<IF auto THEN "reconnecting" ELSE "failed", host[n]>>
          /\ sched' = IF auto THEN Started(host[n]) ELSE sched

\* Slip: the close of a session that was disposed of is reported as well.
Exit_Reported(n) ==
  /\ Quiet /\ child[n] = "running"
  /\ phase[n] = "stopping" => EarlyDrops
  /\ child' = [child EXCEPT ![n] = "exited"]
  /\ \/ phase[n] \in {"stopping", "returned"} /\ UnexpectedClose(n)
     \/ /\ phase[n] \notin {"stopping", "returned"}
        /\ UNCHANGED <<closed, current, status, sched>>
  /\ UNCHANGED <<made, host, via, phase, broken, prev, connecting, auto, disposed,
                 parting, callers>>

\* An ssh process exits: RemoteSession.#handleClose tells the manager, unless the
\* session is closed already or the manager has never had it.
Exit(n) ==
  /\ Quiet /\ child[n] = "running"
  /\ phase[n] = "stopping" => EarlyDrops
  /\ child' = [child EXCEPT ![n] = "exited"]
  /\ \/ phase[n] \in {"stopping", "returned"} /\ ~closed[n] /\ UnexpectedClose(n)
     \/ /\ phase[n] \notin {"stopping", "returned"} \/ closed[n]
        /\ UNCHANGED <<closed, current, status, sched>>
  /\ UNCHANGED <<made, host, via, phase, broken, prev, connecting, auto, disposed,
                 parting, callers>>

\* The client of the session sees a frame it cannot decode: it closes itself, and
\* nobody is told.
Break(n) == /\ Breaks /\ Quiet /\ n = current /\ ~closed[n] /\ ~broken[n]
            /\ broken' = [broken EXCEPT ![n] = TRUE]
            /\ UNCHANGED <<made, host, via, phase, child, closed, prev, manager, sched,
                           callers>>

\* disconnect(), and its end once the child is gone or its grace is over.
Disconnect ==
  /\ Disconnects /\ Quiet /\ ~disposed /\ sched.gen < MaxGen
  /\ sched' = Stopped /\ auto' = FALSE
  /\ current' = 0
  /\ IF current = 0
     THEN status' = <<"disconnected", None>> /\ UNCHANGED <<closed, parting>>
     ELSE /\ status' = <<"disconnecting", host[current]>>
          /\ closed' = Discarded(current)
          /\ parting' = parting \cup {current}
  /\ UNCHANGED <<made, host, via, phase, child, broken, prev, connecting, disposed, callers>>

Disconnected(n) ==
  /\ Quiet /\ n \in parting
  /\ parting' = parting \ {n}
  /\ status' = <<"disconnected", None>>
  /\ UNCHANGED <<attempt, current, connecting, auto, disposed, sched, callers>>

\* dispose(), when the extension is deactivated.
Dispose ==
  /\ Disposes /\ Quiet /\ ~disposed
  /\ disposed' = TRUE
  /\ sched' = Stopped
  /\ closed' = IF current = 0 THEN closed ELSE Discarded(current)
  /\ current' = 0
  /\ UNCHANGED <<made, host, via, phase, child, broken, prev, connecting, auto, status,
                 parting, callers>>

-----------------------------------------------------------------------------
\* The timer of the scheduler fires: #run calls connect().
Retry(r) ==
  /\ Quiet /\ Room /\ pc[r] = "idle" /\ sched.timer # NoRun
  /\ run' = [run EXCEPT ![r] = sched.timer]
  /\ sched' = [sched EXCEPT !.timer = NoRun]
  /\ Enter(r, sched.timer.host, TRUE)
  /\ UNCHANGED <<auto, disposed, parting>>

Succeeded(r) == /\ got[r] # 0
                /\ sched' = [sched EXCEPT !.running = FALSE]
                /\ UNCHANGED status
TryAgain(r) == /\ got[r] = 0 /\ run[r].try < MaxTries
               /\ sched' = [sched EXCEPT !.timer = [run[r] EXCEPT !.try = @ + 1]]
               /\ UNCHANGED status
GiveUp(r) == /\ got[r] = 0 /\ run[r].try >= MaxTries
             /\ sched' = [sched EXCEPT !.running = FALSE]
             /\ status' = <<"failed", run[r].host>>

\* Slips: a run that was stopped still counts; the cycle does not end with its success;
\* one try too many.
Settles_AnyGeneration(r) == Succeeded(r) \/ TryAgain(r) \/ GiveUp(r)

Settles_KeepsRunning(r) ==
  \/ (run[r].gen # sched.gen \/ got[r] # 0) /\ UNCHANGED <<sched, status>>
  \/ run[r].gen = sched.gen /\ (TryAgain(r) \/ GiveUp(r))

\* A stop() meanwhile makes the result of a run irrelevant.
Settles(r) ==
  \/ run[r].gen # sched.gen /\ UNCHANGED <<sched, status>>
  \/ run[r].gen = sched.gen /\ (Succeeded(r) \/ TryAgain(r) \/ GiveUp(r))

\* The connect() of a run has settled: done, or schedule the next try, or give up.
Retried(r) ==
  /\ pc[r] = "done"
  /\ Settles(r)
  /\ pc' = [pc EXCEPT ![r] = "idle"] /\ got' = [got EXCEPT ![r] = 0]
  /\ run' = [run EXCEPT ![r] = NoRun]
  /\ UNCHANGED <<attempt, current, connecting, auto, disposed, parting, want, on>>

Next == \/ \E c \in Clicks : Require(c) \/ \E h \in Hosts : Connect(c, h)
        \/ \E c \in Callers : Requeue(c)
        \/ \E n \in 1..made : \/ Disposed(n) \/ Spawned(n) \/ Established(n) \/ Refused(n)
                              \/ Settle(n) \/ Exit(n) \/ Break(n) \/ Disconnected(n)
        \/ \E r \in Retries : Retry(r) \/ Retried(r)
        \/ Disconnect \/ Dispose

Spec == Init /\ [][Next]_vars

\* Continuations run; dispose() is over after its grace; the askpass server starts and
\* stops; and a handshake ends, by its timeout if by nothing else.
Fairness == /\ \A c \in Callers : WF_vars(Requeue(c))
            /\ \A r \in Retries : WF_vars(Retried(r))
            /\ \A n \in Attempts : /\ WF_vars(n <= made /\ (Disposed(n) \/ Spawned(n)))
                                   /\ WF_vars(n <= made /\ (Established(n) \/ Refused(n)))
                                   /\ WF_vars(n <= made /\ Settle(n))
FairSpec == Spec /\ Fairness

-----------------------------------------------------------------------------
Statuses == {"disconnected", "connecting", "connected", "reconnecting", "disconnecting",
             "failed"}
Runs == [try : 0..MaxTries, gen : Nat, host : Hosts \cup {None}]

\* Every variable has its type; a cycle never makes more than #maxAttempts tries. (An aid
\* when the model is changed: no run lists it.)
TypeOK ==
  /\ made \in 0..MaxMade /\ current \in 0..made /\ connecting \in 0..made
  /\ host \in [Attempts -> Hosts \cup {None}] /\ via \in [Attempts -> BOOLEAN]
  /\ phase \in [Attempts -> {"none", "returned", "threw"} \cup InProgress]
  /\ child \in [Attempts -> {"none", "running", "exited"}]
  /\ closed \in [Attempts -> BOOLEAN] /\ broken \in [Attempts -> BOOLEAN]
  /\ prev \in [Attempts -> 0..MaxMade]
  /\ auto \in BOOLEAN /\ disposed \in BOOLEAN
  /\ status \in Statuses \X (Hosts \cup {None})
  /\ parting \subseteq 1..made
  /\ sched \in [running : BOOLEAN, gen : Nat, timer : Runs]
  /\ pc \in [Callers -> {"idle", "queued", "awaiting", "done"}]
  /\ want \in [Callers -> Hosts \cup {None}]
  /\ on \in [Callers -> 0..made] /\ got \in [Callers -> 0..made]
  /\ run \in [Retries -> Runs]

\* "clicking host A and then host B handed B's caller a session for A": a caller gets a
\* session for the host it asked for. (ImplementsSharing says so too: no run lists it.)
GotWhatAsked == \A c \in Callers : got[c] # 0 => host[got[c]] = want[c]

\* "repeated clicks during a slow authentication ... must not each spawn an ssh
\* process": one attempt is in progress at a time, whoever asks and however often.
OneAttempt == Cardinality({n \in Attempts : phase[n] \in InProgress}) <= 1

\* "Only one session exists at a time": an ssh process that nobody is getting rid of
\* belongs to the session or to the attempt in progress, or its attempt failed.
Accounted(n) == n = current \/ closed[n] \/ phase[n] \in InProgress
ChildAccounted ==
  \A n \in Attempts : child[n] = "running" => Accounted(n) \/ phase[n] = "threw"

\* The same, without the exception for failed attempts. No run checks this; it is false.
NoStrayChild == \A n \in Attempts : child[n] = "running" => Accounted(n)

\* The exit of one ssh process changes neither the session nor the status of another.
CloseIsPrivate ==
  [][\A n \in Attempts : child[n] = "running" /\ child'[n] = "exited" /\ current # n =>
        current' = current /\ status' = status]_vars

\* "True when file operations may be attempted": the status says connected only while
\* there is a session for that host, or while the old one is being disposed of; or its
\* client has died of a protocol error, of which nobody hears.
ConnectedIsUsable ==
  status[1] = "connected" => \/ current # 0 /\ ~closed[current] /\ host[current] = status[2]
                             \/ \E n \in Attempts : phase[n] = "closing"
                             \/ disposed

\* ... and it says so whenever there is one, unless a disconnect() has ended late.
LiveIsShown == Session # 0 => status \in {<<"connected", host[Session]>>, <<"disconnected", None>>}

\* "reconnecting: lost the connection and trying again": a try is scheduled or under way,
\* unless the askpass server did not start, of which nobody is told.
ReconnectingIsTrying ==
  status[1] = "reconnecting" => \/ disposed
                                \/ \E n \in Attempts : phase[n] = "threw" /\ child[n] = "none"
                                \/ sched.timer # NoRun
                                \/ \E n \in Attempts : phase[n] \in InProgress
                                \/ \E r \in Retries : pc[r] # "idle"

\* The status bar tells the truth: what it calls connected can be used, what is there is
\* called connected, and what it calls reconnecting is being tried.
StatusIsTrue == ConnectedIsUsable /\ LiveIsShown /\ ReconnectingIsTrying

\* "Cancel any pending retry and ignore the result of one already in flight"; "not a
\* second cycle": at most one run or timer is of the present cycle, and no timer of any
\* other.
Live == {r \in Retries : run[r] # NoRun /\ run[r].gen = sched.gen}
OneRetryCycle ==
  /\ Cardinality(Live) + (IF sched.timer = NoRun THEN 0 ELSE 1) <= 1
  /\ sched.timer # NoRun => sched.running /\ sched.timer.gen = sched.gen

\* Every connect() returns or throws.
EveryCallSettles ==
  \A c \in Callers : (pc[c] \in {"queued", "awaiting"}) ~> (pc[c] \in {"done", "idle"})

\* "or the UI would announce a connection the user already cancelled": after disconnect()
\* nothing connects until the user asks again. No run lists it, and it is false: an attempt
\* under way is not told.
CancelledStaysCancelled ==
  [][status'[1] = "connected" /\ status # status' => auto]_vars

\* What a caller of connect() has heard.
Heard(c) == CASE pc[c] = "idle" -> "idle"
              [] pc[c] \in {"queued", "awaiting"} -> "waiting"
              [] pc[c] = "done" -> IF got[c] # 0 THEN "answered" ELSE "refused"

\* The manager implements one connection that its callers share: "concurrent callers for the
\* same host share one attempt".
Shared == INSTANCE SharedConnection WITH
  session <- HostOf(Session), attempt <- HostOf(connecting),
  came <- connecting # 0 /\ phase[connecting] = "stopping",
  stage <- [c \in Callers |-> Heard(c)], got <- [c \in Callers |-> HostOf(got[c])]
ImplementsSharing == Shared!Spec
=============================================================================
