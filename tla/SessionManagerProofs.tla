------------------------ MODULE SessionManagerProofs ------------------------
(***************************************************************************)
(* One attempt at a time, the session that was asked for, no ssh process    *)
(* without an owner, one cycle of retries and a status that tells the truth: *)
(* for any number of hosts, callers, retries and attempts.                 *)
(***************************************************************************)
EXTENDS SessionManager, TLAPS, FiniteSetTheorems

-----------------------------------------------------------------------------
(* The invariant.                                                          *)

\* The attempts that are made, and those that are still to come, are within the bound.
Roomy == made + Cardinality(Queued) <= MaxMade

\* The attempt in progress is the one in #connecting.
Single == \A n \in Attempts : phase[n] \in InProgress => connecting = n

\* Until an attempt has a session the manager has none.
Early == {"closing", "askpass", "connecting"}
Vacant == \A n \in Attempts : phase[n] \in Early => current = 0

\* A running ssh process belongs to an attempt, and once that has made a session nobody has
\* disposed of, the session is the manager's.
Owned(n) == child[n] = "running" =>
              /\ phase[n] \in InProgress \cup {"returned", "threw"}
              /\ phase[n] \in {"stopping", "returned"} /\ ~closed[n] => n = current

\* What a caller awaits, or has got, is of the host it asked for.
Served(c) == /\ pc[c] # "done" => got[c] = 0
             /\ pc[c] = "awaiting" => HostOf(on[c]) = want[c]
             /\ got[c] # 0 => host[got[c]] = want[c]

\* A run of the present generation is the only one; it, or the timer, is what the cycle waits for.
Cycle == /\ sched.timer # NoRun => sched.running /\ sched.timer.gen = sched.gen
         /\ \A r \in Retries : /\ run[r].gen <= sched.gen
                               /\ pc[r] # "idle" => run[r] # NoRun
         /\ \A r \in Live : sched.running /\ sched.timer = NoRun /\ \A q \in Live : q = r

Owning == Single /\ Vacant /\ \A n \in Attempts : Owned(n)
Serving == \A c \in Callers : Served(c)
IInv == TypeOK /\ Roomy /\ Owning /\ Serving /\ Cycle

-----------------------------------------------------------------------------
(* The types.                                                              *)

\* The part of the state that connect() may change, well typed.
Connections ==
  /\ made \in 0..MaxMade /\ current \in 0..made /\ connecting \in 0..made
  /\ host \in [Attempts -> Hosts \cup {None}] /\ via \in [Attempts -> BOOLEAN]
  /\ phase \in [Attempts -> {"none", "returned", "threw"} \cup InProgress]
  /\ child \in [Attempts -> {"none", "running", "exited"}]
  /\ closed \in [Attempts -> BOOLEAN] /\ broken \in [Attempts -> BOOLEAN]
  /\ prev \in [Attempts -> 0..MaxMade]
  /\ status \in Statuses \X (Hosts \cup {None})
  /\ pc \in [Callers -> {"idle", "queued", "awaiting", "done"}]
  /\ want \in [Callers -> Hosts \cup {None}]
  /\ on \in [Callers -> 0..made] /\ got \in [Callers -> 0..made]

\* The rest.
Rest ==
  /\ auto \in BOOLEAN /\ disposed \in BOOLEAN
  /\ parting \subseteq 1..made
  /\ sched \in [running : BOOLEAN, gen : Nat, timer : Runs]
  /\ run \in [Retries -> Runs]

\* The getter returns the session of an attempt made, or none.
LEMMA SessionMade == TypeOK => Session \in 0..made /\ (Session # 0 => Session = current)
BY DEF TypeOK, Session

\* While there is room the next attempt is one of those.
LEMMA NextAttempt ==
  ASSUME TypeOK, Roomy, Room \/ Queued # {}
  PROVE  made + 1 \in Attempts /\ IsFiniteSet(Queued) /\ Cardinality(Queued) \in Nat
<1>1. IsFiniteSet(Callers)
  BY ManagerAssumption, FS_Union DEF Callers
<1>2. IsFiniteSet(Queued) /\ Cardinality(Queued) \in Nat
  <2>1. Queued \subseteq Callers
    BY DEF Queued
  <2> QED BY <1>1, <2>1, FS_Subset, FS_CardinalityType
<1>3. Queued # {} => Cardinality(Queued) # 0
  BY <1>2, FS_EmptySet
<1>4. made \in Nat /\ MaxMade \in Nat
  BY ManagerAssumption DEF TypeOK
<1> QED BY <1>2, <1>3, <1>4 DEF Room, Roomy, Attempts

\* What connect() changes once the present session will not do.
LEMMA TypedEstablish ==
  ASSUME TypeOK, made + 1 \in Attempts, NEW c \in Callers, NEW h \in Hosts \cup {None},
         NEW v \in BOOLEAN, Establish(c, h, v)
  PROVE  Connections' /\ made' >= made
<1>1. made \in Nat /\ MaxMade \in Nat /\ made' = made + 1 /\ made' \in 0..MaxMade
  BY ManagerAssumption DEF TypeOK, Establish, Attempts
<1>2. current' = 0 /\ connecting' \in 0..made' /\ child' = child /\ broken' = broken /\ got' = got
  BY <1>1 DEF Establish
<1>3. /\ host' \in [Attempts -> Hosts \cup {None}] /\ via' \in [Attempts -> BOOLEAN]
      /\ prev' \in [Attempts -> 0..MaxMade]
  <2>1. current \in 0..MaxMade
    BY <1>1 DEF TypeOK
  <2> QED BY <2>1 DEF TypeOK, Establish
<1>4. phase' \in [Attempts -> {"none", "returned", "threw"} \cup InProgress]
  BY DEF TypeOK, Establish, InProgress
<1>5. closed' \in [Attempts -> BOOLEAN]
  BY DEF TypeOK, Establish, Discarded
<1>6. status' \in Statuses \X (Hosts \cup {None})
  BY DEF TypeOK, Establish, Statuses
<1>7. /\ pc' \in [Callers -> {"idle", "queued", "awaiting", "done"}]
      /\ want' \in [Callers -> Hosts \cup {None}]
  BY DEF TypeOK, Establish
<1>8. on' \in [Callers -> 0..made'] /\ got \in [Callers -> 0..made']
  <2> DEFINE m == made'
  <2>1. 0..made \subseteq 0..m /\ made + 1 \in 0..m
    BY <1>1
  <2>2. on \in [Callers -> 0..m] /\ got \in [Callers -> 0..m]
    BY <2>1 DEF TypeOK
  <2> HIDE DEF m
  <2>3. on' = [on EXCEPT ![c] = made + 1]
    BY DEF Establish
  <2>4. on' \in [Callers -> 0..m]
    BY <2>1, <2>2, <2>3
  <2> QED BY <1>2, <2>2, <2>4 DEF m
<1>9. /\ child' \in [Attempts -> {"none", "running", "exited"}] /\ broken' \in [Attempts -> BOOLEAN]
      /\ current' \in 0..made' /\ made' >= made
  BY <1>1, <1>2 DEF TypeOK
<1> QED BY <1>1, <1>2, <1>3, <1>4, <1>5, <1>6, <1>7, <1>8, <1>9 DEF Connections

\* A call joins an attempt, waits for one, or makes one.
LEMMA TypedJoin ==
  ASSUME TypeOK, made + 1 \in Attempts, NEW c \in Callers, NEW h \in Hosts \cup {None},
         NEW v \in BOOLEAN, Join(c, h, v)
  PROVE  Connections' /\ made' >= made
<1>1. ASSUME NEW how \in {"awaiting", "queued"}, Wait(c, h, how)
      PROVE  Connections' /\ made' >= made
  <2>1. /\ UNCHANGED <<made, host, via, phase, child, closed, broken, prev>>
        /\ UNCHANGED <<current, connecting, status, got>>
    BY <1>1 DEF Wait, attempt
  <2>2. /\ pc' \in [Callers -> {"idle", "queued", "awaiting", "done"}]
        /\ want' \in [Callers -> Hosts \cup {None}]
        /\ on' \in [Callers -> 0..made]
    BY <1>1 DEF Wait, TypeOK
  <2>3. made \in Nat
    BY DEF TypeOK
  <2> QED BY <2>1, <2>2, <2>3 DEF TypeOK, Connections
<1>2. CASE Establish(c, h, v)
  BY <1>2, TypedEstablish
<1> QED BY <1>1, <1>2 DEF Join

\* The whole of connect().
LEMMA TypedEnter ==
  ASSUME TypeOK, made + 1 \in Attempts, NEW c \in Callers, NEW h \in Hosts \cup {None},
         NEW v \in BOOLEAN, Enter(c, h, v)
  PROVE  Connections' /\ made' >= made
<1>1. CASE Join(c, h, v)
  BY <1>1, TypedJoin
<1>2. CASE /\ pc' = [pc EXCEPT ![c] = "done"]
           /\ want' = [want EXCEPT ![c] = h]
           /\ got' = [got EXCEPT ![c] = Session]
           /\ UNCHANGED <<attempt, current, connecting, status, on>>
  <2>1. /\ UNCHANGED <<made, host, via, phase, child, closed, broken, prev>>
        /\ UNCHANGED <<current, connecting, status, on>>
    BY <1>2 DEF attempt
  <2>2. got' \in [Callers -> 0..made]
    BY <1>2, SessionMade DEF TypeOK
  <2>3. /\ pc' \in [Callers -> {"idle", "queued", "awaiting", "done"}]
        /\ want' \in [Callers -> Hosts \cup {None}]
    BY <1>2 DEF TypeOK
  <2>4. made \in Nat
    BY DEF TypeOK
  <2> QED BY <2>1, <2>2, <2>3, <2>4 DEF TypeOK, Connections
<1> QED BY <1>1, <1>2 DEF Enter

\* The bounds leave room for the records.
LEMMA RunsTyped ==
  /\ NoRun \in Runs
  /\ \A h \in Hosts \cup {None}, g \in Nat : [try |-> 1, gen |-> g, host |-> h] \in Runs
  /\ \A x \in Runs : x.try < MaxTries => [x EXCEPT !.try = @ + 1] \in Runs
BY ManagerAssumption DEF Runs, NoRun

\* The schedules.
LEMMA SchedTyped ==
  ASSUME TypeOK
  PROVE  /\ Stopped \in [running : BOOLEAN, gen : Nat, timer : Runs]
         /\ \A h \in Hosts \cup {None} : Started(h) \in [running : BOOLEAN, gen : Nat, timer : Runs]
BY RunsTyped DEF TypeOK, Stopped, Started

\* What changes nothing but one of the attempts, the session and the status.
LEMMA TypedProgress ==
  ASSUME TypeOK, NEW n \in 1..made,
         Disposed(n) \/ Spawned(n) \/ Established(n) \/ Refused(n)
  PROVE  TypeOK'
<1>1. /\ UNCHANGED <<made, host, via, closed, broken, prev, connecting, auto, disposed, parting, sched>>
      /\ UNCHANGED <<pc, want, on, got, run>>
  BY DEF Disposed, Spawned, Established, Refused, manager, callers
<1>2. n \in Attempts /\ made \in Nat
  BY ManagerAssumption DEF TypeOK, Attempts
<1>3. phase' \in [Attempts -> {"none", "returned", "threw"} \cup InProgress]
  BY DEF TypeOK, Disposed, Spawned, Established, Refused, Progress, InProgress
<1>4. child' \in [Attempts -> {"none", "running", "exited"}]
  BY DEF TypeOK, Disposed, Spawned, Established, Refused
<1>5. current' \in 0..made
  BY <1>2 DEF TypeOK, Disposed, Spawned, Established, Refused, manager
<1>6. status' \in Statuses \X (Hosts \cup {None})
  BY <1>2 DEF TypeOK, Disposed, Spawned, Established, Refused, manager, Statuses
<1> QED BY <1>1, <1>3, <1>4, <1>5, <1>6 DEF TypeOK

\* An attempt settles, and the calls that await it.
LEMMA TypedSettle ==
  ASSUME TypeOK, NEW n \in 1..made, Settle(n)
  PROVE  TypeOK'
<1>1. UNCHANGED <<made, host, via, child, closed, broken, prev, current, auto, disposed, status,
                  parting, sched, want, on, run>>
  BY DEF Settle
<1>2. phase' \in [Attempts -> {"none", "returned", "threw"} \cup InProgress]
  BY DEF TypeOK, Settle
<1>3. connecting' \in 0..made
  BY DEF TypeOK, Settle, Cleared
<1>4. pc' \in [Callers -> {"idle", "queued", "awaiting", "done"}]
  BY DEF TypeOK, Settle
<1>5. got' \in [Callers -> 0..made]
  BY DEF TypeOK, Settle
<1> QED BY <1>1, <1>2, <1>3, <1>4, <1>5 DEF TypeOK

\* An ssh process exits, or a client breaks.
LEMMA TypedExit ==
  ASSUME TypeOK, NEW n \in 1..made, Exit(n) \/ Break(n)
  PROVE  TypeOK'
<1>1. /\ UNCHANGED <<made, host, via, phase, prev, connecting, auto, disposed, parting>>
      /\ UNCHANGED <<pc, want, on, got, run>>
  BY DEF Exit, Break, manager, callers
<1>2. n \in Attempts /\ made \in Nat
  BY ManagerAssumption DEF TypeOK, Attempts
<1>3. CASE Break(n)
  <2>1. UNCHANGED <<child, closed, current, status, sched>>
    BY <1>3 DEF Break, manager
  <2>2. broken' \in [Attempts -> BOOLEAN]
    BY <1>3 DEF Break, TypeOK
  <2> QED BY <1>1, <2>1, <2>2 DEF TypeOK
<1>4. CASE Exit(n)
  <2>1. broken' = broken /\ child' \in [Attempts -> {"none", "running", "exited"}]
    BY <1>4 DEF Exit, TypeOK
  <2>2. CASE UnexpectedClose(n)
    <3>1. closed' \in [Attempts -> BOOLEAN]
      BY <2>2 DEF UnexpectedClose, TypeOK
    <3>2. current' \in 0..made
      BY <1>2, <2>2 DEF UnexpectedClose, TypeOK
    <3>3. status' \in Statuses \X (Hosts \cup {None})
      BY <1>2, <2>2 DEF UnexpectedClose, TypeOK, Statuses
    <3>4. sched' \in [running : BOOLEAN, gen : Nat, timer : Runs]
      <4>1. host[n] \in Hosts \cup {None}
        BY <1>2 DEF TypeOK
      <4>2. Started(host[n]) \in [running : BOOLEAN, gen : Nat, timer : Runs]
        BY <4>1, SchedTyped
      <4>3. sched \in [running : BOOLEAN, gen : Nat, timer : Runs]
        BY DEF TypeOK
      <4> QED BY <2>2, <4>2, <4>3 DEF UnexpectedClose
    <3> QED BY <1>1, <2>1, <3>1, <3>2, <3>3, <3>4 DEF TypeOK
  <2>3. CASE UNCHANGED <<closed, current, status, sched>>
    BY <1>1, <2>1, <2>3 DEF TypeOK
  <2> QED BY <1>4, <2>2, <2>3 DEF Exit
<1> QED BY <1>3, <1>4

\* The user disconnects, or the extension is deactivated.
LEMMA TypedLeave ==
  ASSUME TypeOK, Disconnect \/ Dispose \/ \E n \in 1..made : Disconnected(n)
  PROVE  TypeOK'
<1>1. UNCHANGED <<made, host, via, phase, child, broken, prev, connecting, pc, want, on, got, run>>
  BY DEF Disconnect, Dispose, Disconnected, attempt, callers
<1>2. made \in Nat /\ current \in 0..made
  BY DEF TypeOK
<1>3. sched' \in [running : BOOLEAN, gen : Nat, timer : Runs]
  BY SchedTyped DEF TypeOK, Disconnect, Dispose, Disconnected
<1>4. /\ current' \in 0..made
      /\ auto' \in BOOLEAN /\ disposed' \in BOOLEAN
  <2>1. auto \in BOOLEAN /\ disposed \in BOOLEAN
    BY DEF TypeOK
  <2>2. current' \in {0, current}
    BY DEF Disconnect, Dispose, Disconnected
  <2>3. auto' \in {FALSE, auto}
    BY DEF Disconnect, Dispose, Disconnected
  <2>4. disposed' \in {TRUE, disposed}
    BY DEF Disconnect, Dispose, Disconnected
  <2>5. current' \in 0..made
    BY <1>2, <2>2
  <2>6. auto' \in BOOLEAN
    BY <2>1, <2>3
  <2>7. disposed' \in BOOLEAN
    BY <2>1, <2>4
  <2> QED BY <2>5, <2>6, <2>7
<1>5. closed' \in [Attempts -> BOOLEAN]
  BY DEF TypeOK, Disconnect, Dispose, Disconnected, attempt, Discarded
<1>6. parting' \subseteq 1..made
  <2>1. parting \subseteq 1..made
    BY DEF TypeOK
  <2>2. \A n \in parting' : n \in parting \/ (n = current /\ current # 0)
    BY DEF Disconnect, Dispose, Disconnected
  <2>3. current # 0 => current \in 1..made
    BY <1>2
  <2> QED BY <2>1, <2>2, <2>3
<1>7. status' \in Statuses \X (Hosts \cup {None})
  <2>1. CASE Disconnect
    <3>1. CASE current = 0
      BY <2>1, <3>1 DEF Disconnect, Statuses
    <3>2. CASE current # 0
      <4>1. host[current] \in Hosts \cup {None}
        BY <1>2, <3>2, ManagerAssumption DEF TypeOK, Attempts
      <4> QED BY <2>1, <3>2, <4>1 DEF Disconnect, Statuses
    <3> QED BY <3>1, <3>2
  <2>2. CASE Dispose
    BY <2>2 DEF Dispose, TypeOK
  <2>3. CASE \E n \in 1..made : Disconnected(n)
    BY <2>3 DEF Disconnected, Statuses
  <2> QED BY <2>1, <2>2, <2>3
<1> QED BY <1>1, <1>3, <1>4, <1>5, <1>6, <1>7 DEF TypeOK

\* A call of connect(), the first lines of it included, or a caller that goes round again.
LEMMA TypedCall ==
  ASSUME TypeOK, Roomy,
         \/ \E c \in Clicks : Require(c) \/ \E h \in Hosts : Connect(c, h)
         \/ \E c \in Callers : Requeue(c)
         \/ \E r \in Retries : Retry(r)
  PROVE  TypeOK'
<1>1. made \in Nat /\ status[2] \in Hosts \cup {None}
  BY DEF TypeOK
<1>2. ASSUME NEW c \in Clicks, NEW h \in Hosts \cup {None}, Call(c, h)
      PROVE  TypeOK'
  <2>1. made + 1 \in Attempts /\ c \in Callers
    BY <1>2, NextAttempt DEF Call, Callers
  <2>2. Connections' /\ made' >= made
    BY <1>2, <2>1, TypedEnter DEF Call
  <2>3. parting' \subseteq 1..made'
    <3>1. made' \in Int
      BY <2>2 DEF Connections
    <3> QED BY <1>1, <1>2, <2>2, <3>1 DEF Call, TypeOK
  <2>4. Rest'
    BY <1>2, <2>3, SchedTyped DEF Call, TypeOK, Rest
  <2> QED BY <2>2, <2>4 DEF TypeOK, Connections, Rest
<1>3. ASSUME NEW c \in Callers, Requeue(c)
      PROVE  TypeOK'
  <2>1. made + 1 \in Attempts
    BY <1>3, NextAttempt DEF Requeue
  <2>2. want[c] \in Hosts \cup {None} /\ (c \in Retries) \in BOOLEAN
    BY DEF TypeOK
  <2>3. Connections' /\ made' >= made
    BY <1>3, <2>1, <2>2, TypedJoin DEF Requeue
  <2>4. parting' \subseteq 1..made'
    <3>1. made' \in Int
      BY <2>3 DEF Connections
    <3> QED BY <1>1, <1>3, <2>3, <3>1 DEF Requeue, TypeOK
  <2>5. Rest'
    BY <1>3, <2>4 DEF Requeue, TypeOK, Rest
  <2> QED BY <2>3, <2>5 DEF TypeOK, Connections, Rest
<1>4. ASSUME NEW r \in Retries, Retry(r)
      PROVE  TypeOK'
  <2>1. made + 1 \in Attempts /\ r \in Callers
    BY <1>4, NextAttempt DEF Retry, Callers
  <2>2. sched.timer \in Runs /\ sched.timer.host \in Hosts \cup {None}
    BY DEF TypeOK, Runs
  <2>3. Connections' /\ made' >= made
    BY <1>4, <2>1, <2>2, TypedEnter DEF Retry
  <2>4. parting' \subseteq 1..made'
    <3>1. made' \in Int
      BY <2>3 DEF Connections
    <3> QED BY <1>1, <1>4, <2>3, <3>1 DEF Retry, TypeOK
  <2>5. sched' \in [running : BOOLEAN, gen : Nat, timer : Runs] /\ run' \in [Retries -> Runs]
    BY <1>4, <2>2, RunsTyped DEF Retry, TypeOK
  <2>6. Rest'
    BY <1>4, <2>4, <2>5 DEF Retry, TypeOK, Rest
  <2> QED BY <2>3, <2>6 DEF TypeOK, Connections, Rest
<1> QED BY <1>1, <1>2, <1>3, <1>4 DEF Require, Connect

\* A retry has come to its end.
LEMMA TypedRetried ==
  ASSUME TypeOK, NEW r \in Retries, Retried(r)
  PROVE  TypeOK'
<1>1. /\ UNCHANGED <<made, host, via, phase, child, closed, broken, prev>>
      /\ UNCHANGED <<current, connecting, auto, disposed, parting, want, on>>
  BY DEF Retried, attempt
<1>2. /\ pc' \in [Callers -> {"idle", "queued", "awaiting", "done"}]
      /\ got' \in [Callers -> 0..made] /\ run' \in [Retries -> Runs]
  BY RunsTyped DEF Retried, TypeOK, Callers
<1>3. run[r] \in Runs /\ run[r].host \in Hosts \cup {None}
  BY DEF TypeOK, Runs
<1>4. sched' \in [running : BOOLEAN, gen : Nat, timer : Runs]
  <2>1. [run[r] EXCEPT !.try = @ + 1] \in Runs \/ ~(run[r].try < MaxTries)
    BY <1>3, RunsTyped
  <2> QED BY <2>1 DEF Retried, Settles, Succeeded, TryAgain, GiveUp, TypeOK
<1>5. status' \in Statuses \X (Hosts \cup {None})
  BY <1>3 DEF Retried, Settles, Succeeded, TryAgain, GiveUp, TypeOK, Statuses
<1> QED BY <1>1, <1>2, <1>4, <1>5 DEF TypeOK

\* Every step keeps the types.
LEMMA StepTyped == TypeOK /\ Roomy /\ Next => TypeOK'
BY TypedProgress, TypedSettle, TypedExit, TypedLeave, TypedCall, TypedRetried DEF Next

-----------------------------------------------------------------------------
(* The attempts, and what they own.                                        *)

\* What leaves the attempts and the session alone.
LEMMA OwningKept ==
  ASSUME Owning, UNCHANGED <<phase, child, closed, current, connecting>>
  PROVE  Owning'
BY DEF Owning, Single, Vacant, Owned

\* A new attempt is the only one in progress, and it disposes of the session there was.
LEMMA OwningEstablish ==
  ASSUME TypeOK, Owning, made + 1 \in Attempts, connecting = 0,
         NEW c, NEW h, NEW v, Establish(c, h, v)
  PROVE  Owning'
<1> DEFINE n == made + 1
<1>1. n \in Attempts /\ n \in Nat \ {0} /\ \A m \in Attempts : m # 0
  BY DEF TypeOK, Attempts
<1>2. /\ current' = 0 /\ connecting' = n /\ child' = child
      /\ closed' = IF current # 0 THEN [closed EXCEPT ![current] = TRUE] ELSE closed
      /\ phase' = [phase EXCEPT ![n] = IF current # 0 THEN "closing" ELSE "askpass"]
  BY DEF Establish, Discarded
<1>3. /\ phase'[n] \in {"closing", "askpass"}
      /\ \A m \in Attempts : m # n => phase'[m] = phase[m]
  BY <1>1, <1>2 DEF TypeOK
<1> HIDE DEF n
<1>4. \A m \in Attempts : closed[m] \/ m = current => closed'[m]
  BY <1>1, <1>2 DEF TypeOK
<1>5. \A m \in Attempts : phase[m] \notin InProgress
  BY <1>1 DEF Owning, Single
<1>6. Single'
  BY <1>2, <1>3, <1>5 DEF Single
<1>7. Vacant'
  BY <1>2 DEF Vacant
<1>8. \A m \in Attempts : Owned(m)'
  <2> SUFFICES ASSUME NEW m \in Attempts, child[m] = "running"
               PROVE  /\ phase'[m] \in InProgress \cup {"returned", "threw"}
                      /\ ~(phase'[m] \in {"stopping", "returned"} /\ ~closed'[m])
    BY <1>2 DEF Owned
  <2>1. CASE m = n
    BY <1>3, <2>1 DEF InProgress
  <2>2. CASE m # n
    BY <1>3, <1>4, <2>2 DEF Owning, Owned
  <2> QED BY <2>1, <2>2
<1> QED BY <1>6, <1>7, <1>8 DEF Owning

\* The rest of connect() leaves the attempts alone.
LEMMA OwningJoin ==
  ASSUME TypeOK, Owning, made + 1 \in Attempts, NEW c, NEW h, NEW v,
         Join(c, h, v) \/ Enter(c, h, v)
  PROVE  Owning'
<1>1. CASE connecting = 0 /\ Establish(c, h, v)
  BY <1>1, OwningEstablish
<1>2. CASE ~(connecting = 0 /\ Establish(c, h, v))
  <2>1. UNCHANGED <<phase, child, closed, current, connecting>>
    BY <1>2 DEF Join, Enter, Wait, attempt
  <2> QED BY <2>1, OwningKept
<1> QED BY <1>1, <1>2

\* An attempt in progress goes on.
LEMMA OwningProgress ==
  ASSUME TypeOK, Owning, NEW n \in 1..made,
         Disposed(n) \/ Spawned(n) \/ Established(n) \/ Refused(n)
  PROVE  Owning'
<1>1. n \in Attempts /\ \A m \in Attempts : m # 0
  BY ManagerAssumption DEF TypeOK, Attempts
<1>2. /\ closed' = closed /\ connecting' = connecting
      /\ phase[n] \in Early
      /\ \A m \in Attempts : m # n => phase'[m] = phase[m] /\ child'[m] = child[m]
      /\ phase'[n] \in InProgress
      /\ \/ phase'[n] \in {"askpass", "connecting", "failing"} /\ current' = current
         \/ phase'[n] = "stopping" /\ current' = n
  BY <1>1 DEF TypeOK, Disposed, Spawned, Established, Refused, Progress, InProgress, manager, Early
<1>3. phase[n] \in InProgress /\ connecting = n /\ current = 0
  BY <1>1, <1>2 DEF Owning, Single, Vacant, Early, InProgress
<1>4. Single'
  BY <1>1, <1>2, <1>3 DEF Owning, Single
<1>5. Vacant'
  <2> SUFFICES ASSUME NEW m \in Attempts, phase'[m] \in Early PROVE current' = 0
    BY DEF Vacant
  <2>1. CASE m = n
    BY <1>2, <1>3, <2>1 DEF Early
  <2>2. CASE m # n
    <3>1. phase[m] \in InProgress
      BY <1>2, <2>2 DEF Early, InProgress
    <3> QED BY <1>3, <2>2, <3>1 DEF Owning, Single
  <2> QED BY <2>1, <2>2
<1>6. \A m \in Attempts : Owned(m)'
  <2> TAKE m \in Attempts
  <2>1. CASE m = n
    BY <1>1, <1>2, <2>1 DEF Owned
  <2>2. CASE m # n
    BY <1>1, <1>2, <1>3, <2>2 DEF Owning, Owned
  <2> QED BY <2>1, <2>2
<1> QED BY <1>4, <1>5, <1>6 DEF Owning

\* An attempt ends.
LEMMA OwningSettle ==
  ASSUME TypeOK, Owning, NEW n \in 1..made, Settle(n)
  PROVE  Owning'
<1>1. n \in Attempts
  BY ManagerAssumption DEF TypeOK, Attempts
<1>2. /\ closed' = closed /\ current' = current /\ child' = child
      /\ phase[n] \in InProgress
      /\ \A m \in Attempts : m # n => phase'[m] = phase[m]
      /\ (phase'[n] = "returned" /\ phase[n] = "stopping") \/ phase'[n] = "threw"
  BY <1>1 DEF TypeOK, Settle, InProgress
<1>3. connecting = n
  BY <1>1, <1>2 DEF Owning, Single
<1>4. Single'
  BY <1>2, <1>3 DEF Owning, Single, InProgress
<1>5. Vacant'
  BY <1>2 DEF Owning, Vacant, Early
<1>6. \A m \in Attempts : Owned(m)'
  BY <1>2 DEF Owning, Owned
<1> QED BY <1>4, <1>5, <1>6 DEF Owning

\* The exit of a child tells of its own session only.
LEMMA ExitIsPrivate ==
  ASSUME TypeOK, Owning, NEW n \in 1..made, Exit(n)
  PROVE  /\ n = current \/ UNCHANGED <<closed, current, status, sched>>
         /\ current' \in {0, current}
<1>1. n \in Attempts
  BY ManagerAssumption DEF TypeOK, Attempts
<1>2. CASE phase[n] \in {"stopping", "returned"} /\ ~closed[n] /\ UnexpectedClose(n)
  <2>1. n = current
    BY <1>1, <1>2 DEF Owning, Owned, Exit
  <2> QED BY <1>1, <1>2, <2>1 DEF UnexpectedClose, TypeOK
<1>3. CASE UNCHANGED <<closed, current, status, sched>>
  BY <1>3
<1> QED BY <1>2, <1>3 DEF Exit

\* A process that has exited owns nothing; the others keep what they had.
LEMMA OwningExit ==
  ASSUME TypeOK, Owning, NEW n \in 1..made, Exit(n)
  PROVE  Owning'
<1>1. n \in Attempts
  BY ManagerAssumption DEF TypeOK, Attempts
<1>2. /\ phase' = phase /\ connecting' = connecting
      /\ child'[n] = "exited" /\ \A m \in Attempts : m # n => child'[m] = child[m]
  BY <1>1 DEF TypeOK, Exit
<1>3. \/ n = current
      \/ UNCHANGED <<closed, current>>
  BY ExitIsPrivate
<1>4. current' \in {0, current}
  BY ExitIsPrivate
<1>5. \A m \in Attempts : m # n => closed'[m] = closed[m]
  BY <1>1 DEF TypeOK, Exit, UnexpectedClose
<1>6. Single' /\ Vacant'
  BY <1>2, <1>4 DEF Owning, Single, Vacant
<1>7. \A m \in Attempts : Owned(m)'
  <2> TAKE m \in Attempts
  <2>1. CASE m = n
    BY <1>2, <2>1 DEF Owned
  <2>2. CASE m # n
    BY <1>2, <1>3, <1>5, <2>2 DEF Owning, Owned
  <2> QED BY <2>1, <2>2
<1> QED BY <1>6, <1>7 DEF Owning

\* disconnect() and dispose() dispose of the session they let go of.
LEMMA OwningLeave ==
  ASSUME TypeOK, Owning, Disconnect \/ Dispose
  PROVE  Owning'
<1>1. /\ UNCHANGED <<phase, child, connecting>>
      /\ current' = 0
      /\ closed' = IF current # 0 THEN [closed EXCEPT ![current] = TRUE] ELSE closed
  BY DEF Disconnect, Dispose, Discarded
<1>2. \A m \in Attempts : m # 0
  BY DEF Attempts
<1>3. \A m \in Attempts : closed[m] \/ m = current => closed'[m]
  BY <1>1, <1>2 DEF TypeOK
<1>4. Single' /\ Vacant'
  BY <1>1 DEF Owning, Single, Vacant
<1>5. \A m \in Attempts : Owned(m)'
  BY <1>1, <1>3 DEF Owning, Owned
<1> QED BY <1>4, <1>5 DEF Owning

\* Every step keeps what the attempts own.
LEMMA StepOwning == TypeOK /\ Roomy /\ Owning /\ Next => Owning'
<1> SUFFICES ASSUME TypeOK, Roomy, Owning, Next PROVE Owning'
  OBVIOUS
<1>1. ASSUME NEW c \in Clicks, NEW h, Call(c, h) PROVE Owning'
  BY <1>1, NextAttempt, OwningJoin DEF Call
<1>2. ASSUME NEW c \in Callers, Requeue(c) PROVE Owning'
  BY <1>2, NextAttempt, OwningJoin DEF Requeue
<1>3. ASSUME NEW r \in Retries, Retry(r) PROVE Owning'
  BY <1>3, NextAttempt, OwningJoin DEF Retry
<1>4. ASSUME NEW r \in Retries, Retried(r) PROVE Owning'
  BY <1>4, OwningKept DEF Retried, attempt
<1>5. ASSUME NEW n \in 1..made, Break(n) \/ Disconnected(n) PROVE Owning'
  BY <1>5, OwningKept DEF Break, Disconnected, attempt, manager
<1> QED BY <1>1, <1>2, <1>3, <1>4, <1>5, OwningProgress, OwningSettle, OwningExit, OwningLeave
        DEF Next, Require, Connect

-----------------------------------------------------------------------------
(* The room that is kept.                                                  *)

\* One caller moves: with one attempt more, or one caller more in the queue.
LEMMA QueuedAfter ==
  ASSUME TypeOK, NEW c \in Callers, NEW x, pc' = [pc EXCEPT ![c] = x],
         IsFiniteSet(Queued), Cardinality(Queued) \in Nat
  PROVE  /\ Cardinality(Queued') \in Nat /\ Cardinality(Queued') <= Cardinality(Queued) + 1
         /\ x # "queued" \/ c \in Queued => Cardinality(Queued') <= Cardinality(Queued)
         /\ x # "queued" /\ c \in Queued => Cardinality(Queued') = Cardinality(Queued) - 1
<1>1. Queued' = IF x = "queued" THEN Queued \cup {c} ELSE Queued \ {c}
  BY DEF TypeOK, Queued
<1>2. CASE x = "queued"
  <2>1. /\ IsFiniteSet(Queued \cup {c})
        /\ Cardinality(Queued \cup {c}) = IF c \in Queued THEN Cardinality(Queued)
                                                         ELSE Cardinality(Queued) + 1
    BY FS_AddElement
  <2> QED BY <1>1, <1>2, <2>1
<1>3. CASE x # "queued"
  <2>1. Cardinality(Queued \ {c}) = IF c \in Queued THEN Cardinality(Queued) - 1
                                                   ELSE Cardinality(Queued)
    BY FS_RemoveElement
  <2>2. Cardinality(Queued \ {c}) \in Nat
    BY FS_RemoveElement, FS_CardinalityType
  <2> QED BY <1>1, <1>3, <2>1, <2>2
<1> QED BY <1>2, <1>3

\* A call makes an attempt or joins the queue, and there was room for either; a caller that
\* makes an attempt leaves the queue.
LEMMA RoomyJoin ==
  ASSUME TypeOK, Roomy, NEW c \in Callers, NEW h, NEW v,
         \/ Room /\ Enter(c, h, v)
         \/ c \in Queued /\ Join(c, h, v)
  PROVE  Roomy'
<1>1. IsFiniteSet(Queued) /\ Cardinality(Queued) \in Nat
  BY NextAttempt
<1>2. made \in Nat /\ MaxMade \in Nat
  BY ManagerAssumption DEF TypeOK
<1>3. PICK x : /\ pc' = [pc EXCEPT ![c] = x]
               /\ \/ made' = made
                  \/ made' = made + 1 /\ x = "awaiting"
  BY DEF Enter, Join, Wait, Establish, attempt
<1>4. /\ Cardinality(Queued') \in Nat /\ Cardinality(Queued') <= Cardinality(Queued) + 1
      /\ x # "queued" \/ c \in Queued => Cardinality(Queued') <= Cardinality(Queued)
      /\ x # "queued" /\ c \in Queued => Cardinality(Queued') = Cardinality(Queued) - 1
  BY <1>1, <1>3, QueuedAfter
<1>5. made + Cardinality(Queued) <= MaxMade
  BY DEF Roomy
<1>6. made + Cardinality(Queued) < MaxMade \/ c \in Queued
  BY DEF Room
<1> DEFINE k == Cardinality(Queued')
<1> HIDE DEF k
<1>7. made' + k <= MaxMade
  BY <1>1, <1>2, <1>3, <1>4, <1>5, <1>6 DEF k
<1> QED BY <1>7 DEF Roomy, k

\* Every step keeps the room.
LEMMA StepRoomy == TypeOK /\ Roomy /\ Next => Roomy'
<1> SUFFICES ASSUME TypeOK, Roomy, Next PROVE Roomy'
  OBVIOUS
<1>1. ASSUME made' = made, Queued' = Queued PROVE Roomy'
  BY <1>1 DEF Roomy
<1>2. ASSUME NEW c \in Clicks, NEW h, Call(c, h) PROVE Roomy'
  BY <1>2, RoomyJoin DEF Call, Callers
<1>3. ASSUME NEW c \in Callers, Requeue(c) PROVE Roomy'
  BY <1>3, RoomyJoin DEF Requeue
<1>4. ASSUME NEW r \in Retries, Retry(r) PROVE Roomy'
  BY <1>4, RoomyJoin DEF Retry, Callers
<1>5. ASSUME NEW r \in Retries, Retried(r) PROVE Roomy'
  <2>1. made' = made /\ Queued' = Queued
    BY <1>5 DEF Retried, attempt, Queued, TypeOK
  <2> QED BY <1>1, <2>1
<1>6. ASSUME NEW n \in 1..made, Settle(n) PROVE Roomy'
  <2>1. made' = made /\ Queued' = Queued
    BY <1>6 DEF Settle, Queued, TypeOK
  <2> QED BY <1>1, <2>1
<1>7. ASSUME UNCHANGED <<made, pc>> PROVE Roomy'
  BY <1>1, <1>7 DEF Queued
<1>8. ASSUME NEW n \in 1..made,
             Disposed(n) \/ Spawned(n) \/ Established(n) \/ Refused(n) \/ Exit(n) \/ Break(n) \/ Disconnected(n)
      PROVE  Roomy'
  BY <1>7, <1>8 DEF Disposed, Spawned, Established, Refused, Exit, Break, Disconnected, attempt, callers
<1>9. ASSUME Disconnect \/ Dispose PROVE Roomy'
  BY <1>7, <1>9 DEF Disconnect, Dispose, callers
<1> QED BY <1>2, <1>3, <1>4, <1>5, <1>6, <1>8, <1>9 DEF Next, Require, Connect

-----------------------------------------------------------------------------
(* What callers get.                                                       *)

\* What the callers have is of attempts made before, and those keep their hosts.
LEMMA ServedKept ==
  ASSUME TypeOK, NEW c \in Callers, Served(c), UNCHANGED <<pc[c], want[c], on[c], got[c]>>,
         \A n \in 1..made : host'[n] = host[n]
  PROVE  Served(c)'
<1>1. made \in Nat /\ on[c] \in 0..made /\ got[c] \in 0..made
  BY DEF TypeOK
<1>2. HostOf(on[c])' = HostOf(on[c])
  <2>1. on[c] # 0 => host'[on[c]] = host[on[c]]
    BY <1>1
  <2> QED BY <2>1 DEF HostOf
<1>3. got[c] # 0 => host'[got[c]] = host[got[c]]
  BY <1>1
<1> QED BY <1>2, <1>3 DEF Served

\* A new attempt has the host it is made for.
LEMMA ServingEstablish ==
  ASSUME TypeOK, Serving, made + 1 \in Attempts, NEW c \in Callers, got[c] = 0,
         NEW h, NEW v, Establish(c, h, v)
  PROVE  Serving'
<1>1. /\ host' = [host EXCEPT ![made + 1] = h]
      /\ pc' = [pc EXCEPT ![c] = "awaiting"]
      /\ want' = [want EXCEPT ![c] = h] /\ on' = [on EXCEPT ![c] = made + 1]
      /\ got' = got
  BY DEF Establish
<1>2. made \in Nat /\ \A n \in 1..made : host'[n] = host[n]
  <2>1. made \in Nat
    BY DEF TypeOK
  <2>2. \A n \in 1..made : n \in Attempts /\ n # made + 1
    BY <2>1, ManagerAssumption DEF Attempts, TypeOK
  <2> QED BY <1>1, <2>1, <2>2 DEF TypeOK
<1>3. Served(c)'
  <2>1. host'[made + 1] = h /\ made + 1 # 0
    BY <1>1, <1>2 DEF TypeOK
  <2>2. pc'[c] = "awaiting" /\ want'[c] = h /\ on'[c] = made + 1 /\ got'[c] = 0
    BY <1>1 DEF TypeOK
  <2> QED BY <2>1, <2>2 DEF Served, HostOf
<1>4. \A d \in Callers \ {c} : UNCHANGED <<pc[d], want[d], on[d], got[d]>>
  BY <1>1 DEF TypeOK
<1>5. \A d \in Callers \ {c} : Served(d)'
  BY <1>2, <1>4, ServedKept DEF Serving
<1> QED BY <1>3, <1>5 DEF Serving

\* An attempt is shared by those who want its host.
LEMMA ServingJoin ==
  ASSUME TypeOK, Serving, made + 1 \in Attempts, NEW c \in Callers, got[c] = 0,
         NEW h, NEW v, Join(c, h, v)
  PROVE  Serving'
<1>1. ASSUME NEW how \in {"awaiting", "queued"}, Wait(c, h, how),
             how = "awaiting" => HostOf(connecting) = h
      PROVE  Serving'
  <2>1. /\ host' = host /\ got' = got /\ made' = made
        /\ pc' = [pc EXCEPT ![c] = how]
        /\ want' = [want EXCEPT ![c] = h] /\ on' = [on EXCEPT ![c] = connecting]
    BY <1>1 DEF Wait, attempt
  <2>2. pc'[c] = how /\ want'[c] = h /\ on'[c] = connecting /\ got'[c] = 0
    BY <2>1 DEF TypeOK
  <2>3. Served(c)'
    BY <1>1, <2>1, <2>2 DEF Served, HostOf
  <2>4. \A d \in Callers \ {c} : UNCHANGED <<pc[d], want[d], on[d], got[d]>>
    BY <2>1 DEF TypeOK
  <2>5. \A d \in Callers \ {c} : Served(d)'
    BY <2>1, <2>4, ServedKept DEF Serving
  <2> QED BY <2>3, <2>5 DEF Serving
<1> QED BY <1>1, ServingEstablish DEF Join

\* The present session is handed to those who want its host.
LEMMA ServingEnter ==
  ASSUME TypeOK, Serving, made + 1 \in Attempts, NEW c \in Callers, pc[c] = "idle",
         NEW h, NEW v, Enter(c, h, v)
  PROVE  Serving'
<1>1. got[c] = 0
  BY DEF Serving, Served
<1>2. CASE Join(c, h, v)
  BY <1>1, <1>2, ServingJoin
<1>3. CASE /\ HostOf(Session) = h
           /\ pc' = [pc EXCEPT ![c] = "done"]
           /\ want' = [want EXCEPT ![c] = h]
           /\ got' = [got EXCEPT ![c] = Session]
           /\ UNCHANGED <<attempt, current, connecting, status, on>>
  <2>1. host' = host /\ on' = on
    BY <1>3 DEF attempt
  <2>2. pc'[c] = "done" /\ want'[c] = h /\ got'[c] = Session
    BY <1>3 DEF TypeOK
  <2>3. Served(c)'
    BY <1>3, <2>1, <2>2 DEF Served, HostOf
  <2>4. \A d \in Callers \ {c} : UNCHANGED <<pc[d], want[d], on[d], got[d]>>
    BY <1>3, <2>1 DEF TypeOK
  <2>5. \A d \in Callers \ {c} : Served(d)'
    BY <2>1, <2>4, ServedKept DEF Serving
  <2> QED BY <2>3, <2>5 DEF Serving
<1> QED BY <1>2, <1>3 DEF Enter

\* An attempt that ends well is a session for those who await it.
LEMMA ServingSettle ==
  ASSUME TypeOK, Serving, NEW n \in 1..made, Settle(n)
  PROVE  Serving'
<1>1. /\ host' = host /\ want' = want /\ on' = on
      /\ pc' = [c \in Callers |-> IF pc[c] = "awaiting" /\ on[c] = n THEN "done" ELSE pc[c]]
      /\ got' = [c \in Callers |-> IF pc[c] = "awaiting" /\ on[c] = n /\ phase[n] = "stopping"
                                   THEN n ELSE got[c]]
  BY DEF Settle
<1>2. n # 0
  BY DEF TypeOK
<1> SUFFICES ASSUME NEW c \in Callers PROVE Served(c)'
  BY DEF Serving
<1>3. CASE pc[c] = "awaiting" /\ on[c] = n
  BY <1>1, <1>2, <1>3 DEF Serving, Served, HostOf
<1>4. CASE ~(pc[c] = "awaiting" /\ on[c] = n)
  <2>1. UNCHANGED <<pc[c], want[c], on[c], got[c]>>
    BY <1>1, <1>4
  <2> QED BY <1>1, <2>1, ServedKept DEF Serving
<1> QED BY <1>3, <1>4

\* Every step hands out what was asked for.
LEMMA StepServing == TypeOK /\ Roomy /\ Serving /\ Next => Serving'
<1> SUFFICES ASSUME TypeOK, Roomy, Serving, Next PROVE Serving'
  OBVIOUS
<1>1. ASSUME NEW c \in Clicks, NEW h, Call(c, h) PROVE Serving'
  BY <1>1, NextAttempt, ServingEnter DEF Call, Callers
<1>2. ASSUME NEW c \in Callers, Requeue(c) PROVE Serving'
  <2>1. c \in Queued /\ got[c] = 0
    BY <1>2 DEF Requeue, Queued, Serving, Served
  <2> QED BY <1>2, <2>1, NextAttempt, ServingJoin DEF Requeue
<1>3. ASSUME NEW r \in Retries, Retry(r) PROVE Serving'
  BY <1>3, NextAttempt, ServingEnter DEF Retry, Callers
<1>4. ASSUME NEW r \in Retries, Retried(r) PROVE Serving'
  <2>1. /\ host' = host /\ want' = want /\ on' = on
        /\ pc' = [pc EXCEPT ![r] = "idle"] /\ got' = [got EXCEPT ![r] = 0]
    BY <1>4 DEF Retried, attempt
  <2>2. r \in Callers /\ pc'[r] = "idle" /\ got'[r] = 0
    BY <2>1 DEF TypeOK, Callers
  <2>3. Served(r)'
    BY <2>2 DEF Served
  <2>4. \A d \in Callers \ {r} : UNCHANGED <<pc[d], want[d], on[d], got[d]>>
    BY <2>1 DEF TypeOK
  <2>5. \A d \in Callers \ {r} : Served(d)'
    BY <2>1, <2>4, ServedKept DEF Serving
  <2> QED BY <2>3, <2>5 DEF Serving
<1>5. ASSUME UNCHANGED <<host, pc, want, on, got>> PROVE Serving'
  BY <1>5 DEF Serving, Served, HostOf
<1>6. ASSUME NEW n \in 1..made,
             Disposed(n) \/ Spawned(n) \/ Established(n) \/ Refused(n) \/ Exit(n) \/ Break(n) \/ Disconnected(n)
      PROVE  Serving'
  BY <1>5, <1>6 DEF Disposed, Spawned, Established, Refused, Exit, Break, Disconnected, attempt, callers
<1>7. ASSUME Disconnect \/ Dispose PROVE Serving'
  BY <1>5, <1>7 DEF Disconnect, Dispose, callers
<1> QED BY <1>1, <1>2, <1>3, <1>4, <1>6, <1>7, ServingSettle DEF Next, Require, Connect

-----------------------------------------------------------------------------
(* The cycle of retries.                                                   *)

\* A run of a generation that is over is not of the cycle: nothing is left of it.
LEMMA Renewed ==
  ASSUME TypeOK, Cycle, run' = run, sched'.gen = sched.gen + 1,
         sched'.timer # NoRun => sched'.running /\ sched'.timer.gen = sched'.gen,
         \A r \in Retries : pc'[r] # "idle" => pc[r] # "idle"
  PROVE  Cycle'
<1>1. \A r \in Retries : run[r].gen \in Int /\ run[r].gen <= sched.gen /\ sched.gen \in Int
  BY DEF TypeOK, Runs, Cycle
<1>2. Live' = {}
  BY <1>1 DEF Live
<1>3. \A r \in Retries : /\ run'[r].gen <= sched'.gen
                         /\ pc'[r] # "idle" => run'[r] # NoRun
  BY <1>1 DEF Cycle
<1> QED BY <1>2, <1>3 DEF Cycle

\* What leaves the runs and the scheduler alone, and starts no run.
LEMMA CycleKept ==
  ASSUME Cycle, UNCHANGED <<run, sched>>,
         \A r \in Retries : pc'[r] # "idle" => pc[r] # "idle"
  PROVE  Cycle'
<1>1. Live' = Live
  BY DEF Live
<1> QED BY <1>1 DEF Cycle

\* The timer's run takes its place.
LEMMA CycleRetry ==
  ASSUME TypeOK, Cycle, NEW r \in Retries, Retry(r)
  PROVE  Cycle'
<1>1. /\ sched.timer # NoRun /\ sched.running /\ sched.timer.gen = sched.gen
      /\ run' = [run EXCEPT ![r] = sched.timer]
      /\ sched' = [sched EXCEPT !.timer = NoRun]
  BY DEF Retry, Cycle
<1>2. sched'.timer = NoRun /\ sched'.gen = sched.gen /\ sched'.running
  BY <1>1 DEF TypeOK
<1>3. run'[r] = sched.timer /\ \A q \in Retries \ {r} : run'[q] = run[q]
  BY <1>1 DEF TypeOK
<1>4. Live = {}
  BY <1>1 DEF Cycle
<1>5. Live' = {r}
  BY <1>1, <1>2, <1>3, <1>4 DEF Live
<1>6. \A q \in Retries \ {r} : pc'[q] = pc[q]
  <2>1. Retries \subseteq Callers
    BY DEF Callers
  <2> QED BY <2>1 DEF Retry, Enter, Join, Wait, Establish, TypeOK
<1>7. \A q \in Retries : /\ run'[q].gen <= sched'.gen
                         /\ pc'[q] # "idle" => run'[q] # NoRun
  <2> TAKE q \in Retries
  <2>1. CASE q = r
    BY <1>1, <1>2, <1>3, <2>1 DEF TypeOK
  <2>2. CASE q # r
    BY <1>2, <1>3, <1>6, <2>2 DEF Cycle
  <2> QED BY <2>1, <2>2
<1> QED BY <1>2, <1>5, <1>7 DEF Cycle

\* A run that has come to its end leaves the cycle, or starts the timer.
LEMMA CycleRetried ==
  ASSUME TypeOK, Cycle, NEW r \in Retries, Retried(r)
  PROVE  Cycle'
<1>1. /\ run' = [run EXCEPT ![r] = NoRun] /\ pc' = [pc EXCEPT ![r] = "idle"]
      /\ Settles(r) /\ run[r] # NoRun
  BY DEF Retried, Cycle
<1>2. run'[r] = NoRun /\ \A q \in Retries \ {r} : run'[q] = run[q]
  BY <1>1 DEF TypeOK
<1>3. pc'[r] = "idle" /\ \A q \in Retries \ {r} : pc'[q] = pc[q]
  <2>1. Retries \subseteq Callers
    BY DEF Callers
  <2> QED BY <1>1, <2>1 DEF TypeOK
<1>4. sched'.gen = sched.gen
  BY <1>1 DEF Settles, Succeeded, TryAgain, GiveUp, TypeOK
<1>5. NoRun.gen = 0 /\ sched.gen \in Nat
  BY DEF NoRun, TypeOK
<1>6. \A q \in Retries : /\ run'[q].gen <= sched'.gen
                         /\ pc'[q] # "idle" => run'[q] # NoRun
  <2> TAKE q \in Retries
  <2>1. CASE q = r
    BY <1>2, <1>3, <1>4, <1>5, <2>1
  <2>2. CASE q # r
    BY <1>2, <1>3, <1>4, <2>2 DEF Cycle
  <2> QED BY <2>1, <2>2
<1>7. Live' = Live \ {r}
  BY <1>2, <1>4 DEF Live
<1>8. CASE run[r].gen # sched.gen
  <2>1. sched' = sched
    BY <1>1, <1>8 DEF Settles
  <2> QED BY <1>6, <1>7, <2>1 DEF Cycle
<1>9. CASE run[r].gen = sched.gen
  <2>1. r \in Live
    BY <1>1, <1>9 DEF Live
  <2>2. sched.running /\ sched.timer = NoRun /\ Live' = {}
    BY <1>7, <2>1 DEF Cycle
  <2>3. sched'.timer # NoRun => sched'.running /\ sched'.timer.gen = sched'.gen
    <3>1. CASE Succeeded(r) \/ GiveUp(r)
      BY <2>2, <3>1 DEF Succeeded, GiveUp, TypeOK
    <3>2. CASE TryAgain(r)
      <4>1. run[r] \in Runs
        BY DEF TypeOK
      <4>2. sched'.timer.gen = run[r].gen /\ sched'.running = sched.running
        BY <3>2, <4>1 DEF TryAgain, TypeOK, Runs
      <4> QED BY <1>4, <1>9, <2>2, <4>2
    <3> QED BY <1>1, <1>9, <3>1, <3>2 DEF Settles
  <2> QED BY <1>6, <2>2, <2>3 DEF Cycle
<1> QED BY <1>8, <1>9

\* Every step keeps to one cycle.
LEMMA StepCycle == TypeOK /\ Cycle /\ Next => Cycle'
<1> SUFFICES ASSUME TypeOK, Cycle, Next PROVE Cycle'
  OBVIOUS
<1>1. Stopped.gen = sched.gen + 1 /\ Stopped.timer = NoRun
  BY DEF Stopped
<1>2. ASSUME NEW c \in Clicks, NEW h, Call(c, h) PROVE Cycle'
  <2>1. Retries \subseteq Callers /\ c \notin Retries
    BY ManagerAssumption DEF Callers
  <2>2. \A r \in Retries : pc'[r] = pc[r]
    BY <1>2, <2>1 DEF Call, Enter, Join, Wait, Establish, TypeOK
  <2>3. sched' = Stopped /\ run' = run
    BY <1>2 DEF Call
  <2> QED BY <1>1, <2>2, <2>3, Renewed
<1>3. ASSUME NEW c \in Callers, Requeue(c) PROVE Cycle'
  <2>1. \A r \in Retries : r # c => pc'[r] = pc[r]
    BY <1>3 DEF Requeue, Join, Wait, Establish, TypeOK, Callers
  <2>2. pc[c] = "queued" /\ UNCHANGED <<run, sched>>
    BY <1>3 DEF Requeue, Queued
  <2> QED BY <2>1, <2>2, CycleKept
<1>4. ASSUME NEW n \in 1..made, Settle(n) PROVE Cycle'
  <2>1. \A r \in Retries : pc'[r] # "idle" => pc[r] # "idle"
    BY <1>4 DEF Settle, Callers
  <2>2. UNCHANGED <<run, sched>>
    BY <1>4 DEF Settle
  <2> QED BY <2>1, <2>2, CycleKept
<1>5. ASSUME NEW n \in 1..made, Exit(n) PROVE Cycle'
  <2>1. pc' = pc /\ run' = run
    BY <1>5 DEF Exit, callers
  <2>2. sched' = sched \/ (~sched.running /\ sched' = Started(host[n]))
    BY <1>5 DEF Exit, UnexpectedClose, Started
  <2>3. CASE sched' = sched
    BY <2>1, <2>3, CycleKept
  <2>4. CASE ~sched.running /\ sched' = Started(host[n])
    <3>1. sched'.gen = sched.gen + 1 /\ sched'.running /\ sched'.timer.gen = sched'.gen
      BY <2>4 DEF Started
    <3> QED BY <2>1, <3>1, Renewed
  <2> QED BY <2>2, <2>3, <2>4
<1>6. ASSUME NEW n \in 1..made,
             Disposed(n) \/ Spawned(n) \/ Established(n) \/ Refused(n) \/ Break(n) \/ Disconnected(n)
      PROVE  Cycle'
  <2>1. UNCHANGED <<pc, run, sched>>
    BY <1>6 DEF Disposed, Spawned, Established, Refused, Break, Disconnected, callers
  <2> QED BY <2>1, CycleKept
<1>7. ASSUME Disconnect \/ Dispose PROVE Cycle'
  <2>1. sched' = Stopped /\ UNCHANGED <<pc, run>>
    BY <1>7 DEF Disconnect, Dispose, callers
  <2> QED BY <1>1, <2>1, Renewed
<1> QED BY <1>2, <1>3, <1>4, <1>5, <1>6, <1>7, CycleRetry, CycleRetried DEF Next, Require, Connect

-----------------------------------------------------------------------------
(* What the status says. This needs more of the attempts and of the calls.  *)

\* What each stage of an attempt implies.
Staged(n) ==
  /\ n > made => phase[n] = "none" /\ ~closed[n] /\ child[n] = "none"
  /\ n <= made => host[n] \in Hosts
  /\ phase[n] \in Early => ~closed[n]
  /\ phase[n] \in {"closing", "askpass"} => child[n] = "none"
  /\ phase[n] = "failing" => current = 0
  /\ phase[n] = "stopping" => current \in {0, n}

Sound == /\ connecting # 0 => phase[connecting] \in InProgress
         /\ \A n \in Attempts : Staged(n)

\* What leaves the attempts alone.
LEMMA SoundKept ==
  ASSUME Sound, UNCHANGED <<made, host, phase, child, closed, current, connecting>>
  PROVE  Sound'
BY DEF Sound, Staged

\* A new attempt, for one of the hosts.
LEMMA SoundEstablish ==
  ASSUME TypeOK, Owning, Sound, made + 1 \in Attempts, NEW c, NEW h \in Hosts, NEW v,
         Establish(c, h, v)
  PROVE  Sound'
<1> DEFINE n == made + 1
<1>1. /\ n \in Attempts /\ made \in Nat /\ n = made + 1 /\ Attempts \subseteq Nat
      /\ current \in 0..made
  BY DEF TypeOK, Attempts
<1>2. /\ current' = 0 /\ connecting' = n /\ made' = n /\ child' = child
      /\ closed' = IF current # 0 THEN [closed EXCEPT ![current] = TRUE] ELSE closed
      /\ phase' = [phase EXCEPT ![n] = IF current # 0 THEN "closing" ELSE "askpass"]
      /\ host' = [host EXCEPT ![n] = h]
  BY DEF Establish, Discarded
<1> HIDE DEF n
<1>3. /\ phase'[n] \in {"closing", "askpass"} /\ host'[n] = h
      /\ \A m \in Attempts : m # n => phase'[m] = phase[m] /\ host'[m] = host[m]
  BY <1>1, <1>2 DEF TypeOK
<1>4. \A m \in Attempts : m # current => closed'[m] = closed[m]
  BY <1>1, <1>2 DEF TypeOK
<1>5. connecting' # 0 => phase'[connecting'] \in InProgress
  BY <1>2, <1>3 DEF InProgress
<1>6. \A m \in Attempts : Staged(m)'
  <2> SUFFICES ASSUME NEW m \in Attempts PROVE Staged(m)'
    OBVIOUS
  <2>1. m \in Nat /\ Staged(m)
    BY <1>1 DEF Sound
  <2>2. CASE m = n
    <3>1. n > made /\ n # current
      BY <1>1
    <3>2. ~closed[n] /\ child[n] = "none"
      BY <2>1, <2>2, <3>1 DEF Staged
    <3> QED BY <1>1, <1>2, <1>3, <1>4, <2>2, <3>1, <3>2 DEF Staged, Early
  <2>3. CASE m # n
    <3>1. (m > n => m > made) /\ (m <= n => m <= made) /\ (m > n => m # current)
      BY <1>1, <2>1, <2>3
    <3>2. CASE m # current
      <4>1. closed'[m] = closed[m] /\ phase'[m] = phase[m] /\ host'[m] = host[m]
        BY <1>3, <1>4, <2>3, <3>2
      <4> QED BY <1>2, <2>1, <3>1, <4>1 DEF Staged
    <3>3. CASE m = current
      <4>1. phase'[m] = phase[m] /\ host'[m] = host[m] /\ m <= n
        BY <1>1, <1>3, <2>3, <3>1, <3>3
      <4>2. phase[m] \notin Early
        <5>1. m # 0
          BY DEF Attempts
        <5> QED BY <3>3, <5>1 DEF Owning, Vacant
      <4> QED BY <1>2, <2>1, <3>1, <4>1, <4>2 DEF Staged
    <3> QED BY <3>2, <3>3
  <2> QED BY <2>2, <2>3
<1> QED BY <1>5, <1>6 DEF Sound

\* The rest of connect() leaves the attempts alone.
LEMMA SoundJoin ==
  ASSUME TypeOK, Owning, Sound, made + 1 \in Attempts, NEW c, NEW h \in Hosts, NEW v,
         Join(c, h, v) \/ Enter(c, h, v)
  PROVE  Sound'
<1>1. CASE Establish(c, h, v)
  BY <1>1, SoundEstablish
<1>2. CASE ~Establish(c, h, v)
  <2>1. UNCHANGED <<made, host, phase, child, closed, current, connecting>>
    BY <1>2 DEF Join, Enter, Wait, attempt
  <2> QED BY <2>1, SoundKept
<1> QED BY <1>1, <1>2

\* An attempt in progress goes on.
LEMMA SoundProgress ==
  ASSUME TypeOK, Owning, Sound, NEW n \in 1..made,
         Disposed(n) \/ Spawned(n) \/ Established(n) \/ Refused(n)
  PROVE  Sound'
<1>1. n \in Attempts /\ n # 0
  BY ManagerAssumption DEF TypeOK, Attempts
<1>2. /\ closed' = closed /\ connecting' = connecting /\ made' = made /\ host' = host
      /\ phase[n] \in Early /\ phase[n] \in InProgress
      /\ \A m \in Attempts : m # n => phase'[m] = phase[m] /\ child'[m] = child[m]
      /\ \/ phase[n] = "closing" /\ phase'[n] = "askpass" /\ child'[n] = child[n] /\ current' = current
         \/ phase'[n] \in {"connecting", "failing"} /\ current' = current
         \/ phase'[n] = "stopping" /\ current' = n
  BY <1>1 DEF TypeOK, Disposed, Spawned, Established, Refused, Progress, InProgress, manager, Early
<1>3. connecting = n /\ current = 0
  BY <1>1, <1>2 DEF Owning, Single, Vacant
<1>4. n <= made
  BY DEF TypeOK
<1>5. connecting' # 0 => phase'[connecting'] \in InProgress
  BY <1>2, <1>3 DEF InProgress
<1>6. \A m \in Attempts : Staged(m)'
  <2> SUFFICES ASSUME NEW m \in Attempts PROVE Staged(m)'
    OBVIOUS
  <2>1. CASE m = n
    <3>1. Staged(n) /\ n \in Nat /\ made \in Nat
      BY <1>1 DEF Sound, TypeOK, Attempts
    <3> QED BY <1>2, <1>3, <1>4, <2>1, <3>1 DEF Staged, Early
  <2>2. CASE m # n
    <3>1. phase[m] \notin InProgress
      BY <1>3, <2>2 DEF Owning, Single
    <3>2. phase'[m] = phase[m] /\ child'[m] = child[m] /\ phase[m] \notin Early \cup {"stopping", "failing"}
      BY <1>2, <2>2, <3>1 DEF InProgress, Early
    <3> QED BY <1>2, <3>2 DEF Sound, Staged, Early
  <2> QED BY <2>1, <2>2
<1> QED BY <1>5, <1>6 DEF Sound

\* An attempt ends.
LEMMA SoundSettle ==
  ASSUME TypeOK, Owning, Sound, NEW n \in 1..made, Settle(n)
  PROVE  Sound'
<1>1. n \in Attempts /\ n # 0 /\ n <= made /\ n \in Nat /\ made \in Nat
  BY ManagerAssumption DEF TypeOK, Attempts
<1>2. /\ closed' = closed /\ current' = current /\ child' = child /\ made' = made /\ host' = host
      /\ phase[n] \in InProgress
      /\ \A m \in Attempts : m # n => phase'[m] = phase[m]
      /\ phase'[n] \in {"returned", "threw"}
      /\ connecting' = IF connecting = n THEN 0 ELSE connecting
  BY <1>1 DEF TypeOK, Settle, InProgress, Cleared
<1>3. connecting' = 0
  BY <1>1, <1>2 DEF Owning, Single
<1>4. \A m \in Attempts : Staged(m)'
  <2> SUFFICES ASSUME NEW m \in Attempts PROVE Staged(m)'
    OBVIOUS
  <2>1. CASE m = n
    BY <1>1, <1>2, <2>1 DEF Sound, Staged, Early
  <2>2. CASE m # n
    BY <1>2, <2>2 DEF Sound, Staged
  <2> QED BY <2>1, <2>2
<1> QED BY <1>3, <1>4 DEF Sound

\* A process exits.
LEMMA SoundExit ==
  ASSUME TypeOK, Owning, Sound, NEW n \in 1..made, Exit(n)
  PROVE  Sound'
<1>1. n \in Attempts /\ n # 0 /\ n <= made /\ n \in Nat /\ made \in Nat
  BY ManagerAssumption DEF TypeOK, Attempts
<1>2. /\ phase' = phase /\ connecting' = connecting /\ made' = made /\ host' = host
      /\ child[n] = "running" /\ \A m \in Attempts : m # n => child'[m] = child[m]
      /\ phase[n] \in Early => closed' = closed
  BY <1>1 DEF TypeOK, Exit, Early
<1>3. current' \in {0, current}
  BY ExitIsPrivate
<1>4. \A m \in Attempts : m # n => closed'[m] = closed[m]
  BY <1>1 DEF TypeOK, Exit, UnexpectedClose
<1>5. \A m \in Attempts : Staged(m)'
  <2> SUFFICES ASSUME NEW m \in Attempts PROVE Staged(m)'
    OBVIOUS
  <2>1. CASE m = n
    <3>1. ~(n > made) /\ phase[n] \notin {"closing", "askpass"}
      BY <1>1, <1>2 DEF Sound, Staged
    <3> QED BY <1>1, <1>2, <1>3, <2>1, <3>1 DEF Sound, Staged
  <2>2. CASE m # n
    BY <1>2, <1>3, <1>4, <2>2 DEF Sound, Staged
  <2> QED BY <2>1, <2>2
<1> QED BY <1>2, <1>5 DEF Sound

\* disconnect() and dispose() dispose of a session, which has an attempt past the handshake.
LEMMA SoundLeave ==
  ASSUME TypeOK, Owning, Sound, Disconnect \/ Dispose
  PROVE  Sound'
<1>1. /\ UNCHANGED <<made, host, phase, child, connecting>>
      /\ current' = 0
      /\ closed' = IF current # 0 THEN [closed EXCEPT ![current] = TRUE] ELSE closed
  BY DEF Disconnect, Dispose, Discarded, attempt
<1>2. current \in 0..made /\ made \in Nat /\ \A m \in Attempts : m \in Nat /\ m # 0
  BY DEF TypeOK, Attempts
<1>3. \A m \in Attempts : m # current => closed'[m] = closed[m]
  BY <1>1, <1>2 DEF TypeOK
<1>4. \A m \in Attempts : Staged(m)'
  <2> SUFFICES ASSUME NEW m \in Attempts PROVE Staged(m)'
    OBVIOUS
  <2>1. CASE m = current
    <3>1. phase[m] \notin Early /\ ~(m > made)
      BY <1>2, <2>1 DEF Owning, Vacant
    <3> QED BY <1>1, <3>1 DEF Sound, Staged
  <2>2. CASE m # current
    BY <1>1, <1>3, <2>2 DEF Sound, Staged
  <2> QED BY <2>1, <2>2
<1> QED BY <1>1, <1>4 DEF Sound

\* A call that is not over is for one of the hosts, and waits for an attempt that was made;
\* it is told at once when the one it shares ends.
Called(c) == pc[c] \in {"awaiting", "queued"} =>
               /\ want[c] \in Hosts /\ on[c] # 0 /\ phase[on[c]] # "none"
               /\ pc[c] = "awaiting" => phase[on[c]] \in InProgress
Calling == \A c \in Callers : Called(c)

\* What leaves a call alone.
LEMMA CalledKept ==
  ASSUME NEW c \in Callers, Called(c), UNCHANGED <<pc[c], want[c], on[c]>>,
         on[c] # 0 => phase'[on[c]] = phase[on[c]] \/ phase'[on[c]] \in InProgress
  PROVE  Called(c)'
BY DEF Called, InProgress

\* The caller of connect() gets an attempt in progress to wait for, or a session.
LEMMA CallingJoin ==
  ASSUME TypeOK, Sound, Calling, made + 1 \in Attempts, NEW c \in Callers,
         NEW h \in Hosts, NEW v, Join(c, h, v) \/ Enter(c, h, v)
  PROVE  Calling'
<1>1. made \in Nat /\ \A d \in Callers : on[d] # made + 1
  BY DEF TypeOK
<1>2. CASE Establish(c, h, v)
  <2>1. /\ phase' = [phase EXCEPT ![made + 1] = IF current # 0 THEN "closing" ELSE "askpass"]
        /\ pc' = [pc EXCEPT ![c] = "awaiting"]
        /\ want' = [want EXCEPT ![c] = h] /\ on' = [on EXCEPT ![c] = made + 1]
    BY <1>2 DEF Establish
  <2>2. /\ pc'[c] = "awaiting" /\ want'[c] = h /\ on'[c] = made + 1 /\ made + 1 # 0
        /\ phase'[made + 1] \in {"closing", "askpass"}
    BY <1>1, <2>1 DEF TypeOK
  <2>3. Called(c)'
    BY <2>2 DEF Called, InProgress
  <2>4. \A d \in Callers \ {c} : /\ UNCHANGED <<pc[d], want[d], on[d]>>
                                 /\ phase'[on[d]] = phase[on[d]]
    BY <1>1, <2>1 DEF TypeOK
  <2>5. \A d \in Callers \ {c} : Called(d)'
    BY <2>4, CalledKept DEF Calling
  <2> QED BY <2>3, <2>5 DEF Calling
<1>3. ASSUME NEW how \in {"awaiting", "queued"}, Wait(c, h, how), connecting # 0
      PROVE  Calling'
  <2>1. /\ phase' = phase
        /\ pc' = [pc EXCEPT ![c] = how]
        /\ want' = [want EXCEPT ![c] = h] /\ on' = [on EXCEPT ![c] = connecting]
    BY <1>3 DEF Wait, attempt
  <2>2. /\ pc'[c] = how /\ want'[c] = h /\ on'[c] = connecting
        /\ phase'[connecting] \in InProgress
    BY <1>3, <2>1 DEF TypeOK, Sound
  <2>3. Called(c)'
    BY <1>3, <2>2 DEF Called, InProgress
  <2>4. \A d \in Callers \ {c} : UNCHANGED <<pc[d], want[d], on[d]>>
    BY <2>1 DEF TypeOK
  <2>5. \A d \in Callers \ {c} : Called(d)'
    BY <2>1, <2>4, CalledKept DEF Calling
  <2> QED BY <2>3, <2>5 DEF Calling
<1>4. CASE Join(c, h, v)
  <2>1. HostOf(connecting) = h => connecting # 0
    BY ManagerAssumption DEF HostOf
  <2> QED BY <1>2, <1>3, <1>4, <2>1 DEF Join
<1>5. CASE Enter(c, h, v) /\ ~Join(c, h, v)
  <2>1. phase' = phase /\ on' = on
    BY <1>5 DEF Enter, attempt
  <2>2. pc'[c] = "done" /\ \A d \in Callers \ {c} : UNCHANGED <<pc[d], want[d], on[d]>>
    BY <1>5 DEF Enter, TypeOK
  <2>3. Called(c)'
    BY <2>2 DEF Called
  <2>4. \A d \in Callers \ {c} : Called(d)'
    BY <2>1, <2>2, CalledKept DEF Calling
  <2> QED BY <2>3, <2>4 DEF Calling
<1> QED BY <1>4, <1>5

\* Every step keeps the calls.
LEMMA StepCalling == TypeOK /\ Roomy /\ Sound /\ Calling /\ Next
                     /\ (sched.timer # NoRun => sched.timer.host \in Hosts) => Calling'
<1> SUFFICES ASSUME TypeOK, Roomy, Sound, Calling, Next,
                    sched.timer # NoRun => sched.timer.host \in Hosts
             PROVE  Calling'
  OBVIOUS
<1>1. ASSUME NEW c \in Clicks, NEW h \in Hosts, Call(c, h) PROVE Calling'
  BY <1>1, NextAttempt, CallingJoin DEF Call, Callers
<1>2. ASSUME NEW c \in Clicks, Require(c) PROVE Calling'
  <2>1. status[2] \in Hosts
    BY <1>2 DEF Require, TypeOK
  <2> QED BY <1>1, <1>2, <2>1 DEF Require
<1>3. ASSUME NEW c \in Callers, Requeue(c) PROVE Calling'
  <2>1. want[c] \in Hosts
    BY <1>3 DEF Requeue, Queued, Calling, Called
  <2> QED BY <1>3, <2>1, NextAttempt, CallingJoin DEF Requeue
<1>4. ASSUME NEW r \in Retries, Retry(r) PROVE Calling'
  BY <1>4, NextAttempt, CallingJoin DEF Retry, Callers
<1>5. ASSUME NEW r \in Retries, Retried(r) PROVE Calling'
  <2>1. /\ phase' = phase /\ want' = want /\ on' = on /\ r \in Callers
        /\ pc'[r] = "idle" /\ \A d \in Callers \ {r} : pc'[d] = pc[d]
    BY <1>5 DEF Retried, attempt, TypeOK, Callers
  <2>2. Called(r)'
    BY <2>1 DEF Called
  <2>3. \A d \in Callers \ {r} : Called(d)'
    BY <2>1, CalledKept DEF Calling
  <2> QED BY <2>2, <2>3 DEF Calling
<1>6. ASSUME NEW n \in 1..made, Settle(n) PROVE Calling'
  <2>1. n \in Attempts
    BY ManagerAssumption DEF TypeOK, Attempts
  <2>2. /\ want' = want /\ on' = on
        /\ pc' = [c \in Callers |-> IF pc[c] = "awaiting" /\ on[c] = n THEN "done" ELSE pc[c]]
        /\ phase' \in {[phase EXCEPT ![n] = "returned"], [phase EXCEPT ![n] = "threw"]}
    BY <1>6 DEF Settle
  <2>3. ASSUME NEW c \in Callers PROVE Called(c)'
    <3>1. CASE pc[c] = "awaiting" /\ on[c] = n
      BY <2>2, <3>1 DEF Called
    <3>2. CASE on[c] = n /\ pc[c] # "awaiting"
      <4>1. phase'[n] \in {"returned", "threw"}
        BY <2>1, <2>2 DEF TypeOK
      <4> QED BY <2>2, <3>2, <4>1 DEF Calling, Called
    <3>3. CASE on[c] # n
      <4>1. UNCHANGED <<pc[c], want[c], on[c]>>
        BY <2>2, <3>3
      <4>2. on[c] # 0 => on[c] \in Attempts
        BY ManagerAssumption DEF TypeOK, Attempts
      <4>3. on[c] # 0 => phase'[on[c]] = phase[on[c]]
        BY <2>2, <3>3, <4>2 DEF TypeOK
      <4> QED BY <4>1, <4>3, CalledKept DEF Calling
    <3> QED BY <3>1, <3>2, <3>3
  <2> QED BY <2>3 DEF Calling
<1>7. ASSUME NEW n \in 1..made, Disposed(n) \/ Spawned(n) \/ Established(n) \/ Refused(n)
      PROVE  Calling'
  <2>1. n \in Attempts
    BY ManagerAssumption DEF TypeOK, Attempts
  <2>2. UNCHANGED <<pc, want, on>> /\ phase'[n] \in InProgress
    BY <1>7, <2>1 DEF Disposed, Spawned, Established, Refused, Progress, callers, InProgress, TypeOK
  <2>3. \A m \in Attempts : m # n => phase'[m] = phase[m]
    BY <1>7 DEF Disposed, Spawned, Established, Refused, Progress, TypeOK
  <2>4. \A c \in Callers : on[c] # 0 => on[c] \in Attempts
    BY ManagerAssumption DEF TypeOK, Attempts
  <2> QED BY <2>2, <2>3, <2>4, CalledKept DEF Calling
<1>8. ASSUME UNCHANGED <<phase, pc, want, on>> PROVE Calling'
  BY <1>8 DEF Calling, Called
<1>9. ASSUME NEW n \in 1..made, Exit(n) \/ Break(n) \/ Disconnected(n) PROVE Calling'
  BY <1>8, <1>9 DEF Exit, Break, Disconnected, attempt, callers
<1>10. ASSUME Disconnect \/ Dispose PROVE Calling'
  BY <1>8, <1>10 DEF Disconnect, Dispose, callers
<1> QED BY <1>1, <1>2, <1>3, <1>4, <1>5, <1>6, <1>7, <1>9, <1>10 DEF Next, Connect

\* A running scheduler has its timer set or a run of the cycle under way, for one of the hosts.
Trying == /\ sched.timer # NoRun => sched.timer.host \in Hosts
          /\ \A r \in Retries : run[r] # NoRun => run[r].host \in Hosts /\ pc[r] # "idle"
          /\ sched.running => sched.timer # NoRun \/ Live # {}

\* What leaves the runs and the scheduler alone, and ends no run.
LEMMA TryingKept ==
  ASSUME Trying, UNCHANGED <<run, sched>>,
         \A r \in Retries : pc[r] # "idle" => pc'[r] # "idle"
  PROVE  Trying'
<1>1. Live' = Live
  BY DEF Live
<1> QED BY <1>1 DEF Trying

\* The scheduler is stopped.
LEMMA TryingStopped ==
  ASSUME Trying, run' = run, sched' = Stopped, \A r \in Retries : pc'[r] = pc[r]
  PROVE  Trying'
BY DEF Trying, Stopped

\* A run comes to its end.
LEMMA TryingRetried ==
  ASSUME TypeOK, Cycle, Trying, NEW r \in Retries, Retried(r)
  PROVE  Trying'
<1>1. /\ run' = [run EXCEPT ![r] = NoRun] /\ pc' = [pc EXCEPT ![r] = "idle"]
      /\ Settles(r) /\ run[r] # NoRun
  BY DEF Retried, Cycle
<1>2. run'[r] = NoRun /\ \A q \in Retries \ {r} : run'[q] = run[q] /\ pc'[q] = pc[q]
  <2>1. Retries \subseteq Callers
    BY DEF Callers
  <2> QED BY <1>1, <2>1 DEF TypeOK
<1>3. \A q \in Retries : run'[q] # NoRun => run'[q].host \in Hosts /\ pc'[q] # "idle"
  BY <1>2 DEF Trying
<1>4. CASE run[r].gen # sched.gen
  <2>1. sched' = sched
    BY <1>1, <1>4 DEF Settles
  <2>2. Live' = Live
    BY <1>2, <1>4, <2>1 DEF Live
  <2> QED BY <1>3, <2>1, <2>2 DEF Trying
<1>5. CASE run[r].gen = sched.gen
  <2>1. sched.timer = NoRun
    BY <1>1, <1>5 DEF Cycle, Live
  <2>2. CASE Succeeded(r) \/ GiveUp(r)
    <3>1. sched'.running = FALSE /\ sched'.timer = NoRun
      BY <2>1, <2>2 DEF Succeeded, GiveUp, TypeOK
    <3> QED BY <1>3, <3>1 DEF Trying
  <2>3. CASE TryAgain(r)
    <3>1. run[r] \in Runs /\ run[r].try \in Nat
      BY DEF TypeOK, Runs
    <3>2. sched'.timer = [run[r] EXCEPT !.try = run[r].try + 1]
      BY <2>3 DEF TryAgain, TypeOK
    <3>3. sched'.timer.try = run[r].try + 1 /\ sched'.timer.host = run[r].host
      BY <3>1, <3>2 DEF Runs
    <3>4. sched'.timer # NoRun
      <4>1. NoRun.try = 0
        BY DEF NoRun
      <4> QED BY <3>1, <3>3, <4>1
    <3> QED BY <1>1, <1>3, <3>3, <3>4 DEF Trying
  <2> QED BY <1>1, <1>5, <2>2, <2>3 DEF Settles
<1> QED BY <1>4, <1>5

\* Every step keeps trying.
LEMMA StepTrying == TypeOK /\ Cycle /\ Sound /\ Trying /\ Next => Trying'
<1> SUFFICES ASSUME TypeOK, Cycle, Sound, Trying, Next PROVE Trying'
  OBVIOUS
<1>1. ASSUME NEW c \in Clicks, NEW h, Call(c, h) PROVE Trying'
  <2>1. Retries \subseteq Callers /\ c \notin Retries
    BY ManagerAssumption DEF Callers
  <2>2. \A r \in Retries : pc'[r] = pc[r]
    BY <1>1, <2>1 DEF Call, Enter, Join, Wait, Establish, TypeOK
  <2>3. sched' = Stopped /\ run' = run
    BY <1>1 DEF Call
  <2> QED BY <2>2, <2>3, TryingStopped
<1>2. ASSUME NEW c \in Callers, Requeue(c) PROVE Trying'
  <2>1. \A r \in Retries : pc'[r] = pc[r] \/ pc'[r] \in {"awaiting", "queued"}
    BY <1>2 DEF Requeue, Join, Wait, Establish, TypeOK, Callers
  <2>2. UNCHANGED <<run, sched>>
    BY <1>2 DEF Requeue
  <2> QED BY <2>1, <2>2, TryingKept
<1>3. ASSUME NEW n \in 1..made, Settle(n) PROVE Trying'
  <2>1. \A r \in Retries : pc'[r] = pc[r] \/ pc'[r] = "done"
    BY <1>3 DEF Settle, Callers
  <2>2. UNCHANGED <<run, sched>>
    BY <1>3 DEF Settle
  <2> QED BY <2>1, <2>2, TryingKept
<1>4. ASSUME NEW n \in 1..made, Exit(n) PROVE Trying'
  <2>1. pc' = pc /\ run' = run
    BY <1>4 DEF Exit, callers
  <2>2. sched' = sched \/ (~sched.running /\ sched' = Started(host[n]))
    BY <1>4 DEF Exit, UnexpectedClose, Started
  <2>3. CASE sched' = sched
    BY <2>1, <2>3, TryingKept
  <2>4. CASE ~sched.running /\ sched' = Started(host[n])
    <3>1. host[n] \in Hosts
      BY ManagerAssumption DEF Sound, Staged, TypeOK, Attempts
    <3>2. sched'.timer.try = 1 /\ sched'.timer.host = host[n] /\ NoRun.try = 0
      BY <2>4 DEF Started, NoRun
    <3>3. sched'.timer # NoRun
      BY <3>2
    <3> QED BY <2>1, <3>1, <3>2, <3>3 DEF Trying
  <2> QED BY <2>2, <2>3, <2>4
<1>5. ASSUME NEW r \in Retries, Retry(r) PROVE Trying'
  <2>1. /\ sched.timer # NoRun /\ run' = [run EXCEPT ![r] = sched.timer]
        /\ sched' = [sched EXCEPT !.timer = NoRun]
    BY <1>5 DEF Retry
  <2>2. sched'.timer = NoRun /\ sched'.gen = sched.gen
    BY <2>1 DEF TypeOK
  <2>3. run'[r] = sched.timer /\ \A q \in Retries \ {r} : run'[q] = run[q]
    BY <2>1 DEF TypeOK
  <2>4. pc'[r] # "idle" /\ \A q \in Retries \ {r} : pc'[q] = pc[q]
    <3>1. Retries \subseteq Callers
      BY DEF Callers
    <3> QED BY <1>5, <3>1 DEF Retry, Enter, Join, Wait, Establish, TypeOK
  <2>5. r \in Live'
    BY <2>1, <2>2, <2>3 DEF Live, Cycle
  <2> QED BY <2>1, <2>2, <2>3, <2>4, <2>5 DEF Trying
<1>6. ASSUME NEW n \in 1..made,
             Disposed(n) \/ Spawned(n) \/ Established(n) \/ Refused(n) \/ Break(n) \/ Disconnected(n)
      PROVE  Trying'
  <2>1. UNCHANGED <<pc, run, sched>>
    BY <1>6 DEF Disposed, Spawned, Established, Refused, Break, Disconnected, callers
  <2> QED BY <2>1, TryingKept
<1>7. ASSUME Disconnect \/ Dispose PROVE Trying'
  <2>1. sched' = Stopped /\ UNCHANGED <<pc, run>>
    BY <1>7 DEF Disconnect, Dispose, callers
  <2> QED BY <2>1, TryingStopped
<1> QED BY <1>1, <1>2, <1>3, <1>4, <1>5, <1>6, <1>7, TryingRetried DEF Next, Require, Connect

\* The status says reconnecting only while a try is scheduled or an attempt has yet to get its
\* session, or after the askpass server did not start; and never while an attempt is ending.
\* A retry that got nothing finds no session.
Erring == \E n \in Attempts : phase[n] = "threw" /\ child[n] = "none"
Coming == \E n \in Attempts : phase[n] \in Early
Leaving == \E n \in Attempts : phase[n] \in {"stopping", "failing"}
Evident == status[1] = "reconnecting" => disposed \/ Erring \/ sched.timer # NoRun \/ Coming
Ending == Leaving => status[1] # "reconnecting" \/ disposed
Lost == \A r \in Retries : pc[r] = "done" /\ got[r] = 0 => current = 0
Shown == Evident /\ Ending /\ Lost /\ ConnectedIsUsable /\ LiveIsShown

SInv == IInv /\ Sound /\ Calling /\ Trying /\ Shown

\* An attempt in progress is yet to get its session, or ending.
LEMMA InSight == (\E n \in Attempts : phase[n] \in InProgress) => Coming \/ Leaving
BY DEF InProgress, Coming, Leaving, Early

\* A new attempt is told as connecting, or the end of the old session is awaited first.
LEMMA ShownEstablish ==
  ASSUME SInv, made + 1 \in Attempts, connecting = 0, NEW c, NEW h, NEW v, Establish(c, h, v)
  PROVE  Shown'
<1> DEFINE n == made + 1
<1>1. /\ current' = 0
      /\ phase' = [phase EXCEPT ![n] = IF current # 0 THEN "closing" ELSE "askpass"]
      /\ current = 0 => status'[1] \in {"connecting", "reconnecting"}
  BY DEF Establish
<1>2. \A m \in Attempts : phase[m] \notin InProgress
  BY DEF SInv, IInv, Owning, Single, Attempts
<1>3. /\ phase'[n] = IF current # 0 THEN "closing" ELSE "askpass"
      /\ \A m \in Attempts : m # n => phase'[m] = phase[m]
  BY <1>1 DEF SInv, IInv, TypeOK
<1> HIDE DEF n
<1>4. n \in Attempts
  BY DEF n
<1>5. Evident'
  <2>1. Coming'
    BY <1>3, <1>4 DEF Coming, Early
  <2> QED BY <2>1 DEF Evident
<1>6. Ending'
  <2>1. ~Leaving'
    BY <1>2, <1>3 DEF Leaving, InProgress
  <2> QED BY <2>1 DEF Ending
<1>7. Lost' /\ LiveIsShown'
  BY <1>1 DEF Lost, LiveIsShown, Session
<1>8. ConnectedIsUsable'
  BY <1>1, <1>3, <1>4 DEF ConnectedIsUsable
<1> QED BY <1>5, <1>6, <1>7, <1>8 DEF Shown

\* connect() does not make the status false, even when it stops the retries.
LEMMA ShownEnter ==
  ASSUME SInv, made + 1 \in Attempts, NEW c \in Callers, NEW h \in Hosts, NEW v,
         Join(c, h, v) \/ Enter(c, h, v), disposed' = disposed
  PROVE  Shown'
<1>1. CASE connecting = 0 /\ Establish(c, h, v)
  BY <1>1, ShownEstablish
<1>2. CASE ~(connecting = 0 /\ Establish(c, h, v))
  <2>1. UNCHANGED <<host, phase, child, closed, broken, current, status>>
    BY <1>2 DEF Join, Enter, Wait, attempt
  <2>2. status[1] # "reconnecting" \/ disposed \/ Coming
    <3>1. CASE connecting # 0
      <4>1. connecting \in Attempts /\ phase[connecting] \in InProgress
        BY <3>1, ManagerAssumption DEF SInv, IInv, TypeOK, Sound, Attempts
      <4> QED BY <4>1, InSight DEF SInv, Shown, Ending
    <3>2. CASE connecting = 0
      <4>1. HostOf(Session) = h
        BY <1>2, <3>2, ManagerAssumption DEF Enter, Join, HostOf
      <4>2. Session # 0
        BY <4>1, ManagerAssumption DEF HostOf
      <4>3. status \in {<<"connected", host[Session]>>, <<"disconnected", None>>}
        BY <4>2 DEF SInv, Shown, LiveIsShown
      <4> QED BY <4>3
    <3> QED BY <3>1, <3>2
  <2>3. Evident' /\ Ending'
    BY <2>1, <2>2 DEF SInv, Shown, Ending, Evident, Coming, Leaving
  <2>4. Lost'
    <3>1. Retries \subseteq Callers
      BY DEF Callers
    <3>2. \A r \in Retries : pc'[r] = "done" /\ got'[r] = 0 => pc[r] = "done" /\ got[r] = 0
      <4> TAKE r \in Retries
      <4>1. CASE r # c
        BY <1>2, <3>1, <4>1 DEF Join, Enter, Wait, SInv, IInv, TypeOK
      <4>2. CASE r = c /\ Enter(c, h, v) /\ HostOf(Session) = h
        <5>1. got'[c] = Session /\ Session # 0
          BY <4>2, ManagerAssumption DEF Enter, HostOf, SInv, IInv, TypeOK
        <5> QED BY <4>2, <5>1
      <4>3. CASE r = c /\ Join(c, h, v)
        <5>1. pc'[c] \in {"awaiting", "queued"}
          BY <1>2, <4>3 DEF Join, Wait, SInv, IInv, TypeOK
        <5> QED BY <4>3, <5>1
      <4> QED BY <4>1, <4>2, <4>3 DEF Enter
    <3> QED BY <2>1, <3>2 DEF SInv, Shown, Lost
  <2>5. ConnectedIsUsable' /\ LiveIsShown'
    BY <2>1 DEF SInv, Shown, ConnectedIsUsable, LiveIsShown, Session
  <2> QED BY <2>3, <2>4, <2>5 DEF Shown
<1> QED BY <1>1, <1>2

\* An attempt goes on, and tells of it.
LEMMA ShownProgress ==
  ASSUME SInv, NEW n \in 1..made,
         Disposed(n) \/ Spawned(n) \/ Established(n) \/ Refused(n)
  PROVE  Shown'
<1>1. n \in Attempts /\ n # 0 /\ TypeOK
  BY ManagerAssumption DEF SInv, IInv, TypeOK, Attempts
<1>2. /\ closed' = closed /\ host' = host /\ broken' = broken /\ disposed' = disposed
      /\ UNCHANGED <<pc, got>>
      /\ phase[n] \in Early
      /\ \A m \in Attempts : m # n => phase'[m] = phase[m]
  BY <1>1 DEF TypeOK, Disposed, Spawned, Established, Refused, Progress, manager, callers, Early
<1>3. /\ current = 0 /\ ~closed[n]
      /\ \A m \in Attempts : m # n => phase[m] \notin InProgress
  BY <1>1, <1>2 DEF SInv, IInv, Owning, Single, Vacant, Sound, Staged, Early, InProgress
<1>4. CASE Disposed(n) \/ Spawned(n)
  <2>1. current' = 0 /\ phase'[n] \in {"askpass", "connecting"}
    BY <1>1, <1>3, <1>4 DEF Disposed, Spawned, Progress, manager, TypeOK
  <2>2. Coming' /\ ~Leaving'
    BY <1>1, <1>2, <1>3, <2>1 DEF Coming, Leaving, Early, InProgress
  <2>3. ConnectedIsUsable'
    <3>1. CASE Disposed(n)
      BY <3>1 DEF Disposed, ConnectedIsUsable
    <3>2. CASE Spawned(n)
      <4>1. phase[n] = "askpass" /\ status' = status
        BY <3>2 DEF Spawned, Progress, manager
      <4>2. ~\E m \in Attempts : phase[m] = "closing"
        BY <1>3, <4>1 DEF InProgress
      <4> QED BY <1>2, <1>3, <4>1, <4>2 DEF SInv, Shown, ConnectedIsUsable
    <3> QED BY <1>4, <3>1, <3>2
  <2> QED BY <2>1, <2>2, <2>3 DEF Shown, Evident, Ending, Lost, LiveIsShown, Session
<1>5. CASE Established(n)
  <2>1. current' = n /\ status' = <<"connected", host[n]>> /\ \A r \in Retries : pc[r] # "done"
    BY <1>5 DEF Established, Progress, Quiet
  <2>2. Evident' /\ Ending' /\ Lost'
    BY <1>2, <2>1 DEF Evident, Ending, Lost
  <2>3. ConnectedIsUsable' /\ LiveIsShown'
    BY <1>1, <1>2, <1>3, <2>1 DEF ConnectedIsUsable, LiveIsShown, Session
  <2> QED BY <2>2, <2>3 DEF Shown
<1>6. CASE Refused(n)
  <2>1. current' = 0 /\ status'[1] = "failed"
    BY <1>3, <1>6 DEF Refused
  <2> QED BY <2>1 DEF Shown, Evident, Ending, Lost, ConnectedIsUsable, LiveIsShown, Session
<1> QED BY <1>4, <1>5, <1>6

\* An attempt ends, which it has told before, unless its askpass server did not start.
LEMMA ShownSettle ==
  ASSUME SInv, NEW n \in 1..made, Settle(n)
  PROVE  Shown'
<1>1. n \in Attempts /\ n # 0 /\ TypeOK
  BY ManagerAssumption DEF SInv, IInv, TypeOK, Attempts
<1>2. /\ UNCHANGED <<host, child, closed, broken, current, disposed, status, sched>>
      /\ \A r \in Retries : pc[r] # "done"
      /\ phase[n] \in {"stopping", "failing", "askpass"}
      /\ \A m \in Attempts : m # n => phase'[m] = phase[m]
      /\ phase'[n] = IF phase[n] = "stopping" THEN "returned" ELSE "threw"
      /\ pc' = [c \in Callers |-> IF pc[c] = "awaiting" /\ on[c] = n THEN "done" ELSE pc[c]]
      /\ got' = [c \in Callers |-> IF pc[c] = "awaiting" /\ on[c] = n /\ phase[n] = "stopping"
                                   THEN n ELSE got[c]]
  BY <1>1 DEF TypeOK, Settle, Quiet
<1>3. Evident'
  <2>1. CASE phase[n] = "askpass"
    <3>1. Erring'
      BY <1>1, <1>2, <2>1 DEF Erring, SInv, Sound, Staged
    <3> QED BY <3>1 DEF Evident
  <2>2. CASE phase[n] # "askpass"
    <3>1. Leaving
      BY <1>1, <1>2, <2>2 DEF Leaving
    <3> QED BY <1>2, <3>1 DEF SInv, Shown, Ending, Evident
  <2> QED BY <2>1, <2>2
<1>4. Ending'
  <2>1. Leaving' => Leaving
    BY <1>2 DEF Leaving
  <2> QED BY <1>2, <2>1 DEF SInv, Shown, Ending
<1>5. Lost'
  <2>1. phase[n] # "stopping" => current = 0
    BY <1>1, <1>2 DEF SInv, Sound, Staged, IInv, Owning, Vacant, Early
  <2>2. Retries \subseteq Callers
    BY DEF Callers
  <2> QED BY <1>1, <1>2, <2>1, <2>2 DEF Lost
<1>6. ConnectedIsUsable' /\ LiveIsShown'
  <2>1. \A m \in Attempts : phase[m] = "closing" => phase'[m] = "closing"
    BY <1>2
  <2> QED BY <1>2, <2>1 DEF SInv, Shown, ConnectedIsUsable, LiveIsShown, Session
<1> QED BY <1>3, <1>4, <1>5, <1>6 DEF Shown

\* When no continuation is waiting to run, a retry under way is shared with an attempt in
\* progress; so with the scheduler running and a session there, the timer is set, unless the
\* session's own attempt is ending.
LEMMA TimerIsSet ==
  ASSUME SInv, Quiet, sched.running, current # 0, phase[current] # "stopping"
  PROVE  sched.timer # NoRun
<1>1. current \in Attempts
  BY ManagerAssumption DEF SInv, IInv, TypeOK, Attempts
<1>2. ASSUME NEW m \in Attempts, phase[m] \in InProgress PROVE FALSE
  <2>1. phase[m] \notin Early
    BY <1>2 DEF SInv, IInv, Owning, Vacant
  <2>2. CASE phase[m] = "failing"
    BY <2>2 DEF SInv, Sound, Staged
  <2>3. CASE phase[m] = "stopping"
    <3>1. current \in {0, m}
      BY <2>3 DEF SInv, Sound, Staged
    <3> QED BY <2>3, <3>1
  <2> QED BY <1>2, <2>1, <2>2, <2>3 DEF InProgress, Early
<1>3. SUFFICES ASSUME NEW r \in Live PROVE FALSE
  BY DEF SInv, Trying
<1>4. r \in Callers /\ pc[r] \in {"queued", "awaiting"}
  <2>1. r \in Retries /\ pc[r] # "idle" /\ pc[r] # "done"
    BY DEF SInv, Trying, Live, Quiet
  <2> QED BY <2>1 DEF SInv, IInv, TypeOK, Callers
<1>5. on[r] \in Attempts /\ phase[on[r]] # "none"
  BY <1>4, ManagerAssumption DEF SInv, IInv, TypeOK, Calling, Called, Attempts
<1>6. phase[on[r]] \in InProgress
  <2>1. CASE pc[r] = "awaiting"
    BY <1>4, <2>1 DEF SInv, Calling, Called
  <2>2. CASE pc[r] = "queued"
    <3>1. phase[on[r]] \notin {"returned", "threw"}
      BY <1>4, <2>2 DEF Quiet, Queued, Settled
    <3>2. phase[on[r]] \in {"none", "returned", "threw"} \cup InProgress
      BY <1>5 DEF SInv, IInv, TypeOK
    <3> QED BY <1>5, <3>1, <3>2
  <2> QED BY <1>4, <2>1, <2>2
<1> QED BY <1>2, <1>5, <1>6

\* The loss of the session is told, and retried if it is to be; unless its process exits while
\* the askpass server is still being stopped.
LEMMA ShownExit ==
  ASSUME SInv, ~EarlyDrops, NEW n \in 1..made, Exit(n)
  PROVE  Shown'
<1>1. n \in Attempts /\ n # 0 /\ TypeOK /\ Owning
  BY ManagerAssumption DEF SInv, IInv, TypeOK, Attempts
<1>2. /\ UNCHANGED <<host, phase, broken, disposed, pc, got>>
      /\ child[n] = "running" /\ \A m \in Attempts : m # n => child'[m] = child[m]
      /\ phase[n] # "stopping" /\ Quiet
      /\ \A r \in Retries : pc[r] # "done"
  BY <1>1 DEF TypeOK, Exit, callers, Quiet
<1>3. Erring => Erring'
  BY <1>2 DEF Erring
<1>4. Lost'
  BY <1>2 DEF Lost
<1>5. CASE UNCHANGED <<closed, current, status, sched>>
  <2>1. Evident' /\ Ending'
    BY <1>2, <1>3, <1>5 DEF SInv, Shown, Evident, Ending, Coming, Leaving
  <2>2. ConnectedIsUsable' /\ LiveIsShown'
    BY <1>2, <1>5 DEF SInv, Shown, ConnectedIsUsable, LiveIsShown, Session
  <2> QED BY <1>4, <2>1, <2>2 DEF Shown
<1>6. CASE n = current /\ UnexpectedClose(n)
  <2>1. CASE disposed
    <3>1. /\ UNCHANGED <<current, status, sched>> /\ disposed' /\ closed'[current]
      BY <1>1, <1>2, <1>6, <2>1 DEF UnexpectedClose, TypeOK
    <3> QED BY <1>4, <3>1 DEF Shown, Evident, Ending, ConnectedIsUsable, LiveIsShown, Session
  <2>2. CASE ~disposed
    <3>1. /\ current' = 0
          /\ status'[1] = IF auto THEN "reconnecting" ELSE "failed"
          /\ sched' = IF auto THEN Started(host[n]) ELSE sched
      BY <1>6, <2>2 DEF UnexpectedClose
    <3>2. auto => sched'.timer # NoRun
      <4>1. CASE sched.running
        BY <1>1, <1>2, <1>6, <3>1, <4>1, TimerIsSet DEF Started
      <4>2. CASE ~sched.running
        <5>1. Started(host[n]).timer.try = 1 /\ NoRun.try = 0
          BY <4>2 DEF Started, NoRun
        <5> QED BY <3>1, <5>1
      <4> QED BY <4>1, <4>2
    <3>3. Evident'
      BY <3>1, <3>2 DEF Evident
    <3>4. Ending'
      <4>1. ASSUME NEW m \in Attempts PROVE phase[m] \notin {"stopping", "failing"}
        BY <1>1, <1>2, <1>6 DEF SInv, Sound, Staged
      <4> QED BY <1>2, <4>1 DEF Ending, Leaving
    <3> QED BY <1>4, <3>1, <3>3, <3>4 DEF Shown, ConnectedIsUsable, LiveIsShown, Session
  <2> QED BY <2>1, <2>2
<1>7. n = current \/ UNCHANGED <<closed, current, status, sched>>
  BY <1>1, ExitIsPrivate
<1> QED BY <1>5, <1>6, <1>7 DEF Exit

\* The user leaves; a client breaks; a retry is over.
LEMMA ShownElse ==
  ASSUME SInv,
         \/ Disconnect \/ Dispose
         \/ \E n \in 1..made : Break(n) \/ Disconnected(n)
         \/ \E r \in Retries : Retried(r)
  PROVE  Shown'
<1>1. UNCHANGED <<host, phase, child>>
  BY DEF Disconnect, Dispose, Break, Disconnected, Retried, attempt
<1>2. CASE Disconnect
  <2>1. current' = 0 /\ status'[1] \in {"disconnected", "disconnecting"}
    BY <1>2 DEF Disconnect
  <2> QED BY <2>1 DEF Shown, Evident, Ending, Lost, ConnectedIsUsable, LiveIsShown, Session
<1>3. CASE Dispose
  <2>1. current' = 0 /\ disposed' /\ status' = status
    BY <1>3 DEF Dispose
  <2> QED BY <2>1 DEF Shown, Evident, Ending, Lost, ConnectedIsUsable, LiveIsShown, Session
<1>4. ASSUME NEW n \in 1..made, Break(n) PROVE Shown'
  <2>1. /\ UNCHANGED <<current, closed, disposed, status, sched, pc, got>>
        /\ n = current /\ broken' = [broken EXCEPT ![n] = TRUE]
    BY <1>4 DEF Break, manager, callers
  <2>2. broken'[n]
    BY <2>1, ManagerAssumption DEF SInv, IInv, TypeOK, Attempts
  <2>3. Evident' /\ Ending' /\ Lost' /\ ConnectedIsUsable'
    BY <1>1, <2>1 DEF SInv, Shown, Evident, Ending, Lost, Erring, Coming, Leaving, ConnectedIsUsable
  <2>4. LiveIsShown'
    BY <2>1, <2>2 DEF LiveIsShown, Session
  <2> QED BY <2>3, <2>4 DEF Shown
<1>5. ASSUME NEW n \in 1..made, Disconnected(n) PROVE Shown'
  <2>1. /\ UNCHANGED <<current, closed, broken, disposed, sched, pc, got>>
        /\ status' = <<"disconnected", None>>
    BY <1>5 DEF Disconnected, attempt, callers
  <2>2. Lost'
    BY <2>1 DEF SInv, Shown, Lost
  <2> QED BY <2>1, <2>2 DEF Shown, Evident, Ending, ConnectedIsUsable, LiveIsShown
<1>6. ASSUME NEW r \in Retries, Retried(r) PROVE Shown'
  <2>1. /\ UNCHANGED <<current, closed, broken, disposed>> /\ Settles(r) /\ pc[r] = "done"
        /\ r \in Callers
    BY <1>6 DEF Retried, attempt, Callers
  <2>2. Lost'
    <3>1. /\ pc'[r] = "idle"
          /\ \A q \in Callers \ {r} : pc'[q] = pc[q] /\ got'[q] = got[q]
      BY <1>6, <2>1 DEF Retried, SInv, IInv, TypeOK
    <3>2. Retries \subseteq Callers
      BY DEF Callers
    <3> QED BY <2>1, <3>1, <3>2 DEF SInv, Shown, Lost
  <2>3. CASE status' = status
    <3>1. sched.timer # NoRun => sched'.timer # NoRun
      <4>1. CASE TryAgain(r)
        <5>1. run[r] \in Runs /\ run[r].try \in Nat
          BY DEF SInv, IInv, TypeOK, Runs
        <5>2. sched'.timer = [run[r] EXCEPT !.try = run[r].try + 1]
          BY <4>1 DEF TryAgain, SInv, IInv, TypeOK
        <5>3. sched'.timer.try = run[r].try + 1 /\ NoRun.try = 0
          BY <5>1, <5>2 DEF Runs, NoRun
        <5> QED BY <5>1, <5>3
      <4>2. CASE ~TryAgain(r)
        BY <2>1, <4>2 DEF Settles, Succeeded, GiveUp, SInv, IInv, TypeOK
      <4> QED BY <4>1, <4>2
    <3>2. Evident' /\ Ending'
      BY <1>1, <2>1, <2>3, <3>1 DEF SInv, Shown, Evident, Ending, Erring, Coming, Leaving
    <3>3. ConnectedIsUsable' /\ LiveIsShown'
      BY <1>1, <2>1, <2>3 DEF SInv, Shown, ConnectedIsUsable, LiveIsShown, Session
    <3> QED BY <2>2, <3>2, <3>3 DEF Shown
  <2>4. CASE GiveUp(r)
    <3>1. status'[1] = "failed" /\ current = 0
      BY <2>1, <2>4 DEF GiveUp, SInv, Shown, Lost
    <3> QED BY <2>1, <2>2, <3>1 DEF Shown, Evident, Ending, ConnectedIsUsable, LiveIsShown, Session
  <2> QED BY <2>1, <2>3, <2>4 DEF Settles, Succeeded, TryAgain
<1> QED BY <1>2, <1>3, <1>4, <1>5, <1>6

\* Every step keeps the status true.
LEMMA StepShown == SInv /\ ~EarlyDrops /\ Next => Shown'
<1> SUFFICES ASSUME SInv, ~EarlyDrops, Next PROVE Shown'
  OBVIOUS
<1>1. TypeOK /\ Roomy
  BY DEF SInv, IInv
<1>2. ASSUME NEW c \in Clicks, NEW h \in Hosts, Call(c, h) PROVE Shown'
  BY <1>1, <1>2, NextAttempt, ShownEnter DEF Call, Callers
<1>3. ASSUME NEW c \in Clicks, Require(c) PROVE Shown'
  <2>1. status[2] \in Hosts
    BY <1>1, <1>3 DEF Require, TypeOK
  <2> QED BY <1>2, <1>3, <2>1 DEF Require
<1>4. ASSUME NEW c \in Callers, Requeue(c) PROVE Shown'
  <2>1. want[c] \in Hosts
    BY <1>4 DEF Requeue, Queued, SInv, Calling, Called
  <2> QED BY <1>1, <1>4, <2>1, NextAttempt, ShownEnter DEF Requeue
<1>5. ASSUME NEW r \in Retries, Retry(r) PROVE Shown'
  <2>1. sched.timer.host \in Hosts
    BY <1>5 DEF Retry, SInv, Trying
  <2> QED BY <1>1, <1>5, <2>1, NextAttempt, ShownEnter DEF Retry, Callers
<1> QED BY <1>2, <1>3, <1>4, <1>5, ShownProgress, ShownSettle, ShownExit, ShownElse DEF Next, Connect

\* Every step keeps the attempts sound.
LEMMA StepSound == IInv /\ Sound /\ Calling /\ Trying /\ Next => Sound'
<1> SUFFICES ASSUME IInv, Sound, Calling, Trying, Next PROVE Sound'
  OBVIOUS
<1>1. TypeOK /\ Roomy /\ Owning /\ Sound
  BY DEF IInv
<1>2. ASSUME NEW c \in Clicks, NEW h \in Hosts, Call(c, h) PROVE Sound'
  BY <1>1, <1>2, NextAttempt, SoundJoin DEF Call
<1>3. ASSUME NEW c \in Clicks, Require(c) PROVE Sound'
  <2>1. status[2] \in Hosts
    BY <1>1, <1>3 DEF Require, TypeOK
  <2> QED BY <1>2, <1>3, <2>1 DEF Require
<1>4. ASSUME NEW c \in Callers, Requeue(c) PROVE Sound'
  <2>1. want[c] \in Hosts
    BY <1>4 DEF Requeue, Queued, Calling, Called
  <2> QED BY <1>1, <1>4, <2>1, NextAttempt, SoundJoin DEF Requeue
<1>5. ASSUME NEW r \in Retries, Retry(r) PROVE Sound'
  <2>1. sched.timer.host \in Hosts
    BY <1>5 DEF Retry, Trying
  <2> QED BY <1>1, <1>5, <2>1, NextAttempt, SoundJoin DEF Retry
<1>6. ASSUME NEW n \in 1..made, Break(n) \/ Disconnected(n) PROVE Sound'
  BY <1>1, <1>6, SoundKept DEF Break, Disconnected, attempt, manager
<1>7. ASSUME NEW r \in Retries, Retried(r) PROVE Sound'
  BY <1>1, <1>7, SoundKept DEF Retried, attempt
<1> QED BY <1>1, <1>2, <1>3, <1>4, <1>5, <1>6, <1>7, SoundProgress, SoundSettle, SoundExit, SoundLeave
        DEF Next, Connect

-----------------------------------------------------------------------------
(* The theorems.                                                           *)

\* Initially nobody has called, and nothing is there.
LEMMA InitIInv == Init => IInv
<1> SUFFICES ASSUME Init PROVE IInv
  OBVIOUS
<1>1. MaxMade \in Nat /\ MaxTries \in Nat \ {0}
  BY ManagerAssumption
<1>2. TypeOK
  <2>1. NoRun \in Runs
    BY RunsTyped
  <2>2. Connections
    <3>1. made = 0 /\ current = 0 /\ connecting = 0 /\ made \in 0..MaxMade /\ 0 \in 0..made
      BY <1>1 DEF Init
    <3>2. prev \in [Attempts -> 0..MaxMade] /\ host \in [Attempts -> Hosts \cup {None}]
      BY <1>1 DEF Init
    <3>3. on \in [Callers -> 0..made] /\ got \in [Callers -> 0..made]
      BY <3>1 DEF Init
    <3>4. via \in [Attempts -> BOOLEAN] /\ closed \in [Attempts -> BOOLEAN] /\ broken \in [Attempts -> BOOLEAN]
      BY DEF Init
    <3>5. /\ phase \in [Attempts -> {"none", "returned", "threw"} \cup InProgress]
          /\ child \in [Attempts -> {"none", "running", "exited"}]
          /\ pc \in [Callers -> {"idle", "queued", "awaiting", "done"}]
          /\ want \in [Callers -> Hosts \cup {None}]
      BY DEF Init
    <3>6. status \in Statuses \X (Hosts \cup {None})
      BY DEF Init, Statuses
    <3> QED BY <3>1, <3>2, <3>3, <3>4, <3>5, <3>6 DEF Connections
  <2>3. Rest
    <3>1. sched \in [running : BOOLEAN, gen : Nat, timer : Runs] /\ run \in [Retries -> Runs]
      BY <2>1 DEF Init
    <3>2. auto \in BOOLEAN /\ disposed \in BOOLEAN /\ parting \subseteq 1..made
      BY DEF Init
    <3> QED BY <3>1, <3>2 DEF Rest
  <2> QED BY <2>2, <2>3 DEF TypeOK, Connections, Rest
<1>3. Roomy
  <2>1. Queued = {}
    BY DEF Init, Queued
  <2> QED BY <1>1, <2>1, FS_EmptySet DEF Init, Roomy
<1>4. Owning
  BY DEF Init, Owning, Single, Vacant, Owned, InProgress, Early
<1>5. Serving
  BY DEF Init, Serving, Served
<1>6. Cycle
  <2>1. sched.timer = NoRun /\ sched.gen = 0 /\ NoRun.gen = 0
    BY DEF Init, NoRun
  <2>2. \A r \in Retries : run[r] = NoRun /\ pc[r] = "idle"
    BY DEF Init, Callers
  <2>3. Live = {}
    BY <2>2 DEF Live
  <2> QED BY <2>1, <2>2, <2>3 DEF Cycle
<1> QED BY <1>2, <1>3, <1>4, <1>5, <1>6 DEF IInv

\* Every step keeps the invariant.
LEMMA StepIInv == IInv /\ [Next]_vars => IInv'
<1> SUFFICES ASSUME IInv, [Next]_vars PROVE IInv'
  OBVIOUS
<1>1. CASE Next
  BY <1>1, StepTyped, StepRoomy, StepOwning, StepServing, StepCycle DEF IInv
<1>2. CASE UNCHANGED vars
  <2>1. UNCHANGED <<attempt, manager, sched, callers>>
    BY <1>2 DEF vars
  <2>2. TypeOK'
    BY <2>1 DEF IInv, TypeOK, attempt, manager, callers
  <2>3. Roomy' /\ Owning'
    BY <2>1 DEF IInv, Roomy, Queued, Owning, Single, Vacant, Owned, attempt, manager, callers
  <2>4. Serving' /\ Cycle'
    BY <2>1 DEF IInv, Serving, Served, HostOf, Cycle, Live, attempt, manager, callers
  <2> QED BY <2>2, <2>3, <2>4 DEF IInv
<1> QED BY <1>1, <1>2

\* The invariant holds of every behaviour.
LEMMA Invariance == Spec => []IInv
<1> QED BY InitIInv, StepIInv, PTL DEF Spec

\* Every variable has its type, for any number of hosts, callers and retries.
THEOREM TypeOKHolds == Spec => []TypeOK
<1>1. IInv => TypeOK
  BY DEF IInv
<1> QED BY <1>1, Invariance, PTL

\* A caller gets a session for the host it asked for.
THEOREM GotWhatAskedHolds == Spec => []GotWhatAsked
<1>1. IInv => GotWhatAsked
  BY DEF IInv, Serving, Served, GotWhatAsked
<1> QED BY <1>1, Invariance, PTL

\* One attempt is in progress at a time, however many callers there are.
THEOREM OneAttemptHolds == Spec => []OneAttempt
<1>1. ASSUME IInv PROVE OneAttempt
  <2> DEFINE S == {n \in Attempts : phase[n] \in InProgress}
  <2>1. S \subseteq {connecting}
    BY <1>1 DEF IInv, Owning, Single
  <2>2. IsFiniteSet({connecting}) /\ Cardinality({connecting}) = 1
    BY FS_Singleton
  <2>3. Cardinality(S) <= Cardinality({connecting})
    BY <2>1, <2>2, FS_Subset
  <2> QED BY <2>2, <2>3 DEF OneAttempt
<1> QED BY <1>1, Invariance, PTL

\* An ssh process that nobody is getting rid of belongs to the session or to the attempt in
\* progress, or its attempt failed.
THEOREM ChildAccountedHolds == Spec => []ChildAccounted
<1>1. ASSUME IInv PROVE ChildAccounted
  <2> SUFFICES ASSUME NEW n \in Attempts, child[n] = "running"
               PROVE  n = current \/ closed[n] \/ phase[n] \in InProgress \/ phase[n] = "threw"
    BY DEF ChildAccounted, Accounted
  <2> QED BY <1>1 DEF IInv, Owning, Owned
<1> QED BY <1>1, Invariance, PTL

\* There is one cycle of retries: at most one run or timer of the present generation.
THEOREM OneRetryCycleHolds == Spec => []OneRetryCycle
<1>1. ASSUME IInv PROVE OneRetryCycle
  <2>1. sched.timer # NoRun => sched.running /\ sched.timer.gen = sched.gen
    BY <1>1 DEF IInv, Cycle
  <2>2. CASE Live = {}
    <3>1. Cardinality(Live) = 0
      BY <2>2, FS_EmptySet
    <3> QED BY <2>1, <3>1 DEF OneRetryCycle
  <2>3. CASE Live # {}
    <3>1. PICK r \in Live : TRUE
      BY <2>3
    <3>2. Live = {r} /\ sched.timer = NoRun
      BY <1>1, <3>1 DEF IInv, Cycle, Live
    <3>3. Cardinality(Live) = 1
      BY <3>2, FS_Singleton
    <3> QED BY <2>1, <3>2, <3>3 DEF OneRetryCycle
  <2> QED BY <2>2, <2>3
<1> QED BY <1>1, Invariance, PTL

\* The exit of one ssh process changes neither the session nor the status of another.
THEOREM CloseIsPrivateHolds == Spec => CloseIsPrivate
<1>1. ASSUME IInv, [Next]_vars,
             NEW n \in Attempts, child[n] = "running", child'[n] = "exited", current # n
      PROVE  current' = current /\ status' = status
  <2>1. child' # child
    BY <1>1
  <2>2. PICK m \in 1..made : Spawned(m) \/ Exit(m)
    BY <1>1, <2>1 DEF Next, Require, Connect, Call, Enter, Join, Wait, Establish, Requeue, Disposed,
       Established, Refused, Settle, Break, Disconnected, Retry, Retried, Disconnect, Dispose,
       attempt, manager, callers, vars
  <2>3. m \in Attempts /\ TypeOK /\ Owning
    BY <1>1, ManagerAssumption DEF IInv, TypeOK, Attempts
  <2>4. ~Spawned(m)
    BY <1>1, <2>3 DEF Spawned, TypeOK
  <2>5. Exit(m) /\ m = n
    BY <1>1, <2>2, <2>3, <2>4 DEF Exit, TypeOK
  <2> QED BY <1>1, <2>3, <2>5, ExitIsPrivate
<1>2. IInv /\ [Next]_vars =>
        [\A n \in Attempts : child[n] = "running" /\ child'[n] = "exited" /\ current # n =>
           current' = current /\ status' = status]_vars
  BY <1>1
<1> QED BY <1>2, Invariance, PTL DEF Spec, CloseIsPrivate

\* Initially the status is disconnected.
LEMMA InitSInv == Init => SInv
<1> SUFFICES ASSUME Init PROVE SInv
  OBVIOUS
<1>1. IInv
  BY InitIInv
<1>2. Sound
  <2>1. made = 0 /\ \A n \in Attempts : n \in Nat /\ n > 0
    BY DEF Init, Attempts
  <2> QED BY <2>1 DEF Init, Sound, Staged, Early
<1>3. Calling
  BY DEF Init, Calling, Called
<1>4. Trying
  BY DEF Init, Trying
<1>5. Shown
  BY DEF Init, Shown, Evident, Ending, Lost, ConnectedIsUsable, LiveIsShown, Session, Callers
<1> QED BY <1>1, <1>2, <1>3, <1>4, <1>5 DEF SInv

\* Every step keeps the invariant about the status.
LEMMA StepSInv == ~EarlyDrops /\ SInv /\ [Next]_vars => SInv'
<1> SUFFICES ASSUME ~EarlyDrops, SInv, [Next]_vars PROVE SInv'
  OBVIOUS
<1>1. IInv'
  BY StepIInv DEF SInv
<1>2. CASE Next
  <2>1. Sound' /\ Shown'
    BY <1>2, StepSound, StepShown DEF SInv
  <2>2. Calling'
    BY <1>2, StepCalling DEF SInv, IInv, Trying
  <2>3. Trying'
    BY <1>2, StepTrying DEF SInv, IInv
  <2> QED BY <1>1, <2>1, <2>2, <2>3 DEF SInv
<1>3. CASE UNCHANGED vars
  <2>1. UNCHANGED <<attempt, manager, sched, callers>>
    BY <1>3 DEF vars
  <2>2. Sound' /\ Calling'
    BY <2>1 DEF SInv, Sound, Staged, Calling, Called, attempt, manager, callers
  <2>3. Trying'
    BY <2>1 DEF SInv, Trying, Live, attempt, manager, callers
  <2>4. Evident' /\ Ending' /\ Lost'
    BY <2>1 DEF SInv, Shown, Evident, Ending, Lost, Erring, Coming, Leaving, attempt, manager, callers
  <2>5. ConnectedIsUsable' /\ LiveIsShown'
    BY <2>1 DEF SInv, Shown, ConnectedIsUsable, LiveIsShown, Session, attempt, manager, callers
  <2> QED BY <1>1, <2>2, <2>3, <2>4, <2>5 DEF SInv, Shown
<1> QED BY <1>2, <1>3

\* The status tells the truth: what it calls connected can be used, a session that is there is
\* called connected, and what it calls reconnecting is being tried; unless the process of a session
\* exits before its attempt has stopped the askpass server.
THEOREM StatusIsTrueHolds ==
  ASSUME ~EarlyDrops
  PROVE  Spec => []StatusIsTrue
<1>1. SInv => StatusIsTrue
  <2> SUFFICES ASSUME SInv PROVE ReconnectingIsTrying
    BY DEF SInv, Shown, StatusIsTrue
  <2> QED BY DEF SInv, Shown, Evident, Erring, Coming, Early, InProgress, ReconnectingIsTrying
<1>2. SInv /\ [Next]_vars => SInv'
  BY StepSInv
<1> QED BY <1>1, <1>2, InitSInv, PTL DEF Spec
-----------------------------------------------------------------------------
(* The connection its callers share.                                       *)

\* Who waits in the queue waits for another host; and a client breaks only once it is the
\* session's.
Elsewhere(c) == pc[c] = "queued" => host[on[c]] # want[c]
Unbroken(n) == n > made \/ phase[n] \in Early => ~broken[n]

Sharing == /\ IInv /\ Sound /\ Calling /\ Trying
           /\ \A c \in Callers : Elsewhere(c)
           /\ \A n \in Attempts : Unbroken(n)

\* An attempt keeps its host.
LEMMA HostsKept == TypeOK /\ Roomy /\ [Next]_vars => \A n \in 1..made : host'[n] = host[n]
<1> SUFFICES ASSUME TypeOK, Roomy, [Next]_vars, NEW n \in 1..made PROVE host'[n] = host[n]
  OBVIOUS
<1>1. n \in Attempts /\ n # made + 1
  BY ManagerAssumption DEF TypeOK, Attempts
<1>2. ASSUME NEW c, NEW h, NEW v, Join(c, h, v) \/ Enter(c, h, v) PROVE host'[n] = host[n]
  BY <1>1, <1>2 DEF Join, Enter, Wait, Establish, attempt, TypeOK
<1> QED BY <1>2 DEF Next, Require, Connect, Call, Requeue, Disposed, Spawned, Established, Refused,
     Settle, Exit, Break, Disconnected, Retry, Retried, Disconnect, Dispose, attempt, vars

\* A caller in the queue waits for an attempt that was made.
LEMMA ElsewhereKept ==
  ASSUME TypeOK, Calling, NEW c \in Callers, Elsewhere(c), UNCHANGED <<want[c], on[c]>>,
         pc'[c] # "queued" \/ pc'[c] = pc[c], \A n \in 1..made : host'[n] = host[n]
  PROVE  Elsewhere(c)'
<1>1. pc[c] = "queued" => on[c] \in 1..made
  BY DEF TypeOK, Calling, Called
<1> QED BY <1>1 DEF Elsewhere

\* Only connect() puts a caller in the queue.
LEMMA ElsewhereJoin ==
  ASSUME TypeOK, Calling, \A c \in Callers : Elsewhere(c), \A n \in 1..made : host'[n] = host[n],
         NEW c \in Callers, NEW h, NEW v, Join(c, h, v) \/ Enter(c, h, v)
  PROVE  \A d \in Callers : Elsewhere(d)'
<1>1. \A d \in Callers \ {c} : UNCHANGED <<pc[d], want[d], on[d]>>
  BY DEF Join, Enter, Wait, Establish, TypeOK
<1>2. Elsewhere(c)'
  <2>1. CASE connecting # 0 /\ host[connecting] # h /\ Wait(c, h, "queued")
    <3>1. host'[connecting] = host[connecting] /\ on'[c] = connecting /\ want'[c] = h
      BY <2>1 DEF TypeOK, Wait, attempt
    <3> QED BY <2>1, <3>1 DEF Elsewhere
  <2>2. CASE pc'[c] # "queued"
    BY <2>2 DEF Elsewhere
  <2> QED BY <2>1, <2>2 DEF Join, Enter, Wait, Establish, TypeOK
<1>3. \A d \in Callers \ {c} : Elsewhere(d)'
  BY <1>1, ElsewhereKept
<1> QED BY <1>2, <1>3

LEMMA StepElsewhere ==
  ASSUME TypeOK, Roomy, Calling, \A c \in Callers : Elsewhere(c), Next
  PROVE  \A c \in Callers : Elsewhere(c)'
<1>1. \A n \in 1..made : host'[n] = host[n]
  BY HostsKept
<1>2. CASE \/ \E c \in Clicks : Require(c) \/ \E h \in Hosts : Connect(c, h)
           \/ \E c \in Callers : Requeue(c)
           \/ \E r \in Retries : Retry(r)
  BY <1>1, <1>2, ElsewhereJoin DEF Require, Connect, Call, Requeue, Retry, Callers
<1>3. CASE /\ UNCHANGED <<want, on>>
           /\ \A c \in Callers : pc'[c] # "queued" \/ pc'[c] = pc[c]
  BY <1>1, <1>3, ElsewhereKept
<1>4. CASE \E n \in 1..made : Settle(n)
  BY <1>3, <1>4 DEF Settle
<1>5. CASE \E r \in Retries : Retried(r)
  BY <1>3, <1>5 DEF Retried, TypeOK
<1> QED BY <1>2, <1>3, <1>4, <1>5 DEF Next, Disposed, Spawned, Established, Refused, Exit, Break,
     Disconnected, Disconnect, Dispose, callers

LEMMA StepUnbroken ==
  ASSUME TypeOK, Roomy, Owning, \A n \in Attempts : Unbroken(n), Next
  PROVE  \A n \in Attempts : Unbroken(n)'
<1> SUFFICES ASSUME NEW n \in Attempts PROVE Unbroken(n)'
  OBVIOUS
<1>1. n \in Nat /\ n # 0 /\ made \in Nat
  BY ManagerAssumption DEF TypeOK, Attempts
<1>2. CASE /\ broken' = broken /\ made' = made
           /\ phase'[n] = phase[n] \/ phase[n] \in Early \/ phase'[n] \notin Early
  BY <1>2 DEF Unbroken
<1>3. ASSUME NEW c, NEW h, NEW v, Join(c, h, v) \/ Enter(c, h, v) PROVE Unbroken(n)'
  <2>1. CASE Establish(c, h, v)
    <3>1. /\ broken' = broken /\ made' = made + 1
          /\ n # made + 1 => phase'[n] = phase[n]
      BY <2>1 DEF Establish, TypeOK
    <3> QED BY <1>1, <3>1 DEF Unbroken
  <2>2. CASE UNCHANGED attempt
    BY <1>2, <2>2 DEF attempt
  <2> QED BY <1>3, <2>1, <2>2 DEF Join, Enter, Wait
<1>4. ASSUME NEW m \in 1..made, Break(m) PROVE Unbroken(n)'
  <2>1. /\ phase' = phase /\ made' = made /\ \A k \in Attempts : k # m => broken'[k] = broken[k]
        /\ m = current
    BY <1>4 DEF Break, TypeOK
  <2>2. m \notin {k \in Attempts : k > made \/ phase[k] \in Early}
    BY <1>1, <2>1 DEF Owning, Vacant
  <2> QED BY <2>1, <2>2 DEF Unbroken
<1>5. ASSUME NEW m \in 1..made, Disposed(m) \/ Spawned(m) \/ Established(m) \/ Refused(m) \/ Settle(m)
      PROVE  Unbroken(n)'
  <2>1. broken' = broken /\ made' = made
    BY <1>5 DEF Disposed, Spawned, Established, Refused, Settle
  <2>2. phase'[n] = phase[n] \/ phase[n] \in Early \/ phase'[n] \notin Early
    BY <1>5 DEF Disposed, Spawned, Established, Refused, Settle, Progress, Early, TypeOK
  <2> QED BY <1>2, <2>1, <2>2
<1>6. ASSUME UNCHANGED <<made, phase, broken>> PROVE Unbroken(n)'
  BY <1>2, <1>6
<1> QED BY <1>3, <1>4, <1>5, <1>6 DEF Next, Require, Connect, Call, Requeue, Retry, Retried, Exit,
     Disconnected, Disconnect, Dispose, attempt

LEMMA InitSharing == Init => Sharing
<1> SUFFICES ASSUME Init PROVE Sharing
  OBVIOUS
<1>1. IInv /\ Sound /\ Calling /\ Trying
  BY InitSInv DEF SInv
<1>2. (\A c \in Callers : Elsewhere(c)) /\ \A n \in Attempts : Unbroken(n)
  BY DEF Init, Elsewhere, Unbroken
<1> QED BY <1>1, <1>2 DEF Sharing

LEMMA StepSharing == Sharing /\ [Next]_vars => Sharing'
<1> SUFFICES ASSUME Sharing, [Next]_vars PROVE Sharing'
  OBVIOUS
<1>1. IInv'
  BY StepIInv DEF Sharing
<1>2. CASE Next
  <2>1. Sound' /\ Calling' /\ Trying'
    BY <1>2, StepSound, StepCalling, StepTrying DEF Sharing, IInv, Trying
  <2>2. (\A c \in Callers : Elsewhere(c)') /\ \A n \in Attempts : Unbroken(n)'
    BY <1>2, StepElsewhere, StepUnbroken DEF Sharing, IInv
  <2> QED BY <1>1, <2>1, <2>2 DEF Sharing
<1>3. CASE UNCHANGED vars
  <2>1. UNCHANGED <<attempt, manager, sched, callers>>
    BY <1>3 DEF vars
  <2>2. Sound' /\ Calling' /\ Trying'
    BY <2>1 DEF Sharing, Sound, Staged, Calling, Called, Trying, Live, attempt, manager, callers
  <2>3. (\A c \in Callers : Elsewhere(c)') /\ \A n \in Attempts : Unbroken(n)'
    BY <2>1 DEF Sharing, Elsewhere, Unbroken, attempt, callers
  <2> QED BY <1>1, <2>2, <2>3 DEF Sharing
<1> QED BY <1>2, <1>3

\* What the callers can see of a step: one of them, or none, hears something.
LEMMA OneHears ==
  ASSUME TypeOK, NEW c \in Callers, \A n \in 1..made : host'[n] = host[n],
         \A d \in Callers \ {c} : UNCHANGED <<pc[d], got[d]>>
  PROVE  /\ [d \in Callers |-> Heard(d)]' = [[d \in Callers |-> Heard(d)] EXCEPT ![c] = Heard(c)']
         /\ [d \in Callers |-> HostOf(got[d])]'
              = [[d \in Callers |-> HostOf(got[d])] EXCEPT ![c] = HostOf(got[c])']
<1>1. ASSUME NEW d \in Callers \ {c}
      PROVE  Heard(d)' = Heard(d) /\ HostOf(got[d])' = HostOf(got[d])
  <2>1. got[d] \in 0..made /\ made \in Nat
    BY DEF TypeOK
  <2>2. got'[d] = got[d] /\ pc'[d] = pc[d]
    OBVIOUS
  <2>3. got[d] # 0 => host'[got[d]] = host[got[d]]
    BY <2>1
  <2>4. HostOf(got[d])' = HostOf(got[d])
    BY <2>2, <2>3 DEF HostOf
  <2>5. Heard(d)' = Heard(d)
    BY <2>2 DEF Heard
  <2> QED BY <2>4, <2>5
<1> QED BY <1>1

LEMMA NobodyHears ==
  ASSUME TypeOK, \A n \in 1..made : host'[n] = host[n], UNCHANGED <<pc, got, want>>
  PROVE  UNCHANGED <<[c \in Callers |-> Heard(c)], want, [c \in Callers |-> HostOf(got[c])]>>
<1>1. ASSUME NEW c \in Callers PROVE Heard(c)' = Heard(c) /\ HostOf(got[c])' = HostOf(got[c])
  <2>1. got[c] \in 0..made /\ made \in Nat
    BY DEF TypeOK
  <2> QED BY <2>1 DEF Heard, HostOf
<1> QED BY <1>1

\* Nothing of a step can be seen.
Unseen == UNCHANGED <<HostOf(Session), HostOf(connecting),
                      connecting # 0 /\ phase[connecting] = "stopping",
                      [c \in Callers |-> Heard(c)], want, [c \in Callers |-> HostOf(got[c])]>>

\* connect(): a caller waits, or makes an attempt.
LEMMA SharedJoin ==
  ASSUME Sharing, made + 1 \in Attempts, NEW c \in Callers, NEW h \in Hosts, NEW v,
         (pc[c] = "idle" /\ HostOf(Session) # h) \/ (pc[c] = "queued" /\ want[c] = h),
         Join(c, h, v), \A n \in 1..made : host'[n] = host[n]
  PROVE  Shared!Next \/ Unseen
<1>1. TypeOK /\ made \in Nat /\ got[c] = 0 /\ h # None
  BY ManagerAssumption DEF Sharing, IInv, TypeOK, Serving, Served
<1>2. /\ got' = got /\ want' = [want EXCEPT ![c] = h]
      /\ pc' \in {[pc EXCEPT ![c] = "awaiting"], [pc EXCEPT ![c] = "queued"]}
  BY DEF Join, Wait, Establish
<1>3. Heard(c)' = "waiting" /\ HostOf(got[c])' = None /\ HostOf(got[c]) = None
  BY <1>1, <1>2 DEF Heard, HostOf, TypeOK
<1>4. /\ [d \in Callers |-> Heard(d)]' = [[d \in Callers |-> Heard(d)] EXCEPT ![c] = "waiting"]
      /\ [d \in Callers |-> HostOf(got[d])]' = [d \in Callers |-> HostOf(got[d])]
  <2>1. \A d \in Callers \ {c} : UNCHANGED <<pc[d], got[d]>>
    BY <1>1, <1>2 DEF TypeOK
  <2> QED BY <1>1, <1>3, <2>1, OneHears
<1>5. Heard(c) = IF pc[c] = "idle" THEN "idle" ELSE "waiting"
  BY DEF Heard
<1>6. CASE connecting = 0 /\ Establish(c, h, v)
  <2>1. HostOf(connecting) = None /\ HostOf(connecting)' = h /\ HostOf(Session)' = None
    BY <1>1, <1>6 DEF Establish, HostOf, Session, TypeOK
  <2>2. (connecting # 0 /\ phase[connecting] = "stopping")' = FALSE
    BY <1>1, <1>6 DEF Establish, TypeOK
  <2>3. Shared!Begin(c, h)
    BY <1>2, <1>4, <1>5, <2>1, <2>2 DEF Shared!Begin, Shared!Goto, Shared!Asks
  <2> QED BY <2>3 DEF Shared!Next
<1>7. CASE connecting # 0 /\ UNCHANGED <<attempt, current, connecting>>
  <2>1. HostOf(connecting) # None
    BY <1>7, ManagerAssumption DEF Sharing, IInv, TypeOK, Sound, Staged, HostOf, Attempts
  <2>2. UNCHANGED <<HostOf(Session), HostOf(connecting), connecting # 0 /\ phase[connecting] = "stopping">>
    BY <1>7 DEF attempt, HostOf, Session
  <2>3. CASE pc[c] = "idle"
    <3>1. Shared!Wait(c, h)
      BY <1>2, <1>4, <1>5, <2>1, <2>2, <2>3 DEF Shared!Wait, Shared!Goto, Shared!Asks
    <3> QED BY <3>1 DEF Shared!Next
  <2>4. CASE pc[c] = "queued" /\ want[c] = h
    <3>1. want' = want
      BY <1>1, <1>2, <2>4 DEF TypeOK
    <3>2. [[d \in Callers |-> Heard(d)] EXCEPT ![c] = "waiting"] = [d \in Callers |-> Heard(d)]
      BY <1>5, <2>4
    <3> QED BY <1>4, <2>2, <3>1, <3>2 DEF Unseen
  <2> QED BY <2>3, <2>4
<1>8. HostOf(connecting) = h => connecting # 0
  BY <1>1 DEF HostOf
<1> QED BY <1>6, <1>7, <1>8 DEF Join, Wait

\* Or the session there is will do.
LEMMA SharedEnter ==
  ASSUME Sharing, made + 1 \in Attempts, NEW c \in Callers, NEW h \in Hosts, NEW v,
         pc[c] = "idle", Enter(c, h, v), \A n \in 1..made : host'[n] = host[n]
  PROVE  Shared!Next \/ Unseen
<1>1. CASE HostOf(Session) # h
  BY <1>1, SharedJoin DEF Enter
<1>2. CASE /\ HostOf(Session) = h /\ pc' = [pc EXCEPT ![c] = "done"]
           /\ want' = [want EXCEPT ![c] = h] /\ got' = [got EXCEPT ![c] = Session]
           /\ UNCHANGED <<attempt, current, connecting, status, on>>
  <2>1. TypeOK /\ Session # 0
    BY <1>2, ManagerAssumption DEF Sharing, IInv, HostOf
  <2>2. pc'[c] = "done" /\ got'[c] = Session /\ host' = host
    BY <1>2, <2>1 DEF TypeOK, attempt
  <2>3. Heard(c)' = "answered" /\ HostOf(got[c])' = h /\ Heard(c) = "idle"
    BY <1>2, <2>1, <2>2 DEF Heard, HostOf
  <2>4. \A d \in Callers \ {c} : UNCHANGED <<pc[d], got[d]>>
    BY <1>2, <2>1 DEF TypeOK
  <2>5. UNCHANGED <<HostOf(Session), HostOf(connecting), connecting # 0 /\ phase[connecting] = "stopping">>
    BY <1>2 DEF attempt, HostOf, Session
  <2>6. Shared!Find(c, h)
    BY <1>2, <2>1, <2>3, <2>4, <2>5, OneHears DEF Shared!Find, Shared!Goto, Shared!Asks
  <2> QED BY <2>6 DEF Shared!Next
<1> QED BY <1>1, <1>2 DEF Enter

\* An attempt goes on, and may have its session.
LEMMA SharedProgress ==
  ASSUME Sharing, NEW n \in 1..made, Disposed(n) \/ Spawned(n) \/ Established(n) \/ Refused(n)
  PROVE  Shared!Next \/ Unseen
<1>1. /\ TypeOK /\ n \in Attempts /\ n # 0 /\ ~(n > made)
      /\ UNCHANGED <<host, closed, broken, connecting, pc, want, got>>
      /\ phase[n] \in Early /\ phase' = [phase EXCEPT ![n] = phase'[n]]
  BY ManagerAssumption DEF Sharing, IInv, TypeOK, Attempts, Disposed, Spawned, Established, Refused, Progress,
     manager, callers, Early
<1>2. connecting = n /\ current = 0 /\ ~closed[n] /\ ~broken[n] /\ host[n] # None
  BY <1>1, ManagerAssumption
     DEF Sharing, IInv, Owning, Single, Vacant, Early, InProgress, Unbroken, Sound, Staged, TypeOK
<1>3. UNCHANGED <<[c \in Callers |-> Heard(c)], want, [c \in Callers |-> HostOf(got[c])]>>
  BY <1>1, NobodyHears
<1>4. HostOf(connecting) = host[n] /\ HostOf(connecting)' = HostOf(connecting) /\ HostOf(Session) = None
  BY <1>1, <1>2 DEF HostOf, Session
<1>5. ~(connecting # 0 /\ phase[connecting] = "stopping")
  BY <1>1, <1>2 DEF Early
<1>6. CASE Established(n)
  <2>1. current' = n /\ phase'[n] = "stopping"
    BY <1>1, <1>6 DEF Established, Progress, TypeOK
  <2>2. HostOf(Session)' = host[n]
    BY <1>1, <1>2, <2>1 DEF HostOf, Session
  <2>3. (connecting # 0 /\ phase[connecting] = "stopping")' = TRUE
    BY <1>1, <1>2, <2>1
  <2>4. Shared!Come
    BY <1>2, <1>3, <1>4, <1>5, <2>2, <2>3 DEF Shared!Come
  <2> QED BY <2>4 DEF Shared!Next
<1>7. CASE Disposed(n) \/ Spawned(n) \/ Refused(n)
  <2>1. current' = current /\ phase'[n] # "stopping"
    BY <1>1, <1>7 DEF Disposed, Spawned, Refused, Progress, manager, TypeOK
  <2>2. HostOf(Session)' = HostOf(Session)
    BY <1>1, <2>1 DEF HostOf, Session
  <2>3. (connecting # 0 /\ phase[connecting] = "stopping")' = FALSE
    BY <1>1, <1>2, <2>1
  <2> QED BY <1>3, <1>4, <1>5, <2>2, <2>3 DEF Unseen
<1> QED BY <1>6, <1>7

\* An attempt ends: all who want its host await it, and nobody else does.
LEMMA SharedSettle ==
  ASSUME Sharing, NEW n \in 1..made, Settle(n)
  PROVE  Shared!End
<1>1. /\ TypeOK /\ n \in Attempts /\ n # 0
      /\ UNCHANGED <<host, closed, broken, current, want>>
      /\ phase[n] \in InProgress /\ connecting = n
      /\ host[n] # None
  <2>1. TypeOK /\ n \in Attempts /\ n # 0 /\ n <= made
    BY ManagerAssumption DEF Sharing, IInv, TypeOK, Attempts
  <2>2. phase[n] \in InProgress /\ UNCHANGED <<host, closed, broken, current, want>>
    BY DEF Settle, InProgress
  <2>3. connecting = n /\ host[n] \in Hosts
    BY <2>1, <2>2 DEF Sharing, IInv, Owning, Single, Sound, Staged
  <2> QED BY <2>1, <2>2, <2>3, ManagerAssumption
<1>2. connecting' = 0
  BY <1>1 DEF Settle, Cleared
<1>3. /\ pc' = [c \in Callers |-> IF pc[c] = "awaiting" /\ on[c] = n THEN "done" ELSE pc[c]]
      /\ got' = [c \in Callers |-> IF pc[c] = "awaiting" /\ on[c] = n /\ phase[n] = "stopping"
                                   THEN n ELSE got[c]]
  BY DEF Settle
<1>4. ASSUME NEW c \in Callers
      PROVE  (Heard(c) = "waiting" /\ want[c] = host[n]) <=> (pc[c] = "awaiting" /\ on[c] = n)
  <2>1. Heard(c) = "waiting" <=> pc[c] \in {"queued", "awaiting"}
    BY <1>1 DEF Heard, TypeOK
  <2>2. CASE pc[c] = "queued"
    <3>1. on[c] \in Attempts /\ phase[on[c]] # "none" /\ host[on[c]] # want[c]
      BY <1>1, <2>2, ManagerAssumption DEF Sharing, Calling, Called, Elsewhere, TypeOK, Attempts
    <3>2. phase[on[c]] \in InProgress
      BY <1>1, <2>2, <3>1 DEF Settle, Quiet, Queued, Settled, TypeOK
    <3>3. on[c] = n
      BY <1>1, <3>1, <3>2 DEF Sharing, IInv, Owning, Single
    <3> QED BY <2>2, <3>1, <3>3
  <2>3. CASE pc[c] = "awaiting"
    <3>1. on[c] \in Attempts /\ phase[on[c]] \in InProgress /\ want[c] = HostOf(on[c])
      BY <1>1, <2>3, ManagerAssumption
         DEF Sharing, IInv, Serving, Served, Calling, Called, TypeOK, Attempts
    <3>2. on[c] = n
      BY <1>1, <3>1 DEF Sharing, IInv, Owning, Single
    <3> QED BY <1>1, <2>1, <2>3, <3>1, <3>2 DEF HostOf
  <2> QED BY <2>1, <2>2, <2>3
<1> DEFINE came == connecting # 0 /\ phase[connecting] = "stopping"
           sharers == {c \in Callers : pc[c] = "awaiting" /\ on[c] = n}
<1>5. came <=> phase[n] = "stopping"
  BY <1>1
<1>6. ASSUME NEW c \in Callers
      PROVE  /\ Heard(c)' = IF c \notin sharers THEN Heard(c) ELSE IF came THEN "answered" ELSE "refused"
             /\ HostOf(got[c])' = IF c \in sharers /\ came THEN host[n] ELSE HostOf(got[c])
  <2>1. pc[c] = "awaiting" => got[c] = 0
    BY DEF Sharing, IInv, Serving, Served
  <2>2. CASE c \in sharers
    <3>1. pc'[c] = "done" /\ got'[c] = IF came THEN n ELSE 0
      BY <1>3, <1>5, <2>1, <2>2
    <3> QED BY <1>1, <2>1, <2>2, <3>1 DEF Heard, HostOf
  <2>3. CASE c \notin sharers
    <3>1. pc'[c] = pc[c] /\ got'[c] = got[c]
      BY <1>3, <2>3
    <3>2. Heard(c)' = Heard(c)
      BY <3>1 DEF Heard
    <3>3. HostOf(got[c])' = HostOf(got[c])
      BY <1>1, <3>1 DEF HostOf
    <3> QED BY <2>3, <3>2, <3>3
  <2> QED BY <2>2, <2>3
<1>7. HostOf(connecting) = host[n] /\ HostOf(connecting)' = None /\ HostOf(Session)' = HostOf(Session)
  BY <1>1, <1>2 DEF HostOf, Session
<1>8. (connecting # 0 /\ phase[connecting] = "stopping")' = FALSE
  BY <1>2
<1>9. Shared!Sharers = sharers
  BY <1>4, <1>7 DEF Shared!Sharers
<1> HIDE DEF sharers
<1> QED BY <1>1, <1>6, <1>7, <1>8, <1>9 DEF Shared!End

\* The session goes.
LEMMA SharedLose ==
  ASSUME Sharing, UNCHANGED <<host, phase, connecting, pc, want, got>>,
         Session' = 0 \/ UNCHANGED <<closed, broken, current>>
  PROVE  Shared!Next \/ Unseen
<1>1. UNCHANGED <<[c \in Callers |-> Heard(c)], want, [c \in Callers |-> HostOf(got[c])]>>
  BY NobodyHears DEF Sharing, IInv
<1>2. UNCHANGED <<HostOf(connecting), connecting # 0 /\ phase[connecting] = "stopping">>
  BY DEF HostOf
<1>3. CASE Session' = 0
  <2>1. HostOf(Session)' = None
    BY <1>3 DEF HostOf
  <2> QED BY <1>1, <1>2, <2>1 DEF Shared!Lose, Shared!Next
<1>4. CASE UNCHANGED <<closed, broken, current>>
  <2>1. HostOf(Session)' = HostOf(Session)
    BY <1>4 DEF HostOf, Session
  <2> QED BY <1>1, <1>2, <2>1 DEF Unseen
<1> QED BY <1>3, <1>4

\* A run of the scheduler is done with its answer.
LEMMA SharedRetried ==
  ASSUME Sharing, NEW r \in Retries, Retried(r)
  PROVE  Shared!Next
<1>1. /\ TypeOK /\ r \in Callers /\ pc[r] = "done"
      /\ pc' = [pc EXCEPT ![r] = "idle"] /\ got' = [got EXCEPT ![r] = 0]
      /\ UNCHANGED <<host, phase, closed, broken, current, connecting, want>>
  BY DEF Sharing, IInv, Retried, attempt, Callers
<1>2. pc'[r] = "idle" /\ got'[r] = 0 /\ \A d \in Callers \ {r} : UNCHANGED <<pc[d], got[d]>>
  BY <1>1 DEF TypeOK
<1>3. /\ Heard(r) \in {"answered", "refused"} /\ Heard(r)' = "idle"
      /\ HostOf(got[r])' = None
  BY <1>1, <1>2 DEF Heard, HostOf
<1>4. UNCHANGED <<HostOf(Session), HostOf(connecting), connecting # 0 /\ phase[connecting] = "stopping">>
  BY <1>1 DEF HostOf, Session
<1>5. Shared!Leave(r)
  BY <1>1, <1>2, <1>3, <1>4, OneHears DEF Shared!Leave, Shared!Goto
<1> QED BY <1>1, <1>5 DEF Shared!Next

\* Every step of the manager is a step of the shared connection, or cannot be seen.
LEMMA StepShared == Sharing /\ Next => Shared!Next \/ Unseen
<1> SUFFICES ASSUME Sharing, Next PROVE Shared!Next \/ Unseen
  OBVIOUS
<1>1. TypeOK /\ Roomy /\ \A n \in 1..made : host'[n] = host[n]
  BY HostsKept DEF Sharing, IInv
<1>2. ASSUME NEW c \in Clicks, NEW h \in Hosts, Call(c, h) PROVE Shared!Next \/ Unseen
  BY <1>1, <1>2, NextAttempt, SharedEnter DEF Call, Callers
<1>3. ASSUME NEW c \in Clicks, Require(c) PROVE Shared!Next \/ Unseen
  <2>1. status[2] \in Hosts
    BY <1>1, <1>3 DEF Require, TypeOK
  <2> QED BY <1>2, <1>3, <2>1 DEF Require
<1>4. ASSUME NEW c \in Callers, Requeue(c) PROVE Shared!Next \/ Unseen
  <2>1. want[c] \in Hosts /\ pc[c] = "queued"
    BY <1>4 DEF Requeue, Queued, Sharing, Calling, Called
  <2> QED BY <1>1, <1>4, <2>1, NextAttempt, SharedJoin DEF Requeue
<1>5. ASSUME NEW r \in Retries, Retry(r) PROVE Shared!Next \/ Unseen
  <2>1. sched.timer.host \in Hosts
    BY <1>5 DEF Retry, Sharing, Trying
  <2> QED BY <1>1, <1>5, <2>1, NextAttempt, SharedEnter DEF Retry, Callers
<1>6. ASSUME NEW n \in 1..made, Exit(n) PROVE Shared!Next \/ Unseen
  <2>1. UNCHANGED <<host, phase, connecting, broken, pc, want, got>>
    BY <1>6 DEF Exit, callers
  <2>2. Session' = 0 \/ UNCHANGED <<closed, current>>
    <3>1. CASE UNCHANGED <<closed, current>>
      BY <3>1
    <3>2. CASE UnexpectedClose(n) /\ n = current
      BY <1>1, <3>2 DEF UnexpectedClose, Session, TypeOK
    <3> QED BY <1>1, <1>6, <3>1, <3>2, ExitIsPrivate DEF Exit, Sharing, IInv
  <2> QED BY <2>1, <2>2, SharedLose
<1>7. ASSUME NEW n \in 1..made, Break(n) PROVE Shared!Next \/ Unseen
  <2>1. UNCHANGED <<host, phase, connecting, pc, want, got>>
    BY <1>7 DEF Break, manager, callers
  <2>2. n \in Attempts /\ n = current /\ current' = current /\ broken' = [broken EXCEPT ![n] = TRUE]
    BY <1>1, <1>7, ManagerAssumption DEF Break, manager, TypeOK, Attempts
  <2>3. Session' = 0
    BY <1>1, <2>2 DEF Session, TypeOK
  <2> QED BY <2>1, <2>3, SharedLose
<1>8. ASSUME NEW n \in 1..made, Disconnected(n) PROVE Shared!Next \/ Unseen
  BY <1>8, SharedLose DEF Disconnected, attempt, callers
<1>9. ASSUME Disconnect \/ Dispose PROVE Shared!Next \/ Unseen
  <2>1. UNCHANGED <<host, phase, connecting, pc, want, got>> /\ Session' = 0
    BY <1>9 DEF Disconnect, Dispose, callers, Session
  <2> QED BY <2>1, SharedLose
<1>10. ASSUME NEW n \in 1..made, Settle(n) PROVE Shared!Next
  BY <1>10, SharedSettle DEF Shared!Next
<1> QED BY <1>2, <1>3, <1>4, <1>5, <1>6, <1>7, <1>8, <1>9, <1>10, SharedProgress, SharedRetried
        DEF Next, Connect

\* The manager implements one connection that its callers share: whoever wants the host of an
\* attempt is answered when it ends, all at once, and nobody is answered with another host's.
THEOREM ImplementsSharingHolds == Spec => ImplementsSharing
<1>1. Init => Shared!Init
  BY DEF Init, Shared!Init, HostOf, Session, Heard, Callers
<1>2. Sharing /\ [Next]_vars => [Shared!Next]_(Shared!vars)
  <2> SUFFICES ASSUME Sharing, [Next]_vars PROVE Shared!Next \/ UNCHANGED Shared!vars
    OBVIOUS
  <2>1. Unseen => UNCHANGED Shared!vars
    BY DEF Unseen, Shared!vars
  <2>2. CASE UNCHANGED vars
    <3>1. UNCHANGED <<attempt, manager, callers>>
      BY <2>2 DEF vars
    <3>2. /\ UNCHANGED <<host, phase, connecting, pc, want, got>>
          /\ UNCHANGED <<closed, broken, current>>
      BY <3>1 DEF attempt, manager, callers
    <3> QED BY <2>1, <3>2, SharedLose
  <2> QED BY <2>1, <2>2, StepShared
<1>3. Sharing /\ [Next]_vars => Sharing'
  BY StepSharing
<1> QED BY <1>1, <1>2, <1>3, InitSharing, PTL DEF Spec, Shared!Spec, ImplementsSharing
=============================================================================
