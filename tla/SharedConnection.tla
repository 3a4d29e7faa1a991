-------------------------- MODULE SharedConnection --------------------------
(***************************************************************************)
(* What SessionManager promises to those who call connect(), without        *)
(* processes, promises or timers: one session or one attempt at a time; a   *)
(* session goes before the next attempt begins; and an attempt that ends    *)
(* answers everybody who wants its host, all at once, with a session only   *)
(* if it came, and nobody else.                                            *)
(***************************************************************************)
CONSTANTS Callers, Hosts,
          None            \* no host

VARIABLES session,        \* the host of the session that can be used, or None
          attempt, came,  \* the host of the attempt in progress, or None; and whether it has
                          \* had its session
          stage, want,    \* of each caller: what it has heard, and the host it asked for
          got             \* the host of the session it was given, or None

Init == /\ session = None /\ attempt = None /\ came = FALSE
        /\ stage = [c \in Callers |-> "idle"] /\ want = [c \in Callers |-> None]
        /\ got = [c \in Callers |-> None]

Goto(c, step) == stage' = [stage EXCEPT ![c] = step]
Asks(c, h) == want' = [want EXCEPT ![c] = h]

\* The session there is will do.
Find(c, h) == /\ stage[c] = "idle" /\ session = h
              /\ Goto(c, "answered") /\ Asks(c, h) /\ got' = [got EXCEPT ![c] = h]
              /\ UNCHANGED <<session, attempt, came>>

\* While there is an attempt a caller waits, whatever it wants.
Wait(c, h) == /\ stage[c] = "idle" /\ session # h /\ attempt # None
              /\ Goto(c, "waiting") /\ Asks(c, h)
              /\ UNCHANGED <<session, attempt, came, got>>

\* A caller who need not wait, or need no longer wait for another host, makes the attempt.
Begin(c, h) == /\ \/ stage[c] = "idle" /\ session # h
                  \/ stage[c] = "waiting" /\ want[c] = h
               /\ attempt = None /\ attempt' = h /\ came' = FALSE
               /\ session' = None
               /\ Goto(c, "waiting") /\ Asks(c, h)
               /\ UNCHANGED got

Come == /\ attempt # None /\ ~came
        /\ came' = TRUE /\ session' = attempt
        /\ UNCHANGED <<attempt, stage, want, got>>

\* The connection is lost, or let go of.
Lose == session' = None /\ UNCHANGED <<attempt, came, stage, want, got>>

\* Everybody who wants the host of the attempt.
Sharers == {c \in Callers : stage[c] = "waiting" /\ want[c] = attempt}

End == /\ attempt # None /\ attempt' = None /\ came' = FALSE
       /\ stage' = [c \in Callers |-> IF c \notin Sharers THEN stage[c]
                                      ELSE IF came THEN "answered" ELSE "refused"]
       /\ got' = [c \in Callers |-> IF c \in Sharers /\ came THEN attempt ELSE got[c]]
       /\ UNCHANGED <<session, want>>

\* A caller is done with its answer.
Leave(c) == /\ stage[c] \in {"answered", "refused"} /\ Goto(c, "idle")
            /\ got' = [got EXCEPT ![c] = None]
            /\ UNCHANGED <<session, attempt, came, want>>

Next == \/ Come \/ Lose \/ End
        \/ \E c \in Callers : \/ Leave(c)
                              \/ \E h \in Hosts : Find(c, h) \/ Wait(c, h) \/ Begin(c, h)

vars == <<session, attempt, came, stage, want, got>>
Spec == Init /\ [][Next]_vars
=============================================================================
