------------------------------ MODULE PathLocks ------------------------------
(***************************************************************************)
(* PathLockRegistry (core/src/locks/pathLockRegistry.ts) and the way       *)
(* RemoteSession uses it: every mutating operation runs inside             *)
(* withWriteLock(path), which locks the path and its parent directory, and *)
(* rename nests one withWriteLock inside another.                          *)
(*                                                                         *)
(* JavaScript runs a function to its next await without interruption, so   *)
(* one action is one such stretch: the call up to its first suspended      *)
(* #acquire, the continuation after an #acquire, the `finally` block.      *)
(***************************************************************************)
EXTENDS Integers, Sequences, FiniteSets

CONSTANTS Ops,      \* callers: each runs one operation at a time
          Paths,    \* normalised remote paths, the keys of the registry
          Parent,   \* parentRemotePath; the root is its own parent
          Rank,     \* position of a path in the order of Array.prototype.sort
          MaxRank,  \* paths are at most MAX_REMOTE_PATH_LENGTH long: finitely many
          Plans     \* the withWriteLock nests an operation may run: <<p>>, or
                    \* <<source, destination>> for rename

\* A parent is a proper prefix of its children, so it sorts before them.
ASSUME PathAssumption ==
  /\ Parent \in [Paths -> Paths]
  /\ MaxRank \in Nat
  /\ Rank \in [Paths -> 0..MaxRank]
  /\ \A p, q \in Paths : Rank[p] = Rank[q] => p = q
  /\ \A p \in Paths : Parent[p] # p => Rank[Parent[p]] < Rank[p]

ASSUME PlanAssumption ==
  Plans \subseteq {<<p>> : p \in Paths} \cup {<<p, q>> : p, q \in Paths}

VARIABLES held,     \* #held
          waiters,  \* #waiters: per key, the suspended callers in arrival order
          pc,       \* where each caller is suspended
          plan,     \* the nest it is running, <<>> when it has none
          got       \* how many keys its `acquired` lists hold, outermost first

vars == <<held, waiters, pc, plan, got>>

-----------------------------------------------------------------------------
\* Slips the properties must notice are defined just before the definition they
\* would replace, and named after it: here the Set that removes a repeated key.
Keys_NoSet(p) == IF Rank[Parent[p]] <= Rank[p] THEN <<Parent[p], p>>
                 ELSE <<p, Parent[p]>>

\* [...new Set([normalized, parent])].sort()
Keys(p) == IF Parent[p] = p THEN <<p>>
           ELSE IF Rank[Parent[p]] < Rank[p] THEN <<Parent[p], p>>
           ELSE <<p, Parent[p]>>

\* The keys of a whole nest, in the order its #acquire calls are made.
Script(pl) == IF Len(pl) = 1 THEN Keys(pl[1]) ELSE Keys(pl[1]) \o Keys(pl[2])

\* How many of them belong to the frames outside the innermost one.
OuterLen(pl) == IF Len(pl) = 1 THEN 0 ELSE Len(Keys(pl[1]))

\* The key o is suspended on, or has just been given.
Wanted(o) == Script(plan[o])[got[o] + 1]

\* What o may rely on: its acquired lists, and a key whose #acquire promise is
\* resolved while o's own continuation has not run yet.
Owned(o) == {Script(plan[o])[i] : i \in 1..got[o]}
            \cup (IF pc[o] = "acquired" THEN {Wanted(o)} ELSE {})

-----------------------------------------------------------------------------
Init == /\ held = {}
        /\ waiters = [k \in Paths |-> <<>>]
        /\ pc = [o \in Ops |-> "idle"]
        /\ plan = [o \in Ops |-> <<>>]
        /\ got = [o \in Ops |-> 0]

\* Slip: the key is taken without looking at #held.
AcquireFree_Unchecked(o, k) == /\ held' = held \cup {k}
                               /\ pc' = [pc EXCEPT ![o] = "acquired"]
                               /\ UNCHANGED waiters

\* #acquire: take a free key at once, or queue behind its holder.
AcquireFree(o, k) == /\ k \notin held
                     /\ held' = held \cup {k}
                     /\ pc' = [pc EXCEPT ![o] = "acquired"]
                     /\ UNCHANGED waiters

\* Slip: unshift instead of push.
AcquireQueue_Lifo(o, k) == /\ k \in held
                           /\ waiters' = [waiters EXCEPT ![k] = <<o>> \o @]
                           /\ pc' = [pc EXCEPT ![o] = "waiting"]
                           /\ UNCHANGED held

AcquireQueue(o, k) == /\ k \in held
                      /\ waiters' = [waiters EXCEPT ![k] = Append(@, o)]
                      /\ pc' = [pc EXCEPT ![o] = "waiting"]
                      /\ UNCHANGED held

Acquire(o, k) == AcquireFree(o, k) \/ AcquireQueue(o, k)

\* Slip: the newest waiter is woken.
Heirs_Newest(S) == {waiters[k][Len(waiters[k])] : k \in {j \in S : waiters[j] # <<>>}}

\* The callers #release wakes when the keys in S are released.
Heirs(S) == {Head(waiters[k]) : k \in {j \in S : waiters[j] # <<>>}}

\* Slip: the key leaves #held although a waiter was woken.
HeldAfter_Observable(S) == held \ S

\* A key with waiters passes straight to one of them and stays in #held.
HeldAfter(S) == held \ {k \in S : waiters[k] = <<>>}

\* Slip: the whole queue of a released key is deleted.
QueuesAfter_Dropped(S) == [k \in Paths |-> IF k \in S THEN <<>> ELSE waiters[k]]

QueuesAfter(S) == [k \in Paths |-> IF k \in S /\ waiters[k] # <<>>
                                   THEN Tail(waiters[k]) ELSE waiters[k]]

\* #release of every key in S by o, whose own program counter becomes `then`.
Release(o, S, then) ==
  /\ held' = HeldAfter(S)
  /\ waiters' = QueuesAfter(S)
  /\ pc' = [q \in Ops |-> IF q = o THEN then
                          ELSE IF q \in Heirs(S) THEN "acquired" ELSE pc[q]]

\* A caller enters withWriteLock: nothing is awaited before the first #acquire.
Call(o, pl) == /\ pc[o] = "idle"
               /\ plan' = [plan EXCEPT ![o] = pl]
               /\ Acquire(o, Script(pl)[1])
               /\ UNCHANGED got

\* The continuation of `await this.#acquire(key)`: record the key, then ask for
\* the next one, which may be the first of the nested withWriteLock.
NextKey(o) == /\ pc[o] = "acquired"
              /\ got[o] + 1 < Len(Script(plan[o]))
              /\ got' = [got EXCEPT ![o] = @ + 1]
              /\ Acquire(o, Script(plan[o])[got[o] + 2])
              /\ UNCHANGED plan

\* ... and with the last key recorded, the guarded operation starts.
Start(o) == /\ pc[o] = "acquired"
            /\ got[o] + 1 = Len(Script(plan[o]))
            /\ got' = [got EXCEPT ![o] = @ + 1]
            /\ pc' = [pc EXCEPT ![o] = "running"]
            /\ UNCHANGED <<held, waiters, plan>>

Frame(o, from) == {Script(plan[o])[i] : i \in (from + 1)..got[o]}

\* The guarded operation fulfils or rejects; the innermost finally block runs.
Settle(o) ==
  /\ pc[o] = "running"
  /\ Release(o, Frame(o, OuterLen(plan[o])),
             IF OuterLen(plan[o]) = 0 THEN "idle" ELSE "unwind")
  /\ got' = [got EXCEPT ![o] = OuterLen(plan[o])]
  /\ plan' = [plan EXCEPT ![o] = IF OuterLen(plan[o]) = 0 THEN <<>> ELSE @]

\* rename only: the outer withWriteLock resumes and its finally block runs.
Unwind(o) == /\ pc[o] = "unwind"
             /\ Release(o, Frame(o, 0), "idle")
             /\ got' = [got EXCEPT ![o] = 0]
             /\ plan' = [plan EXCEPT ![o] = <<>>]

Step(o) == NextKey(o) \/ Start(o) \/ Settle(o) \/ Unwind(o)

Next == \E o \in Ops : Step(o) \/ \E pl \in Plans : Call(o, pl)

Spec == Init /\ [][Next]_vars

\* Promise continuations always run, and a guarded operation always settles:
\* each request it awaits carries a timeout (SftpClient #request).
Fairness == \A o \in Ops : WF_vars(Step(o))

FairSpec == Spec /\ Fairness

-----------------------------------------------------------------------------
PcLabels == {"idle", "acquired", "waiting", "running", "unwind"}

\* Every variable has its type. (Proved, and in no run.)
TypeOK == /\ held \in SUBSET Paths
          /\ waiters \in [Paths -> Seq(Ops)]
          /\ pc \in [Ops -> PcLabels]
          /\ plan \in [Ops -> Plans \cup {<<>>}]
          /\ got \in [Ops -> 0..4]

\* Two operations never rely on the same key at once: the promise of
\* "per-path mutual exclusion for mutating operations".
MutualExclusion == \A o, q \in Ops : o # q => Owned(o) \cap Owned(q) = {}

\* #held is exactly the set of keys somebody relies on: a key is never
\* observably free while owned, and none stays locked after its owner left.
HeldIsOwned == held = UNION {Owned(o) : o \in Ops}

\* A queue holds only callers suspended on its key, and each of them once.
QueuesHoldWaiters ==
  \A q \in Ops, k \in Paths : \A i \in 1..Len(waiters[k]) :
    waiters[k][i] = q =>
      /\ pc[q] = "waiting"
      /\ Wanted(q) = k
      /\ \A j \in 1..Len(waiters[k]) : waiters[k][j] = q => i = j

\* A suspended caller is in the queue of its key, and the key is held.
WaitersAreQueued ==
  \A o \in Ops : pc[o] = "waiting" =>
    /\ \E i \in 1..Len(waiters[Wanted(o)]) : waiters[Wanted(o)][i] = o
    /\ Wanted(o) \in held

\* A suspended caller sits exactly once in exactly the queue of the key it asked
\* for, and that key has an owner that will release it: no wake-up is lost.
NoLostWakeup == QueuesHoldWaiters /\ WaitersAreQueued

\* No set of callers is suspended for ever on keys they themselves own: "they are
\* acquired in sorted order, which makes deadlock structurally impossible".
NoWaitCycle ==
  ~ \E S \in SUBSET Ops :
      /\ S # {}
      /\ \A o \in S : pc[o] = "waiting" /\ \E q \in S : Wanted(o) \in Owned(q)

\* The order in which every nest is acquired ascends. True of a single
\* withWriteLock; for rename it depends on the two paths.
Ascending(pl) == \A i, j \in 1..Len(Script(pl)) :
                   i < j => Rank[Script(pl)[i]] < Rank[Script(pl)[j]]

\* A key with waiters goes to the one that has waited longest, never to a
\* caller that arrived later: "waiters on a key are served first-in-first-out".
NoOvertaking ==
  [][\A o \in Ops : \A k \in Owned(o)' \ Owned(o) :
        waiters[k] # <<>> => o = Head(waiters[k])]_vars

\* Every caller that has to wait is served: "no request can be starved".
EveryWaiterServed == \A o \in Ops : (pc[o] = "waiting") ~> (pc[o] = "running")

\* The registry implements plain exclusive ownership of keys.
Locks == INSTANCE ExclusiveLocks WITH holds <- [o \in Ops |-> Owned(o)]
ImplementsExclusion == Locks!Spec
=============================================================================
