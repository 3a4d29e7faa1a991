--------------------------- MODULE PathLocksProofs ---------------------------
(***************************************************************************)
(* Proofs about PathLocks, for every set of operations, paths and nests.   *)
(* The lemmas Taken, Kept and Given say what a step does to ownership; the *)
(* invariants, the hand-over order and the refinement all follow from      *)
(* them.                                                                   *)
(***************************************************************************)
EXTENDS PathLocks, TLAPS, WellFoundedInduction

-----------------------------------------------------------------------------
\* Script is a non-empty sequence of keys, and the outer frame is a proper prefix.
LEMMA ScriptType ==
  ASSUME NEW pl \in Plans
  PROVE  /\ Script(pl) \in Seq(Paths)
         /\ Len(Script(pl)) \in 1..4
         /\ OuterLen(pl) \in 0..2
         /\ OuterLen(pl) < Len(Script(pl))
<1>1. \A p \in Paths : Keys(p) \in Seq(Paths) /\ Len(Keys(p)) \in 1..2
  BY PathAssumption DEF Keys
<1>2. CASE \E p \in Paths : pl = <<p>>
  <2>1. PICK p \in Paths : pl = <<p>>
    BY <1>2
  <2>2. Script(pl) = Keys(p) /\ OuterLen(pl) = 0
    BY <2>1 DEF Script, OuterLen
  <2> QED BY <1>1, <2>2
<1>3. CASE \E p, q \in Paths : pl = <<p, q>>
  <2>1. PICK p \in Paths, q \in Paths : pl = <<p, q>>
    BY <1>3
  <2>2. /\ Script(pl) = Keys(p) \o Keys(q)
        /\ OuterLen(pl) = Len(Keys(p))
    BY <2>1 DEF Script, OuterLen
  <2>3. /\ Keys(p) \in Seq(Paths) /\ Len(Keys(p)) \in 1..2
        /\ Keys(q) \in Seq(Paths) /\ Len(Keys(q)) \in 1..2
    BY <1>1
  <2>4. /\ Keys(p) \o Keys(q) \in Seq(Paths)
        /\ Len(Keys(p) \o Keys(q)) = Len(Keys(p)) + Len(Keys(q))
    BY <2>3
  <2> DEFINE m == Len(Keys(p))
             n == Len(Keys(q))
  <2>5. m \in 1..2 /\ n \in 1..2
    BY <2>3
  <2>6. /\ Script(pl) \in Seq(Paths)
        /\ Len(Script(pl)) = m + n
        /\ OuterLen(pl) = m
    BY <2>2, <2>4
  <2> HIDE DEF m, n
  <2> QED BY <2>5, <2>6
<1> QED BY <1>2, <1>3, PlanAssumption

-----------------------------------------------------------------------------
\* Where a caller is suspended determines how far it has come, and the keys it
\* relies on are pairwise different: the outer frame keeps what the inner gives up.
Progress(o) ==
  /\ pc[o] = "idle" => plan[o] = <<>> /\ got[o] = 0
  /\ pc[o] # "idle" => plan[o] \in Plans
  /\ pc[o] \in {"acquired", "waiting"} => got[o] < Len(Script(plan[o]))
  /\ pc[o] = "running" => got[o] = Len(Script(plan[o]))
  /\ pc[o] = "unwind" => got[o] = OuterLen(plan[o])

Depth(o) == IF pc[o] = "acquired" THEN got[o] + 1 ELSE got[o]

Distinct(o) == \A i, j \in 1..Depth(o) :
                 Script(plan[o])[i] = Script(plan[o])[j] => i = j

IInv == /\ TypeOK
        /\ \A o \in Ops : Progress(o) /\ Distinct(o)
        /\ MutualExclusion
        /\ HeldIsOwned
        /\ NoLostWakeup

\* Owned, as a prefix of the script.
LEMMA OwnedIsPrefix ==
  ASSUME TypeOK, NEW o \in Ops, Progress(o)
  PROVE  /\ Owned(o) = {Script(plan[o])[i] : i \in 1..Depth(o)}
         /\ Owned(o) \subseteq Paths
         /\ pc[o] # "idle" => Depth(o) \in 0..Len(Script(plan[o]))
         /\ pc[o] = "idle" => Owned(o) = {}
<1>1. got[o] \in Nat
  BY DEF TypeOK
<1>2. Owned(o) = {Script(plan[o])[i] : i \in 1..Depth(o)}
  <2>1. CASE pc[o] = "acquired"
    <3>1. 1..Depth(o) = (1..got[o]) \cup {got[o] + 1}
      BY <1>1, <2>1 DEF Depth
    <3> QED BY <2>1, <3>1 DEF Owned, Wanted
  <2>2. CASE pc[o] # "acquired"
    BY <2>2 DEF Owned, Depth
  <2> QED BY <2>1, <2>2
<1>3. CASE pc[o] = "idle"
  <2>1. Depth(o) = 0
    BY <1>3 DEF Progress, Depth
  <2> QED BY <1>2, <1>3, <2>1
<1>4. CASE pc[o] # "idle"
  <2>1. /\ plan[o] \in Plans
        /\ Script(plan[o]) \in Seq(Paths)
        /\ Len(Script(plan[o])) \in 1..4
        /\ OuterLen(plan[o]) < Len(Script(plan[o]))
        /\ OuterLen(plan[o]) \in 0..2
    BY <1>4, ScriptType DEF Progress
  <2>2. pc[o] \in PcLabels
    BY DEF TypeOK
  <2>3. Depth(o) \in 0..Len(Script(plan[o]))
    BY <1>1, <1>4, <2>1, <2>2 DEF Progress, Depth, PcLabels
  <2> QED BY <1>2, <1>4, <2>1, <2>3
<1> QED BY <1>3, <1>4

-----------------------------------------------------------------------------
\* The three things a step can do to ownership: o takes a free key, nothing
\* changes hands, or o gives up S and each key with waiters goes to the first.
Taken(o, k) == /\ k \notin held
               /\ held' = held \cup {k}
               /\ Owned(o)' = Owned(o) \cup {k}
               /\ \A q \in Ops : q # o => Owned(q)' = Owned(q)
               /\ waiters' = waiters

Kept == /\ held' = held
        /\ \A q \in Ops : Owned(q)' = Owned(q)

HeirOf(q, S) == {k \in S : waiters[k] # <<>> /\ Head(waiters[k]) = q}

Given(o, S) == /\ S \subseteq Owned(o)
               /\ held' = held \ {k \in S : waiters[k] = <<>>}
               /\ Owned(o)' = Owned(o) \ S
               /\ \A q \in Ops : q # o => Owned(q)' = Owned(q) \cup HeirOf(q, S)

\* The two ownership invariants survive each of them.
LEMMA TakenPreserves ==
  ASSUME MutualExclusion, HeldIsOwned, NEW o \in Ops, NEW k, Taken(o, k)
  PROVE  MutualExclusion' /\ HeldIsOwned'
<1>1. \A q \in Ops : k \notin Owned(q)
  BY DEF Taken, HeldIsOwned
<1>2. MutualExclusion'
  BY <1>1 DEF Taken, MutualExclusion
<1>3. HeldIsOwned'
  BY DEF Taken, HeldIsOwned
<1> QED BY <1>2, <1>3

\* ... and so they do a step that changes who owns nothing,
LEMMA KeptPreserves ==
  ASSUME MutualExclusion, HeldIsOwned, Kept
  PROVE  MutualExclusion' /\ HeldIsOwned'
BY DEF Kept, MutualExclusion, HeldIsOwned

\* ... and one that gives keys up, to the heads of their queues.
LEMMA GivenPreserves ==
  ASSUME MutualExclusion, HeldIsOwned, QueuesHoldWaiters,
         waiters \in [Paths -> Seq(Ops)],
         NEW o \in Ops, pc[o] # "waiting", NEW S \in SUBSET Paths, Given(o, S)
  PROVE  MutualExclusion' /\ HeldIsOwned'
<1>1. \A k \in S : waiters[k] # <<>> =>
         /\ Head(waiters[k]) = waiters[k][1]
         /\ 1 \in 1..Len(waiters[k])
         /\ Head(waiters[k]) \in Ops
  OBVIOUS
<1>2. \A k \in S : waiters[k] # <<>> => Head(waiters[k]) \in Ops \ {o}
  BY <1>1 DEF QueuesHoldWaiters
<1>3. MutualExclusion'
  <2> SUFFICES ASSUME NEW p \in Ops, NEW q \in Ops, p # q
               PROVE  Owned(p)' \cap Owned(q)' = {}
    BY DEF MutualExclusion
  <2>1. Owned(p) \cap Owned(q) = {} /\ (p = o \/ Owned(p) \cap Owned(o) = {})
    BY DEF MutualExclusion
  <2>2. Owned(p) \cap Owned(q) = {} /\ (q = o \/ Owned(q) \cap Owned(o) = {})
    BY DEF MutualExclusion
  <2>3. HeirOf(p, S) \cap HeirOf(q, S) = {}
    BY DEF HeirOf
  <2>4. HeirOf(p, S) \subseteq S /\ HeirOf(q, S) \subseteq S
    BY DEF HeirOf
  <2> QED BY <2>1, <2>2, <2>3, <2>4 DEF Given
<1>4. HeldIsOwned'
  <2> DEFINE Free == {k \in S : waiters[k] = <<>>}
  <2>1. UNION {Owned(q)' : q \in Ops} \subseteq held \ Free
    <3> SUFFICES ASSUME NEW q \in Ops, NEW k \in Owned(q)'
                 PROVE  k \in held /\ k \notin Free
      OBVIOUS
    <3>1. CASE q = o
      BY <3>1 DEF Given, HeldIsOwned
    <3>2. CASE q # o
      <4>1. k \in Owned(q) \/ k \in HeirOf(q, S)
        BY <3>2 DEF Given
      <4>2. CASE k \in Owned(q)
        BY <3>2, <4>2 DEF Given, HeldIsOwned, MutualExclusion
      <4>3. CASE k \in HeirOf(q, S)
        BY <4>3 DEF HeirOf, Given, HeldIsOwned
      <4> QED BY <4>1, <4>2, <4>3
    <3> QED BY <3>1, <3>2
  <2>2. held \ Free \subseteq UNION {Owned(q)' : q \in Ops}
    <3> SUFFICES ASSUME NEW k \in held, k \notin Free
                 PROVE  \E q \in Ops : k \in Owned(q)'
      OBVIOUS
    <3>1. PICK q \in Ops : k \in Owned(q)
      BY DEF HeldIsOwned
    <3>2. CASE q # o
      BY <3>1, <3>2 DEF Given
    <3>3. CASE q = o /\ k \notin S
      BY <3>1, <3>3 DEF Given
    <3>4. CASE q = o /\ k \in S
      <4>1. waiters[k] # <<>> /\ Head(waiters[k]) \in Ops \ {o}
        BY <1>2, <3>4
      <4>2. k \in HeirOf(Head(waiters[k]), S)
        BY <3>4, <4>1 DEF HeirOf
      <4> QED BY <4>1, <4>2 DEF Given
    <3> QED BY <3>2, <3>3, <3>4
  <2> QED BY <2>1, <2>2 DEF Given, HeldIsOwned
<1> QED BY <1>3, <1>4

-----------------------------------------------------------------------------
\* A caller that is neither o nor woken keeps its place, and so what it owns.
LEMMA OthersUnmoved ==
  ASSUME TypeOK, NEW q \in Ops, plan'[q] = plan[q], got'[q] = got[q], pc'[q] = pc[q]
  PROVE  /\ Owned(q)' = Owned(q)
         /\ Progress(q) => Progress(q)'
         /\ Distinct(q) => Distinct(q)'
         /\ Wanted(q)' = Wanted(q)
<1>1. Wanted(q)' = Wanted(q)
  BY DEF Wanted
<1>2. Owned(q)' = Owned(q)
  BY <1>1 DEF Owned
<1>3. Progress(q) => Progress(q)'
  BY DEF Progress
<1>4. Distinct(q) => Distinct(q)'
  BY DEF Distinct, Depth
<1> QED BY <1>1, <1>2, <1>3, <1>4

\* An #acquire made with the first n keys of nest pl in hand, and nothing more.
LEMMA AcquireStep ==
  ASSUME IInv, NEW o \in Ops, NEW pl \in Plans, NEW n \in 0..4,
         n < Len(Script(pl)),
         pc[o] # "waiting",
         plan' = [plan EXCEPT ![o] = pl],
         got' = [got EXCEPT ![o] = n],
         Owned(o) = {Script(pl)[i] : i \in 1..n},
         \A i, j \in 1..n : Script(pl)[i] = Script(pl)[j] => i = j,
         Acquire(o, Script(pl)[n + 1])
  PROVE  IInv' /\ (Taken(o, Script(pl)[n + 1]) \/ (Kept /\ waiters' # waiters))
<1> DEFINE k == Script(pl)[n + 1]
<1>1. /\ Script(pl) \in Seq(Paths) /\ Len(Script(pl)) \in 1..4
      /\ k \in Paths
      /\ \A i \in 1..(n + 1) : i \in 1..Len(Script(pl))
  BY ScriptType
<1>2. TypeOK
  BY DEF IInv
<1>3. plan'[o] = pl /\ got'[o] = n /\ plan' \in [Ops -> Plans \cup {<<>>}]
      /\ got' \in [Ops -> 0..4]
  BY <1>2 DEF TypeOK
<1>4. Wanted(o)' = k
  BY <1>3 DEF Wanted
<1>5. \A q \in Ops : q # o => plan'[q] = plan[q] /\ got'[q] = got[q]
  BY <1>2 DEF TypeOK
<1>6. \A q \in Ops : q # o => pc'[q] = pc[q]
  BY <1>2 DEF TypeOK, Acquire, AcquireFree, AcquireQueue
<1>7. \A q \in Ops : q # o => /\ Owned(q)' = Owned(q)
                             /\ Progress(q)' /\ Distinct(q)'
                             /\ Wanted(q)' = Wanted(q)
  BY <1>2, <1>5, <1>6, OthersUnmoved DEF IInv
<1>8. CASE AcquireFree(o, k)
  <2>1. /\ pc'[o] = "acquired" /\ pc' \in [Ops -> PcLabels]
        /\ held' = held \cup {k} /\ k \notin held /\ waiters' = waiters
    BY <1>2, <1>8 DEF TypeOK, AcquireFree, PcLabels
  <2>2. TypeOK'
    BY <1>1, <1>2, <1>3, <2>1 DEF TypeOK
  <2>3. Owned(o)' = Owned(o) \cup {k}
    BY <1>3, <1>4, <2>1 DEF Owned
  <2>4. Taken(o, k)
    BY <1>7, <2>1, <2>3 DEF Taken
  <2>5. MutualExclusion' /\ HeldIsOwned'
    BY <2>4, TakenPreserves DEF IInv
  <2>6. Progress(o)'
    BY <1>3, <2>1 DEF Progress
  <2>7. Distinct(o)'
    <3>1. \A i \in 1..n : Script(pl)[i] # k
      BY <2>1 DEF IInv, HeldIsOwned
    <3>2. Depth(o)' = n + 1
      BY <1>3, <2>1 DEF Depth
    <3> QED BY <1>3, <3>1, <3>2 DEF Distinct
  <2>8. NoLostWakeup'
    <3>1. \A q \in Ops : pc'[q] = "waiting" => q # o /\ pc[q] = "waiting"
      BY <1>6, <2>1
    <3>2. WaitersAreQueued'
      BY <1>7, <2>1, <3>1 DEF IInv, NoLostWakeup, WaitersAreQueued
    <3>3. QueuesHoldWaiters'
      <4> SUFFICES ASSUME NEW q \in Ops, NEW j \in Paths, NEW i \in 1..Len(waiters[j]),
                          waiters[j][i] = q
                   PROVE  /\ pc'[q] = "waiting"
                          /\ Wanted(q)' = j
                          /\ \A l \in 1..Len(waiters[j]) : waiters[j][l] = q => i = l
        BY <2>1 DEF QueuesHoldWaiters
      <4>1. /\ pc[q] = "waiting" /\ Wanted(q) = j
            /\ \A l \in 1..Len(waiters[j]) : waiters[j][l] = q => i = l
        BY DEF IInv, NoLostWakeup, QueuesHoldWaiters
      <4> QED BY <1>6, <1>7, <4>1
    <3> QED BY <3>2, <3>3 DEF NoLostWakeup
  <2> QED BY <1>7, <2>2, <2>4, <2>5, <2>6, <2>7, <2>8 DEF IInv
<1>9. CASE AcquireQueue(o, k)
  <2>1. /\ pc'[o] = "waiting" /\ pc' \in [Ops -> PcLabels]
        /\ held' = held /\ k \in held
        /\ waiters' = [waiters EXCEPT ![k] = Append(@, o)]
    BY <1>2, <1>9 DEF TypeOK, AcquireQueue, PcLabels
  <2>2. /\ TypeOK'
        /\ waiters[k] \in Seq(Ops)
        /\ waiters'[k] = Append(waiters[k], o)
        /\ \A j \in Paths : j # k => waiters'[j] = waiters[j]
    BY <1>1, <1>2, <1>3, <2>1 DEF TypeOK
  <2>3. Owned(o)' = Owned(o)
    BY <1>3, <2>1 DEF Owned
  <2>4. Kept
    BY <1>7, <2>1, <2>3 DEF Kept
  <2>5. MutualExclusion' /\ HeldIsOwned'
    BY <2>4, KeptPreserves DEF IInv
  <2>6. Progress(o)'
    BY <1>3, <2>1 DEF Progress
  <2>7. Distinct(o)'
    <3>1. Depth(o)' = n
      BY <1>3, <2>1 DEF Depth
    <3> QED BY <1>3, <3>1 DEF Distinct
  <2>8. WaitersAreQueued'
    <3> SUFFICES ASSUME NEW q \in Ops, pc'[q] = "waiting"
                 PROVE  /\ \E i \in 1..Len(waiters'[Wanted(q)']) :
                               waiters'[Wanted(q)'][i] = q
                        /\ Wanted(q)' \in held'
      BY DEF WaitersAreQueued
    <3>1. CASE q = o
      BY <1>4, <2>1, <2>2, <3>1
    <3>2. CASE q # o
      <4>1. pc[q] = "waiting" /\ Wanted(q)' = Wanted(q)
        BY <1>6, <1>7, <3>2
      <4>2. Wanted(q) \in held
            /\ \E i \in 1..Len(waiters[Wanted(q)]) : waiters[Wanted(q)][i] = q
        BY <4>1 DEF IInv, NoLostWakeup, WaitersAreQueued
      <4>3. Wanted(q) \in Paths
        BY <1>2, <4>2 DEF TypeOK
      <4>4. CASE Wanted(q) = k
        BY <2>1, <2>2, <4>1, <4>2, <4>4
      <4>5. CASE Wanted(q) # k
        BY <2>1, <2>2, <4>1, <4>2, <4>3, <4>5
      <4> QED BY <4>4, <4>5
    <3> QED BY <3>1, <3>2
  <2>9. QueuesHoldWaiters'
    <3> SUFFICES ASSUME NEW q \in Ops, NEW j \in Paths, NEW i \in 1..Len(waiters'[j]),
                        waiters'[j][i] = q
                 PROVE  /\ pc'[q] = "waiting"
                        /\ Wanted(q)' = j
                        /\ \A l \in 1..Len(waiters'[j]) : waiters'[j][l] = q => i = l
      BY DEF QueuesHoldWaiters
    <3>1. \A l \in 1..Len(waiters[j]) : waiters[j][l] = q =>
            /\ q # o /\ pc'[q] = "waiting" /\ Wanted(q)' = j
            /\ \A m \in 1..Len(waiters[j]) : waiters[j][m] = q => l = m
      BY <1>6, <1>7 DEF IInv, NoLostWakeup, QueuesHoldWaiters
    <3>2. CASE j # k
      BY <2>2, <3>1, <3>2
    <3>3. CASE j = k
      <4> DEFINE w == waiters[k]
      <4>1. /\ w \in Seq(Ops) /\ waiters'[j] = Append(w, o)
            /\ Len(waiters'[j]) = Len(w) + 1
            /\ waiters'[j][Len(w) + 1] = o
            /\ \A l \in 1..Len(w) : waiters'[j][l] = w[l]
        BY <2>2, <3>3
      <4>2. \A l \in 1..(Len(w) + 1) : l \in 1..Len(w) \/ l = Len(w) + 1
        BY <4>1
      <4>3. CASE q = o
        <5>1. \A l \in 1..Len(w) : w[l] # q
          BY <3>1, <3>3, <4>3
        <5> QED BY <1>4, <2>1, <3>3, <4>1, <4>2, <4>3, <5>1
      <4>4. CASE q # o
        BY <3>1, <3>3, <4>1, <4>2, <4>4
      <4> QED BY <4>3, <4>4
    <3> QED BY <3>2, <3>3
  <2>10. waiters' # waiters
    BY <1>1, <2>2
  <2> QED BY <1>7, <2>2, <2>4, <2>5, <2>6, <2>7, <2>8, <2>9, <2>10 DEF IInv, NoLostWakeup
<1> QED BY <1>8, <1>9 DEF Acquire

\* A `finally` block that leaves o with its first m keys.
LEMMA ReleaseStep ==
  ASSUME IInv, NEW o \in Ops, pc[o] \in {"running", "unwind"},
         NEW m \in 0..got[o], NEW then, NEW pl,
         \/ then = "idle" /\ m = 0 /\ pl = <<>>
         \/ then = "unwind" /\ m = OuterLen(plan[o]) /\ pl = plan[o],
         Release(o, Frame(o, m), then),
         got' = [got EXCEPT ![o] = m],
         plan' = [plan EXCEPT ![o] = pl]
  PROVE  IInv' /\ Given(o, Frame(o, m))
<1> DEFINE S == Frame(o, m)
<1>1. TypeOK /\ Progress(o) /\ Distinct(o)
  BY DEF IInv
<1>2. /\ Depth(o) = got[o] /\ got[o] \in 0..4
      /\ Owned(o) = {Script(plan[o])[i] : i \in 1..got[o]}
      /\ Owned(o) \subseteq Paths
      /\ plan[o] \in Plans
  BY <1>1, OwnedIsPrefix DEF TypeOK, Progress, Depth
<1>3. S \subseteq Owned(o) /\ S \subseteq Paths
  <2>1. \A i \in (m + 1)..got[o] : i \in 1..got[o]
    BY <1>2
  <2> QED BY <1>2, <2>1 DEF Frame
<1>4. /\ plan'[o] = pl /\ got'[o] = m /\ pc'[o] = then
      /\ plan' \in [Ops -> Plans \cup {<<>>}]
      /\ got' \in [Ops -> 0..4]
  BY <1>1, <1>2 DEF TypeOK, Release
<1>5. \A q \in Ops : q # o => plan'[q] = plan[q] /\ got'[q] = got[q]
  BY <1>1 DEF TypeOK
<1>6. \A q \in Ops : q # o =>
        pc'[q] = IF q \in Heirs(S) THEN "acquired" ELSE pc[q]
  BY DEF Release
<1>7. /\ held' = held \ {k \in S : waiters[k] = <<>>}
      /\ waiters' = [k \in Paths |-> IF k \in S /\ waiters[k] # <<>>
                                     THEN Tail(waiters[k]) ELSE waiters[k]]
  BY DEF Release, HeldAfter, QueuesAfter
<1>8. TypeOK'
  <2>1. held' \in SUBSET Paths
    BY <1>1, <1>7 DEF TypeOK
  <2>2. waiters' \in [Paths -> Seq(Ops)]
    BY <1>1, <1>7 DEF TypeOK
  <2>3. pc' \in [Ops -> PcLabels]
    BY <1>1 DEF Release, TypeOK, PcLabels
  <2> QED BY <1>4, <2>1, <2>2, <2>3 DEF TypeOK
\* Waking a caller: it was waiting for exactly the key it is given.
<1>9. \A k \in Paths : waiters[k] # <<>> =>
        /\ Head(waiters[k]) = waiters[k][1] /\ 1 \in 1..Len(waiters[k])
        /\ Head(waiters[k]) \in Ops
  BY <1>1 DEF TypeOK
<1>10. \A q \in Ops, k \in Paths : waiters[k] # <<>> /\ Head(waiters[k]) = q =>
         pc[q] = "waiting" /\ Wanted(q) = k /\ q # o
  BY <1>9 DEF IInv, NoLostWakeup, QueuesHoldWaiters
<1>11. \A q \in Ops : q \in Heirs(S) =>
         /\ pc[q] = "waiting" /\ q # o
         /\ Wanted(q) \in S /\ waiters[Wanted(q)] # <<>> /\ Head(waiters[Wanted(q)]) = q
  BY <1>3, <1>10 DEF Heirs
<1>12. \A q \in Ops : q # o => Wanted(q)' = Wanted(q)
  BY <1>5 DEF Wanted
<1>13. \A q \in Ops : q # o => Owned(q)' = Owned(q) \cup HeirOf(q, S)
  <2> SUFFICES ASSUME NEW q \in Ops, q # o
               PROVE  Owned(q)' = Owned(q) \cup HeirOf(q, S)
    OBVIOUS
  <2>1. CASE q \in Heirs(S)
    <3>1. HeirOf(q, S) = {Wanted(q)}
      BY <1>3, <1>10, <1>11, <2>1 DEF HeirOf
    <3>2. pc[q] = "waiting" /\ pc'[q] = "acquired"
      BY <1>6, <1>11, <2>1
    <3> QED BY <1>5, <1>12, <3>1, <3>2 DEF Owned
  <2>2. CASE q \notin Heirs(S)
    <3>1. HeirOf(q, S) = {}
      BY <2>2 DEF HeirOf, Heirs
    <3>2. Owned(q)' = Owned(q)
      BY <1>1, <1>5, <1>6, <2>2, OthersUnmoved
    <3> QED BY <3>1, <3>2
  <2> QED BY <2>1, <2>2
<1>14. Owned(o)' = Owned(o) \ S
  <2>1. pc'[o] # "acquired"
    BY <1>4
  <2>2. Owned(o)' = {Script(pl)[i] : i \in 1..m}
    BY <1>4, <2>1 DEF Owned
  <2>3. CASE m = 0
    BY <1>2, <2>2, <2>3 DEF Frame
  <2>4. CASE pl = plan[o]
    <3>1. \A i \in 1..got[o] : i \in 1..m \/ i \in (m + 1)..got[o]
      BY <1>2
    <3>2. \A i \in 1..m, j \in (m + 1)..got[o] : Script(pl)[i] # Script(pl)[j]
      BY <1>1, <1>2, <2>4 DEF Distinct
    <3> QED BY <1>2, <2>2, <2>4, <3>1, <3>2 DEF Frame
  <2> QED BY <2>3, <2>4
<1>15. Given(o, S)
  BY <1>3, <1>7, <1>13, <1>14 DEF Given
<1>16. MutualExclusion' /\ HeldIsOwned'
  BY <1>1, <1>3, <1>15, GivenPreserves DEF IInv, NoLostWakeup, TypeOK
<1>17. \A q \in Ops : Progress(q)' /\ Distinct(q)'
  <2> SUFFICES ASSUME NEW q \in Ops
               PROVE  Progress(q)' /\ Distinct(q)'
    OBVIOUS
  <2>1. CASE q = o
    <3>1. Progress(o)'
      BY <1>2, <1>4 DEF Progress
    <3>2. Depth(o)' = m
      BY <1>4 DEF Depth
    <3>3. Distinct(o)'
      BY <1>1, <1>2, <1>4, <3>2 DEF Distinct
    <3> QED BY <2>1, <3>1, <3>3
  <2>2. CASE q # o /\ q \notin Heirs(S)
    BY <1>1, <1>5, <1>6, <2>2, OthersUnmoved DEF IInv
  <2>3. CASE q # o /\ q \in Heirs(S)
    <3>1. pc[q] = "waiting" /\ pc'[q] = "acquired"
      BY <1>6, <1>11, <2>3
    <3>2. Progress(q) /\ Distinct(q)
      BY DEF IInv
    <3>3. Progress(q)'
      BY <1>5, <2>3, <3>1, <3>2 DEF Progress
    <3>4. Wanted(q) \notin Owned(q)
      BY <1>3, <1>11, <2>3 DEF IInv, MutualExclusion
    <3>5. /\ Depth(q) = got[q] /\ Depth(q)' = got[q] + 1 /\ got[q] \in 0..4
          /\ plan'[q] = plan[q]
      BY <1>1, <1>5, <2>3, <3>1 DEF Depth, TypeOK
    <3>6. \A i \in 1..got[q] : Script(plan[q])[i] # Script(plan[q])[got[q] + 1]
      BY <3>4 DEF Owned, Wanted
    <3>7. Distinct(q)'
      BY <3>2, <3>5, <3>6 DEF Distinct
    <3> QED BY <3>3, <3>7
  <2> QED BY <2>1, <2>2, <2>3
<1>18. \A q \in Ops : pc'[q] = "waiting" => pc[q] = "waiting" /\ q # o /\ q \notin Heirs(S)
  BY <1>4, <1>6
<1>19. QueuesHoldWaiters'
  <2> SUFFICES ASSUME NEW q \in Ops, NEW k \in Paths, NEW i \in 1..Len(waiters'[k]),
                      waiters'[k][i] = q
               PROVE  /\ pc'[q] = "waiting"
                      /\ Wanted(q)' = k
                      /\ \A l \in 1..Len(waiters'[k]) : waiters'[k][l] = q => i = l
    BY DEF QueuesHoldWaiters
  <2> DEFINE d == IF k \in S /\ waiters[k] # <<>> THEN 1 ELSE 0
  <2>1. \A l \in 1..Len(waiters'[k]) :
          l + d \in 1..Len(waiters[k]) /\ waiters'[k][l] = waiters[k][l + d]
    BY <1>1, <1>7 DEF TypeOK
  <2>2. \A l \in 1..Len(waiters[k]) : waiters[k][l] = q =>
          /\ pc[q] = "waiting" /\ Wanted(q) = k
          /\ \A j \in 1..Len(waiters[k]) : waiters[k][j] = q => l = j
    BY DEF IInv, NoLostWakeup, QueuesHoldWaiters
  <2>3. pc[q] = "waiting" /\ Wanted(q) = k /\ q # o
    BY <2>1, <2>2
  <2>4. q \notin Heirs(S)
    <3> SUFFICES ASSUME q \in Heirs(S)
                 PROVE  FALSE
      OBVIOUS
    <3>1. k \in S /\ waiters[k] # <<>> /\ Head(waiters[k]) = q
      BY <1>11, <2>3
    <3>2. i + 1 \in 1..Len(waiters[k]) /\ waiters[k][i + 1] = q /\ waiters[k][1] = q
      BY <1>9, <2>1, <3>1
    <3> QED BY <1>9, <2>2, <3>1, <3>2
  <2>5. pc'[q] = "waiting" /\ Wanted(q)' = k
    BY <1>6, <1>12, <2>3, <2>4
  <2>6. \A l \in 1..Len(waiters'[k]) : waiters'[k][l] = q => i = l
    <3>1. \A l \in 1..Len(waiters'[k]) : waiters'[k][l] = q => i + d = l + d
      BY <2>1, <2>2
    <3> QED BY <3>1
  <2> QED BY <2>5, <2>6
<1>20. WaitersAreQueued'
  <2> SUFFICES ASSUME NEW q \in Ops, pc'[q] = "waiting"
               PROVE  /\ \E i \in 1..Len(waiters'[Wanted(q)']) : waiters'[Wanted(q)'][i] = q
                      /\ Wanted(q)' \in held'
    BY DEF WaitersAreQueued
  <2>1. pc[q] = "waiting" /\ q # o /\ q \notin Heirs(S) /\ Wanted(q)' = Wanted(q)
    BY <1>12, <1>18
  <2> DEFINE k == Wanted(q)
  <2>2. k \in held /\ k \in Paths /\ \E i \in 1..Len(waiters[k]) : waiters[k][i] = q
    BY <1>1, <2>1 DEF IInv, NoLostWakeup, WaitersAreQueued, TypeOK
  <2> HIDE DEF k
  <2>3. PICK i \in 1..Len(waiters[k]) : waiters[k][i] = q
    BY <2>2
  <2>4. waiters[k] # <<>> /\ waiters[k] \in Seq(Ops)
    BY <1>1, <2>2, <2>3 DEF TypeOK
  <2>5. k \in held'
    BY <1>7, <2>2, <2>4
  <2>6. \E l \in 1..Len(waiters'[k]) : waiters'[k][l] = q
    <3>1. CASE k \in S
      <4>1. waiters'[k] = Tail(waiters[k])
        BY <1>7, <2>2, <2>4, <3>1
      <4>2. i # 1
        BY <1>9, <2>1, <2>2, <2>3, <2>4, <3>1 DEF Heirs
      <4>3. i - 1 \in 1..Len(Tail(waiters[k])) /\ Tail(waiters[k])[i - 1] = q
        BY <2>3, <2>4, <4>2
      <4> QED BY <4>1, <4>3
    <3>2. CASE k \notin S
      BY <1>7, <2>2, <2>3, <3>2
    <3> QED BY <3>1, <3>2
  <2> QED BY <2>1, <2>5, <2>6 DEF k
<1> QED BY <1>8, <1>15, <1>16, <1>17, <1>19, <1>20 DEF IInv, NoLostWakeup

-----------------------------------------------------------------------------
\* Nothing is held, queued or wanted at the start.
LEMMA InitInv == Init => IInv
<1> SUFFICES ASSUME Init
             PROVE  IInv
  OBVIOUS
<1>1. TypeOK
  BY DEF Init, TypeOK, PcLabels
<1>2. \A o \in Ops : Owned(o) = {}
  BY DEF Init, Owned
<1>3. \A o \in Ops : Progress(o) /\ Distinct(o)
  BY DEF Init, Progress, Distinct, Depth
<1>4. MutualExclusion /\ HeldIsOwned
  BY <1>2 DEF Init, MutualExclusion, HeldIsOwned
<1>5. NoLostWakeup
  BY DEF Init, NoLostWakeup, QueuesHoldWaiters, WaitersAreQueued
<1> QED BY <1>1, <1>3, <1>4, <1>5 DEF IInv

\* Every step keeps the invariant and changes ownership in one of the three ways.
LEMMA StepInv ==
  ASSUME IInv, [Next]_vars
  PROVE  /\ IInv'
         /\ \/ \E o \in Ops, k \in Paths : Taken(o, k)
            \/ Kept
            \/ \E o \in Ops : \E S \in SUBSET Paths : pc[o] # "waiting" /\ Given(o, S)
<1> DEFINE Goal == /\ IInv'
                   /\ \/ \E o \in Ops, k \in Paths : Taken(o, k)
                      \/ Kept
                      \/ \E o \in Ops : \E S \in SUBSET Paths :
                           pc[o] # "waiting" /\ Given(o, S)
<1>1. ASSUME NEW o \in Ops, NEW pl \in Plans, Call(o, pl)
      PROVE  Goal
  <2>1. pc[o] = "idle" /\ got[o] = 0 /\ Owned(o) = {}
    BY <1>1, OwnedIsPrefix DEF Call, IInv, Progress
  <2>2. plan' = [plan EXCEPT ![o] = pl] /\ got' = [got EXCEPT ![o] = 0]
    BY <1>1, <2>1 DEF Call, IInv, TypeOK
  <2>3. Acquire(o, Script(pl)[0 + 1]) /\ 0 < Len(Script(pl)) /\ Script(pl)[0 + 1] \in Paths
    BY <1>1, ScriptType DEF Call
  <2>4. /\ Owned(o) = {Script(pl)[i] : i \in 1..0}
        /\ \A i, j \in 1..0 : Script(pl)[i] = Script(pl)[j] => i = j
        /\ 0 \in 0..4 /\ pc[o] # "waiting"
    BY <2>1
  <2> HIDE DEF Goal
  <2>5. IInv' /\ (Taken(o, Script(pl)[0 + 1]) \/ (Kept /\ waiters' # waiters))
    BY <2>2, <2>3, <2>4, AcquireStep
  <2> QED BY <2>3, <2>5 DEF Goal
<1>2. ASSUME NEW o \in Ops, NextKey(o)
      PROVE  Goal
  <2> DEFINE n == got[o] + 1
  <2>1. /\ pc[o] = "acquired" /\ plan[o] \in Plans /\ got[o] \in 0..4
        /\ n < Len(Script(plan[o]))
        /\ Distinct(o) /\ Progress(o) /\ TypeOK
    BY <1>2 DEF NextKey, IInv, Progress, TypeOK
  <2>2. /\ Script(plan[o]) \in Seq(Paths) /\ Len(Script(plan[o])) \in 1..4
        /\ n \in 0..4 /\ Script(plan[o])[n + 1] \in Paths
    <3>1. /\ Script(plan[o]) \in Seq(Paths) /\ Len(Script(plan[o])) \in 1..4
      BY <2>1, ScriptType
    <3> DEFINE len == Len(Script(plan[o]))
    <3>2. len \in 1..4 /\ n < len /\ got[o] \in 0..4
      BY <2>1, <3>1
    <3> HIDE DEF len
    <3>3. n \in 0..4 /\ n + 1 \in 1..len
      BY <3>2
    <3> QED BY <3>1, <3>3 DEF len
  <2>3. plan' = [plan EXCEPT ![o] = plan[o]] /\ got' = [got EXCEPT ![o] = n]
    BY <1>2, <2>1 DEF NextKey, TypeOK
  <2>4. Acquire(o, Script(plan[o])[n + 1])
    BY <1>2, <2>1 DEF NextKey
  <2>5. Depth(o) = n
    BY <2>1 DEF Depth
  <2>6. Owned(o) = {Script(plan[o])[i] : i \in 1..n}
    BY <2>1, <2>5, OwnedIsPrefix
  <2>7. \A i, j \in 1..n : Script(plan[o])[i] = Script(plan[o])[j] => i = j
    BY <2>1, <2>5 DEF Distinct
  <2>8. pc[o] # "waiting"
    BY <2>1
  <2> HIDE DEF n, Goal
  <2>9. IInv' /\ (Taken(o, Script(plan[o])[n + 1]) \/ (Kept /\ waiters' # waiters))
    BY <2>1, <2>2, <2>3, <2>4, <2>6, <2>7, <2>8, AcquireStep
  <2> QED BY <2>2, <2>9 DEF Goal
<1>3. ASSUME NEW o \in Ops, Start(o)
      PROVE  Goal
  <2>1. /\ TypeOK /\ Progress(o) /\ Distinct(o) /\ plan[o] \in Plans /\ got[o] \in 0..4
        /\ pc[o] = "acquired" /\ Depth(o) = got[o] + 1
    BY <1>3 DEF Start, IInv, TypeOK, Progress, Depth
  <2>2. /\ pc'[o] = "running" /\ got'[o] = got[o] + 1 /\ plan' = plan
        /\ got'[o] = Len(Script(plan[o])) /\ held' = held /\ waiters' = waiters
        /\ got[o] + 1 \in 0..4
    <3>1. Len(Script(plan[o])) \in 0..4
      BY <2>1, ScriptType
    <3> QED BY <1>3, <2>1, <3>1 DEF Start, TypeOK
  <2>3. TypeOK'
    BY <1>3, <2>1, <2>2 DEF Start, TypeOK, PcLabels
  <2>4. \A q \in Ops : q # o => /\ Owned(q)' = Owned(q) /\ Progress(q)' /\ Distinct(q)'
                               /\ Wanted(q)' = Wanted(q) /\ pc'[q] = pc[q]
    BY <1>3, <2>1, OthersUnmoved DEF Start, TypeOK, IInv
  <2>5. Depth(o)' = got[o] + 1
    BY <2>2 DEF Depth
  <2>6. Progress(o)' /\ Distinct(o)'
    BY <2>1, <2>2, <2>5 DEF Progress, Distinct
  <2>7. Owned(o)' = Owned(o)
    <3>1. Owned(o) = {Script(plan[o])[i] : i \in 1..(got[o] + 1)}
      BY <2>1, OwnedIsPrefix
    <3>2. Owned(o)' = {Script(plan[o])[i] : i \in 1..(got[o] + 1)}
      BY <2>2 DEF Owned
    <3> QED BY <3>1, <3>2
  <2>8. Kept
    BY <2>2, <2>4, <2>7 DEF Kept
  <2>9. MutualExclusion' /\ HeldIsOwned'
    BY <2>8, KeptPreserves DEF IInv
  <2>10. NoLostWakeup'
    <3>1. \A q \in Ops : pc'[q] = "waiting" <=> pc[q] = "waiting"
      BY <2>1, <2>2, <2>4
    <3>2. \A q \in Ops : pc[q] = "waiting" => Wanted(q)' = Wanted(q)
      BY <2>1, <2>4
    <3>3. QueuesHoldWaiters' /\ WaitersAreQueued'
      BY <2>2, <3>1, <3>2 DEF IInv, NoLostWakeup, QueuesHoldWaiters, WaitersAreQueued
    <3> QED BY <3>3 DEF NoLostWakeup
  <2> QED BY <2>3, <2>4, <2>6, <2>8, <2>9, <2>10 DEF IInv
<1>4. ASSUME NEW o \in Ops, Settle(o)
      PROVE  Goal
  <2> DEFINE m == OuterLen(plan[o])
             then == IF m = 0 THEN "idle" ELSE "unwind"
             pl == IF m = 0 THEN <<>> ELSE plan[o]
  <2>1. /\ pc[o] = "running" /\ plan[o] \in Plans /\ got[o] = Len(Script(plan[o]))
        /\ got[o] \in 0..4 /\ Progress(o) /\ TypeOK
    BY <1>4 DEF Settle, IInv, Progress, TypeOK
  <2>2. m \in 0..got[o]
    BY <2>1, ScriptType
  <2>3. Release(o, Frame(o, m), then)
    BY <1>4 DEF Settle
  <2>4. got' = [got EXCEPT ![o] = m] /\ plan' = [plan EXCEPT ![o] = pl]
    BY <1>4, <2>1 DEF Settle, TypeOK
  <2>5. \/ then = "idle" /\ m = 0 /\ pl = <<>>
        \/ then = "unwind" /\ m = OuterLen(plan[o]) /\ pl = plan[o]
    OBVIOUS
  <2>6. Frame(o, m) \subseteq Paths
    <3>1. \A i \in (m + 1)..got[o] : Script(plan[o])[i] \in Paths
      BY <2>1, <2>2, ScriptType
    <3> QED BY <3>1 DEF Frame
  <2> HIDE DEF m, then, pl, Goal
  <2>7. IInv' /\ Given(o, Frame(o, m))
    BY <2>1, <2>2, <2>3, <2>4, <2>5, ReleaseStep DEF m
  <2> QED BY <2>1, <2>6, <2>7 DEF Goal
<1>5. ASSUME NEW o \in Ops, Unwind(o)
      PROVE  Goal
  <2>1. /\ pc[o] = "unwind" /\ plan[o] \in Plans /\ got[o] \in 0..4
        /\ got[o] = OuterLen(plan[o]) /\ TypeOK
    BY <1>5 DEF Unwind, IInv, Progress, TypeOK
  <2>2. /\ Release(o, Frame(o, 0), "idle")
        /\ got' = [got EXCEPT ![o] = 0] /\ plan' = [plan EXCEPT ![o] = <<>>]
        /\ 0 \in 0..got[o]
    BY <1>5, <2>1 DEF Unwind
  <2>3. Frame(o, 0) \subseteq Paths
    <3>1. \A i \in (0 + 1)..got[o] : Script(plan[o])[i] \in Paths
      BY <2>1, ScriptType
    <3> QED BY <3>1 DEF Frame
  <2> HIDE DEF Goal
  <2>4. IInv' /\ Given(o, Frame(o, 0))
    BY <2>1, <2>2, ReleaseStep
  <2> QED BY <2>1, <2>3, <2>4 DEF Goal
<1>6. CASE UNCHANGED vars
  <2>1. \A q \in Ops : Owned(q)' = Owned(q) /\ Wanted(q)' = Wanted(q)
    BY <1>6 DEF vars, Owned, Wanted
  <2>2. Kept
    BY <1>6, <2>1 DEF Kept, vars
  <2>3. \A q \in Ops : Progress(q)' /\ Distinct(q)'
    BY <1>6 DEF vars, IInv, Progress, Distinct, Depth
  <2>4. TypeOK'
    BY <1>6 DEF vars, IInv, TypeOK
  <2>5. MutualExclusion' /\ HeldIsOwned'
    BY <2>2, KeptPreserves DEF IInv
  <2>6. NoLostWakeup'
    BY <1>6, <2>1 DEF vars, IInv, NoLostWakeup, QueuesHoldWaiters, WaitersAreQueued
  <2> QED BY <2>2, <2>3, <2>4, <2>5, <2>6 DEF IInv
<1>7. CASE Next
  BY <1>1, <1>2, <1>3, <1>4, <1>5, <1>7 DEF Next, Step
<1> QED BY <1>6, <1>7

\* The inductive invariant holds of every behaviour.
THEOREM Invariance == Spec => []IInv
<1>1. IInv /\ [Next]_vars => IInv'
  BY StepInv
<1> QED BY InitInv, <1>1, PTL DEF Spec

\* Every variable of the registry and of its callers has its type.
THEOREM TypeOKHolds == Spec => []TypeOK
<1>1. IInv => TypeOK
  BY DEF IInv
<1> QED BY Invariance, <1>1, PTL

\* No two operations ever own a path at once, whatever nests they run.
THEOREM MutualExclusionHolds == Spec => []MutualExclusion
<1>1. IInv => MutualExclusion
  BY DEF IInv
<1> QED BY Invariance, <1>1, PTL

\* #held is exactly what is owned: no lock leaks and none is free while owned.
THEOREM HeldIsOwnedHolds == Spec => []HeldIsOwned
<1>1. IInv => HeldIsOwned
  BY DEF IInv
<1> QED BY Invariance, <1>1, PTL

\* Whoever is suspended is queued, once, behind an owner that will wake it.
THEOREM NoLostWakeupHolds == Spec => []NoLostWakeup
<1>1. IInv => NoLostWakeup
  BY DEF IInv
<1> QED BY Invariance, <1>1, PTL

\* The registry hands every key to whoever has waited for it longest.
THEOREM NoOvertakingHolds == Spec => NoOvertaking
<1>1. ASSUME IInv, [Next]_vars
      PROVE  [\A o \in Ops : \A k \in Owned(o)' \ Owned(o) :
                waiters[k] # <<>> => o = Head(waiters[k])]_vars
  <2> SUFFICES ASSUME NEW o \in Ops, NEW k \in Owned(o)', k \notin Owned(o),
                      waiters[k] # <<>>
               PROVE  o = Head(waiters[k])
    OBVIOUS
  <2>1. CASE \E p \in Ops, j \in Paths : Taken(p, j)
    <3>1. PICK p \in Ops, j \in Paths : Taken(p, j)
      BY <2>1
    <3>2. k = j /\ k \in Paths /\ k \notin held
      BY <3>1 DEF Taken
    <3>3. waiters[k] \in Seq(Ops) /\ 1 \in 1..Len(waiters[k]) /\ waiters[k][1] \in Ops
      BY <1>1, <3>2 DEF IInv, TypeOK
    <3>4. pc[waiters[k][1]] = "waiting" /\ Wanted(waiters[k][1]) = k
      BY <1>1, <3>2, <3>3 DEF IInv, NoLostWakeup, QueuesHoldWaiters
    <3>5. k \in held
      BY <1>1, <3>3, <3>4 DEF IInv, NoLostWakeup, WaitersAreQueued
    <3> QED BY <3>2, <3>5
  <2>2. CASE Kept
    BY <2>2 DEF Kept
  <2>3. CASE \E p \in Ops : \E S \in SUBSET Paths : pc[p] # "waiting" /\ Given(p, S)
    BY <2>3 DEF Given, HeirOf
  <2> QED BY <1>1, <2>1, <2>2, <2>3, StepInv
<1> QED BY Invariance, <1>1, PTL DEF Spec, NoOvertaking

-----------------------------------------------------------------------------
\* A non-empty set of naturals has a least element.
LEMMA LeastNatural ==
  ASSUME NEW T \in SUBSET Nat, T # {}
  PROVE  \E x \in T : \A y \in T : x <= y
<1>1. \E x \in T : \A y \in T : ~ (<<y, x>> \in OpToRel(<, Nat))
  BY NatLessThanWellFounded, WFMin
<1>2. \A x, y \in Nat : <<y, x>> \notin OpToRel(<, Nat) => x <= y
  BY DEF OpToRel
<1> QED BY <1>1, <1>2

\* When every nest ascends, a suspended caller wants a key above all it owns.
LEMMA WaitsUpward ==
  ASSUME IInv, \A pl \in Plans : Ascending(pl), NEW q \in Ops, pc[q] = "waiting"
  PROVE  \A k \in Owned(q) : k \in Paths /\ Rank[k] < Rank[Wanted(q)]
<1>1. /\ plan[q] \in Plans /\ got[q] \in 0..4 /\ got[q] < Len(Script(plan[q]))
      /\ Progress(q) /\ TypeOK
  BY DEF IInv, TypeOK, Progress
<1>2. Owned(q) = {Script(plan[q])[i] : i \in 1..got[q]} /\ Owned(q) \subseteq Paths
  BY <1>1, OwnedIsPrefix DEF Depth
<1>3. Len(Script(plan[q])) \in 1..4
  BY <1>1, ScriptType
<1> DEFINE len == Len(Script(plan[q]))
<1>4. len \in 1..4 /\ got[q] < len
  BY <1>1, <1>3
<1>5. \A i, j \in 1..len : i < j => Rank[Script(plan[q])[i]] < Rank[Script(plan[q])[j]]
  BY <1>1 DEF Ascending
<1> HIDE DEF len
<1>6. \A i \in 1..got[q] : i \in 1..len /\ got[q] + 1 \in 1..len /\ i < got[q] + 1
  BY <1>1, <1>4
<1>7. \A i \in 1..got[q] : Rank[Script(plan[q])[i]] < Rank[Script(plan[q])[got[q] + 1]]
  BY <1>5, <1>6
<1> QED BY <1>2, <1>7 DEF Wanted

\* "They are acquired in sorted order, which makes deadlock structurally
\* impossible": so it is, for every nest that ascends as a whole.
THEOREM NoWaitCycleHolds ==
  ASSUME \A pl \in Plans : Ascending(pl)
  PROVE  Spec => []NoWaitCycle
<1>1. ASSUME IInv
      PROVE  NoWaitCycle
  <2> SUFFICES ASSUME NEW S \in SUBSET Ops, S # {},
                      \A o \in S : pc[o] = "waiting" /\ \E q \in S : Wanted(o) \in Owned(q)
               PROVE  FALSE
    BY DEF NoWaitCycle
  <2>1. \A o \in S : \E q \in S : Wanted(o) \in Paths /\ Rank[Wanted(o)] < Rank[Wanted(q)]
    BY <1>1, WaitsUpward
  <2> DEFINE height(o) == MaxRank - Rank[Wanted(o)]
             T == {height(o) : o \in S}
  <2>2. \A o \in S : Rank[Wanted(o)] \in 0..MaxRank
    BY <2>1, PathAssumption
  <2>3. T \in SUBSET Nat /\ T # {}
    BY <2>2, PathAssumption
  <2>4. PICK o \in S : \A q \in S : height(o) <= height(q)
    <3> HIDE DEF height
    <3>1. PICK x \in T : \A y \in T : x <= y
      BY <2>3, LeastNatural
    <3>2. PICK o \in S : x = height(o)
      OBVIOUS
    <3> QED BY <3>1, <3>2
  <2>5. PICK q \in S : Rank[Wanted(o)] < Rank[Wanted(q)]
    BY <2>1
  <2>6. height(o) <= height(q)
    BY <2>4
  <2> QED BY <2>2, <2>5, <2>6, PathAssumption
<1> QED BY Invariance, <1>1, PTL

-----------------------------------------------------------------------------
\* The registry implements exclusive ownership with direct hand-over.
THEOREM ImplementsExclusionHolds == Spec => ImplementsExclusion
<1> DEFINE h == [o \in Ops |-> Owned(o)]
<1>1. Init => Locks!Init
  BY DEF Init, Owned, Locks!Init
<1>2. ASSUME IInv, [Next]_vars
      PROVE  [Locks!Next]_h
  <2>1. CASE \E o \in Ops, k \in Paths : Taken(o, k)
    <3>1. PICK o \in Ops, k \in Paths : Taken(o, k)
      BY <2>1
    <3>2. \A q \in Ops : k \notin Owned(q)
      BY <1>2, <3>1 DEF Taken, IInv, HeldIsOwned
    <3>3. h' = [h EXCEPT ![o] = @ \cup {k}]
      BY <3>1 DEF Taken
    <3>4. Locks!Take(o, k)
      BY <3>2, <3>3 DEF Locks!Take
    <3> QED BY <3>4 DEF Locks!Next
  <2>2. CASE Kept
    BY <2>2 DEF Kept
  <2>3. CASE \E o \in Ops : \E S \in SUBSET Paths : pc[o] # "waiting" /\ Given(o, S)
    <3>1. PICK o \in Ops, S \in SUBSET Paths : pc[o] # "waiting" /\ Given(o, S)
      BY <2>3
    <3> DEFINE heir == [k \in S |-> IF waiters[k] # <<>> THEN Head(waiters[k]) ELSE o]
    <3>2. \A k \in S : waiters[k] # <<>> => Head(waiters[k]) \in Ops \ {o}
      <4> SUFFICES ASSUME NEW k \in S, waiters[k] # <<>>
                   PROVE  Head(waiters[k]) \in Ops \ {o}
        OBVIOUS
      <4>1. waiters[k] \in Seq(Ops) /\ k \in Paths
        BY <1>2 DEF IInv, TypeOK
      <4>2. 1 \in 1..Len(waiters[k]) /\ Head(waiters[k]) = waiters[k][1]
            /\ waiters[k][1] \in Ops
        BY <4>1
      <4>3. pc[waiters[k][1]] = "waiting"
        BY <1>2, <4>1, <4>2 DEF IInv, NoLostWakeup, QueuesHoldWaiters
      <4> QED BY <3>1, <4>2, <4>3
    <3>3. heir \in [S -> Ops]
      BY <3>2
    <3>4. \A q \in Ops : q # o => HeirOf(q, S) = {k \in S : heir[k] = q}
      BY <3>2 DEF HeirOf
    <3>5. S \in SUBSET h[o]
      BY <3>1 DEF Given
    <3>6. h' = [q \in Ops |-> IF q = o THEN h[o] \ S ELSE h[q] \cup {k \in S : heir[k] = q}]
      BY <3>1, <3>4 DEF Given
    <3>7. Locks!Give(o, S, heir)
      BY <3>6 DEF Locks!Give
    <3> HIDE DEF heir, h
    <3> QED BY <3>3, <3>5, <3>7 DEF Locks!Next, h
  <2> QED BY <1>2, <2>1, <2>2, <2>3, StepInv
<1>3. Spec => Locks!Spec
  BY Invariance, <1>1, <1>2, PTL DEF Spec, Locks!Spec
<1> QED BY <1>3 DEF ImplementsExclusion
=============================================================================
