--------------------------- MODULE ExclusiveLocks ---------------------------
(***************************************************************************)
(* What PathLockRegistry promises its callers, without queues, promises or *)
(* sorted acquisition: an operation takes a path nobody holds, and whoever *)
(* gives paths up may pass each of them straight to one other operation.   *)
(***************************************************************************)
CONSTANTS Ops,      \* operation instances that use the registry
          Paths     \* lock keys

VARIABLE holds      \* holds[o]: the keys operation o may rely on

Init == holds = [o \in Ops |-> {}]

Take(o, k) == /\ \A q \in Ops : k \notin holds[q]
              /\ holds' = [holds EXCEPT ![o] = @ \cup {k}]

\* o gives up the keys in S; each goes to its heir, and is free when
\* the heir is o itself.
Give(o, S, heir) ==
  holds' = [q \in Ops |-> IF q = o THEN holds[o] \ S
                          ELSE holds[q] \cup {k \in S : heir[k] = q}]

Next == \E o \in Ops :
          \/ \E k \in Paths : Take(o, k)
          \/ \E S \in SUBSET holds[o] :
               \E heir \in [S -> Ops] : Give(o, S, heir)

Spec == Init /\ [][Next]_holds
=============================================================================
