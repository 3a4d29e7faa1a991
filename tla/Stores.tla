-------------------------------- MODULE Stores --------------------------------
(***************************************************************************)
(* What DirectoryHistoryStore and FavoritesStore make of the envelope they  *)
(* have read: they write it back whole, in the same synchronous step.       *)
(***************************************************************************)
EXTENDS Naturals, Sequences, Ordering

CONSTANTS HistoryLimit   \* HISTORY_LIMIT

ASSUME StoresAssumption == HistoryLimit \in Nat \ {0}

\* filter: the others, in their order.
Without(s, x) ==
  LET kept == {i \in DOMAIN s : s[i] # x}
      below == [i \in kept |-> {j \in kept : j < i}]
  IN [k \in 1..Cardinality(kept) |-> s[Nth(below, k)]]

Capped(s) == SubSeq(s, 1, IF Len(s) < HistoryLimit THEN Len(s) ELSE HistoryLimit)

\* record: to the front, and capped.
Recorded(recents, path) == Capped(<<path>> \o Without(recents, path))
=============================================================================
