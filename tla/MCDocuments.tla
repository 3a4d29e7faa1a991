----------------------------- MODULE MCDocuments -----------------------------
(* Instances of Documents: one file, in one window or two. *)
EXTENDS Documents, TLC

CONSTANTS w1, w2, d1, d2, file1, t1, t2

OneFile == [d \in Docs |-> file1]
Symmetric == Permutations(Windows) \cup Permutations(Docs) \cup Permutations(Tasks)
=============================================================================
