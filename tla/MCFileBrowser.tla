---------------------------- MODULE MCFileBrowser ----------------------------
(* Instances of FileBrowser: two hosts with a directory and in it two entries of
   different size whose names differ in case only; one is a directory on the first host. *)
EXTENDS FileBrowser

CONSTANTS hA, hB, top, sub, low

Tree == [q \in Paths |-> top]
Kinds == [h \in Hosts |-> [q \in Paths |->
            IF q = top \/ (q = sub /\ h = hA) THEN "directory" ELSE "file"]]
Roots == [h \in Hosts |-> top]
Sizes == (top :> 1) @@ (sub :> 2) @@ (low :> 1)
FineRank == (top :> 0) @@ (sub :> 1) @@ (low :> 2)
CoarseRank == (top :> 0) @@ (sub :> 1) @@ (low :> 1)
=============================================================================
