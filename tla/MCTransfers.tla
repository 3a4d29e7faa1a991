----------------------------- MODULE MCTransfers -----------------------------
(* Instances of Transfers: sizes around the multiples of two chunk sizes. *)
EXTENDS Transfers

UpTo9 == 0..9
=============================================================================
