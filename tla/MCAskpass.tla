------------------------------ MODULE MCAskpass ------------------------------
(* Instances of Askpass. *)
EXTENDS Askpass
=============================================================================
