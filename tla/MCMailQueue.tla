----------------------------- MODULE MCMailQueue -----------------------------
(***************************************************************************)
(* Instances of the mail queue small enough for TLC.                       *)
(***************************************************************************)
EXTENDS MailQueue, TLC

Symmetry == Permutations(Tasks)
=============================================================================
