----------------------------- MODULE MCOtpLogin -----------------------------
(***************************************************************************)
(* Instances of the login service small enough for TLC.                    *)
(***************************************************************************)
EXTENDS OtpLogin, TLC

CONSTANTS h1, h2, c1, c2

TwoSlots == {h1, h2}
TwoCodes == {c1, c2}

Symmetry == Permutations(Handlers) \cup Permutations(TwoCodes)
=============================================================================
