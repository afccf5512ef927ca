--------------------------- MODULE MCRegistration ---------------------------
(***************************************************************************)
(* Instances of the account service small enough for TLC.                  *)
(***************************************************************************)
EXTENDS Access, TLC

CONSTANTS h1, h2, h3, e1, e2, p1, p2, w1, w2, s1, s2, c1, c2

Slots == {h1, h2}
ThreeSlots == {h1, h2, h3}

\* One office among the companies, around point 0.
OneOffice == [c \in Companies |-> IF c = c1 THEN [place |-> 0, radius |-> 2] ELSE NULL]
Line == (-3) .. 3

Symmetry == Permutations(Handlers) \cup Permutations({e1, e2}) \cup Permutations({p1, p2})
              \cup Permutations({w1, w2}) \cup Permutations({s1, s2})
=============================================================================
