------------------------- MODULE MCAccessRevocation -------------------------
(* Small instances of AccessRevocation: one or two workers, with or        *)
(* without an API process that synchronises the endpoint.                  *)
EXTENDS AccessRevocation, TLC
Symmetry == Permutations(Users)
=============================================================================
