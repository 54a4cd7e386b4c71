---------------------------- MODULE ReliableMeter ----------------------------
(***************************************************************************)
(* What metering promises an account holder: traffic is billed at most     *)
(* once, never more than was used, and a bill is never taken back.  How    *)
(* traffic travels from the endpoint to the bill is left open.             *)
(***************************************************************************)
EXTENDS Naturals

CONSTANT Users

VARIABLES
    outstanding,  \* units used and neither billed nor lost
    billed,       \* units billed
    lost          \* units that will never be billed

vars == <<outstanding, billed, lost>>

Zero == [u \in Users |-> 0]

Init == outstanding = Zero /\ billed = Zero /\ lost = Zero

(* A user sends one unit.                                                  *)
Use(u) ==
    /\ outstanding' = [outstanding EXCEPT ![u] = @ + 1]
    /\ UNCHANGED <<billed, lost>>

(* Units move from a to b, of any users at once, and only that way.        *)
Moves(a, aNext, b, bNext) ==
    \A u \in Users : /\ bNext[u] >= b[u]
                     /\ aNext[u] + bNext[u] = a[u] + b[u]

Bill == Moves(outstanding, outstanding', billed, billed') /\ UNCHANGED lost

Lose == Moves(outstanding, outstanding', lost, lost') /\ UNCHANGED billed

Next == (\E u \in Users : Use(u)) \/ Bill \/ Lose

Spec == Init /\ [][Next]_vars
=============================================================================
