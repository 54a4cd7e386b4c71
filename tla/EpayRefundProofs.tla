--------------------------- MODULE EpayRefundProofs ---------------------------
(***************************************************************************)
(* For any number of reconcilers, failures and odd answers a refund is     *)
(* confirmed only if the gateway carried it out: a reconciler on its way   *)
(* to confirm has seen the gateway's answer, and that answer is final.     *)
(*                                                                         *)
(* While reconcilers follow one another and the gateway answers a paid     *)
(* order with "paid" or "refunded", a refund is never submitted twice and  *)
(* never given on top of the purchase.  The inductive invariant is about a *)
(* standing submission: the row says SUBMITTED or CONFIRMED, the fallback  *)
(* is not allowed, and whoever works on the refund has read SUBMITTED or   *)
(* is the one that submitted it.                                           *)
(***************************************************************************)
EXTENDS EpayRefund, TLAPS

ConfirmingHasSeen ==
    \A r \in Reconcilers : reconciler[r].at \in {"confirm", "finish"} => gateway = "refunded"

Inv == TypeOK /\ ConfirmingHasSeen /\ ConfirmedMeansRefunded

(* A refund starts PENDING, with the money still taken.                    *)
LEMMA InvInit == Init => Inv
<1> SUFFICES ASSUME Init PROVE Inv
  OBVIOUS
<1>1. reconciler \in [Reconcilers -> Working \cup {Idle}]
  BY DEF Init, Idle
<1>2. /\ fallback \in BOOLEAN /\ ordered \in BOOLEAN
      /\ disturbed \in BOOLEAN /\ crowded \in BOOLEAN
  BY Zenon DEF Init
<1>3. member \in {"NONE", "REFUND_PENDING"}
  BY DEF Init
<1>4. status \in Statuses /\ standing \in Nat /\ failures \in Nat
  BY DEF Init, Statuses
<1>5. ConfirmingHasSeen /\ ConfirmedMeansRefunded
  BY <1>3 DEF Init, ConfirmingHasSeen, ConfirmedMeansRefunded, Idle
<1> QED
  BY <1>1, <1>2, <1>3, <1>4, <1>5 DEF Init, Inv, TypeOK

(* Every step of a reconciler, failure and gateway event preserves Inv.    *)
LEMMA InvStep == Inv /\ [Next]_vars => Inv'
<1> SUFFICES ASSUME Inv, [Next]_vars PROVE Inv'
  OBVIOUS
<1> USE RefundAssumption
    DEF Inv, TypeOK, ConfirmingHasSeen, ConfirmedMeansRefunded, Idle, Working, Statuses, rowVars, history
<1>1. ASSUME NEW r \in Reconcilers, Begin(r)
      PROVE  Inv'
  BY <1>1 DEF Begin
<1>2. ASSUME NEW r \in Reconcilers, Before(r)
      PROVE  Inv'
  BY <1>2 DEF Before, Goto, Rest
<1>3. ASSUME NEW r \in Reconcilers, Claim(r)
      PROVE  Inv'
  BY <1>3 DEF Claim, Goto, Rest
<1>4. ASSUME NEW r \in Reconcilers, Submit(r)
      PROVE  Inv'
  BY <1>4 DEF Submit, Goto
<1>5. ASSUME NEW r \in Reconcilers, SubmitRefused(r)
      PROVE  Inv'
  BY <1>5 DEF SubmitRefused, Goto
<1>6. ASSUME NEW r \in Reconcilers, Mark(r)
      PROVE  Inv'
  BY <1>6 DEF Mark, Goto
<1>7. ASSUME NEW r \in Reconcilers, After(r)
      PROVE  Inv'
  BY <1>7 DEF After, Goto, Rest
<1>8. ASSUME NEW r \in Reconcilers, Confirm(r)
      PROVE  Inv'
  BY <1>8 DEF Confirm, Rest
<1>9. ASSUME NEW r \in Reconcilers, Exception(r)
      PROVE  Inv'
  BY <1>9 DEF Exception, Rest
<1>10. ASSUME NEW r \in Reconcilers, Allow(r)
      PROVE  Inv'
  BY <1>10 DEF Allow, Goto
<1>11. ASSUME NEW r \in Reconcilers, Prepare(r)
      PROVE  Inv'
  BY <1>11 DEF Prepare, Goto
<1>12. ASSUME NEW r \in Reconcilers, Fulfil(r)
      PROVE  Inv'
  <2>1. CASE FallbackFulfill /\ Rest(r)
    BY <1>12, <2>1 DEF Fulfil, FallbackFulfill, Rest
  <2>2. CASE Rest(r) /\ UNCHANGED rowVars
    BY <1>12, <2>2 DEF Fulfil, Rest
  <2>3. CASE Goto(r, "exception") /\ UNCHANGED rowVars
    BY <1>12, <2>3 DEF Fulfil, Goto
  <2> QED
    BY <1>12, <2>1, <2>2, <2>3 DEF Fulfil
<1>13. ASSUME NEW r \in Reconcilers, BeforeOdd(r)
      PROVE  Inv'
  BY <1>13 DEF BeforeOdd, Fail, Goto
<1>14. ASSUME NEW r \in Reconcilers, BeforeFails(r)
      PROVE  Inv'
  BY <1>14 DEF BeforeFails, Fail, Goto, Rest
<1>15. ASSUME NEW r \in Reconcilers, SubmitFails(r)
      PROVE  Inv'
  BY <1>15 DEF SubmitFails, Fail, Rest
<1>16. ASSUME NEW r \in Reconcilers, AfterFails(r)
      PROVE  Inv'
  BY <1>16 DEF AfterFails, Fail, Rest
<1>17. ASSUME NEW r \in Reconcilers, ConfirmFails(r)
      PROVE  Inv'
  BY <1>17 DEF ConfirmFails, Fail, Goto, Rest
<1>18. ASSUME NEW r \in Reconcilers, FulfilFails(r)
      PROVE  Inv'
  BY <1>18 DEF FulfilFails, Fail, Goto, Rest
<1>19. ASSUME NEW r \in Reconcilers, Crash(r)
      PROVE  Inv'
  BY <1>19 DEF Crash, Fail, Rest
<1>20. CASE AdminFulfil
  BY <1>20 DEF AdminFulfil, FallbackFulfill
<1>21. CASE GatewayCompletes
  BY <1>21 DEF GatewayCompletes
<1>22. CASE Crowd
  BY <1>22 DEF Crowd
<1>23. CASE UNCHANGED vars
  BY <1>23 DEF vars
<1> QED
  BY <1>1, <1>2, <1>3, <1>4, <1>5, <1>6, <1>7, <1>8, <1>9, <1>10, <1>11, <1>12, <1>13, <1>14, <1>15, <1>16, <1>17, <1>18, <1>19, <1>20, <1>21, <1>22, <1>23 DEF Next, Step, Failure

(* The rows and the reconcilers have their types in every reachable state. *)
THEOREM TypeCorrect == Spec => []TypeOK
<1>1. Inv => TypeOK
  BY DEF Inv
<1> QED
  BY <1>1, InvInit, InvStep, PTL DEF Spec

(* Whoever confirms a refund, the customer has the money, however the      *)
(* worker and administrators interleave (confirmRefund).                   *)
THEOREM ConfirmedIsTrue == Spec => []ConfirmedMeansRefunded
<1>1. Inv => ConfirmedMeansRefunded
  BY DEF Inv
<1> QED
  BY <1>1, InvInit, InvStep, PTL DEF Spec

-----------------------------------------------------------------------------
OnTheWayToSubmit ==
    {"claim", "submit", "exception", "allow", "fulfil", "prepare", "refulfil"}

OneAtWork ==
    \A r, q \in Reconcilers : reconciler[r] # Idle /\ reconciler[q] # Idle => r = q

StandingInv ==
    /\ OneAtWork
    /\ standing \in {0, 1}
    /\ standing = 0 => gateway = "paid"
    /\ standing = 1 =>
        /\ status \in {"SUBMITTED", "CONFIRMED"} /\ ~fallback
        /\ \A r \in Reconcilers :
            /\ reconciler[r].at \notin OnTheWayToSubmit
            /\ reconciler[r].at \in {"before", "confirm"} => reconciler[r].seen = "SUBMITTED"
    /\ \A r \in Reconcilers :
        /\ reconciler[r].at \in {"mark", "after", "finish"} => standing = 1
        /\ reconciler[r].at = "submit" => status = "SUBMITTED" /\ ~fallback
    /\ ordered => fallback

UndisturbedInv == ~disturbed => StandingInv

(* At first nothing has been submitted.                                    *)
LEMMA StandingInit == Init => UndisturbedInv
BY RefundAssumption DEF Init, UndisturbedInv, StandingInv, OneAtWork, Idle

(* Every step that does not disturb preserves StandingInv.                 *)
LEMMA StandingStep ==
    Inv /\ UndisturbedInv /\ [Next]_vars => UndisturbedInv'
<1> SUFFICES ASSUME Inv, StandingInv, ~disturbed, ~disturbed', [Next]_vars PROVE StandingInv'
  <2>1. CASE UNCHANGED vars
    BY <2>1 DEF vars, history, rowVars, UndisturbedInv, StandingInv, OneAtWork
  <2>2. CASE Next
    <3>1. ~disturbed' => ~disturbed
      BY <2>2 DEF Inv, TypeOK, Next, Step, Failure, history, Begin, Before, Claim, Submit,
         SubmitRefused, Mark, After, Confirm, Exception, Allow, Prepare, Fulfil, BeforeOdd,
         BeforeFails, SubmitFails, AfterFails, ConfirmFails, FulfilFails, Crash, AdminFulfil,
         GatewayCompletes, Crowd
    <3> QED
      BY <2>2, <3>1 DEF UndisturbedInv
  <2> QED
    BY <2>1, <2>2
<1> USE RefundAssumption
    DEF OneAtWork, StandingInv, OnTheWayToSubmit, Inv, TypeOK, ConfirmingHasSeen,
        Idle, Working, Statuses, rowVars, history
<1>1. ASSUME NEW r \in Reconcilers, Begin(r)
      PROVE  StandingInv'
  BY <1>1 DEF Begin
<1>2. ASSUME NEW r \in Reconcilers, Before(r)
      PROVE  StandingInv'
  BY <1>2 DEF Before, Goto, Rest
<1>3. ASSUME NEW r \in Reconcilers, Claim(r)
      PROVE  StandingInv'
  BY <1>3 DEF Claim, Goto, Rest
<1>4. ASSUME NEW r \in Reconcilers, Submit(r)
      PROVE  StandingInv'
  <2>1. standing = 0 /\ ~fallback /\ ~ordered /\ status = "SUBMITTED"
    BY <1>4 DEF Submit
  <2>2. reconciler'[r].at = "mark" /\ standing' = 1
    BY <1>4, <2>1 DEF Submit, Goto
  <2>3. \A q \in Reconcilers \ {r} : reconciler[q] = Idle /\ reconciler'[q] = Idle
    BY <1>4 DEF Submit, Goto
  <2>4. fallback' = fallback /\ ordered' = ordered /\ status' = status
    BY <1>4 DEF Submit
  <2>5. \A q \in Reconcilers : reconciler'[q].at \in {"mark", "idle"}
    BY <2>2, <2>3
  <2> QED
    BY <2>1, <2>2, <2>3, <2>4, <2>5
<1>5. ASSUME NEW r \in Reconcilers, SubmitRefused(r)
      PROVE  StandingInv'
  BY <1>5 DEF SubmitRefused, Goto
<1>6. ASSUME NEW r \in Reconcilers, Mark(r)
      PROVE  StandingInv'
  BY <1>6 DEF Mark, Goto
<1>7. ASSUME NEW r \in Reconcilers, After(r)
      PROVE  StandingInv'
  BY <1>7 DEF After, Goto, Rest
<1>8. ASSUME NEW r \in Reconcilers, Confirm(r)
      PROVE  StandingInv'
  BY <1>8 DEF Confirm, Rest
<1>9. ASSUME NEW r \in Reconcilers, Exception(r)
      PROVE  StandingInv'
  BY <1>9 DEF Exception, Rest
<1>10. ASSUME NEW r \in Reconcilers, Allow(r)
      PROVE  StandingInv'
  BY <1>10 DEF Allow, Goto
<1>11. ASSUME NEW r \in Reconcilers, Prepare(r)
      PROVE  StandingInv'
  BY <1>11 DEF Prepare, Goto
<1>12. ASSUME NEW r \in Reconcilers, Fulfil(r)
      PROVE  StandingInv'
  BY <1>12 DEF Fulfil, FallbackFulfill, Goto, Rest
<1>13. ASSUME NEW r \in Reconcilers, BeforeOdd(r)
      PROVE  StandingInv'
  BY <1>13 DEF BeforeOdd, Fail, Goto
<1>14. ASSUME NEW r \in Reconcilers, BeforeFails(r)
      PROVE  StandingInv'
  BY <1>14 DEF BeforeFails, Fail, Goto, Rest
<1>15. ASSUME NEW r \in Reconcilers, SubmitFails(r)
      PROVE  StandingInv'
  <2>1. standing = 0 /\ ~fallback /\ ~ordered /\ status = "SUBMITTED"
    BY <1>15 DEF SubmitFails
  <2>2. reconciler'[r] = Idle /\ standing' = 1
    BY <1>15, <2>1 DEF SubmitFails, Rest
  <2>3. \A q \in Reconcilers : reconciler'[q] = Idle
    BY <1>15, <2>2 DEF SubmitFails, Rest
  <2>4. fallback' = fallback /\ ordered' = ordered /\ status' = status
    BY <1>15 DEF SubmitFails
  <2> QED
    BY <2>1, <2>2, <2>3, <2>4
<1>16. ASSUME NEW r \in Reconcilers, AfterFails(r)
      PROVE  StandingInv'
  BY <1>16 DEF AfterFails, Fail, Rest
<1>17. ASSUME NEW r \in Reconcilers, ConfirmFails(r)
      PROVE  StandingInv'
  BY <1>17 DEF ConfirmFails, Fail, Goto, Rest
<1>18. ASSUME NEW r \in Reconcilers, FulfilFails(r)
      PROVE  StandingInv'
  BY <1>18 DEF FulfilFails, Fail, Goto, Rest
<1>19. ASSUME NEW r \in Reconcilers, Crash(r)
      PROVE  StandingInv'
  BY <1>19 DEF Crash, Fail, Rest
<1>20. CASE AdminFulfil
  BY <1>20 DEF AdminFulfil, FallbackFulfill
<1>21. CASE GatewayCompletes
  BY <1>21 DEF GatewayCompletes
<1>22. CASE Crowd
  BY <1>22 DEF Crowd
<1>23. CASE UNCHANGED vars
  BY <1>23 DEF vars
<1> QED
  BY <1>1, <1>2, <1>3, <1>4, <1>5, <1>6, <1>7, <1>8, <1>9, <1>10, <1>11, <1>12, <1>13, <1>14, <1>15, <1>16, <1>17, <1>18, <1>19, <1>20, <1>21, <1>22, <1>23 DEF Next, Step, Failure

(* Reconcilers that follow one another never submit a refund again that    *)
(* may have reached the gateway (claimRefund, recordSubmittedPending).     *)
THEOREM SubmittedOnce == Spec => []ResubmittedOnlyIfDisturbed
<1>1. UndisturbedInv => ResubmittedOnlyIfDisturbed
  BY DEF UndisturbedInv, StandingInv, ResubmittedOnlyIfDisturbed, NeverResubmitted
<1> QED
  BY <1>1, InvInit, InvStep, StandingInit, StandingStep, PTL DEF Spec

(* Nor does the customer get the money back and the purchase too           *)
(* (allowFallback, fallbackFulfillMember).                                 *)
THEOREM MoneyOrPurchase == Spec => []BothOnlyIfDisturbed
<1>1. UndisturbedInv => BothOnlyIfDisturbed
  BY DEF UndisturbedInv, StandingInv, BothOnlyIfDisturbed
<1> QED
  BY <1>1, InvInit, InvStep, StandingInit, StandingStep, PTL DEF Spec
=============================================================================
