------------------------------ MODULE EpayRefund ------------------------------
(***************************************************************************)
(* One refund of a settled payment, as GroupBuyReconciliationService works *)
(* it off.  The worker's reconcileDueRefunds and an administrator's        *)
(* POST refunds/:id/retry run the same reconcileRefundAttempt in different *)
(* processes.  A reconciler reads the row once and then acts on what it    *)
(* read, across two or three requests to the gateway, so what it has seen  *)
(* is state of the reconciler.                                             *)
(*                                                                         *)
(* The refund is of a group-buy member, who gets the plain purchase if the *)
(* gateway refuses the refund, of a member whose account was deleted, or   *)
(* compensates a payment that could not be fulfilled.  It is created for a *)
(* settled payment with the payment's amount, so the check of both at the  *)
(* top of reconcileRefundAttempt never fails; the group's status, a        *)
(* summary of its members', is left out.                                   *)
(***************************************************************************)
EXTENDS Naturals

CONSTANTS
    Reconcilers,  \* concurrent runs of reconcileRefundAttempt
    Worker,       \* the one in the worker, which retries for ever
    Kinds,        \* some of "member", "deleted" and "compensation"
    OddAnswers,   \* may a query of a paid order answer anything else?
    MaxFailures   \* bound: failed requests, odd answers and crashes

ASSUME RefundAssumption ==
    /\ Worker \in Reconcilers
    /\ Kinds \subseteq {"member", "deleted", "compensation"}
    /\ OddAnswers \in BOOLEAN
    /\ MaxFailures \in Nat

VARIABLES
    kind,         \* what the refund is of; never changes
    status,       \* EpayRefundAttempt.status
    fallback,     \* fallbackAllowedAt is set
    ordered,      \* the member's orderId is set
    member,       \* GroupBuyMember.status, "NONE" for a compensation
    fulfillment,  \* the payment's fulfillmentStatus
    gateway,      \* the money: "paid", "processing" or "refunded"
    reconciler,   \* reconciler[r]: where r is, and the status it has read
    standing,     \* history: submissions the gateway has not refused
    disturbed,    \* history: two were at work at once, or a query was answered oddly
    failures,
    crowded       \* do finished rows that stay FAILED fill the worker's batch?

rowVars == <<kind, status, fallback, ordered, member, fulfillment>>
history == <<standing, disturbed>>
vars == <<rowVars, gateway, reconciler, history, failures, crowded>>

Statuses == {"PENDING", "SUBMITTED", "FAILED", "CONFIRMED"}
Idle == [at |-> "idle"]
Working ==
    [at : {"before", "claim", "submit", "mark", "after", "confirm", "finish",
           "exception", "allow", "fulfil", "prepare", "refulfil"},
     seen : Statuses]

Init ==
    /\ kind \in Kinds
    /\ status = "PENDING" /\ fallback = FALSE /\ ordered = FALSE
    /\ member = IF kind = "compensation" THEN "NONE" ELSE "REFUND_PENDING"
    /\ fulfillment = "REFUND_PENDING"
    /\ gateway = "paid"
    /\ reconciler = [r \in Reconcilers |-> Idle]
    /\ standing = 0 /\ disturbed = FALSE /\ failures = 0 /\ crowded = FALSE

-----------------------------------------------------------------------------
Goto(r, at) ==
    reconciler' = [reconciler EXCEPT ![r] = [at |-> at, seen |-> reconciler[r].seen]]
Rest(r) == reconciler' = [reconciler EXCEPT ![r] = Idle]
Fail == failures < MaxFailures /\ failures' = failures + 1

(* Mutant: a refund that was submitted is not looked at again.             *)
BeginUnlessSubmitted(r) ==
    /\ reconciler[r] = Idle
    /\ status \in {"PENDING", "FAILED"} /\ ~ordered
    /\ r = Worker => ~crowded
    /\ reconciler' = [reconciler EXCEPT ![r] =
                        [at |-> IF fallback THEN "prepare" ELSE "before", seen |-> status]]
    /\ disturbed' = (disturbed \/ \E q \in Reconcilers : reconciler[q] # Idle)
    /\ UNCHANGED <<rowVars, gateway, standing, failures, crowded>>

(* reconcileRefundAttempt reads the row, in the worker for each row of the *)
(* batch.  Once the gateway has refused, the member's purchase is tried    *)
(* again instead of the refund.                                            *)
Begin(r) ==
    /\ reconciler[r] = Idle
    /\ status # "CONFIRMED" /\ ~ordered
    /\ r = Worker => ~crowded
    /\ reconciler' = [reconciler EXCEPT ![r] =
                        [at |-> IF fallback THEN "prepare" ELSE "before", seen |-> status]]
    /\ disturbed' = (disturbed \/ \E q \in Reconcilers : reconciler[q] # Idle)
    /\ UNCHANGED <<rowVars, gateway, standing, failures, crowded>>

(* The query before submitting, answered: an order already refunded is     *)
(* confirmed, a refund read as submitted is left alone, any other claimed. *)
Before(r) ==
    /\ reconciler[r].at = "before"
    /\ \/ gateway = "refunded" /\ Goto(r, "confirm")
       \/ gateway # "refunded" /\ reconciler[r].seen = "SUBMITTED" /\ Rest(r)
       \/ gateway # "refunded" /\ reconciler[r].seen # "SUBMITTED" /\ Goto(r, "claim")
    /\ UNCHANGED <<rowVars, gateway, history, failures, crowded>>

(* It answers pending, closed or not_found, which a paid order is not.     *)
BeforeOdd(r) ==
    /\ OddAnswers /\ Fail
    /\ reconciler[r].at = "before"
    /\ Goto(r, "exception")
    /\ disturbed' = TRUE
    /\ UNCHANGED <<rowVars, gateway, standing, crowded>>

(* Mutant: an error is recorded as an exception whatever was read.         *)
BeforeFailsAlways(r) ==
    /\ Fail
    /\ reconciler[r].at = "before"
    /\ Goto(r, "exception")
    /\ UNCHANGED <<rowVars, gateway, history, crowded>>

(* It fails, or the credential snapshot cannot be read.                    *)
BeforeFails(r) ==
    /\ Fail
    /\ reconciler[r].at = "before"
    /\ IF reconciler[r].seen = "SUBMITTED" THEN Rest(r) ELSE Goto(r, "exception")
    /\ UNCHANGED <<rowVars, gateway, history, crowded>>

(* claimRefund, a compare-and-set.                                         *)
Claim(r) ==
    /\ reconciler[r].at = "claim"
    /\ IF status \in {"PENDING", "FAILED"} /\ ~fallback
       THEN status' = "SUBMITTED" /\ Goto(r, "submit")
       ELSE status' = status /\ Rest(r)
    /\ UNCHANGED <<kind, fallback, ordered, member, fulfillment, gateway, history, failures, crowded>>

(* The gateway accepts the refund, at once or to process it later ...      *)
Submit(r) ==
    /\ reconciler[r].at = "submit"
    /\ standing' = standing + 1
    /\ gateway' \in IF gateway = "paid" THEN {"processing", "refunded"} ELSE {gateway}
    /\ Goto(r, "mark")
    /\ UNCHANGED <<rowVars, disturbed, failures, crowded>>

(* ... or refuses it explicitly ...                                        *)
SubmitRefused(r) ==
    /\ reconciler[r].at = "submit"
    /\ Goto(r, IF kind = "member" THEN "allow" ELSE "exception")
    /\ UNCHANGED <<rowVars, gateway, history, failures, crowded>>

(* Mutant: no answer is taken for a refusal.                               *)
SubmitFailsRefused(r) ==
    /\ Fail
    /\ reconciler[r].at = "submit"
    /\ standing' = standing + 1
    /\ gateway' \in IF gateway = "paid" THEN {"paid", "processing", "refunded"} ELSE {gateway}
    /\ Goto(r, IF kind = "member" THEN "allow" ELSE "exception")
    /\ UNCHANGED <<rowVars, disturbed, crowded>>

(* ... or no answer arrives, whether or not the request has.               *)
SubmitFails(r) ==
    /\ Fail
    /\ reconciler[r].at = "submit"
    /\ standing' = standing + 1
    /\ gateway' \in IF gateway = "paid" THEN {"paid", "processing", "refunded"} ELSE {gateway}
    /\ Rest(r)
    /\ UNCHANGED <<rowVars, disturbed, crowded>>

(* markSubmitted *)
Mark(r) ==
    /\ reconciler[r].at = "mark"
    /\ status' = "SUBMITTED"
    /\ Goto(r, "after")
    /\ UNCHANGED <<kind, fallback, ordered, member, fulfillment, gateway, history, failures, crowded>>

(* Mutant: an accepted refund counts as carried out.                       *)
AfterAccepted(r) ==
    /\ reconciler[r].at = "after"
    /\ Goto(r, "finish")
    /\ UNCHANGED <<rowVars, gateway, history, failures, crowded>>

(* The query after submitting; anything but a refund leaves it SUBMITTED.  *)
After(r) ==
    /\ reconciler[r].at = "after"
    /\ IF gateway = "refunded" THEN Goto(r, "finish") ELSE Rest(r)
    /\ UNCHANGED <<rowVars, gateway, history, failures, crowded>>

AfterFails(r) ==
    /\ Fail
    /\ reconciler[r].at = "after"
    /\ Rest(r)
    /\ UNCHANGED <<rowVars, gateway, history, crowded>>

(* confirmRefund, after either query.                                      *)
Confirm(r) ==
    /\ reconciler[r].at \in {"confirm", "finish"}
    /\ status' = "CONFIRMED" /\ fulfillment' = "REFUNDED"
    /\ member' = IF kind = "compensation" THEN "NONE" ELSE "REFUNDED"
    /\ Rest(r)
    /\ UNCHANGED <<kind, fallback, ordered, gateway, history, failures, crowded>>

(* Its transaction fails: after the first query like the query itself.     *)
ConfirmFails(r) ==
    /\ Fail
    /\ \/ reconciler[r].at = "confirm" /\ reconciler[r].seen # "SUBMITTED"
          /\ Goto(r, "exception")
       \/ reconciler[r].at = "confirm" /\ reconciler[r].seen = "SUBMITTED" /\ Rest(r)
       \/ reconciler[r].at = "finish" /\ Rest(r)
    /\ UNCHANGED <<rowVars, gateway, history, crowded>>

(* Mutant: the member's status is written to the refund.                   *)
ExceptionMixed(r) ==
    /\ reconciler[r].at = "exception"
    /\ status' = "EXCEPTION" /\ fulfillment' = "MANUAL_REVIEW"
    /\ member' = IF ordered \/ member \in {"NONE", "REFUNDED"} THEN member ELSE "EXCEPTION"
    /\ Rest(r)
    /\ UNCHANGED <<kind, fallback, ordered, gateway, history, failures, crowded>>

(* recordException *)
Exception(r) ==
    /\ reconciler[r].at = "exception"
    /\ status' = "FAILED" /\ fulfillment' = "MANUAL_REVIEW"
    /\ member' = IF ordered \/ member \in {"NONE", "REFUNDED"} THEN member ELSE "EXCEPTION"
    /\ Rest(r)
    /\ UNCHANGED <<kind, fallback, ordered, gateway, history, failures, crowded>>

(* allowFallback *)
Allow(r) ==
    /\ reconciler[r].at = "allow"
    /\ status' = "FAILED" /\ fallback' = TRUE /\ member' = "REFUND_PENDING"
    /\ Goto(r, "fulfil")
    /\ UNCHANGED <<kind, ordered, fulfillment, gateway, history, failures, crowded>>

(* prepareMemberRetry *)
Prepare(r) ==
    /\ reconciler[r].at = "prepare"
    /\ member' = "REFUND_PENDING"
    /\ Goto(r, "refulfil")
    /\ UNCHANGED <<kind, status, fallback, ordered, fulfillment, gateway, history, failures, crowded>>

(* fallbackFulfillMember, the purchase without the group's bonus.          *)
FallbackFulfill ==
    /\ ~ordered /\ fallback /\ member \in {"REFUND_PENDING", "EXCEPTION"}
    /\ ordered' = TRUE /\ member' = "FALLBACK_FULFILLED" /\ fulfillment' = "APPLIED"
    /\ UNCHANGED <<kind, status, fallback>>

(* It does nothing for a member who has an order and throws where it is    *)
(* not called for.  An error in a retry is recorded, in a first try not.   *)
Fulfil(r) ==
    /\ reconciler[r].at \in {"fulfil", "refulfil"}
    /\ \/ FallbackFulfill /\ Rest(r)
       \/ ordered /\ Rest(r) /\ UNCHANGED rowVars
       \/ /\ ~ordered /\ ~(fallback /\ member \in {"REFUND_PENDING", "EXCEPTION"})
          /\ IF reconciler[r].at = "refulfil" THEN Goto(r, "exception") ELSE Rest(r)
          /\ UNCHANGED rowVars
    /\ UNCHANGED <<gateway, history, failures, crowded>>

FulfilFails(r) ==
    /\ Fail
    /\ reconciler[r].at \in {"fulfil", "refulfil"}
    /\ IF reconciler[r].at = "refulfil" THEN Goto(r, "exception") ELSE Rest(r)
    /\ UNCHANGED <<rowVars, gateway, history, crowded>>

(* retryFallbackFulfillment, on an administrator's request.                *)
AdminFulfil ==
    FallbackFulfill /\ UNCHANGED <<gateway, reconciler, history, failures, crowded>>

(* The gateway finishes a refund it has accepted.                          *)
GatewayCompletes ==
    /\ gateway = "processing"
    /\ gateway' = "refunded"
    /\ UNCHANGED <<rowVars, reconciler, history, failures, crowded>>

Crash(r) ==
    /\ Fail
    /\ reconciler[r] # Idle
    /\ Rest(r)
    /\ UNCHANGED <<rowVars, gateway, history, crowded>>

(* reconcileDueRefunds takes the GROUP_BUY_REFUND_BATCH_SIZE rows that were *)
(* updated longest ago.  The row of a member who got the purchase instead  *)
(* stays FAILED and is left as it is: once a batch of such rows is older   *)
(* than this one, no other row is ever taken.                              *)
Crowd ==
    /\ ~crowded
    /\ crowded' = TRUE
    /\ UNCHANGED <<rowVars, gateway, reconciler, history, failures>>

-----------------------------------------------------------------------------
Step(r) ==
    \/ Before(r) \/ Claim(r) \/ Submit(r) \/ SubmitRefused(r) \/ Mark(r)
    \/ After(r) \/ Confirm(r) \/ Exception(r) \/ Allow(r) \/ Prepare(r)
    \/ Fulfil(r)

Failure(r) ==
    \/ BeforeOdd(r) \/ BeforeFails(r) \/ SubmitFails(r) \/ AfterFails(r)
    \/ ConfirmFails(r) \/ FulfilFails(r) \/ Crash(r)

Next ==
    \/ \E r \in Reconcilers : Begin(r) \/ Step(r) \/ Failure(r)
    \/ AdminFulfil \/ GatewayCompletes \/ Crowd

Spec == Init /\ [][Next]_vars

(* The worker takes up an open refund that is in its batch every           *)
(* GROUP_BUY_REFUND_RETRY_MS, and a reconciler that has started goes on.   *)
(* A look that leaves a refund open updates its row, which moves it behind *)
(* the others, so only rows that are never updated can crowd it out.       *)
Fairness ==
    /\ WF_vars(Begin(Worker))
    /\ \A r \in Reconcilers : WF_vars(Step(r))

FairSpec == Spec /\ Fairness

-----------------------------------------------------------------------------
(* The types of the rows, the reconcilers and the history.                 *)
TypeOK ==
    /\ kind \in Kinds
    /\ status \in Statuses
    /\ fallback \in BOOLEAN /\ ordered \in BOOLEAN
    /\ member \in {"NONE", "REFUND_PENDING", "EXCEPTION", "REFUNDED", "FALLBACK_FULFILLED"}
    /\ fulfillment \in {"REFUND_PENDING", "MANUAL_REVIEW", "REFUNDED", "APPLIED"}
    /\ gateway \in {"paid", "processing", "refunded"}
    /\ reconciler \in [Reconcilers -> Working \cup {Idle}]
    /\ standing \in Nat /\ disturbed \in BOOLEAN /\ failures \in Nat
    /\ crowded \in BOOLEAN

(* group-buy-reconciliation.service.spec.ts:120 'confirms an accepted      *)
(* refund only after signed query reports refunded': whoever confirms, and *)
(* however long ago it asked the gateway, the customer has the money.      *)
ConfirmedMeansRefunded ==
    status = "CONFIRMED" \/ fulfillment = "REFUNDED" \/ member = "REFUNDED"
        => gateway = "refunded"

(* group-buy-reconciliation.service.spec.ts:209 'never resubmits a refund  *)
(* that was already submitted': while a submission may have reached the    *)
(* gateway and was not refused, there is no second one.                    *)
NeverResubmitted == standing <= 1

(* The same of reconcilers that follow one another, with a gateway that    *)
(* answers the query of a paid order with "paid" or "refunded".            *)
ResubmittedOnlyIfDisturbed == ~disturbed => NeverResubmitted

(* A customer never gets both the money back and the purchase, whatever    *)
(* requests fail or are answered late, while reconcilers follow one        *)
(* another.                                                                *)
BothOnlyIfDisturbed == ~disturbed => (ordered => gateway = "paid")

(* A refund the gateway has carried out is confirmed in the end and stays  *)
(* so, even if the process that submitted it crashed before it learned of  *)
(* the outcome, unless the purchase was given as well or the worker's      *)
(* batches have filled up with rows it never finishes.                     *)
RefundSeen ==
    gateway = "refunded" ~> (ordered \/ crowded \/ [](status = "CONFIRMED"))
=============================================================================
