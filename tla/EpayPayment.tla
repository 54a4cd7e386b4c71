----------------------------- MODULE EpayPayment -----------------------------
(***************************************************************************)
(* The payment attempts of one member: checkout (EpayService.createPayment *)
(* and its siblings), expiry, replacement by a newer checkout, and the two *)
(* ways a payment is noticed, the gateway's callback (processCallback) and *)
(* the active query (EpayReconciliationService), which race into the same  *)
(* settlement (settleVerifiedPayment).                                     *)
(*                                                                         *)
(* A handler is one such activity: a callback in some API process, the     *)
(* worker's reconciliation, or an administrator's.  Checkout and           *)
(* settlement are serializable transactions, and most other writes are one *)
(* conditional update: each is one step.  recordSettlementFailure runs at  *)
(* the database's default isolation, read committed, so that its read and  *)
(* its writes are two.  What a handler carries from one step to the next   *)
(* is state.  An attempt stands for its merchant order number and its      *)
(* idempotency key; the gateway gives an order one trade number, and       *)
(* amount and channel of a signed message match.                           *)
(***************************************************************************)
EXTENDS Naturals

CONSTANTS
    Attempts,      \* attempts the member may create
    Handlers,      \* concurrent callbacks and reconciliations
    Broken,        \* attempts whose credential snapshot is unreadable
    MaxFailures,   \* bound: failed settlements and crashes
    MaxChanges     \* bound: changes of what can be fulfilled

ASSUME PaymentAssumption ==
    /\ Broken \subseteq Attempts
    /\ MaxFailures \in Nat /\ MaxChanges \in Nat

VARIABLES
    status,       \* EpayPaymentAttempt.status, "NONE" before checkout
    fulfillment,  \* fulfillmentStatus
    active,       \* attempts holding the member's activeKey
    abandoned,    \* abandonedAt is set
    closed,       \* closedAt is set
    orders,       \* orders created for an attempt
    refunds,      \* attempts with an EpayRefundAttempt
    past,         \* expiresAt has come
    gateway,      \* the order at the gateway
    grantable,    \* attempts whose purchase could be fulfilled now
    handler,      \* handler[h]: what h is doing, and with which attempt
    failures,
    changes,
    \* History
    overtaken     \* attempts settled after another handler had read no order
                  \* and before it queued the refund

rowVars == <<status, fulfillment, active, abandoned, closed, orders, refunds>>
envVars == <<past, gateway, grantable, failures, changes>>
vars == <<rowVars, envVars, handler, overtaken>>

Idle == [at |-> "idle"]
Working == [at : {"query", "close", "settle", "rejected", "compensate", "retry"},
            attempt : Attempts]

-----------------------------------------------------------------------------
Init ==
    /\ status = [a \in Attempts |-> "NONE"]
    /\ fulfillment = [a \in Attempts |-> "PENDING"]
    /\ active = {} /\ abandoned = {} /\ closed = {}
    /\ orders = [a \in Attempts |-> 0] /\ refunds = {}
    /\ past = {} /\ gateway = [a \in Attempts |-> "none"]
    /\ grantable = Attempts
    /\ handler = [h \in Handlers |-> Idle]
    /\ failures = 0 /\ changes = 0 /\ overtaken = {}

(* expirePendingPayments *)
Expirable == {a \in past : status[a] = "PENDING"}

(* abandonPendingPayments, after the attempts in gone have expired.        *)
Abandonable(gone) ==
    {a \in active \ gone : status[a] = "PENDING" /\ fulfillment[a] = "PENDING"}

(* A new checkout.  Catalogue checkouts expire old attempts first, wallet  *)
(* top-ups do not; both abandon what is pending and take the activeKey.    *)
Checkout(a, expiresFirst) ==
    LET gone == IF expiresFirst THEN Expirable ELSE {}
        replaced == Abandonable(gone)
    IN
    /\ status[a] = "NONE"
    /\ status' = [b \in Attempts |-> IF b = a THEN "PENDING"
                                     ELSE IF b \in gone \cup replaced THEN "EXPIRED"
                                     ELSE status[b]]
    /\ abandoned' = abandoned \cup replaced
    /\ active' = {a}
    /\ UNCHANGED <<fulfillment, closed, orders, refunds, envVars, handler, overtaken>>

(* getPayment, polled by the payment page.                                 *)
Poll(a) ==
    /\ a \in Expirable
    /\ status' = [status EXCEPT ![a] = "EXPIRED"]
    /\ active' = active \ {a}
    /\ UNCHANGED <<fulfillment, abandoned, closed, orders, refunds,
                   envVars, handler, overtaken>>

(* The environment: time, the customer at the gateway, who may be late,    *)
(* and whatever decides whether a purchase can still be granted (limits,   *)
(* catalogue, quotes, wallet capacity).                                    *)
TimePasses(a) ==
    /\ status[a] # "NONE" /\ a \notin past
    /\ past' = past \cup {a}
    /\ UNCHANGED <<rowVars, gateway, grantable, failures, changes, handler, overtaken>>

MoveAtGateway(a, from, to) ==
    /\ gateway[a] = from
    /\ gateway' = [gateway EXCEPT ![a] = to]
    /\ UNCHANGED <<rowVars, past, grantable, failures, changes, handler, overtaken>>

OpenAtGateway(a) ==
    /\ status[a] # "NONE"
    /\ MoveAtGateway(a, "none", "open")

PayAtGateway(a) == MoveAtGateway(a, "open", "paid")

CloseAtGateway(a) == MoveAtGateway(a, "open", "closed")

ChangeTerms(a) ==
    /\ changes < MaxChanges
    /\ changes' = changes + 1
    /\ grantable' = IF a \in grantable THEN grantable \ {a} ELSE grantable \cup {a}
    /\ UNCHANGED <<rowVars, past, gateway, failures, handler, overtaken>>

-----------------------------------------------------------------------------
(* Handlers.                                                               *)
Goto(h, at, a) == handler' = [handler EXCEPT ![h] = [at |-> at, attempt |-> a]]
Rest(h) == handler' = [handler EXCEPT ![h] = Idle]

(* The credential snapshot cannot be read: the attempt is left to a human. *)
ManualReview(a) ==
    /\ orders[a] = 0
    /\ fulfillment' = [fulfillment EXCEPT ![a] = "MANUAL_REVIEW"]
    /\ active' = active \ {a}
    /\ UNCHANGED <<status, abandoned, closed, orders, refunds,
                   envVars, handler, overtaken>>

(* A signed TRADE_SUCCESS callback; the gateway may send it any number of  *)
(* times, or never get through.                                            *)
Callback(h, a) ==
    /\ handler[h] = Idle /\ gateway[a] = "paid"
    /\ IF a \in Broken
       THEN fulfillment[a] # "APPLIED" /\ ManualReview(a)
       ELSE Goto(h, "settle", a) /\ UNCHANGED <<rowVars, envVars, overtaken>>

(* Mutant: only attempts that are still pending are queried.               *)
DueWhilePending(a) ==
    /\ status[a] = "PENDING" /\ a \notin closed
    /\ orders[a] = 0 /\ fulfillment[a] # "MANUAL_REVIEW"

(* What reconcileDueAttempts selects, oldest query first.                  *)
Due(a) ==
    /\ status[a] \in {"PENDING", "EXPIRED", "FAILED"} /\ a \notin closed
    /\ orders[a] = 0 /\ fulfillment[a] # "MANUAL_REVIEW"

BeginQuery(h, a) ==
    /\ handler[h] = Idle
    /\ IF a \in Broken
       THEN ManualReview(a)
       ELSE Goto(h, "query", a) /\ UNCHANGED <<rowVars, envVars, overtaken>>

Reconcile(h, a) == Due(a) /\ BeginQuery(h, a)

(* reconcilePaymentAttempt, on an administrator's request.                 *)
AdminReconcile(h, a) == status[a] \notin {"NONE", "SETTLED"} /\ BeginQuery(h, a)

(* The gateway's signed answer.  No trace of the order is taken for a      *)
(* closed order once the attempt has expired.                              *)
Query(h) ==
    LET a == handler[h].attempt IN
    /\ handler[h].at = "query"
    /\ \/ gateway[a] = "paid" /\ Goto(h, "settle", a)
       \/ /\ gateway[a] = "closed" \/ (gateway[a] = "none" /\ a \in past)
          /\ Goto(h, "close", a)
       \/ /\ gateway[a] = "open" \/ (gateway[a] = "none" /\ a \notin past)
          /\ Rest(h)
    /\ UNCHANGED <<rowVars, envVars, overtaken>>

(* Mutant: closing does not look at the status.                            *)
CloseSettled(h) ==
    LET a == handler[h].attempt IN
    /\ handler[h].at = "close"
    /\ status' = [status EXCEPT ![a] = "FAILED"]
    /\ closed' = closed \cup {a} /\ active' = active \ {a}
    /\ Rest(h)
    /\ UNCHANGED <<fulfillment, abandoned, orders, refunds, envVars, overtaken>>

(* closePayment *)
Close(h) ==
    LET a == handler[h].attempt IN
    /\ handler[h].at = "close"
    /\ IF status[a] = "SETTLED"
       THEN UNCHANGED <<status, closed, active>>
       ELSE /\ status' = [status EXCEPT ![a] = "FAILED"]
            /\ closed' = closed \cup {a} /\ active' = active \ {a}
    /\ Rest(h)
    /\ UNCHANGED <<fulfillment, abandoned, orders, refunds, envVars, overtaken>>

(* The settlement of a overtakes a refund that is about to be queued.      *)
Overtakes(a) ==
    {b \in {a} : \E g \in Handlers :
                    handler[g] = [at |-> "compensate", attempt |-> a]}

(* Mutant: a replaced checkout is fulfilled like any other.                *)
SettleAbandoned(h) ==
    LET a == handler[h].attempt IN
    /\ handler[h].at = "settle"
    /\ \/ status[a] = "SETTLED" /\ Rest(h) /\ UNCHANGED <<rowVars, overtaken>>
       \/ /\ status[a] # "SETTLED" /\ a \notin grantable
          /\ Goto(h, "rejected", a) /\ UNCHANGED <<rowVars, overtaken>>
       \/ /\ status[a] # "SETTLED" /\ a \in grantable
          /\ orders' = [orders EXCEPT ![a] = @ + 1]
          /\ status' = [status EXCEPT ![a] = "SETTLED"]
          /\ fulfillment' = [fulfillment EXCEPT ![a] = "APPLIED"]
          /\ active' = active \ {a} /\ closed' = closed \ {a}
          /\ overtaken' = overtaken \cup Overtakes(a)
          /\ Rest(h) /\ UNCHANGED <<abandoned, refunds>>
    /\ UNCHANGED envVars

(* The settlement transaction: a settled attempt is acknowledged again, an *)
(* abandoned one or one that cannot be granted is rejected for good, any   *)
(* other is fulfilled, whatever became of its status.                      *)
Settle(h) ==
    LET a == handler[h].attempt IN
    /\ handler[h].at = "settle"
    /\ \/ status[a] = "SETTLED" /\ Rest(h) /\ UNCHANGED <<rowVars, overtaken>>
       \/ /\ status[a] # "SETTLED" /\ (a \in abandoned \/ a \notin grantable)
          /\ Goto(h, "rejected", a) /\ UNCHANGED <<rowVars, overtaken>>
       \/ /\ status[a] # "SETTLED" /\ a \in grantable \ abandoned
          /\ orders' = [orders EXCEPT ![a] = @ + 1]
          /\ status' = [status EXCEPT ![a] = "SETTLED"]
          /\ fulfillment' = [fulfillment EXCEPT ![a] = "APPLIED"]
          /\ active' = active \ {a} /\ closed' = closed \ {a}
          /\ overtaken' = overtaken \cup Overtakes(a)
          /\ Rest(h) /\ UNCHANGED <<abandoned, refunds>>
    /\ UNCHANGED envVars

(* The transaction fails three times, or for a passing reason.             *)
SettleFails(h) ==
    /\ handler[h].at = "settle" /\ failures < MaxFailures
    /\ failures' = failures + 1
    /\ Goto(h, "retry", handler[h].attempt)
    /\ UNCHANGED <<rowVars, past, gateway, grantable, changes, overtaken>>

(* Mutant: a rejection is recorded without looking for an order.           *)
ReadOrderIgnored(h) ==
    /\ handler[h].at = "rejected"
    /\ Goto(h, "compensate", handler[h].attempt)
    /\ UNCHANGED <<rowVars, envVars, overtaken>>

(* recordSettlementFailure of a rejection: it reads the attempt and gives  *)
(* up if another handler has fulfilled it meanwhile, ...                   *)
ReadOrder(h) ==
    LET a == handler[h].attempt IN
    /\ handler[h].at = "rejected"
    /\ IF orders[a] > 0 THEN Rest(h) ELSE Goto(h, "compensate", a)
    /\ UNCHANGED <<rowVars, envVars, overtaken>>

(* ... and then queues the refund, without another look.                   *)
RecordRejection(h) ==
    LET a == handler[h].attempt IN
    /\ handler[h].at = "compensate"
    /\ status' = [status EXCEPT ![a] = "SETTLED"]
    /\ fulfillment' = [fulfillment EXCEPT ![a] = "REFUND_PENDING"]
    /\ active' = active \ {a}
    /\ refunds' = refunds \cup {a}
    /\ Rest(h)
    /\ UNCHANGED <<abandoned, closed, orders, envVars, overtaken>>

(* Mutant: a status outside the enumeration.                               *)
RecordRetryUnknown(h) ==
    LET a == handler[h].attempt IN
    /\ handler[h].at = "retry"
    /\ fulfillment' = [fulfillment EXCEPT ![a] = "FAILED"]
    /\ Rest(h)
    /\ UNCHANGED <<status, active, abandoned, closed, orders, refunds,
                   envVars, overtaken>>

(* Any other failure leaves it to the next callback or query.              *)
RecordRetry(h) ==
    LET a == handler[h].attempt IN
    /\ handler[h].at = "retry"
    /\ fulfillment' = IF status[a] = "SETTLED" THEN fulfillment
                      ELSE [fulfillment EXCEPT ![a] = "RETRYING"]
    /\ Rest(h)
    /\ UNCHANGED <<status, active, abandoned, closed, orders, refunds,
                   envVars, overtaken>>

HandlerCrash(h) ==
    /\ handler[h] # Idle /\ failures < MaxFailures
    /\ failures' = failures + 1
    /\ Rest(h)
    /\ UNCHANGED <<rowVars, past, gateway, grantable, changes, overtaken>>

HandlerStep(h) ==
    \/ Query(h) \/ Close(h) \/ Settle(h)
    \/ ReadOrder(h) \/ RecordRejection(h) \/ RecordRetry(h)

Next ==
    \/ \E a \in Attempts :
        \/ \E expiresFirst \in BOOLEAN : Checkout(a, expiresFirst)
        \/ Poll(a) \/ TimePasses(a) \/ ChangeTerms(a)
        \/ OpenAtGateway(a) \/ PayAtGateway(a) \/ CloseAtGateway(a)
    \/ \E h \in Handlers :
        \/ HandlerStep(h) \/ SettleFails(h) \/ HandlerCrash(h)
        \/ \E a \in Attempts :
            Callback(h, a) \/ Reconcile(h, a) \/ AdminReconcile(h, a)

Spec == Init /\ [][Next]_vars

(* Callbacks may all be lost.  The worker's reconciliation runs for as     *)
(* long as an attempt is due, longest unqueried first, and a handler that  *)
(* has started goes on.                                                    *)
Fairness ==
    /\ \A h \in Handlers : WF_vars(HandlerStep(h))
    /\ \A a \in Attempts : SF_vars(\E h \in Handlers : Reconcile(h, a))

FairSpec == Spec /\ Fairness

-----------------------------------------------------------------------------
TypeOK ==
    /\ status \in [Attempts -> {"NONE", "PENDING", "EXPIRED", "FAILED", "SETTLED"}]
    /\ fulfillment \in [Attempts -> {"PENDING", "RETRYING", "APPLIED",
                                     "REFUND_PENDING", "MANUAL_REVIEW"}]
    /\ active \subseteq Attempts /\ abandoned \subseteq Attempts
    /\ closed \subseteq Attempts /\ refunds \subseteq Attempts
    /\ orders \in [Attempts -> Nat]
    /\ past \subseteq Attempts /\ grantable \subseteq Attempts
    /\ gateway \in [Attempts -> {"none", "open", "paid", "closed"}]
    /\ handler \in [Handlers -> Working \cup {Idle}]
    /\ failures \in Nat /\ changes \in Nat /\ overtaken \subseteq Attempts

(* What has become of an attempt, as the customer sees it; of an overtaken *)
(* attempt, what its settlement did.                                       *)
Outcome ==
    [a \in Attempts |->
        CASE orders[a] > 1 -> "fulfilled twice"
          [] orders[a] = 1 /\ a \in refunds \ overtaken -> "fulfilled and refunded"
          [] orders[a] = 1 /\ a \notin refunds \ overtaken -> "fulfilled"
          [] orders[a] = 0 /\ a \in refunds -> "refunding"
          [] orders[a] = 0 /\ a \notin refunds /\ gateway[a] = "paid" -> "paid"
          [] OTHER -> "unpaid"]

(* docs/adr/0010: "Callback and polling races can fulfill a purchase at    *)
(* most once."  Settlement implements PaymentOutcome: only paid attempts   *)
(* are answered, once, with the purchase or with a refund and never both.  *)
(* The code has one way to do both, the overtaken attempts: rejected by    *)
(* one handler, whose recordSettlementFailure finds no order; grantable    *)
(* again and fulfilled by another handler; and then refunded by the first. *)
Promise == INSTANCE PaymentOutcome WITH outcome <- Outcome
OutcomeSpec == Promise!Spec

(* A checkout that was replaced by a newer one is never fulfilled, even if *)
(* its payment was on the way when it was replaced.                        *)
AbandonedNotFulfilled == \A a \in abandoned : orders[a] = 0

(* The row tells the truth: an attempt counts as settled exactly when the  *)
(* customer has the order or a refund is queued, so a stale answer of the  *)
(* gateway cannot reopen or close it.                                      *)
SettledIsAnswered ==
    \A a \in Attempts : status[a] = "SETTLED" <=> orders[a] > 0 \/ a \in refunds

(* docs/adr/0010: "a delayed or lost callback can still complete".  Every  *)
(* payment is settled in the end, even if no callback ever arrives and the *)
(* attempt has expired, failed or been replaced; except one that is made   *)
(* after the gateway did not know the order and closePayment closed it.    *)
PaidSettles ==
    \A a \in Attempts \ Broken :
        gateway[a] = "paid" ~> status[a] = "SETTLED" \/ a \in closed
=============================================================================
