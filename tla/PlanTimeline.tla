---------------------------- MODULE PlanTimeline ----------------------------
(***************************************************************************)
(* The standard plans of one customer.  Every plan is kept twice, as a     *)
(* Subscription, which purchases are decided on, and as an                 *)
(* EntitlementGrant, which gives access; row r of one belongs to row r of  *)
(* the other (legacySubscriptionId).  A plan is bought from the wallet in  *)
(* one transaction, or through Epay: quoted, frozen into a payment attempt *)
(* and fulfilled when the payment arrives, by then perhaps on another      *)
(* timeline.  Redemption codes, gifts, refunds, upgrades, edits of the     *)
(* validity and the early start of a reservation change it as well.        *)
(*                                                                         *)
(* All of them are serializable transactions, except that Epay's quote is  *)
(* read before its transaction.  Time is counted in units an offer lasts   *)
(* Term of.  A status EXPIRED is set only after the end, when no query     *)
(* here would find the row, so it is not distinguished from ACTIVE.        *)
(***************************************************************************)
EXTENDS Integers, Sequences, FiniteSets

CONSTANTS
    Plans,      \* products of the series STANDARD, numbered by price
    Term,       \* what an offer lasts
    MaxTime,    \* bound: the clock
    MaxEvents   \* bound: orders, refunds and edits of a plan

ASSUME TimelineAssumption ==
    /\ Plans \subseteq Nat
    /\ Term \in Nat \ {0} /\ MaxTime \in Nat /\ MaxEvents \in Nat

VARIABLES
    now,
    sub,        \* Subscription rows
    grant,      \* EntitlementGrant rows
    bill,       \* the orders of a row: how many are paid for, given or refunded
    events,     \* counts them, for MaxEvents
    payment,    \* bound: one Epay payment attempt at a time, from its quote on
    stale,      \* history: a payment was fulfilled that would not be quoted so any more
    irregular   \* history: a grant was replaced that its subscription outlived

rows == <<sub, grant, bill, events>>
vars == <<now, rows, payment, stale, irregular>>

Preferences == {"scheduled_switch", "immediate_switch"}
None == [step |-> "none"]
Codes == {"RENEW", "REPLACE"}   \* RedemptionPlanMode
Sources == {"PAID", "ADMIN", "UPGRADE", "REFUNDED"} \cup Codes

Init ==
    /\ now = 0
    /\ sub = <<>> /\ grant = <<>> /\ bill = <<>> /\ events = 0
    /\ payment = None
    /\ stale = FALSE /\ irregular = FALSE

-----------------------------------------------------------------------------
Open(s) == {r \in DOMAIN s : s[r].status = "ACTIVE" /\ s[r].to > now}
Started(s) == {r \in Open(s) : s[r].from <= now}
Reserved(s) == Open(s) \ Started(s)
LastToEnd(S) == {r \in S : \A q \in S : sub[q].to <= sub[r].to}

(* The subscription a purchase is about: the last to end, then the newest. *)
Current ==
    IF Started(sub) = {} THEN 0
    ELSE CHOOSE r \in LastToEnd(Started(sub)) : \A q \in LastToEnd(Started(sub)) : q <= r

(* decidePlanPurchasePolicy *)
Mode(p, preference) ==
    IF Current = 0 THEN "initial"
    ELSE IF sub[Current].plan = p THEN "renewal"
    ELSE preference

EffectiveAt(mode) ==
    IF mode \in {"renewal", "scheduled_switch"} THEN sub[Current].to ELSE now

(* resolveStandardPlanPurchasePolicy refuses while a plan is reserved.     *)
MayBuy == Reserved(sub) = {}

Row(p, from, to) == [plan |-> p, from |-> from, to |-> to, status |-> "ACTIVE"]
NoOrders == [source \in Sources |-> 0]

Event ==
    /\ events < MaxEvents
    /\ events' = events + 1

AddOrder(r, source) ==
    /\ Event
    /\ bill' = IF r \in DOMAIN bill THEN [bill EXCEPT ![r][source] = @ + 1]
               ELSE Append(bill, [NoOrders EXCEPT ![source] = 1])

(* grantFromOrder, for the subscription r.  Unless the existing plan is    *)
(* preserved, every other grant ends.                                      *)
GrantFromOrder(r, p, from, to, preserve, replace) ==
    LET others == [q \in DOMAIN grant |->
                     IF q # r /\ grant[q].status = "ACTIVE" /\ ~preserve
                     THEN [grant[q] EXCEPT !.status = "CANCELED", !.to = from]
                     ELSE grant[q]]
        restarts == grant[r].plan # p \/ replace \/ grant[r].to <= from
    IN  grant' = IF r \in DOMAIN grant
                 THEN [others EXCEPT ![r] = Row(p, IF restarts THEN from ELSE @.from, to)]
                 ELSE Append(others, Row(p, from, to))

(* Mutant: a switch leaves the subscriptions that it replaces open.        *)
CanceledNotAtAll(s) == s

(* An immediate switch ends every subscription, reserved ones included.    *)
Canceled(s) ==
    [r \in DOMAIN s |->
        IF s[r].status # "ACTIVE" THEN s[r]
        ELSE [s[r] EXCEPT !.status = "CANCELED", !.to = IF s[r].from <= now THEN now ELSE @]]

(* Mutant: a renewal counts from now, not from the end of the plan.        *)
PurchaseFromNow(p, mode, at, source) ==
    LET current == Current
        renews == current # 0 /\ sub[current].plan = p /\ source # "ADMIN"
        waits == current # 0 /\ mode = "scheduled_switch"
        preserve == mode = "scheduled_switch"
        from == IF waits /\ ~renews /\ at > now THEN at ELSE now
        row == IF renews THEN current ELSE Len(sub) + 1
    IN  /\ AddOrder(row, source)
        /\ sub' = IF renews THEN [sub EXCEPT ![current].to = now + Term]
                  ELSE Append(IF current # 0 /\ ~waits THEN Canceled(sub) ELSE sub,
                              Row(p, from, from + Term))
        /\ GrantFromOrder(row, p, from, sub'[row].to, preserve, FALSE)

(* createOfferCheckout, from where the policy is decided.                  *)
Purchase(p, mode, at, source) ==
    LET current == Current
        renews == current # 0 /\ sub[current].plan = p /\ source # "ADMIN"
        waits == current # 0 /\ mode = "scheduled_switch"
        preserve == mode = "scheduled_switch"
        from == IF waits /\ ~renews /\ at > now THEN at ELSE now
        row == IF renews THEN current ELSE Len(sub) + 1
    IN  /\ AddOrder(row, source)
        /\ sub' = IF renews THEN [sub EXCEPT ![current].to = @ + Term]
                  ELSE Append(IF current # 0 /\ ~waits THEN Canceled(sub) ELSE sub,
                              Row(p, from, from + Term))
        /\ GrantFromOrder(row, p, from, sub'[row].to, preserve, FALSE)

-----------------------------------------------------------------------------
(* abandonPendingPayments: an attempt replaced so is refunded if it is     *)
(* ever paid.  One that has expired is not replaced.                       *)
Unabandoned == IF payment.step = "pending" THEN None ELSE payment

(* checkout: a purchase paid from the wallet.                              *)
Checkout(p, preference) ==
    /\ MayBuy
    /\ Purchase(p, Mode(p, preference), EffectiveAt(Mode(p, preference)), "PAID")
    /\ payment' = Unabandoned
    /\ UNCHANGED <<now, stale, irregular>>

(* quoteCheckout, read by createPayment before its transaction.            *)
Quote(p, preference) ==
    /\ payment = None /\ MayBuy /\ events < MaxEvents
    /\ payment' = [step |-> "quoted", mode |-> Mode(p, preference), plan |-> p,
                   at |-> EffectiveAt(Mode(p, preference))]
    /\ UNCHANGED <<now, rows, stale, irregular>>

(* The transaction of createPayment freezes the quote into an attempt ...  *)
CreatePayment ==
    /\ payment.step = "quoted"
    /\ payment' = [payment EXCEPT !.step = "pending"]
    /\ UNCHANGED <<now, rows, stale, irregular>>

(* ... which expires (expirePendingPayments) but may be paid nevertheless  *)
ExpirePayment ==
    /\ payment.step = "pending"
    /\ payment' = [payment EXCEPT !.step = "late"]
    /\ UNCHANGED <<now, rows, stale, irregular>>

(* ... or is closed, replaced by another, or cannot be fulfilled and is    *)
(* refunded.                                                               *)
DropPayment ==
    /\ payment # None /\ payment' = None
    /\ UNCHANGED <<now, rows, stale, irregular>>

(* Would the customer still be quoted the same?  Without a plan any        *)
(* purchase starts at once.                                                *)
Fresh(q) ==
    /\ MayBuy
    /\ \/ Current = 0
       \/ /\ q.mode \in {Mode(q.plan, preference) : preference \in Preferences}
          /\ q.mode = "scheduled_switch" => q.at = sub[Current].to

(* settleVerifiedPayment and fulfillEpayPayment, whatever the plans are by *)
(* the time the payment arrives.                                           *)
Settle ==
    /\ payment.step \in {"pending", "late"} /\ payment.mode # "upgrade"
    /\ Purchase(payment.plan, payment.mode, payment.at, "PAID")
    /\ payment' = None
    /\ stale' = (stale \/ ~Fresh(payment))
    /\ irregular' = (irregular \/ ~Fresh(payment))
    /\ UNCHANGED now

-----------------------------------------------------------------------------
(* StandardPlanUpgrade.read: the only plan, bought once and not refunded,  *)
(* for the time it was bought for.                                         *)
Upgradable(r, p) ==
    /\ Open(grant) = {r} /\ grant[r].from <= now
    /\ Open(sub) \subseteq {r}
    /\ bill[r]["PAID"] + bill[r]["ADMIN"] = 1
    /\ \A source \in Codes \cup {"REFUNDED"} : bill[r][source] = 0
    /\ grant[r].to = grant[r].from + Term
    /\ p > grant[r].plan

(* fulfillStandardUpgrade changes the plan of the row in place.            *)
Upgrade(r, p) ==
    /\ AddOrder(r, "UPGRADE")
    /\ sub' = [sub EXCEPT ![r].plan = p]
    /\ grant' = [grant EXCEPT ![r].plan = p]

UpgradeFromWallet(r, p) ==
    /\ Upgradable(r, p) /\ Upgrade(r, p)
    /\ payment' = Unabandoned
    /\ UNCHANGED <<now, stale, irregular>>

Fingerprint(r) == [row |-> r, grant |-> grant[r], bill |-> bill[r]]

QuoteUpgrade(r, p) ==
    /\ payment = None /\ events < MaxEvents /\ Upgradable(r, p)
    /\ payment' = [step |-> "quoted", mode |-> "upgrade", plan |-> p, at |-> Fingerprint(r)]
    /\ UNCHANGED <<now, rows, stale, irregular>>

(* The payment of an upgrade must have been made in time (DropPayment is   *)
(* the one that was not) and find what was quoted.  The time of payment    *)
(* counts, so the attempt itself may have expired before it is settled.    *)
SettleUpgrade ==
    /\ payment.step \in {"pending", "late"} /\ payment.mode = "upgrade"
    /\ LET r == payment.at.row IN
        /\ Upgradable(r, payment.plan) /\ payment.at = Fingerprint(r)
        /\ Upgrade(r, payment.plan)
    /\ payment' = None
    /\ UNCHANGED <<now, stale, irregular>>

-----------------------------------------------------------------------------
(* grantComplimentaryPlan: a gift always starts at once.                   *)
Gift(p) ==
    /\ Purchase(p, Mode(p, "immediate_switch"), now, "ADMIN")
    /\ irregular' = (irregular \/ (Current = 0 /\ Reserved(sub) # {}))
    /\ UNCHANGED <<now, payment, stale>>

(* The redemption policy: only a code for the same plan can extend it.     *)
Extends(r, p, mode) == mode = "RENEW" /\ sub[r].plan = p

(* redeemRedemptionCode.  grantPlanEntitlement works on the subscription   *)
(* that ends last, started or not.                                         *)
RedeemOn(r, p, mode) ==
    /\ AddOrder(r, mode)
    /\ sub' = [sub EXCEPT ![r] = IF Extends(r, p, mode) THEN [sub[r] EXCEPT !.to = @ + Term]
                                 ELSE Row(p, now, now + Term)]
    /\ GrantFromOrder(r, p, now, sub'[r].to, FALSE, mode = "REPLACE")

Redeem(p, mode) ==
    /\ IF Open(sub) = {}
       THEN Purchase(p, "initial", now, mode)
       ELSE \E r \in LastToEnd(Open(sub)) : RedeemOn(r, p, mode)
    /\ irregular' = (irregular \/ Reserved(sub) # {})
    /\ UNCHANGED <<now, payment, stale>>

(* Mutant: the other plans are not looked at.                              *)
NoOverlapUnchecked(g, t) == TRUE

NoOverlap(g, t) ==
    \A q \in DOMAIN grant \ {g} :
        ~(grant[q].status = "ACTIVE" /\ grant[q].from < t /\ grant[q].to > grant[g].from)

(* updatePlanValidity *)
UpdateValidity(g, t) ==
    /\ Event
    /\ g \in Started(grant) /\ t > now /\ t # grant[g].to /\ NoOverlap(g, t)
    /\ grant' = [grant EXCEPT ![g].to = t]
    /\ sub' = [sub EXCEPT ![g].to = t]
    /\ UNCHANGED <<now, bill, payment, stale, irregular>>

(* ScheduledPlanActivation.read: the one reservation, from one order.      *)
Activatable(g) ==
    /\ Reserved(grant) = {g} /\ Cardinality(Started(grant)) <= 1
    /\ bill[g]["PAID"] + bill[g]["RENEW"] + bill[g]["REPLACE"] = 1 /\ bill[g]["ADMIN"] = 0
    /\ \A r \in Open(grant) : bill[r]["REFUNDED"] = 0

(* confirm: it replaces the current plan now.                              *)
Activate(g) ==
    /\ Activatable(g)
    /\ LET Moved(s) == [r \in DOMAIN s |->
                          IF r = g THEN [s[r] EXCEPT !.from = now, !.to = now + Term]
                          ELSE IF r \in Started(grant)
                          THEN [s[r] EXCEPT !.status = "CANCELED", !.to = now]
                          ELSE s[r]]
       IN  sub' = Moved(sub) /\ grant' = Moved(grant)
    /\ UNCHANGED <<now, bill, events, payment, stale, irregular>>

(* createRefund of the whole amount of an order.                           *)
RefundOrder(r) ==
    /\ Event /\ bill[r]["PAID"] > 0 /\ bill[r]["UPGRADE"] = 0
    /\ bill' = [bill EXCEPT ![r]["PAID"] = @ - 1, ![r]["REFUNDED"] = @ + 1]

(* Then reverseOrderForFullRefund: the plan loses what the order had       *)
(* bought, as far as it lies ahead.                                        *)
Refund(r) ==
    /\ RefundOrder(r)
    /\ LET to == IF grant[r].to > now + Term THEN grant[r].to - Term ELSE now
           Cut(s) == [s EXCEPT ![r] = [@ EXCEPT !.to = to,
                                                !.status = IF to > now THEN "ACTIVE" ELSE "CANCELED"]]
       IN  IF grant[r].status = "ACTIVE" THEN sub' = Cut(sub) /\ grant' = Cut(grant)
           ELSE UNCHANGED <<sub, grant>>
    /\ UNCHANGED <<now, payment, stale, irregular>>

Tick ==
    /\ now < MaxTime
    /\ now' = now + 1
    /\ UNCHANGED <<rows, payment, stale, irregular>>

Next ==
    \/ \E p \in Plans, preference \in Preferences : Checkout(p, preference) \/ Quote(p, preference)
    \/ CreatePayment \/ ExpirePayment \/ DropPayment \/ Settle \/ SettleUpgrade
    \/ \E r \in DOMAIN sub, p \in Plans : UpgradeFromWallet(r, p) \/ QuoteUpgrade(r, p)
    \/ \E p \in Plans : Gift(p) \/ Redeem(p, "RENEW") \/ Redeem(p, "REPLACE")
    \/ \E g \in DOMAIN grant : Activate(g) \/ \E t \in 1 .. MaxTime + Term : UpdateValidity(g, t)
    \/ \E r \in DOMAIN bill : Refund(r)
    \/ Tick

Spec == Init /\ [][Next]_vars

-----------------------------------------------------------------------------
(* Two standard plans never run at the same time, unless a payment was     *)
(* fulfilled on other terms than the timeline it met.  grantFromOrder's    *)
(* preserveExistingPlans, updatePlanValidity's look at the other grants    *)
(* and confirm's replacement of the current plan have to agree on it.      *)
PlansDisjoint ==
    stale \/ \A g, h \in DOMAIN grant :
        g # h /\ grant[g].status = "ACTIVE" /\ grant[h].status = "ACTIVE" =>
            grant[g].to <= grant[h].from \/ grant[h].to <= grant[g].from

(* The two records of a plan agree.  A plan that gives access has an open  *)
(* subscription for the same product until the same moment; and a          *)
(* subscription that purchases are decided on gives access, or will,       *)
(* unless a gift, a code or a stale payment met a reservation.             *)
InStep ==
    /\ DOMAIN sub = DOMAIN grant
    /\ \A r \in Open(grant) :
          r \in Open(sub) /\ sub[r].plan = grant[r].plan /\ sub[r].to = grant[r].to
    /\ irregular \/ Open(sub) \subseteq Open(grant)

(* What of a plan lies ahead at time t.                                    *)
Ahead(g, t) == g.to - (IF g.from < t THEN t ELSE g.from)

Kept(r) ==
    /\ grant'[r].status = "ACTIVE"
    /\ grant'[r].from <= grant[r].from /\ Ahead(grant[r], now) <= Ahead(grant'[r], now)

(* What takes time from a plan on somebody's word: a switch at once ends   *)
(* the plan that has started, an early start the plan before it, a gift, a *)
(* REPLACE code or a RENEW code for another plan the plans it replaces; a  *)
(* refund and an edit are about this plan.                                 *)
GivenUp(r) ==
    \/ Refund(r)
    \/ \E t \in 1 .. MaxTime + Term : UpdateValidity(r, t)
    \/ r \in Started(grant) /\ \E p \in Plans : Checkout(p, "immediate_switch")
    \/ r \in Started(grant) /\ payment.step \in {"pending", "late"}
          /\ payment.mode = "immediate_switch" /\ Settle
    \/ \E g \in DOMAIN grant \ {r} : Activate(g)
    \/ \E p \in Plans : Gift(p) \/ Redeem(p, "REPLACE")
    \/ \E p \in Plans \ {grant[r].plan} : Redeem(p, "RENEW")

(* What takes time from a plan on nobody's word.  docs/DOMAIN_MODEL.md:132 *)
(* has "A plan CDK uses `RENEW` to extend the same current plan", but      *)
(* grantPlanEntitlement takes the subscription that ends last.  While r    *)
(* runs and another plan is reserved that is the reservation: a RENEW code *)
(* for r then overwrites the reservation with a term from now, and         *)
(* grantFromOrder cancels the rest of r.                                   *)
RenewalMissesPlan(r) ==
    LastToEnd(Open(sub)) # {r} /\ Redeem(grant[r].plan, "RENEW")

(* No plan that runs or is reserved is cut short by a purchase, a renewal  *)
(* or an upgrade that did not ask for it:                                  *)
(* resolveStandardPlanPurchasePolicy keeps purchases and reservations      *)
(* apart, and grantFromOrder must be told to preserve what is left.  The   *)
(* code breaks this in three ways, which are left out by name: a renewing  *)
(* code while another plan is reserved (RenewalMissesPlan, against         *)
(* docs/DOMAIN_MODEL.md:132), a payment fulfilled on other terms than it   *)
(* would be quoted by then (stale'), and whatever follows a subscription   *)
(* that has outlived its grant (irregular).                                *)
PlanKept ==
    [][\A r \in Open(grant) :
         Kept(r) \/ stale' \/ irregular \/ RenewalMissesPlan(r) \/ GivenUp(r)]_vars
=============================================================================
