------------------------------- MODULE GroupBuy -------------------------------
(***************************************************************************)
(* Group purchases of a standard plan, in the mode every new group has     *)
(* (ORIGINAL_PRICE_BALANCE_REBATE).  A member pays the full price and gets *)
(* the plan at once; when two members have paid before the group expires,  *)
(* each gets a rebate and a traffic bonus.  While a member holds the       *)
(* customer's one slot (activeSlot), the customer can enter no other group *)
(* and, once the member has paid, can buy no plan at all.                  *)
(*                                                                         *)
(* An action is one transaction, serializable or, for getPayment and for   *)
(* closePayment of the reconciliation, one that first updates the          *)
(* attempt's row on a condition.  Two things take more: the worker's pass  *)
(* over the groups that are due reads in one transaction and writes in     *)
(* others, and a settlement that is rejected is recorded by                *)
(* recordSettlementFailure, which is read committed and so reads and       *)
(* writes in two steps.  A payment may arrive at any time for any attempt  *)
(* that is not settled.                                                    *)
(* Refusals that leave no trace (balance, plan policy, prices) are steps   *)
(* not taken.                                                              *)
(***************************************************************************)
EXTENDS Naturals, Sequences, FiniteSets

CONSTANTS
    Users,
    MaxGroups,    \* bound: groups that are created
    MaxAttempts,  \* bound: payment attempts
    MaxRecorders  \* bound: handlers that record a rejection at a time

ASSUME GroupAssumption == MaxGroups \in Nat /\ MaxAttempts \in Nat /\ MaxRecorders \in Nat

VARIABLES
    group,        \* GroupBuy rows; due: expiresAt has passed
    member,       \* GroupBuyMember rows, by group and customer
    attempt,      \* EpayPaymentAttempt rows
    deleted,      \* customers whose account was deleted
    listed,       \* groups the worker's pass has still to expire
    compensating, \* attempts some handler has read without an order, to refund them
    overtaken     \* history: attempts settled before that refund was written

recording == <<compensating, overtaken>>
vars == <<group, member, attempt, deleted, listed, recording>>

GroupSize == 2
Groups == 1..MaxGroups
NoGroup == [status |-> "NONE"]
NoMember == [status |-> "NONE", slot |-> FALSE]
NoAttempt == 0
NoOrder == 0
WalletOrder == MaxAttempts + 1
Occupying == {"PAYMENT_PENDING", "FULFILLED"}

Init ==
    /\ group = [g \in Groups |-> NoGroup]
    /\ member = [g \in Groups |-> [u \in Users |-> NoMember]]
    /\ attempt = <<>>
    /\ deleted = {}
    /\ listed = {}
    /\ compensating = {} /\ overtaken = {}

-----------------------------------------------------------------------------
(* The rows while one transaction works on them.                           *)
Rows == [group |-> group, member |-> member, attempt |-> attempt]

Write(rows) ==
    /\ group' = rows.group /\ member' = rows.member /\ attempt' = rows.attempt

Ordered(rows, g) ==
    {u \in Users : rows.member[g][u] # NoMember /\ rows.member[g][u].order # NoOrder}

(* What closing the attempt of a member means for it and for its group     *)
(* (closePayment of GroupBuyService).                                      *)
ClosePayment(rows, a) ==
    LET g == rows.attempt[a].group
        u == rows.attempt[a].user
        m == rows.member[g][u]
    IN  IF m.attempt # a \/ m.status # "PAYMENT_PENDING" THEN rows
        ELSE [rows EXCEPT
                !.member[g][u] = [m EXCEPT !.status = "PAYMENT_CLOSED", !.slot = FALSE],
                !.group[g].status =
                    IF rows.group[g].creator = u /\ @ = "PENDING_PAYMENT" THEN "CANCELED" ELSE @]

(* abandonPendingPayments of every checkout.  An attempt whose payment has *)
(* already failed to settle is not taken for an unpaid one.                *)
Pending(u) == {a \in DOMAIN attempt : attempt[a].user = u /\ attempt[a].status = "PENDING"}

Abandoned(u) ==
    IF Pending(u) = {} THEN Rows
    ELSE LET a == CHOOSE x \in Pending(u) : TRUE
         IN  ClosePayment([Rows EXCEPT !.attempt[a].status = "ABANDONED"], a)

(* Mutant: members of a group that fails keep their slots.                 *)
FinalizeUnsuccessfulHolding(rows, g) ==
    IF rows.group[g].status = "SUCCEEDED" THEN rows
    ELSE [rows EXCEPT
            !.group[g].status = IF Ordered(rows, g) # {} THEN "FALLBACK_FULFILLED" ELSE "CANCELED"]

(* finalizeUnsuccessfulBalanceRebateGroup                                  *)
FinalizeUnsuccessful(rows, g) ==
    IF rows.group[g].status = "SUCCEEDED" THEN rows
    ELSE [rows EXCEPT
            !.member[g] = [u \in Users |->
                LET m == rows.member[g][u]
                IN  IF u \notin Ordered(rows, g) THEN [m EXCEPT !.slot = FALSE]
                    ELSE IF m.rewarded THEN m
                    ELSE [m EXCEPT !.status = "FALLBACK_FULFILLED", !.slot = FALSE]],
            !.group[g].status = IF Ordered(rows, g) # {} THEN "FALLBACK_FULFILLED" ELSE "CANCELED"]

(* fulfillBalanceRebateGroup.  It runs after every payment, so that a      *)
(* group it completes has just the members it takes.                       *)
FulfillGroup(rows, g) ==
    LET fulfilled == {u \in Ordered(rows, g) : rows.member[g][u].status = "FULFILLED"}
    IN  IF Cardinality(fulfilled) < GroupSize THEN rows
        ELSE [rows EXCEPT
                !.member[g] = [u \in Users |->
                    IF u \in fulfilled
                    THEN [rows.member[g][u] EXCEPT !.rewarded = TRUE, !.slot = FALSE]
                    ELSE rows.member[g][u]],
                !.group[g].status = "SUCCEEDED"]

(* Mutant: whoever pays completes the group, whatever became of it.        *)
AdvanceAnyGroup(rows, g, u) ==
    IF rows.group[g].creator = u
    THEN [rows EXCEPT !.group[g].status = IF @ = "PENDING_PAYMENT" THEN "OPEN" ELSE @]
    ELSE FulfillGroup(rows, g)

(* advanceBalanceRebateGroup, after u has paid.                            *)
Advance(rows, g, u) ==
    IF rows.group[g].creator = u
    THEN [rows EXCEPT !.group[g].status = IF @ = "PENDING_PAYMENT" THEN "OPEN" ELSE @]
    ELSE IF rows.group[g].status # "OPEN" \/ rows.group[g].due
    THEN FinalizeUnsuccessful(rows, g)
    ELSE FulfillGroup(rows, g)

(* The plan is granted and the member has its order                        *)
(* (markBalanceRebateMemberFulfilled).                                     *)
Fulfilled(rows, g, u, order) ==
    Advance([rows EXCEPT !.member[g][u].status = "FULFILLED", !.member[g][u].order = order], g, u)

-----------------------------------------------------------------------------
NewMember ==
    [status |-> "PAYMENT_PENDING", slot |-> TRUE, attempt |-> NoAttempt, order |-> NoOrder,
     rewarded |-> FALSE]

SlotFree(rows, u) == \A g \in Groups : ~rows.member[g][u].slot

(* preparePayment of a new group.                                          *)
MayCreate(rows, g, u) ==
    /\ rows.group[g] = NoGroup /\ \A h \in 1..(g - 1) : rows.group[h] # NoGroup
    /\ SlotFree(rows, u)

Create(rows, g, u) ==
    [rows EXCEPT !.group[g] = [status |-> "PENDING_PAYMENT", creator |-> u, due |-> FALSE],
                 !.member[g][u] = NewMember]

(* preparePayment of an open group.  For a member whose payment was closed *)
(* and who comes back, nobody counts the places.                           *)
MayJoin(rows, g, u) ==
    /\ rows.group[g].status = "OPEN" /\ ~rows.group[g].due
    /\ SlotFree(rows, u)
    /\ \/ rows.member[g][u].status = "PAYMENT_CLOSED"
       \/ /\ rows.member[g][u] = NoMember
          /\ Cardinality({v \in Users : rows.member[g][v].status \in Occupying}) < GroupSize

Join(rows, g, u) ==
    [rows EXCEPT !.member[g][u] =
        IF @ = NoMember THEN NewMember
        ELSE [@ EXCEPT !.status = "PAYMENT_PENDING", !.slot = TRUE, !.attempt = NoAttempt]]

(* The new attempt, attached to its member (attachPayment).                *)
WithAttempt(rows, g, u) ==
    [rows EXCEPT
        !.attempt = Append(@, [user |-> u, group |-> g, status |-> "PENDING"]),
        !.member[g][u].attempt = Len(rows.attempt) + 1]

(* createGroupBuyPayment.  When the customer has a member already it       *)
(* answers with that one's attempt: OtherCheckout.                         *)
CreateByEpay(u, g) ==
    /\ u \notin deleted /\ Len(attempt) < MaxAttempts
    /\ MayCreate(Abandoned(u), g, u)
    /\ Write(WithAttempt(Create(Abandoned(u), g, u), g, u))
    /\ UNCHANGED <<deleted, listed, recording>>

JoinByEpay(u, g) ==
    /\ u \notin deleted /\ Len(attempt) < MaxAttempts
    /\ MayJoin(Abandoned(u), g, u)
    /\ Write(WithAttempt(Join(Abandoned(u), g, u), g, u))
    /\ UNCHANGED <<deleted, listed, recording>>

(* purchaseWithWallet                                                      *)
CreateByWallet(u, g) ==
    /\ u \notin deleted
    /\ MayCreate(Abandoned(u), g, u)
    /\ Write(Fulfilled(Create(Abandoned(u), g, u), g, u, WalletOrder))
    /\ UNCHANGED <<deleted, listed, recording>>

JoinByWallet(u, g) ==
    /\ u \notin deleted
    /\ MayJoin(Abandoned(u), g, u)
    /\ Write(Fulfilled(Join(Abandoned(u), g, u), g, u, WalletOrder))
    /\ UNCHANGED <<deleted, listed, recording>>

(* Any other checkout of the customer.                                     *)
OtherCheckout(u) ==
    /\ u \notin deleted /\ Pending(u) # {}
    /\ Write(Abandoned(u))
    /\ UNCHANGED <<deleted, listed, recording>>

-----------------------------------------------------------------------------
Unpaid(a) == attempt[a].status \in {"PENDING", "RETRYING"}

(* getPayment finds the attempt expired, or the gateway's answer closes it.*)
CloseAttempt(a) ==
    /\ Unpaid(a)
    /\ Write(ClosePayment([Rows EXCEPT !.attempt[a].status = "CLOSED"], a))
    /\ UNCHANGED <<deleted, listed, recording>>

(* Mutant: a member is fulfilled again by its next payment.                *)
DuplicateNever(a) == FALSE

(* The member has its order from another payment.                          *)
Duplicate(a) == member[attempt[a].group][attempt[a].user].order # NoOrder

(* What settleVerifiedPayment makes of a payment it accepts: the member's  *)
(* newer attempt, if there is one, is given up.                            *)
Settled(a) ==
    LET g == attempt[a].group
        u == attempt[a].user
        other == member[g][u].attempt
        detached ==
            IF other \notin {a, NoAttempt} /\ Unpaid(other)
            THEN [Rows EXCEPT !.attempt[other].status = "CLOSED"] ELSE Rows
    IN  Fulfilled([detached EXCEPT !.attempt[a].status = "APPLIED",
                                   !.member[g][u].attempt = a], g, u, a)

(* A verified payment arrives, by callback or by query, and is accepted.   *)
Settle(a) ==
    /\ attempt[a].status \notin {"APPLIED", "REFUNDING", "ABANDONED"}
    /\ ~Duplicate(a) /\ attempt[a].user \notin deleted
    /\ Write(Settled(a))
    /\ UNCHANGED <<deleted, listed, recording>>

(* The settlement is rejected, for one of these reasons or because the     *)
(* purchase can no longer be fulfilled (PaymentFulfillmentRejected), and   *)
(* leaves no trace.  Its handler reads the attempt again, without an order *)
(* still ...                                                               *)
SettleRejected(a) ==
    /\ attempt[a].status \notin {"APPLIED", "REFUNDING"}
    /\ a \notin compensating /\ Cardinality(compensating) < MaxRecorders
    /\ compensating' = compensating \cup {a}
    /\ UNCHANGED <<group, member, attempt, deleted, listed, overtaken>>

(* ... and queues the refund, whatever the attempt has become meanwhile.   *)
RecordRejection(a) ==
    /\ a \in compensating
    /\ compensating' = compensating \ {a}
    /\ overtaken' = IF attempt[a].status = "APPLIED" THEN overtaken \cup {a} ELSE overtaken
    /\ attempt' = [attempt EXCEPT ![a].status = "REFUNDING"]
    /\ UNCHANGED <<group, member, deleted, listed>>

(* The settlement fails and will be tried again.                           *)
SettleFails(a) ==
    /\ attempt[a].status = "PENDING"
    /\ attempt' = [attempt EXCEPT ![a].status = "RETRYING"]
    /\ UNCHANGED <<group, member, deleted, listed, recording>>

-----------------------------------------------------------------------------
GroupDue(g) ==
    /\ group[g].status = "OPEN" /\ ~group[g].due
    /\ group' = [group EXCEPT ![g].due = TRUE]
    /\ UNCHANGED <<member, attempt, deleted, listed, recording>>

(* expireDueGroups reads which groups are due ...                          *)
DueGroups == {g \in Groups : group[g].status = "OPEN" /\ group[g].due}

ListDue ==
    /\ listed = {} /\ DueGroups # {}
    /\ listed' = DueGroups
    /\ UNCHANGED <<group, member, attempt, deleted, recording>>

(* ... and finalizes them one by one, whatever they have become.           *)
ExpireListed(g) ==
    /\ g \in listed
    /\ listed' = listed \ {g}
    /\ Write(FinalizeUnsuccessful(Rows, g))
    /\ UNCHANGED <<deleted, recording>>

(* cancelForCreator                                                        *)
Cancel(g) ==
    /\ group[g].status = "OPEN" /\ ~group[g].due
    /\ \A u \in Users : u # group[g].creator => member[g][u].status \notin Occupying
    /\ group' = [group EXCEPT ![g].status = "CANCELED"]
    /\ member' = [member EXCEPT ![g][group[g].creator].slot = FALSE]
    /\ UNCHANGED <<attempt, deleted, listed, recording>>

(* deleteCustomer expires the customer's attempts ...                      *)
CloseAttemptsOf(u) ==
    attempt' = [a \in DOMAIN attempt |->
        IF attempt[a].user = u /\ Unpaid(a)
        THEN [attempt[a] EXCEPT !.status = "CLOSED"] ELSE attempt[a]]

(* ... after closeGroupBuyParticipationForAccountDeletion.                 *)
DeleteAccount(u) ==
    LET active == {g \in Groups : member[g][u].status \in Occupying}
        created == {g \in active : group[g].creator = u}
        Left(m) == [m EXCEPT
            !.status = IF m.order = NoOrder THEN "PAYMENT_CLOSED" ELSE "FALLBACK_FULFILLED",
            !.slot = FALSE]
    IN  /\ u \notin deleted
        /\ deleted' = deleted \cup {u}
        /\ member' = [g \in Groups |-> [v \in Users |->
                IF \/ v = u /\ g \in active
                   \/ v # u /\ g \in created /\ member[g][v].status = "PAYMENT_PENDING"
                THEN Left(member[g][v]) ELSE member[g][v]]]
        /\ group' = [g \in Groups |->
                IF g \in created /\ group[g].status \in {"PENDING_PAYMENT", "OPEN"}
                THEN [group[g] EXCEPT !.status = "CANCELED"] ELSE group[g]]
        /\ CloseAttemptsOf(u)
        /\ UNCHANGED <<listed, recording>>

-----------------------------------------------------------------------------
Next ==
    \/ \E u \in Users, g \in Groups :
        \/ CreateByEpay(u, g) \/ JoinByEpay(u, g)
        \/ CreateByWallet(u, g) \/ JoinByWallet(u, g)
    \/ \E u \in Users : OtherCheckout(u) \/ DeleteAccount(u)
    \/ \E a \in DOMAIN attempt :
        \/ CloseAttempt(a) \/ Settle(a) \/ SettleFails(a)
        \/ SettleRejected(a) \/ RecordRejection(a)
    \/ \E g \in Groups : GroupDue(g) \/ ExpireListed(g) \/ Cancel(g)
    \/ ListDue

Spec == Init /\ [][Next]_vars

(* Time passes, and the worker comes round every minute.                   *)
FairSpec ==
    /\ Spec
    /\ \A g \in Groups : WF_vars(GroupDue(g)) /\ WF_vars(ExpireListed(g))
    /\ WF_vars(ListDue)

-----------------------------------------------------------------------------
(* A rebate and a bonus are given to the creator and one other member      *)
(* together, in a group that has succeeded, or to nobody: not to a third   *)
(* who pays as well, nor in a group that was cancelled, that expired or    *)
(* whose creator left while a payment was under way                        *)
(* (advanceBalanceRebateGroup, fulfillBalanceRebateGroup).                 *)
RewardsTogether ==
    \A g \in Groups :
        LET rewarded == {u \in Users : member[g][u] # NoMember /\ member[g][u].rewarded}
        IN  \/ rewarded = {} /\ group[g].status # "SUCCEEDED"
            \/ /\ group[g].status = "SUCCEEDED"
               /\ Cardinality(rewarded) = GroupSize /\ group[g].creator \in rewarded

(* The first valid payment of a member gives it its order, and every other *)
(* payment that arrives, for an attempt replaced, closed or detached, goes *)
(* back: an attempt is APPLIED just when it is the order of its member     *)
(* (settleVerifiedPayment, recordSettlementFailure).  Not so only of an    *)
(* attempt that one handler rejected and another settled before the first  *)
(* had written the refund: it has both.                                    *)
PaidOnce ==
    /\ \A a \in DOMAIN attempt \ overtaken :
        attempt[a].status = "APPLIED" <=> member[attempt[a].group][attempt[a].user].order = a
    /\ \A g \in Groups, u \in Users :
        member[g][u] # NoMember /\ member[g][u].order \in DOMAIN attempt
            => attempt[member[g][u].order].user = u /\ attempt[member[g][u].order].group = g

(* A member who pays after two others have completed the group.  It gets   *)
(* the plan and no reward, and nothing ever frees its slot.                *)
Surplus(g, u) == group[g].status = "SUCCEEDED" /\ ~member[g][u].rewarded

(* A customer who has paid into a group, and so can buy no plan, is free   *)
(* again once the group succeeds, expires, is cancelled or loses its       *)
(* creator (the guard of resolveStandardPlanPurchasePolicy).               *)
PurchaseUnblocked ==
    \A g \in Groups, u \in Users :
        member[g][u].status = "FULFILLED" /\ member[g][u].slot
            ~> ~member[g][u].slot \/ Surplus(g, u)
=============================================================================
