---------------------------- MODULE GroupBuyProofs ----------------------------
(***************************************************************************)
(* For any number of customers, groups and payments: a group rewards its   *)
(* creator and one other member or nobody, and a member is paid for once.  *)
(*                                                                         *)
(* The transactions are functions from rows to rows, and so is the         *)
(* argument: each of them keeps the rows Good.  Beyond the two properties  *)
(* this says who can have paid in a group: in an open one just the         *)
(* creator, so that the next to pay makes it two (GroupFits), and a member *)
(* has an order just when it is past its payment (MemberRows).             *)
(***************************************************************************)
EXTENDS GroupBuy, FiniteSetTheorems, TLAPS

GroupStates == {"PENDING_PAYMENT", "OPEN", "SUCCEEDED", "FALLBACK_FULFILLED", "CANCELED"}
GroupRows == {NoGroup} \cup [status : GroupStates, creator : Users, due : BOOLEAN]

Members ==
    [status : {"PAYMENT_PENDING", "PAYMENT_CLOSED", "FULFILLED", "FALLBACK_FULFILLED"},
     slot : BOOLEAN, attempt : Nat, order : Nat, rewarded : BOOLEAN]

(* A member has an order just when it has paid.                            *)
MemberRows ==
    {NoMember} \cup
    {m \in Members : m.order = NoOrder <=> m.status \in {"PAYMENT_PENDING", "PAYMENT_CLOSED"}}

AttemptStates == {"PENDING", "RETRYING", "ABANDONED", "CLOSED", "APPLIED", "REFUNDING"}
AttemptRows == [user : Users, group : Groups, status : AttemptStates]

AllRows ==
    [group : [Groups -> GroupRows], member : [Groups -> [Users -> MemberRows]],
     attempt : Seq(AttemptRows)]

Rewarded(ms) == {u \in Users : ms[u] # NoMember /\ ms[u].rewarded}

(* What the status of a group with this creator says of its members ms.   *)
StatusFits(s, creator, ms) ==
    /\ s = "PENDING_PAYMENT" => \A u \in Users : u # creator => ms[u] = NoMember
    /\ s = "OPEN" => \A u \in Users : ms[u].status = "FULFILLED" <=> u = creator
    /\ IF s = "SUCCEEDED"
       THEN Cardinality(Rewarded(ms)) = GroupSize /\ creator \in Rewarded(ms)
       ELSE Rewarded(ms) = {}

GroupFits(G, ms) ==
    IF G = NoGroup THEN \A u \in Users : ms[u] = NoMember
    ELSE StatusFits(G.status, G.creator, ms)

Fits(rows) == \A g \in Groups : GroupFits(rows.group[g], rows.member[g])

(* Attempts and orders: PaidOnce, and what a new attempt needs.  Which     *)
(* attempts were overtaken changes in one step only.                       *)
Paid(member_, attempt_) ==
    /\ Len(attempt_) <= MaxAttempts
    /\ \A a \in DOMAIN attempt_ :
        LET m == member_[attempt_[a].group][attempt_[a].user]
        IN  /\ m # NoMember
            /\ a \in overtaken \/ (attempt_[a].status = "APPLIED" <=> m.order = a)
    /\ \A g \in Groups, u \in Users :
        LET m == member_[g][u]
        IN  m # NoMember =>
            /\ m.order \in DOMAIN attempt_ \cup {NoOrder, WalletOrder}
            /\ m.order \in DOMAIN attempt_ =>
                  attempt_[m.order].user = u /\ attempt_[m.order].group = g

Good(rows) == rows \in AllRows /\ Fits(rows) /\ Paid(rows.member, rows.attempt)

Inv ==
    /\ Good(Rows)
    /\ listed \subseteq {g \in Groups : group[g] # NoGroup}
-----------------------------------------------------------------------------
(* A member keeps its order; a new one has none.                           *)
SameOrder(m, n) ==
    /\ m # NoMember => n # NoMember /\ n.order = m.order
    /\ m = NoMember => n = NoMember \/ n.order = NoOrder

SameOrders(before, after) == \A u \in Users : SameOrder(before[u], after[u])
OrdersKept(before, after) == \A g \in Groups : SameOrders(before[g], after[g])

AttemptsKept(before, after) ==
    /\ after \in Seq(AttemptRows) /\ Len(after) = Len(before)
    /\ \A a \in DOMAIN before :
        /\ after[a].user = before[a].user /\ after[a].group = before[a].group
        /\ after[a].status = "APPLIED" <=> before[a].status = "APPLIED"

(* No order is given or taken, and no attempt applied.                     *)
LEMMA PaidKept ==
    ASSUME NEW rows \in AllRows, NEW ms \in [Groups -> [Users -> MemberRows]], NEW atts,
           Paid(rows.member, rows.attempt), OrdersKept(rows.member, ms),
           AttemptsKept(rows.attempt, atts)
    PROVE  Paid(ms, atts)
<1>0. rows.attempt \in Seq(AttemptRows) /\ atts \in Seq(AttemptRows) /\ Len(atts) = Len(rows.attempt)
  BY DEF AllRows, AttemptsKept
<1>1. DOMAIN atts = DOMAIN rows.attempt
  BY <1>0
<1>2. Len(atts) <= MaxAttempts
  BY DEF Paid, AttemptsKept
<1>3. ASSUME NEW a \in DOMAIN atts
      PROVE  LET m == ms[atts[a].group][atts[a].user]
             IN  /\ m # NoMember
                 /\ a \in overtaken \/ (atts[a].status = "APPLIED" <=> m.order = a)
  <2>1. rows.attempt[a] \in AttemptRows
    BY <1>0, <1>1
  <2>2. rows.attempt[a].group \in Groups /\ rows.attempt[a].user \in Users
    BY <2>1 DEF AttemptRows
  <2>3. /\ atts[a].user = rows.attempt[a].user /\ atts[a].group = rows.attempt[a].group
        /\ atts[a].status = "APPLIED" <=> rows.attempt[a].status = "APPLIED"
    BY <1>1 DEF AttemptsKept
  <2>4. PICK m : m = rows.member[rows.attempt[a].group][rows.attempt[a].user]
    OBVIOUS
  <2>5. PICK n : n = ms[rows.attempt[a].group][rows.attempt[a].user]
    OBVIOUS
  <2>6. m # NoMember /\ (a \in overtaken \/ (rows.attempt[a].status = "APPLIED" <=> m.order = a))
    BY <1>1, <2>4 DEF Paid
  <2>7. SameOrder(m, n)
    BY <2>2, <2>4, <2>5 DEF OrdersKept, SameOrders
  <2>8. n # NoMember /\ n.order = m.order
    BY <2>6, <2>7 DEF SameOrder
  <2> QED
    BY <2>3, <2>5, <2>6, <2>8
<1>4. ASSUME NEW g \in Groups, NEW u \in Users, ms[g][u] # NoMember
      PROVE  /\ ms[g][u].order \in DOMAIN atts \cup {NoOrder, WalletOrder}
             /\ ms[g][u].order \in DOMAIN atts =>
                   atts[ms[g][u].order].user = u /\ atts[ms[g][u].order].group = g
  <2>1. CASE rows.member[g][u] # NoMember
    <3>1. ms[g][u].order = rows.member[g][u].order
      BY <2>1 DEF OrdersKept, SameOrders, SameOrder
    <3> QED
      BY <1>1, <2>1, <3>1 DEF Paid, AttemptsKept
  <2>2. CASE rows.member[g][u] = NoMember
    <3>1. ms[g][u].order = NoOrder
      BY <1>4, <2>2 DEF OrdersKept, SameOrders, SameOrder
    <3>2. NoOrder \notin DOMAIN atts
      BY <1>0 DEF NoOrder
    <3> QED
      BY <3>1, <3>2
  <2> QED
    BY <2>1, <2>2
<1> QED
  BY <1>2, <1>3, <1>4 DEF Paid

(* A change of the status of one attempt.                                  *)
Marked(rows, a, s) == [rows EXCEPT !.attempt[a].status = s]

(* What it leaves to show.                                                 *)
LEMMA StatusChange ==
    ASSUME NEW rows \in AllRows, NEW a \in DOMAIN rows.attempt, NEW s \in AttemptStates
    PROVE  LET res == Marked(rows, a, s) IN
           /\ res \in AllRows /\ res.group = rows.group /\ res.member = rows.member
           /\ Len(res.attempt) = Len(rows.attempt)
           /\ res.attempt[a] = [rows.attempt[a] EXCEPT !.status = s]
           /\ \A b \in DOMAIN rows.attempt : b # a => res.attempt[b] = rows.attempt[b]
           /\ (s = "APPLIED" <=> rows.attempt[a].status = "APPLIED") =>
                 AttemptsKept(rows.attempt, res.attempt)
<1> DEFINE atts == [rows.attempt EXCEPT ![a].status = s]
           res == [rows EXCEPT !.attempt = atts]
<1>1. rows.attempt \in Seq(AttemptRows) /\ rows.attempt[a] \in AttemptRows
  BY DEF AllRows
<1>2. [rows.attempt[a] EXCEPT !.status = s] \in AttemptRows
  BY <1>1 DEF AttemptRows
<1>3. /\ atts \in Seq(AttemptRows) /\ Len(atts) = Len(rows.attempt)
      /\ atts[a] = [rows.attempt[a] EXCEPT !.status = s]
      /\ \A b \in DOMAIN rows.attempt : b # a => atts[b] = rows.attempt[b]
  BY <1>1, <1>2
<1>4. /\ atts[a].user = rows.attempt[a].user /\ atts[a].group = rows.attempt[a].group
      /\ atts[a].status = s
  BY <1>1, <1>3 DEF AttemptRows
<1> HIDE DEF atts
<1>5. /\ res \in AllRows /\ res.group = rows.group /\ res.member = rows.member
      /\ res.attempt = atts
  BY <1>3 DEF AllRows
<1>6. (s = "APPLIED" <=> rows.attempt[a].status = "APPLIED") => AttemptsKept(rows.attempt, atts)
  BY <1>3, <1>4 DEF AttemptsKept
<1> QED
  BY <1>3, <1>5, <1>6 DEF atts, Marked

(* The rows after the status of group g and its members have changed.      *)
Becomes(rows, res, g, ms, s) ==
    /\ res.attempt = rows.attempt
    /\ res.group = [rows.group EXCEPT ![g] = [rows.group[g] EXCEPT !.status = s]]
    /\ res.member = [rows.member EXCEPT ![g] = ms]

NoneLost(rows, res) == \A g \in Groups : rows.group[g] # NoGroup => res.group[g] # NoGroup

(* What is left to show of such a change.                                  *)
LEMMA GroupChange ==
    ASSUME NEW rows \in AllRows, NEW g \in Groups, NEW ms \in [Users -> MemberRows],
           NEW s \in GroupStates, rows.group[g] # NoGroup, NEW res, Becomes(rows, res, g, ms, s)
    PROVE  /\ res.group \in [Groups -> GroupRows]
           /\ res.member \in [Groups -> [Users -> MemberRows]]
           /\ Fits(rows) /\ StatusFits(s, rows.group[g].creator, ms) => Fits(res)
           /\ SameOrders(rows.member[g], ms) => OrdersKept(rows.member, res.member)
           /\ NoneLost(rows, res)
<1>1. /\ rows.group \in [Groups -> GroupRows]
      /\ rows.member \in [Groups -> [Users -> MemberRows]]
  BY DEF AllRows
<1>2. /\ rows.group[g] \in [status : GroupStates, creator : Users, due : BOOLEAN]
      /\ [rows.group[g] EXCEPT !.status = s] \in [status : GroupStates, creator : Users, due : BOOLEAN]
  BY <1>1 DEF GroupRows
<1>3. /\ res.group \in [Groups -> GroupRows] /\ res.member \in [Groups -> [Users -> MemberRows]]
      /\ res.group[g] = [rows.group[g] EXCEPT !.status = s] /\ res.member[g] = ms
      /\ \A h \in Groups : h # g => res.group[h] = rows.group[h] /\ res.member[h] = rows.member[h]
  BY <1>1, <1>2 DEF Becomes, GroupRows
<1>4. /\ res.group[g] # NoGroup /\ res.group[g].status = s
      /\ res.group[g].creator = rows.group[g].creator
  BY <1>2, <1>3 DEF NoGroup
<1>6. ASSUME Fits(rows), StatusFits(s, rows.group[g].creator, ms) PROVE Fits(res)
  <2>1. GroupFits(res.group[g], res.member[g])
    BY <1>3, <1>4, <1>6 DEF GroupFits
  <2> QED
    BY <1>3, <1>6, <2>1 DEF Fits
<1>7. NoneLost(rows, res)
  BY <1>3, <1>4 DEF NoneLost
<1>5. SameOrders(rows.member[g], ms) => OrdersKept(rows.member, res.member)
  BY <1>3 DEF OrdersKept, SameOrders, SameOrder
<1> QED
  BY <1>3, <1>5, <1>6, <1>7

(* A change that fits the group and keeps the orders.                      *)
LEMMA ChangeGood ==
    ASSUME NEW rows, Good(rows), NEW g \in Groups, NEW ms \in [Users -> MemberRows],
           NEW s \in GroupStates, rows.group[g] # NoGroup,
           NEW res \in AllRows, Becomes(rows, res, g, ms, s),
           StatusFits(s, rows.group[g].creator, ms), SameOrders(rows.member[g], ms)
    PROVE  Good(res) /\ NoneLost(rows, res)
<1>1. rows \in AllRows /\ Fits(rows) /\ Paid(rows.member, rows.attempt)
  BY DEF Good
<1>2. /\ Fits(res) /\ OrdersKept(rows.member, res.member) /\ NoneLost(rows, res)
      /\ res.member \in [Groups -> [Users -> MemberRows]]
  BY <1>1, GroupChange
<1>3. AttemptsKept(rows.attempt, rows.attempt)
  BY <1>1 DEF AttemptsKept, AllRows
<1>4. Paid(res.member, rows.attempt)
  BY <1>1, <1>2, <1>3, PaidKept
<1> QED
  BY <1>2, <1>4 DEF Good, Becomes

(* closePayment keeps the rows good.                                       *)
LEMMA CloseGood ==
    ASSUME NEW rows, Good(rows), NEW a \in DOMAIN rows.attempt
    PROVE  /\ Good(ClosePayment(rows, a))
           /\ ClosePayment(rows, a).attempt = rows.attempt
           /\ NoneLost(rows, ClosePayment(rows, a))
<1> DEFINE g == rows.attempt[a].group
           u == rows.attempt[a].user
           m == rows.member[g][u]
           left == [m EXCEPT !.status = "PAYMENT_CLOSED", !.slot = FALSE]
           ms == [rows.member[g] EXCEPT ![u] = left]
           s == IF rows.group[g].creator = u /\ rows.group[g].status = "PENDING_PAYMENT"
                THEN "CANCELED" ELSE rows.group[g].status
           res == ClosePayment(rows, a)
<1>0. rows \in AllRows /\ Fits(rows) /\ Paid(rows.member, rows.attempt)
  BY DEF Good
<1>1. CASE m.attempt # a \/ m.status # "PAYMENT_PENDING"
  BY <1>1 DEF ClosePayment, NoneLost
<1>2. CASE m.attempt = a /\ m.status = "PAYMENT_PENDING"
  <2>1. rows.attempt[a] \in AttemptRows
    BY <1>0 DEF AllRows
  <2>2. g \in Groups /\ u \in Users
    BY <2>1 DEF AttemptRows
  <2>3. /\ rows.member[g] \in [Users -> MemberRows] /\ m \in MemberRows
        /\ rows.group[g] \in GroupRows
    BY <1>0, <2>2 DEF AllRows
  <2>4. Becomes(rows, res, g, ms, s)
    BY <1>0, <1>2 DEF ClosePayment, Becomes, AllRows
  <2> HIDE DEF g, u
  <2>5. m # NoMember /\ m \in Members /\ m.order = NoOrder
    BY <1>2, <2>3 DEF MemberRows, NoMember
  <2>6. /\ left \in MemberRows /\ left # NoMember /\ left.order = m.order
        /\ left.status = "PAYMENT_CLOSED" /\ left.rewarded = m.rewarded
    BY <2>5 DEF MemberRows, Members, NoMember
  <2>7. rows.group[g] # NoGroup /\ StatusFits(rows.group[g].status, rows.group[g].creator, rows.member[g])
    <3>1. GroupFits(rows.group[g], rows.member[g])
      BY <1>0, <2>2 DEF Fits
    <3> QED
      BY <2>2, <2>5, <3>1 DEF GroupFits
  <2>9. s \in GroupStates
    BY <2>3, <2>7 DEF GroupRows, GroupStates
  <2> HIDE DEF left
  <2>10. ms \in [Users -> MemberRows] /\ ms[u] = left /\ \A v \in Users : v # u => ms[v] = rows.member[g][v]
    BY <2>2, <2>3, <2>6
  <2> HIDE DEF ms
  <2>11. Rewarded(ms) = Rewarded(rows.member[g])
    BY <2>2, <2>5, <2>6, <2>10 DEF Rewarded
  <2>12. StatusFits(s, rows.group[g].creator, ms)
    <3>1. CASE rows.group[g].status = "PENDING_PAYMENT"
      <4>1. s = "CANCELED"
        BY <2>2, <2>5, <2>7, <3>1 DEF StatusFits
      <4> QED
        BY <2>7, <2>11, <3>1, <4>1 DEF StatusFits
    <3>2. CASE rows.group[g].status # "PENDING_PAYMENT"
      BY <1>2, <2>2, <2>6, <2>7, <2>10, <2>11, <3>2 DEF StatusFits
    <3> QED
      BY <3>1, <3>2
  <2> HIDE DEF s
  <2>13. SameOrders(rows.member[g], ms)
    BY <2>5, <2>6, <2>10 DEF SameOrders, SameOrder
  <2>14. res \in AllRows
    <3>1. res.group \in [Groups -> GroupRows] /\ res.member \in [Groups -> [Users -> MemberRows]]
      BY <1>0, <2>2, <2>4, <2>7, <2>9, <2>10, <2>12, GroupChange
    <3> QED
      BY <1>0, <1>2, <3>1 DEF ClosePayment, AllRows, g, u, s, ms, left
  <2>15. Good(res) /\ NoneLost(rows, res)
    BY <2>2, <2>4, <2>7, <2>9, <2>10, <2>12, <2>13, <2>14, ChangeGood
  <2> QED
    BY <2>4, <2>15 DEF Becomes
<1> QED
  BY <1>1, <1>2

(* There is no slot to free where there is no member.                      *)
LEMMA NoMemberFreed == [NoMember EXCEPT !.slot = FALSE] = NoMember
<1>1. NoMember.slot = FALSE
  BY DEF NoMember
<1>2. [NoMember EXCEPT !.slot = FALSE] =
        [f \in DOMAIN NoMember |-> IF f = "slot" THEN FALSE ELSE NoMember[f]]
  OBVIOUS
<1> QED
  BY <1>1, <1>2 DEF NoMember

(* finalizeUnsuccessfulBalanceRebateGroup takes no order away and gives no *)
(* reward.                                                                 *)
LEMMA FinalizeEffect ==
    ASSUME NEW rows \in AllRows, NEW g \in Groups, rows.group[g] # NoGroup,
           rows.group[g].status # "SUCCEEDED", Rewarded(rows.member[g]) = {}
    PROVE  \E ms \in [Users -> MemberRows], s \in GroupStates :
              /\ Becomes(rows, FinalizeUnsuccessful(rows, g), g, ms, s)
              /\ FinalizeUnsuccessful(rows, g) \in AllRows
              /\ StatusFits(s, rows.group[g].creator, ms) /\ SameOrders(rows.member[g], ms)
<1> DEFINE res == FinalizeUnsuccessful(rows, g)
           O == Ordered(rows, g)
           Left(u) == IF u \notin O THEN [rows.member[g][u] EXCEPT !.slot = FALSE]
                      ELSE IF rows.member[g][u].rewarded THEN rows.member[g][u]
                      ELSE [rows.member[g][u] EXCEPT !.status = "FALLBACK_FULFILLED", !.slot = FALSE]
           ms == [u \in Users |-> Left(u)]
           s == IF O # {} THEN "FALLBACK_FULFILLED" ELSE "CANCELED"
<1>1. rows.member[g] \in [Users -> MemberRows]
  BY DEF AllRows
<1>2. ASSUME NEW u \in Users
      PROVE  /\ Left(u) \in MemberRows
             /\ Left(u) = NoMember <=> rows.member[g][u] = NoMember
             /\ rows.member[g][u] # NoMember =>
                   /\ Left(u).order = rows.member[g][u].order
                   /\ Left(u).rewarded = rows.member[g][u].rewarded
  <2> DEFINE m == rows.member[g][u]
  <2>1. CASE m = NoMember
    <3>1. u \notin O
      BY <2>1 DEF Ordered
    <3>2. [m EXCEPT !.slot = FALSE] = NoMember
      BY <2>1, NoMemberFreed
    <3>3. Left(u) = NoMember
      BY <3>1, <3>2
    <3> HIDE DEF Left
    <3> QED
      BY <2>1, <3>3 DEF MemberRows
  <2>2. CASE m # NoMember
    <3>1. m \in Members /\ (m.order = NoOrder <=> m.status \in {"PAYMENT_PENDING", "PAYMENT_CLOSED"})
      BY <1>1, <2>2 DEF MemberRows
    <3>2. u \in O <=> m.order # NoOrder
      BY <2>2 DEF Ordered
    <3> HIDE DEF O, m
    <3>3. CASE u \in O /\ ~m.rewarded
      <4>1. [m EXCEPT !.status = "FALLBACK_FULFILLED", !.slot = FALSE] \in Members
        BY <3>1 DEF Members
      <4>2. Left(u) = [m EXCEPT !.status = "FALLBACK_FULFILLED", !.slot = FALSE]
        BY <3>3 DEF m
      <4>3. /\ Left(u) \in Members /\ Left(u).order = m.order /\ Left(u).rewarded = m.rewarded
            /\ Left(u).status = "FALLBACK_FULFILLED"
        BY <3>1, <4>1, <4>2 DEF Members
      <4> HIDE DEF Left
      <4>4. Left(u) \in MemberRows /\ Left(u) # NoMember
        BY <3>2, <3>3, <4>3 DEF MemberRows, Members, NoMember
      <4> QED
        BY <2>2, <4>3, <4>4 DEF m
    <3>4. CASE u \notin O
      <4>1. [m EXCEPT !.slot = FALSE] \in Members
        BY <3>1 DEF Members
      <4>2. Left(u) = [m EXCEPT !.slot = FALSE]
        BY <3>4 DEF m
      <4>3. /\ Left(u) \in Members /\ Left(u).order = m.order /\ Left(u).rewarded = m.rewarded
            /\ Left(u).status = m.status
        BY <3>1, <4>1, <4>2 DEF Members
      <4> HIDE DEF Left
      <4>4. Left(u) \in MemberRows /\ Left(u) # NoMember
        BY <3>1, <4>3 DEF MemberRows, Members, NoMember
      <4> QED
        BY <2>2, <4>3, <4>4 DEF m
    <3>5. CASE u \in O /\ m.rewarded
      BY <1>1, <3>5 DEF m
    <3> QED
      BY <3>3, <3>4, <3>5
  <2> QED
    BY <2>1, <2>2
<1>3. Becomes(rows, res, g, ms, s)
  BY DEF FinalizeUnsuccessful, Becomes, AllRows
<1> HIDE DEF Left
<1>4. ms \in [Users -> MemberRows] /\ s \in GroupStates
  BY <1>2 DEF GroupStates
<1>5. SameOrders(rows.member[g], ms) /\ Rewarded(ms) = {}
  BY <1>2 DEF SameOrders, SameOrder, Rewarded
<1>6. StatusFits(s, rows.group[g].creator, ms)
  BY <1>5 DEF StatusFits
<1>7. res \in AllRows
  <2>1. res.group \in [Groups -> GroupRows] /\ res.member \in [Groups -> [Users -> MemberRows]]
    BY <1>3, <1>4, GroupChange
  <2> QED
    BY <2>1 DEF FinalizeUnsuccessful, AllRows
<1> QED
  BY <1>3, <1>4, <1>5, <1>6, <1>7

(* Two customers who differ are two.                                       *)
LEMMA PairSize == ASSUME NEW c, NEW u, c # u PROVE Cardinality({c} \cup {u}) = 2
<1>1. Cardinality({c}) = 1 /\ IsFiniteSet({c})
  BY FS_Singleton
<1>2. u \notin {c}
  OBVIOUS
<1>3. Cardinality({c} \cup {u}) = Cardinality({c}) + 1
  BY <1>1, <1>2, FS_AddElement
<1> QED
  BY <1>1, <1>3

(* fulfillBalanceRebateGroup rewards the two who have paid.                *)
LEMMA FulfillEffect ==
    ASSUME NEW rows \in AllRows, NEW g \in Groups, rows.group[g] # NoGroup,
           NEW u \in Users, NEW c \in Users, c # u, Rewarded(rows.member[g]) = {},
           \A v \in Users : rows.member[g][v].status = "FULFILLED" <=> v \in {c, u}
    PROVE  \E ms \in [Users -> MemberRows] :
              /\ Becomes(rows, FulfillGroup(rows, g), g, ms, "SUCCEEDED")
              /\ FulfillGroup(rows, g) \in AllRows
              /\ StatusFits("SUCCEEDED", c, ms) /\ SameOrders(rows.member[g], ms)
<1> DEFINE res == FulfillGroup(rows, g)
           fulfilled == {v \in Ordered(rows, g) : rows.member[g][v].status = "FULFILLED"}
           New(v) == IF v \in fulfilled
                     THEN [rows.member[g][v] EXCEPT !.rewarded = TRUE, !.slot = FALSE]
                     ELSE rows.member[g][v]
           ms == [v \in Users |-> New(v)]
<1>1. rows.member[g] \in [Users -> MemberRows]
  BY DEF AllRows
<1>2. \A v \in Users : rows.member[g][v].status = "FULFILLED" =>
        /\ rows.member[g][v] # NoMember /\ rows.member[g][v] \in Members
        /\ rows.member[g][v].order # NoOrder
  BY <1>1 DEF MemberRows, NoMember
<1> DEFINE both == {c} \cup {u}
<1>4. Cardinality(both) = 2
  BY PairSize
<1>3. fulfilled = both /\ \A v : v \in both <=> v \in {c, u}
  BY <1>2 DEF Ordered
<1> HIDE DEF both, fulfilled
<1>5. ~(Cardinality(fulfilled) < GroupSize)
  BY <1>3, <1>4 DEF GroupSize
<1> USE DEF fulfilled
<1>6. Becomes(rows, res, g, ms, "SUCCEEDED")
  BY <1>5 DEF FulfillGroup, Becomes, AllRows
<1> HIDE DEF fulfilled
<1>7. ASSUME NEW v \in Users
      PROVE  /\ New(v) \in MemberRows
             /\ New(v) = NoMember <=> rows.member[g][v] = NoMember
             /\ rows.member[g][v] # NoMember => New(v).order = rows.member[g][v].order
             /\ New(v) # NoMember /\ New(v).rewarded <=> v \in {c, u}
  <2> DEFINE m == rows.member[g][v]
  <2>1. CASE v \in {c, u}
    <3>1. m \in Members /\ m.status = "FULFILLED" /\ m.order # NoOrder /\ m # NoMember
      BY <1>2, <2>1
    <3>2. New(v) = [m EXCEPT !.rewarded = TRUE, !.slot = FALSE]
      BY <1>3, <2>1
    <3> HIDE DEF m, New
    <3>3. /\ New(v) \in Members /\ New(v).status = "FULFILLED" /\ New(v).order = m.order
          /\ New(v).rewarded = TRUE
      BY <3>1, <3>2 DEF Members
    <3>4. New(v) \in MemberRows /\ New(v) # NoMember
      BY <3>1, <3>3 DEF MemberRows, Members, NoMember
    <3> QED
      BY <2>1, <3>1, <3>3, <3>4 DEF m
  <2>2. CASE v \notin {c, u}
    <3>1. New(v) = m
      BY <1>3, <2>2
    <3> HIDE DEF New
    <3>2. ~(m # NoMember /\ m.rewarded)
      BY DEF Rewarded
    <3> QED
      BY <1>1, <2>2, <3>1, <3>2
  <2> QED
    BY <2>1, <2>2
<1> HIDE DEF New
<1>8. ms \in [Users -> MemberRows] /\ SameOrders(rows.member[g], ms) /\ Rewarded(ms) = both
  BY <1>3, <1>7 DEF SameOrders, SameOrder, Rewarded
<1>9. StatusFits("SUCCEEDED", c, ms)
  BY <1>3, <1>4, <1>8 DEF StatusFits, GroupSize
<1>10. res \in AllRows
  <2>1. res.group \in [Groups -> GroupRows] /\ res.member \in [Groups -> [Users -> MemberRows]]
    <3>1. "SUCCEEDED" \in GroupStates
      BY DEF GroupStates
    <3> HIDE DEF ms, res
    <3> QED
      BY <1>6, <1>8, <3>1, GroupChange
  <2> QED
    BY <1>5, <2>1 DEF FulfillGroup, AllRows, fulfilled
<1> HIDE DEF ms
<1> QED
  BY <1>6, <1>8, <1>9, <1>10

(* The members of a group once u has paid for the order o.                 *)
PaidMembers(ms, u, o) == [ms EXCEPT ![u] = [ms[u] EXCEPT !.status = "FULFILLED", !.order = o]]

(* markBalanceRebateMemberFulfilled leaves the rows of the group so.       *)
LEMMA PaidMembersEffect ==
    ASSUME NEW ms \in [Users -> MemberRows], NEW u \in Users, NEW o \in Nat \ {0},
           ms[u] # NoMember
    PROVE  LET new == PaidMembers(ms, u, o) IN
           /\ new \in [Users -> MemberRows]
           /\ new[u] # NoMember /\ new[u].status = "FULFILLED" /\ new[u].order = o
           /\ \A v \in Users : v # u => new[v] = ms[v]
           /\ Rewarded(new) = Rewarded(ms)
<1> DEFINE m == [ms[u] EXCEPT !.status = "FULFILLED", !.order = o]
           new == PaidMembers(ms, u, o)
<1>1. ms[u] \in Members
  BY DEF MemberRows
<1>2. /\ m \in Members /\ m.status = "FULFILLED" /\ m.order = o
      /\ m.rewarded = ms[u].rewarded
  BY <1>1 DEF Members
<1> HIDE DEF m
<1>3. m \in MemberRows /\ m # NoMember
  BY <1>2 DEF MemberRows, Members, NoMember, NoOrder
<1>4. new \in [Users -> MemberRows] /\ new[u] = m /\ \A v \in Users : v # u => new[v] = ms[v]
  BY <1>3 DEF PaidMembers, m
<1> HIDE DEF new
<1>5. Rewarded(new) = Rewarded(ms)
  BY <1>2, <1>3, <1>4 DEF Rewarded
<1> QED
  BY <1>2, <1>3, <1>4, <1>5 DEF new

(* Two changes of a group are one.                                         *)
LEMMA BecomesAfter ==
    ASSUME NEW rows \in AllRows, NEW g \in Groups, NEW ms, NEW s, NEW res, NEW mid,
           NEW first, mid.attempt = rows.attempt, mid.group = rows.group,
           mid.member = [rows.member EXCEPT ![g] = first], Becomes(mid, res, g, ms, s)
    PROVE  Becomes(rows, res, g, ms, s)
BY DEF Becomes, AllRows

(* A member pays, and its group advances: the member has its order, nobody *)
(* else's changes, and the group fits its status again.                    *)
LEMMA FulfilledEffect ==
    ASSUME NEW rows \in AllRows, Fits(rows), NEW g \in Groups, NEW u \in Users,
           NEW o \in Nat \ {0}, rows.member[g][u] # NoMember, rows.member[g][u].order = NoOrder
    PROVE  \E ms \in [Users -> MemberRows], s \in GroupStates :
              /\ Becomes(rows, Fulfilled(rows, g, u, o), g, ms, s)
              /\ Fulfilled(rows, g, u, o) \in AllRows
              /\ StatusFits(s, rows.group[g].creator, ms)
              /\ SameOrders(PaidMembers(rows.member[g], u, o), ms)
<1> DEFINE old == rows.member[g]
           G == rows.group[g]
           new == PaidMembers(old, u, o)
           mid == [rows EXCEPT !.member[g][u].status = "FULFILLED", !.member[g][u].order = o]
           res == Fulfilled(rows, g, u, o)
<1>1. /\ rows.group \in [Groups -> GroupRows] /\ rows.member \in [Groups -> [Users -> MemberRows]]
      /\ old \in [Users -> MemberRows]
  BY DEF AllRows
<1>2. GroupFits(G, old)
  BY DEF Fits
<1>3. /\ G # NoGroup /\ StatusFits(G.status, G.creator, old)
      /\ G.status \in GroupStates /\ G.creator \in Users
  BY <1>1, <1>2 DEF GroupFits, GroupRows
<1>4. /\ new \in [Users -> MemberRows]
      /\ new[u] # NoMember /\ new[u].status = "FULFILLED" /\ new[u].order = o
      /\ \A v \in Users : v # u => new[v] = old[v]
      /\ Rewarded(new) = Rewarded(old)
  BY <1>1, PaidMembersEffect
<1>5. /\ mid.group = rows.group /\ mid.attempt = rows.attempt
      /\ mid.member = [rows.member EXCEPT ![g] = new]
  BY <1>1 DEF AllRows, PaidMembers
<1>6. res = Advance(mid, g, u)
  BY DEF Fulfilled
<1> HIDE DEF mid, new
<1>7. mid.member[g] = new /\ mid.member \in [Groups -> [Users -> MemberRows]]
  BY <1>1, <1>4, <1>5
<1>8. mid \in AllRows
  BY <1>5, <1>7 DEF AllRows, mid
<1>9. SameOrders(new, new)
  BY DEF SameOrders, SameOrder
<1>10. old[u].status # "FULFILLED"
  BY <1>1 DEF MemberRows
<1> HIDE DEF res
<1>11. ASSUME NEW s \in GroupStates, res = [mid EXCEPT !.group[g].status = s] \/ (res = mid /\ s = G.status),
              StatusFits(s, G.creator, new)
       PROVE  /\ Becomes(rows, res, g, new, s) /\ res \in AllRows
  <2>1. [G EXCEPT !.status = s] \in GroupRows /\ [rows.group EXCEPT ![g] = [G EXCEPT !.status = s]] \in [Groups -> GroupRows]
    BY <1>1, <1>3 DEF GroupRows
  <2>2. CASE res = [mid EXCEPT !.group[g].status = s]
    <3>1. /\ res.group = [rows.group EXCEPT ![g] = [G EXCEPT !.status = s]]
          /\ res.member = mid.member /\ res.attempt = mid.attempt
      BY <1>5, <1>8, <2>2 DEF AllRows
    <3>2. res \in AllRows
      BY <1>8, <2>1, <2>2, <3>1 DEF AllRows
    <3> QED
      BY <1>5, <3>1, <3>2 DEF Becomes
  <2>3. CASE res = mid /\ s = G.status
    <3>1. rows.group = [rows.group EXCEPT ![g] = [G EXCEPT !.status = s]]
      BY <1>1, <1>3, <2>3 DEF GroupRows
    <3> QED
      BY <1>5, <1>8, <2>3, <3>1 DEF Becomes
  <2> QED
    BY <1>11, <2>2, <2>3
<1>12. CASE G.creator = u
  <2> DEFINE s == IF G.status = "PENDING_PAYMENT" THEN "OPEN" ELSE G.status
  <2>1. res = [mid EXCEPT !.group[g].status = s] /\ s \in GroupStates
    BY <1>3, <1>5, <1>6, <1>12 DEF Advance, GroupStates
  <2>2. StatusFits(s, G.creator, new)
    <3>1. CASE G.status = "PENDING_PAYMENT"
      BY <1>3, <1>4, <1>12, <3>1 DEF StatusFits, NoMember
    <3>2. CASE G.status # "PENDING_PAYMENT"
      BY <1>3, <1>4, <1>10, <1>12, <3>2 DEF StatusFits
    <3> QED
      BY <3>1, <3>2
  <2> HIDE DEF s
  <2> QED
    BY <1>4, <1>9, <1>11, <2>1, <2>2 DEF new, res
<1>13. CASE G.creator # u /\ G.status = "SUCCEEDED"
  <2>1. res = mid
    BY <1>5, <1>6, <1>13 DEF Advance, FinalizeUnsuccessful
  <2>2. StatusFits(G.status, G.creator, new)
    BY <1>3, <1>4, <1>13 DEF StatusFits
  <2> QED
    BY <1>3, <1>4, <1>9, <1>11, <2>1, <2>2 DEF new, res
<1>14. CASE G.creator # u /\ G.status # "SUCCEEDED" /\ (G.status # "OPEN" \/ G.due)
  <2>1. res = FinalizeUnsuccessful(mid, g)
    BY <1>5, <1>6, <1>14 DEF Advance
  <2>2. Rewarded(mid.member[g]) = {} /\ mid.group[g] # NoGroup /\ mid.group[g].status # "SUCCEEDED"
    BY <1>3, <1>4, <1>5, <1>7, <1>14 DEF StatusFits
  <2>3. PICK ms \in [Users -> MemberRows], s \in GroupStates :
          /\ Becomes(mid, res, g, ms, s) /\ res \in AllRows
          /\ StatusFits(s, mid.group[g].creator, ms) /\ SameOrders(mid.member[g], ms)
    BY <1>8, <2>1, <2>2, FinalizeEffect
  <2>4. Becomes(rows, res, g, ms, s)
    BY <1>5, <2>3, BecomesAfter
  <2> QED
    BY <1>5, <1>7, <2>3, <2>4 DEF new, res
<1>15. CASE G.creator # u /\ G.status = "OPEN" /\ ~G.due
  <2>1. res = FulfillGroup(mid, g)
    BY <1>5, <1>6, <1>15 DEF Advance
  <2>2. Rewarded(mid.member[g]) = {} /\ mid.group[g] # NoGroup
    BY <1>3, <1>4, <1>5, <1>7, <1>15 DEF StatusFits
  <2>3. \A v \in Users : mid.member[g][v].status = "FULFILLED" <=> v \in {G.creator, u}
    BY <1>3, <1>4, <1>7, <1>15 DEF StatusFits
  <2>4. PICK ms \in [Users -> MemberRows] :
          /\ Becomes(mid, res, g, ms, "SUCCEEDED") /\ res \in AllRows
          /\ StatusFits("SUCCEEDED", G.creator, ms) /\ SameOrders(mid.member[g], ms)
    BY <1>3, <1>8, <1>15, <2>1, <2>2, <2>3, FulfillEffect
  <2>5. Becomes(rows, res, g, ms, "SUCCEEDED")
    BY <1>5, <2>4, BecomesAfter
  <2>6. "SUCCEEDED" \in GroupStates
    BY DEF GroupStates
  <2> QED
    BY <1>7, <2>4, <2>5, <2>6 DEF new, res
<1> QED
  BY <1>12, <1>13, <1>14, <1>15

-----------------------------------------------------------------------------
(* A member without an order gets the order o, and nobody else does.       *)
OrderGiven(before, after, g, u, o) ==
    /\ after[g][u] # NoMember /\ after[g][u].order = o
    /\ \A h \in Groups, v \in Users :
        h # g \/ v # u => SameOrder(before[h][v], after[h][v])

(* It is paid for from the wallet.                                         *)
LEMMA PaidByWallet ==
    ASSUME NEW rows \in AllRows, Paid(rows.member, rows.attempt), NEW g \in Groups, NEW u \in Users,
           rows.member[g][u].order = NoOrder, NEW ms \in [Groups -> [Users -> MemberRows]],
           OrderGiven(rows.member, ms, g, u, WalletOrder)
    PROVE  Paid(ms, rows.attempt)
<1> DEFINE atts == rows.attempt
<1>1. /\ atts \in Seq(AttemptRows) /\ Len(atts) <= MaxAttempts /\ DOMAIN atts = 1 .. Len(atts)
      /\ NoOrder \notin DOMAIN atts
  BY DEF AllRows, Paid, NoOrder
<1>2. WalletOrder \notin DOMAIN atts
  BY <1>1, GroupAssumption DEF WalletOrder
<1>3. ASSUME NEW a \in DOMAIN atts
      PROVE  LET m == ms[atts[a].group][atts[a].user]
             IN  /\ m # NoMember
                 /\ a \in overtaken \/ (atts[a].status = "APPLIED" <=> m.order = a)
  <2>1. atts[a] \in AttemptRows
    BY <1>1
  <2>2. atts[a].group \in Groups /\ atts[a].user \in Users
    BY <2>1 DEF AttemptRows
  <2>3. CASE atts[a].group = g /\ atts[a].user = u
    BY <1>1, <1>2, <2>3 DEF Paid, OrderGiven
  <2>4. CASE atts[a].group # g \/ atts[a].user # u
    BY <2>2, <2>4 DEF Paid, OrderGiven, SameOrder
  <2> QED
    BY <2>3, <2>4
<1>4. ASSUME NEW h \in Groups, NEW v \in Users, ms[h][v] # NoMember
      PROVE  /\ ms[h][v].order \in DOMAIN atts \cup {NoOrder, WalletOrder}
             /\ ms[h][v].order \in DOMAIN atts =>
                   atts[ms[h][v].order].user = v /\ atts[ms[h][v].order].group = h
  <2>1. CASE h = g /\ v = u
    BY <1>2, <2>1 DEF OrderGiven
  <2>2. CASE (h # g \/ v # u) /\ rows.member[h][v] = NoMember
    BY <1>1, <1>4, <2>2 DEF OrderGiven, SameOrder
  <2>3. CASE (h # g \/ v # u) /\ rows.member[h][v] # NoMember
    BY <2>3 DEF OrderGiven, SameOrder, Paid
  <2> QED
    BY <2>1, <2>2, <2>3
<1> QED
  BY <1>1, <1>3, <1>4 DEF Paid

(* It is paid for by the attempt a of the member, which is applied.        *)
LEMMA PaidByAttempt ==
    ASSUME NEW rows \in AllRows, Paid(rows.member, rows.attempt), NEW g \in Groups, NEW u \in Users,
           rows.member[g][u].order = NoOrder, NEW ms \in [Groups -> [Users -> MemberRows]],
           NEW a \in DOMAIN rows.attempt, rows.attempt[a].group = g, rows.attempt[a].user = u,
           OrderGiven(rows.member, ms, g, u, a),
           NEW atts \in Seq(AttemptRows), Len(atts) = Len(rows.attempt), atts[a].status = "APPLIED",
           \A b \in DOMAIN atts :
              /\ atts[b].user = rows.attempt[b].user /\ atts[b].group = rows.attempt[b].group
              /\ b # a => (atts[b].status = "APPLIED" <=> rows.attempt[b].status = "APPLIED")
    PROVE  Paid(ms, atts)
<1>1. /\ rows.attempt \in Seq(AttemptRows) /\ Len(atts) <= MaxAttempts
      /\ DOMAIN atts = DOMAIN rows.attempt /\ NoOrder \notin DOMAIN atts
  BY DEF AllRows, Paid, NoOrder
<1>2. ASSUME NEW b \in DOMAIN atts
      PROVE  LET m == ms[atts[b].group][atts[b].user]
             IN  /\ m # NoMember
                 /\ b \in overtaken \/ (atts[b].status = "APPLIED" <=> m.order = b)
  <2>1. atts[b] \in AttemptRows
    OBVIOUS
  <2>2. atts[b].group \in Groups /\ atts[b].user \in Users
    BY <2>1 DEF AttemptRows
  <2>3. CASE atts[b].group = g /\ atts[b].user = u
    BY <1>1, <2>3 DEF Paid, OrderGiven
  <2>4. CASE atts[b].group # g \/ atts[b].user # u
    <3> DEFINE old == rows.member[atts[b].group][atts[b].user]
    <3>1. /\ old # NoMember
          /\ b \in overtaken \/ (rows.attempt[b].status = "APPLIED" <=> old.order = b)
      BY <1>1 DEF Paid
    <3>2. b # a /\ (atts[b].status = "APPLIED" <=> rows.attempt[b].status = "APPLIED")
      BY <2>4
    <3>3. SameOrder(old, ms[atts[b].group][atts[b].user])
      BY <2>2, <2>4 DEF OrderGiven
    <3> QED
      BY <3>1, <3>2, <3>3 DEF SameOrder
  <2> QED
    BY <2>3, <2>4
<1>3. ASSUME NEW h \in Groups, NEW v \in Users, ms[h][v] # NoMember
      PROVE  /\ ms[h][v].order \in DOMAIN atts \cup {NoOrder, WalletOrder}
             /\ ms[h][v].order \in DOMAIN atts =>
                   atts[ms[h][v].order].user = v /\ atts[ms[h][v].order].group = h
  <2>1. CASE h = g /\ v = u
    BY <1>1, <2>1 DEF OrderGiven
  <2>2. CASE (h # g \/ v # u) /\ rows.member[h][v] = NoMember
    BY <1>1, <1>3, <2>2 DEF OrderGiven, SameOrder
  <2>3. CASE (h # g \/ v # u) /\ rows.member[h][v] # NoMember
    <3>1. ms[h][v].order = rows.member[h][v].order
      BY <2>3 DEF OrderGiven, SameOrder
    <3> DEFINE b == rows.member[h][v].order
    <3>2. /\ b \in DOMAIN rows.attempt \cup {NoOrder, WalletOrder}
          /\ b \in DOMAIN rows.attempt => rows.attempt[b].user = v /\ rows.attempt[b].group = h
      BY <2>3 DEF Paid
    <3> HIDE DEF b
    <3>3. b \in DOMAIN atts => atts[b].user = v /\ atts[b].group = h
      BY <1>1, <3>2
    <3> QED
      BY <1>1, <3>1, <3>2, <3>3 DEF b
  <2> QED
    BY <2>1, <2>2, <2>3
<1> QED
  BY <1>1, <1>2, <1>3 DEF Paid

(* Fulfilled gives the one order.                                          *)
LEMMA FulfilledGives ==
    ASSUME NEW rows \in AllRows, Fits(rows), NEW g \in Groups, NEW u \in Users,
           NEW o \in Nat \ {0}, rows.member[g][u] # NoMember, rows.member[g][u].order = NoOrder
    PROVE  LET res == Fulfilled(rows, g, u, o) IN
           /\ res \in AllRows /\ Fits(res) /\ res.attempt = rows.attempt
           /\ OrderGiven(rows.member, res.member, g, u, o)
           /\ NoneLost(rows, res)
<1> DEFINE res == Fulfilled(rows, g, u, o)
           old == rows.member[g]
           new == PaidMembers(old, u, o)
<1>1. PICK ms \in [Users -> MemberRows], s \in GroupStates :
        /\ Becomes(rows, res, g, ms, s) /\ res \in AllRows
        /\ StatusFits(s, rows.group[g].creator, ms) /\ SameOrders(new, ms)
  BY FulfilledEffect
<1> HIDE DEF res, new
<1>2. /\ rows.group \in [Groups -> GroupRows] /\ rows.member \in [Groups -> [Users -> MemberRows]]
      /\ old \in [Users -> MemberRows]
  BY DEF AllRows
<1>3. rows.group[g] # NoGroup
  BY DEF Fits, GroupFits
<1>4. Fits(res) /\ NoneLost(rows, res)
  BY <1>1, <1>3, GroupChange
<1>5. /\ new[u] # NoMember /\ new[u].order = o
      /\ \A v \in Users : v # u => new[v] = old[v]
  BY <1>2, PaidMembersEffect DEF new
<1>6. res.member[g] = ms /\ \A h \in Groups : h # g => res.member[h] = rows.member[h]
  BY <1>1, <1>2 DEF Becomes
<1>7. OrderGiven(rows.member, res.member, g, u, o)
  <2>1. ms[u] # NoMember /\ ms[u].order = o
    BY <1>1, <1>5 DEF SameOrders, SameOrder
  <2>2. ASSUME NEW h \in Groups, NEW v \in Users, h # g \/ v # u
        PROVE  SameOrder(rows.member[h][v], res.member[h][v])
    <3>1. CASE h = g
      BY <1>1, <1>5, <1>6, <2>2, <3>1 DEF SameOrders
    <3>2. CASE h # g
      BY <1>6, <3>2 DEF SameOrder
    <3> QED
      BY <3>1, <3>2
  <2> QED
    BY <1>6, <2>1, <2>2 DEF OrderGiven
<1>8. res.attempt = rows.attempt
  BY <1>1 DEF Becomes
<1> QED
  BY <1>1, <1>4, <1>7, <1>8 DEF res

-----------------------------------------------------------------------------
(* An attempt that was not applied gets another status, and is not.        *)
LEMMA MarkGood ==
    ASSUME NEW rows, Good(rows), NEW a \in DOMAIN rows.attempt,
           NEW s \in AttemptStates \ {"APPLIED"}, rows.attempt[a].status # "APPLIED"
    PROVE  /\ Good(Marked(rows, a, s))
           /\ Marked(rows, a, s).group = rows.group /\ Marked(rows, a, s).member = rows.member
           /\ Len(Marked(rows, a, s).attempt) = Len(rows.attempt)
           /\ DOMAIN Marked(rows, a, s).attempt = DOMAIN rows.attempt
<1> DEFINE res == Marked(rows, a, s)
<1>1. rows \in AllRows /\ Fits(rows) /\ Paid(rows.member, rows.attempt)
  BY DEF Good
<1>2. /\ res \in AllRows /\ res.group = rows.group /\ res.member = rows.member
      /\ Len(res.attempt) = Len(rows.attempt) /\ AttemptsKept(rows.attempt, res.attempt)
  BY <1>1, StatusChange
<1> HIDE DEF res
<1>3. OrdersKept(rows.member, rows.member) /\ rows.member \in [Groups -> [Users -> MemberRows]]
  BY <1>1 DEF OrdersKept, SameOrders, SameOrder, AllRows
<1>4. Paid(rows.member, res.attempt)
  BY <1>1, <1>2, <1>3, PaidKept
<1>5. DOMAIN res.attempt = DOMAIN rows.attempt
  BY <1>1, <1>2 DEF AllRows
<1>6. Fits(res)
  BY <1>1, <1>2 DEF Fits
<1> QED
  BY <1>2, <1>4, <1>5, <1>6 DEF Good, res

(* abandonPendingPayments keeps the rows good.                             *)
LEMMA AbandonedGood ==
    ASSUME Good(Rows), NEW u \in Users
    PROVE  /\ Good(Abandoned(u)) /\ Len(Abandoned(u).attempt) = Len(attempt)
           /\ NoneLost(Rows, Abandoned(u))
<1>0. Rows.group = group /\ Rows.member = member /\ Rows.attempt = attempt
  BY DEF Rows
<1>1. CASE Pending(u) = {}
  BY <1>0, <1>1 DEF Abandoned, NoneLost
<1>2. CASE Pending(u) # {}
  <2> DEFINE a == CHOOSE x \in Pending(u) : TRUE
             mid == Marked(Rows, a, "ABANDONED")
  <2>1. a \in Pending(u)
    BY <1>2
  <2> HIDE DEF a
  <2>2. a \in DOMAIN Rows.attempt /\ Rows.attempt[a].status # "APPLIED"
    BY <1>0, <2>1 DEF Pending
  <2>3. "ABANDONED" \in AttemptStates \ {"APPLIED"}
    BY DEF AttemptStates
  <2>4. /\ Good(mid) /\ mid.group = group /\ Len(mid.attempt) = Len(attempt)
        /\ DOMAIN mid.attempt = DOMAIN Rows.attempt
    BY <1>0, <2>2, <2>3, MarkGood
  <2>5. Abandoned(u) = ClosePayment(mid, a)
    BY <1>2 DEF Abandoned, Marked, a
  <2> HIDE DEF mid
  <2>6. /\ Good(ClosePayment(mid, a)) /\ ClosePayment(mid, a).attempt = mid.attempt
        /\ NoneLost(mid, ClosePayment(mid, a))
    BY <2>2, <2>4, CloseGood
  <2> QED
    BY <1>0, <2>4, <2>5, <2>6 DEF NoneLost
<1> QED
  BY <1>1, <1>2

-----------------------------------------------------------------------------
(* A checkout gives the customer a member of the group without an order.   *)
Entered(rows, res, g, u) ==
    /\ Good(res) /\ NoneLost(rows, res) /\ res.attempt = rows.attempt
    /\ res.member[g][u] # NoMember /\ res.member[g][u].order = NoOrder

(* The fields of a new member.                                             *)
LEMMA NewMemberRow ==
    /\ NewMember \in MemberRows /\ NewMember # NoMember /\ NewMember.order = NoOrder
    /\ NewMember.status = "PAYMENT_PENDING" /\ NewMember.rewarded = FALSE
<1>1. NewMember \in Members
  BY DEF NewMember, Members, NoAttempt, NoOrder
<1> QED
  BY <1>1 DEF NewMember, MemberRows, NoMember

(* preparePayment of a new group.                                          *)
LEMMA CreateGood ==
    ASSUME NEW rows, Good(rows), NEW g \in Groups, NEW u \in Users, MayCreate(rows, g, u)
    PROVE  Entered(rows, Create(rows, g, u), g, u)
<1> DEFINE res == Create(rows, g, u)
           G == [status |-> "PENDING_PAYMENT", creator |-> u, due |-> FALSE]
           ms == [rows.member[g] EXCEPT ![u] = NewMember]
<1>0. rows \in AllRows /\ Fits(rows) /\ Paid(rows.member, rows.attempt)
  BY DEF Good
<1>1. /\ rows.group \in [Groups -> GroupRows] /\ rows.attempt \in Seq(AttemptRows)
      /\ rows.member \in [Groups -> [Users -> MemberRows]]
      /\ rows.member[g] \in [Users -> MemberRows] /\ rows.group[g] = NoGroup
  BY <1>0 DEF AllRows, MayCreate
<1>2. \A v \in Users : rows.member[g][v] = NoMember
  BY <1>0, <1>1 DEF Fits, GroupFits
<1>3. G \in GroupRows /\ G # NoGroup /\ G.status = "PENDING_PAYMENT" /\ G.creator = u
  BY DEF GroupRows, GroupStates, NoGroup
<1>4. /\ ms \in [Users -> MemberRows] /\ ms[u] = NewMember
      /\ \A v \in Users : v # u => ms[v] = NoMember
  BY <1>1, <1>2, NewMemberRow
<1>5. /\ res.group = [rows.group EXCEPT ![g] = G] /\ res.attempt = rows.attempt
      /\ res.member = [rows.member EXCEPT ![g] = ms]
  BY <1>0 DEF Create, AllRows
<1> HIDE DEF G, ms
<1>6. /\ res.group \in [Groups -> GroupRows] /\ res.member \in [Groups -> [Users -> MemberRows]]
      /\ res.group[g] = G /\ res.member[g] = ms
      /\ \A h \in Groups : h # g => res.group[h] = rows.group[h] /\ res.member[h] = rows.member[h]
  BY <1>1, <1>3, <1>4, <1>5
<1>7. res \in AllRows
  BY <1>0, <1>5, <1>6 DEF Create, AllRows, G, ms
<1> HIDE DEF res
<1>8. Fits(res)
  <2>1. Rewarded(ms) = {}
    BY <1>4, NewMemberRow DEF Rewarded
  <2>2. StatusFits("PENDING_PAYMENT", u, ms)
    BY <1>4, <2>1 DEF StatusFits
  <2>3. GroupFits(G, ms)
    BY <1>3, <2>2 DEF GroupFits
  <2> QED
    BY <1>0, <1>6, <2>3 DEF Fits
<1>9. OrdersKept(rows.member, res.member)
  <2>1. SameOrders(rows.member[g], ms)
    BY <1>2, <1>4, NewMemberRow DEF SameOrders, SameOrder
  <2> QED
    BY <1>6, <2>1 DEF OrdersKept, SameOrders, SameOrder
<1>10. AttemptsKept(rows.attempt, rows.attempt)
  BY <1>1 DEF AttemptsKept
<1>11. Paid(res.member, rows.attempt)
  BY <1>0, <1>6, <1>9, <1>10, PaidKept
<1>12. Good(res)
  BY <1>5, <1>7, <1>8, <1>11 DEF Good
<1>13. NoneLost(rows, res)
  BY <1>1, <1>6 DEF NoneLost
<1> QED
  BY <1>4, <1>5, <1>6, <1>12, <1>13, NewMemberRow DEF Entered, res

(* preparePayment of an open group.                                        *)
LEMMA JoinGood ==
    ASSUME NEW rows, Good(rows), NEW g \in Groups, NEW u \in Users, MayJoin(rows, g, u)
    PROVE  Entered(rows, Join(rows, g, u), g, u)
<1> DEFINE res == Join(rows, g, u)
           m == rows.member[g][u]
           new == IF m = NoMember THEN NewMember
                  ELSE [m EXCEPT !.status = "PAYMENT_PENDING", !.slot = TRUE, !.attempt = NoAttempt]
           ms == [rows.member[g] EXCEPT ![u] = new]
<1>0. rows \in AllRows /\ Fits(rows) /\ Paid(rows.member, rows.attempt)
  BY DEF Good
<1>1. /\ rows.group \in [Groups -> GroupRows] /\ rows.attempt \in Seq(AttemptRows)
      /\ rows.member \in [Groups -> [Users -> MemberRows]]
      /\ rows.member[g] \in [Users -> MemberRows] /\ m \in MemberRows
      /\ rows.group[g].status = "OPEN"
  BY <1>0 DEF AllRows, MayJoin
<1>2. rows.group[g] # NoGroup /\ StatusFits("OPEN", rows.group[g].creator, rows.member[g])
  BY <1>0, <1>1 DEF Fits, GroupFits, NoGroup
<1>3. m = NoMember \/ (m \in Members /\ m.status = "PAYMENT_CLOSED" /\ m.order = NoOrder)
  BY <1>1 DEF MayJoin, MemberRows
<1>4. /\ new \in MemberRows /\ new # NoMember /\ new.status = "PAYMENT_PENDING"
      /\ new.order = NoOrder /\ (new.rewarded => m # NoMember /\ m.rewarded)
  <2>1. CASE m = NoMember
    BY <2>1, NewMemberRow
  <2>2. CASE m # NoMember
    BY <1>3, <2>2 DEF Members, MemberRows, NoMember, NoAttempt
  <2> QED
    BY <2>1, <2>2
<1>5. /\ res.group = rows.group /\ res.attempt = rows.attempt
      /\ res.member = [rows.member EXCEPT ![g] = ms]
  BY <1>0 DEF Join, AllRows
<1> HIDE DEF new
<1>6. ms \in [Users -> MemberRows] /\ ms[u] = new /\ \A v \in Users : v # u => ms[v] = rows.member[g][v]
  BY <1>1, <1>4
<1> HIDE DEF ms
<1>7. rows.group = [rows.group EXCEPT ![g] = [rows.group[g] EXCEPT !.status = "OPEN"]]
  BY <1>1, <1>2 DEF GroupRows
<1>8. Becomes(rows, res, g, ms, "OPEN")
  BY <1>5, <1>7 DEF Becomes
<1>9. res.member \in [Groups -> [Users -> MemberRows]] /\ res.member[g] = ms
  BY <1>1, <1>5, <1>6
<1>10. res \in AllRows
  BY <1>0, <1>5, <1>9 DEF Join, AllRows, ms, new
<1> HIDE DEF res
<1>11. StatusFits("OPEN", rows.group[g].creator, ms)
  <2>1. Rewarded(ms) = {}
    BY <1>2, <1>4, <1>6 DEF Rewarded, StatusFits
  <2>2. u # rows.group[g].creator
    BY <1>2, <1>3 DEF StatusFits, NoMember
  <2>3. \A v \in Users : ms[v].status = "FULFILLED" <=> v = rows.group[g].creator
    BY <1>2, <1>4, <1>6, <2>2 DEF StatusFits
  <2> QED
    BY <2>1, <2>3 DEF StatusFits
<1>12. SameOrders(rows.member[g], ms)
  BY <1>3, <1>4, <1>6 DEF SameOrders, SameOrder
<1>13. "OPEN" \in GroupStates
  BY DEF GroupStates
<1>14. Good(res) /\ NoneLost(rows, res)
  BY <1>2, <1>6, <1>8, <1>10, <1>11, <1>12, <1>13, ChangeGood
<1> QED
  BY <1>4, <1>5, <1>6, <1>9, <1>14 DEF Entered, res

(* The rows after a member was attached to an attempt.                     *)
Attached(rows, res, g, u, n) ==
    /\ res.group = rows.group
    /\ res.member = [rows.member EXCEPT ![g][u].attempt = n]

(* The attempt a member is attached to matters to nobody else.             *)
LEMMA AttachKept ==
    ASSUME NEW rows \in AllRows, Fits(rows), NEW g \in Groups, NEW u \in Users, NEW n \in Nat,
           rows.member[g][u] # NoMember, NEW res, Attached(rows, res, g, u, n)
    PROVE  /\ res.group \in [Groups -> GroupRows]
           /\ res.member \in [Groups -> [Users -> MemberRows]]
           /\ Fits(res) /\ OrdersKept(rows.member, res.member)
           /\ res.member[g][u] # NoMember
           /\ res.member[g][u].order = rows.member[g][u].order
<1> DEFINE m == rows.member[g][u]
           new == [m EXCEPT !.attempt = n]
           ms == [rows.member[g] EXCEPT ![u] = new]
<1>1. /\ rows.group \in [Groups -> GroupRows] /\ rows.member \in [Groups -> [Users -> MemberRows]]
      /\ rows.member[g] \in [Users -> MemberRows] /\ m \in MemberRows
  BY DEF AllRows
<1>2. m \in Members
  BY <1>1 DEF MemberRows
<1>3. /\ new \in MemberRows /\ new # NoMember /\ new.order = m.order
      /\ new.status = m.status /\ new.rewarded = m.rewarded
  BY <1>1, <1>2 DEF MemberRows, Members, NoMember
<1>4. res.member = [rows.member EXCEPT ![g] = ms] /\ res.group = rows.group
  BY DEF Attached
<1> HIDE DEF new
<1>5. ms \in [Users -> MemberRows] /\ ms[u] = new /\ \A v \in Users : v # u => ms[v] = rows.member[g][v]
  BY <1>1, <1>3
<1> HIDE DEF ms
<1>6. /\ res.member \in [Groups -> [Users -> MemberRows]] /\ res.member[g] = ms
      /\ \A h \in Groups : h # g => res.member[h] = rows.member[h]
  BY <1>1, <1>4, <1>5
<1>7. GroupFits(rows.group[g], ms)
  <2>1. GroupFits(rows.group[g], rows.member[g]) /\ rows.group[g] # NoGroup
    BY DEF Fits, GroupFits
  <2>2. Rewarded(ms) = Rewarded(rows.member[g])
    BY <1>3, <1>5 DEF Rewarded
  <2>3. StatusFits(rows.group[g].status, rows.group[g].creator, rows.member[g])
    BY <2>1 DEF GroupFits
  <2>4. StatusFits(rows.group[g].status, rows.group[g].creator, ms)
    BY <1>3, <1>5, <2>2, <2>3 DEF StatusFits
  <2> QED
    BY <2>1, <2>4 DEF GroupFits
<1>8. Fits(res)
  BY <1>4, <1>6, <1>7 DEF Fits
<1>9. OrdersKept(rows.member, res.member)
  <2>1. SameOrders(rows.member[g], ms)
    BY <1>3, <1>5 DEF SameOrders, SameOrder
  <2> QED
    BY <1>6, <2>1 DEF OrdersKept, SameOrders, SameOrder
<1> QED
  BY <1>1, <1>3, <1>4, <1>5, <1>6, <1>8, <1>9

(* attachPayment: the new attempt is nobody's order.                       *)
LEMMA AttemptGood ==
    ASSUME NEW rows, Good(rows), NEW g \in Groups, NEW u \in Users,
           rows.member[g][u] # NoMember, Len(rows.attempt) < MaxAttempts
    PROVE  Good(WithAttempt(rows, g, u)) /\ NoneLost(rows, WithAttempt(rows, g, u))
<1> DEFINE res == WithAttempt(rows, g, u)
           n == Len(rows.attempt) + 1
           new == [user |-> u, group |-> g, status |-> "PENDING"]
<1>0. rows \in AllRows /\ Fits(rows) /\ Paid(rows.member, rows.attempt)
  BY DEF Good
<1>1. rows.attempt \in Seq(AttemptRows) /\ n \in Nat
  BY <1>0 DEF AllRows
<1>2. new \in AttemptRows /\ new.user = u /\ new.group = g /\ new.status = "PENDING"
  BY DEF AttemptRows, AttemptStates
<1>3. Attached(rows, res, g, u, n) /\ res.attempt = Append(rows.attempt, new)
  BY <1>0 DEF Attached, WithAttempt, AllRows
<1> HIDE DEF new
<1>4. /\ res.attempt \in Seq(AttemptRows) /\ Len(res.attempt) = n /\ DOMAIN res.attempt = 1 .. n
      /\ DOMAIN rows.attempt = 1 .. Len(rows.attempt) /\ res.attempt[n] = new
      /\ \A a \in DOMAIN rows.attempt : res.attempt[a] = rows.attempt[a]
  BY <1>1, <1>2, <1>3
<1>5. DOMAIN res.attempt = DOMAIN rows.attempt \cup {n} /\ n \notin DOMAIN rows.attempt /\ n # NoOrder
  BY <1>1, <1>4 DEF NoOrder
<1>6. n <= MaxAttempts /\ n # WalletOrder
  BY <1>1, GroupAssumption DEF WalletOrder
<1> HIDE DEF n, res
<1>7. /\ res.group \in [Groups -> GroupRows] /\ res.member \in [Groups -> [Users -> MemberRows]]
      /\ Fits(res) /\ OrdersKept(rows.member, res.member)
      /\ res.member[g][u] # NoMember /\ res.member[g][u].order = rows.member[g][u].order
  BY <1>0, <1>1, <1>3, AttachKept
<1>8. res \in AllRows
  BY <1>0, <1>4, <1>7 DEF WithAttempt, AllRows, res
<1>9. AttemptsKept(rows.attempt, rows.attempt)
  BY <1>1 DEF AttemptsKept
<1>10. Paid(res.member, rows.attempt)
  BY <1>0, <1>7, <1>9, PaidKept
<1>11. Paid(res.member, res.attempt)
  <2>1. ASSUME NEW a \in DOMAIN res.attempt
        PROVE  LET m == res.member[res.attempt[a].group][res.attempt[a].user]
               IN  /\ m # NoMember
                   /\ a \in overtaken \/ (res.attempt[a].status = "APPLIED" <=> m.order = a)
    <3>1. CASE a \in DOMAIN rows.attempt
      BY <1>4, <1>10, <3>1 DEF Paid
    <3>2. CASE a = n
      <4>1. res.member[g][u].order # n
        BY <1>5, <1>6, <1>7, <1>10 DEF Paid
      <4> QED
        BY <1>2, <1>4, <1>7, <3>2, <4>1
    <3> QED
      BY <1>5, <3>1, <3>2
  <2>2. ASSUME NEW h \in Groups, NEW v \in Users, res.member[h][v] # NoMember
        PROVE  /\ res.member[h][v].order \in DOMAIN res.attempt \cup {NoOrder, WalletOrder}
               /\ res.member[h][v].order \in DOMAIN res.attempt =>
                     /\ res.attempt[res.member[h][v].order].user = v
                     /\ res.attempt[res.member[h][v].order].group = h
    <3> DEFINE o == res.member[h][v].order
    <3>1. /\ o \in DOMAIN rows.attempt \cup {NoOrder, WalletOrder}
          /\ o \in DOMAIN rows.attempt => rows.attempt[o].user = v /\ rows.attempt[o].group = h
      BY <1>10, <2>2 DEF Paid
    <3> HIDE DEF o
    <3>2. o \in DOMAIN res.attempt => o \in DOMAIN rows.attempt
      BY <1>5, <1>6, <3>1
    <3>3. o \in DOMAIN res.attempt => res.attempt[o].user = v /\ res.attempt[o].group = h
      BY <1>4, <3>1, <3>2
    <3> QED
      BY <1>5, <3>1, <3>3 DEF o
  <2>3. Len(res.attempt) <= MaxAttempts
    BY <1>4, <1>6
  <2> QED
    BY <2>1, <2>2, <2>3 DEF Paid
<1>12. NoneLost(rows, res)
  BY <1>3 DEF NoneLost, Attached
<1> QED
  BY <1>7, <1>8, <1>11, <1>12 DEF Good, res

(* purchaseWithWallet: the order of a member who had none.                 *)
LEMMA WalletGood ==
    ASSUME NEW rows, Good(rows), NEW g \in Groups, NEW u \in Users,
           rows.member[g][u] # NoMember, rows.member[g][u].order = NoOrder
    PROVE  LET res == Fulfilled(rows, g, u, WalletOrder)
           IN  Good(res) /\ NoneLost(rows, res)
<1> DEFINE res == Fulfilled(rows, g, u, WalletOrder)
<1>0. rows \in AllRows /\ Fits(rows) /\ Paid(rows.member, rows.attempt)
  BY DEF Good
<1>1. WalletOrder \in Nat \ {0}
  BY GroupAssumption DEF WalletOrder
<1>2. /\ res \in AllRows /\ Fits(res) /\ res.attempt = rows.attempt
      /\ OrderGiven(rows.member, res.member, g, u, WalletOrder)
      /\ NoneLost(rows, res)
  BY <1>0, <1>1, FulfilledGives
<1> HIDE DEF res
<1>3. res.member \in [Groups -> [Users -> MemberRows]]
  BY <1>2 DEF AllRows
<1>4. Paid(res.member, rows.attempt)
  BY <1>0, <1>2, <1>3, PaidByWallet
<1> QED
  BY <1>2, <1>4 DEF Good, res

-----------------------------------------------------------------------------
(* The components of the rows of the state.                                *)
LEMMA RowsAre ==
    /\ Rows.group = group /\ Rows.member = member /\ Rows.attempt = attempt
BY DEF Rows

(* settleVerifiedPayment, when it accepts: the member had no order, and    *)
(* the attempt it was attached to is given up.                             *)
LEMMA SettledGood ==
    ASSUME Good(Rows), NEW a \in DOMAIN attempt, ~Duplicate(a)
    PROVE  Good(Settled(a)) /\ NoneLost(Rows, Settled(a))
<1> DEFINE g == attempt[a].group
           u == attempt[a].user
           other == member[g][u].attempt
           det == IF other \notin {a, NoAttempt} /\ Unpaid(other)
                  THEN Marked(Rows, other, "CLOSED") ELSE Rows
           mid == [det EXCEPT !.attempt[a].status = "APPLIED", !.member[g][u].attempt = a]
           res == Fulfilled(mid, g, u, a)
<1>0. Rows \in AllRows /\ Fits(Rows) /\ Paid(member, attempt) /\ attempt \in Seq(AttemptRows)
  BY RowsAre DEF Good, AllRows
<1>1. attempt[a] \in AttemptRows /\ a \in Nat \ {0}
  BY <1>0
<1>2. g \in Groups /\ u \in Users
  BY <1>1 DEF AttemptRows
<1>3. member[g][u] # NoMember /\ member[g][u].order = NoOrder
  BY <1>0 DEF Paid, Duplicate
<1>4. Settled(a) = res
  BY DEF Settled, Marked
<1> HIDE DEF g, u
<1>5. /\ det.group = group /\ det.member = member /\ det \in AllRows
      /\ det.attempt \in Seq(AttemptRows) /\ Len(det.attempt) = Len(attempt)
      /\ \A b \in DOMAIN attempt :
          /\ det.attempt[b].user = attempt[b].user /\ det.attempt[b].group = attempt[b].group
          /\ det.attempt[b].status = "APPLIED" <=> attempt[b].status = "APPLIED"
  <2>1. CASE ~(other \notin {a, NoAttempt} /\ Unpaid(other))
    BY <1>0, <2>1, RowsAre
  <2>2. CASE other \notin {a, NoAttempt} /\ Unpaid(other) /\ other \in DOMAIN attempt
    <3>1. attempt[other].status # "APPLIED" /\ "CLOSED" \in AttemptStates
      BY <2>2 DEF Unpaid, AttemptStates
    <3>2. det = Marked(Rows, other, "CLOSED")
      BY <2>2
    <3>3. other \in DOMAIN Rows.attempt /\ Rows.attempt[other].status # "APPLIED"
      BY <2>2, <3>1, RowsAre
    <3> HIDE DEF det, other
    <3>4. /\ det \in AllRows /\ det.group = Rows.group /\ det.member = Rows.member
          /\ Len(det.attempt) = Len(Rows.attempt) /\ AttemptsKept(Rows.attempt, det.attempt)
      BY <1>0, <3>1, <3>2, <3>3, StatusChange
    <3> QED
      BY <3>4, RowsAre DEF AttemptsKept
  <2>3. CASE other \notin {a, NoAttempt} /\ Unpaid(other) /\ other \notin DOMAIN attempt
    <3>1. det.attempt = attempt /\ det.group = group /\ det.member = member
      BY <1>0, <2>3, RowsAre DEF Marked, AllRows
    <3>2. det \in AllRows
      BY <1>0, <2>3, <3>1, RowsAre DEF Marked, AllRows
    <3> HIDE DEF det
    <3> QED
      BY <1>0, <3>1, <3>2
  <2> QED
    BY <2>1, <2>2, <2>3
<1> HIDE DEF det
<1>6. /\ mid.group = det.group /\ mid.member = [det.member EXCEPT ![g][u].attempt = a]
      /\ mid.attempt = [det.attempt EXCEPT ![a].status = "APPLIED"]
  BY <1>5 DEF AllRows
<1>7. /\ mid.attempt \in Seq(AttemptRows) /\ Len(mid.attempt) = Len(attempt)
      /\ mid.attempt[a].status = "APPLIED"
      /\ \A b \in DOMAIN mid.attempt :
          /\ mid.attempt[b].user = attempt[b].user /\ mid.attempt[b].group = attempt[b].group
          /\ b # a => (mid.attempt[b].status = "APPLIED" <=> attempt[b].status = "APPLIED")
  <2> DEFINE new == [det.attempt[a] EXCEPT !.status = "APPLIED"]
  <2>1. DOMAIN det.attempt = DOMAIN attempt /\ det.attempt[a] \in AttemptRows
    BY <1>0, <1>5
  <2>2. /\ new \in AttemptRows /\ new.status = "APPLIED"
        /\ new.user = det.attempt[a].user /\ new.group = det.attempt[a].group
    BY <2>1 DEF AttemptRows, AttemptStates
  <2>3. mid.attempt = [det.attempt EXCEPT ![a] = new]
    BY <1>6
  <2> HIDE DEF new, mid
  <2>4. /\ mid.attempt \in Seq(AttemptRows) /\ Len(mid.attempt) = Len(det.attempt)
        /\ mid.attempt[a] = new /\ DOMAIN mid.attempt = DOMAIN attempt
        /\ \A b \in DOMAIN attempt : b # a => mid.attempt[b] = det.attempt[b]
    BY <1>5, <2>1, <2>2, <2>3
  <2> QED
    BY <1>5, <2>2, <2>4
<1>8. Fits(det) /\ Attached(det, mid, g, u, a) /\ det.member[g][u] # NoMember
  BY <1>0, <1>3, <1>5, <1>6, RowsAre DEF Fits, Attached
<1>9. /\ mid.group \in [Groups -> GroupRows] /\ mid.member \in [Groups -> [Users -> MemberRows]]
      /\ Fits(mid) /\ OrdersKept(member, mid.member)
      /\ mid.member[g][u] # NoMember /\ mid.member[g][u].order = NoOrder
  <2> HIDE DEF mid
  <2>1. /\ mid.group \in [Groups -> GroupRows] /\ mid.member \in [Groups -> [Users -> MemberRows]]
        /\ Fits(mid) /\ OrdersKept(det.member, mid.member)
        /\ mid.member[g][u] # NoMember /\ mid.member[g][u].order = det.member[g][u].order
    BY <1>1, <1>2, <1>5, <1>8, AttachKept
  <2> QED
    BY <1>3, <1>5, <2>1
<1>10. mid \in AllRows
  BY <1>5, <1>7, <1>9 DEF AllRows
<1> HIDE DEF mid
<1>11. /\ res \in AllRows /\ Fits(res) /\ res.attempt = mid.attempt
       /\ OrderGiven(mid.member, res.member, g, u, a) /\ NoneLost(mid, res)
  BY <1>1, <1>2, <1>9, <1>10, FulfilledGives
<1> HIDE DEF res
<1>12. OrderGiven(member, res.member, g, u, a)
  BY <1>9, <1>11 DEF OrderGiven, OrdersKept, SameOrders, SameOrder
<1>13. Paid(res.member, mid.attempt)
  <2>1. res.member \in [Groups -> [Users -> MemberRows]]
    BY <1>11 DEF AllRows
  <2>2. /\ a \in DOMAIN Rows.attempt /\ Rows.attempt[a].group = g /\ Rows.attempt[a].user = u
        /\ Paid(Rows.member, Rows.attempt) /\ Rows.member[g][u].order = NoOrder
        /\ OrderGiven(Rows.member, res.member, g, u, a) /\ Len(mid.attempt) = Len(Rows.attempt)
    BY <1>0, <1>3, <1>7, <1>12, RowsAre DEF g, u
  <2>3. \A b \in DOMAIN mid.attempt :
          /\ mid.attempt[b].user = Rows.attempt[b].user /\ mid.attempt[b].group = Rows.attempt[b].group
          /\ b # a => (mid.attempt[b].status = "APPLIED" <=> Rows.attempt[b].status = "APPLIED")
    BY <1>7, RowsAre
  <2> QED
    BY <1>0, <1>2, <1>7, <2>1, <2>2, <2>3, PaidByAttempt
<1>14. NoneLost(Rows, res)
  BY <1>5, <1>6, <1>11, RowsAre DEF NoneLost, mid
<1> QED
  BY <1>4, <1>11, <1>13, <1>14 DEF Good

-----------------------------------------------------------------------------
(* A transaction that leaves the rows good.                                *)
LEMMA Written ==
    ASSUME Inv, NEW rows, Good(rows), NoneLost(Rows, rows), Write(rows), listed' \subseteq listed,
           overtaken' = overtaken
    PROVE  Inv'
<1>1. /\ rows.group \in [Groups -> GroupRows] /\ rows.attempt \in Seq(AttemptRows)
      /\ rows.member \in [Groups -> [Users -> MemberRows]]
      /\ Fits(rows) /\ Paid(rows.member, rows.attempt)
  BY DEF Good, AllRows
<1>2. group' = rows.group /\ member' = rows.member /\ attempt' = rows.attempt
  BY DEF Write
<1>3. [group |-> group', member |-> member', attempt |-> attempt'] \in AllRows
  BY <1>1, <1>2 DEF AllRows
<1>4. Good(Rows)'
  <2>1. Paid(member, attempt)'
    BY <1>1, <1>2 DEF Paid
  <2> QED
    BY <1>1, <1>2, <1>3, <2>1 DEF Good, Rows, Fits
<1>5. \A g \in Groups : group[g] # NoGroup => group'[g] # NoGroup
  BY <1>2, RowsAre DEF NoneLost
<1> QED
  BY <1>4, <1>5 DEF Inv

(* The checkouts.                                                          *)
LEMMA EpayStep ==
    ASSUME Inv, NEW u \in Users, NEW g \in Groups, CreateByEpay(u, g) \/ JoinByEpay(u, g)
    PROVE  Inv'
<1>0. Good(Rows)
  BY DEF Inv
<1>1. PICK left : left = Abandoned(u)
  OBVIOUS
<1>2. Good(left) /\ Len(left.attempt) = Len(attempt) /\ NoneLost(Rows, left)
  BY <1>0, <1>1, AbandonedGood
<1>3. PICK new : new = IF CreateByEpay(u, g) THEN Create(left, g, u) ELSE Join(left, g, u)
  OBVIOUS
<1>4. Entered(left, new, g, u)
  <2>1. CASE CreateByEpay(u, g)
    <3>1. MayCreate(left, g, u)
      BY <1>1, <2>1 DEF CreateByEpay
    <3> QED
      BY <1>2, <1>3, <2>1, <3>1, CreateGood
  <2>2. CASE ~CreateByEpay(u, g)
    <3>1. MayJoin(left, g, u)
      BY <1>1, <2>2 DEF JoinByEpay
    <3> QED
      BY <1>2, <1>3, <2>2, <3>1, JoinGood
  <2> QED
    BY <2>1, <2>2
<1>5. /\ Good(new) /\ new.attempt = left.attempt /\ new.member[g][u] # NoMember
      /\ NoneLost(left, new)
  BY <1>4 DEF Entered
<1>6. Len(new.attempt) < MaxAttempts
  BY <1>2, <1>5 DEF CreateByEpay, JoinByEpay
<1>7. PICK res : res = WithAttempt(new, g, u)
  OBVIOUS
<1>8. Good(res) /\ NoneLost(new, res)
  BY <1>5, <1>6, <1>7, AttemptGood
<1>9. NoneLost(Rows, res)
  BY <1>2, <1>5, <1>8 DEF NoneLost
<1>10. Write(res) /\ listed' = listed /\ overtaken' = overtaken
  BY <1>1, <1>3, <1>7 DEF CreateByEpay, JoinByEpay, recording
<1> QED
  BY <1>8, <1>9, <1>10, Written

(* The same from the wallet.                                               *)
LEMMA WalletStep ==
    ASSUME Inv, NEW u \in Users, NEW g \in Groups, CreateByWallet(u, g) \/ JoinByWallet(u, g)
    PROVE  Inv'
<1>0. Good(Rows)
  BY DEF Inv
<1>1. PICK left : left = Abandoned(u)
  OBVIOUS
<1>2. Good(left) /\ NoneLost(Rows, left)
  BY <1>0, <1>1, AbandonedGood
<1>3. PICK new : new = IF CreateByWallet(u, g) THEN Create(left, g, u) ELSE Join(left, g, u)
  OBVIOUS
<1>4. Entered(left, new, g, u)
  <2>1. CASE CreateByWallet(u, g)
    <3>1. MayCreate(left, g, u)
      BY <1>1, <2>1 DEF CreateByWallet
    <3> QED
      BY <1>2, <1>3, <2>1, <3>1, CreateGood
  <2>2. CASE ~CreateByWallet(u, g)
    <3>1. MayJoin(left, g, u)
      BY <1>1, <2>2 DEF JoinByWallet
    <3> QED
      BY <1>2, <1>3, <2>2, <3>1, JoinGood
  <2> QED
    BY <2>1, <2>2
<1>5. /\ Good(new) /\ new.member[g][u] # NoMember /\ new.member[g][u].order = NoOrder
      /\ NoneLost(left, new)
  BY <1>4 DEF Entered
<1>6. PICK res : res = Fulfilled(new, g, u, WalletOrder)
  OBVIOUS
<1>7. Good(res) /\ NoneLost(new, res)
  BY <1>5, <1>6, WalletGood
<1>8. NoneLost(Rows, res)
  BY <1>2, <1>5, <1>7 DEF NoneLost
<1>9. Write(res) /\ listed' = listed /\ overtaken' = overtaken
  BY <1>1, <1>3, <1>6 DEF CreateByWallet, JoinByWallet, recording
<1> QED
  BY <1>7, <1>8, <1>9, Written

(* Any other checkout gives up the customer's pending attempt.             *)
LEMMA OtherStep ==
    ASSUME Inv, NEW u \in Users, OtherCheckout(u)
    PROVE  Inv'
<1>1. PICK res : res = Abandoned(u)
  OBVIOUS
<1>2. Good(res) /\ NoneLost(Rows, res)
  BY <1>1, AbandonedGood DEF Inv
<1>3. Write(res) /\ listed' = listed /\ overtaken' = overtaken
  BY <1>1 DEF OtherCheckout, recording
<1> QED
  BY <1>2, <1>3, Written

(* An attempt expires or is closed by the gateway's answer.                *)
LEMMA CloseStep ==
    ASSUME Inv, NEW a \in DOMAIN attempt, CloseAttempt(a)
    PROVE  Inv'
<1>1. a \in DOMAIN Rows.attempt /\ Rows.attempt[a].status # "APPLIED"
  BY RowsAre DEF CloseAttempt, Unpaid
<1>2. "CLOSED" \in AttemptStates \ {"APPLIED"} /\ Good(Rows)
  BY DEF AttemptStates, Inv
<1>3. PICK mid : mid = Marked(Rows, a, "CLOSED")
  OBVIOUS
<1>4. Good(mid) /\ mid.group = Rows.group /\ a \in DOMAIN mid.attempt
  BY <1>1, <1>2, <1>3, MarkGood
<1>5. PICK res : res = ClosePayment(mid, a)
  OBVIOUS
<1>6. Good(res) /\ NoneLost(mid, res)
  BY <1>4, <1>5, CloseGood
<1>7. NoneLost(Rows, res)
  BY <1>4, <1>6 DEF NoneLost
<1>8. Write(res) /\ listed' = listed /\ overtaken' = overtaken
  BY <1>3, <1>5 DEF CloseAttempt, Marked, recording
<1> QED
  BY <1>6, <1>7, <1>8, Written

(* A payment is settled.                                                   *)
LEMMA SettleStep ==
    ASSUME Inv, NEW a \in DOMAIN attempt, Settle(a)
    PROVE  Inv'
<1>1. /\ Good(Rows) /\ ~Duplicate(a) /\ Write(Settled(a)) /\ listed' = listed
      /\ overtaken' = overtaken
  BY DEF Settle, Inv, recording
<1>2. PICK res : res = Settled(a)
  OBVIOUS
<1>3. Good(res) /\ NoneLost(Rows, res) /\ Write(res)
  BY <1>1, <1>2, SettledGood
<1> QED
  BY <1>1, <1>3, Written

(* A payment goes back.  If it was settled meanwhile it is one of those    *)
(* that PaidOnce leaves out from now on.                                   *)
LEMMA RecordStep ==
    ASSUME Inv, NEW a \in DOMAIN attempt, RecordRejection(a)
    PROVE  Inv'
<1>1. /\ group' = group /\ member' = member /\ listed' = listed
      /\ attempt' = [attempt EXCEPT ![a].status = "REFUNDING"]
  BY DEF RecordRejection
<1>2. Good(Rows) /\ a \in DOMAIN Rows.attempt
  BY RowsAre DEF Inv
<1>3. "REFUNDING" \in AttemptStates \ {"APPLIED"}
  BY DEF AttemptStates
<1>4. PICK res : res = Marked(Rows, a, "REFUNDING")
  OBVIOUS
<1>5. res.group = group /\ res.member = member /\ res.attempt = attempt'
  BY <1>1, <1>4, RowsAre DEF Marked, Rows
<1>6. CASE attempt[a].status # "APPLIED"
  <2>1. Good(res)
    BY <1>2, <1>3, <1>4, <1>6, MarkGood, RowsAre
  <2>2. Write(res) /\ NoneLost(Rows, res) /\ overtaken' = overtaken
    BY <1>1, <1>5, <1>6, RowsAre DEF Write, NoneLost, RecordRejection
  <2> QED
    BY <1>1, <2>1, <2>2, Written
<1>7. CASE attempt[a].status = "APPLIED"
  <2>1. overtaken' = overtaken \cup {a}
    BY <1>7 DEF RecordRejection
  <2>2. /\ res \in AllRows /\ Len(res.attempt) = Len(Rows.attempt)
        /\ res.attempt[a] = [Rows.attempt[a] EXCEPT !.status = "REFUNDING"]
        /\ \A b \in DOMAIN Rows.attempt : b # a => res.attempt[b] = Rows.attempt[b]
    BY <1>2, <1>3, <1>4, StatusChange DEF Good
  <2>3. Fits(Rows) /\ Paid(member, attempt) /\ attempt \in Seq(AttemptRows)
    BY <1>2, RowsAre DEF Good, AllRows
  <2>4. attempt' \in Seq(AttemptRows) /\ Len(attempt') = Len(attempt)
    BY <1>5, <2>2, RowsAre DEF AllRows
  <2>5. \A b \in DOMAIN attempt :
          /\ attempt'[b].user = attempt[b].user /\ attempt'[b].group = attempt[b].group
          /\ b # a => attempt'[b] = attempt[b]
    <3>1. attempt[a] \in AttemptRows
      BY <2>3
    <3>2. attempt'[a] = [attempt[a] EXCEPT !.status = "REFUNDING"]
      BY <1>5, <2>2, RowsAre
    <3>3. attempt'[a].user = attempt[a].user /\ attempt'[a].group = attempt[a].group
      BY <3>1, <3>2 DEF AttemptRows
    <3>4. \A b \in DOMAIN attempt : b # a => attempt'[b] = attempt[b]
      BY <1>5, <2>2, RowsAre
    <3> QED
      BY <3>3, <3>4
  <2>6. DOMAIN attempt' = DOMAIN attempt
    BY <2>3, <2>4
  <2>7. Paid(member, attempt)'
    BY <1>1, <2>1, <2>3, <2>4, <2>5, <2>6 DEF Paid
  <2>8. [group |-> group', member |-> member', attempt |-> attempt'] \in AllRows
    BY <1>1, <1>5, <2>2 DEF AllRows
  <2>9. Good(Rows)'
    BY <1>1, <2>3, <2>7, <2>8, RowsAre DEF Good, Rows, Fits
  <2> QED
    BY <1>1, <2>9 DEF Inv
<1> QED
  BY <1>6, <1>7

(* A settlement that fails is tried again.                                 *)
LEMMA FailStep ==
    ASSUME Inv, NEW a \in DOMAIN attempt, SettleFails(a)
    PROVE  Inv'
<1>1. a \in DOMAIN Rows.attempt /\ Rows.attempt[a].status # "APPLIED" /\ Good(Rows)
  BY RowsAre DEF SettleFails, Inv
<1>2. "RETRYING" \in AttemptStates \ {"APPLIED"}
  BY DEF AttemptStates
<1>3. PICK res : res = Marked(Rows, a, "RETRYING")
  OBVIOUS
<1>4. Good(res) /\ res.group = Rows.group /\ res.member = Rows.member
  BY <1>1, <1>2, <1>3, MarkGood
<1>5. res.attempt = [attempt EXCEPT ![a].status = "RETRYING"]
  BY <1>3 DEF Marked, Rows
<1>6. Write(res) /\ listed' = listed /\ overtaken' = overtaken /\ NoneLost(Rows, res)
  BY <1>4, <1>5, RowsAre DEF SettleFails, Write, NoneLost, recording
<1> QED
  BY <1>4, <1>6, Written

-----------------------------------------------------------------------------
(* A group's time is up, which nothing in Good speaks of.                  *)
LEMMA DueStep ==
    ASSUME Inv, NEW g \in Groups, GroupDue(g)
    PROVE  Inv'
<1>1. /\ group \in [Groups -> GroupRows] /\ member \in [Groups -> [Users -> MemberRows]]
      /\ attempt \in Seq(AttemptRows) /\ Fits(Rows) /\ Paid(member, attempt)
  BY RowsAre DEF Inv, Good, AllRows
<1>2. /\ group' = [group EXCEPT ![g] = [group[g] EXCEPT !.due = TRUE]]
      /\ member' = member /\ attempt' = attempt /\ listed' = listed /\ group[g].status = "OPEN"
      /\ overtaken' = overtaken
  BY DEF GroupDue, recording
<1>3. group[g] # NoGroup /\ group[g] \in [status : GroupStates, creator : Users, due : BOOLEAN]
  BY <1>1, <1>2 DEF GroupRows, NoGroup
<1>4. LET G == [group[g] EXCEPT !.due = TRUE] IN
      /\ G \in GroupRows /\ G # NoGroup /\ G.status = group[g].status
      /\ G.creator = group[g].creator
  BY <1>3 DEF GroupRows, NoGroup
<1>5. /\ group' \in [Groups -> GroupRows] /\ group'[g] # NoGroup
      /\ group'[g].status = group[g].status /\ group'[g].creator = group[g].creator
      /\ \A h \in Groups : h # g => group'[h] = group[h]
  BY <1>1, <1>2, <1>4
<1>6. GroupFits(group'[g], member[g])
  BY <1>1, <1>3, <1>5, RowsAre DEF Fits, GroupFits
<1>7. \A h \in Groups : GroupFits(group'[h], member'[h])
  BY <1>1, <1>2, <1>5, <1>6, RowsAre DEF Fits
<1>8. [group |-> group', member |-> member', attempt |-> attempt'] \in AllRows
  BY <1>1, <1>2, <1>5 DEF AllRows
<1>9. Good(Rows)'
  <2>1. Paid(member, attempt)'
    BY <1>1, <1>2 DEF Paid
  <2> QED
    BY <1>1, <1>2, <1>7, <1>8, <2>1 DEF Good, Rows, Fits
<1> QED
  BY <1>2, <1>3, <1>5, <1>9 DEF Inv

(* The worker finalizes a group of its list.                               *)
LEMMA ExpireStep ==
    ASSUME Inv, NEW g \in Groups, ExpireListed(g)
    PROVE  Inv'
<1>0. Good(Rows) /\ Rows \in AllRows /\ Fits(Rows)
  BY DEF Inv, Good
<1>1. /\ Rows.group[g] # NoGroup /\ Write(FinalizeUnsuccessful(Rows, g)) /\ listed' \subseteq listed
      /\ overtaken' = overtaken
  BY RowsAre DEF Inv, ExpireListed, recording
<1>2. CASE Rows.group[g].status = "SUCCEEDED"
  <2>1. Write(Rows) /\ NoneLost(Rows, Rows)
    BY <1>1, <1>2 DEF FinalizeUnsuccessful, NoneLost
  <2>2. PICK res : res = Rows
    OBVIOUS
  <2> QED
    BY <1>0, <1>1, <2>1, <2>2, Written
<1>3. CASE Rows.group[g].status # "SUCCEEDED"
  <2>1. Rewarded(Rows.member[g]) = {}
    BY <1>0, <1>1, <1>3 DEF Fits, GroupFits, StatusFits
  <2>2. PICK res : res = FinalizeUnsuccessful(Rows, g)
    OBVIOUS
  <2>3. PICK ms \in [Users -> MemberRows], s \in GroupStates :
          /\ Becomes(Rows, res, g, ms, s) /\ res \in AllRows
          /\ StatusFits(s, Rows.group[g].creator, ms) /\ SameOrders(Rows.member[g], ms)
    BY <1>0, <1>1, <1>3, <2>1, <2>2, FinalizeEffect
  <2>4. Good(res) /\ NoneLost(Rows, res)
    BY <1>0, <1>1, <2>3, ChangeGood
  <2> QED
    BY <1>1, <2>2, <2>4, Written
<1> QED
  BY <1>2, <1>3

(* The creator cancels a group nobody else has entered.                    *)
LEMMA CancelStep ==
    ASSUME Inv, NEW g \in Groups, Cancel(g)
    PROVE  Inv'
<1>0. /\ Good(Rows) /\ Fits(Rows)
      /\ group \in [Groups -> GroupRows] /\ member \in [Groups -> [Users -> MemberRows]]
      /\ attempt \in Seq(AttemptRows) /\ group[g].status = "OPEN"
  BY RowsAre DEF Inv, Good, AllRows, Cancel
<1>1. group[g] # NoGroup /\ group[g] \in [status : GroupStates, creator : Users, due : BOOLEAN]
  BY <1>0 DEF GroupRows, NoGroup
<1>2. PICK c \in Users : c = group[g].creator
  BY <1>1
<1>3. PICK m \in MemberRows : m = member[g][c]
  BY <1>0
<1>4. StatusFits("OPEN", c, member[g])
  BY <1>0, <1>1, <1>2, RowsAre DEF Fits, GroupFits
<1>5. m.status = "FULFILLED" /\ m # NoMember /\ m \in Members
  BY <1>2, <1>3, <1>4 DEF StatusFits, NoMember, MemberRows
<1>6. PICK n : n = [m EXCEPT !.slot = FALSE]
  OBVIOUS
<1>7. /\ n \in MemberRows /\ n # NoMember /\ n.order = m.order /\ n.rewarded = m.rewarded
  BY <1>3, <1>5, <1>6 DEF MemberRows, Members, NoMember
<1>8. PICK ms : ms = [member[g] EXCEPT ![c] = n]
  OBVIOUS
<1>9. ms \in [Users -> MemberRows] /\ ms[c] = n /\ \A v \in Users : v # c => ms[v] = member[g][v]
  BY <1>0, <1>7, <1>8
<1>10. StatusFits("CANCELED", c, ms)
  BY <1>3, <1>4, <1>5, <1>7, <1>9 DEF StatusFits, Rewarded
<1>11. SameOrders(member[g], ms)
  BY <1>3, <1>5, <1>7, <1>9 DEF SameOrders, SameOrder
<1>12. PICK res : res = [group |-> [group EXCEPT ![g] = [group[g] EXCEPT !.status = "CANCELED"]],
                         member |-> [member EXCEPT ![g] = ms], attempt |-> attempt]
  OBVIOUS
<1>13. Becomes(Rows, res, g, ms, "CANCELED")
  BY <1>12, RowsAre DEF Becomes
<1>14. "CANCELED" \in GroupStates
  BY DEF GroupStates
<1>15. res \in AllRows
  <2>1. /\ res.group \in [Groups -> GroupRows] /\ res.member \in [Groups -> [Users -> MemberRows]]
    BY <1>0, <1>1, <1>9, <1>12, <1>14 DEF GroupRows
  <2> QED
    BY <1>0, <1>12, <2>1 DEF AllRows
<1>16. Good(res) /\ NoneLost(Rows, res)
  BY <1>0, <1>1, <1>2, <1>9, <1>10, <1>11, <1>13, <1>14, <1>15, ChangeGood, RowsAre
<1>17. Write(res) /\ listed' = listed /\ overtaken' = overtaken
  BY <1>2, <1>3, <1>6, <1>8, <1>12 DEF Cancel, Write, recording
<1> QED
  BY <1>16, <1>17, Written

(* deleteCustomer.  In a group that stays open the customer was not the    *)
(* creator, and had not paid.                                              *)
LEMMA DeleteStep ==
    ASSUME Inv, NEW u \in Users, DeleteAccount(u)
    PROVE  Inv'
<1> DEFINE active == {g \in Groups : member[g][u].status \in Occupying}
           created == {g \in active : group[g].creator = u}
           Left(m) == [m EXCEPT
                !.status = IF m.order = NoOrder THEN "PAYMENT_CLOSED" ELSE "FALLBACK_FULFILLED",
                !.slot = FALSE]
           Leaves(g, v) ==
                \/ v = u /\ g \in active
                \/ v # u /\ g \in created /\ member[g][v].status = "PAYMENT_PENDING"
           ends == {g \in created : group[g].status \in {"PENDING_PAYMENT", "OPEN"}}
<1>0. /\ Rows \in AllRows /\ Fits(Rows) /\ Paid(Rows.member, Rows.attempt)
      /\ group \in [Groups -> GroupRows] /\ member \in [Groups -> [Users -> MemberRows]]
      /\ attempt \in Seq(AttemptRows)
  BY RowsAre DEF Inv, Good, AllRows
<1>1. /\ member' = [g \in Groups |-> [v \in Users |->
                      IF Leaves(g, v) THEN Left(member[g][v]) ELSE member[g][v]]]
      /\ group' = [g \in Groups |->
                      IF g \in ends THEN [group[g] EXCEPT !.status = "CANCELED"] ELSE group[g]]
      /\ CloseAttemptsOf(u) /\ listed' = listed /\ overtaken' = overtaken
  BY DEF DeleteAccount, recording
<1>2. ASSUME NEW g \in Groups, NEW v \in Users, Leaves(g, v)
      PROVE  /\ member[g][v] # NoMember /\ Left(member[g][v]) # NoMember
             /\ Left(member[g][v]) \in MemberRows
             /\ Left(member[g][v]).order = member[g][v].order
             /\ Left(member[g][v]).rewarded = member[g][v].rewarded
             /\ Left(member[g][v]).status # "FULFILLED"
  <2>1. PICK m \in MemberRows : m = member[g][v]
    BY <1>0
  <2>2. m.status \in Occupying
    BY <1>2, <2>1 DEF Occupying
  <2>3. m \in Members /\ m # NoMember
    BY <2>2 DEF Occupying, MemberRows, NoMember
  <2>4. /\ Left(m) \in Members /\ Left(m) # NoMember /\ Left(m).order = m.order
        /\ Left(m).rewarded = m.rewarded
        /\ Left(m).status = IF m.order = NoOrder THEN "PAYMENT_CLOSED" ELSE "FALLBACK_FULFILLED"
    BY <2>3 DEF Members, NoMember
  <2> HIDE DEF Left
  <2>5. Left(m) \in MemberRows
    BY <2>4 DEF MemberRows
  <2> QED
    BY <2>1, <2>3, <2>4, <2>5
<1> HIDE DEF Left
<1>3. ASSUME NEW g \in Groups, NEW v \in Users
      PROVE  /\ member'[g][v] \in MemberRows /\ SameOrder(member[g][v], member'[g][v])
             /\ ~Leaves(g, v) => member'[g][v] = member[g][v]
             /\ Leaves(g, v) => member'[g][v].status # "FULFILLED"
             /\ v \in Rewarded(member'[g]) <=> v \in Rewarded(member[g])
  <2>1. CASE Leaves(g, v)
    <3>1. member'[g][v] = Left(member[g][v])
      BY <1>1, <2>1
    <3> QED
      BY <1>2, <2>1, <3>1 DEF SameOrder, Rewarded
  <2>2. CASE ~Leaves(g, v)
    <3>1. member'[g][v] = member[g][v]
      BY <1>1, <2>2
    <3> QED
      BY <1>0, <2>2, <3>1 DEF SameOrder, Rewarded
  <2> QED
    BY <2>1, <2>2
<1>4. member' \in [Groups -> [Users -> MemberRows]] /\ OrdersKept(member, member')
  <2> HIDE DEF Leaves
  <2>1. \A g \in Groups : member'[g] \in [Users -> MemberRows]
    BY <1>1, <1>3
  <2> QED
    BY <1>1, <1>3, <2>1 DEF OrdersKept, SameOrders
<1>5. ASSUME NEW g \in Groups PROVE Rewarded(member'[g]) = Rewarded(member[g])
  BY <1>3 DEF Rewarded
<1>6. ASSUME NEW g \in Groups
      PROVE  /\ group'[g] \in GroupRows /\ (group[g] # NoGroup => group'[g] # NoGroup)
             /\ GroupFits(group'[g], member'[g])
  <2>0. GroupFits(group[g], member[g]) /\ group[g] \in GroupRows
    BY <1>0, RowsAre DEF Fits
  <2>1. CASE group[g] = NoGroup
    <3>1. \A v \in Users : member[g][v] = NoMember
      BY <2>0, <2>1 DEF GroupFits
    <3>2. \A v \in Users : ~Leaves(g, v)
      BY <3>1 DEF NoMember, Occupying
    <3>3. g \notin ends
      BY <2>1 DEF NoGroup
    <3> HIDE DEF ends, Leaves
    <3>4. group'[g] = group[g] /\ \A v \in Users : member'[g][v] = member[g][v]
      BY <1>1, <1>3, <3>2, <3>3
    <3> QED
      BY <2>0, <2>1, <3>1, <3>4 DEF GroupFits
  <2>2. CASE group[g] # NoGroup /\ g \in ends
    <3>1. /\ group[g] \in [status : GroupStates, creator : Users, due : BOOLEAN]
          /\ StatusFits(group[g].status, group[g].creator, member[g])
          /\ group[g].status # "SUCCEEDED"
      BY <2>0, <2>2 DEF GroupRows, GroupFits
    <3>2. group'[g] = [group[g] EXCEPT !.status = "CANCELED"]
      BY <1>1, <2>2
    <3>3. group'[g] \in GroupRows /\ group'[g] # NoGroup /\ group'[g].status = "CANCELED"
      BY <3>1, <3>2 DEF GroupRows, GroupStates, NoGroup
    <3>4. StatusFits("CANCELED", group'[g].creator, member'[g])
      BY <1>5, <3>1 DEF StatusFits
    <3> QED
      BY <3>3, <3>4 DEF GroupFits
  <2>3. CASE group[g] # NoGroup /\ g \notin ends
    <3>1. StatusFits(group[g].status, group[g].creator, member[g])
      BY <2>0, <2>3 DEF GroupFits
    <3>2. group'[g] = group[g]
      BY <1>1, <2>3
    <3>3. group[g].status = "PENDING_PAYMENT" => \A v \in Users : ~Leaves(g, v)
      BY <2>3, <3>1 DEF StatusFits, NoMember, Occupying
    <3>4. group[g].status = "OPEN" =>
            /\ group[g].creator # u
            /\ \A v \in Users : Leaves(g, v) => v = u
      BY <2>3, <3>1 DEF StatusFits, Occupying
    <3> HIDE DEF Leaves
    <3>5. StatusFits(group[g].status, group[g].creator, member'[g])
      <4>1. CASE group[g].status = "PENDING_PAYMENT"
        <5>1. \A v \in Users : member'[g][v] = member[g][v]
          BY <1>3, <3>3, <4>1
        <5> QED
          BY <1>5, <3>1, <4>1, <5>1 DEF StatusFits
      <4>2. CASE group[g].status = "OPEN"
        <5>1. ASSUME NEW v \in Users
              PROVE  member'[g][v].status = "FULFILLED" <=> v = group[g].creator
          <6>1. CASE Leaves(g, v)
            BY <1>3, <3>4, <4>2, <6>1
          <6>2. CASE ~Leaves(g, v)
            BY <1>3, <3>1, <4>2, <6>2 DEF StatusFits
          <6> QED
            BY <6>1, <6>2
        <5> QED
          BY <1>5, <3>1, <4>2, <5>1 DEF StatusFits
      <4>3. CASE group[g].status \notin {"PENDING_PAYMENT", "OPEN"}
        BY <1>5, <3>1, <4>3 DEF StatusFits
      <4> QED
        BY <4>1, <4>2, <4>3
    <3> QED
      BY <2>0, <2>3, <3>2, <3>5 DEF GroupFits
  <2> QED
    BY <2>1, <2>2, <2>3
<1> HIDE DEF Leaves, ends
<1>7. group' \in [Groups -> GroupRows]
  BY <1>1, <1>6
<1>8. AttemptsKept(attempt, attempt')
  <2>1. attempt' = [a \in DOMAIN attempt |->
          IF attempt[a].user = u /\ Unpaid(a)
          THEN [attempt[a] EXCEPT !.status = "CLOSED"] ELSE attempt[a]]
    BY <1>1 DEF CloseAttemptsOf
  <2>2. ASSUME NEW a \in DOMAIN attempt
        PROVE  /\ attempt'[a] \in AttemptRows
               /\ attempt'[a].user = attempt[a].user /\ attempt'[a].group = attempt[a].group
               /\ attempt'[a].status = "APPLIED" <=> attempt[a].status = "APPLIED"
    <3>1. attempt[a] \in AttemptRows
      BY <1>0
    <3>2. CASE attempt[a].user = u /\ Unpaid(a)
      BY <2>1, <3>1, <3>2 DEF AttemptRows, AttemptStates, Unpaid
    <3>3. CASE ~(attempt[a].user = u /\ Unpaid(a))
      BY <2>1, <3>1, <3>3
    <3> QED
      BY <3>2, <3>3
  <2>3. Len(attempt) \in Nat /\ DOMAIN attempt = 1 .. Len(attempt)
    BY <1>0
  <2>4. attempt' \in [1 .. Len(attempt) -> AttemptRows]
    BY <2>1, <2>2, <2>3
  <2>5. attempt' \in Seq(AttemptRows) /\ Len(attempt') = Len(attempt)
    BY <2>3, <2>4
  <2> QED
    BY <2>2, <2>5 DEF AttemptsKept
<1>9. Paid(member', attempt')
  <2>1. OrdersKept(Rows.member, member') /\ AttemptsKept(Rows.attempt, attempt')
    BY <1>4, <1>8, RowsAre
  <2> QED
    BY <1>0, <1>4, <2>1, PaidKept
<1>10. [group |-> group', member |-> member', attempt |-> attempt'] \in AllRows
  BY <1>4, <1>7, <1>8 DEF AllRows, AttemptsKept
<1>11. Good(Rows)'
  <2>1. Paid(member, attempt)'
    BY <1>1, <1>9 DEF Paid
  <2> QED
    BY <1>6, <1>10, <2>1 DEF Good, Rows, Fits
<1> QED
  BY <1>1, <1>6, <1>11 DEF Inv

-----------------------------------------------------------------------------
(* Before the first group there is nothing to keep.                        *)
LEMMA InvInit == Init => Inv
<1> SUFFICES ASSUME Init PROVE Inv
  OBVIOUS
<1>1. /\ group = [g \in Groups |-> NoGroup] /\ attempt = <<>> /\ listed = {}
      /\ member = [g \in Groups |-> [u \in Users |-> NoMember]]
  BY DEF Init
<1>2. /\ group \in [Groups -> GroupRows] /\ member \in [Groups -> [Users -> MemberRows]]
      /\ attempt \in Seq(AttemptRows) /\ Len(attempt) = 0 /\ DOMAIN attempt = {}
  BY <1>1 DEF GroupRows, MemberRows
<1>3. Rows \in AllRows
  BY <1>2 DEF AllRows, Rows
<1>4. Fits(Rows)
  BY <1>1, RowsAre DEF Fits, GroupFits
<1>5. Paid(member, attempt)
  BY <1>1, <1>2, GroupAssumption DEF Paid
<1> QED
  BY <1>1, <1>3, <1>4, <1>5, RowsAre DEF Inv, Good

(* A step that leaves the rows alone.                                      *)
LEMMA GoodKept ==
    ASSUME Good(Rows), UNCHANGED <<group, member, attempt, overtaken>>
    PROVE  Good(Rows)'
<1>1. Fits(Rows) /\ Paid(member, attempt) /\ Rows \in AllRows
  BY RowsAre DEF Good
<1>2. Paid(member, attempt)'
  BY <1>1 DEF Paid
<1> QED
  BY <1>1, <1>2 DEF Good, Rows, Fits

(* Every step keeps the invariant.                                         *)
LEMMA InvStep == Inv /\ [Next]_vars => Inv'
<1> SUFFICES ASSUME Inv, [Next]_vars PROVE Inv'
  OBVIOUS
<1>1. ASSUME NEW u \in Users, NEW g \in Groups, CreateByEpay(u, g) \/ JoinByEpay(u, g)
      PROVE  Inv'
  BY <1>1, EpayStep
<1>2. ASSUME NEW u \in Users, NEW g \in Groups, CreateByWallet(u, g) \/ JoinByWallet(u, g)
      PROVE  Inv'
  BY <1>2, WalletStep
<1>3. ASSUME NEW u \in Users, OtherCheckout(u) PROVE Inv'
  BY <1>3, OtherStep
<1>4. ASSUME NEW u \in Users, DeleteAccount(u) PROVE Inv'
  BY <1>4, DeleteStep
<1>5. ASSUME NEW a \in DOMAIN attempt, CloseAttempt(a) PROVE Inv'
  BY <1>5, CloseStep
<1>6. ASSUME NEW a \in DOMAIN attempt, Settle(a) \/ RecordRejection(a) PROVE Inv'
  BY <1>6, SettleStep, RecordStep
<1>7. ASSUME NEW a \in DOMAIN attempt, SettleFails(a) PROVE Inv'
  BY <1>7, FailStep
<1>8. ASSUME NEW g \in Groups, GroupDue(g) PROVE Inv'
  BY <1>8, DueStep
<1>9. ASSUME NEW g \in Groups, ExpireListed(g) PROVE Inv'
  BY <1>9, ExpireStep
<1>10. ASSUME NEW g \in Groups, Cancel(g) PROVE Inv'
  BY <1>10, CancelStep
<1>11. CASE ListDue
  <2>1. /\ group' = group /\ member' = member /\ attempt' = attempt
        /\ listed' = {g \in Groups : group[g].status = "OPEN" /\ group[g].due}
        /\ overtaken' = overtaken
    BY <1>11 DEF ListDue, DueGroups, recording
  <2>2. listed' \subseteq {g \in Groups : group'[g] # NoGroup}
    BY <2>1 DEF NoGroup
  <2> QED
    BY <2>1, <2>2, GoodKept DEF Inv
<1>12. CASE UNCHANGED <<group, member, attempt, listed, overtaken>>
  BY <1>12, GoodKept DEF Inv
<1> QED
  BY <1>1, <1>2, <1>3, <1>4, <1>5, <1>6, <1>7, <1>8, <1>9, <1>10, <1>11, <1>12
  DEF Next, SettleRejected, vars, recording

(* The rows are good in every state.                                       *)
THEOREM Invariance == Spec => []Inv
<1> QED
  BY InvInit, InvStep, PTL DEF Spec

(* A rebate and a bonus go to the creator and one other member together,   *)
(* in a group that has succeeded, or to nobody, whatever the payments,     *)
(* expiries, cancellations and deleted accounts around it                  *)
(* (advanceBalanceRebateGroup, fulfillBalanceRebateGroup).                 *)
THEOREM RewardedTogether == Spec => []RewardsTogether
<1>1. Inv => RewardsTogether
  <2> SUFFICES ASSUME Inv, NEW g \in Groups
               PROVE  \/ Rewarded(member[g]) = {} /\ group[g].status # "SUCCEEDED"
                      \/ /\ group[g].status = "SUCCEEDED"
                         /\ Cardinality(Rewarded(member[g])) = GroupSize
                         /\ group[g].creator \in Rewarded(member[g])
    BY DEF RewardsTogether, Rewarded
  <2>1. GroupFits(group[g], member[g])
    BY RowsAre DEF Inv, Good, Fits
  <2>2. CASE group[g] = NoGroup
    BY <2>1, <2>2 DEF GroupFits, Rewarded, NoGroup
  <2>3. CASE group[g] # NoGroup
    BY <2>1, <2>3 DEF GroupFits, StatusFits
  <2> QED
    BY <2>2, <2>3
<1> QED
  BY <1>1, Invariance, PTL

(* An attempt is applied just when it is its member's order: the first     *)
(* valid payment of a member counts and every other goes back              *)
(* (settleVerifiedPayment), except where recordSettlementFailure, which is *)
(* not serializable, writes its refund over another handler's settlement.  *)
THEOREM OrdersPaidOnce == Spec => []PaidOnce
<1>1. Inv => PaidOnce
  BY RowsAre DEF Inv, Good, Paid, PaidOnce
<1> QED
  BY <1>1, Invariance, PTL
=============================================================================
