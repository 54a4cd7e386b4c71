-------------------------- MODULE PlanTimelineProofs --------------------------
(***************************************************************************)
(* For any plans, any length of an offer and any number of orders: the two *)
(* records of a plan stay in step, two plans never run at once unless a    *)
(* stale payment was fulfilled, and no purchase cuts a plan short that it  *)
(* was not asked to.                                                       *)
(*                                                                         *)
(* None is inductive.  A grant that comes back to life must have ended by  *)
(* now (Ended), or it would keep an old start; that a renewal may end      *)
(* every other grant rests on the subscriptions having the starts of their *)
(* grants, which are disjoint (Regular); and an early start gives what an  *)
(* offer lasts, so no reservation may be longer (Brief).                   *)
(***************************************************************************)
EXTENDS PlanTimeline, WellFoundedInduction, TLAPS

PlanRows == [plan : Plans, from : Int, to : Int, status : {"ACTIVE", "CANCELED"}]
Bills == [Sources -> Int]
Modes == {"initial", "renewal", "scheduled_switch", "immediate_switch"}
Prints == [row : Nat, grant : PlanRows, bill : Bills]

Payments ==
    {None} \cup
    [step : {"quoted", "pending", "late"}, mode : Modes, plan : Plans, at : Int] \cup
    [step : {"quoted", "pending", "late"}, mode : {"upgrade"}, plan : Plans, at : Prints]

RowTypes ==
    /\ sub \in Seq(PlanRows) /\ grant \in Seq(PlanRows) /\ bill \in Seq(Bills)
    /\ Len(grant) = Len(sub) /\ Len(bill) = Len(sub)

Types ==
    /\ now \in Int /\ RowTypes /\ payment \in Payments
    /\ stale \in BOOLEAN /\ irregular \in BOOLEAN

(* A plan that gives access has an open subscription.                      *)
Agreed ==
    \A r \in Open(grant) :
        r \in Open(sub) /\ sub[r].plan = grant[r].plan /\ sub[r].to = grant[r].to

(* A grant that was ended lies in the past.                                *)
Ended == \A r \in DOMAIN grant : grant[r].status # "ACTIVE" => grant[r].to <= now

Disjoint ==
    \A g, h \in DOMAIN grant :
        g # h /\ grant[g].status = "ACTIVE" /\ grant[h].status = "ACTIVE" =>
            grant[g].to <= grant[h].from \/ grant[h].to <= grant[g].from

(* An open subscription gives access, from the same moment.                *)
Regular == \A r \in Open(sub) : r \in Open(grant) /\ sub[r].from = grant[r].from

(* A reservation is for one offer, or less.                                *)
Brief ==
    \A r \in DOMAIN grant :
        grant[r].status = "ACTIVE" /\ grant[r].from > now => grant[r].to <= grant[r].from + Term

Inv ==
    /\ Types /\ Agreed /\ Ended
    /\ stale \/ Disjoint
    /\ irregular \/ Regular
    /\ irregular \/ Brief
    /\ stale => irregular

-----------------------------------------------------------------------------
(* A set of naturals that is not empty has a least element.                *)
LEMMA Least ==
    ASSUME NEW T, T \subseteq Nat, T # {}
    PROVE  \E x \in T : \A y \in T : ~(y < x)
<1> DEFINE R == OpToRel(<, Nat)
<1>1. IsWellFoundedOn(R, Nat)
  BY NatLessThanWellFounded
<1>2. \A x, y \in Nat : y < x => <<y, x>> \in R
  BY DEF OpToRel
<1> HIDE DEF R
<1>3. PICK x \in T : \A y \in T : ~(<<y, x>> \in R)
  BY <1>1, WFMin
<1> QED
  BY <1>2, <1>3

(* The rows of a sequence of plans.                                        *)
LEMMA RowsOf ==
    ASSUME NEW s \in Seq(PlanRows)
    PROVE  /\ Len(s) \in Nat /\ DOMAIN s = 1 .. Len(s)
           /\ \A r \in DOMAIN s :
                /\ s[r] \in PlanRows /\ s[r].plan \in Plans
                /\ s[r].from \in Int /\ s[r].to \in Int /\ s[r].status \in {"ACTIVE", "CANCELED"}
<1>1. Len(s) \in Nat /\ DOMAIN s = 1 .. Len(s) /\ \A r \in DOMAIN s : s[r] \in PlanRows
  OBVIOUS
<1>2. \A m \in PlanRows : /\ m.plan \in Plans /\ m.from \in Int /\ m.to \in Int
                         /\ m.status \in {"ACTIVE", "CANCELED"}
  BY DEF PlanRows
<1> QED
  BY <1>1, <1>2

(* The order in which the subscriptions are looked through.                *)
Before(s, q, r) == s[q].to < s[r].to \/ (s[q].to = s[r].to /\ q <= r)

(* A choice of subscriptions has a last one, by its end and its number.    *)
LEMMA LastExists ==
    ASSUME NEW s \in Seq(PlanRows), NEW S, S \subseteq DOMAIN s, S # {}
    PROVE  \E r \in S : \A q \in S : Before(s, q, r)
<1> DEFINE Good(n) == \A U \in SUBSET (1 .. n) : U # {} => \E r \in U : \A q \in U : Before(s, q, r)
           T == {n \in Nat : n <= Len(s) /\ ~Good(n)}
<1>1. Len(s) \in Nat /\ DOMAIN s = 1 .. Len(s) /\ \A r \in DOMAIN s : s[r].to \in Int
  BY RowsOf
<1>2. SUFFICES T = {}
  <2>1. Good(Len(s))
    BY <1>1, <1>2
  <2> QED
    BY <1>1, <2>1
<1>3. SUFFICES ASSUME T # {} PROVE FALSE
  OBVIOUS
<1>4. PICK n \in T : \A m \in T : ~(m < n)
  <2>1. T \subseteq Nat
    OBVIOUS
  <2> HIDE DEF T
  <2> QED
    BY <1>3, <2>1, Least
<1>5. n \in Nat /\ n <= Len(s) /\ ~Good(n)
  OBVIOUS
<1>6. PICK U \in SUBSET (1 .. n) : U # {} /\ \A r \in U : \E q \in U : ~Before(s, q, r)
  BY <1>5
<1>7. n # 0
  <2>1. n = 0 => 1 .. n = {}
    BY <1>5
  <2> HIDE DEF T
  <2> QED
    BY <1>6, <2>1
<1>8. Good(n - 1)
  <2>1. n - 1 \in Nat /\ n - 1 < n /\ n - 1 <= Len(s)
    BY <1>1, <1>5, <1>7
  <2>2. n - 1 \notin T
    BY <1>4, <2>1
  <2> QED
    BY <2>1, <2>2
<1>9. n \in U
  <2>1. SUFFICES ASSUME n \notin U PROVE FALSE
    OBVIOUS
  <2>2. U \in SUBSET (1 .. n - 1)
    BY <1>5, <1>6, <2>1
  <2> QED
    BY <1>6, <1>8, <2>2
<1>10. U \subseteq DOMAIN s
  BY <1>1, <1>5, <1>6
<1>11. U \ {n} # {}
  BY <1>5, <1>6, <1>9 DEF Before
<1>12. PICK r \in U \ {n} : \A q \in U \ {n} : Before(s, q, r)
  <2>1. U \ {n} \in SUBSET (1 .. n - 1)
    BY <1>5, <1>6
  <2> QED
    BY <1>8, <1>11, <2>1
<1>13. s[n].to \in Int /\ s[r].to \in Int /\ r \in Int /\ n \in Int /\ r <= n
  <2>1. r \in U /\ r \in 1 .. n /\ r \in DOMAIN s /\ n \in DOMAIN s
    BY <1>6, <1>9, <1>10, <1>12
  <2> HIDE DEF T
  <2> QED
    BY <1>1, <1>5, <2>1
<1>14. CASE s[n].to >= s[r].to
  <2>1. ASSUME NEW q \in U PROVE Before(s, q, n)
    <3>1. s[q].to \in Int /\ q \in Int /\ q <= n
      BY <1>1, <1>5, <1>6, <1>10
    <3>2. q = n \/ Before(s, q, r)
      BY <1>12
    <3> QED
      BY <1>13, <1>14, <3>1, <3>2 DEF Before
  <2> QED
    BY <1>6, <1>9, <2>1
<1>15. CASE s[n].to < s[r].to
  BY <1>6, <1>12, <1>15 DEF Before
<1> QED
  BY <1>13, <1>14, <1>15

(* Where a plan has started, Current is one of them, and the last to end.  *)
LEMMA CurrentIs ==
    ASSUME Types
    PROVE  /\ Current = 0 <=> Started(sub) = {}
           /\ Current # 0 =>
                /\ Current \in Started(sub)
                /\ \A q \in Started(sub) : sub[q].to <= sub[Current].to
<1>1. sub \in Seq(PlanRows) /\ DOMAIN sub = 1 .. Len(sub) /\ \A r \in DOMAIN sub : sub[r].to \in Int
  BY RowsOf DEF Types, RowTypes
<1>2. Started(sub) \subseteq DOMAIN sub /\ 0 \notin Started(sub)
  BY <1>1 DEF Started, Open
<1>3. CASE Started(sub) = {}
  BY <1>3 DEF Current
<1>4. CASE Started(sub) # {}
  <2>1. PICK r \in Started(sub) : \A q \in Started(sub) : Before(sub, q, r)
    BY <1>1, <1>2, <1>4, LastExists
  <2>2. r \in LastToEnd(Started(sub))
    BY <1>1, <1>2, <2>1 DEF LastToEnd, Before
  <2>3. ASSUME NEW q \in LastToEnd(Started(sub)) PROVE q <= r
    <3>1. q \in Started(sub) /\ sub[r].to <= sub[q].to /\ sub[q].to \in Int /\ sub[r].to \in Int
      BY <1>1, <1>2, <2>1 DEF LastToEnd
    <3> QED
      BY <2>1, <3>1 DEF Before
  <2>4. Current \in LastToEnd(Started(sub))
    BY <1>4, <2>2, <2>3 DEF Current
  <2> QED
    BY <1>2, <2>4 DEF LastToEnd
<1> QED
  BY <1>3, <1>4

-----------------------------------------------------------------------------
(* A step gave row r an order.  The other rows were kept, or their grants  *)
(* ended.                                                                  *)
Placed(r, keep) ==
    /\ RowTypes' /\ DOMAIN sub' = DOMAIN sub \cup {r}
    /\ sub'[r].status = "ACTIVE" /\ grant'[r].status = "ACTIVE"
    /\ sub'[r].plan = grant'[r].plan /\ sub'[r].to = grant'[r].to
    /\ \A q \in DOMAIN grant \ {r} :
        IF keep THEN grant'[q] = grant[q] /\ sub'[q] = sub[q]
        ELSE grant'[q].status # "ACTIVE" /\ grant'[q].to <= now

(* What is then left to show.                                              *)
LEMMA PlacedKeeps ==
    ASSUME Types, Agreed, Ended, NEW r, NEW keep \in BOOLEAN, Placed(r, keep), now' = now
    PROVE  /\ Agreed' /\ Ended'
           /\ ~keep => Disjoint'
           /\ Disjoint /\ (\A q \in DOMAIN grant \ {r} :
                              grant[q].status = "ACTIVE" => grant[q].to <= grant'[r].from)
                 => Disjoint'
<1>1. /\ now \in Int /\ DOMAIN grant = DOMAIN sub /\ DOMAIN grant' = DOMAIN grant \cup {r}
      /\ DOMAIN sub' = DOMAIN sub \cup {r}
  BY RowsOf DEF Types, RowTypes, Placed
<1>2. \A q \in DOMAIN grant : grant[q].to \in Int /\ grant[q].from \in Int
  BY RowsOf DEF Types, RowTypes
<1>3. \A q \in DOMAIN grant' : grant'[q].to \in Int /\ grant'[q].from \in Int
  BY RowsOf DEF Placed, RowTypes
<1>4. ASSUME NEW q \in DOMAIN grant', grant'[q].status = "ACTIVE", grant'[q].to > now
      PROVE  /\ q \in DOMAIN sub' /\ sub'[q].status = "ACTIVE" /\ sub'[q].to > now
             /\ sub'[q].plan = grant'[q].plan /\ sub'[q].to = grant'[q].to
  <2>1. CASE q = r
    BY <1>1, <1>4, <2>1 DEF Placed
  <2>2. CASE q # r
    <3>1. q \in DOMAIN grant \ {r} /\ grant'[q] = grant[q] /\ sub'[q] = sub[q]
      BY <1>1, <1>4, <2>2 DEF Placed
    <3> QED
      BY <1>1, <1>4, <3>1 DEF Agreed, Open
  <2> QED
    BY <2>1, <2>2
<1>5. Agreed'
  BY <1>4 DEF Agreed, Open
<1>6. Ended'
  <2>1. ASSUME NEW q \in DOMAIN grant', grant'[q].status # "ACTIVE" PROVE grant'[q].to <= now
    <3>1. q \in DOMAIN grant \ {r}
      BY <1>1, <2>1 DEF Placed
    <3> QED
      BY <2>1, <3>1 DEF Placed, Ended
  <2> QED
    BY <2>1 DEF Ended
<1>7. ASSUME ~keep PROVE Disjoint'
  <2>1. \A q \in DOMAIN grant' : grant'[q].status = "ACTIVE" => q = r
    BY <1>1, <1>7 DEF Placed
  <2> QED
    BY <2>1 DEF Disjoint
<1>8. ASSUME keep, Disjoint,
             \A q \in DOMAIN grant \ {r} :
                grant[q].status = "ACTIVE" => grant[q].to <= grant'[r].from
      PROVE  Disjoint'
  <2>1. ASSUME NEW g \in DOMAIN grant', NEW h \in DOMAIN grant', g # h,
               grant'[g].status = "ACTIVE", grant'[h].status = "ACTIVE"
        PROVE  grant'[g].to <= grant'[h].from \/ grant'[h].to <= grant'[g].from
    <3>1. g = r \/ (g \in DOMAIN grant \ {r} /\ grant'[g] = grant[g])
      BY <1>1, <1>8 DEF Placed
    <3>2. h = r \/ (h \in DOMAIN grant \ {r} /\ grant'[h] = grant[h])
      BY <1>1, <1>8 DEF Placed
    <3> QED
      BY <1>8, <2>1, <3>1, <3>2 DEF Disjoint
  <2> QED
    BY <2>1 DEF Disjoint
<1> QED
  BY <1>5, <1>6, <1>7, <1>8

(* grantFromOrder.                                                         *)
LEMMA GrantEffect ==
    ASSUME Types, NEW r \in 1 .. Len(sub) + 1, NEW p \in Plans, NEW from \in Int, NEW to \in Int,
           NEW preserve \in BOOLEAN, NEW replace \in BOOLEAN,
           GrantFromOrder(r, p, from, to, preserve, replace)
    PROVE  /\ grant' \in Seq(PlanRows)
           /\ Len(grant') = IF r = Len(sub) + 1 THEN r ELSE Len(sub)
           /\ grant'[r].plan = p /\ grant'[r].to = to /\ grant'[r].status = "ACTIVE"
           /\ grant'[r].from =
                IF r \notin DOMAIN grant \/ grant[r].plan # p \/ replace \/ grant[r].to <= from
                THEN from ELSE grant[r].from
           /\ \A q \in DOMAIN grant \ {r} :
                IF grant[q].status = "ACTIVE" /\ ~preserve
                THEN grant'[q].status = "CANCELED" /\ grant'[q].to = from
                ELSE grant'[q] = grant[q]
<1>1. /\ grant \in Seq(PlanRows) /\ Len(grant) = Len(sub) /\ Len(sub) \in Nat
      /\ DOMAIN grant = 1 .. Len(sub)
      /\ \A q \in DOMAIN grant : grant[q] \in PlanRows /\ grant[q].from \in Int
  BY RowsOf DEF Types, RowTypes
<1> DEFINE End(q) == [grant[q] EXCEPT !.status = "CANCELED", !.to = from]
           Other(q) == IF q # r /\ grant[q].status = "ACTIVE" /\ ~preserve THEN End(q) ELSE grant[q]
           others == [q \in DOMAIN grant |-> Other(q)]
           start == IF grant[r].plan # p \/ replace \/ grant[r].to <= from THEN from ELSE grant[r].from
<1>2. ASSUME NEW q \in DOMAIN grant
      PROVE  End(q) \in PlanRows /\ End(q).status = "CANCELED" /\ End(q).to = from
  BY <1>1, <1>2 DEF PlanRows
<1> HIDE DEF End
<1>3. others \in [1 .. Len(sub) -> PlanRows] /\ \A q \in DOMAIN grant : others[q] = Other(q)
  BY <1>1, <1>2
<1>4. others \in Seq(PlanRows) /\ Len(others) = Len(sub) /\ DOMAIN others = 1 .. Len(sub)
  <2> HIDE DEF others
  <2> QED
    BY <1>1, <1>3
<1>5. ASSUME NEW f \in Int
      PROVE  /\ Row(p, f, to) \in PlanRows /\ Row(p, f, to).plan = p /\ Row(p, f, to).from = f
             /\ Row(p, f, to).to = to /\ Row(p, f, to).status = "ACTIVE"
  BY DEF Row, PlanRows
<1>6. CASE r \in DOMAIN grant
  <2>1. grant' = [others EXCEPT ![r] = Row(p, start, to)]
    <3>1. others[r].from = grant[r].from
      BY <1>1, <1>3, <1>6
    <3>2. grant' = [others EXCEPT ![r] = Row(p, IF grant[r].plan # p \/ replace \/ grant[r].to <= from
                                                THEN from ELSE others[r].from, to)]
      BY <1>6 DEF GrantFromOrder, End
    <3> QED
      BY <3>1, <3>2
  <2>2. start \in Int
    BY <1>1, <1>6
  <2>3. start = IF r \notin DOMAIN grant \/ grant[r].plan # p \/ replace \/ grant[r].to <= from
                THEN from ELSE grant[r].from
    BY <1>6
  <2>4. Row(p, start, to) \in PlanRows
    BY <1>5, <2>2
  <2>5. r # Len(sub) + 1
    BY <1>1, <1>6
  <2> HIDE DEF start, others
  <2>6. /\ grant' \in Seq(PlanRows) /\ Len(grant') = Len(sub) /\ grant'[r] = Row(p, start, to)
        /\ \A q \in DOMAIN grant \ {r} : grant'[q] = others[q]
    BY <1>1, <1>4, <1>6, <2>1, <2>4
  <2> QED
    BY <1>2, <1>3, <1>5, <2>2, <2>3, <2>5, <2>6
<1>7. CASE r \notin DOMAIN grant
  <2>1. r = Len(sub) + 1
    BY <1>1, <1>7
  <2>2. grant' = Append(others, Row(p, from, to))
    BY <1>7 DEF GrantFromOrder, End
  <2>3. Row(p, from, to) \in PlanRows
    BY <1>5
  <2> HIDE DEF others
  <2>4. /\ grant' \in Seq(PlanRows) /\ Len(grant') = r /\ grant'[r] = Row(p, from, to)
        /\ \A q \in DOMAIN grant \ {r} : grant'[q] = others[q]
    BY <1>1, <1>4, <2>1, <2>2, <2>3
  <2> QED
    BY <1>2, <1>3, <1>5, <1>7, <2>1, <2>4
<1> QED
  BY <1>6, <1>7

(* The orders of a row.                                                    *)
LEMMA OrderEffect ==
    ASSUME Types, NEW r \in 1 .. Len(sub) + 1, NEW source \in Sources, AddOrder(r, source)
    PROVE  bill' \in Seq(Bills) /\ Len(bill') = IF r = Len(sub) + 1 THEN r ELSE Len(sub)
<1>1. bill \in Seq(Bills) /\ Len(bill) = Len(sub) /\ Len(sub) \in Nat /\ DOMAIN bill = 1 .. Len(sub)
  BY DEF Types, RowTypes
<1>2. CASE r \in DOMAIN bill
  <2>1. bill[r] \in Bills
    BY <1>1, <1>2
  <2>2. [bill[r] EXCEPT ![source] = bill[r][source] + 1] \in Bills
    BY <2>1 DEF Bills
  <2>3. bill' = [bill EXCEPT ![r] = [bill[r] EXCEPT ![source] = bill[r][source] + 1]]
    BY <1>2 DEF AddOrder
  <2> QED
    BY <1>1, <1>2, <2>2, <2>3
<1>3. CASE r \notin DOMAIN bill
  <2>1. [NoOrders EXCEPT ![source] = 1] \in Bills
    BY DEF NoOrders, Bills
  <2>2. bill' = Append(bill, [NoOrders EXCEPT ![source] = 1]) /\ r = Len(sub) + 1
    BY <1>1, <1>3 DEF AddOrder
  <2> QED
    BY <1>1, <2>1, <2>2
<1> QED
  BY <1>2, <1>3

(* What a step does to the rest of the state.                              *)
Flags ==
    /\ now' = now /\ payment' \in Payments /\ stale' \in BOOLEAN /\ irregular' \in BOOLEAN
    /\ (stale => stale') /\ (irregular => irregular') /\ (stale' => irregular')

(* A row was placed where it overlaps no plan that was kept, and where no  *)
(* subscription was left without its grant.                                *)
LEMMA PlacedInv ==
    ASSUME Inv, NEW r, NEW keep \in BOOLEAN, Placed(r, keep), Flags,
           ~stale' => \/ ~keep
                      \/ \A q \in DOMAIN grant \ {r} :
                            grant[q].status = "ACTIVE" => grant[q].to <= grant'[r].from,
           ~irregular' =>
              /\ sub'[r].from = grant'[r].from
              /\ grant'[r].from <= now \/ grant'[r].to <= grant'[r].from + Term
              /\ \/ keep
                 \/ \A q \in DOMAIN sub \ {r} : ~(sub'[q].status = "ACTIVE" /\ sub'[q].to > now)
    PROVE  Inv'
<1>1. /\ Types /\ Agreed /\ Ended /\ (stale \/ Disjoint) /\ (irregular \/ Regular)
      /\ (irregular \/ Brief)
  BY DEF Inv
<1>2. now' = now /\ (stale => stale') /\ (irregular => irregular') /\ (stale' => irregular')
  BY DEF Flags
<1>3. /\ Agreed' /\ Ended' /\ (~keep => Disjoint')
      /\ (Disjoint /\ (\A q \in DOMAIN grant \ {r} :
                         grant[q].status = "ACTIVE" => grant[q].to <= grant'[r].from) => Disjoint')
  BY <1>1, <1>2, PlacedKeeps
<1>4. stale' \/ Disjoint'
  BY <1>1, <1>2, <1>3
<1>5. ASSUME ~irregular' PROVE Regular'
  <2>1. /\ DOMAIN sub' = DOMAIN sub \cup {r} /\ DOMAIN grant = DOMAIN sub
        /\ DOMAIN grant' = DOMAIN sub'
    BY <1>1, RowsOf DEF Types, RowTypes, Placed
  <2>2. ASSUME NEW q \in DOMAIN sub', sub'[q].status = "ACTIVE", sub'[q].to > now
        PROVE  /\ grant'[q].status = "ACTIVE" /\ grant'[q].to > now
               /\ sub'[q].from = grant'[q].from
    <3>1. CASE q = r
      BY <1>5, <2>2, <3>1 DEF Placed
    <3>2. CASE q # r
      <4>1. q \in DOMAIN grant \ {r} /\ grant'[q] = grant[q] /\ sub'[q] = sub[q]
        BY <1>5, <2>1, <2>2, <3>2 DEF Placed
      <4>2. Regular
        BY <1>1, <1>2, <1>5
      <4> QED
        BY <2>1, <2>2, <4>1, <4>2 DEF Regular, Open
    <3> QED
      BY <3>1, <3>2
  <2> QED
    BY <1>2, <2>1, <2>2 DEF Regular, Open
<1>6. Types'
  BY <1>1 DEF Types, Flags, Placed
<1>7. ASSUME ~irregular' PROVE Brief'
  <2>1. DOMAIN grant' = DOMAIN grant \cup {r} /\ now \in Int
    BY <1>1, RowsOf DEF Types, RowTypes, Placed
  <2>2. ASSUME NEW q \in DOMAIN grant', grant'[q].status = "ACTIVE", grant'[q].from > now
        PROVE  grant'[q].to <= grant'[q].from + Term
    <3>1. CASE q = r
      <4>1. grant'[r].from \in Int
        BY <2>2, <3>1, RowsOf DEF Placed, RowTypes
      <4> QED
        BY <1>7, <2>1, <2>2, <3>1, <4>1
    <3>2. CASE q # r
      <4>1. q \in DOMAIN grant \ {r} /\ grant'[q] = grant[q]
        BY <2>1, <2>2, <3>2 DEF Placed
      <4> QED
        BY <1>1, <1>2, <1>7, <2>2, <4>1 DEF Brief
    <3> QED
      BY <3>1, <3>2
  <2> QED
    BY <1>2, <2>2 DEF Brief
<1> QED
  BY <1>2, <1>3, <1>4, <1>5, <1>6, <1>7 DEF Inv

(* While all is regular and nothing reserved, there is one plan.           *)
LEMMA OneOpen ==
    ASSUME Inv, ~irregular, Reserved(sub) = {}, NEW r \in Open(sub), NEW q \in Open(sub)
    PROVE  q = r
<1>1. Disjoint /\ Regular /\ Types
  BY DEF Inv
<1>2. /\ now \in Int /\ \A x \in DOMAIN grant : grant[x].to \in Int /\ grant[x].from \in Int
  BY <1>1, RowsOf DEF Types, RowTypes
<1>3. sub[r].from <= now /\ sub[q].from <= now
  BY DEF Reserved, Started
<1>4. /\ r \in DOMAIN grant /\ grant[r].status = "ACTIVE" /\ grant[r].to > now /\ grant[r].from <= now
      /\ q \in DOMAIN grant /\ grant[q].status = "ACTIVE" /\ grant[q].to > now /\ grant[q].from <= now
  BY <1>1, <1>3 DEF Regular, Open
<1>5. ~(grant[r].to <= grant[q].from) /\ ~(grant[q].to <= grant[r].from)
  BY <1>2, <1>4
<1> QED
  BY <1>1, <1>4, <1>5 DEF Disjoint

-----------------------------------------------------------------------------
Renews(p, source) == Current # 0 /\ sub[Current].plan = p /\ source # "ADMIN"

(* A purchase of the plan that runs extends it.                            *)
LEMMA RenewEffect ==
    ASSUME Inv, NEW p \in Plans, NEW mode \in Modes, NEW at \in Int, NEW source \in Sources,
           Purchase(p, mode, at, source), Renews(p, source), NEW r, r = Current
    PROVE  /\ r \in Started(sub) /\ sub[r].plan = p /\ Placed(r, mode = "scheduled_switch")
           /\ sub'[r].from = sub[r].from /\ \A q \in DOMAIN sub \ {r} : sub'[q] = sub[q]
           /\ grant'[r].to = sub[r].to + Term
           /\ grant'[r].from = IF grant[r].plan # p \/ grant[r].to <= now THEN now ELSE grant[r].from
<1> DEFINE keep == mode = "scheduled_switch"
<1>0. Types /\ Agreed /\ Ended
  BY DEF Inv
<1>1. r = Current /\ r \in Started(sub)
  BY <1>0, CurrentIs DEF Renews
<1>2. r \in DOMAIN sub /\ r \in Open(sub) /\ sub[r].plan = p /\ sub[r].status = "ACTIVE" /\ sub[r].to > now
  BY <1>0, <1>1, CurrentIs DEF Renews, Started, Open
<1>3. /\ now \in Int /\ sub \in Seq(PlanRows) /\ Len(sub) \in Nat /\ DOMAIN sub = 1 .. Len(sub)
      /\ DOMAIN grant = DOMAIN sub /\ sub[r] \in PlanRows /\ sub[r].to \in Int
  BY <1>0, <1>2, RowsOf DEF Types, RowTypes
<1>4. /\ sub' = [sub EXCEPT ![r] = [sub[r] EXCEPT !.to = sub[r].to + Term]]
      /\ GrantFromOrder(r, p, now, sub'[r].to, keep, FALSE) /\ AddOrder(r, source)
  BY <1>1 DEF Purchase, Renews
<1>5. PICK new : new = [sub[r] EXCEPT !.to = sub[r].to + Term]
  OBVIOUS
<1>6. /\ new \in PlanRows /\ new.plan = p /\ new.status = "ACTIVE" /\ new.from = sub[r].from
      /\ new.to \in Int
  <2>1. PICK x \in Int : x = sub[r].to + Term
    BY <1>3, TimelineAssumption
  <2>2. new = [sub[r] EXCEPT !.to = x]
    BY <1>5, <2>1
  <2> QED
    BY <1>2, <1>3, <2>2 DEF PlanRows
<1>7. /\ sub' \in Seq(PlanRows) /\ Len(sub') = Len(sub) /\ sub'[r] = new /\ DOMAIN sub' = DOMAIN sub
      /\ \A q \in DOMAIN sub \ {r} : sub'[q] = sub[q]
  BY <1>2, <1>3, <1>4, <1>5, <1>6
<1>8. keep \in BOOLEAN /\ r \in 1 .. Len(sub) + 1 /\ r # Len(sub) + 1
  BY <1>2, <1>3
<1> HIDE DEF keep
<1>9. PICK to \in Int : to = sub'[r].to
  BY <1>6, <1>7
<1>10. GrantFromOrder(r, p, now, to, keep, FALSE)
  BY <1>4, <1>9
<1>11. /\ grant' \in Seq(PlanRows) /\ Len(grant') = Len(sub)
       /\ grant'[r].plan = p /\ grant'[r].to = to /\ grant'[r].status = "ACTIVE"
       /\ grant'[r].from = IF r \notin DOMAIN grant \/ grant[r].plan # p \/ FALSE \/ grant[r].to <= now
                           THEN now ELSE grant[r].from
       /\ \A q \in DOMAIN grant \ {r} :
            IF grant[q].status = "ACTIVE" /\ ~keep
            THEN grant'[q].status = "CANCELED" /\ grant'[q].to = now
            ELSE grant'[q] = grant[q]
  <2>1. PICK k \in BOOLEAN, no \in BOOLEAN : k = keep /\ no = FALSE
    BY <1>8
  <2>2. GrantFromOrder(r, p, now, to, k, no)
    BY <1>10, <2>1
  <2> QED
    BY <1>0, <1>3, <1>8, <2>1, <2>2, GrantEffect
<1>12. bill' \in Seq(Bills) /\ Len(bill') = Len(sub)
  BY <1>0, <1>4, <1>8, OrderEffect
<1>13. Placed(r, keep)
  <2>1. ASSUME NEW q \in DOMAIN grant \ {r}
        PROVE  IF keep THEN grant'[q] = grant[q] /\ sub'[q] = sub[q]
               ELSE grant'[q].status # "ACTIVE" /\ grant'[q].to <= now
    BY <1>0, <1>3, <1>7, <1>8, <1>11 DEF Ended
  <2>2. RowTypes'
    BY <1>7, <1>11, <1>12 DEF RowTypes
  <2> QED
    BY <1>2, <1>6, <1>7, <1>9, <1>11, <2>1, <2>2 DEF Placed
<1>14. r \in DOMAIN grant
  BY <1>2, <1>3
<1>15. grant'[r].to = sub[r].to + Term
  BY <1>2, <1>3, <1>4, <1>5, <1>7, <1>9, <1>11
<1> QED
  BY <1>1, <1>2, <1>6, <1>7, <1>11, <1>13, <1>14, <1>15 DEF keep

(* While nothing is reserved it ends no other plan.                        *)
LEMMA RenewStep ==
    ASSUME Inv, NEW p \in Plans, NEW mode \in Modes, NEW at \in Int, NEW source \in Sources,
           Purchase(p, mode, at, source), Flags, Renews(p, source),
           ~stale' => mode # "scheduled_switch",
           ~irregular' => MayBuy
    PROVE  Inv'
<1>1. PICK r : r = Current
  OBVIOUS
<1>2. /\ r \in Started(sub) /\ sub[r].plan = p /\ Placed(r, mode = "scheduled_switch")
      /\ sub'[r].from = sub[r].from /\ \A q \in DOMAIN sub \ {r} : sub'[q] = sub[q]
      /\ grant'[r].from = IF grant[r].plan # p \/ grant[r].to <= now THEN now ELSE grant[r].from
  BY <1>1, RenewEffect
<1>3. r \in Open(sub) /\ sub[r].from <= now /\ now \in Int
  BY <1>2 DEF Started, Inv, Types
<1>4. ASSUME ~irregular'
      PROVE  /\ sub'[r].from = grant'[r].from /\ grant'[r].from <= now
             /\ \A q \in DOMAIN sub \ {r} : ~(sub'[q].status = "ACTIVE" /\ sub'[q].to > now)
  <2>1. ~irregular /\ Reserved(sub) = {} /\ Regular /\ Agreed
    BY <1>4 DEF Flags, MayBuy, Inv
  <2>2. \A q \in Open(sub) : q = r
    BY <1>3, <2>1, OneOpen
  <2>3. r \in Open(grant) /\ sub[r].from = grant[r].from
    BY <1>3, <2>1 DEF Regular
  <2>4. grant[r].plan = p /\ ~(grant[r].to <= now)
    <3>1. grant[r].to \in Int
      BY <2>3, RowsOf DEF Inv, Types, RowTypes, Open
    <3> QED
      BY <1>2, <1>3, <2>1, <2>3, <3>1 DEF Agreed, Open
  <2> QED
    BY <1>2, <1>3, <2>2, <2>3, <2>4 DEF Open
<1>5. PICK keep \in BOOLEAN : keep = (mode = "scheduled_switch")
  OBVIOUS
<1>6. Placed(r, keep)
  BY <1>2, <1>5
<1> QED
  BY <1>4, <1>5, <1>6, PlacedInv

(* A canceled subscription is not open.                                    *)
LEMMA CanceledEffect ==
    ASSUME Types
    PROVE  /\ Canceled(sub) \in Seq(PlanRows) /\ Len(Canceled(sub)) = Len(sub)
           /\ \A q \in DOMAIN sub : Canceled(sub)[q].status # "ACTIVE"
<1>1. /\ now \in Int /\ Len(sub) \in Nat /\ DOMAIN sub = 1 .. Len(sub)
      /\ \A q \in DOMAIN sub : sub[q] \in PlanRows /\ sub[q].to \in Int
  BY RowsOf DEF Types, RowTypes
<1> DEFINE Cut(q) == [sub[q] EXCEPT !.status = "CANCELED",
                                    !.to = IF sub[q].from <= now THEN now ELSE sub[q].to]
<1>2. ASSUME NEW q \in DOMAIN sub PROVE Cut(q) \in PlanRows /\ Cut(q).status = "CANCELED"
  BY <1>1, <1>2 DEF PlanRows
<1>3. Canceled(sub) = [q \in DOMAIN sub |-> IF sub[q].status # "ACTIVE" THEN sub[q] ELSE Cut(q)]
  BY DEF Canceled
<1> HIDE DEF Cut
<1>4. Canceled(sub) \in [1 .. Len(sub) -> PlanRows]
  BY <1>1, <1>2, <1>3
<1>5. Canceled(sub) \in Seq(PlanRows) /\ Len(Canceled(sub)) = Len(sub)
  BY <1>1, <1>4
<1> QED
  BY <1>2, <1>3, <1>5

(* Any other purchase is a new row.                                        *)
LEMMA NewRowEffect ==
    ASSUME Inv, NEW p \in Plans, NEW mode \in Modes, NEW at \in Int, NEW source \in Sources,
           Purchase(p, mode, at, source), ~Renews(p, source), NEW r, r = Len(sub) + 1,
           NEW keep \in BOOLEAN, keep <=> mode = "scheduled_switch",
           NEW from, from = IF Current # 0 /\ keep /\ at > now THEN at ELSE now
    PROVE  /\ r \notin DOMAIN grant /\ Placed(r, keep)
           /\ sub'[r].from = from /\ grant'[r].from = from /\ grant'[r].to = from + Term
           /\ \A q \in DOMAIN sub :
                sub'[q] = IF Current # 0 /\ ~keep THEN Canceled(sub)[q] ELSE sub[q]
<1> DEFINE waits == Current # 0 /\ keep
<1>0. Types /\ Agreed /\ Ended
  BY DEF Inv
<1>1. /\ now \in Int /\ sub \in Seq(PlanRows) /\ Len(sub) \in Nat /\ DOMAIN sub = 1 .. Len(sub)
      /\ DOMAIN grant = DOMAIN sub /\ \A q \in DOMAIN grant : grant[q].to \in Int
      /\ \A q \in DOMAIN sub : sub[q].to \in Int
  BY <1>0, RowsOf DEF Types, RowTypes
<1>2. from \in Int /\ from = IF waits /\ at > now THEN at ELSE now
  BY <1>1
<1>3. PICK base : base = IF Current # 0 /\ ~waits THEN Canceled(sub) ELSE sub
  OBVIOUS
<1>4. base \in Seq(PlanRows) /\ Len(base) = Len(sub)
  BY <1>0, <1>1, <1>3, CanceledEffect
<1>5. /\ sub' = Append(base, Row(p, from, from + Term))
      /\ GrantFromOrder(r, p, from, sub'[r].to, keep, FALSE) /\ AddOrder(r, source)
  <2>1. (mode = "scheduled_switch") = keep
    OBVIOUS
  <2> QED
    BY <1>2, <1>3, <2>1 DEF Purchase, Renews
<1>6. PICK to \in Int : to = from + Term
  BY <1>2, TimelineAssumption
<1>7. PICK new : new = Row(p, from, to)
  OBVIOUS
<1>8. /\ new \in PlanRows /\ new.plan = p /\ new.status = "ACTIVE" /\ new.from = from /\ new.to = to
  BY <1>7 DEF PlanRows, Row
<1>9. /\ sub' \in Seq(PlanRows) /\ Len(sub') = r /\ sub'[r] = new
      /\ DOMAIN sub' = DOMAIN sub \cup {r} /\ \A q \in DOMAIN sub : sub'[q] = base[q]
  BY <1>1, <1>4, <1>5, <1>6, <1>7, <1>8
<1>10. GrantFromOrder(r, p, from, to, keep, FALSE)
  BY <1>5, <1>8, <1>9
<1>11. r \in 1 .. Len(sub) + 1 /\ r \notin DOMAIN grant
  BY <1>1
<1>12. /\ grant' \in Seq(PlanRows) /\ Len(grant') = r
       /\ grant'[r].plan = p /\ grant'[r].to = to /\ grant'[r].status = "ACTIVE"
       /\ grant'[r].from = from
       /\ \A q \in DOMAIN grant \ {r} :
            IF grant[q].status = "ACTIVE" /\ ~keep
            THEN grant'[q].status = "CANCELED" /\ grant'[q].to = from
            ELSE grant'[q] = grant[q]
  <2>1. PICK no \in BOOLEAN : no = FALSE
    OBVIOUS
  <2>2. GrantFromOrder(r, p, from, to, keep, no)
    BY <1>10, <2>1
  <2> QED
    <3>1. /\ grant' \in Seq(PlanRows)
          /\ Len(grant') = IF r = Len(sub) + 1 THEN r ELSE Len(sub)
          /\ grant'[r].plan = p /\ grant'[r].to = to /\ grant'[r].status = "ACTIVE"
          /\ grant'[r].from =
                IF r \notin DOMAIN grant \/ grant[r].plan # p \/ no \/ grant[r].to <= from
                THEN from ELSE grant[r].from
          /\ \A q \in DOMAIN grant \ {r} :
                IF grant[q].status = "ACTIVE" /\ ~keep
                THEN grant'[q].status = "CANCELED" /\ grant'[q].to = from
                ELSE grant'[q] = grant[q]
      BY <1>0, <1>2, <1>11, <2>2, GrantEffect
    <3> QED
      BY <1>11, <3>1
<1>13. bill' \in Seq(Bills) /\ Len(bill') = r
  BY <1>0, <1>5, <1>11, OrderEffect
<1>14. Placed(r, keep)
  <2>1. ASSUME NEW q \in DOMAIN grant \ {r}, keep PROVE grant'[q] = grant[q] /\ sub'[q] = sub[q]
    <3>1. base = sub
      BY <1>3, <2>1
    <3> QED
      BY <1>1, <1>9, <1>12, <2>1, <3>1
  <2>2. ASSUME NEW q \in DOMAIN grant \ {r}, ~keep
        PROVE  grant'[q].status # "ACTIVE" /\ grant'[q].to <= now
    <3>1. from = now
      BY <1>2, <2>2
    <3> QED
      BY <1>0, <1>1, <1>12, <2>2, <3>1 DEF Ended
  <2>3. RowTypes'
    BY <1>9, <1>12, <1>13 DEF RowTypes
  <2> QED
    BY <1>8, <1>9, <1>12, <2>1, <2>2, <2>3 DEF Placed
<1>15. from = IF Current # 0 /\ keep /\ at > now THEN at ELSE now
  BY <1>2
<1>16. \A q \in DOMAIN sub : sub'[q] = IF Current # 0 /\ ~keep THEN Canceled(sub)[q] ELSE sub[q]
  BY <1>3, <1>9
<1> QED
  BY <1>6, <1>8, <1>9, <1>11, <1>12, <1>14, <1>15, <1>16

(* A reservation starts when the last of the plans that run ends.          *)
LEMMA NewRowStep ==
    ASSUME Inv, NEW p \in Plans, NEW mode \in Modes, NEW at \in Int, NEW source \in Sources,
           Purchase(p, mode, at, source), Flags, ~Renews(p, source),
           ~stale' /\ mode = "scheduled_switch" =>
              MayBuy /\ (Current # 0 => at = sub[Current].to),
           ~irregular' /\ Current = 0 => Open(sub) = {}
    PROVE  Inv'
<1>0. Types /\ Agreed
  BY DEF Inv
<1>1. now \in Int /\ DOMAIN grant = DOMAIN sub /\ \A q \in DOMAIN grant : grant[q].to \in Int
  BY <1>0, RowsOf DEF Types, RowTypes
<1>2. PICK keep \in BOOLEAN : keep <=> mode = "scheduled_switch"
  OBVIOUS
<1>3. PICK r, from : /\ r = Len(sub) + 1
                     /\ from = IF Current # 0 /\ keep /\ at > now THEN at ELSE now
  OBVIOUS
<1>4. /\ r \notin DOMAIN grant /\ Placed(r, keep)
      /\ sub'[r].from = from /\ grant'[r].from = from /\ grant'[r].to = from + Term
      /\ \A q \in DOMAIN sub :
            sub'[q] = IF Current # 0 /\ ~keep THEN Canceled(sub)[q] ELSE sub[q]
  BY <1>3, <1>2, NewRowEffect
<1>5. from \in Int /\ (~keep => from = now) /\ now <= from /\ from + Term \in Int
  BY <1>1, <1>3, TimelineAssumption
<1>6. ASSUME ~stale', keep, NEW q \in DOMAIN grant \ {r}, grant[q].status = "ACTIVE"
      PROVE  grant[q].to <= grant'[r].from
  <2>1. MayBuy /\ (Current # 0 => at = sub[Current].to)
    BY <1>6, <1>2
  <2>2. CASE grant[q].to <= now
    BY <1>1, <1>4, <1>5, <1>6, <2>2
  <2>3. CASE grant[q].to > now
    <3>1. q \in Started(sub) /\ sub[q].to = grant[q].to
      BY <1>0, <1>6, <2>1, <2>3 DEF Agreed, Open, MayBuy, Reserved
    <3>2. /\ Current # 0 /\ Current \in Started(sub) /\ sub[q].to <= sub[Current].to
      BY <1>0, <3>1, CurrentIs
    <3>3. at = sub[Current].to /\ at > now
      BY <2>1, <3>2 DEF Started, Open
    <3> QED
      BY <1>3, <1>4, <1>6, <3>1, <3>2, <3>3
  <2> QED
    BY <1>1, <1>6, <2>2, <2>3
<1>7. ASSUME ~irregular', ~keep, NEW q \in DOMAIN sub, sub'[q].status = "ACTIVE", sub'[q].to > now
      PROVE  FALSE
  <2>1. CASE Current # 0
    BY <1>0, <1>4, <1>7, <2>1, CanceledEffect
  <2>2. CASE Current = 0
    BY <1>4, <1>7, <2>2 DEF Open
  <2> QED
    BY <2>1, <2>2
<1>8. grant'[r].to <= grant'[r].from + Term
  BY <1>4, <1>5
<1> QED
  BY <1>4, <1>6, <1>7, <1>8, PlacedInv

-----------------------------------------------------------------------------
(* A code extends or replaces the subscription it finds.                   *)
LEMMA RedeemOnEffect ==
    ASSUME Inv, NEW p \in Plans, NEW mode \in {"RENEW", "REPLACE"}, NEW r \in Open(sub),
           RedeemOn(r, p, mode), NEW no \in BOOLEAN, ~no
    PROVE  /\ Placed(r, no) /\ sub'[r].from = IF Extends(r, p, mode) THEN sub[r].from ELSE now
           /\ \A q \in DOMAIN sub \ {r} : sub'[q] = sub[q]
           /\ grant'[r].to = IF Extends(r, p, mode) THEN sub[r].to + Term ELSE now + Term
           /\ grant'[r].from = IF grant[r].plan # p \/ mode = "REPLACE" \/ grant[r].to <= now
                               THEN now ELSE grant[r].from
<1>0. Types /\ Agreed /\ Ended
  BY DEF Inv
<1>1. r \in DOMAIN sub /\ sub[r].status = "ACTIVE" /\ sub[r].to > now
  BY DEF Open
<1>2. /\ now \in Int /\ sub \in Seq(PlanRows) /\ Len(sub) \in Nat /\ DOMAIN sub = 1 .. Len(sub)
      /\ DOMAIN grant = DOMAIN sub /\ sub[r] \in PlanRows /\ sub[r].to \in Int
  BY <1>0, <1>1, RowsOf DEF Types, RowTypes
<1>3. PICK longer \in Int, later \in Int : longer = sub[r].to + Term /\ later = now + Term
  BY <1>2, TimelineAssumption
<1>4. PICK new : new = IF Extends(r, p, mode) THEN [sub[r] EXCEPT !.to = longer] ELSE Row(p, now, later)
  OBVIOUS
<1>5. /\ sub' = [sub EXCEPT ![r] = new]
      /\ GrantFromOrder(r, p, now, sub'[r].to, FALSE, mode = "REPLACE") /\ AddOrder(r, mode)
  <2>1. sub' = [sub EXCEPT ![r] = IF Extends(r, p, mode) THEN [sub[r] EXCEPT !.to = sub[r].to + Term]
                                  ELSE Row(p, now, now + Term)]
    BY DEF RedeemOn
  <2>2. new = IF Extends(r, p, mode) THEN [sub[r] EXCEPT !.to = sub[r].to + Term]
              ELSE Row(p, now, now + Term)
    BY <1>3, <1>4
  <2>3. sub' = [sub EXCEPT ![r] = new]
    BY <2>1, <2>2, Zenon
  <2> QED
    BY <2>3 DEF RedeemOn
<1>6. /\ new \in PlanRows /\ new.plan = p /\ new.status = "ACTIVE" /\ new.to \in Int
      /\ new.from = IF Extends(r, p, mode) THEN sub[r].from ELSE now
  <2>1. CASE Extends(r, p, mode)
    BY <1>1, <1>2, <1>4, <2>1 DEF PlanRows, Extends
  <2>2. CASE ~Extends(r, p, mode)
    BY <1>2, <1>4, <2>2 DEF PlanRows, Row
  <2> QED
    BY <2>1, <2>2
<1>7. /\ sub' \in Seq(PlanRows) /\ Len(sub') = Len(sub) /\ sub'[r] = new /\ DOMAIN sub' = DOMAIN sub
      /\ \A q \in DOMAIN sub \ {r} : sub'[q] = sub[q]
  BY <1>1, <1>2, <1>5, <1>6
<1>8. r \in 1 .. Len(sub) + 1 /\ r # Len(sub) + 1
  BY <1>1, <1>2
<1>9. PICK to \in Int : to = sub'[r].to
  BY <1>6, <1>7
<1>10. PICK replace \in BOOLEAN : no = FALSE /\ replace = (mode = "REPLACE")
  OBVIOUS
<1>11. GrantFromOrder(r, p, now, to, no, replace)
  BY <1>5, <1>9, <1>10
<1>12. /\ grant' \in Seq(PlanRows) /\ Len(grant') = Len(sub)
       /\ grant'[r].plan = p /\ grant'[r].to = to /\ grant'[r].status = "ACTIVE"
       /\ grant'[r].from = IF r \notin DOMAIN grant \/ grant[r].plan # p \/ replace \/ grant[r].to <= now
                           THEN now ELSE grant[r].from
       /\ \A q \in DOMAIN grant \ {r} :
            IF grant[q].status = "ACTIVE" /\ ~no
            THEN grant'[q].status = "CANCELED" /\ grant'[q].to = now
            ELSE grant'[q] = grant[q]
  BY <1>0, <1>2, <1>8, <1>11, GrantEffect
<1>13. bill' \in Seq(Bills) /\ Len(bill') = Len(sub)
  <2>1. mode \in Sources
    BY DEF Sources, Codes
  <2> QED
    BY <1>0, <1>5, <1>8, <2>1, OrderEffect
<1>14. Placed(r, no)
  <2>1. ASSUME NEW q \in DOMAIN grant \ {r}
        PROVE  grant'[q].status # "ACTIVE" /\ grant'[q].to <= now
    BY <1>0, <1>2, <1>10, <1>12 DEF Ended
  <2>2. RowTypes'
    BY <1>7, <1>12, <1>13 DEF RowTypes
  <2> QED
    BY <1>1, <1>6, <1>7, <1>9, <1>10, <1>12, <2>1, <2>2 DEF Placed
<1>15. new.to = IF Extends(r, p, mode) THEN longer ELSE later
  <2>1. CASE Extends(r, p, mode)
    BY <1>2, <1>4, <2>1 DEF PlanRows
  <2>2. CASE ~Extends(r, p, mode)
    BY <1>4, <2>2 DEF Row
  <2> QED
    BY <2>1, <2>2
<1> QED
  BY <1>1, <1>2, <1>3, <1>6, <1>7, <1>9, <1>10, <1>12, <1>14, <1>15

(* While nothing is reserved it ends no other.                             *)
LEMMA RedeemOnStep ==
    ASSUME Inv, NEW p \in Plans, NEW mode \in {"RENEW", "REPLACE"}, NEW r \in Open(sub),
           RedeemOn(r, p, mode), Flags, ~irregular' => Reserved(sub) = {}
    PROVE  Inv'
<1>0. PICK no \in BOOLEAN : ~no
  OBVIOUS
<1>1. /\ Placed(r, no) /\ sub'[r].from = IF Extends(r, p, mode) THEN sub[r].from ELSE now
      /\ \A q \in DOMAIN sub \ {r} : sub'[q] = sub[q]
      /\ grant'[r].from = IF grant[r].plan # p \/ mode = "REPLACE" \/ grant[r].to <= now
                          THEN now ELSE grant[r].from
  BY <1>0, RedeemOnEffect
<1>2. now \in Int
  BY DEF Inv, Types
<1>3. ASSUME ~irregular'
      PROVE  /\ sub'[r].from = grant'[r].from /\ grant'[r].from <= now
             /\ \A q \in DOMAIN sub \ {r} : ~(sub'[q].status = "ACTIVE" /\ sub'[q].to > now)
  <2>1. ~irregular /\ Reserved(sub) = {} /\ Regular /\ Agreed
    BY <1>3 DEF Flags, Inv
  <2>2. (\A q \in Open(sub) : q = r) /\ sub[r].from <= now
    BY <2>1, OneOpen DEF Reserved, Started
  <2>3. r \in Open(grant) /\ sub[r].from = grant[r].from
    BY <2>1 DEF Regular
  <2>4. grant[r].plan = sub[r].plan /\ ~(grant[r].to <= now)
    <3>1. grant[r].to \in Int
      BY <2>3, RowsOf DEF Inv, Types, RowTypes, Open
    <3> QED
      BY <1>2, <2>1, <2>3, <3>1 DEF Agreed, Open
  <2>5. Extends(r, p, mode) <=> ~(grant[r].plan # p \/ mode = "REPLACE" \/ grant[r].to <= now)
    BY <2>4 DEF Extends
  <2>6. sub'[r].from = grant'[r].from /\ grant'[r].from <= now
    BY <1>1, <1>2, <2>2, <2>3, <2>5
  <2> QED
    BY <1>1, <2>2, <2>6 DEF Open
<1> QED
  BY <1>0, <1>1, <1>3, PlacedInv

-----------------------------------------------------------------------------
(* Nothing is open where nothing has started or is reserved.               *)
LEMMA NothingOpen ==
    ASSUME Types
    PROVE  MayBuy /\ Current = 0 => Open(sub) = {}
BY CurrentIs DEF MayBuy, Reserved

(* The mode of a purchase.                                                 *)
LEMMA ModeIs ==
    ASSUME Types, NEW p \in Plans, NEW preference \in Preferences
    PROVE  /\ Mode(p, preference) \in Modes
           /\ EffectiveAt(Mode(p, preference)) \in Int
           /\ Mode(p, preference) = "scheduled_switch" =>
                Current # 0 /\ sub[Current].plan # p /\ preference = "scheduled_switch"
           /\ Current # 0 /\ sub[Current].plan = p => Mode(p, preference) = "renewal"
<1>1. now \in Int /\ \A r \in DOMAIN sub : sub[r].to \in Int
  BY RowsOf DEF Types, RowTypes
<1>2. Current # 0 => Current \in DOMAIN sub
  BY CurrentIs DEF Started, Open
<1>3. Mode(p, preference) = "renewal" => Current # 0
  BY DEF Mode, Preferences
<1>4. /\ Mode(p, preference) \in Modes
      /\ Mode(p, preference) = "scheduled_switch" =>
            Current # 0 /\ sub[Current].plan # p /\ preference = "scheduled_switch"
      /\ Current # 0 /\ sub[Current].plan = p => Mode(p, preference) = "renewal"
  BY DEF Mode, Preferences, Modes
<1>5. EffectiveAt(Mode(p, preference)) \in Int
  BY <1>1, <1>2, <1>3, <1>4 DEF EffectiveAt
<1> QED
  BY <1>4, <1>5

(* A purchase, by whatever way.                                            *)
LEMMA PurchaseStep ==
    ASSUME Inv, NEW p \in Plans, NEW mode \in Modes, NEW at \in Int, NEW source \in Sources,
           Purchase(p, mode, at, source), Flags,
           ~stale' /\ mode = "scheduled_switch" =>
              MayBuy /\ (Current # 0 => at = sub[Current].to /\ sub[Current].plan # p),
           ~irregular' => (Current = 0 => Open(sub) = {}) /\ (Renews(p, source) => MayBuy)
    PROVE  Inv'
<1>1. CASE Renews(p, source)
  <2>1. ~stale' => mode # "scheduled_switch"
    BY <1>1 DEF Renews
  <2> QED
    BY <1>1, <2>1, RenewStep
<1>2. CASE ~Renews(p, source)
  BY <1>2, NewRowStep
<1> QED
  BY <1>1, <1>2

(* A payment is replaced or none is.                                       *)
LEMMA PaymentKept == payment \in Payments => Unabandoned \in Payments /\ None \in Payments
BY DEF Unabandoned, Payments

(* A purchase from the wallet.                                             *)
LEMMA CheckoutStep ==
    ASSUME Inv, NEW p \in Plans, NEW preference \in Preferences, Checkout(p, preference)
    PROVE  Inv'
<1>0. Types /\ payment \in Payments /\ stale \in BOOLEAN /\ irregular \in BOOLEAN /\ (stale => irregular)
  BY DEF Inv, Types
<1>1. PICK mode \in Modes, at \in Int : mode = Mode(p, preference) /\ at = EffectiveAt(mode)
  BY <1>0, ModeIs
<1>2. Purchase(p, mode, at, "PAID") /\ MayBuy /\ "PAID" \in Sources
  BY <1>1 DEF Checkout, Sources
<1>3. Flags /\ stale' = stale /\ irregular' = irregular
  BY <1>0, PaymentKept DEF Checkout, Flags
<1>4. mode = "scheduled_switch" => Current # 0 /\ at = sub[Current].to /\ sub[Current].plan # p
  BY <1>0, <1>1, ModeIs DEF EffectiveAt
<1> QED
  BY <1>0, <1>2, <1>3, <1>4, NothingOpen, PurchaseStep

(* A payment is fulfilled.                                                 *)
LEMMA SettleStep ==
    ASSUME Inv, Settle
    PROVE  Inv'
<1>0. Types /\ payment \in Payments /\ stale \in BOOLEAN /\ irregular \in BOOLEAN /\ (stale => irregular)
  BY DEF Inv, Types
<1>1. /\ payment.step \in {"pending", "late"} /\ payment.mode # "upgrade" /\ payment' = None
      /\ Purchase(payment.plan, payment.mode, payment.at, "PAID")
      /\ stale' = (stale \/ ~Fresh(payment)) /\ irregular' = (irregular \/ ~Fresh(payment))
      /\ now' = now
  BY DEF Settle
<1>2. PICK p \in Plans, mode \in Modes, at \in Int :
        p = payment.plan /\ mode = payment.mode /\ at = payment.at
  BY <1>0, <1>1 DEF Payments, None
<1>3. Purchase(p, mode, at, "PAID") /\ "PAID" \in Sources
  BY <1>1, <1>2 DEF Sources
<1>4. Flags
  BY <1>0, <1>1, PaymentKept DEF Flags
<1>5. Fresh(payment) =>
        /\ MayBuy
        /\ Current # 0 => \E preference \in Preferences : mode = Mode(p, preference)
        /\ Current # 0 /\ mode = "scheduled_switch" => at = sub[Current].to
  BY <1>2 DEF Fresh
<1>6. Fresh(payment) /\ Current # 0 /\ mode = "scheduled_switch" => sub[Current].plan # p
  BY <1>0, <1>5, ModeIs
<1>7. (~stale' => Fresh(payment)) /\ (~irregular' => Fresh(payment))
  BY <1>1
<1> QED
  BY <1>0, <1>3, <1>4, <1>5, <1>6, <1>7, NothingOpen, PurchaseStep

(* A gift.                                                                 *)
LEMMA GiftStep ==
    ASSUME Inv, NEW p \in Plans, Gift(p)
    PROVE  Inv'
<1>0. /\ Types /\ payment \in Payments /\ stale \in BOOLEAN /\ irregular \in BOOLEAN /\ (stale => irregular)
      /\ now \in Int
  BY DEF Inv, Types
<1>1. PICK mode \in Modes : mode = Mode(p, "immediate_switch") /\ mode # "scheduled_switch"
  <2>1. "immediate_switch" \in Preferences /\ "immediate_switch" # "scheduled_switch"
    BY DEF Preferences
  <2> QED
    BY <1>0, <2>1, ModeIs
<1>2. Purchase(p, mode, now, "ADMIN") /\ "ADMIN" \in Sources
  BY <1>1 DEF Gift, Sources
<1>3. Flags /\ irregular' = (irregular \/ (Current = 0 /\ Reserved(sub) # {}))
  BY <1>0 DEF Gift, Flags
<1>4. ~irregular' => (Current = 0 => Open(sub) = {})
  BY <1>0, <1>3, NothingOpen DEF MayBuy
<1>5. ~Renews(p, "ADMIN")
  BY DEF Renews
<1>6. PICK at \in Int : at = now
  BY <1>0
<1> QED
  BY <1>1, <1>2, <1>3, <1>4, <1>5, <1>6, PurchaseStep

(* A redemption code.                                                      *)
LEMMA RedeemStep ==
    ASSUME Inv, NEW p \in Plans, NEW mode \in {"RENEW", "REPLACE"}, Redeem(p, mode)
    PROVE  Inv'
<1>0. /\ Types /\ payment \in Payments /\ stale \in BOOLEAN /\ irregular \in BOOLEAN /\ (stale => irregular)
      /\ now \in Int
  BY DEF Inv, Types
<1>1. Flags /\ irregular' = (irregular \/ Reserved(sub) # {})
  BY <1>0 DEF Redeem, Flags
<1>2. CASE Open(sub) = {}
  <2>1. Purchase(p, "initial", now, mode) /\ mode \in Sources /\ "initial" \in Modes
    BY <1>2 DEF Redeem, Sources, Codes, Modes
  <2>2. Current = 0
    BY <1>0, <1>2, CurrentIs DEF Started
  <2>3. ~Renews(p, mode)
    BY <2>2 DEF Renews
  <2>4. PICK at \in Int, m \in Modes : at = now /\ m = "initial"
    BY <1>0, <2>1
  <2> QED
    BY <1>1, <1>2, <2>1, <2>2, <2>3, <2>4, PurchaseStep
<1>3. CASE Open(sub) # {}
  <2>1. PICK r \in LastToEnd(Open(sub)) : RedeemOn(r, p, mode)
    BY <1>3 DEF Redeem
  <2>2. r \in Open(sub)
    BY DEF LastToEnd
  <2> QED
    BY <1>1, <2>1, <2>2, RedeemOnStep
<1> QED
  BY <1>2, <1>3

-----------------------------------------------------------------------------
(* The invariant of one row, of grant g and subscription s at time t.      *)
RowAgreed(g, s, t) ==
    g.status = "ACTIVE" /\ g.to > t => s.status = "ACTIVE" /\ s.plan = g.plan /\ s.to = g.to
RowEnded(g, t) == g.status # "ACTIVE" => g.to <= t
RowRegular(g, s, t) ==
    s.status = "ACTIVE" /\ s.to > t => g.status = "ACTIVE" /\ g.to > t /\ s.from = g.from
RowBrief(g, t) == g.status = "ACTIVE" /\ g.from > t => g.to <= g.from + Term

(* The rows of a state that has the invariant ...                          *)
LEMMA RowByRow ==
    ASSUME Inv
    PROVE  /\ now \in Int /\ DOMAIN grant = DOMAIN sub /\ DOMAIN bill = DOMAIN sub
           /\ sub \in Seq(PlanRows) /\ grant \in Seq(PlanRows) /\ bill \in Seq(Bills)
           /\ \A r \in DOMAIN sub :
                /\ sub[r] \in PlanRows /\ grant[r] \in PlanRows
                /\ sub[r].plan \in Plans /\ grant[r].plan \in Plans
                /\ sub[r].from \in Int /\ grant[r].from \in Int
                /\ sub[r].to \in Int /\ grant[r].to \in Int
                /\ RowAgreed(grant[r], sub[r], now) /\ RowEnded(grant[r], now)
                /\ irregular \/ RowRegular(grant[r], sub[r], now)
                /\ irregular \/ RowBrief(grant[r], now)
<1>1. /\ now \in Int /\ sub \in Seq(PlanRows) /\ grant \in Seq(PlanRows) /\ bill \in Seq(Bills)
      /\ Len(grant) = Len(sub) /\ Len(bill) = Len(sub)
  BY DEF Inv, Types, RowTypes
<1>2. DOMAIN grant = DOMAIN sub /\ DOMAIN bill = DOMAIN sub
  BY <1>1
<1>3. ASSUME NEW r \in DOMAIN sub
      PROVE  /\ RowAgreed(grant[r], sub[r], now) /\ RowEnded(grant[r], now)
             /\ irregular \/ RowRegular(grant[r], sub[r], now)
             /\ irregular \/ RowBrief(grant[r], now)
  BY <1>2 DEF Inv, Agreed, Ended, Regular, Brief, Open, RowAgreed, RowEnded, RowRegular, RowBrief
<1>4. \A r \in DOMAIN sub :
        /\ sub[r] \in PlanRows /\ sub[r].plan \in Plans /\ sub[r].from \in Int /\ sub[r].to \in Int
  BY <1>1, RowsOf
<1>5. \A r \in DOMAIN grant :
        /\ grant[r] \in PlanRows /\ grant[r].plan \in Plans
        /\ grant[r].from \in Int /\ grant[r].to \in Int
  BY <1>1, RowsOf
<1> QED
  BY <1>1, <1>2, <1>3, <1>4, <1>5

(* ... and of a next state that will have it.                              *)
LEMMA ChangedInv ==
    ASSUME Inv, Types', stale' = stale, irregular' = irregular, DOMAIN sub' = DOMAIN sub,
           \A r \in DOMAIN sub :
              /\ RowAgreed(grant'[r], sub'[r], now') /\ RowEnded(grant'[r], now')
              /\ irregular \/ RowRegular(grant'[r], sub'[r], now')
              /\ irregular \/ RowBrief(grant'[r], now'),
           Disjoint => Disjoint'
    PROVE  Inv'
<1>1. DOMAIN grant' = DOMAIN sub'
  BY RowsOf DEF Types, RowTypes
<1>2. Agreed'
  BY <1>1 DEF Agreed, Open, RowAgreed
<1>3. Ended'
  BY <1>1 DEF Ended, RowEnded
<1>4. irregular' \/ Regular'
  BY <1>1 DEF Regular, Open, RowRegular
<1>5. irregular' \/ Brief'
  BY <1>1 DEF Brief, RowBrief
<1> QED
  BY <1>2, <1>3, <1>4, <1>5 DEF Inv

(* Plans that start when they did and end no later stay disjoint.          *)
LEMMA StaysDisjoint ==
    ASSUME Types, Types', DOMAIN sub' = DOMAIN sub,
           \A r \in DOMAIN grant : grant'[r].status = "ACTIVE" =>
              /\ grant[r].status = "ACTIVE" /\ grant'[r].from = grant[r].from
              /\ grant'[r].to <= grant[r].to
    PROVE  Disjoint => Disjoint'
<1>1. /\ DOMAIN grant' = DOMAIN grant
      /\ \A r \in DOMAIN grant : /\ grant[r].to \in Int /\ grant'[r].to \in Int
                                 /\ grant[r].from \in Int /\ grant'[r].from \in Int
  BY RowsOf DEF Types, RowTypes
<1> SUFFICES ASSUME Disjoint, NEW g \in DOMAIN grant, NEW h \in DOMAIN grant, g # h,
                    grant'[g].status = "ACTIVE", grant'[h].status = "ACTIVE"
             PROVE  grant'[g].to <= grant'[h].from \/ grant'[h].to <= grant'[g].from
  BY <1>1 DEF Disjoint
<1>2. grant[g].to <= grant[h].from \/ grant[h].to <= grant[g].from
  BY DEF Disjoint
<1> QED
  BY <1>1, <1>2

(* A change of one field of a row.                                         *)
LEMMA FieldChanged ==
    ASSUME NEW m \in PlanRows, NEW p \in Plans, NEW t \in Int
    PROVE  /\ LET n == [m EXCEPT !.plan = p] IN
                /\ n \in PlanRows /\ n.plan = p /\ n.from = m.from /\ n.to = m.to
                /\ n.status = m.status
           /\ LET n == [m EXCEPT !.to = t] IN
                /\ n \in PlanRows /\ n.plan = m.plan /\ n.from = m.from /\ n.to = t
                /\ n.status = m.status
BY DEF PlanRows

(* fulfillStandardUpgrade.                                                 *)
LEMMA UpgradeStep ==
    ASSUME Inv, NEW r, NEW p \in Plans, Upgradable(r, p), Upgrade(r, p),
           now' = now, payment' \in Payments, stale' = stale, irregular' = irregular
    PROVE  Inv'
<1>1. r \in Open(grant)
  BY DEF Upgradable
<1>2. r \in DOMAIN grant /\ r \in DOMAIN sub
  BY <1>1, RowByRow DEF Open
<1>3. /\ sub' = [sub EXCEPT ![r] = [sub[r] EXCEPT !.plan = p]]
      /\ grant' = [grant EXCEPT ![r] = [grant[r] EXCEPT !.plan = p]]
      /\ AddOrder(r, "UPGRADE")
  BY DEF Upgrade
<1>4. PICK s, g : s = [sub[r] EXCEPT !.plan = p] /\ g = [grant[r] EXCEPT !.plan = p]
  OBVIOUS
<1>12. /\ s \in PlanRows /\ s.plan = p /\ s.from = sub[r].from /\ s.to = sub[r].to
       /\ s.status = sub[r].status
       /\ g \in PlanRows /\ g.plan = p /\ g.from = grant[r].from /\ g.to = grant[r].to
       /\ g.status = grant[r].status
  <2>1. sub[r] \in PlanRows /\ grant[r] \in PlanRows /\ sub[r].to \in Int
    BY <1>2, RowByRow
  <2> QED
    BY <1>4, <2>1, FieldChanged
<1>5. /\ sub' \in Seq(PlanRows) /\ Len(sub') = Len(sub) /\ DOMAIN sub' = DOMAIN sub /\ sub'[r] = s
      /\ \A q \in DOMAIN sub : q # r => sub'[q] = sub[q]
  BY <1>2, <1>3, <1>4, <1>12, RowByRow
<1>6. /\ grant' \in Seq(PlanRows) /\ Len(grant') = Len(grant) /\ grant'[r] = g
      /\ \A q \in DOMAIN grant : q # r => grant'[q] = grant[q]
  BY <1>2, <1>3, <1>4, <1>12, RowByRow
<1>7. Types /\ Len(grant) = Len(sub) /\ Len(sub) \in Nat /\ DOMAIN sub = 1 .. Len(sub)
  BY RowsOf DEF Inv, Types, RowTypes
<1>8. bill' \in Seq(Bills) /\ Len(bill') = Len(sub)
  <2>1. r \in 1 .. Len(sub) + 1 /\ r # Len(sub) + 1 /\ "UPGRADE" \in Sources
    BY <1>2, <1>7 DEF Sources
  <2> QED
    BY <1>3, <1>7, <2>1, OrderEffect
<1>9. Types'
  BY <1>5, <1>6, <1>7, <1>8 DEF Types, RowTypes
<1>10. ASSUME NEW q \in DOMAIN sub
       PROVE  /\ RowAgreed(grant'[q], sub'[q], now') /\ RowEnded(grant'[q], now')
              /\ irregular \/ RowRegular(grant'[q], sub'[q], now')
              /\ irregular \/ RowBrief(grant'[q], now')
  <2>1. CASE q = r
    <3>1. /\ RowAgreed(grant[r], sub[r], now) /\ RowEnded(grant[r], now)
          /\ irregular \/ RowRegular(grant[r], sub[r], now)
          /\ irregular \/ RowBrief(grant[r], now)
      BY <1>2, RowByRow
    <3> QED
      BY <1>5, <1>6, <1>12, <2>1, <3>1 DEF RowAgreed, RowEnded, RowRegular, RowBrief
  <2>2. CASE q # r
    BY <1>5, <1>6, <2>2, RowByRow
  <2> QED
    BY <2>1, <2>2
<1>11. Disjoint => Disjoint'
  <2>1. \A q \in DOMAIN grant : grant'[q].status = "ACTIVE" =>
           /\ grant[q].status = "ACTIVE" /\ grant'[q].from = grant[q].from
           /\ grant'[q].to <= grant[q].to
    <3>1. \A q \in DOMAIN grant : grant[q].to \in Int
      BY RowByRow
    <3> QED
      BY <1>6, <1>12, <3>1
  <2> QED
    BY <1>5, <1>7, <1>9, <2>1, StaysDisjoint
<1> QED
  BY <1>5, <1>9, <1>10, <1>11, ChangedInv

(* updatePlanValidity.                                                     *)
LEMMA ValidityStep ==
    ASSUME Inv, NEW g \in DOMAIN grant, NEW t \in Int, UpdateValidity(g, t)
    PROVE  Inv'
<1>1. /\ grant' = [grant EXCEPT ![g] = [grant[g] EXCEPT !.to = t]]
      /\ sub' = [sub EXCEPT ![g] = [sub[g] EXCEPT !.to = t]]
      /\ NoOverlap(g, t) /\ t > now /\ g \in Open(grant) /\ grant[g].from <= now
      /\ now' = now /\ bill' = bill /\ payment' = payment /\ stale' = stale /\ irregular' = irregular
  BY DEF UpdateValidity, Started
<1>2. g \in DOMAIN sub /\ DOMAIN grant = DOMAIN sub /\ grant[g].status = "ACTIVE" /\ grant[g].to > now
  BY <1>1, RowByRow DEF Open
<1>3. PICK s, n : s = [sub[g] EXCEPT !.to = t] /\ n = [grant[g] EXCEPT !.to = t]
  OBVIOUS
<1>9. /\ s \in PlanRows /\ s.plan = sub[g].plan /\ s.from = sub[g].from /\ s.to = t
      /\ s.status = sub[g].status
      /\ n \in PlanRows /\ n.plan = grant[g].plan /\ n.from = grant[g].from /\ n.to = t
      /\ n.status = grant[g].status
  <2>1. sub[g] \in PlanRows /\ grant[g] \in PlanRows /\ sub[g].plan \in Plans
    BY <1>2, RowByRow
  <2> QED
    BY <1>3, <2>1, FieldChanged
<1>4. /\ sub' \in Seq(PlanRows) /\ Len(sub') = Len(sub) /\ DOMAIN sub' = DOMAIN sub /\ sub'[g] = s
      /\ \A q \in DOMAIN sub : q # g => sub'[q] = sub[q]
  BY <1>1, <1>2, <1>3, <1>9, RowByRow
<1>5. /\ grant' \in Seq(PlanRows) /\ Len(grant') = Len(grant) /\ grant'[g] = n
      /\ DOMAIN grant' = DOMAIN grant
      /\ \A q \in DOMAIN grant : q # g => grant'[q] = grant[q]
  BY <1>1, <1>2, <1>3, <1>9, RowByRow
<1>6. Types'
  BY <1>1, <1>4, <1>5 DEF Inv, Types, RowTypes
<1>7. ASSUME NEW q \in DOMAIN sub
      PROVE  /\ RowAgreed(grant'[q], sub'[q], now') /\ RowEnded(grant'[q], now')
             /\ irregular \/ RowRegular(grant'[q], sub'[q], now')
             /\ irregular \/ RowBrief(grant'[q], now')
  <2>1. CASE q = g
    <3>1. /\ RowAgreed(grant[g], sub[g], now)
          /\ irregular \/ RowRegular(grant[g], sub[g], now)
      BY <1>2, RowByRow
    <3>2. ~(grant[g].from > now)
      BY <1>1, <1>2, RowByRow
    <3> QED
      BY <1>1, <1>2, <1>4, <1>5, <1>9, <2>1, <3>1, <3>2 DEF RowAgreed, RowEnded, RowRegular, RowBrief
  <2>2. CASE q # g
    BY <1>1, <1>2, <1>4, <1>5, <2>2, RowByRow
  <2> QED
    BY <2>1, <2>2
<1>8. ASSUME Disjoint PROVE Disjoint'
  <2>1. \A q \in DOMAIN grant : q # g /\ grant[q].status = "ACTIVE" =>
           t <= grant[q].from \/ grant[q].to <= grant[g].from
    <3>1. \A q \in DOMAIN grant : grant[q].from \in Int /\ grant[q].to \in Int
      BY RowByRow
    <3> QED
      BY <1>1, <3>1 DEF NoOverlap
  <2> QED
    BY <1>5, <1>8, <1>9, <2>1 DEF Disjoint
<1> QED
  BY <1>1, <1>4, <1>6, <1>7, <1>8, ChangedInv

(* ScheduledPlanActivation: the reservation takes the place of the plan    *)
(* that runs, and whatever else is left has ended.                         *)
LEMMA ActivateStep ==
    ASSUME Inv, NEW g \in DOMAIN grant, Activate(g)
    PROVE  Inv'
<1> DEFINE Early(m) == [m EXCEPT !.from = now, !.to = now + Term]
           Over(m) == [m EXCEPT !.status = "CANCELED", !.to = now]
           Moved(s) == [r \in DOMAIN s |->
                IF r = g THEN Early(s[r]) ELSE IF r \in Started(grant) THEN Over(s[r]) ELSE s[r]]
<1>0. Types /\ Len(grant) = Len(sub) /\ Len(sub) \in Nat /\ DOMAIN sub = 1 .. Len(sub)
  BY RowsOf DEF Inv, Types, RowTypes
<1>1. /\ sub' = Moved(sub) /\ grant' = Moved(grant) /\ Reserved(grant) = {g}
      /\ now' = now /\ bill' = bill /\ payment' = payment /\ stale' = stale /\ irregular' = irregular
  BY DEF Activate, Activatable
<1>2. PICK later \in Int : later = now + Term
  BY RowByRow, TimelineAssumption
<1>3. later > now /\ now \in Int /\ DOMAIN grant = DOMAIN sub
  BY <1>2, RowByRow, TimelineAssumption
<1>4. ASSUME NEW m \in PlanRows
      PROVE  /\ Early(m) \in PlanRows /\ Early(m).plan = m.plan /\ Early(m).status = m.status
             /\ Early(m).from = now /\ Early(m).to = later
             /\ Over(m) \in PlanRows /\ Over(m).status = "CANCELED" /\ Over(m).to = now
  <2>1. Early(m) = [m EXCEPT !.from = now, !.to = later]
    BY <1>2
  <2> QED
    BY <1>3, <2>1 DEF PlanRows
<1> HIDE DEF Early, Over
<1>5. ASSUME NEW s \in Seq(PlanRows), Len(s) = Len(sub)
      PROVE  /\ Moved(s) \in Seq(PlanRows) /\ Len(Moved(s)) = Len(sub)
             /\ \A r \in DOMAIN sub : Moved(s)[r] =
                  IF r = g THEN Early(s[r]) ELSE IF r \in Started(grant) THEN Over(s[r]) ELSE s[r]
  <2>1. DOMAIN s = 1 .. Len(sub) /\ \A r \in DOMAIN s : s[r] \in PlanRows
    BY <1>5, RowsOf
  <2>2. Moved(s) \in [1 .. Len(sub) -> PlanRows]
    BY <1>4, <2>1
  <2>3. Moved(s) \in Seq(PlanRows) /\ Len(Moved(s)) = Len(sub)
    <3> HIDE DEF Moved
    <3> QED
      BY <1>0, <2>2
  <2> QED
    BY <1>0, <2>1, <2>3
<1>6. /\ sub' \in Seq(PlanRows) /\ Len(sub') = Len(sub) /\ DOMAIN sub' = DOMAIN sub
      /\ grant' \in Seq(PlanRows) /\ Len(grant') = Len(sub) /\ DOMAIN grant' = DOMAIN grant
      /\ \A r \in DOMAIN sub :
          /\ sub'[r] = IF r = g THEN Early(sub[r])
                       ELSE IF r \in Started(grant) THEN Over(sub[r]) ELSE sub[r]
          /\ grant'[r] = IF r = g THEN Early(grant[r])
                         ELSE IF r \in Started(grant) THEN Over(grant[r]) ELSE grant[r]
  <2> HIDE DEF Moved
  <2>1. sub \in Seq(PlanRows) /\ grant \in Seq(PlanRows)
    BY RowByRow
  <2>2. sub' \in Seq(PlanRows) /\ Len(sub') = Len(sub) /\ grant' \in Seq(PlanRows) /\ Len(grant') = Len(sub)
    BY <1>0, <1>1, <1>5, <2>1
  <2>3. DOMAIN sub' = DOMAIN sub /\ DOMAIN grant' = DOMAIN grant
    BY <1>0, <1>3, <2>2
  <2> QED
    BY <1>0, <1>1, <1>5, <2>1, <2>2, <2>3
<1> HIDE DEF Moved
<1>7. Types'
  BY <1>0, <1>1, <1>6 DEF Types, RowTypes
<1>8. g \in DOMAIN sub /\ grant[g].status = "ACTIVE" /\ grant[g].to > now
  BY <1>1, <1>3 DEF Reserved, Open
<1>9. \A r \in DOMAIN sub : r # g /\ r \notin Started(grant) =>
        ~(grant[r].status = "ACTIVE" /\ grant[r].to > now)
  BY <1>1, <1>3 DEF Reserved, Open
<1>10. ASSUME NEW q \in DOMAIN sub
       PROVE  /\ RowAgreed(grant'[q], sub'[q], now') /\ RowEnded(grant'[q], now')
              /\ irregular \/ RowRegular(grant'[q], sub'[q], now')
              /\ irregular \/ RowBrief(grant'[q], now')
  <2>1. /\ RowAgreed(grant[q], sub[q], now) /\ RowEnded(grant[q], now)
        /\ irregular \/ RowRegular(grant[q], sub[q], now)
        /\ irregular \/ RowBrief(grant[q], now)
        /\ sub[q] \in PlanRows /\ grant[q] \in PlanRows
    BY RowByRow
  <2>2. CASE q = g
    BY <1>1, <1>3, <1>4, <1>6, <1>8, <2>1, <2>2 DEF RowAgreed, RowEnded, RowRegular, RowBrief
  <2>3. CASE q # g /\ q \in Started(grant)
    BY <1>1, <1>3, <1>4, <1>6, <2>1, <2>3 DEF RowAgreed, RowEnded, RowRegular, RowBrief
  <2>4. CASE q # g /\ q \notin Started(grant)
    BY <1>1, <1>6, <2>1, <2>4
  <2> QED
    BY <2>2, <2>3, <2>4
<1>11. ASSUME Disjoint PROVE Disjoint'
  <2>1. ASSUME NEW q \in DOMAIN grant, q # g, grant'[q].status = "ACTIVE"
        PROVE  grant'[q] = grant[q] /\ grant'[q].to <= now
    <3>1. q \in DOMAIN sub /\ grant[q] \in PlanRows /\ grant[q].to \in Int
      BY <1>3, RowByRow
    <3>2. q \notin Started(grant)
      BY <1>4, <1>6, <2>1, <3>1
    <3>3. grant'[q] = grant[q]
      BY <1>6, <2>1, <3>1, <3>2
    <3> QED
      BY <1>3, <1>9, <2>1, <3>1, <3>2, <3>3
  <2>2. grant'[g].from = now
    <3>1. grant[g] \in PlanRows
      BY <1>8, RowByRow
    <3> QED
      BY <1>4, <1>6, <1>8, <3>1
  <2>3. ASSUME NEW q \in DOMAIN grant, NEW h \in DOMAIN grant, q # h,
               grant'[q].status = "ACTIVE", grant'[h].status = "ACTIVE"
        PROVE  grant'[q].to <= grant'[h].from \/ grant'[h].to <= grant'[q].from
    <3>1. CASE q = g
      BY <2>1, <2>2, <2>3, <3>1
    <3>2. CASE h = g
      BY <2>1, <2>2, <2>3, <3>2
    <3>3. CASE q # g /\ h # g
      BY <1>11, <2>1, <2>3, <3>3 DEF Disjoint
    <3> QED
      BY <3>1, <3>2, <3>3
  <2> QED
    BY <1>6, <2>3 DEF Disjoint
<1> QED
  BY <1>1, <1>6, <1>7, <1>10, <1>11, ChangedInv

(* reverseOrderForFullRefund shortens the plan, or ends it.                *)
LEMMA RefundStep ==
    ASSUME Inv, NEW r \in DOMAIN bill, Refund(r)
    PROVE  Inv'
<1>0. Types /\ Len(grant) = Len(sub) /\ Len(bill) = Len(sub)
  BY DEF Inv, Types, RowTypes
<1>1. /\ r \in DOMAIN sub /\ DOMAIN grant = DOMAIN sub /\ now \in Int
      /\ sub \in Seq(PlanRows) /\ grant \in Seq(PlanRows)
      /\ sub[r] \in PlanRows /\ grant[r] \in PlanRows /\ grant[r].to \in Int
      /\ RowAgreed(grant[r], sub[r], now)
      /\ irregular \/ RowRegular(grant[r], sub[r], now)
      /\ (irregular \/ RowBrief(grant[r], now)) /\ grant[r].from \in Int
  BY RowByRow
<1>2. /\ now' = now /\ payment' = payment /\ stale' = stale /\ irregular' = irregular
      /\ RefundOrder(r)
  BY DEF Refund
<1>3. bill' \in Seq(Bills) /\ Len(bill') = Len(bill)
  <2>1. bill[r] \in Bills /\ "PAID" \in Sources /\ "REFUNDED" \in Sources /\ bill \in Seq(Bills)
    BY RowByRow DEF Sources
  <2>2. PICK x \in Int, y \in Int : x = bill[r]["PAID"] - 1 /\ y = bill[r]["REFUNDED"] + 1
    BY <2>1 DEF Bills
  <2>3. bill' = [bill EXCEPT ![r] = [bill[r] EXCEPT !["PAID"] = x, !["REFUNDED"] = y]]
    BY <1>2, <2>1, <2>2 DEF RefundOrder, Bills
  <2>4. [bill[r] EXCEPT !["PAID"] = x, !["REFUNDED"] = y] \in Bills
    BY <2>1 DEF Bills
  <2> QED
    BY <2>1, <2>3, <2>4
<1>4. CASE grant[r].status # "ACTIVE"
  <2>1. sub' = sub /\ grant' = grant
    BY <1>4 DEF Refund
  <2>2. Types'
    BY <1>0, <1>2, <1>3, <2>1 DEF Types, RowTypes
  <2>3. \A q \in DOMAIN sub :
          /\ RowAgreed(grant'[q], sub'[q], now') /\ RowEnded(grant'[q], now')
          /\ irregular \/ RowRegular(grant'[q], sub'[q], now')
          /\ irregular \/ RowBrief(grant'[q], now')
    BY <1>2, <2>1, RowByRow
  <2>4. Disjoint => Disjoint'
    BY <2>1 DEF Disjoint
  <2> QED
    BY <1>2, <2>1, <2>2, <2>3, <2>4, ChangedInv
<1>5. CASE grant[r].status = "ACTIVE"
  <2>1. PICK to \in Int : to = IF grant[r].to > now + Term THEN grant[r].to - Term ELSE now
    BY <1>1, TimelineAssumption
  <2>2. PICK st \in {"ACTIVE", "CANCELED"} : st = IF to > now THEN "ACTIVE" ELSE "CANCELED"
    OBVIOUS
  <2>3. PICK s, g : /\ s = [sub[r] EXCEPT !.to = to, !.status = st]
                    /\ g = [grant[r] EXCEPT !.to = to, !.status = st]
    OBVIOUS
  <2>4. /\ s \in PlanRows /\ s.plan = sub[r].plan /\ s.from = sub[r].from /\ s.to = to /\ s.status = st
        /\ g \in PlanRows /\ g.plan = grant[r].plan /\ g.from = grant[r].from /\ g.to = to
        /\ g.status = st
    BY <1>1, <2>3 DEF PlanRows
  <2>5. sub' = [sub EXCEPT ![r] = s] /\ grant' = [grant EXCEPT ![r] = g]
    BY <1>5, <2>1, <2>2, <2>3 DEF Refund
  <2>6. /\ sub' \in Seq(PlanRows) /\ Len(sub') = Len(sub) /\ DOMAIN sub' = DOMAIN sub /\ sub'[r] = s
        /\ grant' \in Seq(PlanRows) /\ Len(grant') = Len(grant) /\ grant'[r] = g
        /\ \A q \in DOMAIN sub : q # r => sub'[q] = sub[q] /\ grant'[q] = grant[q]
    BY <1>1, <2>4, <2>5
  <2>7. Types'
    BY <1>0, <1>2, <1>3, <2>6 DEF Types, RowTypes
  <2>8. (to > now => grant[r].to > now /\ to <= grant[r].to) /\ (~(to > now) => to = now)
    BY <1>1, <2>1, TimelineAssumption
  <2>9. ASSUME NEW q \in DOMAIN sub
        PROVE  /\ RowAgreed(grant'[q], sub'[q], now') /\ RowEnded(grant'[q], now')
               /\ irregular \/ RowRegular(grant'[q], sub'[q], now')
               /\ irregular \/ RowBrief(grant'[q], now')
    <3>1. CASE q = r
      <4>1. to > now => sub[r].plan = grant[r].plan /\ sub[r].status = "ACTIVE" /\ sub[r].to = grant[r].to
        BY <1>1, <1>5, <2>8 DEF RowAgreed
      <4>2. to > now => irregular \/ sub[r].from = grant[r].from
        BY <1>1, <2>8, <4>1 DEF RowRegular
      <4>3. irregular \/ RowBrief(g, now)
        <5>1. st = "ACTIVE" => to > now
          BY <2>2
        <5> QED
          BY <1>1, <1>5, <2>4, <2>8, <5>1, TimelineAssumption DEF RowBrief
      <4> QED
        BY <1>1, <1>2, <2>2, <2>4, <2>6, <2>8, <3>1, <4>1, <4>2, <4>3 DEF RowAgreed, RowEnded, RowRegular
    <3>2. CASE q # r
      BY <1>2, <2>6, <3>2, RowByRow
    <3> QED
      BY <3>1, <3>2
  <2>10. Disjoint => Disjoint'
    <3>1. \A q \in DOMAIN grant : grant[q].to \in Int
      BY RowByRow
    <3>2. \A q \in DOMAIN grant : grant'[q].status = "ACTIVE" =>
             /\ grant[q].status = "ACTIVE" /\ grant'[q].from = grant[q].from
             /\ grant'[q].to <= grant[q].to
      <4>1. st = "ACTIVE" => to > now
        BY <2>2
      <4>2. \A q \in DOMAIN grant : q # r => grant'[q] = grant[q]
        BY <1>1, <2>6
      <4> QED
        BY <1>1, <1>5, <2>4, <2>6, <2>8, <3>1, <4>1, <4>2
    <3> QED
      BY <1>0, <2>6, <2>7, <3>2, StaysDisjoint
  <2> QED
    BY <1>2, <2>6, <2>7, <2>9, <2>10, ChangedInv
<1> QED
  BY <1>4, <1>5

-----------------------------------------------------------------------------
(* A step that touches only the payment.                                   *)
LEMMA PaymentOnly ==
    ASSUME Inv, UNCHANGED <<now, rows, stale, irregular>>, payment' \in Payments
    PROVE  Inv'
<1>1. /\ now' = now /\ sub' = sub /\ grant' = grant /\ bill' = bill
      /\ stale' = stale /\ irregular' = irregular
  BY DEF rows
<1>2. Types'
  BY <1>1 DEF Inv, Types, RowTypes
<1> QED
  BY <1>1, <1>2 DEF Inv, Agreed, Ended, Disjoint, Regular, Brief, Open

(* The way of a payment up to its settlement.                              *)
LEMMA PaymentStep ==
    ASSUME Inv, CreatePayment \/ ExpirePayment \/ DropPayment
    PROVE  Inv'
<1>1. payment \in Payments /\ UNCHANGED <<now, rows, stale, irregular>>
  BY DEF Inv, Types, CreatePayment, ExpirePayment, DropPayment
<1>2. CASE DropPayment
  BY <1>1, <1>2, PaymentOnly, PaymentKept DEF DropPayment
<1>3. CASE CreatePayment \/ ExpirePayment
  <2>1. payment # None
    BY <1>3 DEF CreatePayment, ExpirePayment, None
  <2>2. PICK step \in {"pending", "late"} : payment' = [payment EXCEPT !.step = step]
    BY <1>3 DEF CreatePayment, ExpirePayment
  <2>3. payment' \in Payments
    BY <1>1, <2>1, <2>2 DEF Payments
  <2> QED
    BY <1>1, <2>3, PaymentOnly
<1> QED
  BY <1>2, <1>3

(* quoteCheckout, and the quote of an upgrade.                             *)
LEMMA QuoteStep ==
    ASSUME Inv, NEW p \in Plans,
           \/ \E preference \in Preferences : Quote(p, preference)
           \/ \E r \in DOMAIN sub : QuoteUpgrade(r, p)
    PROVE  Inv'
<1>1. CASE \E preference \in Preferences : Quote(p, preference)
  <2>1. PICK preference \in Preferences : Quote(p, preference)
    BY <1>1
  <2>2. PICK mode \in Modes, at \in Int : mode = Mode(p, preference) /\ at = EffectiveAt(mode)
    BY ModeIs DEF Inv
  <2>3. payment' = [step |-> "quoted", mode |-> mode, plan |-> p, at |-> at]
    BY <2>1, <2>2 DEF Quote
  <2>4. payment' \in Payments
    BY <2>3 DEF Payments
  <2> QED
    BY <2>1, <2>4, PaymentOnly DEF Quote
<1>2. CASE \E r \in DOMAIN sub : QuoteUpgrade(r, p)
  <2>1. PICK r \in DOMAIN sub : QuoteUpgrade(r, p)
    BY <1>2
  <2>2. grant[r] \in PlanRows /\ r \in Nat /\ bill[r] \in Bills
    <3>1. sub \in Seq(PlanRows) /\ bill \in Seq(Bills) /\ DOMAIN bill = DOMAIN sub
      BY RowByRow
    <3> QED
      BY <3>1, RowByRow
  <2>3. PICK print \in Prints : print = Fingerprint(r)
    BY <2>2 DEF Fingerprint, Prints
  <2>4. payment' = [step |-> "quoted", mode |-> "upgrade", plan |-> p, at |-> print]
    BY <2>1, <2>3 DEF QuoteUpgrade
  <2>5. payment' \in Payments
    BY <2>4 DEF Payments
  <2> QED
    BY <2>1, <2>5, PaymentOnly DEF QuoteUpgrade
<1> QED
  BY <1>1, <1>2

(* An upgrade paid from the wallet, or by a payment that finds what was    *)
(* quoted.                                                                 *)
LEMMA UpgradesStep ==
    ASSUME Inv, SettleUpgrade \/ \E r \in DOMAIN sub, p \in Plans : UpgradeFromWallet(r, p)
    PROVE  Inv'
<1>0. payment \in Payments
  BY DEF Inv, Types
<1>1. CASE SettleUpgrade
  <2>1. PICK p, r : p = payment.plan /\ r = payment.at.row
    OBVIOUS
  <2>2. /\ payment.step \in {"pending", "late"} /\ Upgradable(r, p) /\ Upgrade(r, p) /\ payment' = None
        /\ now' = now /\ stale' = stale /\ irregular' = irregular
    BY <1>1, <2>1 DEF SettleUpgrade
  <2>3. p \in Plans
    BY <1>0, <2>1, <2>2 DEF Payments, None
  <2> QED
    BY <1>0, <2>2, <2>3, PaymentKept, UpgradeStep
<1>2. CASE \E r \in DOMAIN sub, p \in Plans : UpgradeFromWallet(r, p)
  <2>1. PICK r \in DOMAIN sub, p \in Plans : UpgradeFromWallet(r, p)
    BY <1>2
  <2> QED
    BY <1>0, <2>1, PaymentKept, UpgradeStep DEF UpgradeFromWallet
<1> QED
  BY <1>1, <1>2

(* Time passes, and plans end in both records at once.                     *)
LEMMA TickStep ==
    ASSUME Inv, Tick
    PROVE  Inv'
<1>1. /\ now' = now + 1 /\ sub' = sub /\ grant' = grant /\ bill' = bill /\ payment' = payment
      /\ stale' = stale /\ irregular' = irregular
  BY DEF Tick, rows
<1>2. now \in Int /\ now' \in Int /\ \A t \in Int : t > now' => t > now
  BY <1>1, RowByRow
<1>3. Types'
  BY <1>1, <1>2 DEF Inv, Types, RowTypes
<1>4. ASSUME NEW q \in DOMAIN sub
      PROVE  /\ RowAgreed(grant'[q], sub'[q], now') /\ RowEnded(grant'[q], now')
             /\ irregular \/ RowRegular(grant'[q], sub'[q], now')
             /\ irregular \/ RowBrief(grant'[q], now')
  <2>1. /\ RowAgreed(grant[q], sub[q], now) /\ RowEnded(grant[q], now)
        /\ irregular \/ RowRegular(grant[q], sub[q], now)
        /\ irregular \/ RowBrief(grant[q], now)
        /\ sub[q].to \in Int /\ grant[q].to \in Int /\ grant[q].from \in Int
    BY RowByRow
  <2> QED
    BY <1>1, <1>2, <2>1 DEF RowAgreed, RowEnded, RowRegular, RowBrief
<1>5. Disjoint => Disjoint'
  BY <1>1 DEF Disjoint
<1> QED
  BY <1>1, <1>3, <1>4, <1>5, ChangedInv

-----------------------------------------------------------------------------
(* Before the first order there is no plan.                                *)
LEMMA InvInit == Init => Inv
<1> SUFFICES ASSUME Init PROVE Inv
  OBVIOUS
<1>1. /\ now = 0 /\ sub = <<>> /\ grant = <<>> /\ bill = <<>> /\ payment = None
      /\ stale = FALSE /\ irregular = FALSE
  BY DEF Init
<1>2. Types
  <2>1. RowTypes
    BY <1>1 DEF RowTypes
  <2>2. payment \in Payments
    BY <1>1 DEF Payments
  <2>3. stale \in BOOLEAN /\ irregular \in BOOLEAN
    BY <1>1, Zenon
  <2>4. now \in Int
    BY <1>1
  <2> QED
    BY <2>1, <2>2, <2>3, <2>4, Zenon DEF Types
<1>3. DOMAIN sub = {} /\ DOMAIN grant = {}
  BY <1>1
<1> QED
  BY <1>1, <1>2, <1>3 DEF Inv, Agreed, Ended, Disjoint, Regular, Brief, Open

(* Every step keeps the invariant.                                         *)
LEMMA InvStep == Inv /\ [Next]_vars => Inv'
<1> SUFFICES ASSUME Inv, [Next]_vars PROVE Inv'
  OBVIOUS
<1>1. ASSUME NEW p \in Plans, NEW preference \in Preferences, Checkout(p, preference) PROVE Inv'
  BY <1>1, CheckoutStep
<1>2. ASSUME NEW p \in Plans, NEW preference \in Preferences, Quote(p, preference) PROVE Inv'
  BY <1>2, QuoteStep
<1>3. CASE CreatePayment \/ ExpirePayment \/ DropPayment
  BY <1>3, PaymentStep
<1>4. CASE Settle
  BY <1>4, SettleStep
<1>5. CASE SettleUpgrade
  BY <1>5, UpgradesStep
<1>6. ASSUME NEW r \in DOMAIN sub, NEW p \in Plans, UpgradeFromWallet(r, p) PROVE Inv'
  BY <1>6, UpgradesStep
<1>7. ASSUME NEW r \in DOMAIN sub, NEW p \in Plans, QuoteUpgrade(r, p) PROVE Inv'
  BY <1>7, QuoteStep
<1>8. ASSUME NEW p \in Plans, Gift(p) PROVE Inv'
  BY <1>8, GiftStep
<1>9. ASSUME NEW p \in Plans, Redeem(p, "RENEW") \/ Redeem(p, "REPLACE") PROVE Inv'
  BY <1>9, RedeemStep
<1>10. ASSUME NEW g \in DOMAIN grant, Activate(g) PROVE Inv'
  BY <1>10, ActivateStep
<1>11. ASSUME NEW g \in DOMAIN grant, NEW t \in 1 .. MaxTime + Term, UpdateValidity(g, t) PROVE Inv'
  <2>1. t \in Int
    BY TimelineAssumption
  <2> QED
    BY <1>11, <2>1, ValidityStep
<1>12. ASSUME NEW r \in DOMAIN bill, Refund(r) PROVE Inv'
  BY <1>12, RefundStep
<1>13. CASE Tick
  BY <1>13, TickStep
<1>14. CASE UNCHANGED vars
  <2>1. UNCHANGED <<now, rows, stale, irregular>> /\ payment' \in Payments
    BY <1>14 DEF vars, rows, Inv, Types
  <2> QED
    BY <2>1, PaymentOnly
<1> QED
  BY <1>1, <1>2, <1>3, <1>4, <1>5, <1>6, <1>7, <1>8, <1>9, <1>10, <1>11, <1>12, <1>13, <1>14 DEF Next

(* The invariant holds in every state.                                     *)
THEOREM Invariance == Spec => []Inv
<1> QED
  BY InvInit, InvStep, PTL DEF Spec

(* Two standard plans never run at the same time, unless a payment was     *)
(* fulfilled on other terms than the timeline it met: grantFromOrder,      *)
(* updatePlanValidity and confirm agree on it.                             *)
THEOREM PlansNeverOverlap == Spec => []PlansDisjoint
<1>1. Inv => PlansDisjoint
  BY DEF Inv, Disjoint, PlansDisjoint
<1> QED
  BY <1>1, Invariance, PTL

(* The subscription and the grant of a plan agree, and an open             *)
(* subscription gives access unless a gift, a code or a stale payment met  *)
(* a reservation.                                                          *)
THEOREM RecordsInStep == Spec => []InStep
<1>1. Inv => InStep
  <2> SUFFICES ASSUME Inv PROVE InStep
    OBVIOUS
  <2>1. DOMAIN sub = DOMAIN grant
    BY RowByRow
  <2>2. irregular \/ Open(sub) \subseteq Open(grant)
    BY DEF Inv, Regular
  <2> QED
    BY <2>1, <2>2 DEF Inv, Agreed, InStep
<1> QED
  BY <1>1, Invariance, PTL

-----------------------------------------------------------------------------
(* A plan that starts when it did and ends no sooner is kept.              *)
LEMMA KeptIf ==
    ASSUME Inv, NEW r \in Open(grant), grant'[r].status = "ACTIVE", grant'[r].from = grant[r].from,
           NEW to \in Int, grant'[r].to = to, grant[r].to <= to
    PROVE  Kept(r)
<1>1. now \in Int /\ grant[r].from \in Int /\ grant[r].to \in Int
  BY RowByRow DEF Open
<1> QED
  BY <1>1 DEF Kept, Ahead

(* So is one that is left alone.                                           *)
LEMMA KeptUnchanged ==
    ASSUME Inv, NEW r \in Open(grant), grant'[r] = grant[r]
    PROVE  Kept(r)
<1>1. grant[r].to \in Int /\ grant[r].status = "ACTIVE"
  BY RowByRow DEF Open
<1>2. PICK to \in Int : grant'[r].to = to /\ grant[r].to <= to
  BY <1>1
<1> QED
  BY <1>1, <1>2, KeptIf

(* A purchase that would be quoted so now extends the plan that runs or    *)
(* leaves it alone, unless the customer switches at once.                  *)
LEMMA PurchaseKeeps ==
    ASSUME Inv, ~irregular, MayBuy, NEW p \in Plans, NEW mode \in Modes, NEW at \in Int,
           Purchase(p, mode, at, "PAID"), NEW r \in Open(grant),
           Current # 0 => \E preference \in Preferences : mode = Mode(p, preference)
    PROVE  r \in Started(grant) /\ (Kept(r) \/ mode = "immediate_switch")
<1>1. Types /\ Agreed /\ Regular /\ Reserved(sub) = {}
  BY DEF Inv, MayBuy
<1>2. r \in Open(sub) /\ sub[r].plan = grant[r].plan /\ sub[r].to = grant[r].to
  BY <1>1 DEF Agreed
<1>3. r \in Started(sub) /\ Current # 0
  BY <1>1, <1>2, NothingOpen DEF Reserved
<1>4. r \in Started(grant)
  BY <1>1, <1>2, <1>3 DEF Started, Regular
<1>5. PICK preference \in Preferences : mode = Mode(p, preference)
  BY <1>3
<1>6. "PAID" \in Sources /\ "PAID" # "ADMIN"
  BY DEF Sources
<1>7. CASE sub[Current].plan = p
  <2>1. Renews(p, "PAID")
    BY <1>3, <1>6, <1>7 DEF Renews
  <2>2. PICK c : c = Current
    OBVIOUS
  <2>3. /\ c \in Started(sub) /\ sub[c].plan = p /\ grant'[c].status = "ACTIVE"
        /\ grant'[c].to = sub[c].to + Term
        /\ grant'[c].from = IF grant[c].plan # p \/ grant[c].to <= now THEN now ELSE grant[c].from
    <3>1. /\ c \in Started(sub) /\ sub[c].plan = p /\ Placed(c, mode = "scheduled_switch")
          /\ grant'[c].to = sub[c].to + Term
          /\ grant'[c].from =
                IF grant[c].plan # p \/ grant[c].to <= now THEN now ELSE grant[c].from
      BY <1>6, <2>1, <2>2, RenewEffect
    <3>2. grant'[c].status = "ACTIVE"
      BY <3>1 DEF Placed
    <3> QED
      BY <3>1, <3>2
  <2>4. c \in Open(sub)
    BY <2>3 DEF Started
  <2>5. r = c
    BY <1>1, <1>2, <2>4, OneOpen
  <2>6. now \in Int /\ grant[r].to \in Int /\ grant[r].to > now
    BY RowByRow DEF Open
  <2>7. PICK to \in Int : to = grant[r].to + Term /\ grant[r].to <= to
    BY <2>6, TimelineAssumption
  <2>8. grant'[r].from = grant[r].from /\ grant'[r].to = to
    BY <1>2, <2>3, <2>5, <2>6, <2>7
  <2> QED
    BY <1>4, <2>3, <2>5, <2>7, <2>8, KeptIf
<1>8. CASE sub[Current].plan # p
  <2>1. ~Renews(p, "PAID")
    BY <1>8 DEF Renews
  <2>2. mode = "scheduled_switch" \/ mode = "immediate_switch"
    BY <1>3, <1>5, <1>8 DEF Mode, Preferences
  <2>3. CASE mode = "scheduled_switch"
    <3>1. PICK keep \in BOOLEAN : keep
      OBVIOUS
    <3>2. PICK q, from : /\ q = Len(sub) + 1
                         /\ from = IF Current # 0 /\ keep /\ at > now THEN at ELSE now
      OBVIOUS
    <3>3. q \notin DOMAIN grant /\ Placed(q, keep)
      BY <1>6, <2>1, <2>3, <3>1, <3>2, NewRowEffect
    <3>4. r \in DOMAIN grant \ {q}
      BY <3>3 DEF Open
    <3>5. grant'[r] = grant[r]
      BY <3>1, <3>3, <3>4 DEF Placed
    <3> QED
      BY <1>4, <3>5, KeptUnchanged
  <2> QED
    BY <1>4, <2>2, <2>3
<1> QED
  BY <1>7, <1>8

(* A purchase from the wallet ...                                          *)
LEMMA CheckoutKeeps ==
    ASSUME Inv, ~irregular, NEW r \in Open(grant),
           NEW p \in Plans, NEW preference \in Preferences, Checkout(p, preference)
    PROVE  Kept(r) \/ GivenUp(r)
<1>0. Types
  BY DEF Inv
<1>1. PICK mode \in Modes, at \in Int : mode = Mode(p, preference) /\ at = EffectiveAt(mode)
  BY <1>0, ModeIs
<1>2. Purchase(p, mode, at, "PAID") /\ MayBuy
  BY <1>1 DEF Checkout
<1>3. r \in Started(grant) /\ (Kept(r) \/ mode = "immediate_switch")
  BY <1>1, <1>2, PurchaseKeeps
<1>4. mode = "immediate_switch" => preference = "immediate_switch"
  BY <1>1 DEF Mode
<1> QED
  BY <1>3, <1>4 DEF GivenUp

(* ... and one through Epay, if it is not stale.                           *)
LEMMA SettleKeeps ==
    ASSUME Inv, ~irregular, ~stale', NEW r \in Open(grant), Settle
    PROVE  Kept(r) \/ GivenUp(r)
<1>1. /\ payment \in Payments /\ payment.step \in {"pending", "late"} /\ payment.mode # "upgrade"
      /\ Purchase(payment.plan, payment.mode, payment.at, "PAID") /\ Fresh(payment)
  BY DEF Inv, Types, Settle
<1>2. PICK p \in Plans, mode \in Modes, at \in Int :
        p = payment.plan /\ mode = payment.mode /\ at = payment.at
  BY <1>1 DEF Payments, None
<1>3. Purchase(p, mode, at, "PAID") /\ MayBuy
  BY <1>1, <1>2 DEF Fresh
<1>4. Current # 0 => \E preference \in Preferences : mode = Mode(p, preference)
  BY <1>1, <1>2 DEF Fresh
<1>5. r \in Started(grant) /\ (Kept(r) \/ mode = "immediate_switch")
  BY <1>3, <1>4, PurchaseKeeps
<1> QED
  BY <1>1, <1>2, <1>5 DEF GivenUp

(* A code for the plan that ends last extends it.                          *)
LEMMA RedeemKeeps ==
    ASSUME Inv, NEW r \in Open(grant), NEW p \in Plans, Redeem(p, "RENEW"),
           p = grant[r].plan, LastToEnd(Open(sub)) = {r}
    PROVE  Kept(r)
<1>1. r \in Open(sub) /\ sub[r].plan = p /\ sub[r].to = grant[r].to
  BY DEF Inv, Agreed
<1>2. PICK q \in LastToEnd(Open(sub)) : RedeemOn(q, p, "RENEW")
  BY <1>1 DEF Redeem
<1>4. q = r
  OBVIOUS
<1>5. Extends(r, p, "RENEW")
  BY <1>1 DEF Extends
<1>6. PICK no \in BOOLEAN : ~no
  OBVIOUS
<1>7. PICK mode \in {"RENEW", "REPLACE"} : mode = "RENEW"
  OBVIOUS
<1>8. /\ Placed(r, no) /\ grant'[r].to = sub[r].to + Term
      /\ grant'[r].from = IF grant[r].plan # p \/ mode = "REPLACE" \/ grant[r].to <= now
                          THEN now ELSE grant[r].from
  BY <1>1, <1>2, <1>4, <1>5, <1>6, <1>7, RedeemOnEffect
<1>9. now \in Int /\ grant[r].to \in Int /\ grant[r].to > now
  BY RowByRow DEF Open
<1>10. PICK to \in Int : to = grant[r].to + Term /\ grant[r].to <= to
  BY <1>9, TimelineAssumption
<1>11. grant'[r].from = grant[r].from /\ grant'[r].to = to /\ grant'[r].status = "ACTIVE"
  BY <1>1, <1>7, <1>8, <1>9, <1>10 DEF Placed
<1> QED
  BY <1>10, <1>11, KeptIf

(* An upgrade keeps the time of its plan.                                  *)
LEMMA UpgradeKeeps ==
    ASSUME Inv, NEW r \in Open(grant), NEW q, NEW p, Upgrade(q, p)
    PROVE  Kept(r)
<1>1. /\ now \in Int /\ grant \in Seq(PlanRows) /\ r \in DOMAIN grant /\ grant[r] \in PlanRows
      /\ grant[r].to \in Int /\ grant[r].status = "ACTIVE"
  BY RowByRow DEF Open
<1>2. grant' = [grant EXCEPT ![q] = [grant[q] EXCEPT !.plan = p]]
  BY DEF Upgrade
<1>3. grant'[r] = IF r = q THEN [grant[r] EXCEPT !.plan = p] ELSE grant[r]
  BY <1>1, <1>2
<1>4. /\ [grant[r] EXCEPT !.plan = p].from = grant[r].from
      /\ [grant[r] EXCEPT !.plan = p].to = grant[r].to
      /\ [grant[r] EXCEPT !.plan = p].status = grant[r].status
  BY <1>1 DEF PlanRows
<1>5. PICK to \in Int : to = grant[r].to /\ grant[r].to <= to
  BY <1>1
<1>6. grant'[r].status = "ACTIVE" /\ grant'[r].from = grant[r].from /\ grant'[r].to = to
  BY <1>1, <1>3, <1>4, <1>5
<1> QED
  BY <1>5, <1>6, KeptIf

(* A reservation that starts early lasts what an offer does: no less than  *)
(* was reserved.                                                           *)
LEMMA ActivateKeeps ==
    ASSUME Inv, ~irregular, NEW r \in Open(grant), Activate(r)
    PROVE  Kept(r)
<1>1. /\ now \in Int /\ grant \in Seq(PlanRows) /\ r \in DOMAIN grant /\ grant[r] \in PlanRows
      /\ grant[r].to \in Int /\ grant[r].from \in Int /\ grant[r].status = "ACTIVE"
      /\ RowBrief(grant[r], now)
  BY RowByRow DEF Open
<1>2. grant[r].from > now
  <2>1. r \in Reserved(grant)
    BY DEF Activate, Activatable
  <2> QED
    BY <1>1, <2>1 DEF Reserved, Started
<1>3. grant'[r] = [grant[r] EXCEPT !.from = now, !.to = now + Term]
  BY <1>1 DEF Activate
<1>4. PICK later \in Int : later = now + Term
  BY <1>1, TimelineAssumption
<1>5. grant'[r].from = now /\ grant'[r].to = later /\ grant'[r].status = "ACTIVE"
  <2>1. grant'[r] = [grant[r] EXCEPT !.from = now, !.to = later]
    BY <1>3, <1>4
  <2> QED
    BY <1>1, <2>1 DEF PlanRows
<1>6. grant[r].to <= grant[r].from + Term
  BY <1>1, <1>2 DEF RowBrief
<1> QED
  BY <1>1, <1>2, <1>4, <1>5, <1>6, TimelineAssumption DEF Kept, Ahead

(* What any step does to a plan that runs or is reserved.                  *)
LEMMA KeptStep ==
    ASSUME Inv, Next, ~irregular, ~stale', NEW r \in Open(grant)
    PROVE  Kept(r) \/ GivenUp(r) \/ RenewalMissesPlan(r)
<1>0. r \in DOMAIN grant /\ grant \in Seq(PlanRows) /\ DOMAIN bill = DOMAIN grant
  BY RowByRow DEF Open
<1>1. ASSUME NEW p \in Plans, NEW preference \in Preferences, Checkout(p, preference)
      PROVE  Kept(r) \/ GivenUp(r) \/ RenewalMissesPlan(r)
  BY <1>1, CheckoutKeeps
<1>2. CASE Settle
  BY <1>2, SettleKeeps
<1>3. CASE SettleUpgrade
  <2>1. PICK p, q : Upgrade(q, p)
    BY <1>3 DEF SettleUpgrade
  <2> QED
    BY <2>1, UpgradeKeeps
<1>4. ASSUME NEW q \in DOMAIN sub, NEW p \in Plans, UpgradeFromWallet(q, p)
      PROVE  Kept(r)
  BY <1>4, UpgradeKeeps DEF UpgradeFromWallet
<1>5. ASSUME NEW p \in Plans, Gift(p) \/ Redeem(p, "REPLACE")
      PROVE  GivenUp(r)
  BY <1>5 DEF GivenUp
<1>6. ASSUME NEW p \in Plans, Redeem(p, "RENEW")
      PROVE  Kept(r) \/ GivenUp(r) \/ RenewalMissesPlan(r)
  <2>1. CASE p # grant[r].plan
    BY <1>6, <2>1 DEF GivenUp
  <2>2. CASE p = grant[r].plan /\ LastToEnd(Open(sub)) # {r}
    BY <1>6, <2>2 DEF RenewalMissesPlan
  <2>3. CASE p = grant[r].plan /\ LastToEnd(Open(sub)) = {r}
    BY <1>6, <2>3, RedeemKeeps
  <2> QED
    BY <2>1, <2>2, <2>3
<1>7. ASSUME NEW g \in DOMAIN grant, Activate(g)
      PROVE  Kept(r) \/ GivenUp(r) \/ RenewalMissesPlan(r)
  <2>1. CASE g = r
    BY <1>7, <2>1, ActivateKeeps
  <2>2. CASE g # r
    BY <1>7, <2>2 DEF GivenUp
  <2> QED
    BY <2>1, <2>2
<1>8. ASSUME NEW g \in DOMAIN grant, NEW t \in 1 .. MaxTime + Term, UpdateValidity(g, t)
      PROVE  Kept(r) \/ GivenUp(r) \/ RenewalMissesPlan(r)
  <2>1. CASE g = r
    BY <1>8, <2>1 DEF GivenUp
  <2>2. CASE g # r
    <3>1. grant' = [grant EXCEPT ![g] = [grant[g] EXCEPT !.to = t]]
      BY <1>8 DEF UpdateValidity
    <3> QED
      BY <1>0, <2>2, <3>1, KeptUnchanged
  <2> QED
    BY <2>1, <2>2
<1>9. ASSUME NEW q \in DOMAIN bill, Refund(q)
      PROVE  Kept(r) \/ GivenUp(r) \/ RenewalMissesPlan(r)
  <2>1. CASE q = r
    BY <1>9, <2>1 DEF GivenUp
  <2>2. CASE q # r
    <3>1. PICK g : grant' = grant \/ grant' = [grant EXCEPT ![q] = g]
      BY <1>9 DEF Refund
    <3> QED
      BY <1>0, <2>2, <3>1, KeptUnchanged
  <2> QED
    BY <2>1, <2>2
<1>10. CASE grant' = grant
  BY <1>10, KeptUnchanged
<1> QED
  BY <1>1, <1>2, <1>3, <1>4, <1>5, <1>6, <1>7, <1>8, <1>9, <1>10
  DEF Next, Quote, CreatePayment, ExpirePayment, DropPayment, QuoteUpgrade, Tick, rows

(* No plan that runs or is reserved is cut short by a purchase, a renewal  *)
(* or an upgrade that did not ask for it: resolveStandardPlanPurchasePolicy, *)
(* grantFromOrder's preserveExistingPlans and confirm's new term leave     *)
(* what was bought.  Left out are the three ways in which the code does    *)
(* break it: a RENEW code that meets another plan that ends later, against *)
(* docs/DOMAIN_MODEL.md:132; a stale payment; and whatever follows a       *)
(* subscription that has outlived its grant.                               *)
THEOREM PlansAreKept == Spec => PlanKept
<1> DEFINE Keeps == \A r \in Open(grant) :
                      Kept(r) \/ stale' \/ irregular \/ RenewalMissesPlan(r) \/ GivenUp(r)
<1>1. Inv /\ [Next]_vars => [Keeps]_vars
  BY KeptStep
<1>2. Spec => [][Keeps]_vars
  BY <1>1, Invariance, PTL DEF Spec
<1> QED
  BY <1>2 DEF PlanKept
=============================================================================
