-------------------------- MODULE EpayPaymentProofs --------------------------
(***************************************************************************)
(* For any number of attempts, callbacks, reconciliations and failures,    *)
(* settlement keeps the promise of module PaymentOutcome, but for the      *)
(* attempts that were fulfilled while another handler was about to queue   *)
(* their refund.  The inductive invariant says that orders and refunds     *)
(* exclude each other outside of overtaken, that both leave the attempt    *)
(* SETTLED, and that a handler only carries an attempt into settlement     *)
(* that the gateway has reported as paid.                                  *)
(***************************************************************************)
EXTENDS EpayPayment, TLAPS

Settling == {"settle", "rejected", "compensate", "retry"}

Inv ==
    /\ TypeOK
    /\ SettledIsAnswered
    /\ AbandonedNotFulfilled
    /\ \A a \in Attempts : orders[a] \in {0, 1}
    /\ \A a \in refunds \ overtaken : orders[a] = 0
    /\ \A h \in Handlers :
        handler[h].at = "compensate" /\ handler[h].attempt \notin overtaken
            => orders[handler[h].attempt] = 0
    /\ \A a \in Attempts : status[a] = "NONE" => a \notin active \cup abandoned
    /\ \A a \in Attempts :
        orders[a] = 1 \/ a \in refunds => gateway[a] = "paid"
    /\ \A h \in Handlers :
        handler[h].at \in Settling => gateway[handler[h].attempt] = "paid"
    /\ \A h \in Handlers :
        handler[h] # Idle => status[handler[h].attempt] # "NONE"
    /\ \A a \in Attempts : gateway[a] # "none" => status[a] # "NONE"

(* Before the first checkout there is nothing to answer for.               *)
LEMMA InvInit == Init => Inv
BY PaymentAssumption
DEF Init, Inv, TypeOK, SettledIsAnswered, AbandonedNotFulfilled, Idle, Settling

(* Every checkout, gateway event and handler step preserves Inv.           *)
LEMMA InvStep == Inv /\ [Next]_vars => Inv'
<1> SUFFICES ASSUME Inv, [Next]_vars PROVE Inv'
  OBVIOUS
<1> USE PaymentAssumption
    DEF Inv, TypeOK, SettledIsAnswered, AbandonedNotFulfilled, Idle, Working, Settling,
        rowVars, envVars
<1>1. ASSUME NEW a \in Attempts, NEW e \in BOOLEAN, Checkout(a, e)
      PROVE  Inv'
  BY <1>1 DEF Checkout, Expirable, Abandonable
<1>2. ASSUME NEW a \in Attempts, Poll(a)
      PROVE  Inv'
  BY <1>2 DEF Poll, Expirable
<1>3. ASSUME NEW a \in Attempts, TimePasses(a)
      PROVE  Inv'
  BY <1>3 DEF TimePasses
<1>4. ASSUME NEW a \in Attempts, ChangeTerms(a)
      PROVE  Inv'
  BY <1>4 DEF ChangeTerms
<1>5. ASSUME NEW a \in Attempts, OpenAtGateway(a)
      PROVE  Inv'
  BY <1>5 DEF OpenAtGateway, MoveAtGateway
<1>6. ASSUME NEW a \in Attempts, PayAtGateway(a)
      PROVE  Inv'
  BY <1>6 DEF PayAtGateway, MoveAtGateway
<1>7. ASSUME NEW a \in Attempts, CloseAtGateway(a)
      PROVE  Inv'
  BY <1>7 DEF CloseAtGateway, MoveAtGateway
<1>8. ASSUME NEW h \in Handlers, Query(h)
      PROVE  Inv'
  BY <1>8 DEF Query, Goto, Rest
<1>9. ASSUME NEW h \in Handlers, Close(h)
      PROVE  Inv'
  BY <1>9 DEF Close, Rest
<1>10. ASSUME NEW h \in Handlers, Settle(h)
      PROVE  Inv'
  BY <1>10 DEF Settle, Overtakes, Goto, Rest
<1>11. ASSUME NEW h \in Handlers, RecordRejection(h)
      PROVE  Inv'
  BY <1>11 DEF RecordRejection, Rest
<1>19. ASSUME NEW h \in Handlers, ReadOrder(h)
      PROVE  Inv'
  BY <1>19 DEF ReadOrder, Goto, Rest
<1>12. ASSUME NEW h \in Handlers, RecordRetry(h)
      PROVE  Inv'
  BY <1>12 DEF RecordRetry, Rest
<1>13. ASSUME NEW h \in Handlers, SettleFails(h)
      PROVE  Inv'
  BY <1>13 DEF SettleFails, Goto
<1>14. ASSUME NEW h \in Handlers, HandlerCrash(h)
      PROVE  Inv'
  BY <1>14 DEF HandlerCrash, Rest
<1>15. ASSUME NEW h \in Handlers, NEW a \in Attempts, Callback(h, a)
      PROVE  Inv'
  BY <1>15 DEF Callback, ManualReview, Goto
<1>16. ASSUME NEW h \in Handlers, NEW a \in Attempts, Reconcile(h, a)
      PROVE  Inv'
  BY <1>16 DEF Reconcile, Due, BeginQuery, ManualReview, Goto
<1>17. ASSUME NEW h \in Handlers, NEW a \in Attempts, AdminReconcile(h, a)
      PROVE  Inv'
  BY <1>17 DEF AdminReconcile, BeginQuery, ManualReview, Goto
<1>18. CASE UNCHANGED vars
  BY <1>18 DEF vars
<1> QED
  BY <1>1, <1>2, <1>3, <1>4, <1>5, <1>6, <1>7, <1>8, <1>9, <1>10,
     <1>11, <1>12, <1>13, <1>14, <1>15, <1>16, <1>17, <1>18, <1>19
  DEF Next, HandlerStep

(* Every step changes the outcome of at most one attempt, as promised.     *)
LEMMA OutcomeStep == Inv /\ Inv' /\ [Next]_vars => [Promise!Next]_Outcome
<1> SUFFICES ASSUME Inv, Inv', [Next]_vars PROVE [Promise!Next]_Outcome
  OBVIOUS
<1> USE DEF Inv, TypeOK, rowVars, envVars
<1>0. ASSUME UNCHANGED <<orders, refunds, gateway, overtaken>>
      PROVE  [Promise!Next]_Outcome
  BY <1>0 DEF Outcome
<1>A. /\ Outcome = [b \in Attempts |-> Outcome[b]]
      /\ Outcome' = [b \in Attempts |-> Outcome'[b]]
  BY DEF Outcome
<1>1. ASSUME NEW a \in Attempts, NEW e \in BOOLEAN, Checkout(a, e)
      PROVE  [Promise!Next]_Outcome
  BY <1>0, <1>1 DEF Checkout
<1>2. ASSUME NEW a \in Attempts, Poll(a)
      PROVE  [Promise!Next]_Outcome
  BY <1>0, <1>2 DEF Poll
<1>3. ASSUME NEW a \in Attempts, TimePasses(a)
      PROVE  [Promise!Next]_Outcome
  BY <1>0, <1>3 DEF TimePasses
<1>4. ASSUME NEW a \in Attempts, ChangeTerms(a)
      PROVE  [Promise!Next]_Outcome
  BY <1>0, <1>4 DEF ChangeTerms
<1>5. ASSUME NEW a \in Attempts, OpenAtGateway(a)
      PROVE  [Promise!Next]_Outcome
  <2>1. /\ orders' = orders /\ refunds' = refunds /\ overtaken' = overtaken
        /\ gateway[a] = "none" /\ gateway' = [gateway EXCEPT ![a] = "open"]
    BY <1>5 DEF OpenAtGateway, MoveAtGateway
  <2>2. \A b \in Attempts : gateway[b] = "paid" <=> gateway'[b] = "paid"
    BY <2>1
  <2>3. \A b \in Attempts : Outcome'[b] = Outcome[b]
    BY <2>1, <2>2 DEF Outcome
  <2> QED
    BY <2>3 DEF Outcome
<1>6. ASSUME NEW a \in Attempts, PayAtGateway(a)
      PROVE  [Promise!Next]_Outcome
  <2>1. /\ orders' = orders /\ refunds' = refunds /\ overtaken' = overtaken
        /\ gateway[a] = "open" /\ gateway' = [gateway EXCEPT ![a] = "paid"]
    BY <1>6 DEF PayAtGateway, MoveAtGateway
  <2>2. orders[a] = 0 /\ a \notin refunds
    BY <2>1
  <2>3. Outcome[a] = "unpaid" /\ Outcome'[a] = "paid"
    BY <2>1, <2>2 DEF Outcome
  <2>4. \A b \in Attempts : b # a => Outcome'[b] = Outcome[b]
    BY <2>1 DEF Outcome
  <2>5. Outcome' = [Outcome EXCEPT ![a] = "paid"]
    BY <1>A, <2>3, <2>4
  <2> QED
    BY <2>3, <2>5 DEF Promise!Next, Promise!Pay, Promise!Move
<1>7. ASSUME NEW a \in Attempts, CloseAtGateway(a)
      PROVE  [Promise!Next]_Outcome
  <2>1. /\ orders' = orders /\ refunds' = refunds /\ overtaken' = overtaken
        /\ gateway[a] = "open" /\ gateway' = [gateway EXCEPT ![a] = "closed"]
    BY <1>7 DEF CloseAtGateway, MoveAtGateway
  <2>2. \A b \in Attempts : gateway[b] = "paid" <=> gateway'[b] = "paid"
    BY <2>1
  <2>3. \A b \in Attempts : Outcome'[b] = Outcome[b]
    BY <2>1, <2>2 DEF Outcome
  <2> QED
    BY <2>3 DEF Outcome
<1>8. ASSUME NEW h \in Handlers, Query(h)
      PROVE  [Promise!Next]_Outcome
  BY <1>0, <1>8 DEF Query
<1>9. ASSUME NEW h \in Handlers, Close(h)
      PROVE  [Promise!Next]_Outcome
  BY <1>0, <1>9 DEF Close
<1>10. ASSUME NEW h \in Handlers, Settle(h)
      PROVE  [Promise!Next]_Outcome
  <2>0. PICK a : a = handler[h].attempt
    OBVIOUS
  <2>1. a \in Attempts /\ gateway[a] = "paid" /\ gateway' = gateway
    BY <1>10, <2>0 DEF Settle, Idle, Working, Settling
  <2>2. CASE UNCHANGED <<orders, refunds, overtaken>>
    BY <1>0, <2>1, <2>2
  <2>3. CASE ~UNCHANGED <<orders, refunds, overtaken>>
    <3>1. /\ orders' = [orders EXCEPT ![a] = @ + 1] /\ refunds' = refunds
          /\ status[a] # "SETTLED"
          /\ \A b \in Attempts : b # a => (b \in overtaken' <=> b \in overtaken)
      BY <1>10, <2>0, <2>3 DEF Settle, Overtakes
    <3>2. orders[a] = 0 /\ a \notin refunds
      BY <2>1, <2>3, <3>1 DEF SettledIsAnswered
    <3>3. orders'[a] = 1 /\ a \notin refunds'
      BY <2>1, <3>1, <3>2
    <3>4. Outcome[a] = "paid"
      BY <2>1, <3>2 DEF Outcome
    <3>5. Outcome'[a] = "fulfilled"
      BY <2>1, <3>3 DEF Outcome
    <3>6. ASSUME NEW b \in Attempts, b # a PROVE Outcome'[b] = Outcome[b]
      <4>1. orders'[b] = orders[b] /\ gateway' = gateway /\ refunds' = refunds
        BY <2>1, <3>1, <3>6
      <4>2. b \in overtaken' <=> b \in overtaken
        BY <3>1, <3>6
      <4>3. CASE orders[b] = 0
        <5>1. CASE b \in refunds
          BY <4>1, <4>3, <5>1 DEF Outcome
        <5>2. CASE b \notin refunds
          BY <4>1, <4>3, <5>2 DEF Outcome
        <5> QED
          BY <5>1, <5>2
      <4>4. CASE orders[b] = 1
        <5>1. CASE b \in refunds \ overtaken
          BY <4>1, <4>2, <4>4, <5>1 DEF Outcome
        <5>2. CASE b \notin refunds \ overtaken
          <6>1. b \notin refunds' \ overtaken' /\ orders'[b] = 1
            BY <4>1, <4>2, <4>4, <5>2
          <6>2. Outcome'[b] = "fulfilled"
            BY <6>1 DEF Outcome
          <6>3. Outcome[b] = "fulfilled"
            BY <4>4, <5>2 DEF Outcome
          <6> QED
            BY <6>2, <6>3
        <5> QED
          BY <5>1, <5>2
      <4> QED
        BY <4>3, <4>4
    <3>7. Outcome' = [Outcome EXCEPT ![a] = "fulfilled"]
      BY <1>A, <2>1, <3>5, <3>6
    <3> QED
      BY <2>1, <3>4, <3>7
         DEF Promise!Next, Promise!Fulfil, Promise!Move
  <2> QED
    BY <2>2, <2>3
<1>11. ASSUME NEW h \in Handlers, RecordRejection(h)
      PROVE  [Promise!Next]_Outcome
  <2>0. PICK a : a = handler[h].attempt
    OBVIOUS
  <2>1. a \in Attempts /\ gateway[a] = "paid" /\ gateway' = gateway
    BY <1>11, <2>0 DEF RecordRejection, Idle, Working, Settling
  <2>2. CASE UNCHANGED <<orders, refunds, overtaken>>
    BY <1>0, <2>1, <2>2
  <2>3. CASE ~UNCHANGED <<orders, refunds, overtaken>>
    <3>1. refunds' = refunds \cup {a} /\ orders' = orders /\ overtaken' = overtaken
      BY <1>11, <2>0 DEF RecordRejection
    <3>2. \A b \in Attempts : b # a => Outcome'[b] = Outcome[b]
      BY <2>1, <3>1 DEF Outcome
    <3>3. a \notin refunds
      BY <2>3, <3>1
    <3>4. CASE orders[a] = 0
      <4>1. Outcome[a] = "paid" /\ Outcome'[a] = "refunding"
        BY <2>1, <3>1, <3>3, <3>4 DEF Outcome
      <4>2. Outcome' = [Outcome EXCEPT ![a] = "refunding"]
        BY <1>A, <2>1, <3>2, <4>1
      <4> QED
        BY <2>1, <4>1, <4>2
           DEF Promise!Next, Promise!Compensate, Promise!Move
    <3>5. CASE orders[a] # 0
      <4>1. orders[a] = 1 /\ a \in overtaken
        BY <1>11, <2>0, <2>1, <3>5 DEF RecordRejection
      <4>2. Outcome'[a] = "fulfilled" /\ Outcome[a] = "fulfilled"
        BY <2>1, <3>1, <4>1 DEF Outcome
      <4> QED
        BY <1>A, <3>2, <4>2
    <3> QED
      BY <3>4, <3>5
  <2> QED
    BY <2>2, <2>3
<1>19. ASSUME NEW h \in Handlers, ReadOrder(h)
      PROVE  [Promise!Next]_Outcome
  BY <1>0, <1>19 DEF ReadOrder
<1>12. ASSUME NEW h \in Handlers, RecordRetry(h)
      PROVE  [Promise!Next]_Outcome
  BY <1>0, <1>12 DEF RecordRetry
<1>13. ASSUME NEW h \in Handlers, SettleFails(h)
      PROVE  [Promise!Next]_Outcome
  BY <1>0, <1>13 DEF SettleFails
<1>14. ASSUME NEW h \in Handlers, HandlerCrash(h)
      PROVE  [Promise!Next]_Outcome
  BY <1>0, <1>14 DEF HandlerCrash
<1>15. ASSUME NEW h \in Handlers, NEW a \in Attempts, Callback(h, a)
      PROVE  [Promise!Next]_Outcome
  BY <1>0, <1>15 DEF Callback, ManualReview
<1>16. ASSUME NEW h \in Handlers, NEW a \in Attempts, Reconcile(h, a)
      PROVE  [Promise!Next]_Outcome
  BY <1>0, <1>16 DEF Reconcile, BeginQuery, ManualReview
<1>17. ASSUME NEW h \in Handlers, NEW a \in Attempts, AdminReconcile(h, a)
      PROVE  [Promise!Next]_Outcome
  BY <1>0, <1>17 DEF AdminReconcile, BeginQuery, ManualReview
<1>18. CASE UNCHANGED vars
  BY <1>0, <1>18 DEF vars
<1> QED
  BY <1>1, <1>2, <1>3, <1>4, <1>5, <1>6, <1>7, <1>8, <1>9, <1>10,
     <1>11, <1>12, <1>13, <1>14, <1>15, <1>16, <1>17, <1>18, <1>19
  DEF Next, HandlerStep

(* The payment state is well formed in every behaviour.                    *)
THEOREM TypeCorrect == Spec => []TypeOK
<1>1. Inv => TypeOK
  BY DEF Inv
<1> QED
  BY <1>1, InvInit, InvStep, PTL DEF Spec

(* A replaced checkout is never fulfilled, whatever is in flight.          *)
THEOREM ReplacedIsNotFulfilled == Spec => []AbandonedNotFulfilled
<1>1. Inv => AbandonedNotFulfilled
  BY DEF Inv
<1> QED
  BY <1>1, InvInit, InvStep, PTL DEF Spec

(* SETTLED means that the customer has the order or a refund is queued.    *)
THEOREM SettledIsTrue == Spec => []SettledIsAnswered
<1>1. Inv => SettledIsAnswered
  BY DEF Inv
<1> QED
  BY <1>1, InvInit, InvStep, PTL DEF Spec

(* Callbacks, polling, retries and crashes implement the promise that a    *)
(* paid attempt is fulfilled or refunded, at most once and never both; the *)
(* refund of an attempt that was fulfilled between the read and the write  *)
(* of recordSettlementFailure is what the code adds to it.                 *)
THEOREM KeepsPromise == Spec => OutcomeSpec
<1>1. Init => Promise!Init
  BY DEF Init, Promise!Init, Outcome
<1>2. Inv /\ Inv' /\ [Next]_vars => [Promise!Next]_Outcome
  BY OutcomeStep
<1> QED
  BY <1>1, <1>2, InvInit, InvStep, PTL DEF Spec, OutcomeSpec, Promise!Spec
=============================================================================
