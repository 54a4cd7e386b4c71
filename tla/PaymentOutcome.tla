--------------------------- MODULE PaymentOutcome ---------------------------
(***************************************************************************)
(* What the payment subsystem promises a customer, without callbacks,      *)
(* polling, checkouts or retries: money that has been paid is answered by  *)
(* the purchase or by a refund, by one of them only and only once.         *)
(***************************************************************************)
CONSTANT Attempts
VARIABLE outcome

Outcomes == {"unpaid", "paid", "fulfilled", "refunding"}

Init == outcome = [a \in Attempts |-> "unpaid"]

Move(a, from, to) ==
    /\ outcome[a] = from
    /\ outcome' = [outcome EXCEPT ![a] = to]

Pay(a) == Move(a, "unpaid", "paid")
Fulfil(a) == Move(a, "paid", "fulfilled")
Compensate(a) == Move(a, "paid", "refunding")

Next == \E a \in Attempts : Pay(a) \/ Fulfil(a) \/ Compensate(a)

Spec == Init /\ [][Next]_outcome
=============================================================================
