---------------------------- MODULE DeliveryBill ----------------------------
(***************************************************************************)
(* What deliveries, their invoices and their refunds promise about a bill: *)
(* it is charged once, in one of three ways; what is paid from a wallet    *)
(* may be refunded once, what a business owes is invoiced once, settled    *)
(* once for the amount of the invoice and only then closed.  The payee is  *)
(* the driver the money went to.  Delivery implements this.                *)
(***************************************************************************)
CONSTANTS Deliveries, Drivers, Fares, None

VARIABLES
    stage,      \* how far the bill is
    charge,     \* the amount charged, or owed by a business
    due,        \* the amount of its invoice
    paid,       \* the amount the invoice was settled with
    payee       \* the driver paid

vars == <<stage, charge, due, paid, payee>>

Init ==
    /\ stage = [r \in Deliveries |-> "open"]
    /\ charge = [r \in Deliveries |-> 0]
    /\ due = [r \in Deliveries |-> 0]
    /\ paid = [r \in Deliveries |-> 0]
    /\ payee = [r \in Deliveries |-> None]

Move(r, from, to) == stage[r] = from /\ stage' = [stage EXCEPT ![r] = to]

Charge(r, a, d) ==
    /\ \/ Move(r, "open", "WALLET") /\ payee' = [payee EXCEPT ![r] = d]
       \/ Move(r, "open", "CASH") /\ payee' = [payee EXCEPT ![r] = d]
       \/ Move(r, "open", "INVOICE") /\ UNCHANGED payee
    /\ charge' = [charge EXCEPT ![r] = a]
    /\ UNCHANGED <<due, paid>>

Refund(r) ==
    /\ Move(r, "WALLET", "refunded")
    /\ UNCHANGED <<charge, due, paid, payee>>

Issue(r, a) ==
    /\ Move(r, "INVOICE", "invoiced")
    /\ due' = [due EXCEPT ![r] = a]
    /\ UNCHANGED <<charge, paid, payee>>

Settle(r, d) ==
    /\ Move(r, "invoiced", "settled")
    /\ paid' = [paid EXCEPT ![r] = due[r]]
    /\ payee' = [payee EXCEPT ![r] = d]
    /\ UNCHANGED <<charge, due>>

Close(r) ==
    /\ Move(r, "settled", "closed")
    /\ UNCHANGED <<charge, due, paid, payee>>

Next == \E r \in Deliveries :
    \/ \E a \in Fares : Issue(r, a) \/ \E d \in Drivers : Charge(r, a, d)
    \/ \E d \in Drivers : Settle(r, d)
    \/ Refund(r)
    \/ Close(r)

Spec == Init /\ [][Next]_vars
=============================================================================
