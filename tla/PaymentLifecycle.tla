-------------------------- MODULE PaymentLifecycle --------------------------
(***************************************************************************)
(* What the platform promises about one payment, with no handlers, queues  *)
(* or retries in sight: it is opened, the customer pays or does not, it is *)
(* settled once and for all, confirmed only if it was paid, and a          *)
(* confirmed payment is given one voucher, once.                           *)
(***************************************************************************)
CONSTANTS Payments, Codes, NoCode

VARIABLES
    money,    \* what M-Pesa did: "none", "paid" or "declined"
    status,   \* the payment's status
    voucher   \* the code issued for it, or NoCode

lifecycleVars == <<money, status, voucher>>

Init ==
    /\ money   = [p \in Payments |-> "none"]
    /\ status  = [p \in Payments |-> "absent"]
    /\ voucher = [p \in Payments |-> NoCode]

Open(p) ==
    /\ status[p] = "absent"
    /\ status' = [status EXCEPT ![p] = "pending"]
    /\ UNCHANGED <<money, voucher>>

Pay(p) ==
    /\ money[p] = "none"
    /\ status[p] # "absent"
    /\ \E m \in {"paid", "declined"} : money' = [money EXCEPT ![p] = m]
    /\ UNCHANGED <<status, voucher>>

Confirm(p) ==
    /\ status[p] = "pending"
    /\ money[p] = "paid"
    /\ status' = [status EXCEPT ![p] = "confirmed"]
    /\ UNCHANGED <<money, voucher>>

Fail(p) ==
    /\ status[p] = "pending"
    /\ status' = [status EXCEPT ![p] = "failed"]
    /\ UNCHANGED <<money, voucher>>

Issue(p) ==
    /\ status[p] = "confirmed"
    /\ voucher[p] = NoCode
    /\ voucher'[p] \in Codes
    /\ voucher' = [voucher EXCEPT ![p] = voucher'[p]]
    /\ UNCHANGED <<money, status>>

Next == \E p \in Payments :
            Open(p) \/ Pay(p) \/ Confirm(p) \/ Fail(p) \/ Issue(p)

Spec == Init /\ [][Next]_lifecycleVars

=============================================================================
