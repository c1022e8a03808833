--------------------------- MODULE PaymentTables ----------------------------
(***************************************************************************)
(* What the two halves of the backend share: the payments table as far as  *)
(* both of them look at it, and the Redis queue of voucher tasks.          *)
(* Settlement writes all three, Provisioning reads the first two and takes *)
(* tasks out of, and puts tasks into, the queue.                           *)
(***************************************************************************)
EXTENDS Naturals

CONSTANTS
    Payments,   \* rows of the payments table (their CheckoutRequestIDs too)
    NoPayment   \* "no row in hand"

ASSUME PaymentConstants == NoPayment \notin Payments

VARIABLES
    status,     \* payments.status, "absent" before the INSERT
    age,        \* where created_at lies in the crons' windows
    queue       \* first-try generate_voucher_task jobs in Redis, per payment

Statuses == {"absent", "pending", "confirmed", "failed"}
Ages     == {"fresh", "due", "stale"}

\* The types of the shared part.
TablesTypeOK ==
    /\ status \in [Payments -> Statuses]
    /\ age \in [Payments -> Ages]
    /\ queue \in [Payments -> Nat]

\* No row yet and no task.
InitTables ==
    /\ status = [p \in Payments |-> "absent"]
    /\ age    = [p \in Payments |-> "fresh"]
    /\ queue  = [p \in Payments |-> 0]

=============================================================================
