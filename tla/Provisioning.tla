---------------------------- MODULE Provisioning ----------------------------
(***************************************************************************)
(* From a confirmed payment to a voucher: the arq worker that runs         *)
(* generate_voucher_task, and the two safety nets that queue the task      *)
(* again, the reconciliation cron and the admin's retry-provision button.  *)
(*                                                                         *)
(* The worker writes the FreeRADIUS rows, then the voucher row, then the   *)
(* guest's PIN, then the invoice, each in a transaction of its own, and    *)
(* can fail or die between any two of them.  arq runs a job again after a  *)
(* Retry and after a crash; nothing removes duplicate jobs.                *)
(*                                                                         *)
(* Every attempt draws a voucher code of ten random characters.  It may be *)
(* one an abandoned attempt has left RADIUS rows under; one that a voucher *)
(* has is drawn again, once.  Assumed of the random numbers: the second    *)
(* draw is no voucher's, and no code is another running job's.             *)
(***************************************************************************)
EXTENDS PaymentTables, FiniteSets

CONSTANTS
    Workers,     \* coroutines of the arq worker
    Guests,      \* payments of guest customers (email @guest.example.com)
    Metered,     \* payments whose package has a data quota
    Codes,       \* voucher codes
    NoCode,
    MaxTries,    \* max_tries of generate_voucher_task (4 in the code)
    ArqMaxTries, \* arq gives a job up after this many runs (5, its default)
    MaxQueued,   \* bound: tasks waiting when a safety net adds another
    MaxCrashes   \* bound: failed statements and crashes in one behaviour

ASSUME ProvisioningConstants ==
    /\ Guests \subseteq Payments
    /\ Metered \subseteq Payments
    /\ NoCode \notin Codes
    /\ MaxTries \in Nat \ {0}
    /\ ArqMaxTries \in Nat /\ MaxTries <= ArqMaxTries
    /\ MaxQueued \in Nat
    /\ MaxCrashes \in Nat

VARIABLES
    retries,   \* jobs waiting for a later try: per payment and try
    worker,    \* what each worker coroutine is doing
    rad,       \* radcheck and radreply rows: <<code, attribute>>
    voucher,   \* the code in the payment's row of vouchers, or NoCode
    notified,  \* payments whose guest has the code as PIN (and by SMS)
    invoice,   \* the payment's row of invoices
    sweep,     \* rows reconcile_payments_cron has still to enqueue
    manual,    \* retry_provision_payment requests past their checks
    crashes    \* failed statements and crashes so far

interface == <<status, age, queue>>
jobVars   == <<retries, worker, rad, voucher, notified, invoice,
               sweep, manual, crashes>>
provisioningVars == <<interface, jobVars>>

-----------------------------------------------------------------------------
Attributes == {"password", "rate", "timeout", "quota"}

\* The RADIUS rows a voucher of payment p needs.
Required(p) == IF p \in Metered THEN Attributes ELSE Attributes \ {"quota"}

\* Mutant of InTable: radreply is not cleared.
InRadcheckOnly(table) == IF table = "radcheck" THEN {"password"} ELSE {}

\* The attributes a table holds.
InTable(table) == IF table = "radcheck" THEN {"password"} ELSE Attributes \ {"password"}

\* The statement that follows the INSERT of attribute a.
Following(a, p) ==
    CASE a = "password" -> "rate"
      [] a = "rate" -> "timeout"
      [] a = "timeout" /\ p \in Metered -> "quota"
      [] OTHER -> "voucher"

Tables == {"radcheck", "radreply"}
BeforeVoucher == Tables \cup Attributes \cup {"voucher"}
AfterVoucher  == {"guest", "invoice", "pdf"}
Steps == BeforeVoucher \cup AfterVoucher

Idle == [pc |-> "idle", pay |-> NoPayment, try |-> 0, code |-> NoCode]

\* A random code: no voucher has it, and no job at work on it.
Drawn(code) ==
    /\ \A p \in Payments : voucher[p] # code
    /\ \A w \in Workers : worker[w].code # code

\* Mutant of Stuck: the status is not looked at.
StuckAnyStatus(p) == age[p] # "fresh" /\ voucher[p] = NoCode

\* Confirmed, older than two minutes and without a voucher.
Stuck(p) == status[p] = "confirmed" /\ age[p] # "fresh" /\ voucher[p] = NoCode

Crash == crashes < MaxCrashes /\ crashes' = crashes + 1

\* The job of worker w goes back to Redis for its next try, if it has one.
RunAgain(w, limit) ==
    /\ retries' = IF worker[w].try < limit
                  THEN [retries EXCEPT ![worker[w].pay][worker[w].try + 1] = @ + 1]
                  ELSE retries
    /\ worker' = [worker EXCEPT ![w] = Idle]

JobsTypeOK ==
    /\ TablesTypeOK
    /\ retries \in [Payments -> [2..ArqMaxTries -> Nat]]
    /\ worker \in [Workers -> {Idle} \cup
                       [pc : Steps, pay : Payments, try : 1..ArqMaxTries,
                        code : Codes]]
    /\ rad \in SUBSET (Codes \X Attributes)
    /\ voucher \in [Payments -> Codes \cup {NoCode}]
    /\ notified \in SUBSET Payments
    /\ invoice \in [Payments -> {"none", "numbered", "issued"}]
    /\ sweep \in SUBSET Payments
    /\ manual \in SUBSET Payments
    /\ crashes \in Nat

InitJobs ==
    /\ retries  = [p \in Payments |-> [t \in 2..ArqMaxTries |-> 0]]
    /\ worker   = [w \in Workers |-> Idle]
    /\ rad      = {}
    /\ voucher  = [p \in Payments |-> NoCode]
    /\ notified = {}
    /\ invoice  = [p \in Payments |-> "none"]
    /\ sweep    = {}
    /\ manual   = {}
    /\ crashes  = 0

ProvisioningInit == InitTables /\ InitJobs

-----------------------------------------------------------------------------
(* The environment: what this component assumes of the settlement side.    *)
(* PaymentPipeline shows that Settlement meets it.                         *)

Settle(p) ==
    /\ \/ status[p] = "absent" /\ status' = [status EXCEPT ![p] = "pending"]
       \/ /\ status[p] = "pending"
          /\ \E s \in {"confirmed", "failed"} : status' = [status EXCEPT ![p] = s]
    /\ UNCHANGED <<age, queue, jobVars>>

Submit(p) ==
    /\ status[p] = "confirmed"
    /\ queue' = [queue EXCEPT ![p] = @ + 1]
    /\ UNCHANGED <<status, age, jobVars>>

Elapse(p) ==
    /\ \/ age[p] = "fresh" /\ status[p] # "absent"
                           /\ age' = [age EXCEPT ![p] = "due"]
       \/ age[p] = "due"   /\ age' = [age EXCEPT ![p] = "stale"]
    /\ UNCHANGED <<status, queue, jobVars>>

Environment == \E p \in Payments : Settle(p) \/ Submit(p) \/ Elapse(p)

-----------------------------------------------------------------------------
(* generate_voucher_task                                                   *)

\* A worker picks a job up and draws the code of this attempt.  Whether the
\* payment is confirmed, or has a voucher already, is not looked at.
Begin(w, p, t) ==
    /\ worker[w] = Idle
    /\ \E code \in Codes :
          /\ Drawn(code)
          /\ worker' = [worker EXCEPT ![w] = [pc |-> "radcheck", pay |-> p, try |-> t,
                                              code |-> code]]
    /\ UNCHANGED <<status, age, rad, voucher, notified, invoice, sweep, manual,
                   crashes>>

TakeJob(w, p) ==
    /\ queue[p] > 0
    /\ queue' = [queue EXCEPT ![p] = @ - 1]
    /\ UNCHANGED retries
    /\ Begin(w, p, 1)

TakeRetry(w, p, t) ==
    /\ retries[p][t] > 0
    /\ retries' = [retries EXCEPT ![p][t] = @ - 1]
    /\ UNCHANGED queue
    /\ Begin(w, p, t)

\* _provision_radius_credentials: DELETE whatever the two tables hold under the code.
ClearTable(w) ==
    /\ worker[w].pc \in Tables
    /\ rad' = rad \ ({worker[w].code} \X InTable(worker[w].pc))
    /\ worker' = [worker EXCEPT
                    ![w].pc = IF @ = "radcheck" THEN "radreply" ELSE "password"]
    /\ UNCHANGED <<interface, retries, voucher, notified, invoice, sweep,
                   manual, crashes>>

\* The next INSERT into radcheck or radreply.
WriteRadiusRow(w) ==
    /\ worker[w].pc \in Attributes
    /\ rad' = rad \cup {<<worker[w].code, worker[w].pc>>}
    /\ worker' = [worker EXCEPT ![w].pc = Following(@, worker[w].pay)]
    /\ UNCHANGED <<interface, retries, voucher, notified, invoice, sweep,
                   manual, crashes>>

\* Mutant of InsertVoucher: no UNIQUE constraint on payment_id.
InsertVoucherAgain(w) ==
    /\ worker[w].pc = "voucher"
    /\ voucher' = [voucher EXCEPT ![worker[w].pay] = worker[w].code]
    /\ worker' = [worker EXCEPT
                    ![w].pc = IF worker[w].pay \in Guests THEN "guest" ELSE "invoice"]
    /\ UNCHANGED <<interface, retries, rad, notified, invoice, sweep,
                   manual, crashes>>

\* INSERT INTO vouchers; UNIQUE (payment_id) lets one job through.
InsertVoucher(w) ==
    /\ worker[w].pc = "voucher"
    /\ voucher[worker[w].pay] = NoCode
    /\ voucher' = [voucher EXCEPT ![worker[w].pay] = worker[w].code]
    /\ worker' = [worker EXCEPT
                    ![w].pc = IF worker[w].pay \in Guests THEN "guest" ELSE "invoice"]
    /\ UNCHANGED <<interface, retries, rad, notified, invoice, sweep,
                   manual, crashes>>

\* UniqueViolationError: Retry on the first three tries, the end on the fourth.
VoucherExists(w) ==
    /\ worker[w].pc = "voucher"
    /\ voucher[worker[w].pay] # NoCode
    /\ RunAgain(w, MaxTries)
    /\ UNCHANGED <<interface, rad, voucher, notified, invoice, sweep,
                   manual, crashes>>

\* Mutant of TellGuest: the task returns after the SMS.
TellGuestAndReturn(w) ==
    /\ worker[w].pc = "guest"
    /\ notified' = notified \cup {worker[w].pay}
    /\ worker' = [worker EXCEPT ![w] = Idle]
    /\ UNCHANGED <<interface, retries, rad, voucher, invoice, sweep,
                   manual, crashes>>

\* The code becomes the guest's password; a failing SMS is only logged.
TellGuest(w) ==
    /\ worker[w].pc = "guest"
    /\ notified' = notified \cup {worker[w].pay}
    /\ worker' = [worker EXCEPT ![w].pc = "invoice"]
    /\ UNCHANGED <<interface, retries, rad, voucher, invoice, sweep,
                   manual, crashes>>

\* Any other statement of generate_voucher raises.
TaskRaises(w) ==
    /\ worker[w].pc \in BeforeVoucher \cup {"guest"}
    /\ Crash
    /\ RunAgain(w, MaxTries)
    /\ UNCHANGED <<interface, rad, voucher, notified, invoice, sweep,
                   manual>>

\* generate_invoice_for_payment: return early, or INSERT and go on to the PDF.
InsertInvoice(w) ==
    LET p == worker[w].pay IN
    /\ worker[w].pc = "invoice"
    /\ IF status[p] = "confirmed" /\ invoice[p] = "none"
       THEN /\ invoice' = [invoice EXCEPT ![p] = "numbered"]
            /\ worker' = [worker EXCEPT ![w].pc = "pdf"]
       ELSE /\ worker' = [worker EXCEPT ![w] = Idle]
            /\ UNCHANGED invoice
    /\ UNCHANGED <<interface, retries, rad, voucher, notified, sweep,
                   manual, crashes>>

\* eTIMS (whose failure is only logged), the PDF, and the final UPDATE.
FinishInvoice(w) ==
    /\ worker[w].pc = "pdf"
    /\ invoice' = [invoice EXCEPT ![worker[w].pay] = "issued"]
    /\ worker' = [worker EXCEPT ![w] = Idle]
    /\ UNCHANGED <<interface, retries, rad, voucher, notified, sweep,
                   manual, crashes>>

\* Invoicing raises: logged, and the job still counts as done.
InvoiceRaises(w) ==
    /\ worker[w].pc \in {"invoice", "pdf"}
    /\ Crash
    /\ worker' = [worker EXCEPT ![w] = Idle]
    /\ UNCHANGED <<interface, retries, rad, voucher, notified, invoice,
                   sweep, manual>>

\* The worker process dies; arq runs the job again while it has tries left.
WorkerCrash(w) ==
    /\ worker[w] # Idle
    /\ Crash
    /\ RunAgain(w, ArqMaxTries)
    /\ UNCHANGED <<interface, rad, voucher, notified, invoice, sweep,
                   manual>>

-----------------------------------------------------------------------------
(* reconcile_payments_cron and retry_provision_payment                     *)

SweepStart ==
    /\ sweep = {}
    /\ \E p \in Payments : Stuck(p)
    /\ sweep' = {p \in Payments : Stuck(p)}
    /\ UNCHANGED <<interface, retries, worker, rad, voucher, notified,
                   invoice, manual, crashes>>

SweepEnqueue(p) ==
    /\ p \in sweep
    /\ queue[p] < MaxQueued
    /\ queue' = [queue EXCEPT ![p] = @ + 1]
    /\ sweep' = sweep \ {p}
    /\ UNCHANGED <<status, age, retries, worker, rad, voucher, notified,
                   invoice, manual, crashes>>

\* Redis raises or the worker dies: the rest of the snapshot is dropped.
SweepCrash ==
    /\ sweep # {}
    /\ Crash
    /\ sweep' = {}
    /\ UNCHANGED <<interface, retries, worker, rad, voucher, notified,
                   invoice, manual>>

AdminCheck(p) ==
    /\ p \notin manual
    /\ status[p] = "confirmed"
    /\ voucher[p] = NoCode
    /\ manual' = manual \cup {p}
    /\ UNCHANGED <<interface, retries, worker, rad, voucher, notified,
                   invoice, sweep, crashes>>

AdminEnqueue(p) ==
    /\ p \in manual
    /\ queue[p] < MaxQueued
    /\ queue' = [queue EXCEPT ![p] = @ + 1]
    /\ manual' = manual \ {p}
    /\ UNCHANGED <<status, age, retries, worker, rad, voucher, notified,
                   invoice, sweep, crashes>>

-----------------------------------------------------------------------------
\* What a worker does when nothing fails, and what makes it fail.
Work(w) ==
    \/ \E p \in Payments : TakeJob(w, p)
    \/ \E p \in Payments, t \in 2..ArqMaxTries : TakeRetry(w, p, t)
    \/ ClearTable(w) \/ WriteRadiusRow(w) \/ InsertVoucher(w) \/ VoucherExists(w)
    \/ TellGuest(w) \/ InsertInvoice(w) \/ FinishInvoice(w)

Fail(w) == TaskRaises(w) \/ InvoiceRaises(w) \/ WorkerCrash(w)

SafetyNets ==
    \/ SweepStart
    \/ SweepCrash
    \/ \E p \in Payments : SweepEnqueue(p) \/ AdminCheck(p) \/ AdminEnqueue(p)

Jobs == (\E w \in Workers : Work(w) \/ Fail(w)) \/ SafetyNets

ProvisioningNext == Environment \/ Jobs

ProvisioningSpec == ProvisioningInit /\ [][ProvisioningNext]_provisioningVars

-----------------------------------------------------------------------------
Rows(code) == {a \in Attributes : <<code, a>> \in rad}

\* A code a customer is given works as bought: from the moment the voucher row
\* appears its RADIUS rows are those its package calls for, no fewer, although any
\* number of jobs crashed half-way or ran twice and their DELETEs clear what they
\* find, and no more, although the code may be one that such a job had abandoned.
VoucherBacked ==
    \A p \in Payments : voucher[p] # NoCode => Rows(voucher[p]) = Required(p)

\* generate_voucher never looks at the payment's status; a voucher still
\* exists only for a confirmed payment.
VoucherIsPaidFor ==
    \A p \in Payments : voucher[p] # NoCode => status[p] = "confirmed"

\* The types, and VoucherIsPaidFor: neither the worker's retries nor the cron nor an
\* admin's retry makes a voucher for a payment that was not confirmed.
ProvisioningInv == JobsTypeOK /\ VoucherIsPaidFor

\* Of several jobs for one payment at most one gets past the voucher INSERT,
\* and it is the one whose code the row holds: no second PIN, SMS or invoice.
SoleIssuer ==
    \A w, x \in Workers :
        worker[w].pc \in AfterVoucher =>
            /\ voucher[worker[w].pay] = worker[w].code
            /\ (x # w /\ worker[x].pc \in AfterVoucher)
                  => worker[x].pay # worker[w].pay

\* The vouchers whose job is gone without having finished the invoice.
Uninvoiced ==
    {p \in Payments :
        /\ voucher[p] # NoCode
        /\ invoice[p] # "issued"
        /\ \A w \in Workers : ~(worker[w].pc \in AfterVoucher /\ worker[w].pay = p)}

\* A job that runs again stops at the voucher that exists, so only the job that
\* inserted it can write the invoice: each failure costs at most one invoice, and
\* duplicate jobs cost none.
InvoiceLostOnlyByFailure == Cardinality(Uninvoiced) <= crashes

=============================================================================
