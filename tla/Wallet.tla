------------------------------- MODULE Wallet -------------------------------
(***************************************************************************)
(* The reseller wallet: an append-only ledger, credited by the Daraja C2B  *)
(* confirmation (process_daraja_c2b_webhook, topup_wallet) and debited by  *)
(* a reseller's voucher sale (generate_reseller_voucher, debit_wallet).    *)
(* Each runs in one database transaction that first locks the reseller's   *)
(* users row, then reads the last balance, then appends a row computed     *)
(* from it.  The sale goes on to insert the payment, the RADIUS rows and   *)
(* the voucher in the same transaction, so whatever fails there takes the  *)
(* debit back with it.                                                     *)
(*                                                                         *)
(* ledger[r] holds r's committed rows of wallet_transactions in the order  *)
(* of sequence_id.  PostgreSQL is external: FOR UPDATE excludes other      *)
(* holders until the end of the transaction, a rolled back row was never   *)
(* there, and UNIQUE (reference) refuses a row whose reference is taken.   *)
(***************************************************************************)
EXTENDS Integers, Sequences, FiniteSets

CONSTANTS
    Resellers,
    Txns,       \* requests that can be in their transaction at the same time
    TransIds,   \* M-Pesa transaction ids of C2B payments
    PaidTo,     \* [TransIds -> Resellers]: the wallet reference paid to
    PaidAmount, \* [TransIds -> Nat \ {0}]
    Prices,     \* package prices
    NoTxn,
    NoReseller,
    SaleRef,    \* the reference of a debit: a UUID made for it, never repeated
    MaxRows,    \* bound: ledger rows of a reseller when a sale begins
    MaxFaults   \* bound: raising statements and crashes in one behaviour

ASSUME WalletConstants ==
    /\ PaidTo \in [TransIds -> Resellers]
    /\ PaidAmount \in [TransIds -> Nat \ {0}]
    /\ Prices \subseteq Nat \ {0}
    /\ NoTxn \notin Txns
    /\ NoReseller \notin Resellers
    /\ SaleRef \notin TransIds
    /\ MaxRows \in Nat
    /\ MaxFaults \in Nat

VARIABLES
    ledger,    \* committed rows, per reseller
    lockedBy,  \* which transaction holds the reseller's users row
    txn,       \* the transactions
    answered,  \* TransIds whose confirmation was answered with ResultCode 0
    faults

walletVars == <<ledger, lockedBy, txn, answered, faults>>

-----------------------------------------------------------------------------
References == TransIds \cup {SaleRef}

Rows == [type : {"topup", "debit"}, amount : Nat \ {0}, after : Int,
         ref : References]

NoWork == [pc |-> "idle", type |-> "topup", reseller |-> NoReseller,
           amount |-> 0, ref |-> SaleRef, balance |-> 0]

\* get_wallet_balance: balance_after of the row with the largest sequence_id.
BalanceOf(rows) == IF rows = <<>> THEN 0 ELSE rows[Len(rows)].after

\* current_balance + amount, or current_balance - amount.
Apply(type, balance, amount) ==
    IF type = "topup" THEN balance + amount ELSE balance - amount

ReferenceTaken(ref) ==
    \E r \in Resellers : \E i \in 1..Len(ledger[r]) : ledger[r][i].ref = ref

\* The transaction ends: the row lock goes with it, if it was granted.
End(t) ==
    /\ txn' = [txn EXCEPT ![t] = NoWork]
    /\ lockedBy' = [r \in Resellers |-> IF lockedBy[r] = t THEN NoTxn
                                                            ELSE lockedBy[r]]

\* The handler answers ResultCode 0; a sale has no such answer.
Answer(t) == answered' = answered \cup ({txn[t].ref} \ {SaleRef})

Fault == faults < MaxFaults /\ faults' = faults + 1

TypeOK ==
    /\ ledger \in [Resellers -> Seq(Rows)]
    /\ lockedBy \in [Resellers -> Txns \cup {NoTxn}]
    /\ txn \in [Txns -> {NoWork} \cup
                    [pc : {"begun", "locked", "read", "inserted"},
                     type : {"topup", "debit"}, reseller : Resellers,
                     amount : Nat \ {0}, ref : References, balance : Int]]
    /\ answered \in SUBSET TransIds
    /\ faults \in Nat

Init ==
    /\ ledger   = [r \in Resellers |-> <<>>]
    /\ lockedBy = [r \in Resellers |-> NoTxn]
    /\ txn      = [t \in Txns |-> NoWork]
    /\ answered = {}
    /\ faults   = 0

-----------------------------------------------------------------------------
\* Safaricom delivers the confirmation of a C2B payment, for the first time or
\* again; the reseller was found by wallet_reference.
ConfirmTopup(t, id) ==
    /\ txn[t] = NoWork
    /\ txn' = [txn EXCEPT ![t] = [pc |-> "begun", type |-> "topup",
                                  reseller |-> PaidTo[id],
                                  amount |-> PaidAmount[id], ref |-> id,
                                  balance |-> 0]]
    /\ UNCHANGED <<ledger, lockedBy, answered, faults>>

\* A reseller sells a voucher; customer and package have been checked.
StartSale(t, r, price) ==
    /\ txn[t] = NoWork
    /\ Len(ledger[r]) < MaxRows
    /\ txn' = [txn EXCEPT ![t] = [pc |-> "begun", type |-> "debit",
                                  reseller |-> r, amount |-> price,
                                  ref |-> SaleRef, balance |-> 0]]
    /\ UNCHANGED <<ledger, lockedBy, answered, faults>>

\* Mutant of Lock: SELECT without FOR UPDATE.
LockNothing(t) ==
    /\ txn[t].pc = "begun"
    /\ txn' = [txn EXCEPT ![t].pc = "locked"]
    /\ UNCHANGED <<ledger, lockedBy, answered, faults>>

\* SELECT id FROM users ... FOR UPDATE.
Lock(t) ==
    /\ txn[t].pc = "begun"
    /\ lockedBy[txn[t].reseller] = NoTxn
    /\ lockedBy' = [lockedBy EXCEPT ![txn[t].reseller] = t]
    /\ txn' = [txn EXCEPT ![t].pc = "locked"]
    /\ UNCHANGED <<ledger, answered, faults>>

ReadBalance(t) ==
    /\ txn[t].pc = "locked"
    /\ txn' = [txn EXCEPT ![t] = [@ EXCEPT
                !.pc = "read", !.balance = BalanceOf(ledger[txn[t].reseller])]]
    /\ UNCHANGED <<ledger, lockedBy, answered, faults>>

\* Mutant of Refuse: the exception leaves the transaction, and its lock, open.
RefuseHoldsLock(t) ==
    /\ txn[t].pc = "read"
    /\ txn[t].type = "debit"
    /\ txn[t].balance < txn[t].amount
    /\ txn' = [txn EXCEPT ![t] = NoWork]
    /\ UNCHANGED <<ledger, lockedBy, answered, faults>>

\* InsufficientBalanceException: nothing is sold.
Refuse(t) ==
    /\ txn[t].pc = "read"
    /\ txn[t].type = "debit"
    /\ txn[t].balance < txn[t].amount
    /\ End(t)
    /\ UNCHANGED <<ledger, answered, faults>>

\* UniqueViolationError on the reference: the confirmation came twice.
Duplicate(t) ==
    /\ txn[t].pc = "read"
    /\ txn[t].type = "topup"
    /\ ReferenceTaken(txn[t].ref)
    /\ End(t)
    /\ Answer(t)
    /\ UNCHANGED <<ledger, faults>>

\* Mutants of InsertRow: a balance check off by one; no UNIQUE (reference).
InsertRowOffByOne(t) ==
    /\ txn[t].pc = "read"
    /\ \/ txn[t].type = "topup" /\ ~ReferenceTaken(txn[t].ref)
       \/ txn[t].type = "debit" /\ txn[t].balance + 1 >= txn[t].amount
    /\ txn' = [txn EXCEPT ![t].pc = "inserted"]
    /\ UNCHANGED <<ledger, lockedBy, answered, faults>>

InsertRowNotUnique(t) ==
    /\ txn[t].pc = "read"
    /\ txn[t].type = "topup" \/ txn[t].balance >= txn[t].amount
    /\ txn' = [txn EXCEPT ![t].pc = "inserted"]
    /\ UNCHANGED <<ledger, lockedBy, answered, faults>>

\* INSERT INTO wallet_transactions, not yet visible to anybody else.
InsertRow(t) ==
    /\ txn[t].pc = "read"
    /\ \/ txn[t].type = "topup" /\ ~ReferenceTaken(txn[t].ref)
       \/ txn[t].type = "debit" /\ txn[t].balance >= txn[t].amount
    /\ txn' = [txn EXCEPT ![t].pc = "inserted"]
    /\ UNCHANGED <<ledger, lockedBy, answered, faults>>

NewRow(t) == [type |-> txn[t].type, amount |-> txn[t].amount,
              after |-> Apply(txn[t].type, txn[t].balance, txn[t].amount),
              ref |-> txn[t].ref]

Commit(t) ==
    /\ txn[t].pc = "inserted"
    /\ ledger' = [ledger EXCEPT ![txn[t].reseller] = Append(@, NewRow(t))]
    /\ End(t)
    /\ Answer(t)
    /\ UNCHANGED faults

\* A statement of the transaction raises (in a sale, the payment, the RADIUS
\* rows and the voucher too): rolled back.  The C2B handler logs the exception
\* and still answers ResultCode 0.
Raise(t) ==
    /\ txn[t] # NoWork
    /\ Fault
    /\ End(t)
    /\ Answer(t)
    /\ UNCHANGED ledger

\* The API process dies; PostgreSQL rolls back, Safaricom gets no answer.
Crash(t) ==
    /\ txn[t] # NoWork
    /\ Fault
    /\ End(t)
    /\ UNCHANGED <<ledger, answered>>

Proceed(t) == Lock(t) \/ ReadBalance(t) \/ Refuse(t) \/ Duplicate(t)
                \/ InsertRow(t) \/ Commit(t)

Next ==
    \E t \in Txns :
        \/ \E id \in TransIds : ConfirmTopup(t, id)
        \/ \E r \in Resellers, price \in Prices : StartSale(t, r, price)
        \/ Proceed(t) \/ Raise(t) \/ Crash(t)

Spec == Init /\ [][Next]_walletVars

-----------------------------------------------------------------------------
\* Every row's balance_after is the balance of the row before it plus or minus
\* the row's amount: no top-up or debit is lost to a concurrent one.
LedgerChains ==
    \A r \in Resellers : \A i \in 1..Len(ledger[r]) :
        ledger[r][i].after =
            Apply(ledger[r][i].type,
                  IF i = 1 THEN 0 ELSE ledger[r][i - 1].after,
                  ledger[r][i].amount)

\* No sale takes a wallet below zero, however many run at once.
NeverOverdrawn ==
    \A r \in Resellers : \A i \in 1..Len(ledger[r]) : ledger[r][i].after >= 0

\* A C2B payment is credited at most once, to the wallet it was paid to,
\* however often Safaricom repeats its confirmation.
CreditedOnce ==
    \A r, s \in Resellers :
        \A i \in 1..Len(ledger[r]), j \in 1..Len(ledger[s]) :
            (ledger[r][i].ref = ledger[s][j].ref /\ ledger[r][i].ref \in TransIds)
                => r = s /\ i = j /\ PaidTo[ledger[r][i].ref] = r

\* A users row is locked only by a transaction that has still to end, and that
\* works on this wallet: refused, duplicate, failing and crashing requests all give
\* the lock back, so nobody waits for one that is gone.
LockedIsLive ==
    \A r \in Resellers : lockedBy[r] # NoTxn =>
        /\ txn[lockedBy[r]].pc \in {"locked", "read", "inserted"}
        /\ txn[lockedBy[r]].reseller = r

=============================================================================
