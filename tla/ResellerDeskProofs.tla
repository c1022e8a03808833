------------------------- MODULE ResellerDeskProofs -------------------------
(***************************************************************************)
(* Proofs about Wallet and ResellerDesk, for any number of resellers,      *)
(* concurrent requests, C2B payments, ledger rows, customers and sales.    *)
(*                                                                         *)
(* The wallet comes first.  LedgerChains, NeverOverdrawn and CreditedOnce  *)
(* speak of committed rows and are not inductive: what makes the next row  *)
(* right is that the lock is held from the read to the commit, so the      *)
(* balance read and the uniqueness of the reference are still true when    *)
(* the row appears.  That is WalletInv.                                    *)
(*                                                                         *)
(* The desk is a behaviour of the wallet (DeskUsesWallet), so what holds   *)
(* of the one holds of the other; what it adds is DeskIInv, below.         *)
(***************************************************************************)
EXTENDS ResellerDesk, FiniteSetTheorems, SequenceTheorems, TLAPS

Holding == {"locked", "read", "inserted"}

\* A transaction past FOR UPDATE is the one holder of its reseller's lock.
LockHeld ==
    \A t \in Txns : txn[t].pc \in Holding => lockedBy[txn[t].reseller] = t

\* The balance a transaction has read stays the last balance until it ends.
ReadIsCurrent ==
    \A t \in Txns : txn[t].pc \in {"read", "inserted"} =>
        txn[t].balance = BalanceOf(ledger[txn[t].reseller])

\* An inserted row that is about to be committed may be committed.
InsertIsSound ==
    \A t \in Txns : txn[t].pc = "inserted" =>
        /\ txn[t].type = "debit" => txn[t].balance >= txn[t].amount
        /\ txn[t].type = "topup" => ~ReferenceTaken(txn[t].ref)

\* A top-up carries the id of a C2B payment to its own reseller; a debit none.
WellAddressed ==
    \A t \in Txns : txn[t].pc # "idle" =>
        /\ txn[t].type = "topup" =>
              txn[t].ref \in TransIds /\ PaidTo[txn[t].ref] = txn[t].reseller
        /\ txn[t].type = "debit" => txn[t].ref = SaleRef

Protocol == TypeOK /\ LockHeld /\ ReadIsCurrent /\ InsertIsSound /\ WellAddressed

WalletInv == Protocol /\ LedgerChains /\ NeverOverdrawn /\ CreditedOnce

-----------------------------------------------------------------------------
\* A transaction that is not idle has a reseller, an amount and a reference.
LEMMA Busy ==
    ASSUME TypeOK, NEW t \in Txns, txn[t] # NoWork
    PROVE  /\ txn[t] \in [pc : {"begun", "locked", "read", "inserted"},
                          type : {"topup", "debit"}, reseller : Resellers,
                          amount : Nat \ {0}, ref : References, balance : Int]
           /\ txn[t].pc # "idle"
BY DEF TypeOK

\* An idle transaction is NoWork.
LEMMA IdleIsNoWork ==
    ASSUME TypeOK, NEW t \in Txns
    PROVE  (txn[t].pc = "idle") <=> (txn[t] = NoWork)
BY DEF TypeOK, NoWork

\* get_wallet_balance returns an integer.
LEMMA BalanceType ==
    ASSUME NEW rows \in Seq(Rows)
    PROVE  BalanceOf(rows) \in Int
<1>1. CASE rows = <<>>
    BY <1>1 DEF BalanceOf
<1>2. CASE rows # <<>>
    <2>1. Len(rows) \in 1..Len(rows)
        BY <1>2, EmptySeq
    <2>2. rows[Len(rows)] \in Rows
        BY <2>1, ElementOfSeq
    <2> QED
        BY <1>2, <2>2 DEF BalanceOf, Rows
<1> QED
    BY <1>1, <1>2

\* The wallet's tables and transactions keep their types.
LEMMA TypeStep == TypeOK /\ [Next]_walletVars => TypeOK'
<1> SUFFICES ASSUME TypeOK, [Next]_walletVars PROVE TypeOK'
    OBVIOUS
<1> USE WalletConstants
<1>1. CASE UNCHANGED walletVars
    BY <1>1 DEF TypeOK, walletVars
<1>2. ASSUME NEW t \in Txns, NEW id \in TransIds, ConfirmTopup(t, id)
      PROVE  TypeOK'
    BY <1>2 DEF TypeOK, ConfirmTopup, References
<1>3. ASSUME NEW t \in Txns, NEW r \in Resellers, NEW price \in Prices,
             StartSale(t, r, price)
      PROVE  TypeOK'
    BY <1>3 DEF TypeOK, StartSale, References
<1>4. ASSUME NEW t \in Txns, Lock(t) PROVE TypeOK'
    <2>1. txn[t] # NoWork
        BY <1>4 DEF Lock, NoWork
    <2> QED
        BY <1>4, <2>1, Busy DEF TypeOK, Lock
<1>5. ASSUME NEW t \in Txns, ReadBalance(t) PROVE TypeOK'
    <2>1. txn[t] # NoWork
        BY <1>5 DEF ReadBalance, NoWork
    <2>2. BalanceOf(ledger[txn[t].reseller]) \in Int
        BY <2>1, Busy, BalanceType DEF TypeOK
    <2> QED
        BY <1>5, <2>1, <2>2, Busy DEF TypeOK, ReadBalance
<1>6. ASSUME NEW t \in Txns, InsertRow(t) PROVE TypeOK'
    <2>1. txn[t] # NoWork
        BY <1>6 DEF InsertRow, NoWork
    <2> QED
        BY <1>6, <2>1, Busy DEF TypeOK, InsertRow
<1>7. ASSUME NEW t \in Txns, End(t)
      PROVE  /\ txn' = [txn EXCEPT ![t] = NoWork]
             /\ txn' \in [Txns -> {NoWork} \cup
                    [pc : {"begun", "locked", "read", "inserted"},
                     type : {"topup", "debit"}, reseller : Resellers,
                     amount : Nat \ {0}, ref : References, balance : Int]]
             /\ lockedBy' \in [Resellers -> Txns \cup {NoTxn}]
    BY <1>7 DEF End, TypeOK
<1>8. ASSUME NEW t \in Txns, Answer(t), txn[t] # NoWork
      PROVE  answered' \in SUBSET TransIds
    BY <1>8, Busy DEF Answer, TypeOK, References
<1>9. ASSUME NEW t \in Txns, Refuse(t) PROVE TypeOK'
    BY <1>9, <1>7 DEF TypeOK, Refuse
<1>10. ASSUME NEW t \in Txns, Duplicate(t) PROVE TypeOK'
    <2>1. txn[t] # NoWork
        BY <1>10 DEF Duplicate, NoWork
    <2> QED
        BY <1>10, <2>1, <1>7, <1>8 DEF TypeOK, Duplicate
<1>11. ASSUME NEW t \in Txns, Commit(t) PROVE TypeOK'
    <2>1. txn[t] # NoWork
        BY <1>11 DEF Commit, NoWork
    <2>2. NewRow(t) \in Rows
        BY <2>1, Busy DEF NewRow, Rows, Apply
    <2>3. Append(ledger[txn[t].reseller], NewRow(t)) \in Seq(Rows)
        BY <2>1, <2>2, Busy, AppendProperties DEF TypeOK
    <2>4. ledger' \in [Resellers -> Seq(Rows)]
        BY <1>11, <2>1, <2>3, Busy DEF TypeOK, Commit
    <2> QED
        BY <1>11, <2>1, <2>4, <1>7, <1>8 DEF TypeOK, Commit
<1>12. ASSUME NEW t \in Txns, Raise(t) PROVE TypeOK'
    BY <1>12, <1>7, <1>8 DEF TypeOK, Raise, Fault
<1>13. ASSUME NEW t \in Txns, Crash(t) PROVE TypeOK'
    BY <1>13, <1>7 DEF TypeOK, Crash, Fault
<1> QED
    BY <1>1, <1>2, <1>3, <1>4, <1>5, <1>6, <1>9, <1>10, <1>11, <1>12, <1>13
       DEF Next, Proceed

\* Type correctness of the wallet: every committed row and every request in
\* flight keeps its form, whatever fails on the way.
THEOREM WalletTypeCorrect == Spec => []TypeOK
<1>1. Init => TypeOK
    BY EmptySeq DEF Init, TypeOK
<1>2. TypeOK /\ [Next]_walletVars => TypeOK'
    BY TypeStep
<1> QED
    BY <1>1, <1>2, PTL DEF Spec

-----------------------------------------------------------------------------
\* Two transactions in their critical section have different resellers.
LEMMA MutualExclusion ==
    ASSUME LockHeld, NEW t \in Txns, NEW u \in Txns, t # u,
           txn[t].pc \in Holding, txn[u].pc \in Holding
    PROVE  txn[t].reseller # txn[u].reseller
BY DEF LockHeld

\* A transaction that ends without a row disturbs nobody else.
LEMMA EndStep ==
    ASSUME WalletInv, NEW t \in Txns, txn[t] # NoWork, End(t), ledger' = ledger
    PROVE  LockHeld' /\ ReadIsCurrent' /\ InsertIsSound' /\ WellAddressed'
<1>1. /\ txn'[t] = NoWork
      /\ \A u \in Txns : u # t => txn'[u] = txn[u]
    BY DEF End, WalletInv, Protocol, TypeOK
<1>2. \A u \in Txns : u # t /\ txn[u].pc \in Holding
          => txn[u].reseller \in Resellers
    BY Busy DEF WalletInv, Protocol, Holding, NoWork
<1>3. LockHeld'
    BY <1>1, <1>2 DEF LockHeld, End, WalletInv, Protocol, Holding, NoWork
<1>4. ReadIsCurrent'
    BY <1>1 DEF ReadIsCurrent, WalletInv, Protocol, NoWork
<1>5. InsertIsSound'
    BY <1>1 DEF InsertIsSound, WalletInv, Protocol, NoWork, ReferenceTaken
<1>6. WellAddressed'
    BY <1>1 DEF WellAddressed, WalletInv, Protocol, NoWork
<1> QED
    BY <1>3, <1>4, <1>5, <1>6

\* Until a row is committed, what is said of committed rows stays true.
LEMMA LedgerFrame ==
    ASSUME WalletInv, ledger' = ledger
    PROVE  LedgerChains' /\ NeverOverdrawn' /\ CreditedOnce'
BY DEF WalletInv, LedgerChains, NeverOverdrawn, CreditedOnce

\* A step that inserts no row and commits none leaves the inserted rows sound.
LEMMA InsertFrame ==
    ASSUME InsertIsSound, ledger' = ledger,
           \A u \in Txns : txn'[u].pc = "inserted" => txn'[u] = txn[u]
    PROVE  InsertIsSound'
<1> SUFFICES ASSUME NEW u \in Txns, txn'[u].pc = "inserted"
             PROVE  /\ txn'[u].type = "debit" => txn'[u].balance >= txn'[u].amount
                    /\ txn'[u].type = "topup" => ~ReferenceTaken(txn[u].ref)'
    BY DEF InsertIsSound, ReferenceTaken
<1> QED
    BY DEF InsertIsSound, ReferenceTaken

\* A request that begins holds no lock yet and is addressed as the handlers
\* address it.
LEMMA BeginStep ==
    ASSUME WalletInv, NEW t \in Txns, ledger' = ledger, lockedBy' = lockedBy,
           NEW work, txn' = [txn EXCEPT ![t] = work], work.pc = "begun",
           work.type = "topup" =>
               work.ref \in TransIds /\ PaidTo[work.ref] = work.reseller,
           work.type = "debit" => work.ref = SaleRef
    PROVE  LockHeld' /\ ReadIsCurrent' /\ InsertIsSound' /\ WellAddressed'
<1>1. /\ txn'[t] = work
      /\ \A u \in Txns : u # t => txn'[u] = txn[u]
    BY DEF WalletInv, Protocol, TypeOK
<1>2. LockHeld'
    BY <1>1 DEF LockHeld, WalletInv, Protocol, Holding
<1>3. ReadIsCurrent'
    BY <1>1 DEF ReadIsCurrent, WalletInv, Protocol
<1>4. InsertIsSound'
    BY <1>1 DEF InsertIsSound, WalletInv, Protocol, ReferenceTaken
<1>5. WellAddressed'
    BY <1>1 DEF WellAddressed, WalletInv, Protocol
<1> QED
    BY <1>2, <1>3, <1>4, <1>5

\* The appended row continues the chain, is not negative and is the only one
\* with its reference: the lock kept the balance and the reference current.
LEMMA CommitStep ==
    ASSUME WalletInv, NEW t \in Txns, Commit(t)
    PROVE  WalletInv'
<1> USE WalletConstants
<1> DEFINE b   == txn[t].reseller
           old == ledger[b]
           n   == Len(old)
           row == NewRow(t)
<1>1. /\ txn[t].pc = "inserted"
      /\ txn[t] # NoWork
      /\ TypeOK
    BY DEF Commit, NoWork, WalletInv, Protocol
<1>2. /\ b \in Resellers
      /\ old \in Seq(Rows)
      /\ n \in Nat
      /\ txn[t].amount \in Nat \ {0}
      /\ txn[t].balance \in Int
      /\ txn[t].type \in {"topup", "debit"}
      /\ row \in Rows
    <2>1. txn[t] \in [pc : {"begun", "locked", "read", "inserted"},
                      type : {"topup", "debit"}, reseller : Resellers,
                      amount : Nat \ {0}, ref : References, balance : Int]
        BY <1>1, Busy
    <2>2. b \in Resellers /\ old \in Seq(Rows)
        BY <1>1, <2>1 DEF TypeOK
    <2>3. row \in Rows
        BY <2>1 DEF NewRow, Rows, Apply
    <2> QED
        BY <2>1, <2>2, <2>3, LenProperties
<1>3. TypeOK'
    BY <1>1, TypeStep DEF Commit, Next, Proceed
<1>4. /\ \A r \in Resellers : r # b => ledger'[r] = ledger[r]
      /\ ledger'[b] = Append(old, row)
    BY <1>1, <1>2 DEF Commit, TypeOK
<1>5. /\ Len(ledger'[b]) = n + 1
      /\ \A i \in 1..n : ledger'[b][i] = old[i]
      /\ ledger'[b][n + 1] = row
    BY <1>2, <1>4, AppendProperties
<1>6. /\ txn'[t] = NoWork
      /\ \A u \in Txns : u # t => txn'[u] = txn[u]
    BY <1>1 DEF Commit, End, TypeOK
<1>7. \A u \in Txns : u # t /\ txn[u].pc \in Holding
          => txn[u].reseller \in Resellers /\ txn[u].reseller # b
    BY <1>1, Busy, MutualExclusion DEF WalletInv, Protocol, Holding, NoWork
<1>8. txn[t].balance = IF n = 0 THEN 0 ELSE old[n].after
    BY <1>1, <1>2, EmptySeq DEF WalletInv, Protocol, ReadIsCurrent, BalanceOf
<1>9. /\ row.type = txn[t].type
      /\ row.amount = txn[t].amount
      /\ row.after = Apply(txn[t].type, txn[t].balance, txn[t].amount)
      /\ row.ref = txn[t].ref
    BY DEF NewRow
<1>10. LockHeld'
    BY <1>1, <1>6, <1>7 DEF LockHeld, Commit, End, WalletInv, Protocol, Holding,
                            NoWork
<1>11. ReadIsCurrent'
    BY <1>4, <1>6, <1>7 DEF ReadIsCurrent, WalletInv, Protocol, Holding, NoWork
<1>12. WellAddressed'
    BY <1>6 DEF WellAddressed, WalletInv, Protocol, NoWork
<1>13. ASSUME NEW u \in Txns, u # t, txn[u].pc = "inserted",
              txn[u].type = "topup"
       PROVE  ~ReferenceTaken(txn[u].ref)'
    <2>1. /\ txn[u].ref \in TransIds
          /\ PaidTo[txn[u].ref] = txn[u].reseller
          /\ ~ReferenceTaken(txn[u].ref)
        BY <1>13 DEF WalletInv, Protocol, WellAddressed, InsertIsSound
    <2>2. txn[u].reseller # b
        BY <1>7, <1>13 DEF Holding
    <2>3. txn[t].ref # txn[u].ref
        BY <1>1, <1>2, <2>1, <2>2 DEF WalletInv, Protocol, WellAddressed
    <2>4. txn'[u].ref = txn[u].ref
        BY <1>6, <1>13
    <2>5. ASSUME NEW r \in Resellers, NEW i \in 1..Len(ledger'[r])
          PROVE  ledger'[r][i].ref # txn[u].ref
        <3>1. CASE r # b
            BY <1>4, <2>1, <2>5, <3>1 DEF ReferenceTaken
        <3>2. CASE r = b /\ i \in 1..n
            BY <1>2, <1>5, <2>1, <3>2 DEF ReferenceTaken
        <3>3. CASE r = b /\ i = n + 1
            BY <1>5, <1>9, <2>3, <3>3
        <3> QED
            BY <1>2, <1>5, <2>5, <3>1, <3>2, <3>3
    <2> QED
        BY <2>4, <2>5 DEF ReferenceTaken
<1>14. InsertIsSound'
    BY <1>6, <1>13 DEF InsertIsSound, WalletInv, Protocol, NoWork
<1>15. ASSUME NEW r \in Resellers, NEW i \in 1..Len(ledger'[r])
       PROVE  /\ ledger'[r][i].after =
                    Apply(ledger'[r][i].type,
                          IF i = 1 THEN 0 ELSE ledger'[r][i - 1].after,
                          ledger'[r][i].amount)
              /\ ledger'[r][i].after >= 0
    <2>1. CASE r # b
        BY <1>4, <1>15, <2>1 DEF WalletInv, LedgerChains, NeverOverdrawn
    <2>2. CASE r = b /\ i \in 1..n
        <3>1. i # 1 => i - 1 \in 1..n
            BY <1>2, <2>2
        <3>2. /\ ledger'[r][i] = old[i]
              /\ i # 1 => ledger'[r][i - 1] = old[i - 1]
            BY <1>5, <2>2, <3>1
        <3> QED
            BY <1>2, <2>2, <3>1, <3>2
               DEF WalletInv, LedgerChains, NeverOverdrawn
    <2>3. CASE r = b /\ i = n + 1
        <3>1. (IF i = 1 THEN 0 ELSE ledger'[r][i - 1].after) = txn[t].balance
            BY <1>2, <1>5, <1>8, <2>3
        <3>2. txn[t].balance >= 0
            <4>1. n # 0 => n \in 1..n
                BY <1>2
            <4>2. n # 0 => old[n].after >= 0
                BY <1>2, <4>1 DEF WalletInv, NeverOverdrawn
            <4> QED
                BY <1>8, <4>2
        <3>3. txn[t].type = "debit" => txn[t].balance >= txn[t].amount
            BY <1>1 DEF WalletInv, Protocol, InsertIsSound
        <3>4. row.after >= 0
            BY <1>2, <1>9, <3>2, <3>3 DEF Apply
        <3> QED
            BY <1>5, <1>9, <2>3, <3>1, <3>4
    <2> QED
        BY <1>2, <1>5, <1>15, <2>1, <2>2, <2>3
<1>16. LedgerChains' /\ NeverOverdrawn'
    BY <1>15 DEF LedgerChains, NeverOverdrawn
<1>17. row.ref \in TransIds
          => PaidTo[row.ref] = b /\ ~ReferenceTaken(row.ref)
    BY <1>1, <1>2, <1>9
       DEF WalletInv, Protocol, WellAddressed, InsertIsSound, NoWork
<1>18. \A r \in Resellers : \A i \in 1..Len(ledger'[r]) :
          \/ i \in 1..Len(ledger[r]) /\ ledger'[r][i] = ledger[r][i]
          \/ r = b /\ i = n + 1 /\ ledger'[r][i] = row
    BY <1>2, <1>4, <1>5
<1>19. CreditedOnce'
    <2> SUFFICES ASSUME NEW r \in Resellers, NEW s \in Resellers,
                        NEW i \in 1..Len(ledger'[r]), NEW j \in 1..Len(ledger'[s]),
                        ledger'[r][i].ref = ledger'[s][j].ref,
                        ledger'[r][i].ref \in TransIds
                 PROVE  r = s /\ i = j /\ PaidTo[ledger'[r][i].ref] = r
        BY DEF CreditedOnce
    <2>1. CASE /\ i \in 1..Len(ledger[r]) /\ ledger'[r][i] = ledger[r][i]
               /\ j \in 1..Len(ledger[s]) /\ ledger'[s][j] = ledger[s][j]
        BY <2>1 DEF WalletInv, CreditedOnce
    <2>2. CASE /\ i \in 1..Len(ledger[r]) /\ ledger'[r][i] = ledger[r][i]
               /\ s = b /\ j = n + 1 /\ ledger'[s][j] = row
        BY <1>17, <2>2 DEF ReferenceTaken
    <2>3. CASE /\ r = b /\ i = n + 1 /\ ledger'[r][i] = row
               /\ j \in 1..Len(ledger[s]) /\ ledger'[s][j] = ledger[s][j]
        BY <1>17, <2>3 DEF ReferenceTaken
    <2>4. CASE /\ r = b /\ i = n + 1 /\ ledger'[r][i] = row
               /\ s = b /\ j = n + 1
        BY <1>17, <2>4
    <2> QED
        BY <1>18, <2>1, <2>2, <2>3, <2>4
<1> QED
    BY <1>3, <1>10, <1>11, <1>12, <1>14, <1>16, <1>19 DEF WalletInv, Protocol

-----------------------------------------------------------------------------
\* The inductive step: every action of the wallet keeps the locking protocol
\* and the ledger it protects.
LEMMA WalletStep == WalletInv /\ [Next]_walletVars => WalletInv'
<1> SUFFICES ASSUME WalletInv, [Next]_walletVars PROVE WalletInv'
    OBVIOUS
<1> USE WalletConstants
<1>1. TypeOK /\ TypeOK'
    BY TypeStep DEF WalletInv, Protocol
<1>2. ASSUME ledger' = ledger,
             LockHeld' /\ ReadIsCurrent' /\ InsertIsSound' /\ WellAddressed'
      PROVE  WalletInv'
    BY <1>1, <1>2, LedgerFrame DEF WalletInv, Protocol
<1>3. CASE UNCHANGED walletVars
    BY <1>2, <1>3 DEF walletVars, WalletInv, Protocol, LockHeld, ReadIsCurrent,
                      InsertIsSound, WellAddressed, ReferenceTaken
<1>4. ASSUME NEW t \in Txns, NEW id \in TransIds, ConfirmTopup(t, id)
      PROVE  WalletInv'
    BY <1>2, <1>4, BeginStep DEF ConfirmTopup
<1>5. ASSUME NEW t \in Txns, NEW r \in Resellers, NEW price \in Prices,
             StartSale(t, r, price)
      PROVE  WalletInv'
    BY <1>2, <1>5, BeginStep DEF StartSale
<1>6. ASSUME NEW t \in Txns, Lock(t) PROVE WalletInv'
    <2>1. /\ txn'[t] = [txn[t] EXCEPT !.pc = "locked"]
          /\ \A u \in Txns : u # t => txn'[u] = txn[u]
          /\ ledger' = ledger
        BY <1>1, <1>6 DEF Lock, TypeOK
    <2>2. txn[t] # NoWork
        BY <1>6 DEF Lock, NoWork
    <2>3. /\ txn'[t].pc = "locked"
          /\ txn'[t].reseller = txn[t].reseller /\ txn[t].reseller \in Resellers
          /\ txn'[t].type = txn[t].type /\ txn'[t].ref = txn[t].ref
        BY <1>1, <2>1, <2>2, Busy
    <2>4. LockHeld'
        <3>1. \A u \in Txns : u # t /\ txn[u].pc \in Holding
                  => txn[u].reseller # txn[t].reseller
            BY <1>6 DEF Lock, LockHeld, WalletInv, Protocol
        <3>2. lockedBy'[txn[t].reseller] = t
              /\ \A r \in Resellers : r # txn[t].reseller
                    => lockedBy'[r] = lockedBy[r]
            BY <1>1, <1>6, <2>3 DEF Lock, TypeOK
        <3>3. \A u \in Txns : u # t /\ txn[u].pc \in Holding
                  => txn[u].reseller \in Resellers
            BY <1>1, Busy DEF Holding, NoWork
        <3>4. ASSUME NEW u \in Txns, txn'[u].pc \in Holding
              PROVE  lockedBy'[txn'[u].reseller] = u
            <4>1. CASE u = t
                BY <2>3, <3>2, <4>1
            <4>2. CASE u # t
                BY <2>1, <3>1, <3>2, <3>3, <3>4, <4>2
                   DEF LockHeld, WalletInv, Protocol
            <4> QED
                BY <4>1, <4>2
        <3> QED
            BY <3>4 DEF LockHeld, Holding
    <2>5. ReadIsCurrent'
        BY <2>1, <2>3 DEF ReadIsCurrent, WalletInv, Protocol
    <2>6. InsertIsSound'
        BY <2>1, <2>3, InsertFrame DEF WalletInv, Protocol
    <2>7. WellAddressed'
        BY <1>6, <2>1, <2>3 DEF WellAddressed, WalletInv, Protocol, Lock
    <2> QED
        BY <1>2, <2>1, <2>4, <2>5, <2>6, <2>7
<1>7. ASSUME NEW t \in Txns, ReadBalance(t) PROVE WalletInv'
    <2>1. /\ txn'[t] = [txn[t] EXCEPT !.pc = "read",
                          !.balance = BalanceOf(ledger[txn[t].reseller])]
          /\ \A u \in Txns : u # t => txn'[u] = txn[u]
          /\ ledger' = ledger /\ lockedBy' = lockedBy
        BY <1>1, <1>7 DEF ReadBalance, TypeOK
    <2>2. txn[t] # NoWork
        BY <1>7 DEF ReadBalance, NoWork
    <2>3. /\ txn'[t].pc = "read"
          /\ txn'[t].reseller = txn[t].reseller
          /\ txn'[t].balance = BalanceOf(ledger[txn[t].reseller])
          /\ txn'[t].type = txn[t].type /\ txn'[t].ref = txn[t].ref
        BY <1>1, <2>1, <2>2, Busy
    <2>4. LockHeld'
        BY <1>7, <2>1, <2>3 DEF ReadBalance, LockHeld, WalletInv, Protocol, Holding
    <2>5. ReadIsCurrent'
        BY <2>1, <2>3 DEF ReadIsCurrent, WalletInv, Protocol
    <2>6. InsertIsSound'
        BY <2>1, <2>3, InsertFrame DEF WalletInv, Protocol
    <2>7. WellAddressed'
        BY <1>7, <2>1, <2>3 DEF WellAddressed, WalletInv, Protocol, ReadBalance
    <2> QED
        BY <1>2, <2>1, <2>4, <2>5, <2>6, <2>7
<1>8. ASSUME NEW t \in Txns, InsertRow(t) PROVE WalletInv'
    <2>1. /\ txn'[t] = [txn[t] EXCEPT !.pc = "inserted"]
          /\ \A u \in Txns : u # t => txn'[u] = txn[u]
          /\ ledger' = ledger /\ lockedBy' = lockedBy
        BY <1>1, <1>8 DEF InsertRow, TypeOK
    <2>2. txn[t] # NoWork
        BY <1>8 DEF InsertRow, NoWork
    <2>3. /\ txn'[t].pc = "inserted"
          /\ txn'[t].reseller = txn[t].reseller
          /\ txn'[t].balance = txn[t].balance /\ txn'[t].amount = txn[t].amount
          /\ txn'[t].type = txn[t].type /\ txn'[t].ref = txn[t].ref
        BY <1>1, <2>1, <2>2, Busy
    <2>4. LockHeld'
        BY <1>8, <2>1, <2>3 DEF InsertRow, LockHeld, WalletInv, Protocol, Holding
    <2>5. ReadIsCurrent'
        BY <1>8, <2>1, <2>3 DEF InsertRow, ReadIsCurrent, WalletInv, Protocol
    <2>6. InsertIsSound'
        BY <1>8, <2>1, <2>3
           DEF InsertRow, InsertIsSound, WalletInv, Protocol, ReferenceTaken
    <2>7. WellAddressed'
        BY <1>8, <2>1, <2>3 DEF WellAddressed, WalletInv, Protocol, InsertRow
    <2> QED
        BY <1>2, <2>1, <2>4, <2>5, <2>6, <2>7
<1>9. ASSUME NEW t \in Txns, Refuse(t) \/ Duplicate(t) PROVE WalletInv'
    <2>1. txn[t] # NoWork /\ End(t) /\ ledger' = ledger
        BY <1>9 DEF Refuse, Duplicate, NoWork
    <2> QED
        BY <1>2, <2>1, EndStep
<1>10. ASSUME NEW t \in Txns, Raise(t) \/ Crash(t) PROVE WalletInv'
    BY <1>2, <1>10, EndStep DEF Raise, Crash
<1>11. ASSUME NEW t \in Txns, Commit(t) PROVE WalletInv'
    BY <1>11, CommitStep
<1> QED
    BY <1>3, <1>4, <1>5, <1>6, <1>7, <1>8, <1>9, <1>10, <1>11 DEF Next, Proceed

\* Empty ledgers and no requests.
LEMMA WalletStart == Init => WalletInv
<1>1. Init => TypeOK
    BY EmptySeq DEF Init, TypeOK
<1> QED
    BY <1>1, EmptySeq
       DEF Init, WalletInv, Protocol, LockHeld, ReadIsCurrent, InsertIsSound,
           WellAddressed, LedgerChains, NeverOverdrawn, CreditedOnce, Holding,
           NoWork

\* The locking protocol holds throughout every behaviour of the wallet.
THEOREM WalletInvariant == Spec => []WalletInv
BY WalletStart, WalletStep, PTL DEF Spec

\* topup_wallet and debit_wallet never lose one another's update: in any ledger,
\* of any length, written by any number of concurrent requests, each balance
\* follows from the one before it.
THEOREM NoLostUpdate == Spec => []LedgerChains
BY WalletInvariant, PTL DEF WalletInv

\* debit_wallet never takes a wallet below zero.
THEOREM NoOverdraft == Spec => []NeverOverdrawn
BY WalletInvariant, PTL DEF WalletInv

\* process_daraja_c2b_webhook credits a C2B payment at most once.
THEOREM NoDoubleCredit == Spec => []CreditedOnce
BY WalletInvariant, PTL DEF WalletInv

-----------------------------------------------------------------------------
\* A step in which lock and transactions change as End says.
LEMMA LiveAfterEnd ==
    ASSUME TypeOK, LockedIsLive, NEW t \in Txns, End(t)
    PROVE  LockedIsLive'
<1> SUFFICES ASSUME NEW r \in Resellers, lockedBy'[r] # NoTxn
             PROVE  /\ txn'[lockedBy'[r]].pc \in {"locked", "read", "inserted"}
                    /\ txn'[lockedBy'[r]].reseller = r
    BY DEF LockedIsLive
<1>1. lockedBy'[r] = lockedBy[r] /\ lockedBy[r] # t /\ lockedBy[r] \in Txns
    BY DEF End, TypeOK
<1>2. txn'[lockedBy[r]] = txn[lockedBy[r]]
    BY <1>1 DEF End, TypeOK
<1> QED
    BY <1>1, <1>2 DEF LockedIsLive

\* A step of a transaction that keeps its lock, or has none yet.
LEMMA LiveAfterStep ==
    ASSUME TypeOK, LockedIsLive, NEW t \in Txns, lockedBy' = lockedBy,
           \A u \in Txns : u # t => txn'[u] = txn[u],
           txn[t].pc \in {"locked", "read", "inserted"} =>
               /\ txn'[t].pc \in {"locked", "read", "inserted"}
               /\ txn'[t].reseller = txn[t].reseller
    PROVE  LockedIsLive'
<1> SUFFICES ASSUME NEW r \in Resellers, lockedBy[r] # NoTxn
             PROVE  /\ txn'[lockedBy[r]].pc \in {"locked", "read", "inserted"}
                    /\ txn'[lockedBy[r]].reseller = r
    BY DEF LockedIsLive
<1>1. lockedBy[r] \in Txns
    BY DEF TypeOK
<1> QED
    BY <1>1 DEF LockedIsLive

\* Every action of the wallet leaves locked rows to live transactions.
LEMMA LiveStep == TypeOK /\ LockedIsLive /\ [Next]_walletVars => LockedIsLive'
<1> SUFFICES ASSUME TypeOK, LockedIsLive, [Next]_walletVars PROVE LockedIsLive'
    OBVIOUS
<1> USE WalletConstants
<1>1. CASE UNCHANGED walletVars
    BY <1>1 DEF walletVars, LockedIsLive
<1>2. ASSUME NEW t \in Txns, NEW id \in TransIds, ConfirmTopup(t, id)
      PROVE  LockedIsLive'
    <2>1. txn[t].pc = "idle"
        BY <1>2 DEF ConfirmTopup, NoWork
    <2>2. \A u \in Txns : u # t => txn'[u] = txn[u]
        BY <1>2 DEF ConfirmTopup, TypeOK
    <2> QED
        BY <1>2, <2>1, <2>2, LiveAfterStep DEF ConfirmTopup
<1>3. ASSUME NEW t \in Txns, NEW r \in Resellers, NEW price \in Prices,
             StartSale(t, r, price)
      PROVE  LockedIsLive'
    <2>1. txn[t].pc = "idle"
        BY <1>3 DEF StartSale, NoWork
    <2>2. \A u \in Txns : u # t => txn'[u] = txn[u]
        BY <1>3 DEF StartSale, TypeOK
    <2> QED
        BY <1>3, <2>1, <2>2, LiveAfterStep DEF StartSale
<1>4. ASSUME NEW t \in Txns, Lock(t) PROVE LockedIsLive'
    <2>1. txn[t] # NoWork
        BY <1>4 DEF Lock, NoWork
    <2>2. /\ txn[t].reseller \in Resellers
          /\ txn'[t].pc = "locked" /\ txn'[t].reseller = txn[t].reseller
          /\ \A u \in Txns : u # t => txn'[u] = txn[u]
        BY <1>4, <2>1, Busy DEF Lock, TypeOK
    <2> SUFFICES ASSUME NEW r \in Resellers, lockedBy'[r] # NoTxn
                 PROVE  /\ txn'[lockedBy'[r]].pc \in {"locked", "read", "inserted"}
                        /\ txn'[lockedBy'[r]].reseller = r
        BY DEF LockedIsLive
    <2>3. CASE r = txn[t].reseller
        <3>1. lockedBy'[r] = t
            BY <1>4, <2>3 DEF Lock, TypeOK
        <3> QED
            BY <2>2, <2>3, <3>1
    <2>4. CASE r # txn[t].reseller
        <3>1. lockedBy'[r] = lockedBy[r] /\ lockedBy[r] \in Txns
            BY <1>4, <2>4 DEF Lock, TypeOK
        <3>2. /\ txn[lockedBy[r]].pc \in {"locked", "read", "inserted"}
              /\ txn[lockedBy[r]].reseller = r
            BY <3>1 DEF LockedIsLive
        <3>3. lockedBy[r] # t
            BY <1>4, <3>2 DEF Lock
        <3> QED
            BY <2>2, <3>1, <3>2, <3>3
    <2> QED
        BY <2>3, <2>4
<1>5. ASSUME NEW t \in Txns, ReadBalance(t) PROVE LockedIsLive'
    <2>1. txn[t] # NoWork
        BY <1>5 DEF ReadBalance, NoWork
    <2>2. /\ txn'[t].pc = "read" /\ txn'[t].reseller = txn[t].reseller
          /\ \A u \in Txns : u # t => txn'[u] = txn[u]
        BY <1>5, <2>1, Busy DEF ReadBalance, TypeOK
    <2> QED
        BY <1>5, <2>2, LiveAfterStep DEF ReadBalance
<1>6. ASSUME NEW t \in Txns, InsertRow(t) PROVE LockedIsLive'
    <2>1. txn[t] # NoWork
        BY <1>6 DEF InsertRow, NoWork
    <2>2. /\ txn'[t].pc = "inserted" /\ txn'[t].reseller = txn[t].reseller
          /\ \A u \in Txns : u # t => txn'[u] = txn[u]
        BY <1>6, <2>1, Busy DEF InsertRow, TypeOK
    <2> QED
        BY <1>6, <2>2, LiveAfterStep DEF InsertRow
<1>7. ASSUME NEW t \in Txns,
             Refuse(t) \/ Duplicate(t) \/ Commit(t) \/ Raise(t) \/ Crash(t)
      PROVE  LockedIsLive'
    BY <1>7, LiveAfterEnd DEF Refuse, Duplicate, Commit, Raise, Crash
<1> QED
    BY <1>1, <1>2, <1>3, <1>4, <1>5, <1>6, <1>7 DEF Next, Proceed

\* No path through topup_wallet and debit_wallet, and no failure or crash in them,
\* leaves a users row locked: whoever holds it is still at work on that wallet.
THEOREM LockIsGivenBack == Spec => []LockedIsLive
<1>1. Init => LockedIsLive
    BY DEF Init, LockedIsLive
<1> QED
    BY <1>1, LiveStep, WalletTypeCorrect, PTL DEF Spec

-----------------------------------------------------------------------------
(* The desk.  The dialog's handlers write into whatever it shows when their *)
(* answer comes, and a sale goes on at the server whether or not the page   *)
(* still waits for it.  DeskIInv ties the three together: which transaction *)
(* of the wallet a sale runs in, which opening of the dialog it belongs to, *)
(* and what the dialog has been told of it.                                 *)

\* The sales are numbered without a gap, a sale that exists has a price and belongs
\* to an opening there has been.
SalesOK ==
    \A i \in Sales :
        /\ sale[i].st = "none" => sale[i] = NoSale
        /\ sale[i].st # "none" => /\ sale[i].price \in Prices /\ sale[i].opened <= opens
                                  /\ \A j \in Sales : j < i => sale[j].st # "none"

\* A transaction that works on a sale is a debit of its price from this wallet, and
\* no other one works on it.
RunningOK ==
    \A t \in Txns : running[t] # None =>
        /\ sale[running[t]].st = "running"
        /\ txn[t] # NoWork
        /\ txn[t].type = "debit" /\ txn[t].reseller = Me
        /\ txn[t].amount = sale[running[t]].price
        /\ \A u \in Txns : running[u] = running[t] => u = t

\* While the page waits for a sale of this opening, the dialog stays at the package
\* or is gone.
PendingOK ==
    pending # None =>
        /\ sale[pending].st # "none" /\ sale[pending].heard = "nothing"
        /\ dlg.step # "code"
        /\ sale[pending].opened = opens =>
              /\ dlg.step \in {"closed", "form", "package"}
              /\ dlg.step = "package" => dlg.crossed \/ sale[pending].for = dlg.for

\* A sale of this opening that has not been reported as failed, and is not waited
\* for, leaves no way to the package.
HeardOK ==
    \A i \in Sales :
        sale[i].st # "none" /\ sale[i].opened = opens /\ sale[i].heard # "error"
            /\ pending # i => dlg.step \in {"closed", "form", "code"}

\* The earlier of two sales of one opening was reported as failed.
ErrorsOK ==
    \A i, j \in Sales :
        i < j /\ sale[i].opened = sale[j].opened /\ sale[i].st # "none" /\ sale[j].st # "none"
            => sale[i].heard = "error"

CodeOK ==
    dlg.step = "code" => /\ dlg.voucher \in Sales /\ sale[dlg.voucher].st # "none"
                         /\ dlg.crossed \/ sale[dlg.voucher].for = dlg.for

DeskTypes ==
    /\ sale \in [Sales -> SaleRows] /\ running \in [Txns -> Sales \cup {None}]
    /\ page \in {"wallet", "customers"} /\ known \subseteq People
    /\ dlg \in Dialogs /\ pending \in Sales \cup {None}
    /\ adding \in [for : Newcomers \cup {None}, opened : 0 .. MaxOpens]
    /\ adding # NoAdding => adding.for \in Newcomers
    /\ opens \in 0 .. MaxOpens

\* What the dialog and the sales owe to each other.
DialogOK == PendingOK /\ HeardOK /\ ErrorsOK /\ CodeOK

DeskIInv ==
    WalletInv /\ DeskTypes /\ SalesOK /\ RunningOK /\ DialogOK /\ SalesAreDebited

-----------------------------------------------------------------------------
SoldIn(f, k) == {i \in Sales : f[i].st = "sold" /\ f[i].price = k}

DebitsIn(rows, k) == {j \in 1 .. Len(rows) : rows[j].type = "debit" /\ rows[j].amount = k}

\* Both are finite, so that their cardinalities are numbers.
LEMMA FiniteSales ==
    ASSUME NEW f, NEW k, NEW rows \in Seq(Rows)
    PROVE  /\ IsFiniteSet(SoldIn(f, k)) /\ Cardinality(SoldIn(f, k)) \in Nat
           /\ IsFiniteSet(DebitsIn(rows, k)) /\ Cardinality(DebitsIn(rows, k)) \in Nat
<1>1. IsFiniteSet(Sales)
    BY FS_Interval, DeskConstants DEF Sales
<1>2. Len(rows) \in Nat
    BY LenProperties
<1>3. IsFiniteSet(1 .. Len(rows))
    BY <1>2, FS_Interval
<1>4. SoldIn(f, k) \in SUBSET Sales /\ DebitsIn(rows, k) \in SUBSET (1 .. Len(rows))
    BY DEF SoldIn, DebitsIn
<1>5. IsFiniteSet(SoldIn(f, k)) /\ IsFiniteSet(DebitsIn(rows, k))
    BY <1>1, <1>3, <1>4, FS_Subset
<1> QED
    BY <1>5, FS_CardinalityType

\* Sales that are not made take nothing, and debits stay.
LEMMA DebitedFrame ==
    ASSUME WalletInv, WalletInv', SalesAreDebited,
           \A i \in Sales : sale'[i].st = "sold" =>
                sale[i].st = "sold" /\ sale'[i].price = sale[i].price,
           \A k \in Prices : DebitsIn(ledger[Me], k) \subseteq DebitsIn(ledger'[Me], k)
    PROVE  SalesAreDebited'
<1> SUFFICES ASSUME NEW k \in Prices
             PROVE  Cardinality(SoldIn(sale', k)) <= Cardinality(DebitsIn(ledger'[Me], k))
    BY DEF SalesAreDebited, SoldIn, DebitsIn
<1>1. Cardinality(SoldIn(sale, k)) <= Cardinality(DebitsIn(ledger[Me], k))
    BY DEF SalesAreDebited, SoldIn, DebitsIn
<1>2. SoldIn(sale', k) \subseteq SoldIn(sale, k)
    BY DEF SoldIn
<1>3. ledger[Me] \in Seq(Rows) /\ ledger'[Me] \in Seq(Rows)
    BY DeskConstants DEF WalletInv, Protocol, TypeOK
<1>4. /\ IsFiniteSet(SoldIn(sale, k)) /\ Cardinality(SoldIn(sale, k)) \in Nat
      /\ Cardinality(SoldIn(sale', k)) \in Nat
      /\ Cardinality(DebitsIn(ledger[Me], k)) \in Nat
      /\ IsFiniteSet(DebitsIn(ledger'[Me], k)) /\ Cardinality(DebitsIn(ledger'[Me], k)) \in Nat
    BY <1>3, FiniteSales
<1>5. Cardinality(SoldIn(sale', k)) <= Cardinality(SoldIn(sale, k))
    BY <1>2, <1>4, FS_Subset
<1>6. Cardinality(DebitsIn(ledger[Me], k)) <= Cardinality(DebitsIn(ledger'[Me], k))
    BY <1>4, FS_Subset
<1> QED
    BY <1>1, <1>4, <1>5, <1>6

\* One sale of price k0 is made, and one debit of k0 appears.
LEMMA DebitedSale ==
    ASSUME WalletInv, WalletInv', SalesAreDebited, NEW i \in Sales, NEW k0 \in Prices,
           sale'[i].price = k0,
           \A j \in Sales : j # i => sale'[j] = sale[j],
           NEW row \in Rows, row.type = "debit", row.amount = k0,
           ledger'[Me] = Append(ledger[Me], row)
    PROVE  SalesAreDebited'
<1> SUFFICES ASSUME NEW k \in Prices
             PROVE  Cardinality(SoldIn(sale', k)) <= Cardinality(DebitsIn(ledger'[Me], k))
    BY DEF SalesAreDebited, SoldIn, DebitsIn
<1> DEFINE S == SoldIn(sale, k)       S2 == SoldIn(sale', k)
           D == DebitsIn(ledger[Me], k)  D2 == DebitsIn(ledger'[Me], k)
           n == Len(ledger[Me])
<1>1. Cardinality(S) <= Cardinality(D)
    BY DEF SalesAreDebited, SoldIn, DebitsIn
<1>2. ledger[Me] \in Seq(Rows) /\ ledger'[Me] \in Seq(Rows)
    BY DeskConstants DEF WalletInv, Protocol, TypeOK
<1>3. /\ IsFiniteSet(S) /\ IsFiniteSet(S2) /\ IsFiniteSet(D) /\ IsFiniteSet(D2)
      /\ Cardinality(S) \in Nat /\ Cardinality(S2) \in Nat
      /\ Cardinality(D) \in Nat /\ Cardinality(D2) \in Nat
    BY <1>2, FiniteSales
<1>4. /\ n \in Nat /\ Len(ledger'[Me]) = n + 1
      /\ \A j \in 1 .. n : ledger'[Me][j] = ledger[Me][j]
      /\ ledger'[Me][n + 1] = row
    BY <1>2, AppendProperties, LenProperties
<1>5. D \subseteq D2
    BY <1>4 DEF DebitsIn
<1>6. CASE k = k0
    <2>1. S2 \subseteq S \cup {i}
        BY DEF SoldIn
    <2>2. n + 1 \notin D /\ D \cup {n + 1} \subseteq D2
        BY <1>4, <1>5, <1>6 DEF DebitsIn
    <2> HIDE DEF S, S2, D, D2, n
    <2>3. /\ IsFiniteSet(S \cup {i})
          /\ Cardinality(S \cup {i}) \in {Cardinality(S), Cardinality(S) + 1}
        BY <1>3, FS_AddElement, Zenon
    <2>4. Cardinality(D \cup {n + 1}) = Cardinality(D) + 1 /\ IsFiniteSet(D \cup {n + 1})
        BY <1>3, <2>2, FS_AddElement
    <2>5. Cardinality(S2) <= Cardinality(S \cup {i})
        BY <2>1, <2>3, FS_Subset
    <2>6. Cardinality(D \cup {n + 1}) <= Cardinality(D2)
        BY <1>3, <2>2, FS_Subset
    <2> QED
        BY <1>1, <1>3, <2>3, <2>4, <2>5, <2>6 DEF S2, D2
<1>7. CASE k # k0
    <2>1. S2 \subseteq S
        BY <1>7 DEF SoldIn
    <2> HIDE DEF S, S2, D, D2
    <2>2. Cardinality(S2) <= Cardinality(S) /\ Cardinality(D) <= Cardinality(D2)
        BY <1>3, <1>5, <2>1, FS_Subset
    <2> QED
        BY <1>1, <1>3, <2>2 DEF S2, D2
<1> QED
    BY <1>6, <1>7

-----------------------------------------------------------------------------
(* The pages and the dialog.                                               *)

\* A step of the browser that confirms no sale and hears of none.
LEMMA DeskFrame ==
    ASSUME DeskIInv, UNCHANGED <<walletVars, sale, running>>, opens' \in Nat, opens <= opens'
    PROVE  WalletInv' /\ SalesOK' /\ RunningOK' /\ SalesAreDebited' /\ ErrorsOK'
<1>1. WalletInv'
    BY WalletStep DEF DeskIInv
<1>2. SalesOK'
    <2>1. \A i \in Sales : sale[i].opened \in Nat
        BY DeskConstants DEF DeskIInv, DeskTypes, SaleRows
    <2> QED
        BY <2>1, DeskConstants DEF DeskIInv, SalesOK, DeskTypes
<1>3. RunningOK' /\ ErrorsOK'
    BY DEF DeskIInv, DialogOK, RunningOK, ErrorsOK, walletVars
<1>4. SalesAreDebited'
    BY DEF DeskIInv, SalesAreDebited, walletVars
<1> QED
    BY <1>1, <1>2, <1>3, <1>4

\* A handler that only changes what the dialog shows.
LEMMA ShowStep ==
    ASSUME DeskIInv, NEW d \in Dialogs, Show(d),
           pending # None /\ sale[pending].opened = opens =>
              /\ d.step \in {"closed", "form", "package"}
              /\ d.step = "package" => d.crossed \/ sale[pending].for = d.for,
           dlg.step \in {"closed", "form", "code"} => d.step \in {"closed", "form"},
           d.step # "code"
    PROVE  DeskIInv'
<1>1. opens \in Nat
    BY DeskConstants DEF DeskIInv, DeskTypes
<1>2. WalletInv' /\ SalesOK' /\ RunningOK' /\ SalesAreDebited' /\ ErrorsOK'
    BY <1>1, DeskFrame DEF Show
<1>3. DeskTypes'
    BY DEF DeskIInv, DeskTypes, Show
<1>4. PendingOK' /\ HeardOK' /\ CodeOK'
    BY DEF DeskIInv, DialogOK, PendingOK, HeardOK, CodeOK, Show
<1> QED
    BY <1>2, <1>3, <1>4 DEF DeskIInv, DialogOK

LEMMA ChooseStep ==
    ASSUME DeskIInv,
           \/ CloseDialog \/ HandleOpenForm \/ ToggleQuickAdd \/ HandleNextStep \/ BackToCustomer
           \/ \E c \in People : SelectCustomer(c)
           \/ \E k \in Prices : SelectPackage(k)
    PROVE  DeskIInv'
<1>1. /\ dlg \in Dialogs
      /\ pending # None /\ sale[pending].opened = opens =>
            /\ dlg.step \in {"closed", "form", "package"}
            /\ dlg.step = "package" => dlg.crossed \/ sale[pending].for = dlg.for
    BY DEF DeskIInv, DeskTypes, DialogOK, PendingOK
<1>2. CASE CloseDialog
    <2> DEFINE d == [dlg EXCEPT !.step = "closed"]
    <2>1. d \in Dialogs /\ d.step = "closed" /\ Show(d)
        BY <1>1, <1>2 DEF Dialogs, CloseDialog
    <2> HIDE DEF d
    <2> QED
        BY <2>1, ShowStep
<1>3. CASE HandleOpenForm
    <2> DEFINE d == [Closed EXCEPT !.step = "form"]
    <2>1. d \in Dialogs /\ d.step = "form" /\ Show(d)
        BY <1>3 DEF Dialogs, HandleOpenForm, Closed
    <2> HIDE DEF d
    <2> QED
        BY <2>1, ShowStep
<1>4. CASE ToggleQuickAdd
    <2>1. CASE CustomerStep /\ Show([dlg EXCEPT !.step = "quick"])
        <3> DEFINE d == [dlg EXCEPT !.step = "quick"]
        <3>1. d \in Dialogs /\ d.step = "quick" /\ Show(d) /\ dlg.step = "customer"
            BY <1>1, <2>1 DEF Dialogs, CustomerStep
        <3> HIDE DEF d
        <3> QED
            BY <1>1, <3>1, ShowStep
    <2>2. CASE dlg.step = "quick" /\ Show([dlg EXCEPT !.step = "customer"])
        <3> DEFINE d == [dlg EXCEPT !.step = "customer"]
        <3>1. d \in Dialogs /\ d.step = "customer" /\ Show(d) /\ dlg.step = "quick"
            BY <1>1, <2>2 DEF Dialogs
        <3> HIDE DEF d
        <3> QED
            BY <1>1, <3>1, ShowStep
    <2> QED
        BY <1>4, <2>1, <2>2 DEF ToggleQuickAdd
<1>5. CASE HandleNextStep
    <2> DEFINE d == [dlg EXCEPT !.step = "package"]
    <2>1. d \in Dialogs /\ d.step = "package" /\ Show(d) /\ dlg.step = "customer"
        BY <1>1, <1>5 DEF Dialogs, HandleNextStep, CustomerStep
    <2> HIDE DEF d
    <2> QED
        BY <1>1, <2>1, ShowStep
<1>6. CASE BackToCustomer
    <2> DEFINE d == [dlg EXCEPT !.step = "customer"]
    <2>1. d \in Dialogs /\ d.step = "customer" /\ Show(d) /\ dlg.step = "package" /\ pending = None
        BY <1>1, <1>6 DEF Dialogs, BackToCustomer, PackageStep
    <2> HIDE DEF d
    <2> QED
        BY <1>1, <2>1, ShowStep
<1>7. ASSUME NEW c \in People, SelectCustomer(c)
      PROVE  DeskIInv'
    <2> DEFINE d == [dlg EXCEPT !.for = c]
    <2>1. d \in Dialogs /\ d.step = "customer" /\ Show(d) /\ dlg.step = "customer"
        BY <1>1, <1>7 DEF Dialogs, SelectCustomer, CustomerStep
    <2> HIDE DEF d
    <2> QED
        BY <1>1, <2>1, ShowStep
<1>8. ASSUME NEW k \in Prices, SelectPackage(k)
      PROVE  DeskIInv'
    <2> DEFINE d == [dlg EXCEPT !.price = k]
    <2>1. /\ d \in Dialogs /\ d.step = "package" /\ d.for = dlg.for /\ d.crossed = dlg.crossed
          /\ Show(d) /\ dlg.step = "package"
        BY <1>1, <1>8 DEF Dialogs, SelectPackage, PackageStep
    <2> HIDE DEF d
    <2> QED
        BY <1>1, <2>1, ShowStep
<1> QED
    BY <1>2, <1>3, <1>4, <1>5, <1>6, <1>7, <1>8

\* The page is left, or a dialog opens.
LEMMA OpenStep ==
    ASSUME DeskIInv,
           \/ \E p \in {"wallet", "customers"} : ChangePage(p)
           \/ GenerateVoucherButton
           \/ \E c \in People : HandleSellPlan(c)
    PROVE  DeskIInv'
<1>1. opens \in Nat /\ opens \in 0 .. MaxOpens /\ DeskTypes
    BY DeskConstants DEF DeskIInv, DeskTypes
<1>2. Closed \in Dialogs /\ Closed.step = "closed"
    BY DEF Closed, Dialogs
<1>3. ASSUME NEW p \in {"wallet", "customers"}, ChangePage(p)
      PROVE  DeskIInv'
    <2>1. WalletInv' /\ SalesOK' /\ RunningOK' /\ SalesAreDebited' /\ ErrorsOK'
        BY <1>1, <1>3, DeskFrame DEF ChangePage
    <2>2. NoAdding \in [for : Newcomers \cup {None}, opened : 0 .. MaxOpens]
        BY DeskConstants DEF NoAdding
    <2>3. known' \subseteq People
        BY <1>1, <1>3 DEF ChangePage, DeskTypes, People
    <2>4. DeskTypes'
        BY <1>1, <1>2, <1>3, <2>2, <2>3 DEF ChangePage, DeskTypes
    <2>5. PendingOK' /\ HeardOK' /\ CodeOK'
        BY <1>2, <1>3 DEF ChangePage, PendingOK, HeardOK, CodeOK
    <2> QED
        BY <2>1, <2>4, <2>5 DEF DeskIInv, DialogOK
<1>4. ASSUME NEW c \in People \cup {None}, OpenDialog(c)
      PROVE  DeskIInv'
    <2>1. opens' \in Nat /\ opens <= opens' /\ opens' \in 0 .. MaxOpens /\ opens < opens'
        BY <1>1, <1>4, DeskConstants DEF OpenDialog
    <2>2. WalletInv' /\ SalesOK' /\ RunningOK' /\ SalesAreDebited' /\ ErrorsOK'
        BY <1>4, <2>1, DeskFrame DEF OpenDialog
    <2>3. Opening(c) \in Dialogs /\ Opening(c).step = "customer"
        BY DEF Opening, Closed, Dialogs
    <2>4. DeskTypes'
        BY <1>1, <1>4, <2>1, <2>3 DEF OpenDialog, DeskTypes
    <2>5. \A i \in Sales : sale'[i].st # "none" => sale'[i].opened # opens'
        <3>1. \A i \in Sales : sale[i].opened \in Nat
            BY <1>1, DeskConstants DEF DeskTypes, SaleRows
        <3> QED
            BY <1>1, <1>4, <2>1, <3>1 DEF OpenDialog, DeskIInv, SalesOK
    <2>6. PendingOK' /\ HeardOK' /\ CodeOK'
        BY <1>1, <1>4, <2>3, <2>5
        DEF OpenDialog, DeskIInv, DialogOK, DeskTypes, PendingOK, HeardOK, CodeOK
    <2> QED
        BY <2>2, <2>4, <2>6 DEF DeskIInv, DialogOK
<1> QED
    BY <1>3, <1>4 DEF GenerateVoucherButton, HandleSellPlan

\* Registering a customer, from the form to its answer.
LEMMA RegisterStep ==
    ASSUME DeskIInv,
           \/ \E c \in Newcomers : HandleQuickAdd(c) \/ OnSubmit(c)
           \/ CustomerCreated \/ QuickAdded \/ RegisterFails
    PROVE  DeskIInv'
<1>1. /\ opens \in Nat /\ opens \in 0 .. MaxOpens /\ DeskTypes /\ dlg \in Dialogs
      /\ adding \in [for : Newcomers \cup {None}, opened : 0 .. MaxOpens]
      /\ PendingOK /\ HeardOK /\ CodeOK
    BY DeskConstants DEF DeskIInv, DeskTypes, DialogOK
<1>2. NoAdding \in [for : Newcomers \cup {None}, opened : 0 .. MaxOpens]
    BY DeskConstants DEF NoAdding
<1>4. ASSUME NEW c \in Newcomers, NEW o \in 0 .. MaxOpens, Register(c, o)
      PROVE  DeskIInv'
    <2>1. WalletInv' /\ SalesOK' /\ RunningOK' /\ SalesAreDebited' /\ ErrorsOK'
        BY <1>1, <1>4, DeskFrame DEF Register
    <2>2. DeskTypes'
        BY <1>1, <1>4 DEF Register, DeskTypes
    <2>3. PendingOK' /\ HeardOK' /\ CodeOK'
        BY <1>1, <1>4 DEF Register, PendingOK, HeardOK, CodeOK
    <2> QED
        BY <2>1, <2>2, <2>3 DEF DeskIInv, DialogOK
<1>5. ASSUME NEW d \in Dialogs, Registered(d), adding.for \in Newcomers,
             pending # None /\ sale[pending].opened = opens =>
                /\ d.step \in {"closed", "form", "package"}
                /\ d.step = "package" => d.crossed \/ sale[pending].for = d.for,
             dlg.step \in {"closed", "form", "code"} => d.step \in {"closed", "form", "code"},
             d.step = "code" => /\ dlg.step = "code" /\ d.voucher = dlg.voucher
                                /\ d.crossed \/ (d.for = dlg.for /\ d.crossed = dlg.crossed)
      PROVE  DeskIInv'
    <2>1. WalletInv' /\ SalesOK' /\ RunningOK' /\ SalesAreDebited' /\ ErrorsOK'
        BY <1>1, <1>5, DeskFrame DEF Registered
    <2>2. DeskTypes'
        BY <1>1, <1>2, <1>5 DEF Registered, DeskTypes, People
    <2>3. PendingOK' /\ HeardOK' /\ CodeOK'
        BY <1>1, <1>5 DEF Registered, PendingOK, HeardOK, CodeOK
    <2> QED
        BY <2>1, <2>2, <2>3 DEF DeskIInv, DialogOK
<1>6. CASE CustomerCreated
    <2> DEFINE d == IF dlg.step = "form" THEN Closed ELSE dlg
    <2>1. Registered(d) /\ adding.for \in Newcomers
        BY <1>1, <1>6 DEF CustomerCreated, DeskTypes
    <2>2. CASE dlg.step = "form"
        <3>1. d \in Dialogs /\ d.step = "closed"
            BY <2>2 DEF Closed, Dialogs
        <3> HIDE DEF d
        <3> QED
            BY <1>5, <2>1, <3>1
    <2>3. CASE dlg.step # "form"
        <3>1. d = dlg
            BY <2>3
        <3> HIDE DEF d
        <3> QED
            BY <1>1, <1>5, <2>1, <3>1 DEF PendingOK
    <2> QED
        BY <2>2, <2>3
<1>7. CASE QuickAdded
    <2> DEFINE c == adding.for
               step == IF dlg.step = "quick" THEN "customer" ELSE dlg.step
               cr == dlg.crossed \/ adding.opened # opens \/ dlg.step \in {"package", "code"}
               d == [dlg EXCEPT !.for = c, !.step = step, !.crossed = cr]
    <2>1. Registered(d) /\ c \in Newcomers
        BY <1>1, <1>7 DEF QuickAdded, DeskTypes
    <2>2. /\ step \in {"closed", "customer", "package", "code", "form"} /\ cr \in BOOLEAN
          /\ step \in {"closed", "form", "package", "code"} => dlg.step = step
          /\ dlg.step \in {"closed", "form", "package", "code"} => dlg.step = step
          /\ step \in {"package", "code"} => cr
        BY <1>1 DEF Dialogs
    <2>3. c \in People \cup {None}
        BY <2>1 DEF People
    <2> HIDE DEF c, step, cr
    <2>4. d \in Dialogs /\ d.step = step /\ d.crossed = cr /\ d.voucher = dlg.voucher
        BY <1>1, <2>2, <2>3 DEF Dialogs
    <2> HIDE DEF d
    <2> QED
        BY <1>1, <1>5, <2>1, <2>2, <2>4 DEF PendingOK, c
<1>8. CASE RegisterFails
    <2>1. WalletInv' /\ SalesOK' /\ RunningOK' /\ SalesAreDebited' /\ ErrorsOK'
        BY <1>1, <1>8, DeskFrame DEF RegisterFails
    <2>2. DeskTypes'
        BY <1>1, <1>2, <1>8 DEF RegisterFails, DeskTypes, People
    <2>3. PendingOK' /\ HeardOK' /\ CodeOK'
        BY <1>1, <1>8 DEF RegisterFails, PendingOK, HeardOK, CodeOK
    <2> QED
        BY <2>1, <2>2, <2>3 DEF DeskIInv, DialogOK
<1> QED
    BY <1>1, <1>4, <1>6, <1>7, <1>8, DeskConstants DEF HandleQuickAdd, OnSubmit

-----------------------------------------------------------------------------
(* The sale, as the dialog sees it.                                        *)

\* A step of the dialog that makes no sale and touches no transaction.  Which
\* fields of the sales stay as they are is what the next lemma needs of it.
LEMMA SalesFrame ==
    ASSUME DeskIInv, UNCHANGED <<walletVars, running>>,
           \A i \in Sales : /\ sale'[i].st = "sold" <=> sale[i].st = "sold"
                            /\ sale[i].st = "sold" => sale'[i].price = sale[i].price
                            /\ sale[i].st = "running" => /\ sale'[i].st = "running"
                                                         /\ sale'[i].price = sale[i].price
    PROVE  WalletInv' /\ RunningOK' /\ SalesAreDebited'
<1>1. WalletInv'
    BY WalletStep DEF DeskIInv
<1>2. SalesAreDebited'
    BY <1>1, DebitedFrame DEF DeskIInv, walletVars
<1>3. RunningOK'
    BY DEF DeskIInv, RunningOK, DeskTypes, walletVars
<1> QED
    BY <1>1, <1>2, <1>3

\* "Generate": the sale gets the next number, and no earlier sale of this opening
\* is unheard of.
LEMMA ConfirmStep ==
    ASSUME DeskIInv, NEW i \in Sales, HandleConfirmGenerate(i)
    PROVE  DeskIInv'
<1> DEFINE row == [NoSale EXCEPT !.st = "asked", !.for = dlg.for, !.price = dlg.price,
                                 !.opened = opens]
<1>1. /\ DeskTypes /\ SalesOK /\ HeardOK /\ ErrorsOK
      /\ dlg \in Dialogs /\ sale \in [Sales -> SaleRows] /\ opens \in 0 .. MaxOpens
    BY DEF DeskIInv, DeskTypes, DialogOK
<1>2. /\ dlg.step = "package" /\ dlg.price \in Prices /\ pending = None
      /\ sale[i] = NoSale /\ \A j \in 1 .. (i - 1) : sale[j] # NoSale
    BY <1>1 DEF HandleConfirmGenerate, ConfirmReady, PackageStep, Dialogs
<1>3. /\ row \in SaleRows /\ row.st = "asked" /\ row.for = dlg.for /\ row.price = dlg.price
      /\ row.opened = opens /\ row.heard = "nothing"
    BY <1>1, <1>2 DEF NoSale, SaleRows, Dialogs
<1>4. sale' = [sale EXCEPT ![i] = row]
    BY DEF HandleConfirmGenerate
<1> HIDE DEF row
<1>5. /\ sale'[i] = row /\ \A j \in Sales : j # i => sale'[j] = sale[j]
      /\ sale' \in [Sales -> SaleRows]
    BY <1>1, <1>3, <1>4
<1>6. sale[i].st = "none"
    BY <1>2 DEF NoSale
<1>7. \A j \in Sales : j < i => sale[j].st # "none"
    BY <1>1, <1>2, DeskConstants DEF SalesOK, Sales
<1>8. WalletInv' /\ RunningOK' /\ SalesAreDebited'
    BY <1>3, <1>5, <1>6, SalesFrame DEF HandleConfirmGenerate
<1>9. DeskTypes'
    BY <1>1, <1>5 DEF DeskTypes, HandleConfirmGenerate
<1>10. SalesOK'
    <2>1. opens' = opens /\ opens <= opens
        BY <1>1, DeskConstants DEF HandleConfirmGenerate
    <2> QED
        BY <1>1, <1>2, <1>3, <1>5, <1>6, <1>7, <2>1 DEF SalesOK
<1>11. \A j \in Sales : sale[j].st # "none" /\ sale[j].opened = opens => sale[j].heard = "error"
    BY <1>1, <1>2, DeskConstants DEF HeardOK, Sales
<1>12. dlg' = dlg /\ opens' = opens /\ pending' = i
    BY DEF HandleConfirmGenerate
<1>13. PendingOK' /\ HeardOK' /\ CodeOK'
    BY <1>2, <1>3, <1>5, <1>11, <1>12 DEF PendingOK, HeardOK, CodeOK
<1>14. ErrorsOK'
    <2>1. \A j \in Sales : i < j => sale[j].st = "none"
        BY <1>1, <1>6 DEF SalesOK
    <2>2. i \in Int /\ ~(i < i)
        BY DEF Sales
    <2> QED
        BY <1>1, <1>3, <1>5, <1>6, <1>11, <2>1, <2>2 DEF ErrorsOK
<1> QED
    BY <1>8, <1>9, <1>10, <1>13, <1>14 DEF DeskIInv, DialogOK

\* The dialog is told of its sale.
LEMMA HearStep ==
    ASSUME DeskIInv, SaleAnswered \/ SaleFails
    PROVE  DeskIInv'
<1>1. /\ DeskTypes /\ SalesOK /\ PendingOK /\ HeardOK /\ ErrorsOK /\ CodeOK
      /\ dlg \in Dialogs /\ sale \in [Sales -> SaleRows] /\ pending \in Sales
      /\ None \notin Sales
    BY DeskConstants DEF DeskIInv, DeskTypes, DialogOK, SaleAnswered, SaleFails
<1>2. PICK h \in {"code", "error"} : /\ sale' = [sale EXCEPT ![pending].heard = h]
                                     /\ h = "code" <=> SaleAnswered
    BY <1>1 DEF SaleAnswered, SaleFails, DeskTypes, SaleRows
<1>3. /\ sale' \in [Sales -> SaleRows]
      /\ sale'[pending].heard = h /\ sale'[pending].st = sale[pending].st
      /\ sale'[pending].for = sale[pending].for /\ sale'[pending].price = sale[pending].price
      /\ sale'[pending].opened = sale[pending].opened
      /\ \A j \in Sales : j # pending => sale'[j] = sale[j]
    BY <1>1, <1>2 DEF SaleRows
<1>4. /\ UNCHANGED <<walletVars, running, page, known, adding, opens>> /\ pending' = None
    BY DEF SaleAnswered, SaleFails
<1>5. WalletInv' /\ RunningOK' /\ SalesAreDebited'
    BY <1>3, <1>4, SalesFrame
<1>6. SalesOK'
    BY <1>1, <1>3, <1>4 DEF SalesOK, PendingOK
<1>7. ErrorsOK'
    BY <1>1, <1>3 DEF ErrorsOK, PendingOK
<1>8. PendingOK'
    BY <1>4 DEF PendingOK
<1>9. CASE SaleAnswered
    <2> DEFINE step == IF dlg.step \in {"closed", "form"} THEN dlg.step ELSE "code"
               cr == dlg.crossed \/ sale[pending].opened # opens
               d == [dlg EXCEPT !.voucher = pending, !.step = step, !.crossed = cr]
    <2>1. dlg' = d
        BY <1>9 DEF SaleAnswered
    <2>2. step \in {"closed", "form", "code"} /\ cr \in BOOLEAN
        BY <1>1 DEF Dialogs
    <2>3. step = "code" => dlg.step \notin {"closed", "form"}
        OBVIOUS
    <2>4. ~cr => ~dlg.crossed /\ sale[pending].opened = opens
        OBVIOUS
    <2> HIDE DEF step, cr
    <2>5. d \in Dialogs /\ d.step = step /\ d.voucher = pending /\ d.crossed = cr /\ d.for = dlg.for
        BY <1>1, <2>2 DEF Dialogs
    <2> HIDE DEF d
    <2>6. DeskTypes'
        BY <1>1, <1>3, <1>4, <2>1, <2>5 DEF DeskTypes
    <2>7. HeardOK'
        BY <2>1, <2>2, <2>5 DEF HeardOK
    <2>8. CodeOK'
        BY <1>1, <1>3, <2>1, <2>3, <2>4, <2>5 DEF CodeOK, PendingOK
    <2> QED
        BY <1>5, <1>6, <1>7, <1>8, <2>6, <2>7, <2>8 DEF DeskIInv, DialogOK
<1>10. CASE SaleFails /\ ~SaleAnswered
    <2>1. dlg' = dlg /\ h = "error"
        BY <1>2, <1>10 DEF SaleFails
    <2>2. DeskTypes'
        BY <1>1, <1>3, <1>4, <2>1 DEF DeskTypes
    <2>3. HeardOK'
        BY <1>1, <1>3, <1>4, <2>1 DEF HeardOK
    <2>4. CodeOK'
        BY <1>1, <2>1 DEF CodeOK, PendingOK
    <2> QED
        BY <1>5, <1>6, <1>7, <1>8, <2>2, <2>3, <2>4 DEF DeskIInv, DialogOK
<1> QED
    BY <1>9, <1>10

-----------------------------------------------------------------------------
(* The sale, as the server sees it.                                        *)

\* The dialog does not see how far its sale is.
LEMMA StatusStep ==
    ASSUME DeskIInv, NEW i \in Sales, NEW s \in {"running", "sold", "refused"},
           sale[i].st # "none", sale' = [sale EXCEPT ![i].st = s],
           running' \in [Txns -> Sales \cup {None}], UNCHANGED uiVars
    PROVE  /\ DeskTypes' /\ SalesOK' /\ DialogOK'
           /\ sale'[i].st = s /\ sale'[i].price = sale[i].price
           /\ \A j \in Sales : j # i => sale'[j] = sale[j]
<1>1. DeskTypes /\ SalesOK /\ DialogOK /\ sale \in [Sales -> SaleRows]
    BY DEF DeskIInv, DeskTypes
<1>2. /\ sale' \in [Sales -> SaleRows]
      /\ sale'[i].st = s /\ sale'[i].heard = sale[i].heard
      /\ sale'[i].for = sale[i].for /\ sale'[i].price = sale[i].price
      /\ sale'[i].opened = sale[i].opened
      /\ \A j \in Sales : j # i => sale'[j] = sale[j]
    BY <1>1 DEF SaleRows
<1>3. /\ \A j \in Sales : /\ sale'[j].st = "none" <=> sale[j].st = "none"
                          /\ sale'[j].heard = sale[j].heard /\ sale'[j].for = sale[j].for
                          /\ sale'[j].price = sale[j].price /\ sale'[j].opened = sale[j].opened
    BY <1>2
<1>4. DeskTypes'
    BY <1>1, <1>2 DEF DeskTypes, uiVars
<1>5. SalesOK'
    <2>1. opens' = opens
        BY DEF uiVars
    <2> QED
        BY <1>1, <1>2, <1>3, <2>1 DEF SalesOK
<1>6. DialogOK'
    <2>1. pending' = pending /\ dlg' = dlg /\ opens' = opens
        BY DEF uiVars
    <2>2. PendingOK'
        BY <1>1, <1>3, <2>1 DEF DialogOK, PendingOK, DeskTypes
    <2>3. HeardOK'
        BY <1>1, <1>3, <2>1 DEF DialogOK, HeardOK
    <2>4. ErrorsOK'
        BY <1>1, <1>3 DEF DialogOK, ErrorsOK
    <2>5. CodeOK'
        BY <1>1, <1>3, <2>1 DEF DialogOK, CodeOK
    <2> QED
        BY <2>2, <2>3, <2>4, <2>5 DEF DialogOK
<1> QED
    BY <1>2, <1>4, <1>5, <1>6

\* The same when no sale of the desk is touched.
LEMMA UntouchedStep ==
    ASSUME DeskIInv, UNCHANGED <<sale, running, uiVars>>
    PROVE  DeskTypes' /\ SalesOK' /\ DialogOK'
<1>1. DeskTypes' /\ SalesOK'
    BY DEF DeskIInv, DeskTypes, SalesOK, uiVars
<1>2. PendingOK' /\ HeardOK' /\ ErrorsOK' /\ CodeOK'
    BY DEF DeskIInv, DialogOK, PendingOK, HeardOK, ErrorsOK, CodeOK, uiVars
<1> QED
    BY <1>1, <1>2 DEF DialogOK

\* The package has been retired, or the request fails before its transaction.
LEMMA RejectStep ==
    ASSUME DeskIInv, NEW i \in Sales, RejectSale(i)
    PROVE  DeskIInv'
<1>1. /\ sale[i].st = "asked" /\ sale' = [sale EXCEPT ![i].st = "refused"]
      /\ UNCHANGED <<walletVars, running, uiVars>>
    BY DEF RejectSale
<1>2. running' \in [Txns -> Sales \cup {None}]
    BY <1>1 DEF DeskIInv, DeskTypes
<1>3. /\ DeskTypes' /\ SalesOK' /\ DialogOK' /\ sale'[i].st = "refused"
      /\ \A j \in Sales : j # i => sale'[j] = sale[j]
    BY <1>1, <1>2, StatusStep
<1>4. WalletInv' /\ RunningOK' /\ SalesAreDebited'
    BY <1>1, <1>3, SalesFrame
<1> QED
    BY <1>3, <1>4 DEF DeskIInv

\* A transaction begins: for this sale, or for somebody else.
LEMMA BeginSaleStep ==
    ASSUME DeskIInv, NEW t \in Txns, NEW i \in Sales, BeginSale(t, i)
    PROVE  [Next]_walletVars /\ DeskIInv'
<1> DEFINE work == [pc |-> "begun", type |-> "debit", reseller |-> Me,
                    amount |-> sale[i].price, ref |-> SaleRef, balance |-> 0]
<1>1. /\ sale[i].st = "asked" /\ sale' = [sale EXCEPT ![i].st = "running"]
      /\ running' = [running EXCEPT ![t] = i] /\ UNCHANGED uiVars
      /\ StartSale(t, Me, sale[i].price)
    BY DEF BeginSale
<1>2. sale[i].price \in Prices /\ Me \in Resellers
    BY <1>1, DeskConstants DEF DeskIInv, SalesOK
<1>3. Next
    BY <1>1, <1>2 DEF Next
<1>4. WalletInv'
    BY <1>3, WalletStep DEF DeskIInv
<1>5. /\ running \in [Txns -> Sales \cup {None}] /\ running' \in [Txns -> Sales \cup {None}]
      /\ running'[t] = i /\ \A u \in Txns : u # t => running'[u] = running[u]
    BY <1>1 DEF DeskIInv, DeskTypes
<1>6. /\ DeskTypes' /\ SalesOK' /\ DialogOK' /\ sale'[i].st = "running"
      /\ sale'[i].price = sale[i].price
      /\ \A j \in Sales : j # i => sale'[j] = sale[j]
    BY <1>1, <1>5, StatusStep
<1>7. SalesAreDebited'
    BY <1>1, <1>4, <1>6, DebitedFrame DEF DeskIInv, StartSale
<1>8. txn'[t] = work /\ \A u \in Txns : u # t => txn'[u] = txn[u]
    BY <1>1 DEF StartSale, DeskIInv, WalletInv, Protocol, TypeOK
<1>9. /\ work # NoWork /\ work.type = "debit" /\ work.reseller = Me
      /\ work.amount = sale[i].price
    BY DEF NoWork
<1> HIDE DEF work
<1>10. \A u \in Txns : running[u] # None => running[u] \in Sales /\ running[u] # i
    BY <1>1, <1>5 DEF DeskIInv, RunningOK
<1>11. RunningOK'
    <2> SUFFICES ASSUME NEW u \in Txns, running'[u] # None
                 PROVE  /\ sale'[running'[u]].st = "running"
                        /\ txn'[u] # NoWork
                        /\ txn'[u].type = "debit" /\ txn'[u].reseller = Me
                        /\ txn'[u].amount = sale'[running'[u]].price
                        /\ \A v \in Txns : running'[v] = running'[u] => v = u
        BY DEF RunningOK
    <2>1. CASE u = t
        BY <1>5, <1>6, <1>8, <1>9, <1>10, <2>1, DeskConstants
    <2>2. CASE u # t
        <3>1. /\ running'[u] = running[u] /\ running[u] \in Sales /\ running[u] # i
              /\ txn'[u] = txn[u] /\ sale'[running[u]] = sale[running[u]]
            BY <1>5, <1>6, <1>8, <1>10, <2>2
        <3> QED
            BY <1>5, <3>1 DEF DeskIInv, RunningOK
    <2> QED
        BY <2>1, <2>2
<1> QED
    BY <1>3, <1>4, <1>6, <1>7, <1>11 DEF DeskIInv

LEMMA ArriveStep ==
    ASSUME DeskIInv, NEW t \in Txns, Arrive(t)
    PROVE  [Next]_walletVars /\ DeskIInv'
<1>1. Next /\ txn[t] = NoWork /\ ledger' = ledger
    BY DEF Arrive, Next, ConfirmTopup, StartSale
<1>2. WalletInv'
    BY <1>1, WalletStep DEF DeskIInv
<1>3. running[t] = None
    BY <1>1 DEF DeskIInv, RunningOK
<1>4. UNCHANGED <<sale, running, uiVars>>
    BY <1>3 DEF Arrive, SaleFollows
<1>5. DeskTypes' /\ SalesOK' /\ DialogOK'
    BY <1>4, UntouchedStep
<1>6. SalesAreDebited'
    BY <1>1, <1>4 DEF DeskIInv, SalesAreDebited
<1>7. \A u \in Txns : u # t => txn'[u] = txn[u]
    BY DEF Arrive, ConfirmTopup, StartSale, DeskIInv, WalletInv, Protocol, TypeOK
<1>8. RunningOK'
    BY <1>3, <1>4, <1>7 DEF DeskIInv, RunningOK
<1> QED
    BY <1>1, <1>2, <1>5, <1>6, <1>8 DEF DeskIInv

\* A step within a transaction, or its failure: nobody else's changes, and a row is
\* appended only by its own commit.
LEMMA WorkStep ==
    ASSUME WalletInv, NEW t \in Txns, Proceed(t) \/ Raise(t) \/ Crash(t)
    PROVE  /\ \A u \in Txns : u # t => txn'[u] = txn[u]
           /\ txn'[t] # NoWork => /\ txn'[t].type = txn[t].type
                                  /\ txn'[t].reseller = txn[t].reseller
                                  /\ txn'[t].amount = txn[t].amount
           /\ \/ ledger' = ledger
              \/ /\ txn[t].reseller \in Resellers /\ NewRow(t) \in Rows
                 /\ ledger' = [ledger EXCEPT ![txn[t].reseller] = Append(@, NewRow(t))]
<1>1. TypeOK /\ txn[t] # NoWork
    BY DEF WalletInv, Protocol, Proceed, Lock, ReadBalance, Refuse, Duplicate, InsertRow,
           Commit, Raise, Crash, NoWork
<1>2. txn[t] \in [pc : {"begun", "locked", "read", "inserted"},
                  type : {"topup", "debit"}, reseller : Resellers,
                  amount : Nat \ {0}, ref : References, balance : Int]
    BY <1>1, Busy
<1>3. txn \in [Txns -> {NoWork} \cup
                    [pc : {"begun", "locked", "read", "inserted"},
                     type : {"topup", "debit"}, reseller : Resellers,
                     amount : Nat \ {0}, ref : References, balance : Int]]
    BY <1>1 DEF TypeOK
<1>4. CASE Lock(t) \/ InsertRow(t) \/ ReadBalance(t)
    <2>1. ledger' = ledger
        BY <1>4 DEF Lock, InsertRow, ReadBalance
    <2>2. \A u \in Txns : u # t => txn'[u] = txn[u]
        BY <1>3, <1>4 DEF Lock, InsertRow, ReadBalance
    <2>3. CASE Lock(t) \/ InsertRow(t)
        <3>1. PICK pc : txn' = [txn EXCEPT ![t].pc = pc]
            BY <2>3 DEF Lock, InsertRow
        <3> QED
            BY <1>2, <1>3, <2>1, <2>2, <3>1
    <2>4. CASE ReadBalance(t)
        <3>1. PICK b : txn' = [txn EXCEPT ![t] = [@ EXCEPT !.pc = "read", !.balance = b]]
            BY <2>4 DEF ReadBalance
        <3> QED
            BY <1>2, <1>3, <2>1, <2>2, <3>1
    <2> QED
        BY <1>4, <2>3, <2>4
<1>5. CASE Refuse(t) \/ Duplicate(t) \/ Raise(t) \/ Crash(t)
    BY <1>3, <1>5 DEF Refuse, Duplicate, Raise, Crash, End
<1>6. CASE Commit(t)
    <2>1. NewRow(t) \in Rows
        BY <1>2 DEF NewRow, Rows, Apply
    <2> QED
        BY <1>2, <1>3, <1>6, <2>1 DEF Commit, End
<1> QED
    BY <1>4, <1>5, <1>6 DEF Proceed

\* A transaction goes on, and the sale it works on with it: it is made if and only
\* if the debit is.
LEMMA FollowStep ==
    ASSUME DeskIInv, NEW t \in Txns, Advance(t) \/ Fail(t)
    PROVE  [Next]_walletVars /\ DeskIInv'
<1>1. Next
    BY DEF Advance, Fail, Next
<1>2. WalletInv /\ WalletInv' /\ SalesAreDebited /\ RunningOK /\ Me \in Resellers
    BY <1>1, WalletStep, DeskConstants DEF DeskIInv
<1>3. /\ \A u \in Txns : u # t => txn'[u] = txn[u]
      /\ txn'[t] # NoWork => /\ txn'[t].type = txn[t].type
                             /\ txn'[t].reseller = txn[t].reseller
                             /\ txn'[t].amount = txn[t].amount
      /\ \/ ledger' = ledger
         \/ /\ txn[t].reseller \in Resellers /\ NewRow(t) \in Rows
            /\ ledger' = [ledger EXCEPT ![txn[t].reseller] = Append(@, NewRow(t))]
    BY <1>2, WorkStep DEF Advance, Fail
<1>4. running \in [Txns -> Sales \cup {None}] /\ None \notin Sales
    BY DeskConstants DEF DeskIInv, DeskTypes
<1>5. ledger \in [Resellers -> Seq(Rows)]
    BY <1>2 DEF WalletInv, Protocol, TypeOK
<1>6. \A k \in Prices : DebitsIn(ledger[Me], k) \subseteq DebitsIn(ledger'[Me], k)
    <2>1. CASE ledger'[Me] = ledger[Me]
        BY <2>1
    <2>2. CASE ledger'[Me] = Append(ledger[Me], NewRow(t)) /\ NewRow(t) \in Rows
        <3>1. ledger[Me] \in Seq(Rows) /\ Len(ledger[Me]) \in Nat
            BY <1>2, <1>5, LenProperties
        <3>2. /\ Len(ledger'[Me]) = Len(ledger[Me]) + 1
              /\ \A j \in 1 .. Len(ledger[Me]) : ledger'[Me][j] = ledger[Me][j]
            BY <2>2, <3>1, AppendProperties
        <3> QED
            BY <3>1, <3>2 DEF DebitsIn
    <2> QED
        BY <1>2, <1>3, <1>5, <2>1, <2>2
<1>7. CASE running[t] # None /\ txn'[t] = NoWork
    <2> DEFINE i == running[t]
    <2>1. /\ i \in Sales /\ sale[i].st = "running" /\ txn[t] # NoWork
          /\ txn[t].type = "debit" /\ txn[t].reseller = Me /\ txn[t].amount = sale[i].price
          /\ \A u \in Txns : running[u] = i => u = t
        BY <1>2, <1>4, <1>7 DEF RunningOK
    <2>2. PICK s \in {"sold", "refused"} :
                /\ sale' = [sale EXCEPT ![i].st = s]
                /\ ledger' = ledger => s = "refused"
        BY <1>7 DEF Advance, Fail, SaleFollows, Outcome
    <2>3. running' = [running EXCEPT ![t] = None] /\ UNCHANGED uiVars
        BY <1>7 DEF Advance, Fail, SaleFollows
    <2> HIDE DEF i
    <2>4. /\ running' \in [Txns -> Sales \cup {None}]
          /\ running'[t] = None /\ \A u \in Txns : u # t => running'[u] = running[u]
        BY <1>4, <2>3
    <2>5. /\ DeskTypes' /\ SalesOK' /\ DialogOK'
          /\ sale'[i].st = s /\ sale'[i].price = sale[i].price
          /\ \A j \in Sales : j # i => sale'[j] = sale[j]
        BY <2>1, <2>2, <2>3, <2>4, StatusStep
    <2>6. SalesAreDebited'
        <3>1. CASE ledger' = ledger
            BY <1>2, <1>6, <2>2, <2>5, <3>1, DebitedFrame
        <3>2. CASE ledger' # ledger
            <4>1. ledger'[Me] = Append(ledger[Me], NewRow(t)) /\ NewRow(t) \in Rows
                BY <1>2, <1>3, <1>5, <2>1, <3>2
            <4>2. NewRow(t).type = "debit" /\ NewRow(t).amount = sale[i].price
                BY <2>1 DEF NewRow
            <4>3. sale[i].price \in Prices
                BY <2>1 DEF DeskIInv, SalesOK
            <4> QED
                BY <1>2, <2>1, <2>5, <4>1, <4>2, <4>3, DebitedSale
        <3> QED
            BY <3>1, <3>2
    <2>7. RunningOK'
        <3> SUFFICES ASSUME NEW u \in Txns, running'[u] # None
                     PROVE  /\ sale'[running'[u]].st = "running"
                            /\ txn'[u] # NoWork
                            /\ txn'[u].type = "debit" /\ txn'[u].reseller = Me
                            /\ txn'[u].amount = sale'[running'[u]].price
                            /\ \A v \in Txns : running'[v] = running'[u] => v = u
            BY DEF RunningOK
        <3>1. /\ u # t /\ running'[u] = running[u] /\ running[u] \in Sales /\ running[u] # i
              /\ txn'[u] = txn[u] /\ sale'[running[u]] = sale[running[u]]
            BY <1>3, <1>4, <2>1, <2>4, <2>5
        <3> QED
            BY <1>2, <2>4, <3>1 DEF RunningOK
    <2> QED
        BY <1>1, <1>2, <2>5, <2>6, <2>7 DEF DeskIInv
<1>8. CASE ~(running[t] # None /\ txn'[t] = NoWork)
    <2>1. UNCHANGED <<sale, running, uiVars>>
        BY <1>8 DEF Advance, Fail, SaleFollows
    <2>2. DeskTypes' /\ SalesOK' /\ DialogOK'
        BY <2>1, UntouchedStep
    <2>3. SalesAreDebited'
        BY <1>2, <1>6, <2>1, DebitedFrame
    <2>4. RunningOK'
        BY <1>2, <1>3, <1>8, <2>1 DEF RunningOK
    <2> QED
        BY <1>1, <1>2, <2>2, <2>3, <2>4 DEF DeskIInv
<1> QED
    BY <1>7, <1>8

-----------------------------------------------------------------------------
\* Before anything is sold.
LEMMA DeskStart == DeskInit => DeskIInv
<1> SUFFICES ASSUME DeskInit PROVE DeskIInv
    OBVIOUS
<1>1. WalletInv
    BY WalletStart DEF DeskInit
<1>2. NoSale \in SaleRows /\ NoSale.st = "none"
    BY DeskConstants DEF NoSale, SaleRows
<1>3. Closed \in Dialogs /\ Closed.step = "closed"
    BY DEF Closed, Dialogs
<1>4. NoAdding \in [for : Newcomers \cup {None}, opened : 0 .. MaxOpens]
    BY DeskConstants DEF NoAdding
<1>5. DeskTypes
    BY <1>2, <1>3, <1>4, DeskConstants DEF DeskInit, DeskTypes, People
<1>6. SalesOK /\ RunningOK
    BY <1>2 DEF DeskInit, SalesOK, RunningOK
<1>7. DialogOK
    BY <1>2, <1>3 DEF DeskInit, DialogOK, PendingOK, HeardOK, ErrorsOK, CodeOK
<1>8. SalesAreDebited
    <2> SUFFICES ASSUME NEW k \in Prices
                 PROVE  Cardinality(SoldIn(sale, k)) <= Cardinality(DebitsIn(ledger[Me], k))
        BY DEF SalesAreDebited, SoldIn, DebitsIn
    <2>1. SoldIn(sale, k) = {}
        BY <1>2 DEF DeskInit, SoldIn
    <2>2. ledger[Me] \in Seq(Rows)
        BY <1>1, DeskConstants DEF WalletInv, Protocol, TypeOK
    <2>3. Cardinality(SoldIn(sale, k)) = 0 /\ Cardinality(DebitsIn(ledger[Me], k)) \in Nat
        BY <2>1, <2>2, FiniteSales, FS_EmptySet
    <2> QED
        BY <2>3
<1> QED
    BY <1>1, <1>5, <1>6, <1>7, <1>8 DEF DeskIInv

\* Every handler of the pages and every step of the server keeps DeskIInv and is a
\* step of the wallet or leaves it alone.
LEMMA DeskStep == DeskIInv /\ [DeskNext]_vars => DeskIInv' /\ [Next]_walletVars
<1> SUFFICES ASSUME DeskIInv, [DeskNext]_vars PROVE DeskIInv' /\ [Next]_walletVars
    OBVIOUS
<1>1. CASE UNCHANGED vars
    <2>1. UNCHANGED <<sale, running, uiVars>> /\ UNCHANGED walletVars
        BY <1>1 DEF vars, deskVars
    <2>2. DeskTypes' /\ SalesOK' /\ DialogOK'
        BY <2>1, UntouchedStep
    <2>3. WalletInv' /\ RunningOK' /\ SalesAreDebited'
        BY <2>1, SalesFrame
    <2> QED
        BY <2>1, <2>2, <2>3 DEF DeskIInv
<1>2. ASSUME NEW t \in Txns,
             Arrive(t) \/ Advance(t) \/ Fail(t) \/ \E i \in Sales : BeginSale(t, i)
      PROVE  DeskIInv' /\ [Next]_walletVars
    BY <1>2, ArriveStep, FollowStep, BeginSaleStep
<1>3. CASE \/ \E p \in {"wallet", "customers"} : ChangePage(p)
           \/ GenerateVoucherButton
           \/ \E c \in People : HandleSellPlan(c)
    <2>1. UNCHANGED walletVars
        BY <1>3 DEF ChangePage, GenerateVoucherButton, HandleSellPlan, OpenDialog
    <2> QED
        BY <1>3, <2>1, OpenStep
<1>4. CASE \/ CloseDialog \/ HandleOpenForm \/ ToggleQuickAdd \/ HandleNextStep \/ BackToCustomer
           \/ \E c \in People : SelectCustomer(c)
           \/ \E k \in Prices : SelectPackage(k)
    <2>1. UNCHANGED walletVars
        BY <1>4 DEF CloseDialog, HandleOpenForm, ToggleQuickAdd, HandleNextStep, BackToCustomer,
                    SelectCustomer, SelectPackage, Show
    <2> QED
        BY <1>4, <2>1, ChooseStep
<1>5. CASE \/ \E c \in Newcomers : HandleQuickAdd(c) \/ OnSubmit(c)
           \/ CustomerCreated \/ QuickAdded \/ RegisterFails
    <2>1. UNCHANGED walletVars
        BY <1>5 DEF HandleQuickAdd, OnSubmit, Register, CustomerCreated, QuickAdded, Registered,
                    RegisterFails
    <2> QED
        BY <1>5, <2>1, RegisterStep
<1>6. ASSUME NEW i \in Sales, HandleConfirmGenerate(i) \/ RejectSale(i)
      PROVE  DeskIInv' /\ [Next]_walletVars
    <2>1. UNCHANGED walletVars
        BY <1>6 DEF HandleConfirmGenerate, RejectSale
    <2> QED
        BY <1>6, <2>1, ConfirmStep, RejectStep
<1>7. CASE SaleAnswered \/ SaleFails
    <2>1. UNCHANGED walletVars
        BY <1>7 DEF SaleAnswered, SaleFails
    <2> QED
        BY <1>7, <2>1, HearStep
<1> QED
    BY <1>1, <1>2, <1>3, <1>4, <1>5, <1>6, <1>7 DEF DeskNext

\* The inductive invariant of the desk holds throughout.
THEOREM DeskInvariant == DeskSpec => []DeskIInv
<1>1. DeskIInv /\ [DeskNext]_vars => DeskIInv'
    BY DeskStep
<1> QED
    BY <1>1, DeskStart, PTL DEF DeskSpec

\* The composition is a behaviour of Wallet: the reseller's pages drive debit_wallet
\* only as any other device does, and every theorem about the wallet holds here.
THEOREM DeskUsesWallet == DeskSpec => Spec
<1>1. DeskInit => Init
    BY DEF DeskInit
<1>2. DeskIInv /\ [DeskNext]_vars => [Next]_walletVars
    BY DeskStep
<1> QED
    BY <1>1, <1>2, DeskInvariant, PTL DEF DeskSpec, Spec

\* However many devices sell from one wallet, and whatever of a request of
\* generate_reseller_voucher fails or comes late, every voucher sold at this desk has
\* a debit of its price of its own.
THEOREM SalesArePaidFor == DeskSpec => []DeskInv
<1>1. DeskIInv => DeskInv
    BY DEF DeskIInv, DeskInv, DeskTypeOK, DeskTypes, WalletInv, Protocol
<1> QED
    BY <1>1, DeskInvariant, PTL

\* Whatever answer the GenerateVoucherDialog gets, and whenever, the code it shows is
\* of a sale to the customer selected, unless the answer is of another opening.
THEOREM CodesGoToTheirCustomer == DeskSpec => []CodeIsOfItsCustomer
<1>1. DeskIInv => CodeIsOfItsCustomer
    BY DEF DeskIInv, DialogOK, CodeOK, CodeIsOfItsCustomer
<1> QED
    BY <1>1, DeskInvariant, PTL

\* handleConfirmGenerate sells a second voucher in one opening only when the answer
\* of the first was lost.
THEOREM SecondSalesFollowErrors == DeskSpec => []SecondSaleOnlyAfterError
<1>1. DeskIInv => SecondSaleOnlyAfterError
    BY DEF DeskIInv, DialogOK, ErrorsOK, SecondSaleOnlyAfterError
<1> QED
    BY <1>1, DeskInvariant, PTL

=============================================================================
