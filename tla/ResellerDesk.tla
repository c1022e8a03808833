---------------------------- MODULE ResellerDesk ----------------------------
(***************************************************************************)
(* A reseller at work, composed with Wallet: the customers page and the    *)
(* wallet page, each with its own GenerateVoucherDialog that picks or      *)
(* registers a customer, picks a package and sells a voucher out of the    *)
(* wallet.  The sale is a transaction of Wallet.  The handlers of the      *)
(* dialog await their answers and write into the dialog whatever it shows  *)
(* by then.                                                                *)
(*                                                                         *)
(* One reseller, Me, has the desk; other devices of the same reseller and  *)
(* other resellers sell through Wallet's own StartSale.  A sale is numbered*)
(* when it is confirmed and stands for its voucher too.                    *)
(***************************************************************************)
EXTENDS Wallet

CONSTANTS
    Me,         \* the reseller of this browser
    Customers,  \* the reseller's customers ...
    Newcomers,  \* ... and those registered from the dialog
    None,       \* no customer, no price, no sale
    MaxSales,   \* bound: sales confirmed in one behaviour
    MaxOpens    \* bound: openings of the dialog in one behaviour

People == Customers \cup Newcomers
Sales == 1 .. MaxSales

ASSUME DeskConstants ==
    /\ Me \in Resellers /\ MaxSales \in Nat /\ MaxOpens \in Nat
    /\ None \notin People \cup Prices \cup Sales

VARIABLES
    sale,       \* the sales and what has become of them
    running,    \* the sale each transaction of Wallet works on
    page,       \* "wallet" or "customers"
    known,      \* registered customers
    dlg,        \* the dialog on the screen
    pending,    \* the sale whose answer the page waits for
    adding,     \* the registration it waits for
    opens       \* openings of the voucher dialog so far

uiVars == <<page, known, dlg, pending, adding, opens>>
deskVars == <<sale, running, uiVars>>
vars == <<walletVars, deskVars>>

-----------------------------------------------------------------------------
\* opened: in which opening of the dialog the sale was confirmed; heard: what the
\* dialog was told of it.
NoSale == [st |-> "none", for |-> None, price |-> None, opened |-> 0, heard |-> "nothing"]
SaleRows == [st : {"none", "asked", "running", "sold", "refused"}, for : People \cup {None},
             price : Prices \cup {None}, opened : 0 .. MaxOpens,
             heard : {"nothing", "code", "error"}]

\* The steps 1, 2 and 3 of the voucher dialog, the quick-add form of step 1, and
\* "form", the Add Customer dialog of the customers page.  crossed: an answer asked
\* for in an earlier opening, or an earlier step, has come.
Closed == [step |-> "closed", for |-> None, price |-> None, voucher |-> None,
           crossed |-> FALSE]
Dialogs == [step : {"closed", "customer", "quick", "package", "code", "form"},
            for : People \cup {None}, price : Prices \cup {None},
            voucher : Sales \cup {None}, crossed : BOOLEAN]

\* opened is 0 for the Add Customer dialog.
NoAdding == [for |-> None, opened |-> 0]

DeskTypeOK ==
    /\ TypeOK
    /\ sale \in [Sales -> SaleRows] /\ running \in [Txns -> Sales \cup {None}]
    /\ page \in {"wallet", "customers"} /\ known \subseteq People
    /\ dlg \in Dialogs /\ pending \in Sales \cup {None}
    /\ adding \in [for : Newcomers \cup {None}, opened : 0 .. MaxOpens]
    /\ opens \in 0 .. MaxOpens

DeskInit ==
    /\ Init
    /\ sale = [i \in Sales |-> NoSale] /\ running = [t \in Txns |-> None]
    /\ page = "customers" /\ known = Customers
    /\ dlg = Closed /\ pending = None /\ adding = NoAdding /\ opens = 0

-----------------------------------------------------------------------------
(* The pages.                                                              *)

\* The balance on the screen is one the wallet had at some time: it is fetched
\* when a page is mounted, by the refresh button and after a sale of this page.
BalancesShown == {0} \cup {ledger[Me][j].after : j \in 1 .. Len(ledger[Me])}

\* The other page is mounted with a dialog of its own; what this one waits for goes
\* on unheard, a registration too.
ChangePage(p) ==
    /\ page # p
    /\ page' = p /\ dlg' = Closed /\ pending' = None /\ adding' = NoAdding
    /\ \E late \in SUBSET ({adding.for} \ {None}) : known' = known \cup late
    /\ UNCHANGED <<walletVars, sale, running, opens>>

\* A handler that only changes what the dialog shows.
Show(d) == dlg' = d /\ UNCHANGED <<walletVars, sale, running, page, known, pending, adding, opens>>

\* Mutant of Opening: only the customer is set anew.
OpeningKept(c) == [dlg EXCEPT !.step = IF dlg.voucher = None THEN "customer" ELSE "code",
                              !.for = c]

\* The effect that runs when the dialog opens sets everything anew.
Opening(c) == [Closed EXCEPT !.step = "customer", !.for = c]

OpenDialog(c) ==
    /\ dlg.step = "closed" /\ opens < MaxOpens
    /\ opens' = opens + 1
    /\ dlg' = Opening(c)
    /\ UNCHANGED <<walletVars, sale, running, page, known, pending, adding>>

\* "Sell Plan" of a row of the customers page.
HandleSellPlan(c) == page = "customers" /\ c \in known /\ OpenDialog(c)

\* "Generate Voucher" of the wallet page.
GenerateVoucherButton == page = "wallet" /\ OpenDialog(None)

CloseDialog == dlg.step # "closed" /\ Show([dlg EXCEPT !.step = "closed"])

-----------------------------------------------------------------------------
(* Registering a customer, from the customers page or from the dialog      *)
(* (bound: one registration of the page is pending at a time).             *)

HandleOpenForm ==
    page = "customers" /\ dlg.step = "closed" /\ Show([Closed EXCEPT !.step = "form"])

\* The two forms; their buttons are disabled while a registration is pending.
AddCustomerForm == dlg.step = "form" /\ adding = NoAdding
QuickAddForm == dlg.step = "quick" /\ adding = NoAdding

Register(c, opened) ==
    /\ c \in Newcomers \ known
    /\ adding' = [for |-> c, opened |-> opened]
    /\ UNCHANGED <<walletVars, sale, running, page, known, dlg, pending, opens>>

OnSubmit(c) == AddCustomerForm /\ Register(c, 0)
HandleQuickAdd(c) == QuickAddForm /\ Register(c, opens)

\* The customer is registered.
Registered(d) ==
    /\ adding' = NoAdding /\ known' = known \cup {adding.for} /\ dlg' = d
    /\ UNCHANGED <<walletVars, sale, running, page, pending, opens>>

\* The Add Customer dialog that is open by now is closed.
CustomerCreated ==
    /\ adding # NoAdding /\ adding.opened = 0
    /\ Registered(IF dlg.step = "form" THEN Closed ELSE dlg)

\* The new customer becomes the selected one, whatever the dialog shows by now.
QuickAdded ==
    /\ adding # NoAdding /\ adding.opened # 0
    /\ Registered([dlg EXCEPT !.for = adding.for,
                              !.step = IF @ = "quick" THEN "customer" ELSE @,
                              !.crossed = @ \/ adding.opened # opens
                                            \/ dlg.step \in {"package", "code"}])

\* Refused, or the answer is lost and the customer may have been registered.
RegisterFails ==
    /\ adding # NoAdding
    /\ adding' = NoAdding /\ known' \in {known, known \cup {adding.for}}
    /\ UNCHANGED <<walletVars, sale, running, page, dlg, pending, opens>>

-----------------------------------------------------------------------------
(* The dialog: the customer.                                               *)

CustomerStep == dlg.step = "customer"

SelectCustomer(c) ==
    /\ CustomerStep /\ c \in known /\ c # dlg.for
    /\ Show([dlg EXCEPT !.for = c])

ToggleQuickAdd ==
    \/ CustomerStep /\ Show([dlg EXCEPT !.step = "quick"])
    \/ dlg.step = "quick" /\ Show([dlg EXCEPT !.step = "customer"])

HandleNextStep == CustomerStep /\ dlg.for # None /\ Show([dlg EXCEPT !.step = "package"])

-----------------------------------------------------------------------------
(* The dialog: the package and the sale.                                   *)

PackageStep == dlg.step = "package"

SelectPackage(k) == PackageStep /\ dlg.price # k /\ Show([dlg EXCEPT !.price = k])

BackToCustomer == PackageStep /\ pending = None /\ Show([dlg EXCEPT !.step = "customer"])

\* isAffordable goes by the balance on the screen; the server decides.
IsAffordable == \E seen \in BalancesShown : seen >= dlg.price

\* Mutant of ConfirmReady: the button is not disabled while the sale is pending.
ConfirmReadyAlways == PackageStep /\ dlg.price # None /\ IsAffordable

ConfirmReady == PackageStep /\ dlg.price # None /\ IsAffordable /\ pending = None

HandleConfirmGenerate(i) ==
    /\ ConfirmReady
    /\ sale[i] = NoSale /\ \A j \in 1 .. (i - 1) : sale[j] # NoSale
    /\ sale' = [sale EXCEPT ![i] = [NoSale EXCEPT !.st = "asked", !.for = dlg.for,
                                                  !.price = dlg.price, !.opened = opens]]
    /\ pending' = i
    /\ UNCHANGED <<walletVars, running, page, known, dlg, adding, opens>>

\* The code is shown, whatever the dialog was doing by now.
SaleAnswered ==
    /\ pending # None /\ sale[pending].st = "sold"
    /\ sale' = [sale EXCEPT ![pending].heard = "code"]
    /\ dlg' = [dlg EXCEPT !.voucher = pending, !.step = IF @ \in {"closed", "form"} THEN @ ELSE "code",
                          !.crossed = @ \/ sale[pending].opened # opens]
    /\ pending' = None
    /\ UNCHANGED <<walletVars, running, page, known, adding, opens>>

\* Refused, rolled back, or the answer is lost: "Failed to debit wallet and
\* generate voucher", and the button again.
SaleFails ==
    /\ pending # None
    /\ sale' = [sale EXCEPT ![pending].heard = "error"]
    /\ pending' = None
    /\ UNCHANGED <<walletVars, running, page, known, dlg, adding, opens>>

-----------------------------------------------------------------------------
(* The server: the sale in Wallet's transaction.                           *)

BeginSale(t, i) ==
    /\ sale[i].st = "asked"
    /\ StartSale(t, Me, sale[i].price)
    /\ sale' = [sale EXCEPT ![i].st = "running"] /\ running' = [running EXCEPT ![t] = i]
    /\ UNCHANGED uiVars

\* The package has been retired, the customer is not of this tenant, or the request
\* fails before its transaction.
RejectSale(i) ==
    /\ sale[i].st = "asked"
    /\ sale' = [sale EXCEPT ![i].st = "refused"]
    /\ UNCHANGED <<walletVars, running, uiVars>>

\* Mutant of Outcome: a sale that was refused counts as made.
OutcomeAlways(t) == "sold"

\* What the end of transaction t means for its sale.
Outcome(t) == IF ledger' # ledger THEN "sold" ELSE "refused"

\* The sale of a transaction that ends, ends with it.
SaleFollows(t) ==
    /\ IF running[t] # None /\ txn'[t] = NoWork
       THEN /\ sale' = [sale EXCEPT ![running[t]].st = Outcome(t)]
            /\ running' = [running EXCEPT ![t] = None]
       ELSE UNCHANGED <<sale, running>>
    /\ UNCHANGED uiVars

Advance(t) == Proceed(t) /\ SaleFollows(t)
Fail(t) == (Raise(t) \/ Crash(t)) /\ SaleFollows(t)

\* A top-up, or a sale of another device or another reseller.
Arrive(t) ==
    /\ \/ \E id \in TransIds : ConfirmTopup(t, id)
       \/ \E r \in Resellers, price \in Prices : StartSale(t, r, price)
    /\ SaleFollows(t)

-----------------------------------------------------------------------------
DeskNext ==
    \/ \E t \in Txns :
        Arrive(t) \/ Advance(t) \/ Fail(t) \/ \E i \in Sales : BeginSale(t, i)
    \/ \E p \in {"wallet", "customers"} : ChangePage(p)
    \/ GenerateVoucherButton \/ CloseDialog \/ HandleOpenForm \/ ToggleQuickAdd
    \/ \E c \in People : HandleSellPlan(c) \/ SelectCustomer(c)
    \/ \E c \in Newcomers : HandleQuickAdd(c) \/ OnSubmit(c)
    \/ CustomerCreated \/ QuickAdded \/ RegisterFails \/ HandleNextStep \/ BackToCustomer
    \/ \E k \in Prices : SelectPackage(k)
    \/ \E i \in Sales : HandleConfirmGenerate(i) \/ RejectSale(i)
    \/ SaleAnswered \/ SaleFails

DeskSpec == DeskInit /\ [][DeskNext]_vars

-----------------------------------------------------------------------------
\* Every voucher this desk has sold is covered by a debit of its price of its own,
\* however many devices of the reseller sell at the same time.
SalesAreDebited ==
    \A k \in Prices :
        Cardinality({i \in Sales : sale[i].st = "sold" /\ sale[i].price = k})
            <= Cardinality({j \in 1 .. Len(ledger[Me]) :
                              ledger[Me][j].type = "debit" /\ ledger[Me][j].amount = k})

\* The types, and SalesAreDebited: no dialog shows a code nobody was charged for,
\* whatever of its request failed or came late.
DeskInv == DeskTypeOK /\ SalesAreDebited

\* The code on the screen is of a sale to the customer the reseller has selected,
\* unless the answer belongs to an earlier opening of the dialog.
CodeIsOfItsCustomer ==
    dlg.step = "code" => dlg.crossed \/ sale[dlg.voucher].for = dlg.for

\* One opening of the dialog sells twice only if the first sale was reported as
\* failed: its answer was lost.
SecondSaleOnlyAfterError ==
    \A i, j \in Sales :
        /\ i < j /\ sale[i].opened = sale[j].opened
        /\ sale[i].st = "sold" /\ sale[j].st # "none"
        => sale[i].heard = "error"

=============================================================================
