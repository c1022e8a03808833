---------------------------- MODULE HotspotPortal ----------------------------
(***************************************************************************)
(* The screens that sell internet access to one customer.  A guest's phone *)
(* shows the captive portal: the packages, a checkout, a free trial, the   *)
(* wait for the payment and the ticket that logs the phone in at the       *)
(* router (CaptivePortalPage, BuyPackageFlow, PaymentPolling,              *)
(* HotspotLoginRedirect).  A customer who has signed in has a page with    *)
(* the packages and a page that waits (BuyPackagePage, PaymentStatusPage). *)
(* The backend serves /hotspot and /payments; how a payment is settled and *)
(* its voucher made is the subject of Settlement and Provisioning and is   *)
(* one step each here.                                                     *)
(*                                                                         *)
(* All tabs are of one phone number, and a behaviour lasts less than the   *)
(* 24 hours of the trial's limit.  A payment stands for its voucher's code *)
(* too.  The request that creates a payment is given the payment's number  *)
(* when it is sent.  A signed-in customer never sees the free trial.       *)
(***************************************************************************)
EXTENDS Integers, FiniteSets

CONSTANTS
    Guests,      \* tabs that show the captive portal
    Customers,   \* tabs of the customer's own pages
    Packages,
    Typed,       \* a code typed in by hand
    None,        \* no payment, no package, no code
    MaxPayments, \* bound: pushes and trials asked for in one behaviour
    MaxReloads,  \* bound: documents loaded again in one behaviour
    MaxTabs      \* bound: tabs used in one behaviour

Payments == 1 .. MaxPayments
Tabs == Guests \cup Customers
Codes == Payments \cup {Typed}

ASSUME PortalConstants ==
    /\ MaxPayments \in Nat /\ MaxReloads \in Nat /\ MaxTabs \in Nat
    /\ Guests \cap Customers = {}
    /\ None \notin Packages \cup Codes /\ \A K \in SUBSET Packages : K # None
    /\ Typed \notin Payments

VARIABLES
    pay,       \* the payments, and the requests that create them
    active,    \* packages with is_active
    asked,     \* payments numbered so far
    reloads,
    screen,    \* the page of a tab
    list,      \* the packages it shows, None while they are loading
    dialog,    \* the dialog that is open
    chosen,    \* selectedPackageId
    push,      \* the STK push whose answer the page waits for
    stray,     \* pushes of a customer's page that has been left: they still navigate
    polled,    \* the payment whose status the tab asks for
    shown,     \* the status it shows
    fetch,     \* the status request in the air
    late,      \* the 90 seconds are over
    trial,     \* the trial whose answer the tab waits for
    timers,    \* codes whose setTimeout has not fired
    saved,     \* localStorage.active_wifi_voucher
    offered,   \* the saved code the portal offers to reconnect with
    code,      \* the code on the ticket
    auto,      \* the code the ticket's login timer has captured
    login,     \* what the ticket says of the login, "absent" in a tab that has no link-login
    dropped    \* payments that left the screen before they were settled

backVars == <<pay, active, asked>>
shopVars == <<list, dialog, chosen, push, stray>>
pollVars == <<polled, shown, fetch, late>>
ticketVars == <<code, auto, login>>
guestVars == <<trial, timers, saved, offered, ticketVars>>
portalVars == <<backVars, reloads, screen, shopVars, pollVars, guestVars, dropped>>

-----------------------------------------------------------------------------
NoPay == [st |-> "absent", trial |-> FALSE, pkg |-> None, coded |-> FALSE, reply |-> "none",
          beside |-> {}]

\* beside: the trials under way when this one counted those of the day.
PayRows == [st : {"absent", "asked", "refused", "counted", "pending", "confirmed", "failed"},
            trial : BOOLEAN, pkg : Packages \cup {None}, coded : BOOLEAN,
            reply : {"none", "ok", "error"}, beside : SUBSET Payments]

Status == [st : {"pending", "confirmed", "failed"}, coded : BOOLEAN]
NoStatus == [st |-> "none", coded |-> FALSE]
Fetches == {"none", "sent"} \X {NoStatus} \cup {"read"} \X Status

NoFetch == <<"none", NoStatus>>
NewFetch == <<"sent", NoStatus>>

TypeOK ==
    /\ pay \in [Payments -> PayRows] /\ active \subseteq Packages
    /\ asked \in 0 .. MaxPayments /\ reloads \in 0 .. MaxReloads
    /\ screen \in [Tabs -> {"closed", "shop", "ticket", "status", "dashboard"}]
    /\ list \in [Tabs -> (SUBSET Packages) \cup {None}]
    /\ dialog \in [Tabs -> {"none", "checkout", "trial"}]
    /\ chosen \in [Tabs -> Packages \cup {None}]
    /\ push \in [Tabs -> Payments \cup {None}] /\ polled \in [Tabs -> Payments \cup {None}]
    /\ stray \in [Customers -> SUBSET Payments]
    /\ shown \in [Tabs -> Status \cup {NoStatus}] /\ fetch \in [Tabs -> Fetches]
    /\ late \in [Tabs -> BOOLEAN]
    /\ trial \in [Guests -> Payments \cup {None}] /\ timers \in [Guests -> SUBSET Payments]
    /\ saved \in [Guests -> Codes \cup {None}] /\ offered \in [Guests -> Codes \cup {None}]
    /\ code \in [Guests -> Codes \cup {None}] /\ auto \in [Guests -> Codes \cup {None}]
    /\ login \in [Guests -> {"absent", "idle", "sending", "online"}]
    /\ dropped \subseteq Payments

\* A portal was opened by the router, with link-login, or by the guest.
Init ==
    /\ pay = [p \in Payments |-> NoPay] /\ active = Packages
    /\ asked = 0 /\ reloads = 0
    /\ \E used \in SUBSET Tabs, direct \in SUBSET Guests :
          /\ Cardinality(used) = MaxTabs /\ direct \subseteq used
          /\ screen = [t \in Tabs |-> IF t \in used THEN "shop" ELSE "closed"]
          /\ login = [t \in Guests |-> IF t \in direct THEN "absent" ELSE "idle"]
    /\ list = [t \in Tabs |-> None]
    /\ dialog = [t \in Tabs |-> "none"] /\ chosen = [t \in Tabs |-> None]
    /\ push = [t \in Tabs |-> None] /\ polled = [t \in Tabs |-> None]
    /\ stray = [t \in Customers |-> {}]
    /\ shown = [t \in Tabs |-> NoStatus] /\ fetch = [t \in Tabs |-> NoFetch]
    /\ late = [t \in Tabs |-> FALSE]
    /\ trial = [t \in Guests |-> None] /\ timers = [t \in Guests |-> {}]
    /\ saved = [t \in Guests |-> None] /\ offered = [t \in Guests |-> None]
    /\ code = [t \in Guests |-> None] /\ auto = [t \in Guests |-> None]
    /\ dropped = {}

-----------------------------------------------------------------------------
(* The backend.                                                            *)

Answer(p, st, reply) == pay' = [pay EXCEPT ![p].st = st, ![p].reply = reply]
tabVars == <<reloads, screen, shopVars, pollVars, guestVars, dropped>>

\* The row is inserted and the push has gone out.
InitiatePayment(p) ==
    /\ pay[p].st = "asked" /\ ~pay[p].trial /\ pay[p].pkg \in active
    /\ Answer(p, "pending", "ok")
    /\ UNCHANGED <<active, asked, tabVars>>

\* The package is gone, the rate limiter says no, a second request for a new phone
\* number loses the race for its user row, or Daraja fails; nobody is asked to pay.
RefusePayment(p) ==
    /\ pay[p].st = "asked" /\ ~pay[p].trial
    /\ Answer(p, "refused", "error")
    /\ UNCHANGED <<active, asked, tabVars>>

\* The customer enters the PIN, or does not, and the callback or the polling cron
\* settles the payment.
Settle(p) ==
    /\ pay[p].st = "pending"
    /\ \E st \in {"confirmed", "failed"} : pay' = [pay EXCEPT ![p].st = st]
    /\ UNCHANGED <<active, asked, tabVars>>

\* The worker, first asked by the callback and then by the reconciliation cron.
IssueVoucher(p) ==
    /\ pay[p].st = "confirmed" /\ ~pay[p].coded
    /\ pay[p].trial => pay[p].reply # "none"
    /\ pay' = [pay EXCEPT ![p].coded = TRUE]
    /\ UNCHANGED <<active, asked, tabVars>>

TrialsUnderWay == {p \in Payments : pay[p].trial /\ pay[p].st \in {"counted", "confirmed"} /\ ~pay[p].coded}

\* Mutant of TrialsOfToday: the count takes the trials that still have to be confirmed.
TrialsOfTodayPending == {p \in Payments : pay[p].trial /\ pay[p].st = "counted"}

TrialsOfToday == {p \in Payments : pay[p].trial /\ pay[p].coded}

\* provision_free_trial: the limit is checked ...
CountTrials(p) ==
    /\ pay[p].st = "asked" /\ pay[p].trial
    /\ IF TrialsOfToday # {} THEN Answer(p, "refused", "error")
       ELSE pay' = [pay EXCEPT ![p].st = "counted", ![p].beside = TrialsUnderWay]
    /\ UNCHANGED <<active, asked, tabVars>>

\* ... the limiter, or the INSERT of a user row another request made first, fails ...
RefuseTrial(p) ==
    /\ pay[p].st = "asked" /\ pay[p].trial
    /\ Answer(p, "refused", "error")
    /\ UNCHANGED <<active, asked, tabVars>>

\* ... a confirmed payment is made up ...
GrantTrial(p) ==
    /\ pay[p].st = "counted"
    /\ pay' = [pay EXCEPT ![p].st = "confirmed"]
    /\ UNCHANGED <<active, asked, tabVars>>

\* ... and its voucher generated, or not: the payment stays for the cron to find.
ProvisionTrial(p) ==
    /\ pay[p].st = "confirmed" /\ pay[p].trial /\ pay[p].reply = "none"
    /\ \E ok \in BOOLEAN :
          pay' = [pay EXCEPT ![p].coded = ok, ![p].reply = IF ok THEN "ok" ELSE "error"]
    /\ UNCHANGED <<active, asked, tabVars>>

\* PackagesPage offers to deactivate what is active, and an admin takes the offer.
DeactivateOffered(k) == k \in active
DeactivatePackage(k) == active' = active \ {k}

HandleDeactivate(k) ==
    /\ DeactivateOffered(k)
    /\ DeactivatePackage(k)
    /\ UNCHANGED <<pay, asked, tabVars>>

-----------------------------------------------------------------------------
(* What a tab shows.                                                       *)

Final(s) == s.st \in {"confirmed", "failed"}

\* BuyPackageFlow returns PaymentPolling as long as its list has the chosen package.
PortalWaits(t) ==
    /\ t \in Guests /\ screen[t] = "shop" /\ polled[t] # None
    /\ list[t] # None /\ chosen[t] \in list[t]

\* The page of a payment.
CustomerWaits(t) == t \in Customers /\ screen[t] = "status" /\ polled[t] # None

Waits(t) == PortalWaits(t) \/ CustomerWaits(t)

\* BuyPackageFlow shows its packages: no ticket, no wait.
Shops(t) == screen[t] = "shop" /\ list[t] # None /\ ~Waits(t)

\* Of the states of PaymentPolling and PaymentStatusPage, the spinner.
Waiting(t) == Waits(t) /\ ~Final(shown[t]) /\ ~late[t]

\* Mutant of PollWanted: the interval stops at the first answer, whatever it says.
PollWantedOnce(t) == Waiting(t) /\ fetch[t] = NoFetch /\ shown[t] = NoStatus

\* The query is enabled and its interval runs; the portal's stops with the 90 s.
PollWanted(t) == Waiting(t) /\ fetch[t] = NoFetch

-----------------------------------------------------------------------------
(* Packages and payment.                                                   *)

\* The packages are fetched, at first and when the list is stale.  A portal whose
\* chosen package has gone leaves the wait, and its 90 seconds start again if it
\* comes back to it.
PackagesLoaded(t) ==
    /\ screen[t] = "shop" /\ list[t] # active
    /\ list' = [list EXCEPT ![t] = active]
    /\ late' = [late EXCEPT ![t] = @ /\ chosen[t] \in active]
    /\ UNCHANGED <<backVars, reloads, screen, dialog, chosen, push, stray, polled, shown, fetch, guestVars, dropped>>

Choose(t, k) ==
    /\ Shops(t) /\ dialog[t] = "none" /\ k \in list[t]
    /\ chosen' = [chosen EXCEPT ![t] = k] /\ dialog' = [dialog EXCEPT ![t] = "checkout"]
    /\ UNCHANGED <<backVars, reloads, screen, list, push, stray, pollVars, guestVars, dropped>>

\* A card of the portal; with a payment still polled it goes back to the wait.
PickPackage(t, k) == t \in Guests /\ Choose(t, k)

\* A card of the customer's page.
HandleBuyClick(t, k) == t \in Customers /\ Choose(t, k)

OpenTrial(t) ==
    /\ Shops(t) /\ dialog[t] = "none"
    /\ dialog' = [dialog EXCEPT ![t] = "trial"]
    /\ UNCHANGED <<backVars, reloads, screen, list, chosen, push, stray, pollVars, guestVars, dropped>>

CloseDialog(t) ==
    /\ Shops(t) /\ dialog[t] # "none"
    /\ dialog' = [dialog EXCEPT ![t] = "none"]
    /\ UNCHANGED <<backVars, reloads, screen, list, chosen, push, stray, pollVars, guestVars, dropped>>

Ask(isTrial, k) ==
    /\ asked < MaxPayments
    /\ asked' = asked + 1
    /\ pay' = [pay EXCEPT ![asked + 1] =
                 [NoPay EXCEPT !.st = "asked", !.trial = isTrial, !.pkg = k]]

SendPush(t) ==
    /\ Ask(FALSE, chosen[t])
    /\ push' = [push EXCEPT ![t] = asked + 1]
    /\ UNCHANGED <<active, reloads, screen, list, dialog, chosen, stray, pollVars, guestVars, dropped>>

\* Mutant of CheckoutReady: the button stays enabled while the push is pending.
CheckoutReadyAlways(t) == t \in Guests /\ Shops(t) /\ dialog[t] = "checkout"

\* The portal's checkout dialog: its button is disabled while the push is pending.
CheckoutReady(t) == t \in Guests /\ Shops(t) /\ dialog[t] = "checkout" /\ push[t] = None

HandlePay(t) == CheckoutReady(t) /\ SendPush(t)

\* The dialog of the customer's page; a page that is shown again has no push.
PromptReady(t) == t \in Customers /\ Shops(t) /\ dialog[t] = "checkout" /\ push[t] = None

HandleConfirmPayment(t) == PromptReady(t) /\ SendPush(t)

PollStarts(t, p) ==
    /\ polled' = [polled EXCEPT ![t] = p] /\ shown' = [shown EXCEPT ![t] = NoStatus]
    /\ fetch' = [fetch EXCEPT ![t] = NewFetch] /\ late' = [late EXCEPT ![t] = FALSE]

Awaited(t) == ({push[t]} \ {None}) \cup (IF t \in Customers THEN stray[t] ELSE {})

Settled(t, p) ==
    /\ push' = [push EXCEPT ![t] = IF @ = p THEN None ELSE @]
    /\ stray' = IF t \in Customers THEN [stray EXCEPT ![t] = @ \ {p}] ELSE stray

\* The portal stays; the customer is taken to the page of the payment, from
\* wherever the customer has gone since.
PushAnswered(t, p) ==
    /\ p \in Awaited(t) /\ pay[p].reply = "ok"
    /\ Settled(t, p) /\ dialog' = [dialog EXCEPT ![t] = "none"]
    /\ PollStarts(t, p)
    /\ screen' = [screen EXCEPT ![t] = IF t \in Guests THEN @ ELSE "status"]
    /\ dropped' = dropped \cup ({polled[t]} \ {None})
    /\ UNCHANGED <<backVars, reloads, list, chosen, guestVars>>

PushRefused(t, p) ==
    /\ p \in Awaited(t) /\ pay[p].reply = "error"
    /\ Settled(t, p)
    /\ UNCHANGED <<backVars, reloads, screen, list, dialog, chosen, pollVars, guestVars, dropped>>

\* The request or its answer is lost: "Failed to send prompt", though it may have
\* been sent.
PushLost(t, p) ==
    /\ p \in Awaited(t)
    /\ Settled(t, p) /\ dropped' = dropped \cup {p}
    /\ UNCHANGED <<backVars, reloads, screen, list, dialog, chosen, pollVars, guestVars>>

-----------------------------------------------------------------------------
(* The wait.                                                               *)

\* The three seconds are over, or the customer presses "Verify Status".
Poll(t) ==
    /\ PollWanted(t)
    /\ fetch' = [fetch EXCEPT ![t] = NewFetch]
    /\ UNCHANGED <<backVars, reloads, screen, shopVars, polled, shown, late, guestVars, dropped>>

VerifyStatus(t) ==
    /\ PortalWaits(t) /\ late[t] /\ ~Final(shown[t]) /\ fetch[t] = NoFetch
    /\ fetch' = [fetch EXCEPT ![t] = NewFetch]
    /\ UNCHANGED <<backVars, reloads, screen, shopVars, polled, shown, late, guestVars, dropped>>

ServeStatus(t) ==
    /\ fetch[t] = NewFetch
    /\ fetch' = [fetch EXCEPT ![t] = <<"read", [st |-> pay[polled[t]].st, coded |-> pay[polled[t]].coded]>>]
    /\ UNCHANGED <<backVars, reloads, screen, shopVars, polled, shown, late, guestVars, dropped>>

\* The window regains the focus and the status is stale: the one way a final
\* answer is asked for again.
Refocus(t) ==
    /\ Waits(t) /\ ~late[t] /\ Final(shown[t]) /\ fetch[t] = NoFetch
    /\ fetch' = [fetch EXCEPT ![t] = NewFetch]
    /\ UNCHANGED <<backVars, reloads, screen, shopVars, polled, shown, late, guestVars, dropped>>

\* Mutant of Redeems: the effect does not look at the code.
RedeemsAnyway(t, s) == PortalWaits(t) /\ s.st = "confirmed"

\* The effect of PaymentPolling: 1.5 s later the code goes to the ticket.
Redeems(t, s) == PortalWaits(t) /\ s.st = "confirmed" /\ s.coded

StatusArrives(t) ==
    LET s == fetch[t][2]
    IN  /\ fetch[t][1] = "read"
        /\ shown' = [shown EXCEPT ![t] = s] /\ fetch' = [fetch EXCEPT ![t] = NoFetch]
        /\ timers' = IF Redeems(t, s) THEN [timers EXCEPT ![t] = @ \cup {polled[t]}] ELSE timers
        /\ UNCHANGED <<backVars, reloads, screen, shopVars, polled, late, trial, saved, offered,
                       ticketVars, dropped>>

\* The request and its one retry fail; the interval goes on.
StatusFails(t) ==
    /\ fetch[t] # NoFetch
    /\ fetch' = [fetch EXCEPT ![t] = NoFetch]
    /\ UNCHANGED <<backVars, reloads, screen, shopVars, polled, shown, late, guestVars, dropped>>

\* timeLeft is 0.
TimesOut(t) ==
    /\ PortalWaits(t) /\ ~late[t]
    /\ late' = [late EXCEPT ![t] = TRUE]
    /\ UNCHANGED <<backVars, reloads, screen, shopVars, polled, shown, fetch, guestVars, dropped>>

-----------------------------------------------------------------------------
(* The free trial.                                                         *)

TrialReady(t) == Shops(t) /\ dialog[t] = "trial" /\ trial[t] = None

HandleActivateTrial(t) ==
    /\ TrialReady(t)
    /\ Ask(TRUE, None)
    /\ trial' = [trial EXCEPT ![t] = asked + 1]
    /\ UNCHANGED <<active, reloads, screen, shopVars, pollVars, timers, saved, offered, ticketVars, dropped>>

\* The code is saved, and a second later it goes to the ticket.
TrialAnswered(t) ==
    LET p == trial[t]
    IN  /\ p # None /\ pay[p].reply = "ok"
        /\ trial' = [trial EXCEPT ![t] = None] /\ saved' = [saved EXCEPT ![t] = p]
        /\ timers' = [timers EXCEPT ![t] = @ \cup {p}]
        /\ dialog' = [dialog EXCEPT ![t] = IF @ = "trial" THEN "none" ELSE @]
        /\ UNCHANGED <<backVars, reloads, screen, list, chosen, push, stray, pollVars, offered, ticketVars, dropped>>

\* Refused, or the answer is lost: a toast.
TrialFails(t) ==
    /\ trial[t] # None
    /\ trial' = [trial EXCEPT ![t] = None]
    /\ UNCHANGED <<backVars, reloads, screen, shopVars, pollVars, timers, saved, offered, ticketVars, dropped>>

-----------------------------------------------------------------------------
(* The ticket.                                                             *)

\* setVoucherCode: BuyPackageFlow goes, with its push and its wait; a ticket that is
\* there already only changes its code.  Only a ticket that knows the router's login
\* page starts the timer that logs in.
ShowTicket(t, c) ==
    /\ code' = [code EXCEPT ![t] = c]
    /\ auto' = IF screen[t] = "ticket" \/ login[t] = "absent" THEN auto
               ELSE [auto EXCEPT ![t] = c]
    /\ screen' = [screen EXCEPT ![t] = "ticket"]
    /\ push' = [push EXCEPT ![t] = None] /\ dialog' = [dialog EXCEPT ![t] = "none"]
    /\ chosen' = [chosen EXCEPT ![t] = None]
    /\ polled' = [polled EXCEPT ![t] = None] /\ shown' = [shown EXCEPT ![t] = NoStatus]
    /\ fetch' = [fetch EXCEPT ![t] = NoFetch] /\ late' = [late EXCEPT ![t] = FALSE]
    /\ dropped' = dropped \cup ({push[t], polled[t]} \ {None})

\* A setTimeout fires, whatever is on the screen by now.  The effect of the wait
\* runs at every rendering, so several timers may hold the code of a payment.
TimerFires(t, p) ==
    /\ p \in timers[t]
    /\ \E again \in {Waits(t) /\ ~pay[p].trial, FALSE} :
          timers' = [timers EXCEPT ![t] = IF again THEN @ ELSE @ \ {p}]
    /\ saved' = IF pay[p].trial THEN saved ELSE [saved EXCEPT ![t] = p]
    /\ ShowTicket(t, p)
    /\ UNCHANGED <<backVars, reloads, list, stray, trial, offered, login>>

\* The portal outside its dialogs.
Idle(t) == screen[t] = "shop" /\ ~Waits(t) /\ dialog[t] = "none"

Reconnect(t) ==
    /\ Idle(t) /\ offered[t] # None
    /\ ShowTicket(t, offered[t])
    /\ UNCHANGED <<backVars, reloads, list, stray, trial, timers, saved, offered, login>>

HandleClearSavedVoucher(t) ==
    /\ Idle(t) /\ offered[t] # None
    /\ saved' = [saved EXCEPT ![t] = None] /\ offered' = [offered EXCEPT ![t] = None]
    /\ UNCHANGED <<backVars, reloads, screen, shopVars, pollVars, trial, timers, ticketVars, dropped>>

UseExistingVoucher(t) ==
    /\ Idle(t)
    /\ saved' = [saved EXCEPT ![t] = Typed]
    /\ ShowTicket(t, Typed)
    /\ UNCHANGED <<backVars, reloads, list, stray, trial, timers, offered, login>>

\* The ticket, with its button while the phone is not online; a tab without link-login
\* has none.
LoginOffered(t) == screen[t] = "ticket" /\ login[t] = "idle"

\* "Go Online Now".
PerformLogin(t) ==
    /\ LoginOffered(t)
    /\ login' = [login EXCEPT ![t] = "sending"]
    /\ UNCHANGED <<backVars, reloads, screen, shopVars, pollVars, trial, timers, saved, offered,
                   code, auto, dropped>>

\* Three seconds after the ticket came: the timer's performLogin is the one of the
\* first rendering, so it does not see a login that has been made since.
AutoLogin(t) ==
    /\ auto[t] # None
    /\ auto' = [auto EXCEPT ![t] = None]
    /\ login' = [login EXCEPT ![t] = IF @ = "online" THEN @ ELSE "sending"]
    /\ UNCHANGED <<backVars, reloads, screen, shopVars, pollVars, trial, timers, saved, offered,
                   code, dropped>>

\* The router's answer cannot be read (no-cors): "You are Connected!" either way.
LoginEnds(t) ==
    /\ login[t] = "sending"
    /\ login' = [login EXCEPT ![t] = "online"]
    /\ UNCHANGED <<backVars, reloads, screen, shopVars, pollVars, trial, timers, saved, offered,
                   code, auto, dropped>>

-----------------------------------------------------------------------------
(* Documents and pages.                                                    *)

\* "Try Again", "Back to Packages" or the browser's own reload.
ReloadPortal(t) ==
    /\ screen[t] # "closed" /\ reloads < MaxReloads /\ reloads' = reloads + 1
    /\ screen' = [screen EXCEPT ![t] = "shop"] /\ list' = [list EXCEPT ![t] = None]
    /\ dialog' = [dialog EXCEPT ![t] = "none"] /\ chosen' = [chosen EXCEPT ![t] = None]
    /\ push' = [push EXCEPT ![t] = None] /\ polled' = [polled EXCEPT ![t] = None]
    /\ shown' = [shown EXCEPT ![t] = NoStatus] /\ fetch' = [fetch EXCEPT ![t] = NoFetch]
    /\ late' = [late EXCEPT ![t] = FALSE]
    /\ trial' = [trial EXCEPT ![t] = None] /\ timers' = [timers EXCEPT ![t] = {}]
    /\ offered' = [offered EXCEPT ![t] = saved[t]]
    /\ code' = [code EXCEPT ![t] = None] /\ auto' = [auto EXCEPT ![t] = None]
    /\ login' = [login EXCEPT ![t] = IF @ = "absent" THEN @ ELSE "idle"]
    /\ dropped' = dropped \cup ({push[t], polled[t]} \ {None})
    /\ UNCHANGED <<backVars, stray, saved>>

\* Any page but the two: the push goes on, the payment's page is forgotten.
GoDashboard(t) ==
    /\ screen[t] \in {"shop", "status"} /\ dialog[t] = "none"
    /\ screen' = [screen EXCEPT ![t] = "dashboard"]
    /\ stray' = [stray EXCEPT ![t] = @ \cup ({push[t]} \ {None})]
    /\ push' = [push EXCEPT ![t] = None] /\ chosen' = [chosen EXCEPT ![t] = None]
    /\ polled' = [polled EXCEPT ![t] = None] /\ shown' = [shown EXCEPT ![t] = NoStatus]
    /\ fetch' = [fetch EXCEPT ![t] = NoFetch]
    /\ dropped' = dropped \cup ({polled[t]} \ {None})
    /\ UNCHANGED <<backVars, reloads, list, dialog, late, guestVars>>

GoShop(t) ==
    /\ screen[t] = "dashboard"
    /\ screen' = [screen EXCEPT ![t] = "shop"]
    /\ UNCHANGED <<backVars, reloads, shopVars, pollVars, guestVars, dropped>>

-----------------------------------------------------------------------------
Backend(p) ==
    \/ InitiatePayment(p) \/ RefusePayment(p) \/ Settle(p) \/ IssueVoucher(p)
    \/ CountTrials(p) \/ RefuseTrial(p) \/ GrantTrial(p) \/ ProvisionTrial(p)

Next ==
    \/ \E p \in Payments : Backend(p)
    \/ \E k \in Packages : HandleDeactivate(k)
    \/ \E t \in Tabs :
          \/ PackagesLoaded(t) \/ CloseDialog(t) \/ HandlePay(t) \/ HandleConfirmPayment(t)
          \/ \E k \in Packages : PickPackage(t, k) \/ HandleBuyClick(t, k)
          \/ \E p \in Payments : PushAnswered(t, p) \/ PushRefused(t, p) \/ PushLost(t, p)
          \/ Poll(t) \/ ServeStatus(t) \/ StatusArrives(t) \/ StatusFails(t) \/ Refocus(t)
    \/ \E t \in Guests :
          \/ VerifyStatus(t) \/ TimesOut(t)
          \/ OpenTrial(t) \/ HandleActivateTrial(t) \/ TrialAnswered(t) \/ TrialFails(t)
          \/ \E p \in Payments : TimerFires(t, p)
          \/ Reconnect(t) \/ HandleClearSavedVoucher(t) \/ UseExistingVoucher(t)
          \/ PerformLogin(t) \/ AutoLogin(t) \/ LoginEnds(t) \/ ReloadPortal(t)
    \/ \E t \in Customers : GoDashboard(t) \/ GoShop(t)

Spec == Init /\ [][Next]_portalVars

\* Timers fire, the crons and the worker settle every payment, and a status request
\* that is sent again and again is answered at last.
Fairness ==
    /\ \A p \in Payments : WF_portalVars(Backend(p))
    /\ \A t \in Tabs : /\ WF_portalVars(Poll(t))
                       /\ SF_portalVars(ServeStatus(t)) /\ SF_portalVars(StatusArrives(t))
    /\ \A t \in Guests : /\ WF_portalVars(TimesOut(t))
                         /\ WF_portalVars(\E p \in Payments : TimerFires(t, p))
                         /\ WF_portalVars(AutoLogin(t)) /\ WF_portalVars(LoginEnds(t))

FairSpec == Spec /\ Fairness

-----------------------------------------------------------------------------
\* A ticket shows a code the backend has issued for a payment that was confirmed,
\* unless the guest typed it: whichever timers fire after which answers.
TicketIsPaidFor ==
    \A t \in Guests : code[t] \in Payments => pay[code[t]].st = "confirmed" /\ pay[code[t]].coded

\* The types, and TicketIsPaidFor: the timers of PaymentPolling and of the trial hand
\* on no code the backend has not made.
PortalInv == TypeOK /\ TicketIsPaidFor

\* The package of the wait was deactivated while the guest waited: BuyPackageFlow shows
\* its packages again, and the wait when the guest picks another one.
FallenBack(t) == t \in Guests /\ chosen[t] \in Packages \ active

\* A prompt that is out is on a screen that waits for it, or its tab waits for the
\* answer that will show that screen.  Excepted are a prompt whose answer was lost, one
\* whose page was reloaded or left, one whose place a ticket or another payment took,
\* and the wait for a package that has been deactivated (FallenBack).  So pressing the
\* button again does not ask the customer to pay twice.
NoPromptForgotten ==
    \A p \in Payments \ dropped :
        pay[p].st \in {"asked", "pending"} /\ ~pay[p].trial =>
            \E t \in Tabs : \/ p \in Awaited(t)
                            \/ polled[t] = p /\ (Waits(t) \/ FallenBack(t))

\* Two free trials of one day come only from requests that overlapped: one counted
\* the trials of the day while the voucher of the other was still to be made, by
\* its request or, when that failed, by the reconciliation cron.
SecondTrialOnlyByOverlap ==
    \A p, q \in Payments :
        /\ p # q
        /\ pay[p].trial /\ pay[p].coded
        /\ pay[q].trial /\ pay[q].coded
        => p \in pay[q].beside \/ q \in pay[p].beside

\* No screen waits for ever: the wait for a payment ends in an answer or, on the
\* portal, after 90 seconds, and a ticket that knows the router's login page logs the
\* phone in by itself.
ScreensMoveOn ==
    /\ \A t \in Tabs : Waiting(t) ~> ~Waiting(t)
    /\ \A t \in Guests : (code[t] # None) ~> (code[t] = None \/ login[t] \in {"online", "absent"})

\* "Activating your internet connection..." ends with the voucher.
ActivationEnds ==
    \A t \in Tabs : (Waits(t) /\ shown[t].st = "confirmed") ~> (~Waits(t) \/ shown[t].coded)

=============================================================================
