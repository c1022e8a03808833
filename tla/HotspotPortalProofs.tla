------------------------ MODULE HotspotPortalProofs -------------------------
(***************************************************************************)
(* Proofs about HotspotPortal, for any number of guests' and customers'    *)
(* tabs, packages, payments, trials and reloads.                           *)
(*                                                                         *)
(* A code is on its way to the ticket for a long time: it is read by a     *)
(* status request, held by a timer, kept in localStorage, offered after a  *)
(* reload.  CodesOK and WaitOK say that it has been issued wherever it is, *)
(* and Grows that the backend takes nothing back.  Of the trials, OverlapOK*)
(* compares all that are past the count, whether or not they have a        *)
(* voucher yet: that one of them was counted beside the other is decided   *)
(* when they are counted, long before the second voucher is made.          *)
(* That a prompt is on a screen, and not only remembered (PromptsOK),      *)
(* needs ScreensOK: while a tab has a payment it stays where it can wait   *)
(* for it, and its package is in its list or has been deactivated.         *)
(***************************************************************************)
EXTENDS HotspotPortal, TLAPS

\* The backend has made a code for a payment it takes for paid.
Paid(r) == r.st = "confirmed" /\ r.coded

\* There is a row to answer status requests from.
Started(r) == r.st \in {"pending", "confirmed", "failed"}

\* A prompt that is out, or about to be.
Out(r) == r.st \in {"asked", "pending"} /\ ~r.trial

\* A trial past the count.
Counted(r) == r.trial /\ r.st \in {"counted", "confirmed"}

\* How far a request has come, and what it was told.
RowOK(r) ==
    /\ r.coded => r.st = "confirmed"
    /\ r.reply = "ok" => Started(r)
    /\ r.reply = "error" /\ ~r.trial => r.st = "refused"
    /\ r.trial => r.st # "pending"
    /\ r.trial /\ r.reply = "ok" => r.coded
    /\ r.trial /\ r.reply = "none" => ~r.coded

OverlapOK ==
    \A p, q \in Payments :
        p # q /\ Counted(pay[p]) /\ Counted(pay[q])
            => p \in pay[q].beside \/ q \in pay[p].beside

BackOK ==
    /\ pay \in [Payments -> PayRows] /\ active \subseteq Packages
    /\ asked \in 0 .. MaxPayments /\ reloads \in 0 .. MaxReloads
    /\ \A p \in Payments : RowOK(pay[p])
    /\ \A p \in Payments : p > asked => pay[p] = NoPay
    /\ OverlapOK

ShopOK ==
    /\ screen \in [Tabs -> {"closed", "shop", "ticket", "status", "dashboard"}]
    /\ list \in [Tabs -> (SUBSET Packages) \cup {None}]
    /\ dialog \in [Tabs -> {"none", "checkout", "trial"}]
    /\ chosen \in [Tabs -> Packages \cup {None}]
    /\ push \in [Tabs -> Payments \cup {None}]
    /\ stray \in [Customers -> SUBSET Payments]

\* A tab asks for a payment that is there, and a code it was told of is real.
WaitOK ==
    /\ polled \in [Tabs -> Payments \cup {None}]
    /\ shown \in [Tabs -> Status \cup {NoStatus}]
    /\ fetch \in [Tabs -> Fetches]
    /\ late \in [Tabs -> BOOLEAN]
    /\ \A t \in Tabs : polled[t] # None => Started(pay[polled[t]])
    /\ \A t \in Tabs : fetch[t] # NoFetch => polled[t] # None
    /\ \A t \in Tabs : fetch[t][1] = "read" /\ fetch[t][2].coded => Paid(pay[polled[t]])

\* Codes in timers, in localStorage, offered and on the ticket are real.
CodesOK ==
    /\ trial \in [Guests -> Payments \cup {None}]
    /\ timers \in [Guests -> SUBSET Payments]
    /\ saved \in [Guests -> Codes \cup {None}]
    /\ offered \in [Guests -> Codes \cup {None}]
    /\ code \in [Guests -> Codes \cup {None}]
    /\ auto \in [Guests -> Codes \cup {None}]
    /\ login \in [Guests -> {"absent", "idle", "sending", "online"}]
    /\ \A t \in Guests : trial[t] # None => pay[trial[t]].trial
    /\ \A t \in Guests : \A p \in timers[t] : Paid(pay[p])
    /\ \A t \in Guests : saved[t] \in Payments => Paid(pay[saved[t]])
    /\ \A t \in Guests : offered[t] \in Payments => Paid(pay[offered[t]])
    /\ \A t \in Guests : code[t] \in Payments => Paid(pay[code[t]])

\* NoPromptForgotten, row by row, with the tab that has the payment.
PromptsOK ==
    /\ dropped \subseteq Payments
    /\ \A p \in Payments \ dropped :
          Out(pay[p]) => \E t \in Tabs : p \in Awaited(t) \/ polled[t] = p

PortalIInv == BackOK /\ ShopOK /\ WaitOK /\ CodesOK /\ PromptsOK

\* A guest has a payment on the way, or is about to.
Paying(t) == dialog[t] = "checkout" \/ push[t] # None \/ polled[t] # None

\* A tab that has a payment is where it can wait for it.
ScreenOK(t) ==
    /\ t \in Guests /\ Paying(t) =>
          /\ screen[t] = "shop" /\ list[t] # None
          /\ chosen[t] \in Packages
          /\ chosen[t] \in list[t] \/ chosen[t] \notin active
    /\ t \in Customers /\ polled[t] # None => screen[t] = "status"

ScreensOK == \A t \in Tabs : ScreenOK(t)

-----------------------------------------------------------------------------
(* What a step that leaves some part alone preserves.                      *)

\* What the backend has made it does not take back.
Grows ==
    \A p \in Payments : /\ Paid(pay[p]) => Paid(pay'[p])
                        /\ Started(pay[p]) => Started(pay'[p])
                        /\ pay[p].trial => pay'[p].trial

\* No prompt comes out.
NoneOut == \A p \in Payments : Out(pay'[p]) => Out(pay[p])

LEMMA SamePay == ASSUME pay' = pay PROVE Grows /\ NoneOut
BY DEF Grows, NoneOut

LEMMA BackFrame ==
    ASSUME BackOK, UNCHANGED <<backVars, reloads>>
    PROVE  BackOK'
BY DEF BackOK, backVars, OverlapOK

LEMMA ShopFrame ==
    ASSUME ShopOK, UNCHANGED <<screen, shopVars>>
    PROVE  ShopOK'
BY DEF ShopOK, shopVars

LEMMA WaitFrame ==
    ASSUME WaitOK, Grows, UNCHANGED pollVars
    PROVE  WaitOK'
<1>1. UNCHANGED <<polled, shown, fetch, late>>
    BY DEF pollVars
<1>2. ASSUME NEW t \in Tabs, fetch[t][1] = "read", fetch[t][2].coded
      PROVE  Paid(pay'[polled[t]])
    <2>1. fetch[t] # NoFetch
        BY <1>2 DEF NoFetch
    <2>2. polled[t] \in Payments
        BY <2>1 DEF WaitOK
    <2> QED
        BY <1>2, <2>2 DEF WaitOK, Grows
<1>3. ASSUME NEW t \in Tabs, polled[t] # None
      PROVE  Started(pay'[polled[t]])
    BY <1>3 DEF WaitOK, Grows
<1> QED
    BY <1>1, <1>2, <1>3 DEF WaitOK

LEMMA CodesFrame ==
    ASSUME CodesOK, Grows, UNCHANGED guestVars
    PROVE  CodesOK'
<1>1. UNCHANGED <<trial, timers, saved, offered, code, auto, login>>
    BY DEF guestVars, ticketVars
<1>2. \A t \in Guests : trial[t] # None => pay'[trial[t]].trial
    BY DEF CodesOK, Grows
<1>3. \A t \in Guests : \A p \in timers[t] : Paid(pay'[p])
    BY DEF CodesOK, Grows
<1>4. \A t \in Guests : /\ saved[t] \in Payments => Paid(pay'[saved[t]])
                        /\ offered[t] \in Payments => Paid(pay'[offered[t]])
                        /\ code[t] \in Payments => Paid(pay'[code[t]])
    BY DEF CodesOK, Grows
<1> QED
    BY <1>1, <1>2, <1>3, <1>4 DEF CodesOK

LEMMA PromptsFrame ==
    ASSUME PromptsOK, NoneOut, UNCHANGED <<push, stray, polled, dropped>>
    PROVE  PromptsOK'
BY DEF PromptsOK, NoneOut, Awaited

-----------------------------------------------------------------------------
(* The backend.                                                            *)

\* A step of the backend leaves the tabs alone.
LEMMA BackendOnly ==
    ASSUME PortalIInv, BackOK', Grows, NoneOut, UNCHANGED tabVars
    PROVE  PortalIInv'
<1>1. ShopOK'
    BY ShopFrame DEF PortalIInv, tabVars
<1>2. WaitOK'
    BY WaitFrame DEF PortalIInv, tabVars
<1>3. CodesOK'
    BY CodesFrame DEF PortalIInv, tabVars
<1>4. PromptsOK'
    BY PromptsFrame DEF PortalIInv, tabVars, shopVars, pollVars
<1> QED
    BY <1>1, <1>2, <1>3, <1>4 DEF PortalIInv

\* One row moves on.
LEMMA RowMoves ==
    ASSUME PortalIInv, NEW p \in Payments, NEW r \in PayRows,
           pay' = [pay EXCEPT ![p] = r], UNCHANGED <<active, asked, tabVars>>,
           pay[p].st # "absent", RowOK(r),
           r.trial = pay[p].trial, r.beside = pay[p].beside,
           Paid(pay[p]) => Paid(r), Started(pay[p]) => Started(r),
           Out(r) => Out(pay[p]), Counted(r) => Counted(pay[p])
    PROVE  PortalIInv'
<1>1. /\ pay \in [Payments -> PayRows] /\ UNCHANGED <<active, asked, reloads>>
      /\ pay'[p] = r /\ \A q \in Payments : q # p => pay'[q] = pay[q]
    BY DEF PortalIInv, BackOK, tabVars
<1>2. Grows /\ NoneOut
    BY <1>1 DEF Grows, NoneOut
<1>3. \A q \in Payments : pay'[q].beside = pay[q].beside /\ (Counted(pay'[q]) => Counted(pay[q]))
    BY <1>1
<1>4. OverlapOK'
    BY <1>3 DEF PortalIInv, BackOK, OverlapOK
<1>5. \A q \in Payments : q > asked' => pay'[q] = NoPay
    <2>1. ~(p > asked)
        BY DEF PortalIInv, BackOK, NoPay
    <2> QED
        BY <1>1, <2>1 DEF PortalIInv, BackOK
<1>6. \A q \in Payments : RowOK(pay'[q])
    BY <1>1 DEF PortalIInv, BackOK
<1>7. pay' \in [Payments -> PayRows]
    BY <1>1
<1>8. BackOK'
    BY <1>1, <1>4, <1>5, <1>6, <1>7 DEF PortalIInv, BackOK
<1> QED
    BY <1>2, <1>8, BackendOnly

LEMMA InitiatePaymentStep ==
    ASSUME PortalIInv, NEW p \in Payments, InitiatePayment(p)
    PROVE  PortalIInv'
<1> DEFINE r == [pay[p] EXCEPT !.st = "pending", !.reply = "ok"]
<1>1. /\ pay[p] \in PayRows /\ RowOK(pay[p]) /\ pay[p].st = "asked" /\ ~pay[p].trial
      /\ pay' = [pay EXCEPT ![p] = r] /\ UNCHANGED <<active, asked, tabVars>>
    BY DEF PortalIInv, BackOK, InitiatePayment, Answer
<1>2. /\ r \in PayRows /\ r.st = "pending" /\ r.reply = "ok" /\ r.trial = pay[p].trial
      /\ r.coded = pay[p].coded /\ r.beside = pay[p].beside
    BY <1>1 DEF PayRows
<1> HIDE DEF r
<1> QED
    BY <1>1, <1>2, RowMoves DEF RowOK, Paid, Started, Out, Counted

\* RefusePayment, RefuseTrial and the trial too many.
LEMMA RefusedStep ==
    ASSUME PortalIInv, NEW p \in Payments, pay[p].st = "asked",
           Answer(p, "refused", "error"), UNCHANGED <<active, asked, tabVars>>
    PROVE  PortalIInv'
<1> DEFINE r == [pay[p] EXCEPT !.st = "refused", !.reply = "error"]
<1>1. /\ pay[p] \in PayRows /\ RowOK(pay[p])
      /\ pay' = [pay EXCEPT ![p] = r]
    BY DEF PortalIInv, BackOK, Answer
<1>2. /\ r \in PayRows /\ r.st = "refused" /\ r.reply = "error" /\ r.trial = pay[p].trial
      /\ r.coded = pay[p].coded /\ r.beside = pay[p].beside
    BY <1>1 DEF PayRows
<1> HIDE DEF r
<1> QED
    BY <1>1, <1>2, RowMoves DEF RowOK, Paid, Started, Out, Counted

LEMMA SettleStep ==
    ASSUME PortalIInv, NEW p \in Payments, Settle(p)
    PROVE  PortalIInv'
<1>1. PICK st \in {"confirmed", "failed"} : pay' = [pay EXCEPT ![p].st = st]
    BY DEF Settle
<1> DEFINE r == [pay[p] EXCEPT !.st = st]
<1>2. /\ pay[p] \in PayRows /\ RowOK(pay[p]) /\ pay[p].st = "pending"
      /\ pay' = [pay EXCEPT ![p] = r] /\ UNCHANGED <<active, asked, tabVars>>
    BY <1>1 DEF PortalIInv, BackOK, Settle
<1>3. /\ r \in PayRows /\ r.st = st /\ r.reply = pay[p].reply /\ r.trial = pay[p].trial
      /\ r.coded = pay[p].coded /\ r.beside = pay[p].beside
    BY <1>2 DEF PayRows
<1> HIDE DEF r
<1> QED
    BY <1>2, <1>3, RowMoves DEF RowOK, Paid, Started, Out, Counted

LEMMA IssueVoucherStep ==
    ASSUME PortalIInv, NEW p \in Payments, IssueVoucher(p)
    PROVE  PortalIInv'
<1> DEFINE r == [pay[p] EXCEPT !.coded = TRUE]
<1>1. /\ pay[p] \in PayRows /\ RowOK(pay[p]) /\ pay[p].st = "confirmed"
      /\ pay[p].trial => pay[p].reply # "none"
      /\ pay' = [pay EXCEPT ![p] = r] /\ UNCHANGED <<active, asked, tabVars>>
    BY DEF PortalIInv, BackOK, IssueVoucher
<1>2. /\ r \in PayRows /\ r.st = "confirmed" /\ r.reply = pay[p].reply
      /\ r.trial = pay[p].trial /\ r.coded = TRUE /\ r.beside = pay[p].beside
    BY <1>1 DEF PayRows
<1> HIDE DEF r
<1> QED
    BY <1>1, <1>2, RowMoves DEF RowOK, Paid, Started, Out, Counted

LEMMA GrantTrialStep ==
    ASSUME PortalIInv, NEW p \in Payments, GrantTrial(p)
    PROVE  PortalIInv'
<1> DEFINE r == [pay[p] EXCEPT !.st = "confirmed"]
<1>1. /\ pay[p] \in PayRows /\ RowOK(pay[p]) /\ pay[p].st = "counted"
      /\ pay' = [pay EXCEPT ![p] = r] /\ UNCHANGED <<active, asked, tabVars>>
    BY DEF PortalIInv, BackOK, GrantTrial
<1>2. /\ r \in PayRows /\ r.st = "confirmed" /\ r.reply = pay[p].reply
      /\ r.trial = pay[p].trial /\ r.coded = pay[p].coded /\ r.beside = pay[p].beside
    BY <1>1 DEF PayRows
<1> HIDE DEF r
<1> QED
    BY <1>1, <1>2, RowMoves DEF RowOK, Paid, Started, Out, Counted

LEMMA ProvisionTrialStep ==
    ASSUME PortalIInv, NEW p \in Payments, ProvisionTrial(p)
    PROVE  PortalIInv'
<1>1. PICK ok \in BOOLEAN :
        pay' = [pay EXCEPT ![p].coded = ok, ![p].reply = IF ok THEN "ok" ELSE "error"]
    BY DEF ProvisionTrial
<1> DEFINE y == IF ok THEN "ok" ELSE "error"
           r == [pay[p] EXCEPT !.coded = ok, !.reply = y]
<1>2. y \in {"ok", "error"} /\ (y = "ok" => ok)
    OBVIOUS
<1>3. /\ pay[p] \in PayRows /\ RowOK(pay[p]) /\ pay[p].st = "confirmed" /\ pay[p].trial
      /\ pay[p].reply = "none"
      /\ pay' = [pay EXCEPT ![p] = r] /\ UNCHANGED <<active, asked, tabVars>>
    BY <1>1 DEF PortalIInv, BackOK, ProvisionTrial
<1> HIDE DEF y
<1>4. /\ r \in PayRows /\ r.st = "confirmed" /\ r.reply = y
      /\ r.trial = pay[p].trial /\ r.coded = ok /\ r.beside = pay[p].beside
    BY <1>2, <1>3 DEF PayRows
<1> HIDE DEF r
<1> QED
    BY <1>2, <1>3, <1>4, RowMoves DEF RowOK, Paid, Started, Out, Counted

\* A trial is counted when no other has a voucher: all that are past the count are
\* under way, and are noted.
LEMMA CountTrialsStep ==
    ASSUME PortalIInv, NEW p \in Payments, CountTrials(p)
    PROVE  PortalIInv'
<1>1. CASE TrialsOfToday # {}
    BY <1>1, RefusedStep DEF CountTrials
<1>2. CASE TrialsOfToday = {}
    <2> DEFINE r == [pay[p] EXCEPT !.st = "counted", !.beside = TrialsUnderWay]
    <2>1. /\ pay \in [Payments -> PayRows] /\ pay[p] \in PayRows /\ RowOK(pay[p])
          /\ pay[p].st = "asked" /\ pay[p].trial
          /\ pay' = [pay EXCEPT ![p] = r] /\ UNCHANGED <<active, asked, tabVars>>
        BY <1>2 DEF PortalIInv, BackOK, CountTrials
    <2>2. TrialsUnderWay \in SUBSET Payments
        BY DEF TrialsUnderWay
    <2>3. /\ r \in PayRows /\ r.st = "counted" /\ r.reply = pay[p].reply
          /\ r.trial = pay[p].trial /\ r.coded = pay[p].coded /\ r.beside = TrialsUnderWay
        BY <2>1, <2>2 DEF PayRows
    <2> HIDE DEF r
    <2>4. /\ pay'[p] = r /\ \A q \in Payments : q # p => pay'[q] = pay[q]
          /\ pay' \in [Payments -> PayRows]
        BY <2>1, <2>3
    <2>5. RowOK(r)
        BY <2>1, <2>3 DEF RowOK, Started
    <2>6. ~Paid(pay[p]) /\ ~Started(pay[p]) /\ ~Out(r)
        BY <2>1, <2>3 DEF Paid, Started, Out
    <2>7. Grows /\ NoneOut
        BY <2>1, <2>3, <2>4, <2>6 DEF Grows, NoneOut
    <2>8. \A q \in Payments : q # p /\ Counted(pay[q]) => q \in TrialsUnderWay
        BY <1>2 DEF Counted, TrialsOfToday, TrialsUnderWay
    <2>9. OverlapOK'
        BY <2>3, <2>4, <2>8 DEF PortalIInv, BackOK, OverlapOK
    <2>10. ~(p > asked)
        BY <2>1 DEF PortalIInv, BackOK, NoPay
    <2>11. BackOK'
        BY <2>1, <2>4, <2>5, <2>9, <2>10 DEF PortalIInv, BackOK, tabVars
    <2> QED
        BY <2>1, <2>7, <2>11, BackendOnly
<1> QED
    BY <1>1, <1>2

LEMMA BackendStep ==
    ASSUME PortalIInv, NEW p \in Payments, Backend(p)
    PROVE  PortalIInv'
<1>1. CASE RefusePayment(p) \/ RefuseTrial(p)
    BY <1>1, RefusedStep DEF RefusePayment, RefuseTrial
<1> QED
    BY <1>1, InitiatePaymentStep, SettleStep, IssueVoucherStep, CountTrialsStep,
       GrantTrialStep, ProvisionTrialStep
    DEF Backend

LEMMA DeactivateStep ==
    ASSUME PortalIInv, NEW k \in Packages, HandleDeactivate(k)
    PROVE  PortalIInv'
<1>1. pay' = pay /\ asked' = asked /\ active' = active \ {k} /\ UNCHANGED tabVars
    BY DEF HandleDeactivate, DeactivatePackage
<1>2. BackOK'
    BY <1>1 DEF PortalIInv, BackOK, OverlapOK, tabVars
<1> QED
    BY <1>1, <1>2, SamePay, BackendOnly

-----------------------------------------------------------------------------
(* A tab, what it shows and what it waits for.                             *)

\* The part of the tabs a step does not name.
LEMMA TabsOnly ==
    ASSUME PortalIInv, UNCHANGED <<backVars, reloads>>
    PROVE  /\ BackOK' /\ Grows /\ NoneOut
           /\ UNCHANGED pollVars => WaitOK'
           /\ UNCHANGED guestVars => CodesOK'
           /\ UNCHANGED <<push, stray, polled, dropped>> => PromptsOK'
           /\ UNCHANGED <<screen, shopVars>> => ShopOK'
<1>1. BackOK' /\ Grows /\ NoneOut
    BY BackFrame, SamePay DEF PortalIInv, backVars
<1> QED
    BY <1>1, WaitFrame, CodesFrame, PromptsFrame, ShopFrame DEF PortalIInv

\* A prompt whose tab loses it is among the dropped ones, or no longer out.
LEMMA PromptsMove ==
    ASSUME PromptsOK, NoneOut, dropped \subseteq dropped', dropped' \subseteq Payments,
           \A t \in Tabs, p \in Payments \ dropped' :
              /\ p \in Awaited(t) \/ polled[t] = p
              /\ Out(pay'[p])
              => p \in Awaited(t)' \/ polled'[t] = p
    PROVE  PromptsOK'
<1> SUFFICES ASSUME NEW p \in Payments \ dropped', Out(pay'[p])
             PROVE  \E t \in Tabs : p \in Awaited(t)' \/ polled'[t] = p
    BY DEF PromptsOK
<1>1. PICK t \in Tabs : p \in Awaited(t) \/ polled[t] = p
    BY DEF PromptsOK, NoneOut
<1> QED
    BY <1>1

LEMMA PackagesLoadedStep ==
    ASSUME PortalIInv, NEW t \in Tabs, PackagesLoaded(t)
    PROVE  PortalIInv'
<1>1. /\ list' = [list EXCEPT ![t] = active]
      /\ late' = [late EXCEPT ![t] = @ /\ chosen[t] \in active]
      /\ UNCHANGED <<backVars, reloads, screen, dialog, chosen, push, stray, polled, shown, fetch,
                     guestVars, dropped>>
    BY DEF PackagesLoaded
<1>2. BackOK' /\ CodesOK' /\ PromptsOK'
    BY <1>1, TabsOnly
<1>3. ShopOK'
    BY <1>1 DEF PortalIInv, ShopOK, BackOK
<1>4. late' \in [Tabs -> BOOLEAN]
    BY <1>1 DEF PortalIInv, WaitOK
<1>5. WaitOK'
    BY <1>1, <1>4 DEF PortalIInv, WaitOK, backVars
<1> QED
    BY <1>2, <1>3, <1>5 DEF PortalIInv

\* Dialogs and cards.
LEMMA DialogStep ==
    ASSUME PortalIInv, NEW t \in Tabs,
           \/ \E k \in Packages : PickPackage(t, k) \/ HandleBuyClick(t, k)
           \/ OpenTrial(t) \/ CloseDialog(t)
    PROVE  PortalIInv'
<1>1. /\ UNCHANGED <<backVars, reloads, screen, list, push, stray, pollVars, guestVars, dropped>>
      /\ dialog' \in [Tabs -> {"none", "checkout", "trial"}]
      /\ chosen' \in [Tabs -> Packages \cup {None}]
    BY DEF PortalIInv, ShopOK, PickPackage, HandleBuyClick, Choose, OpenTrial, CloseDialog
<1>2. BackOK' /\ CodesOK' /\ PromptsOK' /\ WaitOK'
    BY <1>1, TabsOnly DEF pollVars
<1>3. ShopOK'
    BY <1>1 DEF PortalIInv, ShopOK
<1> QED
    BY <1>2, <1>3 DEF PortalIInv

\* A new request takes the next number, whose row is empty.
LEMMA AskStep ==
    ASSUME PortalIInv, NEW isTrial \in BOOLEAN, NEW k \in Packages \cup {None},
           Ask(isTrial, k), UNCHANGED <<active, reloads>>
    PROVE  /\ BackOK' /\ Grows
           /\ asked + 1 \in Payments
           /\ pay'[asked + 1].trial = isTrial
           /\ \A p \in Payments : p # asked + 1 => pay'[p] = pay[p]
<1> DEFINE n == asked + 1
           r == [NoPay EXCEPT !.st = "asked", !.trial = isTrial, !.pkg = k]
<1>1. n \in Payments /\ asked \in Nat /\ asked' = n
    BY PortalConstants DEF PortalIInv, BackOK, Ask, Payments
<1>2. pay \in [Payments -> PayRows] /\ pay[n] = NoPay
    BY <1>1 DEF PortalIInv, BackOK
<1>3. NoPay \in PayRows /\ NoPay.coded = FALSE /\ NoPay.reply = "none"
    BY DEF NoPay, PayRows
<1>4. r \in PayRows
    BY <1>3 DEF PayRows
<1>5. r.st = "asked" /\ r.trial = isTrial /\ r.coded = FALSE /\ r.reply = "none"
    BY <1>3 DEF PayRows
<1>6. pay' = [pay EXCEPT ![n] = r]
    BY DEF Ask
<1> HIDE DEF r, n
<1>7. pay'[n] = r /\ pay' \in [Payments -> PayRows] /\ \A p \in Payments : p # n => pay'[p] = pay[p]
    BY <1>1, <1>2, <1>4, <1>6
<1>8. RowOK(r) /\ ~Counted(r)
    BY <1>5 DEF RowOK, Counted
<1>9. Grows
    BY <1>2, <1>7 DEF Grows, NoPay, Paid, Started
<1>10. OverlapOK'
    BY <1>7, <1>8 DEF PortalIInv, BackOK, OverlapOK
<1>11. \A p \in Payments : p > asked' => pay'[p] = NoPay
    BY <1>1, <1>7 DEF PortalIInv, BackOK, Payments, n
<1>12. asked' \in 0 .. MaxPayments
    BY <1>1 DEF Payments
<1>13. BackOK'
    BY <1>7, <1>8, <1>10, <1>11, <1>12 DEF PortalIInv, BackOK
<1> QED
    BY <1>1, <1>5, <1>7, <1>9, <1>13 DEF n

LEMMA SendPushStep ==
    ASSUME PortalIInv, NEW t \in Tabs, HandlePay(t) \/ HandleConfirmPayment(t)
    PROVE  PortalIInv'
<1> DEFINE n == asked + 1
<1>1. /\ push[t] = None /\ Ask(FALSE, chosen[t])
      /\ push' = [push EXCEPT ![t] = n]
      /\ UNCHANGED <<active, reloads, screen, list, dialog, chosen, stray, pollVars, guestVars,
                     dropped>>
    BY DEF HandlePay, HandleConfirmPayment, CheckoutReady, PromptReady, SendPush
<1>2. chosen[t] \in Packages \cup {None}
    BY DEF PortalIInv, ShopOK
<1>3. /\ BackOK' /\ Grows /\ n \in Payments
      /\ \A p \in Payments : p # n => pay'[p] = pay[p]
    BY <1>1, <1>2, AskStep
<1> HIDE DEF n
<1>4. ShopOK'
    BY <1>1, <1>3 DEF PortalIInv, ShopOK
<1>5. WaitOK' /\ CodesOK'
    BY <1>1, <1>3, WaitFrame, CodesFrame DEF PortalIInv
<1>6. PromptsOK'
    <2>1. n # None
        BY <1>3, PortalConstants DEF Codes
    <2>2. /\ push'[t] = n /\ \A u \in Tabs : u # t => push'[u] = push[u]
          /\ stray' = stray /\ polled' = polled /\ dropped' = dropped
        BY <1>1 DEF PortalIInv, ShopOK, pollVars
    <2>3. n \in Awaited(t)'
        BY <2>1, <2>2 DEF Awaited
    <2>4. ASSUME NEW p \in Payments \ dropped, p # n, Out(pay'[p])
          PROVE  \E u \in Tabs : p \in Awaited(u)' \/ polled'[u] = p
        <3>1. Out(pay[p])
            BY <1>3, <2>4
        <3>2. PICK u \in Tabs : p \in Awaited(u) \/ polled[u] = p
            BY <3>1 DEF PortalIInv, PromptsOK
        <3>3. p \in Awaited(u) => p \in Awaited(u)'
            BY <1>1, <2>2 DEF Awaited
        <3> QED
            BY <2>2, <3>2, <3>3
    <2> QED
        BY <2>2, <2>3, <2>4 DEF PortalIInv, PromptsOK
<1> QED
    BY <1>3, <1>4, <1>5, <1>6 DEF PortalIInv

\* What is left to wait for when one answer has come.
LEMMA SettledKeeps ==
    ASSUME ShopOK, NEW t \in Tabs, NEW p \in Payments, p \in Awaited(t), Settled(t, p)
    PROVE  /\ push' \in [Tabs -> Payments \cup {None}]
           /\ stray' \in [Customers -> SUBSET Payments]
           /\ \A u \in Tabs, q \in Payments : q # p /\ q \in Awaited(u) => q \in Awaited(u)'
           /\ \A u \in Tabs : u # t => Awaited(u) \subseteq Awaited(u)'
<1>1. /\ push' = [push EXCEPT ![t] = IF @ = p THEN None ELSE @]
      /\ stray' = IF t \in Customers THEN [stray EXCEPT ![t] = @ \ {p}] ELSE stray
    BY DEF Settled
<1>2. push' \in [Tabs -> Payments \cup {None}] /\ stray' \in [Customers -> SUBSET Payments]
    BY <1>1 DEF ShopOK
<1>3. /\ push'[t] = IF push[t] = p THEN None ELSE push[t]
      /\ \A u \in Tabs : u # t => push'[u] = push[u]
      /\ \A u \in Customers : stray'[u] = IF u = t THEN stray[u] \ {p} ELSE stray[u]
    BY <1>1 DEF ShopOK
<1> QED
    BY <1>2, <1>3 DEF Awaited

LEMMA PushAnsweredStep ==
    ASSUME PortalIInv, NEW t \in Tabs, NEW p \in Payments, PushAnswered(t, p)
    PROVE  PortalIInv'
<1>1. /\ p \in Awaited(t) /\ pay[p].reply = "ok" /\ Settled(t, p)
      /\ dialog' = [dialog EXCEPT ![t] = "none"]
      /\ polled' = [polled EXCEPT ![t] = p] /\ shown' = [shown EXCEPT ![t] = NoStatus]
      /\ fetch' = [fetch EXCEPT ![t] = NewFetch] /\ late' = [late EXCEPT ![t] = FALSE]
      /\ screen' = [screen EXCEPT ![t] = IF t \in Guests THEN @ ELSE "status"]
      /\ dropped' = dropped \cup ({polled[t]} \ {None})
      /\ UNCHANGED <<backVars, reloads, list, chosen, guestVars>>
    BY DEF PushAnswered, PollStarts
<1>2. BackOK' /\ CodesOK' /\ NoneOut /\ pay' = pay
    BY <1>1, TabsOnly DEF backVars
<1>3. ShopOK'
    BY <1>1, SettledKeeps DEF PortalIInv, ShopOK
<1>4. WaitOK'
    <2>1. Started(pay[p]) /\ p # None
        BY <1>1, PortalConstants DEF PortalIInv, BackOK, RowOK, Codes
    <2>2. NewFetch \in Fetches /\ NewFetch[1] = "sent"
        BY DEF NewFetch, Fetches
    <2>3. /\ polled' \in [Tabs -> Payments \cup {None}]
          /\ shown' \in [Tabs -> Status \cup {NoStatus}]
          /\ fetch' \in [Tabs -> Fetches] /\ late' \in [Tabs -> BOOLEAN]
        BY <1>1, <2>2 DEF PortalIInv, WaitOK
    <2>4. /\ polled'[t] = p /\ fetch'[t] = NewFetch
          /\ \A u \in Tabs : u # t => polled'[u] = polled[u] /\ fetch'[u] = fetch[u]
        BY <1>1 DEF PortalIInv, WaitOK
    <2> QED
        BY <1>2, <2>1, <2>2, <2>3, <2>4 DEF PortalIInv, WaitOK
<1>5. PromptsOK'
    <2>1. dropped \subseteq dropped' /\ dropped' \subseteq Payments
        BY <1>1 DEF PortalIInv, PromptsOK, WaitOK
    <2>2. polled'[t] = p /\ \A u \in Tabs : u # t => polled'[u] = polled[u]
        BY <1>1 DEF PortalIInv, WaitOK
    <2>3. ASSUME NEW u \in Tabs, NEW q \in Payments \ dropped',
                 q \in Awaited(u) \/ polled[u] = q, q \notin Awaited(u)'
          PROVE  polled'[u] = q
        <3>1. CASE u # t
            BY <1>1, <2>2, <2>3, <3>1, SettledKeeps DEF PortalIInv
        <3>2. CASE u = t
            <4>1. polled[t] # q
                BY <1>1, PortalConstants DEF Codes
            <4>2. q = p
                BY <1>1, <2>3, <3>2, <4>1, SettledKeeps DEF PortalIInv
            <4> QED
                BY <2>2, <3>2, <4>2
        <3> QED
            BY <3>1, <3>2
    <2> QED
        BY <1>2, <2>1, <2>3, PromptsMove DEF PortalIInv
<1> QED
    BY <1>2, <1>3, <1>4, <1>5 DEF PortalIInv

LEMMA PushRefusedStep ==
    ASSUME PortalIInv, NEW t \in Tabs, NEW p \in Payments, PushRefused(t, p) \/ PushLost(t, p)
    PROVE  PortalIInv'
<1>1. /\ p \in Awaited(t) /\ Settled(t, p)
      /\ UNCHANGED <<backVars, reloads, screen, list, dialog, chosen, pollVars, guestVars>>
      /\ \/ pay[p].reply = "error" /\ dropped' = dropped
         \/ dropped' = dropped \cup {p}
    BY DEF PushRefused, PushLost
<1>2. BackOK' /\ CodesOK' /\ WaitOK' /\ NoneOut /\ pay' = pay
    BY <1>1, TabsOnly DEF backVars
<1>3. ShopOK'
    BY <1>1, SettledKeeps DEF PortalIInv, ShopOK
<1>4. PromptsOK'
    <2>1. dropped \subseteq dropped' /\ dropped' \subseteq Payments /\ polled' = polled
        BY <1>1 DEF PortalIInv, PromptsOK, pollVars
    <2>2. p \in dropped' \/ ~Out(pay'[p])
        BY <1>1, <1>2 DEF PortalIInv, BackOK, RowOK, Out
    <2>3. ASSUME NEW u \in Tabs, NEW q \in Payments \ dropped', Out(pay'[q]), q \in Awaited(u)
          PROVE  q \in Awaited(u)'
        BY <1>1, <2>2, <2>3, SettledKeeps DEF PortalIInv
    <2> QED
        BY <1>2, <2>1, <2>3, PromptsMove DEF PortalIInv
<1> QED
    BY <1>2, <1>3, <1>4 DEF PortalIInv

\* A status request is sent, or comes to nothing.
LEMMA FetchStep ==
    ASSUME PortalIInv, NEW t \in Tabs,
           Poll(t) \/ VerifyStatus(t) \/ Refocus(t) \/ StatusFails(t)
    PROVE  PortalIInv'
<1>1. /\ UNCHANGED <<backVars, reloads, screen, shopVars, polled, shown, late, guestVars, dropped>>
      /\ \/ fetch' = [fetch EXCEPT ![t] = NoFetch]
         \/ fetch' = [fetch EXCEPT ![t] = NewFetch] /\ polled[t] # None
    BY DEF Poll, VerifyStatus, Refocus, StatusFails, PollWanted, Waiting, Waits, PortalWaits,
           CustomerWaits
<1>2. BackOK' /\ CodesOK' /\ ShopOK' /\ PromptsOK' /\ pay' = pay
    BY <1>1, TabsOnly DEF backVars, shopVars
<1>3. WaitOK'
    <2>1. /\ NewFetch \in Fetches /\ NewFetch[1] = "sent"
          /\ NoFetch \in Fetches /\ NoFetch[1] = "none"
        BY DEF NewFetch, NoFetch, Fetches
    <2>2. fetch' \in [Tabs -> Fetches]
        BY <1>1, <2>1 DEF PortalIInv, WaitOK
    <2>3. /\ fetch'[t] = NoFetch \/ (fetch'[t] = NewFetch /\ polled[t] # None)
          /\ \A u \in Tabs : u # t => fetch'[u] = fetch[u]
        BY <1>1 DEF PortalIInv, WaitOK
    <2> QED
        BY <1>1, <1>2, <2>1, <2>2, <2>3 DEF PortalIInv, WaitOK
<1> QED
    BY <1>2, <1>3 DEF PortalIInv

LEMMA ServeStatusStep ==
    ASSUME PortalIInv, NEW t \in Tabs, ServeStatus(t)
    PROVE  PortalIInv'
<1> DEFINE r == pay[polled[t]]
           f == <<"read", [st |-> r.st, coded |-> r.coded]>>
<1>1. /\ fetch[t] = NewFetch /\ fetch' = [fetch EXCEPT ![t] = f]
      /\ UNCHANGED <<backVars, reloads, screen, shopVars, polled, shown, late, guestVars, dropped>>
    BY DEF ServeStatus
<1>2. BackOK' /\ CodesOK' /\ ShopOK' /\ PromptsOK' /\ pay' = pay
    BY <1>1, TabsOnly DEF backVars, shopVars
<1>3. NewFetch # NoFetch
    BY DEF NewFetch, NoFetch
<1>4. polled[t] \in Payments /\ polled[t] # None /\ Started(r) /\ r \in PayRows /\ RowOK(r)
    BY <1>1, <1>3 DEF PortalIInv, WaitOK, BackOK
<1> HIDE DEF r
<1>5. [st |-> r.st, coded |-> r.coded] \in Status
    BY <1>4 DEF Started, PayRows, Status
<1>6. f \in Fetches /\ f[1] = "read" /\ f[2].coded = r.coded
    BY <1>5 DEF Fetches
<1> HIDE DEF f
<1>7. /\ fetch' \in [Tabs -> Fetches] /\ fetch'[t] = f
      /\ \A u \in Tabs : u # t => fetch'[u] = fetch[u]
    BY <1>1, <1>6 DEF PortalIInv, WaitOK
<1>8. r.coded => Paid(r)
    BY <1>4 DEF RowOK, Paid
<1>9. WaitOK'
    BY <1>1, <1>2, <1>4, <1>6, <1>7, <1>8 DEF PortalIInv, WaitOK, r
<1> QED
    BY <1>2, <1>9 DEF PortalIInv

\* A code is handed to a timer only if the answer carries one.
LEMMA StatusArrivesStep ==
    ASSUME PortalIInv, NEW t \in Tabs, StatusArrives(t)
    PROVE  PortalIInv'
<1> DEFINE s == fetch[t][2]
<1>1. /\ fetch[t][1] = "read"
      /\ shown' = [shown EXCEPT ![t] = s] /\ fetch' = [fetch EXCEPT ![t] = NoFetch]
      /\ timers' = IF Redeems(t, s) THEN [timers EXCEPT ![t] = @ \cup {polled[t]}] ELSE timers
      /\ UNCHANGED <<backVars, reloads, screen, shopVars, polled, late, trial, saved, offered,
                     ticketVars, dropped>>
    BY DEF StatusArrives
<1>2. BackOK' /\ ShopOK' /\ PromptsOK' /\ pay' = pay
    BY <1>1, TabsOnly DEF backVars, shopVars
<1>3. fetch[t] \in Fetches /\ fetch[t] # NoFetch
    BY <1>1 DEF PortalIInv, WaitOK, NoFetch
<1>4. s \in Status
    BY <1>1, <1>3 DEF Fetches
<1>5. polled[t] \in Payments /\ (s.coded => Paid(pay[polled[t]]))
    BY <1>1, <1>3 DEF PortalIInv, WaitOK
<1> HIDE DEF s
<1>6. WaitOK'
    <2>1. NoFetch \in Fetches /\ NoFetch[1] = "none"
        BY DEF NoFetch, Fetches
    <2>2. /\ fetch' \in [Tabs -> Fetches] /\ fetch'[t] = NoFetch
          /\ \A u \in Tabs : u # t => fetch'[u] = fetch[u]
          /\ shown' \in [Tabs -> Status \cup {NoStatus}]
        BY <1>1, <1>4, <2>1 DEF PortalIInv, WaitOK
    <2> QED
        BY <1>1, <1>2, <2>1, <2>2 DEF PortalIInv, WaitOK
<1>7. CodesOK'
    <2>1. UNCHANGED <<trial, saved, offered, code, auto, login>>
        BY <1>1 DEF ticketVars
    <2>2. CASE Redeems(t, s)
        <3>1. t \in Guests /\ Paid(pay[polled[t]])
            BY <1>5, <2>2 DEF Redeems, PortalWaits
        <3>2. /\ timers' \in [Guests -> SUBSET Payments]
              /\ timers'[t] = timers[t] \cup {polled[t]}
              /\ \A u \in Guests : u # t => timers'[u] = timers[u]
            BY <1>1, <1>5, <2>2, <3>1 DEF PortalIInv, CodesOK
        <3>3. \A u \in Guests : \A p \in timers'[u] : Paid(pay[p])
            BY <3>1, <3>2 DEF PortalIInv, CodesOK
        <3> QED
            BY <1>2, <2>1, <3>2, <3>3 DEF PortalIInv, CodesOK
    <2>3. CASE ~Redeems(t, s)
        BY <1>1, <1>2, <2>1, <2>3 DEF PortalIInv, CodesOK
    <2> QED
        BY <2>2, <2>3
<1> QED
    BY <1>2, <1>6, <1>7 DEF PortalIInv

LEMMA TimesOutStep ==
    ASSUME PortalIInv, NEW t \in Guests, TimesOut(t)
    PROVE  PortalIInv'
<1>1. /\ late' = [late EXCEPT ![t] = TRUE]
      /\ UNCHANGED <<backVars, reloads, screen, shopVars, polled, shown, fetch, guestVars, dropped>>
    BY DEF TimesOut
<1>2. BackOK' /\ CodesOK' /\ ShopOK' /\ PromptsOK' /\ pay' = pay
    BY <1>1, TabsOnly DEF backVars, shopVars
<1>3. late' \in [Tabs -> BOOLEAN]
    BY <1>1 DEF PortalIInv, WaitOK
<1>4. WaitOK'
    BY <1>1, <1>2, <1>3 DEF PortalIInv, WaitOK
<1> QED
    BY <1>2, <1>4 DEF PortalIInv

-----------------------------------------------------------------------------
(* The free trial.                                                         *)

LEMMA ActivateTrialStep ==
    ASSUME PortalIInv, NEW t \in Guests, HandleActivateTrial(t)
    PROVE  PortalIInv'
<1> DEFINE n == asked + 1
<1>1. /\ Ask(TRUE, None) /\ trial' = [trial EXCEPT ![t] = n]
      /\ UNCHANGED <<active, reloads, screen, shopVars, pollVars, timers, saved, offered,
                     ticketVars, dropped>>
    BY DEF HandleActivateTrial
<1>2. /\ BackOK' /\ Grows /\ n \in Payments /\ pay'[n].trial = TRUE
      /\ \A p \in Payments : p # n => pay'[p] = pay[p]
    BY <1>1, AskStep
<1> HIDE DEF n
<1>3. ShopOK' /\ WaitOK'
    BY <1>1, <1>2, ShopFrame, WaitFrame DEF PortalIInv
<1>4. NoneOut
    BY <1>2 DEF NoneOut, Out
<1>5. PromptsOK'
    BY <1>1, <1>4, PromptsFrame DEF PortalIInv, shopVars, pollVars
<1>6. CodesOK'
    <2>1. UNCHANGED <<timers, saved, offered, code, auto, login>>
        BY <1>1 DEF ticketVars
    <2>2. /\ trial' \in [Guests -> Payments \cup {None}] /\ trial'[t] = n
          /\ \A u \in Guests : u # t => trial'[u] = trial[u]
        BY <1>1, <1>2 DEF PortalIInv, CodesOK
    <2>3. \A u \in Guests : trial'[u] # None => pay'[trial'[u]].trial
        BY <1>2, <2>2 DEF PortalIInv, CodesOK, Grows
    <2>4. /\ \A u \in Guests : \A p \in timers[u] : Paid(pay'[p])
          /\ \A u \in Guests : saved[u] \in Payments => Paid(pay'[saved[u]])
          /\ \A u \in Guests : offered[u] \in Payments => Paid(pay'[offered[u]])
          /\ \A u \in Guests : code[u] \in Payments => Paid(pay'[code[u]])
        BY <1>2 DEF PortalIInv, CodesOK, Grows
    <2> QED
        BY <2>1, <2>2, <2>3, <2>4 DEF PortalIInv, CodesOK
<1> QED
    BY <1>2, <1>3, <1>5, <1>6 DEF PortalIInv

LEMMA TrialAnsweredStep ==
    ASSUME PortalIInv, NEW t \in Guests, TrialAnswered(t)
    PROVE  PortalIInv'
<1> DEFINE p == trial[t]
<1>1. /\ p # None /\ pay[p].reply = "ok"
      /\ trial' = [trial EXCEPT ![t] = None] /\ saved' = [saved EXCEPT ![t] = p]
      /\ timers' = [timers EXCEPT ![t] = @ \cup {p}]
      /\ dialog' = [dialog EXCEPT ![t] = IF @ = "trial" THEN "none" ELSE @]
      /\ UNCHANGED <<backVars, reloads, screen, list, chosen, push, stray, pollVars, offered,
                     ticketVars, dropped>>
    BY DEF TrialAnswered
<1>2. BackOK' /\ WaitOK' /\ PromptsOK' /\ pay' = pay
    BY <1>1, TabsOnly DEF backVars, pollVars
<1>3. p \in Payments /\ Paid(pay[p]) /\ p \in Codes
    BY <1>1 DEF PortalIInv, CodesOK, BackOK, RowOK, Paid, Codes
<1>4. ShopOK'
    BY <1>1 DEF PortalIInv, ShopOK
<1> HIDE DEF p
<1>5. /\ trial' \in [Guests -> Payments \cup {None}] /\ timers' \in [Guests -> SUBSET Payments]
      /\ saved' \in [Guests -> Codes \cup {None}]
      /\ UNCHANGED <<offered, code, auto, login>>
    BY <1>1, <1>3 DEF PortalIInv, CodesOK, ticketVars
<1>6. /\ trial'[t] = None /\ timers'[t] = timers[t] \cup {p} /\ saved'[t] = p
      /\ \A u \in Guests : u # t => trial'[u] = trial[u] /\ timers'[u] = timers[u] /\ saved'[u] = saved[u]
    BY <1>1 DEF PortalIInv, CodesOK
<1>7. \A u \in Guests : \A q \in timers'[u] : Paid(pay[q])
    BY <1>3, <1>6 DEF PortalIInv, CodesOK
<1>8. CodesOK'
    BY <1>2, <1>3, <1>5, <1>6, <1>7 DEF PortalIInv, CodesOK
<1> QED
    BY <1>2, <1>4, <1>8 DEF PortalIInv

LEMMA TrialFailsStep ==
    ASSUME PortalIInv, NEW t \in Guests, TrialFails(t)
    PROVE  PortalIInv'
<1>1. /\ trial' = [trial EXCEPT ![t] = None]
      /\ UNCHANGED <<backVars, reloads, screen, shopVars, pollVars, timers, saved, offered,
                     ticketVars, dropped>>
    BY DEF TrialFails
<1>2. BackOK' /\ ShopOK' /\ WaitOK' /\ PromptsOK' /\ pay' = pay
    BY <1>1, TabsOnly DEF backVars, pollVars, shopVars
<1>3. /\ trial' \in [Guests -> Payments \cup {None}] /\ trial'[t] = None
      /\ \A u \in Guests : u # t => trial'[u] = trial[u]
    BY <1>1 DEF PortalIInv, CodesOK
<1>4. CodesOK'
    BY <1>1, <1>2, <1>3 DEF PortalIInv, CodesOK, ticketVars
<1> QED
    BY <1>2, <1>4 DEF PortalIInv

-----------------------------------------------------------------------------
(* The ticket, and pages that go.                                          *)

\* A tab stops asking.
LEMMA WaitCleared ==
    ASSUME WaitOK, pay' = pay, NEW t \in Tabs,
           polled' = [polled EXCEPT ![t] = None], shown' = [shown EXCEPT ![t] = NoStatus],
           fetch' = [fetch EXCEPT ![t] = NoFetch], late' \in [Tabs -> BOOLEAN]
    PROVE  WaitOK'
<1>1. NoFetch \in Fetches /\ NoFetch[1] = "none"
    BY DEF NoFetch, Fetches
<1>2. /\ polled' \in [Tabs -> Payments \cup {None}]
      /\ shown' \in [Tabs -> Status \cup {NoStatus}]
      /\ fetch' \in [Tabs -> Fetches]
    BY <1>1 DEF WaitOK
<1>3. /\ polled'[t] = None /\ fetch'[t] = NoFetch
      /\ \A u \in Tabs : u # t => polled'[u] = polled[u] /\ fetch'[u] = fetch[u]
    BY DEF WaitOK
<1> QED
    BY <1>1, <1>2, <1>3 DEF WaitOK

\* A portal that forgets its push and its wait has both on record.
LEMMA PromptsCleared ==
    ASSUME PortalIInv, pay' = pay, NEW t \in Guests,
           push' = [push EXCEPT ![t] = None], polled' = [polled EXCEPT ![t] = None],
           stray' = stray, dropped' = dropped \cup ({push[t], polled[t]} \ {None})
    PROVE  PromptsOK'
<1>1. t \in Tabs /\ t \notin Customers /\ None \notin Payments
    BY PortalConstants DEF Tabs, Codes
<1>2. dropped \subseteq dropped' /\ dropped' \subseteq Payments
    BY <1>1 DEF PortalIInv, PromptsOK, WaitOK, ShopOK
<1>3. \A u \in Tabs : u # t => push'[u] = push[u] /\ polled'[u] = polled[u]
    BY DEF PortalIInv, WaitOK, ShopOK
<1>4. ASSUME NEW u \in Tabs, NEW q \in Payments \ dropped', q \in Awaited(u) \/ polled[u] = q
      PROVE  q \in Awaited(u)' \/ polled'[u] = q
    <2>1. u # t
        BY <1>1, <1>4 DEF Awaited
    <2> QED
        BY <1>3, <1>4, <2>1 DEF Awaited
<1>5. NoneOut
    BY SamePay
<1> QED
    BY <1>2, <1>4, <1>5, PromptsMove DEF PortalIInv

\* The ticket appears with a code that was typed in or issued.
LEMMA ShowTicketStep ==
    ASSUME PortalIInv, NEW t \in Guests, NEW c \in Codes, c \in Payments => Paid(pay[c]),
           ShowTicket(t, c), UNCHANGED <<backVars, reloads, list, stray, trial, offered, login>>,
           timers' \in [Guests -> SUBSET Payments],
           \A u \in Guests : timers'[u] \subseteq timers[u],
           saved' = saved \/ saved' = [saved EXCEPT ![t] = c]
    PROVE  PortalIInv'
<1>1. /\ code' = [code EXCEPT ![t] = c]
      /\ auto' = IF screen[t] = "ticket" \/ login[t] = "absent" THEN auto
                 ELSE [auto EXCEPT ![t] = c]
      /\ screen' = [screen EXCEPT ![t] = "ticket"]
      /\ push' = [push EXCEPT ![t] = None] /\ dialog' = [dialog EXCEPT ![t] = "none"]
      /\ chosen' = [chosen EXCEPT ![t] = None]
      /\ polled' = [polled EXCEPT ![t] = None] /\ shown' = [shown EXCEPT ![t] = NoStatus]
      /\ fetch' = [fetch EXCEPT ![t] = NoFetch] /\ late' = [late EXCEPT ![t] = FALSE]
      /\ dropped' = dropped \cup ({push[t], polled[t]} \ {None})
    BY DEF ShowTicket
<1>2. BackOK' /\ pay' = pay /\ t \in Tabs
    BY TabsOnly DEF backVars, Tabs
<1>3. ShopOK'
    BY <1>1 DEF PortalIInv, ShopOK
<1>4. late' \in [Tabs -> BOOLEAN]
    BY <1>1 DEF PortalIInv, WaitOK
<1>5. WaitOK'
    BY <1>1, <1>2, <1>4, WaitCleared DEF PortalIInv
<1>6. PromptsOK'
    BY <1>1, <1>2, PromptsCleared
<1>7. CodesOK'
    <2>1. /\ code' \in [Guests -> Codes \cup {None}] /\ code'[t] = c
          /\ \A u \in Guests : u # t => code'[u] = code[u]
        BY <1>1 DEF PortalIInv, CodesOK
    <2>2. auto' \in [Guests -> Codes \cup {None}]
        BY <1>1 DEF PortalIInv, CodesOK
    <2>3. /\ saved' \in [Guests -> Codes \cup {None}]
          /\ \A u \in Guests : saved'[u] = saved[u] \/ saved'[u] = c
        BY DEF PortalIInv, CodesOK
    <2>4. \A u \in Guests : \A p \in timers'[u] : Paid(pay[p])
        BY DEF PortalIInv, CodesOK
    <2>5. \A u \in Guests : saved'[u] \in Payments => Paid(pay[saved'[u]])
        BY <2>3 DEF PortalIInv, CodesOK
    <2>6. \A u \in Guests : code'[u] \in Payments => Paid(pay[code'[u]])
        BY <2>1 DEF PortalIInv, CodesOK
    <2> QED
        BY <1>2, <2>1, <2>2, <2>3, <2>4, <2>5, <2>6 DEF PortalIInv, CodesOK
<1> QED
    BY <1>2, <1>3, <1>5, <1>6, <1>7 DEF PortalIInv

LEMMA TimerFiresStep ==
    ASSUME PortalIInv, NEW t \in Guests, NEW p \in Payments, TimerFires(t, p)
    PROVE  PortalIInv'
<1>1. /\ p \in timers[t] /\ ShowTicket(t, p)
      /\ saved' = saved \/ saved' = [saved EXCEPT ![t] = p]
      /\ UNCHANGED <<backVars, reloads, list, stray, trial, offered, login>>
    BY DEF TimerFires
<1>2. PICK again \in {Waits(t) /\ ~pay[p].trial, FALSE} :
        timers' = [timers EXCEPT ![t] = IF again THEN @ ELSE @ \ {p}]
    BY DEF TimerFires
<1>3. /\ timers' \in [Guests -> SUBSET Payments]
      /\ \A u \in Guests : timers'[u] \subseteq timers[u]
    BY <1>2 DEF PortalIInv, CodesOK
<1>4. p \in Codes /\ Paid(pay[p])
    BY <1>1 DEF PortalIInv, CodesOK, Codes
<1> QED
    BY <1>1, <1>3, <1>4, ShowTicketStep

LEMMA ReconnectStep ==
    ASSUME PortalIInv, NEW t \in Guests, Reconnect(t)
    PROVE  PortalIInv'
<1>1. /\ offered[t] # None /\ ShowTicket(t, offered[t])
      /\ UNCHANGED <<backVars, reloads, list, stray, trial, timers, saved, offered, login>>
    BY DEF Reconnect
<1>2. offered[t] \in Codes /\ (offered[t] \in Payments => Paid(pay[offered[t]]))
    BY <1>1 DEF PortalIInv, CodesOK
<1>3. /\ timers' \in [Guests -> SUBSET Payments]
      /\ \A u \in Guests : timers'[u] \subseteq timers[u]
    BY <1>1 DEF PortalIInv, CodesOK
<1> QED
    BY <1>1, <1>2, <1>3, ShowTicketStep

LEMMA UseExistingVoucherStep ==
    ASSUME PortalIInv, NEW t \in Guests, UseExistingVoucher(t)
    PROVE  PortalIInv'
<1>1. /\ ShowTicket(t, Typed) /\ saved' = [saved EXCEPT ![t] = Typed]
      /\ UNCHANGED <<backVars, reloads, list, stray, trial, timers, offered, login>>
    BY DEF UseExistingVoucher
<1>2. Typed \in Codes /\ (Typed \in Payments => Paid(pay[Typed]))
    BY PortalConstants DEF Codes
<1>3. /\ timers' \in [Guests -> SUBSET Payments]
      /\ \A u \in Guests : timers'[u] \subseteq timers[u]
    BY <1>1 DEF PortalIInv, CodesOK
<1> QED
    BY <1>1, <1>2, <1>3, ShowTicketStep

LEMMA ClearSavedStep ==
    ASSUME PortalIInv, NEW t \in Guests, HandleClearSavedVoucher(t)
    PROVE  PortalIInv'
<1>1. /\ saved' = [saved EXCEPT ![t] = None] /\ offered' = [offered EXCEPT ![t] = None]
      /\ UNCHANGED <<backVars, reloads, screen, shopVars, pollVars, trial, timers, ticketVars,
                     dropped>>
    BY DEF HandleClearSavedVoucher
<1>2. BackOK' /\ ShopOK' /\ WaitOK' /\ PromptsOK' /\ pay' = pay
    BY <1>1, TabsOnly DEF backVars, pollVars, shopVars
<1>3. None \notin Payments
    BY PortalConstants DEF Codes
<1>4. /\ saved' \in [Guests -> Codes \cup {None}] /\ offered' \in [Guests -> Codes \cup {None}]
      /\ saved'[t] = None /\ offered'[t] = None
      /\ \A u \in Guests : u # t => saved'[u] = saved[u] /\ offered'[u] = offered[u]
    BY <1>1 DEF PortalIInv, CodesOK
<1>5. CodesOK'
    BY <1>1, <1>2, <1>3, <1>4 DEF PortalIInv, CodesOK, ticketVars
<1> QED
    BY <1>2, <1>5 DEF PortalIInv

LEMMA LoginStep ==
    ASSUME PortalIInv, NEW t \in Guests, PerformLogin(t) \/ AutoLogin(t) \/ LoginEnds(t)
    PROVE  PortalIInv'
<1>1. /\ login' \in [Guests -> {"absent", "idle", "sending", "online"}]
      /\ auto' \in [Guests -> Codes \cup {None}]
      /\ UNCHANGED <<backVars, reloads, screen, shopVars, pollVars, trial, timers, saved, offered,
                     code, dropped>>
    BY DEF PerformLogin, AutoLogin, LoginEnds, PortalIInv, CodesOK
<1>2. BackOK' /\ ShopOK' /\ WaitOK' /\ PromptsOK' /\ pay' = pay
    BY <1>1, TabsOnly DEF backVars, pollVars, shopVars
<1>3. CodesOK'
    BY <1>1, <1>2 DEF PortalIInv, CodesOK
<1> QED
    BY <1>2, <1>3 DEF PortalIInv

LEMMA ReloadPortalStep ==
    ASSUME PortalIInv, NEW t \in Guests, ReloadPortal(t)
    PROVE  PortalIInv'
<1>1. /\ reloads < MaxReloads /\ reloads' = reloads + 1
      /\ screen' = [screen EXCEPT ![t] = "shop"] /\ list' = [list EXCEPT ![t] = None]
      /\ dialog' = [dialog EXCEPT ![t] = "none"] /\ chosen' = [chosen EXCEPT ![t] = None]
      /\ push' = [push EXCEPT ![t] = None] /\ polled' = [polled EXCEPT ![t] = None]
      /\ shown' = [shown EXCEPT ![t] = NoStatus] /\ fetch' = [fetch EXCEPT ![t] = NoFetch]
      /\ late' = [late EXCEPT ![t] = FALSE]
      /\ dropped' = dropped \cup ({push[t], polled[t]} \ {None})
      /\ UNCHANGED <<backVars, stray, saved>>
    BY DEF ReloadPortal
<1>2. /\ trial' = [trial EXCEPT ![t] = None] /\ timers' = [timers EXCEPT ![t] = {}]
      /\ offered' = [offered EXCEPT ![t] = saved[t]]
      /\ code' = [code EXCEPT ![t] = None] /\ auto' = [auto EXCEPT ![t] = None]
      /\ login' = [login EXCEPT ![t] = IF @ = "absent" THEN @ ELSE "idle"]
    BY DEF ReloadPortal
<1>3. t \in Tabs /\ None \notin Payments /\ pay' = pay
    BY <1>1, PortalConstants DEF Tabs, Codes, backVars
<1>4. reloads' \in 0 .. MaxReloads
    BY <1>1, PortalConstants DEF PortalIInv, BackOK
<1>5. BackOK'
    BY <1>1, <1>4 DEF PortalIInv, BackOK, OverlapOK, backVars
<1>6. ShopOK'
    BY <1>1 DEF PortalIInv, ShopOK
<1>7. late' \in [Tabs -> BOOLEAN]
    BY <1>1 DEF PortalIInv, WaitOK
<1>8. WaitOK'
    BY <1>1, <1>3, <1>7, WaitCleared DEF PortalIInv
<1>9. PromptsOK'
    BY <1>1, <1>3, PromptsCleared
<1>10. CodesOK'
    <2>1. /\ trial' \in [Guests -> Payments \cup {None}] /\ timers' \in [Guests -> SUBSET Payments]
          /\ saved' \in [Guests -> Codes \cup {None}] /\ offered' \in [Guests -> Codes \cup {None}]
          /\ code' \in [Guests -> Codes \cup {None}] /\ auto' \in [Guests -> Codes \cup {None}]
          /\ login' \in [Guests -> {"absent", "idle", "sending", "online"}]
        BY <1>1, <1>2 DEF PortalIInv, CodesOK
    <2>2. /\ trial'[t] = None /\ timers'[t] = {} /\ code'[t] = None /\ offered'[t] = saved[t]
          /\ \A u \in Guests : u # t => /\ trial'[u] = trial[u] /\ timers'[u] = timers[u]
                                        /\ code'[u] = code[u] /\ offered'[u] = offered[u]
        BY <1>2 DEF PortalIInv, CodesOK
    <2>3. \A u \in Guests : trial'[u] # None => pay[trial'[u]].trial
        BY <2>2 DEF PortalIInv, CodesOK
    <2>4. \A u \in Guests : \A p \in timers'[u] : Paid(pay[p])
        BY <2>2 DEF PortalIInv, CodesOK
    <2>5. \A u \in Guests : offered'[u] \in Payments => Paid(pay[offered'[u]])
        BY <2>2 DEF PortalIInv, CodesOK
    <2>6. \A u \in Guests : code'[u] \in Payments => Paid(pay[code'[u]])
        BY <1>3, <2>2 DEF PortalIInv, CodesOK
    <2>7. \A u \in Guests : saved'[u] \in Payments => Paid(pay[saved'[u]])
        BY <1>1 DEF PortalIInv, CodesOK
    <2> QED
        BY <1>3, <2>1, <2>3, <2>4, <2>5, <2>6, <2>7 DEF CodesOK
<1> QED
    BY <1>5, <1>6, <1>8, <1>9, <1>10 DEF PortalIInv

\* A customer who leaves the page still waits for the push, which navigates.
LEMMA GoDashboardStep ==
    ASSUME PortalIInv, NEW t \in Customers, GoDashboard(t)
    PROVE  PortalIInv'
<1>1. /\ screen' = [screen EXCEPT ![t] = "dashboard"]
      /\ stray' = [stray EXCEPT ![t] = @ \cup ({push[t]} \ {None})]
      /\ push' = [push EXCEPT ![t] = None] /\ chosen' = [chosen EXCEPT ![t] = None]
      /\ polled' = [polled EXCEPT ![t] = None] /\ shown' = [shown EXCEPT ![t] = NoStatus]
      /\ fetch' = [fetch EXCEPT ![t] = NoFetch]
      /\ dropped' = dropped \cup ({polled[t]} \ {None})
      /\ UNCHANGED <<backVars, reloads, list, dialog, late, guestVars>>
    BY DEF GoDashboard
<1>2. BackOK' /\ CodesOK' /\ NoneOut /\ pay' = pay /\ t \in Tabs /\ None \notin Payments
    BY <1>1, TabsOnly, PortalConstants DEF backVars, Tabs, Codes
<1>3. ShopOK'
    BY <1>1, <1>2 DEF PortalIInv, ShopOK
<1>4. WaitOK'
    <2>1. late' \in [Tabs -> BOOLEAN]
        BY <1>1 DEF PortalIInv, WaitOK
    <2> QED
        BY <1>1, <1>2, <2>1, WaitCleared DEF PortalIInv
<1>5. PromptsOK'
    <2>1. dropped \subseteq dropped' /\ dropped' \subseteq Payments
        BY <1>1, <1>2 DEF PortalIInv, PromptsOK, WaitOK
    <2>2. /\ \A u \in Tabs : u # t => push'[u] = push[u] /\ polled'[u] = polled[u]
          /\ \A u \in Customers : u # t => stray'[u] = stray[u]
          /\ stray'[t] = stray[t] \cup ({push[t]} \ {None})
        BY <1>1 DEF PortalIInv, WaitOK, ShopOK
    <2>3. ASSUME NEW u \in Tabs, NEW q \in Payments \ dropped', q \in Awaited(u) \/ polled[u] = q
          PROVE  q \in Awaited(u)' \/ polled'[u] = q
        <3>1. CASE u # t
            BY <2>2, <2>3, <3>1 DEF Awaited
        <3>2. CASE u = t
            <4>1. q \in Awaited(t)
                BY <1>1, <1>2, <2>3, <3>2
            <4> QED
                BY <2>2, <3>2, <4>1 DEF Awaited
        <3> QED
            BY <3>1, <3>2
    <2> QED
        BY <1>2, <2>1, <2>3, PromptsMove DEF PortalIInv
<1> QED
    BY <1>2, <1>3, <1>4, <1>5 DEF PortalIInv

LEMMA GoShopStep ==
    ASSUME PortalIInv, NEW t \in Customers, GoShop(t)
    PROVE  PortalIInv'
<1>1. /\ screen' = [screen EXCEPT ![t] = "shop"]
      /\ UNCHANGED <<backVars, reloads, shopVars, pollVars, guestVars, dropped>>
    BY DEF GoShop
<1>2. BackOK' /\ CodesOK' /\ WaitOK' /\ PromptsOK'
    BY <1>1, TabsOnly DEF shopVars, pollVars
<1>3. ShopOK'
    BY <1>1 DEF PortalIInv, ShopOK, shopVars
<1> QED
    BY <1>2, <1>3 DEF PortalIInv

-----------------------------------------------------------------------------
LEMMA PortalInit == Init => PortalIInv
<1> SUFFICES ASSUME Init
             PROVE  PortalIInv
    OBVIOUS
<1>1. BackOK
    <2>1. NoPay \in PayRows /\ RowOK(NoPay) /\ ~Counted(NoPay)
        BY DEF NoPay, PayRows, RowOK, Counted
    <2>2. pay = [p \in Payments |-> NoPay] /\ active = Packages /\ asked = 0 /\ reloads = 0
        BY DEF Init
    <2> QED
        BY <2>1, <2>2, PortalConstants DEF BackOK, OverlapOK
<1>2. ShopOK
    BY DEF Init, ShopOK
<1>3. WaitOK
    <2>1. NoFetch \in Fetches /\ NoFetch[1] = "none"
        BY DEF NoFetch, Fetches
    <2> QED
        BY <2>1 DEF Init, WaitOK
<1>4. CodesOK
    BY PortalConstants DEF Init, CodesOK, Codes
<1>5. PromptsOK
    <2>1. ~Out(NoPay)
        BY DEF NoPay, Out
    <2> QED
        BY <2>1 DEF Init, PromptsOK
<1> QED
    BY <1>1, <1>2, <1>3, <1>4, <1>5 DEF PortalIInv

LEMMA PortalStep == PortalIInv /\ [Next]_portalVars => PortalIInv'
<1> SUFFICES ASSUME PortalIInv, [Next]_portalVars
             PROVE  PortalIInv'
    OBVIOUS
<1>1. CASE UNCHANGED portalVars
    BY <1>1, TabsOnly DEF portalVars, shopVars, pollVars, PortalIInv
<1>2. CASE \/ \E p \in Payments : Backend(p)
           \/ \E k \in Packages : HandleDeactivate(k)
    BY <1>2, BackendStep, DeactivateStep
<1>3. ASSUME NEW t \in Tabs,
             \/ PackagesLoaded(t) \/ CloseDialog(t) \/ HandlePay(t) \/ HandleConfirmPayment(t)
             \/ \E k \in Packages : PickPackage(t, k) \/ HandleBuyClick(t, k)
             \/ \E p \in Payments : PushAnswered(t, p) \/ PushRefused(t, p) \/ PushLost(t, p)
             \/ Poll(t) \/ ServeStatus(t) \/ StatusArrives(t) \/ StatusFails(t) \/ Refocus(t)
      PROVE  PortalIInv'
    BY <1>3, PackagesLoadedStep, DialogStep, SendPushStep, PushAnsweredStep, PushRefusedStep,
       FetchStep, ServeStatusStep, StatusArrivesStep
<1>4. ASSUME NEW t \in Guests,
             \/ VerifyStatus(t) \/ TimesOut(t)
             \/ OpenTrial(t) \/ HandleActivateTrial(t) \/ TrialAnswered(t) \/ TrialFails(t)
             \/ \E p \in Payments : TimerFires(t, p)
             \/ Reconnect(t) \/ HandleClearSavedVoucher(t) \/ UseExistingVoucher(t)
             \/ PerformLogin(t) \/ AutoLogin(t) \/ LoginEnds(t) \/ ReloadPortal(t)
      PROVE  PortalIInv'
    <2>1. t \in Tabs
        BY DEF Tabs
    <2> QED
        BY <1>4, <2>1, FetchStep, DialogStep, TimesOutStep, ActivateTrialStep,
           TrialAnsweredStep, TrialFailsStep, TimerFiresStep, ReconnectStep, ClearSavedStep,
           UseExistingVoucherStep, LoginStep, ReloadPortalStep
<1>5. CASE \E t \in Customers : GoDashboard(t) \/ GoShop(t)
    BY <1>5, GoDashboardStep, GoShopStep
<1> QED
    BY <1>1, <1>2, <1>3, <1>4, <1>5 DEF Next

-----------------------------------------------------------------------------
(* Where the payments are shown.                                           *)

\* A step that changes nothing of what the tabs show.
LEMMA ScreensSame ==
    ASSUME ScreensOK, active' \subseteq active,
           UNCHANGED <<screen, list, dialog, chosen, push, polled>>
    PROVE  ScreensOK'
BY DEF ScreensOK, ScreenOK, Paying

\* A step of one tab.
LEMMA ScreensOne ==
    ASSUME ScreensOK, NEW t \in Tabs, active' = active, ScreenOK(t)',
           \A u \in Tabs : u # t =>
              /\ screen'[u] = screen[u] /\ list'[u] = list[u] /\ dialog'[u] = dialog[u]
              /\ chosen'[u] = chosen[u] /\ push'[u] = push[u] /\ polled'[u] = polled[u]
    PROVE  ScreensOK'
<1> SUFFICES ASSUME NEW u \in Tabs, u # t
             PROVE  ScreenOK(u)'
    BY DEF ScreensOK
<1>1. /\ screen'[u] = screen[u] /\ list'[u] = list[u] /\ dialog'[u] = dialog[u]
      /\ chosen'[u] = chosen[u] /\ push'[u] = push[u] /\ polled'[u] = polled[u]
    OBVIOUS
<1>2. ScreenOK(u)
    BY DEF ScreensOK
<1> QED
    BY <1>1, <1>2 DEF ScreenOK, Paying

\* The functions that say what the tabs show.
LEMMA ScreenTypes ==
    ASSUME PortalIInv
    PROVE  /\ screen \in [Tabs -> {"closed", "shop", "ticket", "status", "dashboard"}]
           /\ list \in [Tabs -> (SUBSET Packages) \cup {None}]
           /\ dialog \in [Tabs -> {"none", "checkout", "trial"}]
           /\ chosen \in [Tabs -> Packages \cup {None}]
           /\ push \in [Tabs -> Payments \cup {None}]
           /\ polled \in [Tabs -> Payments \cup {None}]
BY DEF PortalIInv, ShopOK, WaitOK

LEMMA TabKinds == \A t \in Tabs : t \in Guests <=> t \notin Customers
BY PortalConstants DEF Tabs

\* The packages and the dialogs.
LEMMA ShopScreens ==
    ASSUME PortalIInv, ScreensOK, NEW t \in Tabs,
           \/ PackagesLoaded(t) \/ CloseDialog(t) \/ OpenTrial(t)
           \/ \E k \in Packages : PickPackage(t, k) \/ HandleBuyClick(t, k)
    PROVE  ScreensOK'
<1>1. ScreenOK(t)
    BY DEF ScreensOK
<1>2. CASE PackagesLoaded(t)
    <2>1. /\ screen[t] = "shop" /\ list' = [list EXCEPT ![t] = active]
          /\ UNCHANGED <<active, screen, dialog, chosen, push, polled>>
        BY <1>2 DEF PackagesLoaded, backVars
    <2>2. active # None
        BY PortalConstants DEF PortalIInv, BackOK
    <2>3. list'[t] = active /\ \A u \in Tabs : u # t => list'[u] = list[u]
        BY <2>1, ScreenTypes
    <2>4. ScreenOK(t)'
        BY <1>1, <2>1, <2>2, <2>3 DEF ScreenOK, Paying
    <2> QED
        BY <2>1, <2>3, <2>4, ScreensOne
<1>3. CASE CloseDialog(t) \/ OpenTrial(t)
    <2>1. /\ UNCHANGED <<active, screen, list, chosen, push, polled>>
          /\ \/ dialog' = [dialog EXCEPT ![t] = "none"]
             \/ dialog' = [dialog EXCEPT ![t] = "trial"]
        BY <1>3 DEF CloseDialog, OpenTrial, backVars, pollVars
    <2>2. dialog'[t] # "checkout" /\ \A u \in Tabs : u # t => dialog'[u] = dialog[u]
        BY <2>1, ScreenTypes
    <2>3. ScreenOK(t)'
        BY <1>1, <2>1, <2>2 DEF ScreenOK, Paying
    <2> QED
        BY <2>1, <2>2, <2>3, ScreensOne
<1>4. CASE \E k \in Packages : PickPackage(t, k) \/ HandleBuyClick(t, k)
    <2>1. PICK k \in Packages : Choose(t, k)
        BY <1>4 DEF PickPackage, HandleBuyClick
    <2>2. /\ UNCHANGED <<active, screen, list, push, polled>>
          /\ screen[t] = "shop" /\ list[t] # None /\ k \in list[t]
          /\ chosen' = [chosen EXCEPT ![t] = k] /\ dialog' = [dialog EXCEPT ![t] = "checkout"]
        BY <2>1 DEF Choose, Shops, backVars, pollVars
    <2>3. /\ chosen'[t] = k
          /\ \A u \in Tabs : u # t => chosen'[u] = chosen[u] /\ dialog'[u] = dialog[u]
        BY <2>2, ScreenTypes
    <2>4. ScreenOK(t)'
        BY <1>1, <2>2, <2>3 DEF ScreenOK, Paying
    <2> QED
        BY <2>2, <2>3, <2>4, ScreensOne
<1> QED
    BY <1>2, <1>3, <1>4

\* A push is sent from the checkout, and its answer starts the wait.
LEMMA PushScreens ==
    ASSUME PortalIInv, ScreensOK, NEW t \in Tabs,
           \/ HandlePay(t) \/ HandleConfirmPayment(t)
           \/ \E p \in Payments : PushAnswered(t, p) \/ PushRefused(t, p) \/ PushLost(t, p)
    PROVE  ScreensOK'
<1>1. ScreenOK(t)
    BY DEF ScreensOK
<1>2. CASE HandlePay(t) \/ HandleConfirmPayment(t)
    <2>1. /\ UNCHANGED <<active, screen, list, dialog, chosen, polled>>
          /\ push' = [push EXCEPT ![t] = asked + 1] /\ dialog[t] = "checkout"
        BY <1>2 DEF HandlePay, HandleConfirmPayment, CheckoutReady, PromptReady, SendPush,
                    pollVars
    <2>2. \A u \in Tabs : u # t => push'[u] = push[u]
        BY <2>1, ScreenTypes
    <2>3. ScreenOK(t)'
        BY <1>1, <2>1 DEF ScreenOK, Paying
    <2> QED
        BY <2>1, <2>2, <2>3, ScreensOne
<1>3. ASSUME NEW p \in Payments, PushAnswered(t, p)
      PROVE  ScreensOK'
    <2>1. /\ p \in Awaited(t)
          /\ push' = [push EXCEPT ![t] = IF @ = p THEN None ELSE @]
          /\ dialog' = [dialog EXCEPT ![t] = "none"] /\ polled' = [polled EXCEPT ![t] = p]
          /\ screen' = [screen EXCEPT ![t] = IF t \in Guests THEN @ ELSE "status"]
          /\ UNCHANGED <<active, list, chosen>>
        BY <1>3 DEF PushAnswered, PollStarts, Settled, backVars
    <2>2. /\ screen'[t] = IF t \in Guests THEN screen[t] ELSE "status"
          /\ \A u \in Tabs : u # t => /\ screen'[u] = screen[u] /\ dialog'[u] = dialog[u]
                                      /\ push'[u] = push[u] /\ polled'[u] = polled[u]
        BY <2>1, ScreenTypes
    <2>3. t \in Guests => Paying(t)
        BY <2>1, TabKinds DEF Awaited, Paying
    <2>4. ScreenOK(t)'
        BY <1>1, <2>1, <2>2, <2>3, TabKinds DEF ScreenOK
    <2> QED
        BY <2>1, <2>2, <2>4, ScreensOne
<1>4. ASSUME NEW p \in Payments, PushRefused(t, p) \/ PushLost(t, p)
      PROVE  ScreensOK'
    <2>1. /\ push' = [push EXCEPT ![t] = IF @ = p THEN None ELSE @]
          /\ UNCHANGED <<active, screen, list, dialog, chosen, polled>>
        BY <1>4 DEF PushRefused, PushLost, Settled, backVars, pollVars
    <2>2. /\ push'[t] # None => push[t] # None
          /\ \A u \in Tabs : u # t => push'[u] = push[u]
        BY <2>1, ScreenTypes
    <2>3. ScreenOK(t)'
        BY <1>1, <2>1, <2>2 DEF ScreenOK, Paying
    <2> QED
        BY <2>1, <2>2, <2>3, ScreensOne
<1> QED
    BY <1>2, <1>3, <1>4

\* A guest's tab that forgets its payment: a ticket or a reload.
LEMMA ForgottenScreens ==
    ASSUME PortalIInv, ScreensOK, NEW t \in Guests, active' = active,
           \E to \in {"ticket", "shop"} : screen' = [screen EXCEPT ![t] = to],
           list' = list \/ list' = [list EXCEPT ![t] = None],
           dialog' = [dialog EXCEPT ![t] = "none"], chosen' = [chosen EXCEPT ![t] = None],
           push' = [push EXCEPT ![t] = None], polled' = [polled EXCEPT ![t] = None]
    PROVE  ScreensOK'
<1>1. t \in Tabs /\ t \notin Customers
    BY PortalConstants DEF Tabs
<1>2. /\ dialog'[t] = "none" /\ push'[t] = None /\ polled'[t] = None
      /\ \A u \in Tabs : u # t =>
            /\ screen'[u] = screen[u] /\ list'[u] = list[u] /\ dialog'[u] = dialog[u]
            /\ chosen'[u] = chosen[u] /\ push'[u] = push[u] /\ polled'[u] = polled[u]
    BY <1>1, ScreenTypes
<1>3. ScreenOK(t)'
    BY <1>1, <1>2 DEF ScreenOK, Paying
<1> QED
    BY <1>1, <1>2, <1>3, ScreensOne

LEMMA TicketScreens ==
    ASSUME PortalIInv, ScreensOK, NEW t \in Guests,
           \/ \E p \in Payments : TimerFires(t, p)
           \/ Reconnect(t) \/ UseExistingVoucher(t) \/ ReloadPortal(t)
    PROVE  ScreensOK'
<1>1. CASE ReloadPortal(t)
    BY <1>1, ForgottenScreens DEF ReloadPortal, backVars
<1>2. CASE \E c \in Codes : ShowTicket(t, c) /\ UNCHANGED <<active, list>>
    BY <1>2, ForgottenScreens DEF ShowTicket
<1>3. CASE \E p \in Payments : TimerFires(t, p)
    BY <1>2, <1>3 DEF TimerFires, Codes, backVars
<1>4. CASE Reconnect(t)
    <2>1. offered[t] \in Codes
        BY <1>4 DEF Reconnect, PortalIInv, CodesOK
    <2> QED
        BY <1>2, <1>4, <2>1 DEF Reconnect, backVars
<1>5. CASE UseExistingVoucher(t)
    BY <1>2, <1>5 DEF UseExistingVoucher, Codes, backVars
<1> QED
    BY <1>1, <1>3, <1>4, <1>5

LEMMA TrialAnsweredScreens ==
    ASSUME PortalIInv, ScreensOK, NEW t \in Guests, TrialAnswered(t)
    PROVE  ScreensOK'
<1>1. /\ dialog' = [dialog EXCEPT ![t] = IF @ = "trial" THEN "none" ELSE @]
      /\ UNCHANGED <<active, screen, list, chosen, push, polled>>
    BY DEF TrialAnswered, backVars, pollVars
<1>2. /\ t \in Tabs /\ ScreenOK(t)
      /\ dialog'[t] = "checkout" => dialog[t] = "checkout"
      /\ \A u \in Tabs : u # t => dialog'[u] = dialog[u]
    BY <1>1, ScreenTypes DEF Tabs, ScreensOK
<1>3. ScreenOK(t)'
    BY <1>1, <1>2 DEF ScreenOK, Paying
<1> QED
    BY <1>1, <1>2, <1>3, ScreensOne

\* A customer leaves the page of a payment only by forgetting it.
LEMMA CustomerScreens ==
    ASSUME PortalIInv, ScreensOK, NEW t \in Customers, GoDashboard(t) \/ GoShop(t)
    PROVE  ScreensOK'
<1>1. t \in Tabs /\ t \notin Guests /\ ScreenOK(t)
    BY PortalConstants DEF Tabs, ScreensOK
<1>2. CASE GoDashboard(t)
    <2>1. /\ screen' = [screen EXCEPT ![t] = "dashboard"]
          /\ push' = [push EXCEPT ![t] = None] /\ chosen' = [chosen EXCEPT ![t] = None]
          /\ polled' = [polled EXCEPT ![t] = None] /\ UNCHANGED <<active, list, dialog>>
        BY <1>2 DEF GoDashboard, backVars
    <2>2. /\ polled'[t] = None
          /\ \A u \in Tabs : u # t => /\ screen'[u] = screen[u] /\ chosen'[u] = chosen[u]
                                      /\ push'[u] = push[u] /\ polled'[u] = polled[u]
        BY <1>1, <2>1, ScreenTypes
    <2>3. ScreenOK(t)'
        BY <1>1, <2>2 DEF ScreenOK
    <2> QED
        BY <1>1, <2>1, <2>2, <2>3, ScreensOne
<1>3. CASE GoShop(t)
    <2>1. /\ screen[t] = "dashboard" /\ screen' = [screen EXCEPT ![t] = "shop"]
          /\ UNCHANGED <<active, list, dialog, chosen, push, polled>>
        BY <1>3 DEF GoShop, backVars, shopVars, pollVars
    <2>2. \A u \in Tabs : u # t => screen'[u] = screen[u]
        BY <2>1, ScreenTypes
    <2>3. ScreenOK(t)'
        BY <1>1, <2>1 DEF ScreenOK
    <2> QED
        BY <1>1, <2>1, <2>2, <2>3, ScreensOne
<1> QED
    BY <1>2, <1>3

LEMMA ScreensStep == PortalIInv /\ ScreensOK /\ [Next]_portalVars => ScreensOK'
<1> SUFFICES ASSUME PortalIInv, ScreensOK, [Next]_portalVars
             PROVE  ScreensOK'
    OBVIOUS
<1>1. CASE UNCHANGED portalVars
    BY <1>1, ScreensSame DEF portalVars, backVars, shopVars, pollVars
<1>2. CASE \E p \in Payments : Backend(p)
    <2>1. active' = active /\ UNCHANGED tabVars
        BY <1>2 DEF Backend, InitiatePayment, RefusePayment, Settle, IssueVoucher, CountTrials,
                    RefuseTrial, GrantTrial, ProvisionTrial
    <2> QED
        BY <2>1, ScreensSame DEF tabVars, shopVars, pollVars
<1>3. CASE \E k \in Packages : HandleDeactivate(k)
    BY <1>3, ScreensSame DEF HandleDeactivate, DeactivatePackage, tabVars, shopVars, pollVars
<1>4. ASSUME NEW t \in Tabs,
             \/ Poll(t) \/ ServeStatus(t) \/ StatusArrives(t) \/ StatusFails(t) \/ Refocus(t)
             \/ VerifyStatus(t) \/ TimesOut(t)
      PROVE  ScreensOK'
    BY <1>4, ScreensSame DEF Poll, ServeStatus, StatusArrives, StatusFails, Refocus, VerifyStatus,
                             TimesOut, backVars, shopVars
<1>5. ASSUME NEW t \in Guests,
             \/ HandleActivateTrial(t) \/ TrialFails(t) \/ HandleClearSavedVoucher(t)
             \/ PerformLogin(t) \/ AutoLogin(t) \/ LoginEnds(t)
      PROVE  ScreensOK'
    BY <1>5, ScreensSame DEF HandleActivateTrial, TrialFails, HandleClearSavedVoucher,
                             PerformLogin, AutoLogin, LoginEnds, backVars, shopVars, pollVars
<1>6. Guests \subseteq Tabs
    BY DEF Tabs
<1> QED
    BY <1>1, <1>2, <1>3, <1>4, <1>5, <1>6, ShopScreens, PushScreens, TicketScreens,
       TrialAnsweredScreens, CustomerScreens
    DEF Next

\* The inductive invariant holds throughout.
THEOREM PortalInvariant == Spec => []PortalIInv
<1>1. Init => PortalIInv
    BY PortalInit
<1>2. PortalIInv /\ [Next]_portalVars => PortalIInv'
    BY PortalStep
<1> QED
    BY <1>1, <1>2, PTL DEF Spec

\* A tab that has a payment is where it can wait for it.
LEMMA ScreensInvariant == Spec => []ScreensOK
<1>1. Init => ScreensOK
    BY DEF Init, ScreensOK, ScreenOK, Paying
<1>2. PortalIInv /\ ScreensOK /\ [Next]_portalVars => ScreensOK'
    BY ScreensStep
<1> QED
    BY <1>1, <1>2, PortalInvariant, PTL DEF Spec

\* Whichever timers of PaymentPolling, the trial or an earlier ticket fire, and after
\* whatever reload, HotspotLoginRedirect shows no code that is not paid for.
THEOREM TicketsArePaidFor == Spec => []PortalInv
<1>1. PortalIInv => PortalInv
    BY DEF PortalIInv, PortalInv, TypeOK, TicketIsPaidFor, BackOK, ShopOK, WaitOK, CodesOK,
           PromptsOK, Paid
<1> QED
    BY <1>1, PortalInvariant, PTL

\* However many tabs, pushes and answers there are, a prompt that handlePay or
\* handleConfirmPayment has sent out is on a screen that waits for it, or on its way to
\* one, but for the losses and the deactivated package the property names.
THEOREM PromptsAreRemembered == Spec => []NoPromptForgotten
<1>1. PortalIInv /\ ScreensOK => NoPromptForgotten
    <2> SUFFICES ASSUME PortalIInv, ScreensOK, NEW p \in Payments \ dropped, Out(pay[p])
                 PROVE  \E t \in Tabs : \/ p \in Awaited(t)
                                        \/ polled[t] = p /\ (Waits(t) \/ FallenBack(t))
        BY DEF NoPromptForgotten, Out
    <2>1. PICK t \in Tabs : p \in Awaited(t) \/ polled[t] = p
        BY DEF PortalIInv, PromptsOK
    <2>2. CASE polled[t] = p
        <3>1. polled[t] # None /\ ScreenOK(t)
            BY <2>2, PortalConstants DEF Codes, ScreensOK
        <3>2. CASE t \in Guests
            BY <2>2, <3>1, <3>2 DEF ScreenOK, Paying, Waits, PortalWaits, FallenBack
        <3>3. CASE t \in Customers
            BY <2>2, <3>1, <3>3 DEF ScreenOK, Waits, CustomerWaits
        <3> QED
            BY <2>2, <3>2, <3>3 DEF Tabs
    <2> QED
        BY <2>1, <2>2
<1> QED
    BY <1>1, PortalInvariant, ScreensInvariant, PTL

\* provision_free_trial grants two trials of a day only to requests that overlapped.
THEOREM SecondTrialsOverlap == Spec => []SecondTrialOnlyByOverlap
<1>1. PortalIInv => SecondTrialOnlyByOverlap
    <2> SUFFICES ASSUME PortalIInv, NEW p \in Payments, NEW q \in Payments, p # q,
                        pay[p].trial, pay[p].coded, pay[q].trial, pay[q].coded
                 PROVE  p \in pay[q].beside \/ q \in pay[p].beside
        BY DEF SecondTrialOnlyByOverlap
    <2>1. Counted(pay[p]) /\ Counted(pay[q])
        BY DEF PortalIInv, BackOK, RowOK, Counted
    <2> QED
        BY <2>1 DEF PortalIInv, BackOK, OverlapOK
<1> QED
    BY <1>1, PortalInvariant, PTL

=============================================================================
