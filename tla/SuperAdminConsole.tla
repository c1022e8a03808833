-------------------------- MODULE SuperAdminConsole --------------------------
(***************************************************************************)
(* The super-admin console of one signed-in operator: the dashboard, the   *)
(* list of tenants, a tenant's own page and the accounts page, each with a *)
(* cached answer of the backend (TanStack Query), the dialogs that         *)
(* suspend, reactivate, bill or impersonate a tenant or create an account, *)
(* and the tabs opened to impersonate one (TenantsPage, TenantDetailPage,  *)
(* AccountsPage, useSuperAdmin, main.tsx).  Another operator and the       *)
(* billing cron change tenants behind the console's back.                  *)
(*                                                                         *)
(* A page is named by the query it shows: "stats" is the dashboard, "list" *)
(* the tenants, a tenant its own page.  The client keeps the answers of    *)
(* all pages, and a page it takes for fresh is shown without a request.    *)
(* The SELECT and the UPDATE of suspend_tenant and reactivate_tenant are   *)
(* one step: a second caller between them would write the same value.      *)
(***************************************************************************)
EXTENDS Integers, FiniteSets

CONSTANTS
    Tenants,
    Emails,     \* addresses of super-admin accounts to be created
    Nobody,     \* no tenant, no value
    Slots,      \* mutations in the air at the same time
    Windows,    \* impersonation tabs
    MaxCalls,   \* bound: mutations the operator starts in one behaviour
    MaxOthers   \* bound: changes others make in one behaviour

ASSUME ConsoleConstants ==
    /\ IsFiniteSet(Tenants)
    /\ Nobody \notin Tenants \cup Emails
    /\ {"stats", "list", "accounts"} \cap Tenants = {}
    /\ MaxCalls \in Nat /\ MaxOthers \in Nat

VARIABLES
    status,     \* tenants.status
    accounts,   \* super_admins: the e-mail addresses of the accounts created
    page,       \* the page shown, named by its query
    entry,      \* the client's cache: the answer kept for each query
    fetch,      \* the fetch of each query that is in the air
    dialog,     \* the dialog that is open
    call,       \* mutations in the air
    started,    \* counters of the bounds
    others,
    window,     \* the impersonation tabs
    listening   \* the tabs whose handleReady the console still has registered

queryVars == <<entry, fetch>>
windowVars == <<window, listening>>
consoleVars == <<status, accounts, page, queryVars, dialog, call, started, others, windowVars>>

-----------------------------------------------------------------------------
Keys == {"stats", "list", "accounts"} \cup Tenants

Statuses == {"active", "suspended"}

\* get_platform_stats: of the counters, the one a suspension changes.
Stats == Cardinality({t \in Tenants : status[t] = "suspended"})

\* What the backend answers to each query.
Value(k) ==
    CASE k = "stats" -> Stats
      [] k = "list" -> status
      [] k = "accounts" -> accounts
      [] OTHER -> status[k]

Kinds == {"suspend", "reactivate", "impersonate", "auditlog", "billing", "create"}

NoDialog == [kind |-> "none", of |-> Nobody]
Dialogs == {NoDialog} \cup [kind : Kinds \ {"auditlog"}, of : Tenants \cup Emails]

\* mounted: the page that called mutate() is still shown and has not called it
\* again on the same mutation, so the callbacks given to mutate() will run.
NoCall == [kind |-> "none", of |-> Nobody, phase |-> "idle", mounted |-> FALSE]
CallRows == {NoCall} \cup
    [kind : Kinds, of : Tenants \cup Emails, phase : {"sent", "done", "refused"},
     mounted : BOOLEAN]

NoWindow == [for |-> Nobody, phase |-> "none", ready |-> FALSE, token |-> Nobody]
WindowRows == {NoWindow} \cup
    [for : Tenants, phase : {"opened", "waiting", "viewing", "closed"}, ready : BOOLEAN,
     token : Tenants \cup {Nobody}]

Answers(k) ==
    CASE k = "stats" -> 0 .. Cardinality(Tenants)
      [] k = "list" -> [Tenants -> Statuses]
      [] k = "accounts" -> SUBSET Emails
      [] OTHER -> Statuses

\* st: "valid" while the query counts as answered, "invalidated" by a mutation, or
\* "failed" by its last fetch.  overtaken: the data has changed since the answer was
\* read, and the console has not been told, or was told too early.
Entries(k) == [st : {"none", "valid", "invalidated", "failed"},
               val : Answers(k) \cup {Nobody}, overtaken : BOOLEAN]
Fetches(k) == [st : {"none", "sent", "read"},
               val : Answers(k) \cup {Nobody}, overtaken : BOOLEAN]

TypeOK ==
    /\ status \in [Tenants -> Statuses] /\ accounts \in SUBSET Emails
    /\ page \in Keys
    /\ DOMAIN entry = Keys /\ DOMAIN fetch = Keys
    /\ \A k \in Keys : entry[k] \in Entries(k) /\ fetch[k] \in Fetches(k)
    /\ dialog \in Dialogs
    /\ call \in [Slots -> CallRows]
    /\ started \in 0 .. MaxCalls /\ others \in 0 .. MaxOthers
    /\ window \in [Windows -> WindowRows] /\ listening \subseteq Windows

NoEntry == [st |-> "none", val |-> Nobody, overtaken |-> FALSE]
NoFetch == [st |-> "none", val |-> Nobody, overtaken |-> FALSE]
NewFetch == [st |-> "sent", val |-> Nobody, overtaken |-> FALSE]

\* The page shows an answer, and which.
Shown == entry[page].val
Loaded == Shown # Nobody

\* A client that has just been made shows the dashboard.
JustStarted == [k \in Keys |-> IF k = "stats" THEN NewFetch ELSE NoFetch]

\* A full load of the dashboard.
Init ==
    /\ status = [t \in Tenants |-> "active"] /\ accounts = {}
    /\ page = "stats"
    /\ entry = [k \in Keys |-> NoEntry] /\ fetch = JustStarted
    /\ dialog = NoDialog /\ call = [s \in Slots |-> NoCall]
    /\ started = 0 /\ others = 0
    /\ window = [w \in Windows |-> NoWindow] /\ listening = {}

-----------------------------------------------------------------------------
(* Queries.                                                                *)

\* A page that is mounted is shown from the cache if its answer is valid and no older
\* than its staleTime; otherwise it fetches, or waits for the fetch it left in the
\* air.  A page that is left hears no callback of its mutations.
Goto(k) ==
    /\ k # page /\ dialog = NoDialog
    /\ k \in Tenants => page = "list" /\ Loaded
    /\ page' = k
    /\ \/ /\ entry[k].st = "valid" \/ fetch[k].st # "none"
          /\ fetch' = fetch
       \/ /\ fetch[k].st = "none"
          /\ fetch' = [fetch EXCEPT ![k] = NewFetch]
    /\ call' = [s \in Slots |-> [call[s] EXCEPT !.mounted = FALSE]]
    /\ UNCHANGED <<status, accounts, entry, dialog, started, others, windowVars>>

\* What the steps of the client leave alone.
notQueries == <<status, accounts, page, dialog, call, started, others, windowVars>>

\* The window gets the focus and the answer is old.
Refocus ==
    /\ fetch[page].st = "none"
    /\ fetch' = [fetch EXCEPT ![page] = NewFetch]
    /\ UNCHANGED <<entry, notQueries>>

ServeFetch(k) ==
    /\ fetch[k].st = "sent"
    /\ fetch' = [fetch EXCEPT ![k] = [st |-> "read", val |-> Value(k), overtaken |-> FALSE]]
    /\ UNCHANGED <<entry, notQueries>>

\* Whatever happened meanwhile, the answer makes the query valid.
FetchLands(k) ==
    /\ fetch[k].st = "read"
    /\ entry' = [entry EXCEPT ![k] = [st |-> "valid", val |-> fetch[k].val,
                                      overtaken |-> fetch[k].overtaken]]
    /\ fetch' = [fetch EXCEPT ![k] = NoFetch]
    /\ UNCHANGED notQueries

\* The fetch and its one retry failed: the old answer stays.
FetchFails(k) ==
    /\ fetch[k].st # "none"
    /\ entry' = [entry EXCEPT ![k] = [st |-> "failed", val |-> @.val, overtaken |-> FALSE]]
    /\ fetch' = [fetch EXCEPT ![k] = NoFetch]
    /\ UNCHANGED notQueries

\* Five minutes after its page was left the client forgets a query.
Forget(k) ==
    /\ k # page /\ entry[k] # NoEntry /\ fetch[k].st = "none"
    /\ entry' = [entry EXCEPT ![k] = NoEntry]
    /\ UNCHANGED <<fetch, notQueries>>

\* Mutant of Affects: the second invalidateQueries of the hooks is forgotten.
AffectsTenants(kind) ==
    CASE kind \in {"suspend", "reactivate"} -> Keys \ {"accounts", "stats"}
      [] kind = "create" -> {"accounts"}
      [] OTHER -> {}

\* The queries a successful mutation invalidates (its hook's onSuccess).
Affects(kind) ==
    CASE kind \in {"suspend", "reactivate"} -> Keys \ {"accounts"}
      [] kind = "create" -> {"accounts"}
      [] OTHER -> {}

\* invalidateQueries marks the answers of these queries, and fetches again that of
\* the page shown, over a fetch in the air only if the page has an answer to show.
\* The fetches of other pages, and the first one of a page, go on.
Invalidated(kind) ==
    /\ entry' = [k \in Keys |->
                   IF k \in Affects(kind) /\ entry[k].st # "none"
                   THEN [st |-> "invalidated", val |-> entry[k].val, overtaken |-> FALSE]
                   ELSE entry[k]]
    /\ fetch' = IF page \in Affects(kind) /\ (Loaded \/ fetch[page].st = "none")
                THEN [fetch EXCEPT ![page] = NewFetch]
                ELSE fetch

\* The queries whose answers a mutation about x, or another's change of x, changes.
Concerned(kind, x) ==
    CASE kind \in {"suspend", "reactivate"} -> {"stats", "list", x}
      [] kind = "create" -> {"accounts"}
      [] OTHER -> {}

\* Of the answers kept or on their way, those that would be shown are now too old.
Overtaken(answers, K) ==
    [k \in Keys |-> IF k \in K /\ answers[k].st \in {"valid", "read"}
                    THEN [answers[k] EXCEPT !.overtaken = TRUE] ELSE answers[k]]

-----------------------------------------------------------------------------
(* Dialogs and mutations.                                                  *)

IsPending(kinds) == \E s \in Slots : call[s].mounted /\ call[s].kind \in kinds

\* The menu of a row of the list.
ListOffers(kind, t) ==
    /\ page = "list" /\ Loaded
    /\ \/ kind \in {"impersonate", "billing"}
       \/ kind = "suspend" /\ Shown[t] # "suspended"
       \/ kind = "reactivate" /\ Shown[t] = "suspended"

\* The buttons of a tenant's own page; "reactivate" asks nothing there.
DetailOffers(kind, t) ==
    /\ page = t /\ Loaded
    /\ \/ kind = "impersonate"
       \/ kind = "suspend" /\ Shown # "suspended"
       \/ kind = "reactivate" /\ Shown = "suspended"

OpenListDialog(kind, t) ==
    /\ dialog = NoDialog /\ ListOffers(kind, t)
    /\ dialog' = [kind |-> kind, of |-> t]
    /\ UNCHANGED <<status, accounts, page, queryVars, call, started, others, windowVars>>

OpenDetailDialog(kind, t) ==
    /\ dialog = NoDialog /\ kind # "reactivate" /\ DetailOffers(kind, t)
    /\ dialog' = [kind |-> kind, of |-> t]
    /\ UNCHANGED <<status, accounts, page, queryVars, call, started, others, windowVars>>

OpenAccountDialog(e) ==
    /\ dialog = NoDialog /\ page = "accounts" /\ Loaded
    /\ dialog' = [kind |-> "create", of |-> e]
    /\ UNCHANGED <<status, accounts, page, queryVars, call, started, others, windowVars>>

CancelDialog ==
    /\ dialog # NoDialog
    /\ dialog' = NoDialog
    /\ UNCHANGED <<status, accounts, page, queryVars, call, started, others, windowVars>>

\* The mutation two buttons of a tenant's page share.
Shared(kind) == IF kind \in {"impersonate", "auditlog"} THEN {"impersonate", "auditlog"} ELSE {kind}

\* The confirm button of a dialog is disabled while its mutation is pending; the
\* buttons that close the dialog are not.
Ready(kind) == dialog.kind = kind /\ ~IsPending(Shared(kind))
ImpersonateDialog == Ready("impersonate")
SuspendDialog == Ready("suspend")
ReactivateDialog == Ready("reactivate")
BillingDialog == Ready("billing")
AccountDialog == Ready("create")

\* mutate(): the callbacks of an earlier call on the same mutation are dropped.
Mutate(s, kind, x) ==
    /\ call[s] = NoCall /\ started < MaxCalls
    /\ started' = started + 1
    /\ call' = [c \in Slots |->
                  IF c = s THEN [kind |-> kind, of |-> x, phase |-> "sent", mounted |-> TRUE]
                  ELSE [call[c] EXCEPT !.mounted = @ /\ call[c].kind \notin Shared(kind)]]

Confirmed(s) ==
    /\ Mutate(s, dialog.kind, dialog.of)
    /\ UNCHANGED <<status, accounts, page, queryVars, dialog, others, windowVars>>

HandleStartImpersonation(s) == ImpersonateDialog /\ Confirmed(s)
HandleConfirmSuspend(s) == SuspendDialog /\ Confirmed(s)
HandleConfirmReactivate(s) == ReactivateDialog /\ Confirmed(s)
HandleConfirmBilling(s) == BillingDialog /\ Confirmed(s)
OnSubmit(s) == AccountDialog /\ Confirmed(s)

HandleReactivate(s) ==
    /\ page \in Tenants /\ DetailOffers("reactivate", page) /\ dialog = NoDialog
    /\ ~IsPending({"reactivate"})
    /\ Mutate(s, "reactivate", page)
    /\ UNCHANGED <<status, accounts, page, queryVars, dialog, others, windowVars>>

\* The audit tab of a tenant's page buys a five-minute token of its own, even
\* while another token is on its way.
LoadTenantAuditLogs(s) ==
    /\ page \in Tenants /\ Loaded /\ dialog = NoDialog
    /\ Mutate(s, "auditlog", page)
    /\ UNCHANGED <<status, accounts, page, queryVars, dialog, others, windowVars>>

Conflict(c) ==
    \/ c.kind = "suspend" /\ status[c.of] = "suspended"
    \/ c.kind = "reactivate" /\ status[c.of] = "active"
    \/ c.kind = "create" /\ c.of \in accounts

ServeCall(s) ==
    LET c == call[s]
        ok == ~Conflict(c)
    IN  /\ c.phase = "sent"
        /\ call' = [call EXCEPT ![s].phase = IF ok THEN "done" ELSE "refused"]
        /\ status' = IF ok /\ c.kind \in {"suspend", "reactivate"}
                     THEN [status EXCEPT ![c.of] = IF c.kind = "suspend" THEN "suspended" ELSE "active"]
                     ELSE status
        /\ accounts' = IF ok /\ c.kind = "create" THEN accounts \cup {c.of} ELSE accounts
        /\ fetch' = IF ok THEN Overtaken(fetch, Concerned(c.kind, c.of)) ELSE fetch
        /\ UNCHANGED <<page, entry, dialog, started, others, windowVars>>

\* onSuccess: of the hook always, of the page if it is still there.  The page
\* closes its dialog of that kind, whichever tenant it has been opened for since; the
\* refetch() of a tenant's page is the fetch the invalidation has begun, begun again.
Succeeded(s) ==
    LET c == call[s]
    IN  /\ c.phase = "done"
        /\ Invalidated(c.kind)
        /\ dialog' = IF c.mounted /\ dialog.kind = c.kind THEN NoDialog ELSE dialog
        /\ call' = [call EXCEPT ![s] = NoCall]
        /\ UNCHANGED <<status, accounts, page, started, others>>

Arrives(s) ==
    /\ call[s].kind # "impersonate" \/ ~call[s].mounted
    /\ Succeeded(s)
    /\ UNCHANGED windowVars

\* The impersonation token has come: window.open and a listener for its "ready".
OpenWindow(s, w) ==
    /\ call[s].kind = "impersonate" /\ call[s].mounted
    /\ Succeeded(s)
    /\ window[w] = NoWindow
    /\ window' = [window EXCEPT ![w] = [for |-> call[s].of, phase |-> "opened", ready |-> FALSE,
                                        token |-> Nobody]]
    /\ listening' = listening \cup {w}

\* The browser blocked the pop-up: nothing but the toast.
PopupBlocked(s) ==
    /\ call[s].kind = "impersonate" /\ call[s].mounted
    /\ Succeeded(s)
    /\ UNCHANGED windowVars

\* onError: a toast; the dialog stays.
CallRefused(s) ==
    /\ call[s].phase = "refused"
    /\ call' = [call EXCEPT ![s] = NoCall]
    /\ UNCHANGED <<status, accounts, page, queryVars, dialog, started, others, windowVars>>

\* The request or its answer is lost; what it did, if it did, is not told.
CallLost(s) ==
    /\ call[s].phase \in {"sent", "done"}
    /\ entry' = IF call[s].phase = "done"
                THEN Overtaken(entry, Concerned(call[s].kind, call[s].of))
                ELSE entry
    /\ call' = [call EXCEPT ![s] = NoCall]
    /\ UNCHANGED <<status, accounts, page, fetch, dialog, started, others, windowVars>>

\* Another operator, or the billing cron.
OthersChange(t) ==
    /\ others < MaxOthers /\ others' = others + 1
    /\ status' = [status EXCEPT ![t] = IF @ = "active" THEN "suspended" ELSE "active"]
    /\ entry' = Overtaken(entry, Concerned("suspend", t))
    /\ fetch' = Overtaken(fetch, Concerned("suspend", t))
    /\ UNCHANGED <<accounts, page, dialog, call, started, windowVars>>

\* A reload of the console, or the load of the login page after a 401 and the way
\* back: cache, callbacks and listeners are gone.  A mutation still on its way does not
\* reach the backend, or changes a tenant as OthersChange does: the page is not told.
ConsoleReloads ==
    /\ page' = "stats"
    /\ entry' = [k \in Keys |-> NoEntry] /\ fetch' = JustStarted
    /\ dialog' = NoDialog
    /\ call' = [s \in Slots |-> NoCall]
    /\ listening' = {}
    /\ UNCHANGED <<status, accounts, started, others, window>>

-----------------------------------------------------------------------------
(* The impersonation tabs.                                                 *)

consoleOnly == <<status, accounts, page, queryVars, dialog, call, started, others>>

\* main.tsx in a tab that has an opener and no token: listen, and say "ready".
WindowLoads(w) ==
    /\ window[w].phase \in {"opened", "waiting"} /\ ~window[w].ready
    /\ window' = [window EXCEPT ![w].phase = "waiting", ![w].ready = TRUE]
    /\ UNCHANGED <<consoleOnly, listening>>

\* Mutant of Served: the token is posted to the tab that said "ready".
ServedToSpeaker(w) ==
    [v \in Windows |->
       IF v = w /\ listening # {}
       THEN [window[v] EXCEPT !.ready = FALSE, !.phase = "viewing",
                              !.token = window[CHOOSE l \in listening : TRUE].for]
       ELSE window[v]]

\* Every handleReady answers the "ready" of any tab by posting its own token to
\* its own tab, where only a page that listens takes it: it stores it and reloads.
Served(w) ==
    [v \in Windows |->
       LET n == [window[v] EXCEPT !.ready = @ /\ v # w]
       IN  IF v \in listening /\ n.phase = "waiting"
           THEN [n EXCEPT !.phase = "viewing", !.token = n.for, !.ready = FALSE]
           ELSE n]

ConsoleHears(w) ==
    /\ window[w].ready
    /\ window' = Served(w)
    /\ listening' = {}
    /\ UNCHANGED consoleOnly

\* The token has expired: the interceptor of api.ts drops it and loads /login,
\* where main.tsx says "ready" again.
TokenExpires(w) ==
    /\ window[w].phase = "viewing"
    /\ window' = [window EXCEPT ![w] = [@ EXCEPT !.phase = "waiting", !.ready = TRUE,
                                                 !.token = Nobody]]
    /\ UNCHANGED <<consoleOnly, listening>>

WindowCloses(w) ==
    /\ window[w].phase \in {"opened", "waiting", "viewing"}
    /\ window' = [window EXCEPT ![w] = [@ EXCEPT !.phase = "closed", !.ready = FALSE,
                                                 !.token = Nobody]]
    /\ UNCHANGED <<consoleOnly, listening>>

-----------------------------------------------------------------------------
Next ==
    \/ \E k \in Keys : Goto(k) \/ ServeFetch(k) \/ FetchLands(k) \/ FetchFails(k) \/ Forget(k)
    \/ Refocus \/ CancelDialog \/ ConsoleReloads
    \/ \E kind \in Kinds, t \in Tenants : OpenListDialog(kind, t) \/ OpenDetailDialog(kind, t)
    \/ \E e \in Emails : OpenAccountDialog(e)
    \/ \E s \in Slots : \/ HandleStartImpersonation(s) \/ HandleConfirmSuspend(s)
                        \/ HandleConfirmReactivate(s) \/ HandleConfirmBilling(s) \/ OnSubmit(s)
                        \/ HandleReactivate(s) \/ LoadTenantAuditLogs(s)
                        \/ ServeCall(s) \/ Arrives(s) \/ PopupBlocked(s)
                        \/ CallRefused(s) \/ CallLost(s)
                        \/ \E w \in Windows : OpenWindow(s, w)
    \/ \E t \in Tenants : OthersChange(t)
    \/ \E w \in Windows : \/ WindowLoads(w) \/ ConsoleHears(w) \/ TokenExpires(w)
                          \/ WindowCloses(w)

Spec == Init /\ [][Next]_consoleVars

-----------------------------------------------------------------------------
\* No mutation that has changed the answer to k is still to be heard of.
Heard(k) ==
    \A s \in Slots : call[s].phase = "done" => k \notin Concerned(call[s].kind, call[s].of)

\* An answer the client shows without asking again is what the backend has once the
\* console has heard of its mutations, and a page it would ask again for is asking, or
\* has just failed to.  Excepted is an answer that was overtaken: by somebody else's
\* change, by a mutation whose own answer was lost, or by one the backend did after it
\* answered the fetch, where the fetch was not restarted because its page had been
\* left or had nothing to show yet.
PageIsUpToDate ==
    /\ \A k \in Keys : entry[k].st = "valid" /\ ~entry[k].overtaken /\ Heard(k)
                      => entry[k].val = Value(k)
    /\ fetch[page].st = "none" => entry[page].st \in {"valid", "failed"}

\* A tab that impersonates acts for the tenant it was opened for, however the
\* handshakes of several tabs are interleaved.
ImpersonatesItsTenant ==
    \A w \in Windows : window[w].phase = "viewing" => window[w].token = window[w].for

\* As long as the console listens for a tab that has loaded,
\* that tab's "ready" is on its way.
HandshakeGoesOn ==
    \A w \in listening : window[w].phase = "waiting" => window[w].ready

\* The types, ImpersonatesItsTenant and HandshakeGoesOn: of several tabs opened to
\* impersonate tenants none gets another's token, and none the console still listens
\* for is left waiting.
ConsoleInv == TypeOK /\ ImpersonatesItsTenant /\ HandshakeGoesOn

=============================================================================
