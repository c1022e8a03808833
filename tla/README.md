# Frixel Connect in TLA+

Frixel Connect sells internet access on MikroTik routers. A customer pays with
M-Pesa, the platform confirms the payment, issues a voucher and writes the
FreeRADIUS rows that let the voucher's code log in; resellers sell vouchers from a
prepaid wallet; the owners of networks (tenants) pay the platform a monthly fee and
connect their routers with a wizard; operators of the platform have a console. The
backend is FastAPI (`src/app`), PostgreSQL through asyncpg, an arq worker on Redis
(`src/app/worker.py`) and Safaricom's Daraja API; the frontend is a React
application with axios and TanStack Query (`src/frontend/src`).

This directory models the path of the money through the backend, and the parts of
the frontend that keep state of their own while requests are in the air: signing in
and refreshing tokens, connecting a router, the operator's login and console, the
screens that sell access, and the reseller's desk, each with the backend code behind
it. TLC checks the models on small instances. TLAPS proves every safety and action
property the runs check, and the refinements, for all values of the constants; liveness
stays with TLC.

```
tlc -config MCSettlement_settle.cfg MCSettlement     one of the runs of PROJECT.json
tlapm PaymentPipelineProofs.tla                      the proofs of a module
```

## 1. Inventory

| component | state | operations | modelled in |
|---|---|---|---|
| Payment initiation (`payments/service.py`, `hotspot/service.py`) | row of `payments` | INSERT pending, push, store checkout id, or mark failed | Settlement |
| Daraja STK callback (`webhooks/service.py`) | `payments.status`, `mpesa_receipt_number` | look the row up, confirm or fail it, enqueue a task | Settlement |
| Polling cron (`worker.py`) | the same row | snapshot of pending rows, query Daraja, settle, enqueue | Settlement |
| Voucher worker (`worker.py`, `vouchers/service.py`) | arq jobs, `radcheck`/`radreply`, `vouchers` | RADIUS rows, voucher, guest PIN, invoice; retry | Provisioning |
| Reconciliation cron, admin retry (`worker.py`, `payments/router.py`) | Redis queue | enqueue confirmed payments without a voucher | Provisioning |
| Invoices (`invoices/service.py`) | `invoices` | insert, complete | Provisioning (existence only) |
| Reseller wallet and C2B top-up (`wallets/service.py`, `webhooks/service.py`, `vouchers/router.py`) | `wallet_transactions` ledger, row lock on `users` | top-up, debit, refusal | Wallet |
| Tenant platform billing (`worker.py`, `tenants/service.py`) | `platform_payments`, `tenants.next_billing_date`, tenant status | push by cron, admin or super admin; settle and extend; suspend | TenantBilling |
| Sign-in and token refresh (`auth/service.py`; `lib/api.ts`, `lib/auth.ts`, `AuthContext.tsx`, login and register pages) | `refresh_tokens`; localStorage of the browser, `isRefreshing` and `failedQueue` of a page | login, register, request, 401, refresh, rotate, revoke the family, log out, reload | Session |
| Connecting a router (`routers/*`, `setup/router.py`, `wireguard.py`) | `routers`, `setup_tokens`, tunnel addresses | init-magic, confirm, expire, heartbeat, provision, delete | RouterRegistry |
| Onboarding shell and router wizard (`pages/admin/onboarding`, `useRouterOnboarding.ts`) | component state, the `magic_*` keys and the onboarding state in localStorage | every step, polling, timers, resume | RouterOnboarding |
| Super admin login (`super_admin/service.py`; `SuperAdminLoginPage.tsx`, `SuperAdminAuthContext.tsx`, `superAdminApi.ts`) | account and secret, pre-auth tokens, guesses in Redis, access tokens | password, TOTP setup, verify, reset, log out | SuperAdminLogin |
| Super admin console (`TenantsPage.tsx`, `TenantDetailPage.tsx`, `AccountsPage.tsx`, `useSuperAdmin.ts`) | tenants' status, the client's cache and fetches, dialogs, mutations, impersonation tabs | suspend, reactivate, bill, impersonate, create an account | SuperAdminConsole |
| Captive portal and customer's pages (`components/hotspot`, `CaptivePortalPage.tsx`, `BuyPackagePage.tsx`, `PaymentStatusPage.tsx`; `hotspot/service.py`) | the screen, its timers and requests, the saved voucher | choose, pay, wait, trial, ticket, log in, reconnect | HotspotPortal |
| Reseller pages (`pages/reseller`) | the voucher dialog, requests in the air | pick or register a customer, pick a package, sell | ResellerDesk |
| Voucher access, expiry and revocation (`worker.py`, `vouchers/service.py`, `radius_coa.py`) | `vouchers.status`, RADIUS rows, live sessions | expire, revoke, disconnect | planned |
| PPPoE subscriptions (`subscriptions/service.py`) | `subscriptions.status`, the router's PPP secret | renew, suspend, resume | planned |
| Rate limiter (`core/rate_limit.py`) | Redis sorted set | sliding window | planned |
| Sessions, audit log, health, metrics, script generator, application shell, list and form pages, layout, UI primitives | | single statements, reports, text | not modelled |

How they interact: the API process and the cron settle rows of the `payments`
table and put jobs in Redis; the worker takes jobs from Redis and writes vouchers.
They share nothing else, and nothing of it is locked: outside the wallet every SQL
statement the settlement and provisioning code runs is its own commit, so between
any two awaits of a handler any other handler may run, and the process may die. A
page of the frontend talks to the backend over HTTP only; its tabs share
localStorage. A handler in a page awaits its answer and goes on with whatever the
page shows by then, or after the page is gone; an answer may be lost after the
backend has done the work.

What is hard, and what correctness means for each part:

- *Settlement.* Two copies of a callback, and the poller, may hold the same row at
  once, each having read `pending`. The webhook's UPDATE does not look at the
  status it overwrites. A row must be settled once, confirmed only if the customer
  paid, and keep Safaricom's receipt.
- *Provisioning.* arq retries, re-runs after a crash, and three sources enqueue
  without looking at each other; none is deduplicated. One payment must yield one
  voucher, with the RADIUS rows of its package and no others, and yield it in the end.
- *Wallet.* Each balance is computed from the last one; sales and top-ups run
  concurrently and Safaricom repeats confirmations. No update may be lost, no
  wallet overdrawn, no payment credited twice, no lock kept.
- *Tenant billing.* Webhook and poller both move one date, and the nightly cron
  suspends from what it saw at its start. A paid bill is worth a month, no month is
  free, and only who does not pay is suspended, but is so in the end.
- *Sessions.* Several requests of a page meet a 401 at once and must share one
  refresh; the backend takes a token presented twice for theft. A page must not
  present a token twice, and every request it holds back must be let go.
- *Routers.* init-magic reads the addresses, inserts two rows and calls `wg` without
  a transaction; the wizard is carried over reloads, sign-outs and late answers by
  localStorage. Routers must not share an address, a wizard must not work on another
  tenant's router, and must notice when its router comes online.
- *Super admin.* Guesses are read, compared and counted in Redis, tokens spent in
  PostgreSQL, each by a statement of its own. Overlapping requests must gain no more than
  a guess each and a token must not buy two sessions; the console must not show data it
  could know to be old, nor give a tab another tenant's token.
- *Selling.* A prompt on the customer's phone cannot be called back and a debit is
  final, but answers get lost and users press again, go away and come back. No code
  without payment, no second charge the screen has not led the user to, and no
  screen that waits for ever.
- *The planned parts* are two systems that must agree while either may fail
  (subscriptions, voucher expiry), and an algorithm (rate limiter).

`PROJECT.json` lists the hazards one by one, at the line where each bites.

## 2. Modules

```
PaymentLifecycle            what a payment is, to somebody outside
      ^ implements
PaymentPipeline   = Settlement || Provisioning
                            which share the status, age and queue of PaymentTables
TenantBilling               on its own
ResellerDesk      = Wallet + a reseller's browser
RouterOnboarding  = RouterRegistry + an admin's browser
Session, SuperAdminLogin, SuperAdminConsole, HotspotPortal
                            browser and backend in one module
PaymentPipelineProofs       theorems about Settlement, Provisioning, the composition
ResellerDeskProofs          about Wallet and ResellerDesk
RouterOnboardingProofs      about RouterRegistry and RouterOnboarding
TenantBillingProofs, SessionProofs, SuperAdminLoginProofs,
SuperAdminConsoleProofs, HotspotPortalProofs
MC*.tla, MC*.cfg            the small instances
```

### Settlement

A row of `payments` is spread over `status`, `recorded` (the checkout id is
stored), `receipt` and `age` (younger than two minutes, pollable, older than two
hours). `request` is the HTTP request that pushes; `hook` and `poll` are the
webhook requests and the poller runs with the row each has in hand; `queue` counts
voucher tasks in Redis. `outcome`, `sent` and `net` are Daraja and the network.

An action is a stretch of a handler between two awaits that matter:

| actions | code |
|---|---|
| `InsertPayment`, `RecordCheckout`, `PushFails`, `InitiateCrash` | `initiate_stk_push`; `initiate_hotspot_payment` does the same to the table |
| `HookDiscard`, `HookFind` | `process_daraja_webhook` up to its SELECT and early returns |
| `HookConfirm`, `HookReject`, `HookEnqueue` | its UPDATEs by id, and `enqueue_job` |
| `PollStart` ... `PollEnd` | `poll_pending_daraja_payments_cron`: snapshot, query, guarded UPDATE, `UniqueViolationError`, enqueue |
| `HookCrash`, `PollRaise`, `PollCrash` | a process dies, a statement or Redis raises |
| `AcceptPush`, `Resolve`, `Redeliver`, `LoseCallback`, `Mature`, `Expire` | Daraja, the network, the clock |

The poller's receipt is `"POLL-" + the last ten characters` of the checkout id;
the model keeps what matters of the truncation, that two ids may share them
(`SuffixOf`).

### Provisioning

`queue` and `retries` are the jobs in Redis (first and later tries), `worker` the
coroutines with the payment, try and code in hand, `rad` the RADIUS rows,
`voucher`, `notified` and `invoice` the rows written for a payment, `sweep` the
snapshot of the reconciliation cron, `manual` the admin requests past their
checks. Every attempt draws a code (`Begin`). `ClearTable` and `WriteRadiusRow` are the
two DELETEs and an INSERT of `_provision_radius_credentials`: an attempt that draws a
code under which an abandoned one has left rows, of another package perhaps, clears them
first. `InsertVoucher`/`VoucherExists` are the two results of the INSERT under
`UNIQUE (payment_id)`. `Settle`, `Submit` and `Elapse` are the environment:
whatever the settlement side may do. That `Settlement` keeps to it in the composition
is `MeetsEnvironment`, checked and proved.

### PaymentPipeline and PaymentLifecycle

`PaymentPipeline` runs both components on the same `status`, `age` and `queue`.
`PaymentLifecycle` knows only money, status and voucher: a payment is opened, paid
or declined, confirmed (only if paid) or failed, once, and a confirmed one is
issued one voucher, once. The refinement mapping takes `status` and `voucher` as
they are and reads `money` off Daraja's outcome.

### TenantBilling

`tenant` holds status and `next_billing_date` (as a day), `bill` the rows of
`platform_payments`, `push` who is awaiting `stk_push` for a bill, `cron` the run of
`tenant_billing_cron` with its snapshot `seen` and the tenants it has still to
visit, `hook` and `poll` the bills in the hands of webhook requests and poller runs.

| actions | code |
|---|---|
| `InsertBill`, `RecordCheckout`, `PushFails`, `RequestCrash` | `initiate_platform_billing_payment`, from pay-now or `trigger_tenant_billing` |
| `CronStart`, `CronPass`, `CronSuspend`, `CronPush`, `CronInsert`, `CronPushFails`, `CronCrash` | `tenant_billing_cron`: it pushes first and inserts the row afterwards |
| `HookFind`, `HookConfirm`, `HookReject`; `PollStart` ... `PollFails` | the platform branches of webhook and poller; `Extend` is their UPDATE of the tenant |
| `SuperAdmin` | `suspend_tenant`, `reactivate_tenant` |

It abstracts what Settlement has in detail: a callback may come at any time after
the outcome, any number of times or never, so no messages are counted, and which
pending rows are in the poller's window is a free choice. That allows more than the
code does, which is the safe side for the invariants.

### Wallet

`ledger[r]` is the sequence of committed rows, `lockedBy` the holder of the
`users` row, `txn` the transactions in progress. `Lock`, `ReadBalance`,
`InsertRow`, `Commit` are the statements `topup_wallet` and `debit_wallet` share;
`Refuse` is the insufficient balance, `Duplicate` the repeated reference, `Raise`
any other exception. For a top-up the handler swallows it and answers
`ResultCode 0`; a sale is rolled back whole, the debit with the payment, RADIUS and
voucher rows it inserted.

### ResellerDesk

Extends `Wallet`: `BeginSale` makes a sale confirmed in the dialog a transaction of
the wallet, and `Advance`, `Fail` are the wallet's actions, which decide what becomes
of it. `dlg` is the dialog on the screen (customer, package, code, the quick-add form,
and the form of the customers page), `pending` and `adding` the answers it waits for,
`sale` the sales with what the dialog was told of each. `SaleAnswered`, `SaleFails`,
`QuickAdded`, `CustomerCreated`, `RegisterFails` are the handlers after their `await`:
they write into the dialog that is shown by then. A `SaleFails` may be of a sale that
went through.

### Session

Token `i` is the i-th pair of access and refresh token. `token` is `refresh_tokens`,
`stored` and `active` localStorage, `tab` the user, page and `isRefreshing` of a tab,
`req` its requests (sent, queued, refreshing), `call` the `POST /auth/refresh` at the
backend. `spent` remembers what a page has presented.

| actions | code |
|---|---|
| `Request`, `SubmitLogin`, `SubmitRegister`, `Answer`, `LoginSucceeds` | `api.ts` request interceptor, `AuthContext`, the two pages |
| `RejectRetried`, `JoinQueue`, `GiveUp`, `StartRefresh`, `RefreshDone`, `RefreshFails` | the response interceptor, branch by branch; `ProcessQueue` is `processQueue` |
| `RotateRead`, `RotateReuse`, `RotateRevoke`, `RotateInsert`, `RotateRefuse` | `rotate_refresh_token`, statement by statement |
| `Reload`, `OpenPublic`, `Logout`, `Expire` | loading a page (`initAuth`), `logout`, the clock |

### RouterRegistry and RouterOnboarding

`row` is a router with its setup token (made together), `init` the init-magic calls:
`InitAsk`, `InitPick` (`assign_peer_ip`), `InitInsertRouter`, `InitInsertToken`,
`InitAnswered`, and `InitFails` at any point. `ConfirmSetup`, `Heartbeat`, `Expire`,
`DeleteRouter` are the router's own calls, the clock and the admin.

`RouterOnboarding` adds one browser: `wiz` is the wizard's component state, `handler`
what will happen to the answer of a call whose wizard may be gone (`LateAnswer` is a
look-up or a provisioning heard of after its wizard was left), `saved` and
`stored` localStorage, `page` and `pkg` the shell. `Mount`, `Resumed`, `ResumeFails`
are the resume effect; `SubmitDetails`, `CommandArrives`, `Poll`, `Advance` (the
800 ms timer), `Back`, `PortsListed`, `Deploy`, `Provisioned`, `Reset` the wizard's
handlers; `HandlePackageSubmit`, `PackageCreated`, `HandleSkipPackage`,
`HandleSkipRouter`, `HandleGoToDashboard` the shell's; `SignIn` and `Signup` change the
user of the browser, which leaves localStorage as it is.

### SuperAdminLogin

`account`, `preAuth`, `access` are the tables (with the guesses in Redis), `stored` is
localStorage, `tab` the login page's step, token and QR code, `req` the requests in the
air, `scanned` the secrets in the operator's app. `Validate` is
`_validate_pre_auth_token`, the SELECT, and `SetupTotp` what `setup_totp` writes
afterwards. The rest of `verify_totp` goes statement by statement, so that requests
interleave:

| actions | code |
|---|---|
| `ReadAttempts` | `redis.get`, and the check for the limit |
| `WrongCode`, `SpendToken` | the comparison and `redis.incr`; the UPDATE of `used_at` of a token out of guesses |
| `RightCode`, `ClearAttempts`, `CompleteSetup`, `IssueToken` | the UPDATE of `used_at`, `redis.delete`, the UPDATE of `super_admins`, the access token |
| `CutShort` | the backend dies, or a statement raises, between any two of these |

`PasswordArrives`, `SetupArrives`, `VerifyArrives`, `ReadArrives`, `Refused`, `Unheard`,
`Lost` are answers at a page, at a page that is gone, or nowhere.

### SuperAdminConsole

A page is named by its query; "stats" stands for the dashboard's. `entry` is what
TanStack Query (5.101, external) keeps of every query, also of pages that are not shown,
and `fetch` the fetches in the air, also those a page was left with:

| actions | code |
|---|---|
| `Goto`, `Refocus` | a page mounts, or gets the focus: a valid answer no older than its `staleTime` (30 s, the dashboard's 60 s) is shown without a fetch, and a fetch in the air is joined; the clock is a free choice |
| `ServeFetch`, `FetchLands`, `FetchFails`, `Forget` | the answer is read, arrives (and makes the query valid whatever happened meanwhile), fails after the retry; the cache drops a query five minutes after its page was left |
| `Invalidated(kind)` | `invalidateQueries` in `onSuccess`: all answers of the kind are marked, the shown page fetches anew, over a fetch in the air only if it has an answer to show; other pages' fetches go on |

`dialog` and `call` are the dialogs and the mutations, with whether the callbacks given to
`mutate()` still run. `window` and `listening` are the impersonation tabs and the
console's `message` listeners: `OpenWindow`, `WindowLoads`, `ConsoleHears` are the
handshake. `OthersChange` is another operator or the billing cron. `overtaken`, a history
variable in answers and fetches, marks data that has changed since it was read and of
which the console was not told, or was told too early; only the property reads it.

### HotspotPortal

Each tab is a guest's portal or a customer's page. `pay` is a payment with the request
that creates it; `Backend(p)` is what Settlement and Provisioning do, one step each
(`Settle`, voucher, refusal, the trial's count, its payment and its voucher).
`polled`, `shown`, `fetch`, `late` are the status query with its 3 s interval and the
90 s limit; `timers`, `auto` the `setTimeout`s with the code each has captured; `saved`
and `offered` the saved voucher; `code` and `login` the ticket. A portal is opened by the
router's redirect or by the guest; one without `link-login` (`login` "absent", chosen in
`Init`) has no login timer and no button. A screen waits for a payment only while the
chosen package is in the list of packages (`PortalWaits`). `dropped` collects the
payments a tab lost sight of for a reason the property excuses.

## 3. Assumptions about what is outside

- A SQL statement takes effect and returns, or raises and has no effect.
- Daraja resolves a push it accepted once and for all; callbacks and status
  queries agree. A callback may be lost, late or repeated, before the checkout id
  is stored too.
- Safaricom's receipts are unique, so the `UniqueViolationError` branch of
  `process_daraja_webhook` (a receipt held by *another* row) is not reached.
- Of ten random characters: the second code drawn, after one a voucher already has, is
  no voucher's either, and no code is that of another job at work. A code under which an
  abandoned job has left RADIUS rows may be drawn again.
- TanStack Query does what its version 5.101.0 does on mount, focus, invalidation and
  garbage collection.
- C2B amounts and package prices are positive.
- PostgreSQL: `FOR UPDATE` excludes others until the transaction ends; a rolled
  back row was never there.
- The frontend. A request is answered, refused or fails, and one that fails may have
  been served. Access tokens have one lifetime, browser and server one clock, and both
  tokens of a pair are stored and cleared together. A tab runs one handler at a time.
  All tabs of HotspotPortal are of one phone number and a behaviour is shorter than a
  day. The rate limiter may refuse at any time.
- arq runs a job again after `Retry` and after the worker's death, at most five
  times in all.

## 4. Runs

| run | shows | bounds |
|---|---|---|
| `settle` | no unpaid payment confirmed; receipts unique; tasks queued for confirmed rows only; a settled row stays; Safaricom's receipt stays | 2 payments with equal suffixes, 2 webhook requests, 1 poller, 2 callbacks each, 1 fault; 410k states |
| `provision_jobs` | a voucher has the rows of its package and no others, is paid for, from one job; an invoice is lost only by a failure | a metered guest payment, then one of an unmetered customer, 3 codes, 2 workers, 2 tries of 3, 1 failure; 2.2M states, symmetry |
| `pipeline` | the composition implements `PaymentLifecycle`, Settlement meets Provisioning's environment, paid and recorded ends in a voucher, two exceptions named | 2 payments with equal suffixes one after the other, 1 request, poller and worker, 1 fault on either side; 492k states |
| `reseller_desk` | ledger chains, no overdraft, credited once, no lock kept; every voucher sold at the desk is debited; a code shown is of the selected customer and an opening sells twice only after a reported error, late answers excepted | 1 reseller with another device, 1 customer and 1 to register, 2 transactions, 1 C2B payment, price 1, 2 sales, 2 openings, 1 fault; 1.8M states, symmetry |
| `billing` | a confirmed bill moves the date, nothing else does, an unpaid tenant is suspended in the end | 1 tenant, 2 bills with equal suffixes, 1 webhook request, 1 poller, 3 days, grace 0, 1 fault; 570k states |
| `session` | one refresh per page; no page presents a token twice; a page wedges only on `/login` without a token; every request settles otherwise | 1 tab, 2 requests, 2 refresh calls at the backend (one of an earlier page), 2 pairs of tokens |
| `registry` | two routers share an address only if both calls had read the table before either inserted | 3 routers, 2 calls, 2 addresses; 115k states |
| `onboarding` | command, router and localStorage agree; only confirmed routers are provisioned; never another tenant's; the shell resumes where it was; a router that comes online is noticed | 2 tenants using the browser in turn, 2 routers, 1 call, 2 addresses; 1.7M states |
| `superadmin_login` | requests in parallel gain one guess each; a spent token passes no later check; a configured secret is replaced only by an overlapping setup; no code form without its token | 2 tabs, 2 requests, 2 passwords, 2 secrets, 1 session, 2 guesses (the code: 3); 2.6M states, symmetry |
| `superadmin_console` | a tab gets no other tenant's token, and does not wait in vain while the console listens for it; an answer shown without a fetch is what the backend has unless it was overtaken | 2 tenants, 2 mutations or 1 and a change by others, 2 tabs, 2 queries known at a time; 1.4M states, symmetry |
| `hotspot` | no ticket without a paid code; no prompt without a screen that waits for it, exceptions named; two trials a day only by overlap; no screen waits for ever | 1 guest, with link-login or without, or 1 customer, 1 package that may be deactivated, 2 payments or trials, 1 reload; 173k states |
| `hotspot_activation` | **violated**: "Activating your internet connection..." ends with the voucher | 1 guest, 1 payment |

The properties whose names end in `Inv` are conjunctions of named parts: the types, and the
invariants described beside them in the module.

Why the bounds are enough. Every settlement race is between two handlers for one
row, or between two rows through the UNIQUE receipt: two payments, two webhook
requests and a poller contain all of them, and the proofs cover the rest. Two
workers are enough for two jobs of one payment to meet at the voucher INSERT. Payments
meet in Provisioning only through a code that is drawn again: the second one of
`provision_jobs` is opened when the first is at rest, which is when an abandoned job may
have left a quota row that the second, unmetered one must not inherit; the proof has them
in any order. One fault puts a crash between any two
steps; in `pipeline` a job has one try (`MaxTries` 1), so that it is used up and only
the cron is left. Its second payment is pushed when the poller has settled the first with
the made-up receipt that the second shares (`FirstAtRest`); `settle` has the two at once.
In `billing` the calendar starts with the tenant due, and three
days hold the three cases: bill, suspend, and suspend a day late after a crash;
the length of the grace period only shifts them. Time stands still on the last day,
with a cron run every midnight.

In the browser modules a race is between two requests of a page, a request and the
page's own timers or buttons, or a page and its successor after a reload. Two requests
therefore meet in `session` (one refreshes, one waits), with a second refresh call for
the one a page left behind at the backend; two pairs of tokens let a rotated token be
used. In `registry` two calls and three routers hold two overlapping registrations and
one before or after them. `onboarding` needs two tenants (the second finds what the
first left in localStorage) and two routers (the wizard's and a saved or linked one);
its calls do not overlap, as `registry` covers that. In `superadmin_login` two requests that
overlap and two guesses reach the third wrong code that the limit does not stop. The
console's cache holds two queries at a time, the page left and the page shown; a mutation
that changes no data, and an open impersonation tab, share nothing with the cache, so one
query is enough beside them (`Apart` in `MCSuperAdminConsole`). Two mutations in the
console, two impersonation tabs, two sales and two openings are the least for one to be late for
the other. Counters such as `MaxTokens`, `MaxLogins`, `MaxSales`, `MaxPayments`,
`MaxReloads` bound how often something new is made, not what is done with it.
`SYMMETRY` is used only in runs without liveness properties, over sets whose members no
definition tells apart. `MaxQueued` and `MaxRows` cap how many
tasks and rows are put in while the interesting ones are still there; `MaxBurst` does so
for the environment of `provision_jobs`, in `MCProvisioning` only, so that
`ProvisioningSpec`, about which the theorems are, allows any number. The runs do
not check for deadlock: the system rests when every payment is settled and served,
and the bounds on callbacks and faults end behaviours too.

Fairness. `PaymentPipeline` and `Provisioning` assume weak fairness of a worker's
steps, of starting and going through either cron's snapshot, of storing the
checkout id after an accepted push, and of the two minutes passing: arq polls
Redis for ever, restarts its crons and awaits their coroutines. Nothing is assumed
of Daraja, the customer, the webhook or the admin, faults are bounded but never
fair, and time may or may not reach two hours: `PaidIsServed` excepts a row still
pending then, because the poller's window ends there, and a pending row whose made-up
receipt is another payment's, which every poll skips. `TenantBilling` assumes that
days pass and that each night's run is started and awaited. `Session` assumes that every
HTTP request is answered or fails in the end and that the backend goes on with a
rotation it has begun, nothing of the user. `RouterOnboarding` assumes that the browser
keeps polling and its timer goes off (`Poll`, `Advance`), nothing of backend, admin or
router. `HotspotPortal` assumes that timers fire, that the crons and the worker settle a
payment and make its voucher (which `PaidIsServed` shows, within its limits), and strong
fairness of serving and receiving a status answer: the query is sent again after each
failure, and a network that lets none of infinitely many through is no network.

## 5. What is proved

Every invariant and action property of the passing runs is a theorem about the
specification, for all constants that satisfy the module's `...Constants` assumption:
any number of payments, handlers, tabs, tokens and retries, of which the runs have one to
three. The assumptions say that the placeholder values (`NoPayment`, `Nobody`, `None`) are
not members of the sets they stand beside, that bounds are natural numbers, and, where
things are counted or overwritten with a computed value, that a set is finite
(`Tenants` of the console). `PROJECT.json` lists the theorems by name.

All follow one pattern. The property is not inductive, because a handler acts on what it
read before an await; so the inductive invariant says, for everything that can be in the
air, what its owner may still rely on. The proof has one lemma per action and one step
per part of the invariant the action can disturb. TLC agrees with each inductive invariant on
the instance of section 4 (that of the composition, where components are composed).

*Settlement* (`SettlementInv`). `PaymentOK`: a recorded id means the push request is
over, so nobody but webhook and poller can settle the row; a confirmed row is recorded
and paid; a failed row that was recorded was declined. `HookOK` and `PollOK`: a row in
hand is recorded, its outcome final, and past the UPDATE it is confirmed. So two handlers
that race for a row always agree on its outcome, and the unguarded UPDATE can only write
what is there already. `ReceiptUnique` is a conjunct of its own: the webhook writes
numbers only its row can have, the poller checks (by UNIQUE).

*Provisioning* (`JobsInv`). `generate_voucher` looks at nothing but its argument, so
`TaskOK` follows a job back to where it came from: wherever a payment is still to be
served (queue, retries, a cron's snapshot, an admin's request), it is confirmed.
`WorkerOK` says that under a worker's code are the rows of the statements behind it and
no others, which another worker cannot change as no two have the same code
(`CodesApart`); `VoucherBacked` and `SoleIssuer` follow when the voucher row appears.
`InvoiceLostOnlyByFailure` counts the vouchers whose job is gone without having finished
the invoice: one is added only by a step that counts a failure, as the job past the INSERT
is the only one of its payment and finds no invoice yet (`InvoicesOK`). `EnvironmentFrame`
is what a step outside the worker has to respect: it confirms for good, and
queues only what is confirmed.

*The composition* (`PipelineInv`) is the conjunction of both: Settlement's steps are an
`EnvironmentFrame` of the jobs, and the jobs never touch a status. From it follow
`SettlementMeetsEnvironment` (the pipeline's settlement steps are those Provisioning
allows) and `PipelineImplementsLifecycle`, the refinement of `PaymentLifecycle`; and
`VoucherMeansMoney`, which neither half can state: every voucher is of a payment that
Daraja took money for.

*Wallet* (`WalletInv`). To the three properties of the ledger it adds that a transaction
past `FOR UPDATE` holds the lock (`LockHeld`), that the balance it read is still the
last one (`ReadIsCurrent`), that a row about to be committed may be (`InsertIsSound`),
and that a top-up's reference belongs to its reseller (`WellAddressed`). `InsertIsSound`
needs the last: two top-ups with the same reference are for the same reseller, hence
behind the same lock, so the reference cannot be taken between INSERT and COMMIT.
`LockedIsLive` (a locked row has a request under way) is inductive by itself given the
types.

*The reseller's desk* (`DeskIInv`). `DeskUsesWallet` shows that the desk's behaviours are
behaviours of `Wallet`. `RunningOK` ties a transaction to its sale, from which every
voucher sold is debited. `DialogOK` relates the dialog to sales it may still hear of: a
pending sale of this opening is for the customer on the screen (`PendingOK`), and a
sale of this opening that is not pending and was not reported as an error has taken the
dialog past the button (`HeardOK`), so a second one follows an error (`ErrorsOK`).

*Tenant billing* (`BillingIInv`). Neither UPDATE of the tenant looks at the bill. A row
has its checkout id only once whoever pushed it is done with it (`RowOK`), and nobody has
a row in hand without one (`HandsOK`); so a month is granted only with a bill in hand
that was paid and is confirmed by then (`NoFreeMonth`), and the date is never behind the
confirmed bills (`Granted`).

*Session* (`SessionIInv`). A token a page has sent stays in localStorage only while its
refresh is under way (`SpentOK`); the answer overwrites it under its owner (`OwnersOK`)
with one that nobody has seen (`FreshOK`), and a failure clears it. `PageOK`: one refresh
per page, and `isRefreshing` while it lasts.

*Routers.* `RegistryInv` ties a call of init-magic to the rows it inserted (`CallOK`), no
row being two calls' (`CallsApart`); a row gets the address of
another only if that one was not in the table yet when its call read it. `OnboardingInv` says of each state of
the wizard what it knows about its row, whoever is signed in (`WizardOK`, `HandlerOK`,
`PageOK`, `ShellResumable`). `OnboardingUsesRegistry`: every step of the composition is
one of the registry's or leaves it alone, so the registry's theorems hold of it.

*Super admin.* In `LoginIInv` every request and tab is measured against the pre-auth
tokens, secrets and access tokens made so far; these only grow, and what fits them fits
later ones. `GuessesBounded` counts the requests the read of Redis has let in
(`GuessesOK`): the wrong codes counted and those still to come fit under the limit, as the
last of them was let in below it. In `ConsoleIInv` the clause that makes `PageIsUpToDate`
inductive is the second of `UpToDate`: a fetch that has been answered and not been
overtaken carries what the backend has.

*Captive portal* (`PortalIInv`). A code reaches the ticket by a status answer, a timer or
localStorage; `WaitOK` and `CodesOK` say it was issued wherever it is, and `Grows` that
the backend takes nothing back. `PromptsOK`: a prompt that is out is awaited or polled by
a tab, or dropped for a reason `NoPromptForgotten` excuses. That the tab shows the screen
that waits is `ScreensOK`: while a guest's tab has a payment it stays in the shop with its
package chosen, and the package is in its list or has been deactivated (`FallenBack`).
`OverlapOK` compares all
trials past the count, with a voucher or without: whether two overlap is decided when they
are counted, long before the second voucher is made.

Only model-checked: liveness, that is `PaidIsServed`, `OverdueIsSuspended`,
`RequestsSettle`, `WizardNoticesRouter` and `ScreensMoveOn` (and `ActivationEnds`, which
is violated). The prover has no way to reason about fairness or `ENABLED`.


## 6. Where the code and its documents disagree

With a run (`hotspot_activation`): `useHotspotPayment.ts:50` and `usePayments.ts:75` stop
polling when the status is `confirmed`, which it is before the worker has made the
voucher. The screen then says "Activating your internet connection..." and nothing asks
again; a portal tab moves on only when it gets the focus (TanStack Query fetches again)
and a customer's page likewise. `ActivationEnds` is violated under fairness of every
timer, cron and answer.

The models of the backend show these too; the modules' properties say what holds
around them:

1. `payments/service.py:108` marks a row failed on any exception of the push. When
   the response is lost after Daraja accepted, the customer is prompted and pays,
   and the callback finds no row with its id. `migrations/003_create_payments.sql`
   reads `failed` as "webhook arrived with ResultCode != 0".
2. `worker.py:229` and `webhooks/service.py:112`: the tenant is extended whether or
   not the bill was still pending, so webhook and poller, or two callbacks, give two
   months for one payment. `docs/database-schema.md` says the UNIQUE receipt
   prevents duplicates, but writing the same receipt into the same row violates
   nothing. Customer payments share the flaw up to the queue: two tasks are queued,
   and what absorbs the second is the voucher's `UNIQUE (payment_id)`
   (`SoleIssuer`).
3. `vouchers/service.py:167` commits the RADIUS rows before the voucher row, under
   a new code each attempt: a failed attempt leaves a login that works.
4. No code writes `pending_provision`, although `docs/architecture.md` says an
   exhausted task does.
5. `worker.py:81`: a job that fails or dies after the voucher INSERT leaves no invoice,
   as every re-run stops at the voucher that exists; nothing else loses one
   (`InvoiceLostOnlyByFailure`).
6. `webhooks/service.py:262` answers a top-up that failed with `ResultCode 0`.
7. `worker.py:598` suspends from the cron's snapshot: a bill confirmed since then does
   not save the tenant, and only the super admin, or another payment the super
   admin triggers, lifts it, as the cron skips suspended tenants and pay-now needs
   an active one.
8. `worker.py:214`: the receipt the poller makes up keeps ten characters of the checkout
   id. A second payment that shares them collides with the first on every poll
   (`worker.py:250`), is skipped, stays pending though paid, and is never asked about
   again after two hours. Only a callback, which has a receipt of its own, can still
   settle it (`PaidIsServed`).

Smaller ones:

- `docs/database-schema.md:257` says debits have negative amounts; `debit_wallet`
  stores them positive and the type tells.
- `super_admin/service.py` says `trigger_tenant_billing` "reuses the exact same logic
  as the automated billing cron job", but the starter tier costs 1500 there
  (`TIER_MONTHLY_FEES`) and 1000 in the cron (`TIER_PRICING`).
- `tenant_billing_cron` pushes the fee before it inserts the row: if the INSERT fails,
  the owner may pay a bill nobody knows of.
- A confirmed bill makes a tenant active that the super admin suspended for abuse.

Sign-in:

- Two tabs share the refresh token but not `isRefreshing`: both present it, and the
  second is taken for a thief (`auth/service.py:221`); if they overlap, both get a
  successor (`:260`). `SpentOnce` is therefore about one page.
- `initAuth` drops the refresh token when the access token has expired at load. A 401 to
  a wrong password goes through the refresh branch (`api.ts:108`), and without a stored
  token leaves `isRefreshing` set: the page is wedged (`WedgedOnlyAtLogin`).
- `TenantStatusGuard.tsx:23` expects a 403 a suspended tenant never gets;
  `TenantSuspendedPage` reports success after a timer of 15 s.

Routers:

- Addresses are chosen and inserted without a lock (`wireguard.py:66`), though
  `docs/api-reference.md:1208` promises a free one; rows stay behind when `wg` fails.
- "Resume Setup" links to `?router_id=` (`RoutersPage.tsx:143`), the wizard reads `?resume`
  (`RouterOnboardingWizard.tsx:139`).
- A network error while resuming wipes the saved command; a router that is offline
  resumes to an empty form; an empty list of ports has no way on but a reload;
  `provision_router` answers 200 with an `error` and the wizard says the router is ready.
- A package created after "Skip for now" takes the shell back to the router step
  (`OnboardingPage.tsx:86`).

Super admin:

- `verify_totp` reads the attempts (`super_admin/service.py:336`) before it compares and
  counts (`:373`): requests sent in parallel are all let in below the limit, so that more
  codes than the "3 failed TOTP attempts" of `:390` are compared, and a right one among
  them is accepted after the third wrong one. The gain is one guess for each request
  (`GuessesBounded`).
- A page left while its fetch is in the air takes the old answer for a fresh one: the
  fetch of a page that is not shown, or the first one of a page, is not restarted by
  `invalidateQueries` (`useSuperAdmin.ts:79`) and clears its mark when it lands, and the
  page shows the status from before the mutation for the rest of its `staleTime`
  (`queryClient.ts:17`). These are the overtaken answers of `PageIsUpToDate`.
- An overlapping `setup_totp` leaves the account with a secret the operator has not
  scanned; two overlapping `verify_totp` give two sessions, although migration 018 calls the
  token single-use. A 401 on the login page clears the token other tabs use.
- With two impersonations before the first tab has loaded, both listeners answer the
  first `ready` (`TenantsPage.tsx:83`) and the second tab waits in vain; `AuthContext` reads
  localStorage only, so the tab may show another user's portal.
- Success of one mutation closes the dialog opened for another; leaving and returning
  allows a second billing push. UPDATE and audit INSERT share no transaction.

Selling:

- The ticket's login timer keeps an older code (`HotspotLoginRedirect.tsx:94`) and the page
  says "You are Connected!" whether or not the login worked (`no-cors`).
- The trial's timer (`BuyPackageFlow.tsx:77`) replaces the wait for a prompt that is out; a
  package deactivated during the wait makes the waiting screen vanish
  (`BuyPackageFlow.tsx:139`) while the prompt is out, until the guest picks another package
  (`FallenBack`, an exception of `NoPromptForgotten`).
- A portal opened directly, without `link-login`, shows the voucher's code and neither goes
  online by itself nor offers a button (`HotspotLoginRedirect.tsx:95` and `:250`):
  `ScreensMoveOn` promises the login only to a tab that was redirected by the router.
- A trial whose voucher failed is healed by the reconciliation cron after another one may
  have been granted: two trials a day (`SecondTrialOnlyByOverlap`).
- A lost answer to a push or to a sale is reported as a failure, and trying again pushes
  or debits a second time. A stray answer navigates a customer away
  (`BuyPackagePage.tsx:46`).
- A late answer to quick-add changes the customer selected at step 2
  (`GenerateVoucherDialog.tsx:83`); a late sale shows its code in a dialog opened for
  somebody else (`:121`).

## 7. What is left out of the modelled parts

Validation and look-ups that fail before the first write; logging, audit rows,
SMS wording, the invoice PDF and the eTIMS payload; the invoice number trigger;
amounts and metering in platform billing; the HTTP detail of the clients.
A guest's PIN and SMS are one step, as a failing SMS is only logged. In the browser:
form validation, toasts, the clipboard, the ping display, search and paging, and outside
the console (whose cache is modelled) cached answers of pages that are not shown. Of the
handlers of a browser that outlive the wizard they were started in, one is remembered at a
time. Password reset and the guest PIN login are left out
of Session, as they issue tokens as login does or none at all.

Not modelled at all: list and form pages that show what one query returned or submit one
form; read-only reports (sessions, metrics, health, audit log); text generation (router
scripts, landing page); the older onboarding wizard, to which no route leads; vendored
UI primitives; start-up and configuration. They keep no state another step could
contradict.

## 8. Plan

1. `VoucherAccess`: expiry sweep, revocation and CoA against the RADIUS rows. A
   code that is no longer active cannot log in; crashes in between.
2. `Subscriptions`: database status against the PPP secret when either call fails.
3. `RateLimiter`: the sliding window against its definition.
4. Proofs: what the refinements carry over to the composed specifications (the wallet's
   and the registry's action properties at the desk and in the wizard), and the invariants
   of the modules above as they are written.
