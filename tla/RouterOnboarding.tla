-------------------------- MODULE RouterOnboarding --------------------------
(***************************************************************************)
(* Connecting a MikroTik router, composed with RouterRegistry.  An admin's *)
(* browser shows the wizard RouterOnboardingWizard.tsx, by itself or       *)
(* inside the shell OnboardingPage.tsx of a new tenant; the wizard asks    *)
(* for a setup command (init-magic), the admin pastes it into the router,  *)
(* the wizard polls until it sees the router online and then has it        *)
(* provisioned.  localStorage carries the wizard over reloads, page        *)
(* changes and sign-outs of the same browser.                              *)
(***************************************************************************)
EXTENDS RouterRegistry

CONSTANT Me     \* this browser's init-magic call

ASSUME OnboardingConstants == Me \in Clients

VARIABLES
    user,     \* the tenant signed in
    wiz,      \* the wizard's component state, None while it is not shown
    handler,  \* the handler that waits for init-magic, or for the look-up or the
              \* provisioning of a wizard that has been left
    saved,    \* localStorage: the magic_* keys, which name one router
    page,     \* what the browser shows
    stored,   \* localStorage: the step of ONBOARDING_STATE_KEY
    pkg       \* the shell waits for the package to be created

vars == <<row, init, user, wiz, handler, saved, page, stored, pkg>>

-----------------------------------------------------------------------------
\* rid is initData.router_id, cmd the router whose token and command initData
\* holds; link: rid comes from a ?resume link; seen: a poll has said "online" and
\* the timer that leads on is running.
Wizards == [step : {"details", "command", "provision", "complete"}, loading : BOOLEAN,
            link : BOOLEAN, rid : Routers \cup {None}, cmd : Routers \cup {None},
            seen : BOOLEAN,
            ports : {"no", "loading", "found"}, prov : {"idle", "sent", "ok", "error"}]

\* The shell's steps; what they record besides is for display.  The last one shows
\* a summary and a way to the dashboard.
Steps == {"packages", "router", "complete"}

\* The handler of init-magic updates the wizard, or only localStorage since the
\* wizard was left; "late": that of a look-up or a provisioning; "gone": none waits.
Handlers == {"wizard", "storage", "late", "gone"}

TypeOK ==
    /\ RegistryTypeOK
    /\ user \in Tenants /\ wiz \in Wizards \cup {None} /\ handler \in Handlers
    /\ saved \in Routers \cup {None}
    /\ page \in Steps \cup {"wizard", "elsewhere"} /\ stored \in Steps \cup {None}
    /\ pkg \in BOOLEAN

Init ==
    /\ RegistryInit
    /\ user \in Tenants /\ wiz = None /\ handler = "gone" /\ saved = None
    /\ page = "elsewhere" /\ stored = None /\ pkg = FALSE

\* Mutant of OwnRow: the query forgets the tenant.
AnyRow(r) == Alive(r)

\* The rows an admin's requests see; everything else is 404.
OwnRow(r) == Alive(r) /\ row[r].tenant = user

-----------------------------------------------------------------------------
(* The pages of the browser.                                               *)

NewWizard == [step |-> "details", loading |-> FALSE, link |-> FALSE, rid |-> None,
              cmd |-> None, seen |-> FALSE, ports |-> "no", prov |-> "idle"]

\* The resume effect: when a command is saved and has not expired, the router of
\* the ?resume link, one of links, or else (None) the saved one, is looked up.
Mount(links) ==
    \/ /\ saved = None
       /\ wiz' = NewWizard /\ UNCHANGED saved
    \/ /\ saved # None /\ row[saved].over
       /\ wiz' = NewWizard /\ saved' = None
    \/ /\ saved # None /\ ~row[saved].over
       /\ \E link \in links :
             wiz' = [NewWizard EXCEPT !.loading = TRUE, !.link = link # None, !.cmd = saved,
                                      !.rid = IF link # None THEN link ELSE saved]
       /\ UNCHANGED saved

\* A resume effect's look-up, or a provisioning, is in the air.
Asking ==
    /\ wiz # None
    /\ wiz.loading \/ (wiz.step = "provision" /\ wiz.prov # "idle")

\* Leaving a page ends its component; the handlers of its requests go on, unless
\* the whole document is loaded anew.
LeftHandler == CASE handler = "wizard" -> "storage"
                 [] handler = "gone" /\ Asking -> "late"
                 [] OTHER -> handler

LeaveWizard == handler' = LeftHandler
LeavePage == LeaveWizard /\ pkg' = FALSE
LoadDocument == handler' = "gone" /\ pkg' = FALSE
LeaveOrLoad == handler' \in {LeftHandler, "gone"} /\ pkg' = FALSE

\* "Connect Router", "Resume Setup" (whose ?router_id the wizard does not read),
\* the dashboard's checklist, or a ?resume link; a reload loads the document.
OpenWizard ==
    /\ LeaveOrLoad
    /\ Mount(Routers \cup {None})
    /\ page' = "wizard"
    /\ UNCHANGED <<row, init, user, stored>>

Leave ==
    /\ page \notin {"elsewhere", "complete"}
    /\ LeavePage
    /\ wiz' = None /\ page' = "elsewhere"
    /\ UNCHANGED <<row, init, user, saved, stored>>

SaveOnboardingState(s) == stored' = s
InitOnboardingState == SaveOnboardingState("packages")
ClearOnboardingState == stored' = None

\* OnboardingPage shows step s; it writes its state, and clears it at the end.
ShowStep(s) ==
    /\ page' = s
    /\ IF s = "complete" THEN ClearOnboardingState ELSE SaveOnboardingState(s)

\* /admin/onboarding: from the dashboard's banner, or reloaded.
OpenShell ==
    /\ LeaveOrLoad
    /\ \/ stored = "router" /\ ShowStep("router") /\ Mount({None})
       \/ stored # "router" /\ ShowStep("packages") /\ wiz' = None /\ UNCHANGED saved
    /\ UNCHANGED <<row, init, user>>

\* A sign-out loads /login, and somebody signs in.
SignIn(t) ==
    /\ LoadDocument
    /\ user' = t /\ wiz' = None /\ page' = "elsewhere"
    /\ UNCHANGED <<row, init, saved, stored>>

\* A tenant that has never had a router may be one that is only now created.
Unknown(t) ==
    /\ t # user
    /\ \A r \in Routers : row[r].tenant # t
    /\ \A c \in Clients : init[c].tenant # t

\* The answer of /tenants/register signs the new tenant in.
Registered(t) == Unknown(t) /\ user' = t /\ InitOnboardingState /\ page' = "packages"

\* The signup page, loaded or reached by links from any other page; when the
\* registration is refused the form stays.
Signup(t) ==
    /\ LeaveOrLoad
    /\ Registered(t)
    /\ wiz' = None
    /\ UNCHANGED <<row, init, saved>>

\* What the shell offers: the package form, the wizard with a way around it, and
\* the summary.
PackageScreen == page = "packages"
RouterScreen == page = "router"
ReadyScreen == page = "complete"

\* The form's button is disabled while the package is created; "Skip for now" is
\* not.
PackageForm == PackageScreen /\ ~pkg

HandlePackageSubmit ==
    /\ PackageForm
    /\ pkg' = TRUE
    /\ UNCHANGED <<row, init, user, wiz, handler, saved, page, stored>>

HandleSkipPackage ==
    /\ PackageScreen
    /\ ShowStep("router")
    /\ Mount({None})
    /\ UNCHANGED <<row, init, user, handler, pkg>>

\* The package is created: the router step, even if the shell was past it.
PackageCreated ==
    /\ pkg /\ pkg' = FALSE
    /\ ShowStep("router")
    /\ IF RouterScreen THEN UNCHANGED <<wiz, saved>> ELSE Mount({None})
    /\ UNCHANGED <<row, init, user, handler>>

PackageFails ==
    /\ pkg /\ pkg' = FALSE
    /\ UNCHANGED <<row, init, user, wiz, handler, saved, page, stored>>

\* "I'll connect my router later".
HandleSkipRouter ==
    /\ RouterScreen
    /\ ShowStep("complete")
    /\ LeaveWizard
    /\ wiz' = None
    /\ UNCHANGED <<row, init, user, saved, pkg>>

HandleGoToDashboard ==
    /\ ReadyScreen
    /\ LeavePage
    /\ page' = "elsewhere"
    /\ UNCHANGED <<row, init, user, wiz, saved, stored>>

-----------------------------------------------------------------------------
(* The wizard.                                                             *)

Showing(step) == wiz # None /\ ~wiz.loading /\ wiz.step = step

\* What the four screens offer.  The name has to be another one than before, and
\* nobody types it in the 0.8 seconds the timer runs.
DetailsForm == Showing("details") /\ ~wiz.seen
CommandScreen == Showing("command") /\ wiz.rid # None
ProvisionForm == Showing("provision") /\ wiz.ports = "found" /\ wiz.prov = "idle"
CompleteScreen == Showing("complete")

\* Mutant of Resumed: the status is not looked at.
ResumedAtProvision ==
    /\ wiz # None /\ wiz.loading /\ OwnRow(wiz.rid)
    /\ wiz' = [wiz EXCEPT !.loading = FALSE, !.step = "provision", !.ports = "loading"]
    /\ UNCHANGED <<row, init, user, handler, saved, page, stored, pkg>>

\* The resume effect has its answer: the command step, the provision step, or
\* a status that leads nowhere.
Resumed ==
    /\ wiz # None /\ wiz.loading /\ OwnRow(wiz.rid)
    /\ wiz' = CASE row[wiz.rid].st = "pending_setup" ->
                      [wiz EXCEPT !.loading = FALSE, !.step = "command"]
                [] row[wiz.rid].st = "online" ->
                      [wiz EXCEPT !.loading = FALSE, !.step = "provision", !.ports = "loading"]
                [] OTHER -> NewWizard
    /\ UNCHANGED <<row, init, user, handler, saved, page, stored, pkg>>

\* Not found, or any other error: start afresh.
ResumeFails ==
    /\ wiz # None /\ wiz.loading
    /\ wiz' = NewWizard
    /\ saved' = None
    /\ UNCHANGED <<row, init, user, handler, page, stored, pkg>>

\* The details form (bound: one handler of the browser waits at a time).
SubmitDetails ==
    /\ DetailsForm /\ handler = "gone"
    /\ InitAsk(Me, user)
    /\ handler' = "wizard"
    /\ UNCHANGED <<user, wiz, saved, page, stored, pkg>>

NotWaiting == handler' = IF handler = "late" THEN handler ELSE "gone"

\* The command arrives: it is saved, and shown if the wizard is still there.
CommandArrives ==
    LET r == init[Me].router
    IN  /\ InitAnswered(Me)
        /\ NotWaiting
        /\ \/ /\ handler \in {"gone", "late"} /\ UNCHANGED <<saved, wiz>>
           \/ /\ handler = "storage" /\ saved' = r /\ UNCHANGED wiz
           \/ /\ handler = "wizard" /\ saved' = r
              /\ wiz' = [wiz EXCEPT !.rid = r, !.cmd = r, !.step = "command",
                                    !.link = FALSE, !.seen = FALSE]
        /\ UNCHANGED <<user, page, stored, pkg>>

\* An error is shown, and the details form again.
CommandRefused ==
    /\ InitFails(Me)
    /\ NotWaiting
    /\ UNCHANGED <<user, wiz, saved, page, stored, pkg>>

\* Mutant of PollWanted: no polling inside the shell.
PollWantedAlone == CommandScreen /\ page = "wizard"

\* useRouterStatus polls on the command step until the status is terminal.
PollWanted == CommandScreen /\ ~wiz.seen

\* A poll says online: polling ends, and the timer is set that leads on.
Poll ==
    /\ PollWanted
    /\ OwnRow(wiz.rid) /\ row[wiz.rid].st = "online"
    /\ wiz' = [wiz EXCEPT !.seen = TRUE]
    /\ UNCHANGED <<row, init, user, handler, saved, page, stored, pkg>>

\* 800 ms later, wherever the wizard is by now.
Advance ==
    /\ wiz # None /\ wiz.seen
    /\ wiz' = [wiz EXCEPT !.step = "provision", !.ports = "loading", !.seen = FALSE]
    /\ UNCHANGED <<row, init, user, handler, saved, page, stored, pkg>>

\* The header's back button.
Back ==
    /\ CommandScreen /\ page = "wizard"
    /\ wiz' = [wiz EXCEPT !.step = "details"]
    /\ UNCHANGED <<row, init, user, handler, saved, page, stored, pkg>>

\* The ports of the router are listed; an error is an empty list.
PortsListed ==
    /\ Showing("provision") /\ wiz.ports = "loading"
    /\ \/ OwnRow(wiz.rid) /\ row[wiz.rid].token = "used" /\ wiz' = [wiz EXCEPT !.ports = "found"]
       \/ wiz' = [wiz EXCEPT !.ports = "no"]
    /\ UNCHANGED <<row, init, user, handler, saved, page, stored, pkg>>

\* "Deploy Configuration".
Deploy ==
    /\ ProvisionForm
    /\ wiz' = [wiz EXCEPT !.prov = "sent"]
    /\ UNCHANGED <<row, init, user, handler, saved, page, stored, pkg>>

\* provision_router sets the service up.
ProvisionRouter ==
    /\ wiz # None /\ wiz.prov = "sent"
    /\ OwnRow(wiz.rid) /\ row[wiz.rid].token = "used"
    /\ row' = [row EXCEPT ![wiz.rid].st = "online"]
    /\ wiz' = [wiz EXCEPT !.prov = "ok"]
    /\ UNCHANGED <<init, user, handler, saved, page, stored, pkg>>

\* The range is malformed or the router does not do as told: {"error": ...} with
\* status 200.
ProvisionError ==
    /\ wiz # None /\ wiz.prov = "sent" /\ OwnRow(wiz.rid)
    /\ wiz' = [wiz EXCEPT !.prov = "error"]
    /\ UNCHANGED <<row, init, user, handler, saved, page, stored, pkg>>

\* 404, or no answer at all.
ProvisionFails ==
    /\ Showing("provision") /\ wiz.prov \in {"sent", "ok", "error"}
    /\ wiz' = [wiz EXCEPT !.prov = "idle"]
    /\ UNCHANGED <<row, init, user, handler, saved, page, stored, pkg>>

\* handleProvision takes every answer with status 200 for success; in the shell,
\* onComplete leads on.
Provisioned ==
    /\ Showing("provision") /\ wiz.prov \in {"ok", "error"}
    /\ saved' = None
    /\ \/ /\ page = "wizard"
          /\ wiz' = [wiz EXCEPT !.step = "complete", !.prov = "idle"]
          /\ UNCHANGED <<page, stored>>
       \/ /\ RouterScreen
          /\ wiz' = None
          /\ ShowStep("complete")
    /\ UNCHANGED <<row, init, user, handler, pkg>>

\* The wizard was left meanwhile: a look-up that fails and a provisioning that is
\* answered still clear the saved command, another wizard's by now perhaps; else
\* nothing is left of them.  (The row changes as by a heartbeat.)
LateAnswer ==
    /\ handler = "late"
    /\ handler' = "gone" /\ saved' \in {saved, None}
    /\ UNCHANGED <<row, init, user, wiz, page, stored, pkg>>

\* "Add Another Router".
Reset ==
    /\ CompleteScreen
    /\ wiz' = NewWizard
    /\ saved' = None
    /\ UNCHANGED <<row, init, user, handler, page, stored, pkg>>

-----------------------------------------------------------------------------
Backend ==
    /\ \/ \E c \in Clients : Serve(c)
       \/ \E r \in Routers : Device(r)
    /\ UNCHANGED <<user, wiz, handler, saved, page, stored, pkg>>

Pages ==
    \/ OpenWizard \/ Leave \/ OpenShell \/ HandlePackageSubmit \/ HandleSkipPackage
    \/ PackageCreated \/ PackageFails \/ HandleSkipRouter \/ HandleGoToDashboard
    \/ \E t \in Tenants : SignIn(t) \/ Signup(t)

Wizard ==
    \/ Resumed \/ ResumeFails \/ SubmitDetails \/ CommandArrives \/ CommandRefused
    \/ Poll \/ Advance \/ Back \/ PortsListed \/ Deploy
    \/ ProvisionRouter \/ ProvisionError \/ ProvisionFails \/ Provisioned
    \/ LateAnswer \/ Reset

Next == Backend \/ Pages \/ Wizard

Spec == Init /\ [][Next]_vars

\* The browser goes on polling and its timers go off.  The two are never enabled
\* together, so that fairness of either is fairness of each.
FairSpec == Spec /\ WF_vars(Poll \/ Advance)

-----------------------------------------------------------------------------
\* The command on the screen sets up the router the wizard polls and provisions,
\* unless the page was opened with a ?resume link to another router.
CommandIsOfItsRouter ==
    wiz # None => wiz.rid = wiz.cmd \/ wiz.link

\* Whatever localStorage keeps from an earlier user of the browser, the wizard
\* never works on another tenant's router.
WizardOfOwnTenant ==
    (wiz # None /\ ~wiz.loading /\ wiz.rid # None) => row[wiz.rid].tenant = user

\* The wizard offers to provision only a router that has confirmed, whatever its
\* timer, the back button and the resume logic do.
ProvisionsConfirmed ==
    Showing("provision") => row[wiz.rid].token = "used" \/ ~Alive(wiz.rid)

\* DashboardPage's banner "Complete your setup", which the admin may dismiss.
ShowOnboardingBanner == stored \notin {None, "complete"}

\* A reload of the shell comes back to the step it was at, even when a package
\* created late has taken it back, and the dashboard's banner asks for the setup to
\* be completed exactly while there is a step to go back to.
ShellResumable ==
    /\ page \in {"packages", "router"} => stored = page
    /\ stored # None => ShowOnboardingBanner
    /\ ReadyScreen => ~ShowOnboardingBanner

\* What backend, wizard and shell keep consistent: the types, OnlineHasConfirmed,
\* and the three invariants above.
WizardInv ==
    /\ TypeOK /\ OnlineHasConfirmed
    /\ CommandIsOfItsRouter /\ ProvisionsConfirmed /\ ShellResumable

\* A router that comes online while the wizard shows its command takes the
\* wizard on, unless the user or the router leaves first.
WizardNoticesRouter ==
    LET online == CommandScreen /\ OwnRow(wiz.rid) /\ row[wiz.rid].st = "online"
    IN  online ~> ~online

=============================================================================
