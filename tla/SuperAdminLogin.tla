--------------------------- MODULE SuperAdminLogin ---------------------------
(***************************************************************************)
(* How an operator of the platform gets into the super-admin console:      *)
(* email and password buy a pre-auth token, a six-digit code of the        *)
(* authenticator app turns it into a 15-minute access token, and an        *)
(* account that has no authenticator yet is first shown a QR code          *)
(* (SuperAdminLoginPage, SuperAdminAuthContext, superAdminApi and          *)
(* super_admin/service.py).  All tabs belong to one account and share      *)
(* localStorage; the backend has no transaction around its statements.     *)
(*                                                                         *)
(* Secrets, pre-auth tokens and access tokens are numbered in the order    *)
(* they are made, 0 is none.  Access tokens have one lifetime, so they     *)
(* expire in the order of issue.                                           *)
(***************************************************************************)
EXTENDS Integers, Sequences, FiniteSets

CONSTANTS
    Tabs,
    Nobody,       \* the page that sent a request is gone
    Reqs,         \* requests in the air at the same time
    MaxAttempts,  \* wrong codes one pre-auth token survives: 3
    MaxLogins,    \* bound: pre-auth tokens issued in one behaviour
    MaxSecrets,   \* bound: TOTP secrets generated in one behaviour
    MaxTokens     \* bound: access tokens issued in one behaviour

ASSUME LoginConstants ==
    /\ Nobody \notin Tabs
    /\ IsFiniteSet(Reqs)
    /\ MaxAttempts \in Nat \ {0}
    /\ MaxLogins \in Nat /\ MaxSecrets \in Nat /\ MaxTokens \in Nat

VARIABLES
    account,  \* super_admins: totp_secret and totp_verified_at IS NOT NULL
    preAuth,  \* super_admin_pre_auth_tokens, and totp_attempts:<hash> in Redis
    access,   \* the access tokens issued, each with the pre-auth token it cost
    expired,  \* the access tokens 1..expired have expired
    stored,   \* localStorage: the access token kept, 0 for none
    tab,      \* the page, loginStep, preAuthToken and qrCodeData of each tab
    req,      \* the requests of all tabs
    scanned   \* the secrets in the operator's authenticator app

loginVars == <<account, preAuth, access, expired, stored, tab, req, scanned>>

-----------------------------------------------------------------------------
Steps == {"idle", "totp_setup", "totp_verify", "done"}

\* A row of super_admin_pre_auth_tokens: live, used_at set, or past expires_at.
PreAuthRows == [st : {"live", "used", "expired"}, fails : Nat]

\* A row of super_admins.
Accounts == [secret : 0 .. MaxSecrets, verified : BOOLEAN]

\* The HTTP statuses of the answers.
Answers == {200, 401, 409}

\* The numbers a body can carry: of a token or a secret.
Carried == 0 .. (MaxLogins + MaxSecrets + MaxTokens)

\* How far the backend is with a request.  After its SELECT verify_totp reads the
\* attempts in Redis; "open" is past that check, "spending" is about to mark the
\* token as used after too many, the next three follow a right code.
Working == {"validated", "open", "spending", "consumed", "cleared", "verified"}
Phases  == {"sent", "answered"} \cup Working

\* row is what the SELECT of _validate_pre_auth_token returned; answer is the
\* HTTP status, new the token or secret the body carries.
Requests ==
    [op : {"none", "password", "setup", "verify", "read"},
     tab : Tabs \cup {Nobody},
     phase : Phases,
     token : 0 .. MaxLogins,             \* the pre-auth token in the body
     code : 0 .. MaxSecrets,             \* the secret the code was made from
     bearer : 0 .. MaxTokens,
     row : Accounts,
     answer : Answers,
     new : Carried]

NoRequest == [op |-> "none", tab |-> Nobody, phase |-> "sent", token |-> 0,
              code |-> 0, bearer |-> 0, row |-> [secret |-> 0, verified |-> FALSE],
              answer |-> 200, new |-> 0]

TypeOK ==
    /\ account \in Accounts
    /\ preAuth \in Seq(PreAuthRows) /\ Len(preAuth) <= MaxLogins
    /\ access \in Seq(1 .. Len(preAuth)) /\ Len(access) <= MaxTokens
    /\ expired \in 0 .. Len(access) /\ stored \in 0 .. Len(access)
    /\ tab \in [Tabs -> [page : {"login", "console"}, step : Steps,
                         token : 0 .. Len(preAuth), qr : 0 .. MaxSecrets]]
    /\ req \in [Reqs -> Requests]
    /\ scanned \subseteq 1 .. account.secret

\* A first login: the seeded account has no authenticator (seed script).
Init ==
    /\ account = [secret |-> 0, verified |-> FALSE]
    /\ preAuth = <<>> /\ access = <<>> /\ expired = 0 /\ stored = 0
    /\ tab = [t \in Tabs |-> [page |-> "login", step |-> "idle", token |-> 0, qr |-> 0]]
    /\ req = [r \in Reqs |-> NoRequest]
    /\ scanned = {}

-----------------------------------------------------------------------------
(* The browser.                                                            *)

Live(i) == i \in expired + 1 .. Len(access)

\* isPending of the tab's mutation: its latest call has no answer yet.
Pending(t, op) == \E r \in Reqs : req[r].tab = t /\ req[r].op = op

\* The requests of a page that is gone are served, but nobody hears the answer.
Orphaned(q, t) == [r \in Reqs |-> IF q[r].tab = t THEN [q[r] EXCEPT !.tab = Nobody] ELSE q[r]]

\* A full load of a URL: the provider's effect keeps a token that has not
\* expired and drops one that has; SuperAdminRoute sends a tab whose loginStep
\* is not "done" to the login page.
Loaded(page, kept) ==
    IF Live(kept)
    THEN [page |-> page, step |-> "done", token |-> 0, qr |-> 0]
    ELSE [page |-> "login", step |-> "idle", token |-> 0, qr |-> 0]

Kept(s) == IF Live(s) THEN s ELSE 0

\* The operator reloads, follows a link or types a URL.
Visit(t, page) ==
    /\ stored' = Kept(stored)
    /\ tab' = [tab EXCEPT ![t] = Loaded(page, stored)]
    /\ req' = Orphaned(req, t)
    /\ UNCHANGED <<account, preAuth, access, expired, scanned>>

Send(r, t, q) ==
    /\ req[r].op = "none"
    /\ req' = [req EXCEPT ![r] = [q EXCEPT !.tab = t]]

\* What the screens offer: the password form, the QR screen, the code screen.
PasswordForm(t) ==
    /\ tab[t].page = "login" /\ tab[t].step = "idle"
    /\ ~Pending(t, "password")

SetupScreen(t) == tab[t].page = "login" /\ tab[t].step = "totp_setup"

CodeScreen(t) ==
    /\ tab[t].page = "login" /\ tab[t].step = "totp_verify"
    /\ ~Pending(t, "verify")

OnPasswordSubmit(r, t) ==
    /\ PasswordForm(t)
    /\ Len(preAuth) < MaxLogins
    /\ Send(r, t, [NoRequest EXCEPT !.op = "password"])
    /\ UNCHANGED <<account, preAuth, access, expired, stored, tab, scanned>>

\* "I've scanned it": enabled once the QR code is there.
ScannedIt(t) ==
    /\ SetupScreen(t) /\ ~Pending(t, "setup") /\ tab[t].qr # 0
    /\ tab' = [tab EXCEPT ![t].step = "totp_verify"]
    /\ scanned' = scanned \cup {tab[t].qr}
    /\ UNCHANGED <<account, preAuth, access, expired, stored, req>>

\* The sixth digit submits.  The code is the app's for some secret in it, or wrong.
HandleTotpChange(r, t, code) ==
    /\ CodeScreen(t) /\ tab[t].token # 0
    /\ code \in scanned \cup {0}
    /\ Send(r, t, [NoRequest EXCEPT !.op = "verify", !.token = tab[t].token, !.code = code])
    /\ UNCHANGED <<account, preAuth, access, expired, stored, tab, scanned>>

\* Mutant of HandleResetAuth: loginStep is left as it is.
HandleResetAuthInPlace(t) ==
    /\ SetupScreen(t) \/ CodeScreen(t)
    /\ tab' = [tab EXCEPT ![t].token = 0, ![t].qr = 0]
    /\ UNCHANGED <<account, preAuth, access, expired, stored, req, scanned>>

\* "Cancel setup" and "Use a different account".
HandleResetAuth(t) ==
    /\ SetupScreen(t) \/ CodeScreen(t)
    /\ tab' = [tab EXCEPT ![t].token = 0, ![t].step = "idle", ![t].qr = 0]
    /\ UNCHANGED <<account, preAuth, access, expired, stored, req, scanned>>

\* Any page of the console fetches its data.
ConsoleRead(r, t) ==
    /\ tab[t].page = "console" /\ ~Pending(t, "read")
    /\ Send(r, t, [NoRequest EXCEPT !.op = "read", !.bearer = stored])
    /\ UNCHANGED <<account, preAuth, access, expired, stored, tab, scanned>>

Logout(t) ==
    /\ tab[t].page = "console"
    /\ stored' = 0
    /\ tab' = [tab EXCEPT ![t] = Loaded("login", 0)]
    /\ req' = Orphaned(req, t)
    /\ UNCHANGED <<account, preAuth, access, expired, scanned>>

-----------------------------------------------------------------------------
(* The backend, one statement at a time.                                   *)

\* Of an answer only the status and what it carries are kept.
Answer(r, code, new) ==
    req' = [req EXCEPT ![r] = [NoRequest EXCEPT !.op = req[r].op, !.tab = req[r].tab,
                                                !.phase = "answered", !.answer = code,
                                                !.new = new]]

\* The right password: a new pre-auth token; the answer says whether the
\* account still needs an authenticator.
AuthenticatePassword(r) ==
    /\ req[r].op = "password" /\ req[r].phase = "sent"
    /\ Len(preAuth) < MaxLogins
    /\ preAuth' = Append(preAuth, [st |-> "live", fails |-> 0])
    /\ req' = [req EXCEPT ![r].phase = "answered", ![r].answer = 200,
                          ![r].new = Len(preAuth) + 1, ![r].row = account]
    /\ UNCHANGED <<account, access, expired, stored, tab, scanned>>

WrongPassword(r) ==
    /\ req[r].op = "password" /\ req[r].phase = "sent"
    /\ Answer(r, 401, 0)
    /\ UNCHANGED <<account, preAuth, access, expired, stored, tab, scanned>>

\* _validate_pre_auth_token, the first statement of setup_totp and verify_totp.
Validate(r) ==
    /\ req[r].op \in {"setup", "verify"} /\ req[r].phase = "sent"
    /\ IF preAuth[req[r].token].st = "live"
       THEN req' = [req EXCEPT ![r].phase = "validated", ![r].row = account]
       ELSE Answer(r, 401, 0)
    /\ UNCHANGED <<account, preAuth, access, expired, stored, tab, scanned>>

\* Mutant of AlreadyConfigured: the 409 is forgotten.
AlreadyConfiguredNever(row) == FALSE

\* "TOTP is already configured": decided on the row Validate read.
AlreadyConfigured(row) == row.secret # 0 /\ row.verified

SetupTotp(r) ==
    /\ req[r].op = "setup" /\ req[r].phase = "validated"
    /\ \/ /\ AlreadyConfigured(req[r].row)
          /\ Answer(r, 409, 0)
          /\ UNCHANGED account
       \/ /\ ~AlreadyConfigured(req[r].row) /\ account.secret < MaxSecrets
          /\ account' = [account EXCEPT !.secret = @ + 1]
          /\ Answer(r, 200, account.secret + 1)
    /\ UNCHANGED <<preAuth, access, expired, stored, tab, scanned>>

\* Mutant of Spent: the UPDATE of used_at is forgotten.
SpentNever(i) == preAuth

\* UPDATE super_admin_pre_auth_tokens SET used_at = NOW().
Spent(i) == [preAuth EXCEPT ![i].st = "used"]

\* Mutant of LockedOut: the attempts in Redis are not looked at.
LockedOutNever(i) == FALSE

\* The attempts in Redis have reached the limit.
LockedOut(i) == preAuth[i].fails >= MaxAttempts

\* The backend is at this point of verify_totp.  (Its answer to an account without
\* a secret cannot be reached from the login page: a code is asked for only after
\* the QR code has come.)
Verifying(r, phase) == req[r].op = "verify" /\ req[r].phase = phase

\* It goes on to the next one, which needs the token alone.
GoOn(r, phase) ==
    req' = [req EXCEPT ![r] = [NoRequest EXCEPT !.op = "verify", !.tab = req[r].tab,
                                                !.token = req[r].token, !.phase = phase]]

\* redis.get
ReadAttempts(r) ==
    /\ Verifying(r, "validated")
    /\ IF LockedOut(req[r].token) THEN GoOn(r, "spending")
                                  ELSE req' = [req EXCEPT ![r].phase = "open"]
    /\ UNCHANGED <<account, preAuth, access, expired, stored, tab, scanned>>

\* The code is not the one for the secret Validate read: INCR.
WrongCode(r) ==
    LET i == req[r].token
    IN  /\ Verifying(r, "open") /\ req[r].code # req[r].row.secret
        /\ preAuth' = [preAuth EXCEPT ![i].fails = @ + 1]
        /\ IF preAuth[i].fails + 1 >= MaxAttempts THEN GoOn(r, "spending")
                                                 ELSE Answer(r, 401, 0)
        /\ UNCHANGED <<account, access, expired, stored, tab, scanned>>

SpendToken(r) ==
    /\ Verifying(r, "spending")
    /\ preAuth' = Spent(req[r].token)
    /\ Answer(r, 401, 0)
    /\ UNCHANGED <<account, access, expired, stored, tab, scanned>>

\* It is: the pre-auth token is consumed,
RightCode(r) ==
    /\ Verifying(r, "open") /\ req[r].code = req[r].row.secret
    /\ preAuth' = Spent(req[r].token)
    /\ GoOn(r, "consumed")
    /\ UNCHANGED <<account, access, expired, stored, tab, scanned>>

\* the attempts are deleted,
ClearAttempts(r) ==
    /\ Verifying(r, "consumed")
    /\ preAuth' = [preAuth EXCEPT ![req[r].token].fails = 0]
    /\ GoOn(r, "cleared")
    /\ UNCHANGED <<account, access, expired, stored, tab, scanned>>

\* the account is complete,
CompleteSetup(r) ==
    /\ Verifying(r, "cleared")
    /\ account' = [account EXCEPT !.verified = TRUE]
    /\ GoOn(r, "verified")
    /\ UNCHANGED <<preAuth, access, expired, stored, tab, scanned>>

\* and the access token is made.
IssueToken(r) ==
    /\ Verifying(r, "verified") /\ Len(access) < MaxTokens
    /\ access' = Append(access, req[r].token)
    /\ Answer(r, 200, Len(access) + 1)
    /\ UNCHANGED <<account, preAuth, expired, stored, tab, scanned>>

\* The backend dies, or a statement raises, between any two of these.
CutShort(r) ==
    /\ req[r].phase \in Working
    /\ req' = [req EXCEPT ![r] = NoRequest]
    /\ UNCHANGED <<account, preAuth, access, expired, stored, tab, scanned>>

\* get_current_super_admin: a token that is missing or expired gets a 401.
ServeRead(r) ==
    /\ req[r].op = "read" /\ req[r].phase = "sent"
    /\ Answer(r, IF Live(req[r].bearer) THEN 200 ELSE 401, 0)
    /\ UNCHANGED <<account, preAuth, access, expired, stored, tab, scanned>>

PreAuthExpires(i) ==
    /\ i \in DOMAIN preAuth /\ preAuth[i].st = "live"
    /\ preAuth' = [preAuth EXCEPT ![i].st = "expired"]
    /\ UNCHANGED <<account, access, expired, stored, tab, req, scanned>>

AccessExpires ==
    /\ expired < Len(access)
    /\ expired' = expired + 1
    /\ UNCHANGED <<account, preAuth, access, stored, tab, req, scanned>>

-----------------------------------------------------------------------------
(* The answers reach their tabs.                                           *)

Heard(r, op) == req[r].op = op /\ req[r].phase = "answered" /\ req[r].tab # Nobody

Done(r) == [req EXCEPT ![r] = NoRequest]

\* usePasswordLogin's onSuccess.  On the QR screen the effect asks for the
\* secret at once; an older request for one loses its callbacks.
PasswordArrives(r) ==
    LET t == req[r].tab
        p == req[r].new
        setup == ~req[r].row.verified
    IN  /\ Heard(r, "password") /\ req[r].answer = 200
        /\ tab' = [tab EXCEPT ![t].token = p,
                              ![t].step = IF setup THEN "totp_setup" ELSE "totp_verify"]
        /\ req' = IF setup
                  THEN [Orphaned(req, t) EXCEPT ![r] =
                          [NoRequest EXCEPT !.op = "setup", !.tab = t, !.token = p]]
                  ELSE Done(r)
        /\ UNCHANGED <<account, preAuth, access, expired, stored, scanned>>

SetupArrives(r) ==
    /\ Heard(r, "setup") /\ req[r].answer = 200
    /\ tab' = [tab EXCEPT ![req[r].tab].qr = req[r].new]
    /\ req' = Done(r)
    /\ UNCHANGED <<account, preAuth, access, expired, stored, scanned>>

\* login() of the context, and the way to the dashboard.
SignedIn(t) == [tab EXCEPT ![t].page = "console", ![t].step = "done"]

VerifyArrives(r) ==
    /\ Heard(r, "verify") /\ req[r].answer = 200
    /\ stored' = req[r].new
    /\ tab' = SignedIn(req[r].tab)
    /\ req' = Done(r)
    /\ UNCHANGED <<account, preAuth, access, expired, scanned>>

ReadArrives(r) ==
    /\ Heard(r, "read") /\ req[r].answer = 200
    /\ req' = Done(r)
    /\ UNCHANGED <<account, preAuth, access, expired, stored, tab, scanned>>

\* The response interceptor on a 401: the token goes, and a tab that is not on
\* the login page loads it.
Refused(r) ==
    LET t == req[r].tab
    IN  /\ req[r].op # "none" /\ Heard(r, req[r].op) /\ req[r].answer = 401
        /\ stored' = 0
        /\ IF tab[t].page = "login"
           THEN tab' = tab /\ req' = Done(r)
           ELSE tab' = [tab EXCEPT ![t] = Loaded("login", 0)] /\ req' = Orphaned(Done(r), t)
        /\ UNCHANGED <<account, preAuth, access, expired, scanned>>

\* A 409, and an answer whose page is gone: no state of the browser changes.
Unheard(r) ==
    /\ req[r].op # "none" /\ req[r].phase = "answered"
    /\ req[r].tab = Nobody \/ req[r].answer = 409
    /\ req' = Done(r)
    /\ UNCHANGED <<account, preAuth, access, expired, stored, tab, scanned>>

\* A request never reaches the backend, or its answer never reaches the page,
\* which sees an error that is not a 401.
Lost(r) ==
    /\ req[r].tab # Nobody
    /\ \/ req[r].phase = "sent" /\ req' = Done(r)
       \/ req' = [req EXCEPT ![r].tab = Nobody]
    /\ UNCHANGED <<account, preAuth, access, expired, stored, tab, scanned>>

-----------------------------------------------------------------------------
Next ==
    \/ \E t \in Tabs : \/ \E p \in {"login", "console"} : Visit(t, p)
                       \/ ScannedIt(t) \/ HandleResetAuth(t) \/ Logout(t)
    \/ \E r \in Reqs, t \in Tabs :
          \/ OnPasswordSubmit(r, t) \/ ConsoleRead(r, t)
          \/ \E c \in 0 .. MaxSecrets : HandleTotpChange(r, t, c)
    \/ \E r \in Reqs :
          \/ AuthenticatePassword(r) \/ WrongPassword(r)
          \/ Validate(r) \/ SetupTotp(r) \/ ServeRead(r)
          \/ ReadAttempts(r) \/ WrongCode(r) \/ SpendToken(r)
          \/ RightCode(r) \/ ClearAttempts(r) \/ CompleteSetup(r) \/ IssueToken(r)
          \/ CutShort(r)
          \/ PasswordArrives(r) \/ SetupArrives(r) \/ VerifyArrives(r) \/ ReadArrives(r)
          \/ Refused(r) \/ Unheard(r) \/ Lost(r)
    \/ \E i \in 1 .. MaxLogins : PreAuthExpires(i)
    \/ AccessExpires

Spec == Init /\ [][Next]_loginVars

-----------------------------------------------------------------------------
\* A tab that asks for a code, or is about to, holds the pre-auth token the code
\* is sent with: handleTotpChange drops a sixth digit when preAuthToken is null.
CodeCanBeSubmitted ==
    \A t \in Tabs : tab[t].step \in {"totp_setup", "totp_verify"} => tab[t].token # 0

\* The types, and CodeCanBeSubmitted: no reset, answer that comes late or reload
\* leaves a code form whose button can only fail.
LoginInv == TypeOK /\ CodeCanBeSubmitted

\* verify_totp reads the attempts, compares and counts in three steps, so requests
\* that overlap may all be let in by the read of the last one allowed.  That is all
\* they gain: never more wrong codes stand counted for a pre-auth token than the limit
\* and one for each further request at work, also when the backend dies before it
\* can mark the token as used, and codes sent one at a time never pass the limit.
GuessesBounded ==
    \A i \in DOMAIN preAuth : preAuth[i].fails <= MaxAttempts - 1 + Cardinality(Reqs)

\* A pre-auth token that has bought a session passes no later check: a second
\* session of one password takes two verify_totp that overlap (the first one's
\* answer was lost, the operator typed the code again, and both had run their SELECT).
SpentTokenIsRefused ==
    [][\A r \in Reqs : req[r].phase = "sent" /\ req'[r].phase = "validated"
         => \A i \in DOMAIN access : access[i] # req[r].token]_loginVars

\* The stored secret of an account that has completed setup is replaced only by
\* a setup_totp whose SELECT ran before the account was complete.
ReplacedOnlyByOverlap ==
    [][account.verified /\ account'.secret # account.secret
       => \E r \in Reqs : /\ req[r].op = "setup" /\ req[r].phase = "validated"
                          /\ ~req[r].row.verified]_loginVars

=============================================================================
