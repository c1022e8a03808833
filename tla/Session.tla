------------------------------- MODULE Session -------------------------------
(***************************************************************************)
(* The signed-in browser.  Every tab of the tenant portal runs the axios   *)
(* instance of lib/api.ts, whose response interceptor turns a 401 into one *)
(* POST /auth/refresh and holds the tab's other requests back meanwhile;   *)
(* the tabs share localStorage (lib/auth.ts).  The backend rotates refresh *)
(* tokens and revokes the family of one that is presented again            *)
(* (rotate_refresh_token), one SQL statement at a time.                    *)
(*                                                                         *)
(* Login and every rotation issue an access and a refresh token together,  *)
(* and the browser stores and clears them together: token i stands for the *)
(* i-th pair, 0 for none.  Access tokens have one lifetime, so they expire *)
(* in the order of issue; browser and server read the same clock.          *)
(***************************************************************************)
EXTENDS Integers, Sequences

CONSTANTS
    Tabs,
    Tenants,
    Nobody,     \* no tenant: signed out, or no ACTIVE_TENANT_KEY
    Reqs,       \* requests in the air at the same time
    TabOf,      \* [Reqs -> Tabs]
    Calls,      \* POST /auth/refresh requests the backend serves at once
    MaxTokens   \* bound: pairs of tokens issued in one behaviour

ASSUME SessionConstants ==
    /\ Nobody \notin Tenants \cup Tabs
    /\ TabOf \in [Reqs -> Tabs]
    /\ MaxTokens \in Nat

VARIABLES
    token,    \* refresh_tokens: owner, family and revoked of each row
    expired,  \* the access tokens 1..expired have expired
    stored,   \* localStorage: the pair kept for each tenant
    active,   \* localStorage: ACTIVE_TENANT_KEY
    tab,      \* user of AuthContext, the page, and isRefreshing of api.ts
    req,      \* the requests of all tabs
    call,     \* the refresh requests at the backend
    spent     \* the refresh tokens a page has sent since it was loaded

sessionVars == <<token, expired, stored, active, tab, req, call, spent>>

-----------------------------------------------------------------------------
Ids == 0 .. MaxTokens

\* A request is in the air ("sent"), waits in failedQueue ("queued") or has the
\* refresh under way ("refreshing").  bearer is its Authorization header
\* (0 where the server does not look at it or the interceptor will replace it), retry
\* the _retry mark; kind tells POST /auth/login and /auth/register from the rest.
Requests == [st : {"idle", "sent", "queued", "refreshing"},
             kind : {"api", "login", "register"}, bearer : Ids, retry : BOOLEAN]

NoRequest == [st |-> "idle", kind |-> "api", bearer |-> 0, retry |-> FALSE]

\* A refresh request belongs to a tab until the tab's page is gone.
CallRows == [phase : {"idle", "sent", "read", "revoked", "issued", "refused"},
             token : Ids, new : Ids, tab : Tabs \cup {Nobody}]

NoCall == [phase |-> "idle", token |-> 0, new |-> 0, tab |-> Nobody]

TypeOK ==
    /\ token \in Seq([owner : Tenants, family : Ids, revoked : BOOLEAN])
    /\ Len(token) \in Ids /\ expired \in 0 .. Len(token)
    /\ stored \in [Tenants -> 0 .. Len(token)]
    /\ active \in Tenants \cup {Nobody}
    /\ tab \in [Tabs -> [user : Tenants \cup {Nobody}, page : {"login", "register", "app"},
                         isRefreshing : BOOLEAN]]
    /\ req \in [Reqs -> Requests]
    /\ call \in [Calls -> CallRows]
    /\ spent \in [Tabs -> SUBSET Ids]

Init ==
    /\ token = <<>> /\ expired = 0
    /\ stored = [t \in Tenants |-> 0] /\ active = Nobody
    /\ tab = [w \in Tabs |-> [user |-> Nobody, page |-> "login",
                              isRefreshing |-> FALSE]]
    /\ req = [r \in Reqs |-> NoRequest]
    /\ call = [c \in Calls |-> NoCall]
    /\ spent = [w \in Tabs |-> {}]

-----------------------------------------------------------------------------
\* The pair of the active tenant, and the token a new request carries.
GetToken == IF active = Nobody THEN 0 ELSE stored[active]

GetRefreshToken == GetToken

IsTokenExpired(k) == k <= expired

GetRequestToken == IF IsTokenExpired(GetToken) THEN 0 ELSE GetToken

SaveTokens(k, tn) ==
    /\ stored' = [stored EXCEPT ![tn] = k]
    /\ active' = tn

ClearToken ==
    /\ stored' = IF active = Nobody THEN stored
                 ELSE [stored EXCEPT ![active] = 0]
    /\ active' = Nobody

\* Mutant of ClearAllTenantTokens: the keys are not found.
ClearNothing == UNCHANGED <<stored, active>>

ClearAllTenantTokens ==
    /\ stored' = [t \in Tenants |-> 0]
    /\ active' = Nobody

\* Mutant of Load: the redirect stays inside the single-page application, and
\* the module's state with it.
LoadInPlace(w, user, page) ==
    /\ tab' = [tab EXCEPT ![w] = [user |-> user, page |-> page,
                                  isRefreshing |-> TRUE]]
    /\ req' = [r \in Reqs |-> IF TabOf[r] = w THEN NoRequest ELSE req[r]]
    /\ UNCHANGED spent

\* A document is loaded in tab w: the script's state starts over and initAuth
\* reads localStorage.  ProtectedRoute lets nobody in who is not signed in.
Load(w, user, page) ==
    /\ tab' = [tab EXCEPT ![w] = [user |-> user, page |-> page,
                                  isRefreshing |-> FALSE]]
    /\ req' = [r \in Reqs |-> IF TabOf[r] = w THEN NoRequest ELSE req[r]]
    /\ spent' = [spent EXCEPT ![w] = {}]

Abandon(w) == [c \in Calls |->
    IF call[c].tab = w THEN [call[c] EXCEPT !.tab = Nobody] ELSE call[c]]

\* window.location.href = '/login', with the tokens gone.
RedirectToLogin(w) == Load(w, Nobody, "login") /\ call' = Abandon(w)

Reload(w) ==
    /\ \/ /\ GetRequestToken # 0 /\ Load(w, active, tab[w].page)
          /\ UNCHANGED <<stored, active>>
       \/ /\ GetRequestToken = 0 /\ GetToken # 0 /\ ClearToken
          /\ Load(w, Nobody, "login")
       \/ /\ GetToken = 0 /\ Load(w, Nobody, "login")
          /\ UNCHANGED <<stored, active>>
    /\ call' = Abandon(w)
    /\ UNCHANGED <<token, expired>>

\* A link to /login or /register: the page changes, the script goes on.
OpenPublic(w, page) ==
    /\ tab[w].page # page
    /\ tab' = [tab EXCEPT ![w].page = page]
    /\ UNCHANGED <<token, expired, stored, active, req, call, spent>>

Logout(w) ==
    /\ tab[w].user # Nobody
    /\ ClearAllTenantTokens
    /\ RedirectToLogin(w)
    /\ UNCHANGED <<token, expired>>

-----------------------------------------------------------------------------
Send(r, kind) ==
    /\ req[r].st = "idle"
    /\ req' = [req EXCEPT ![r] =
          [st |-> "sent", kind |-> kind, retry |-> FALSE,
           bearer |-> IF kind = "api" THEN GetRequestToken ELSE 0]]
    /\ UNCHANGED <<token, expired, stored, active, tab, call, spent>>

\* A page of a signed-in user calls the API.
Request(r) == tab[TabOf[r]].user # Nobody /\ Send(r, "api")

\* The two forms; their button is disabled while a request of theirs is pending.
SubmitLogin(r) ==
    /\ tab[TabOf[r]].page = "login"
    /\ \A q \in Reqs : TabOf[q] = TabOf[r] => req[q].kind # "login"
    /\ Send(r, "login")

SubmitRegister(r) ==
    /\ tab[TabOf[r]].page = "register"
    /\ \A q \in Reqs : TabOf[q] = TabOf[r] => req[q].kind # "register"
    /\ Send(r, "register")

Settle(r) == req' = [req EXCEPT ![r] = NoRequest]

\* login() of AuthContext, and the way to the dashboard of the role.
SignIn(w, k, tn) ==
    /\ SaveTokens(k, tn)
    /\ tab' = [tab EXCEPT ![w].user = tn, ![w].page = "app"]

\* The credentials are right, or the account is new: a new family.
LoginSucceeds(r, tn) ==
    /\ req[r].st = "sent" /\ req[r].kind # "api"
    /\ Len(token) < MaxTokens
    /\ token' = Append(token, [owner |-> tn, family |-> Len(token) + 1,
                               revoked |-> FALSE])
    /\ SignIn(TabOf[r], Len(token) + 1, tn)
    /\ Settle(r)
    /\ UNCHANGED <<expired, call, spent>>

\* Any answer but a 401: data, or an error the interceptor hands on (a 429
\* becomes a RateLimitedError).
Answer(r) ==
    /\ req[r].st = "sent"
    /\ Settle(r)
    /\ UNCHANGED <<token, expired, stored, active, tab, call, spent>>

\* The answer is 401: wrong credentials, or no valid token.
Unauthorised(r) ==
    /\ req[r].st = "sent"
    /\ \/ req[r].kind = "login"
       \/ req[r].kind = "api" /\ IsTokenExpired(req[r].bearer)

\* Second 401 for the same request: it is rejected.
RejectRetried(r) ==
    /\ Unauthorised(r) /\ req[r].retry
    /\ Settle(r)
    /\ UNCHANGED <<token, expired, stored, active, tab, call, spent>>

\* Mutant of MustWait: isRefreshing is not looked at.
MustWaitNever(r) == FALSE

MustWait(r) == tab[TabOf[r]].isRefreshing

\* A refresh is under way: wait in failedQueue.
JoinQueue(r) ==
    /\ Unauthorised(r) /\ ~req[r].retry
    /\ MustWait(r)
    /\ req' = [req EXCEPT ![r].st = "queued", ![r].bearer = 0]
    /\ UNCHANGED <<token, expired, stored, active, tab, call, spent>>

\* No refresh token: the session is over.  isRefreshing, just set, stays set
\* unless the browser leaves the page.
GiveUp(r) ==
    /\ Unauthorised(r) /\ ~req[r].retry
    /\ ~MustWait(r)
    /\ GetRefreshToken = 0
    /\ ClearToken
    /\ \/ tab[TabOf[r]].page # "login" /\ RedirectToLogin(TabOf[r])
       \/ /\ tab[TabOf[r]].page = "login"
          /\ tab' = [tab EXCEPT ![TabOf[r]].isRefreshing = TRUE]
          /\ Settle(r)
          /\ UNCHANGED <<call, spent>>
    /\ UNCHANGED <<token, expired>>

StartRefresh(r, c) ==
    /\ Unauthorised(r) /\ ~req[r].retry
    /\ ~MustWait(r)
    /\ GetRefreshToken # 0
    /\ call[c].phase = "idle"
    /\ call' = [call EXCEPT ![c] = [phase |-> "sent", token |-> GetRefreshToken,
                                    new |-> 0, tab |-> TabOf[r]]]
    /\ tab' = [tab EXCEPT ![TabOf[r]].isRefreshing = TRUE]
    /\ req' = [req EXCEPT ![r].st = "refreshing", ![r].bearer = 0,
                          ![r].retry = TRUE]
    /\ spent' = [spent EXCEPT ![TabOf[r]] = @ \cup {GetRefreshToken}]
    /\ UNCHANGED <<token, expired, stored, active>>

\* Mutant of ProcessQueue: failedQueue is dropped, nobody in it resolved.
ProcessQueueDropped(w, k) == [r \in Reqs |->
    IF TabOf[r] # w \/ req[r].st # "refreshing" THEN req[r]
    ELSE IF k = 0 THEN NoRequest
    ELSE [req[r] EXCEPT !.st = "sent", !.bearer = k]]

\* failedQueue is emptied: everybody in it is sent again with the new token k,
\* or rejected.
ProcessQueue(w, k) == [r \in Reqs |->
    IF TabOf[r] # w \/ req[r].st \notin {"queued", "refreshing"} THEN req[r]
    ELSE IF k = 0 THEN NoRequest
    ELSE [req[r] EXCEPT !.st = "sent", !.bearer = k]]

\* The new pair is stored; the request itself is sent again as well.
RefreshDone(w, c) ==
    /\ call[c].tab = w /\ call[c].phase = "issued"
    /\ SaveTokens(call[c].new, token[call[c].new].owner)
    /\ tab' = [tab EXCEPT ![w].isRefreshing = FALSE]
    /\ req' = ProcessQueue(w, call[c].new)
    /\ call' = [call EXCEPT ![c] = NoCall]
    /\ UNCHANGED <<token, expired, spent>>

\* The refresh is refused or its answer lost: everybody waiting is rejected and
\* every token in localStorage removed.
RefreshFails(w, c) ==
    /\ call[c].tab = w /\ call[c].phase \in {"issued", "refused"}
    /\ ClearAllTenantTokens
    /\ \/ /\ tab[w].page # "login" /\ Load(w, Nobody, "login")
          /\ call' = [Abandon(w) EXCEPT ![c] = NoCall]
       \/ /\ tab[w].page = "login"
          /\ tab' = [tab EXCEPT ![w].isRefreshing = FALSE]
          /\ req' = ProcessQueue(w, 0)
          /\ call' = [call EXCEPT ![c] = NoCall]
          /\ UNCHANGED spent
    /\ UNCHANGED <<token, expired>>

-----------------------------------------------------------------------------
\* rotate_refresh_token: SELECT, then UPDATE of the row, then INSERT.
Row(c) == token[call[c].token]

RotateRead(c) ==
    /\ call[c].phase = "sent" /\ ~Row(c).revoked
    /\ call' = [call EXCEPT ![c].phase = "read"]
    /\ UNCHANGED <<token, expired, stored, active, tab, req, spent>>

\* A revoked token: the whole family is revoked.
RotateReuse(c) ==
    /\ call[c].phase = "sent" /\ Row(c).revoked
    /\ token' = [i \in DOMAIN token |->
          [token[i] EXCEPT !.revoked = @ \/ token[i].family = Row(c).family]]
    /\ call' = [call EXCEPT ![c].phase = "refused"]
    /\ UNCHANGED <<expired, stored, active, tab, req, spent>>

RotateRevoke(c) ==
    /\ call[c].phase = "read"
    /\ token' = [token EXCEPT ![call[c].token].revoked = TRUE]
    /\ call' = [call EXCEPT ![c].phase = "revoked"]
    /\ UNCHANGED <<expired, stored, active, tab, req, spent>>

RotateInsert(c) ==
    /\ call[c].phase = "revoked" /\ Len(token) < MaxTokens
    /\ token' = Append(token, [Row(c) EXCEPT !.revoked = FALSE])
    /\ call' = [call EXCEPT ![c].phase = "issued", ![c].new = Len(token) + 1]
    /\ UNCHANGED <<expired, stored, active, tab, req, spent>>

\* The token has expired, the tenant is suspended, the user is deactivated, a
\* statement raises, or the request never arrives.
RotateRefuse(c) ==
    /\ call[c].phase \in {"sent", "read", "revoked"}
    /\ call' = [call EXCEPT ![c].phase = "refused"]
    /\ UNCHANGED <<token, expired, stored, active, tab, req, spent>>

\* The answer goes to a page that is gone.
AnswerNobody(c) ==
    /\ call[c].tab = Nobody /\ call[c].phase \in {"issued", "refused"}
    /\ call' = [call EXCEPT ![c] = NoCall]
    /\ UNCHANGED <<token, expired, stored, active, tab, req, spent>>

\* Half an hour passes: the oldest access token still valid expires.
Expire ==
    /\ expired < Len(token)
    /\ expired' = expired + 1
    /\ UNCHANGED <<token, stored, active, tab, req, call, spent>>

-----------------------------------------------------------------------------
Interceptor(r) ==
    RejectRetried(r) \/ JoinQueue(r) \/ GiveUp(r)
        \/ \E c \in Calls : StartRefresh(r, c)

Answered(r) ==
    Answer(r) \/ Interceptor(r)
        \/ \E tn \in Tenants : LoginSucceeds(r, tn)

Rotate(c) == RotateRead(c) \/ RotateReuse(c) \/ RotateRevoke(c)
                \/ RotateInsert(c) \/ RotateRefuse(c)

Deliver(c) == AnswerNobody(c)
                \/ \E w \in Tabs : RefreshDone(w, c) \/ RefreshFails(w, c)

Next ==
    \/ \E w \in Tabs : Reload(w) \/ Logout(w)
    \/ \E w \in Tabs, page \in {"login", "register"} : OpenPublic(w, page)
    \/ \E r \in Reqs :
          Request(r) \/ SubmitLogin(r) \/ SubmitRegister(r)
             \/ Answered(r)
    \/ \E c \in Calls : Rotate(c) \/ Deliver(c)
    \/ Expire

Spec == Init /\ [][Next]_sessionVars

\* Every HTTP request is answered or fails in the end, and the backend goes on
\* with one it has begun.
FairSpec ==
    /\ Spec
    /\ \A r \in Reqs : WF_sessionVars(Answered(r))
    /\ \A c \in Calls : WF_sessionVars(Rotate(c)) /\ WF_sessionVars(Deliver(c))

-----------------------------------------------------------------------------
Refreshing(w) == \E r \in Reqs : TabOf[r] = w /\ req[r].st = "refreshing"

\* isRefreshing is set and nobody is refreshing: no request of this page will
\* ever be refreshed again, and each that is answered 401 waits for ever.
Wedged(w) == tab[w].isRefreshing /\ ~Refreshing(w)

\* A page presents a refresh token once: whatever its requests, the other tabs
\* and the backend do, the interceptor never sends a token it has sent before,
\* so a page by itself never looks like a thief to rotate_refresh_token.
SpentOnce ==
    [][\A c \in Calls, w \in Tabs :
          (call[c].phase = "idle" /\ call'[c].phase = "sent" /\ call'[c].tab = w)
              => call'[c].token \notin spent[w]]_sessionVars

\* While a page refreshes, its flag is set, exactly one refresh request is its
\* own, and it is for one request of the page.
OneRefreshPerPage ==
    \A w \in Tabs :
        LET mine == {c \in Calls : call[c].tab = w} IN
        /\ mine = {} \/ \E c \in Calls : mine = {c}
        /\ Refreshing(w) <=> mine # {}
        /\ Refreshing(w) => tab[w].isRefreshing

\* The types, and OneRefreshPerPage: the interceptor's flag and queue let one refresh
\* out at a time, however many requests meet a 401.
SessionInv == TypeOK /\ OneRefreshPerPage

\* Only the early return for a missing refresh token wedges a page, and only on
\* /login, where the browser is not sent away.
WedgedOnlyAtLogin ==
    [][\A w \in Tabs : (~Wedged(w) /\ Wedged(w)') =>
          tab[w].page = "login" /\ GetToken = 0]_sessionVars

\* Every request a page makes settles, or the page is wedged: those held back
\* in failedQueue are woken when the refresh ends, whichever way it ends.
RequestsSettle ==
    \A r \in Reqs :
        req[r].st # "idle" ~> (req[r].st = "idle" \/ Wedged(TabOf[r]))

=============================================================================
