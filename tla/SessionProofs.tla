--------------------------- MODULE SessionProofs ---------------------------
(***************************************************************************)
(* Proofs about Session, for any number of tabs, tenants, requests, refresh*)
(* requests and tokens.                                                    *)
(*                                                                         *)
(* The interceptor decides by isRefreshing, which says nothing about the   *)
(* tokens: that a page never sends a refresh token twice follows from what *)
(* localStorage can hold.  A token a page has sent stays in localStorage   *)
(* only while its refresh is under way (SpentOK), because the answer       *)
(* overwrites it where it is kept (OwnersOK: under its owner) with a token *)
(* nobody has seen yet (FreshOK), and a failure clears everything.         *)
(***************************************************************************)
EXTENDS Session, SequenceTheorems, TLAPS

TokenRows == [owner : Tenants, family : Ids, revoked : BOOLEAN]
TabRows == [user : Tenants \cup {Nobody}, page : {"login", "register", "app"},
            isRefreshing : BOOLEAN]

\* A refresh request presents a token there is, and is answered with one of the
\* same tenant.
CallsOK ==
    \A c \in Calls :
        /\ call[c].phase = "idle" => call[c] = NoCall
        /\ call[c].phase # "idle" => call[c].token \in 1 .. Len(token)
        /\ call[c].phase = "issued" =>
              /\ call[c].new \in 1 .. Len(token)
              /\ token[call[c].new].owner = token[call[c].token].owner

\* A token that is still on its way to a page has been sent by none and stored for
\* nobody.
FreshOK ==
    \A c \in Calls : call[c].phase = "issued" =>
        /\ \A w \in Tabs : call[c].new \notin spent[w]
        /\ \A tn \in Tenants : stored[tn] # call[c].new
        /\ \A d \in Calls : call[d].phase = "issued" /\ call[d].new = call[c].new => d = c

OwnersOK == \A tn \in Tenants : stored[tn] # 0 => token[stored[tn]].owner = tn

\* A stored token that a page has sent is the one it is refreshing.
SpentOK ==
    \A w \in Tabs :
        /\ spent[w] \subseteq 1 .. Len(token)
        /\ \A tn \in Tenants : stored[tn] \in spent[w] =>
              \E c \in Calls : call[c].tab = w /\ call[c].token = stored[tn]

\* OneRefreshPerPage, without the set.
PageOK(w) ==
    /\ \A c, d \in Calls : call[c].tab = w /\ call[d].tab = w => c = d
    /\ Refreshing(w) <=> \E c \in Calls : call[c].tab = w
    /\ Refreshing(w) => tab[w].isRefreshing

PagesOK == \A w \in Tabs : PageOK(w)

SessionIInv == TypeOK /\ CallsOK /\ FreshOK /\ OwnersOK /\ SpentOK /\ PagesOK

\* What a step may do to a page and with a token.
Wedging == \A w \in Tabs : ~Wedged(w) /\ Wedged(w)' => tab[w].page = "login" /\ GetToken = 0

Presenting ==
    \A c \in Calls, w \in Tabs :
        call[c].phase = "idle" /\ call'[c].phase = "sent" /\ call'[c].tab = w
            => call'[c].token \notin spent[w]

-----------------------------------------------------------------------------
\* The two ways to say that a page refreshes once at a time.
LEMMA PagesAreSingle == PagesOK => OneRefreshPerPage
<1> SUFFICES ASSUME PagesOK, NEW w \in Tabs
             PROVE  LET mine == {c \in Calls : call[c].tab = w} IN
                    /\ mine = {} \/ \E c \in Calls : mine = {c}
                    /\ Refreshing(w) <=> mine # {}
                    /\ Refreshing(w) => tab[w].isRefreshing
    BY DEF OneRefreshPerPage
<1> DEFINE mine == {c \in Calls : call[c].tab = w}
<1>1. PageOK(w)
    BY DEF PagesOK
<1>2. ASSUME mine # {} PROVE \E c \in Calls : mine = {c}
    <2>1. PICK c \in Calls : call[c].tab = w
        BY <1>2
    <2>2. mine = {c}
        BY <1>1, <2>1 DEF PageOK
    <2> QED
        BY <2>2
<1>3. Refreshing(w) <=> mine # {}
    BY <1>1 DEF PageOK
<1> QED
    BY <1>1, <1>2, <1>3 DEF PageOK

\* The numbers the tokens go by.
LEMMA TokenNumbers ==
    ASSUME TypeOK
    PROVE  /\ token \in Seq(TokenRows) /\ Len(token) \in Nat /\ Len(token) <= MaxTokens
           /\ MaxTokens \in Nat /\ 0 \in Ids
           /\ \A k \in 0 .. Len(token) : k \in Ids
           /\ Len(token) < MaxTokens => Len(token) + 1 \in Ids
           /\ GetToken \in 0 .. Len(token) /\ GetRequestToken \in 0 .. Len(token)
<1>1. token \in Seq(TokenRows)
    BY DEF TypeOK, TokenRows
<1>2. Len(token) \in Nat
    BY <1>1, LenProperties
<1>3. Len(token) <= MaxTokens /\ MaxTokens \in Nat
    BY SessionConstants DEF TypeOK, Ids
<1>4. GetToken \in 0 .. Len(token)
    BY <1>2 DEF TypeOK, GetToken
<1>5. GetRequestToken \in 0 .. Len(token)
    BY <1>2, <1>4 DEF GetRequestToken
<1> QED
    BY <1>1, <1>2, <1>3, <1>4, <1>5 DEF Ids

\* A statement of the backend revokes rows or adds one.
LEMMA TokensChange ==
    ASSUME TypeOK, NEW c \in Calls, call[c].phase # "idle" => call[c].token \in 1 .. Len(token)
    PROVE  /\ RotateReuse(c) \/ RotateRevoke(c) =>
                 /\ token' \in Seq(TokenRows) /\ Len(token') = Len(token)
                 /\ \A i \in 1 .. Len(token) : token'[i].owner = token[i].owner
           /\ \A row \in TokenRows : token' = Append(token, row) =>
                 /\ token' \in Seq(TokenRows) /\ Len(token') = Len(token) + 1
                 /\ \A i \in 1 .. Len(token) : token'[i] = token[i]
                 /\ token'[Len(token) + 1] = row
<1>1. token \in Seq(TokenRows) /\ Len(token) \in Nat
    BY TokenNumbers
<1>2. DOMAIN token = 1 .. Len(token) /\ token \in [1 .. Len(token) -> TokenRows]
    BY <1>1, LenProperties
<1>3. ASSUME NEW f, f \in [1 .. Len(token) -> TokenRows]
      PROVE  f \in Seq(TokenRows) /\ Len(f) = Len(token)
    <2>1. f \in Seq(TokenRows)
        BY <1>1, <1>3, SeqDef
    <2>2. DOMAIN f = 1 .. Len(token) /\ DOMAIN f = 1 .. Len(f) /\ Len(f) \in Nat
        BY <1>3, <2>1, LenProperties
    <2> QED
        BY <1>1, <2>1, <2>2
<1>4. ASSUME RotateReuse(c)
      PROVE  /\ token' \in [1 .. Len(token) -> TokenRows]
             /\ \A i \in 1 .. Len(token) : token'[i].owner = token[i].owner
    <2>1. token' = [i \in 1 .. Len(token) |->
            [token[i] EXCEPT !.revoked = token[i].revoked \/ token[i].family = Row(c).family]]
        BY <1>2, <1>4 DEF RotateReuse
    <2>2. \A i \in 1 .. Len(token) : token[i] \in TokenRows
        BY <1>2
    <2> QED
        BY <2>1, <2>2 DEF TokenRows
<1>5. ASSUME RotateRevoke(c)
      PROVE  /\ token' \in [1 .. Len(token) -> TokenRows]
             /\ \A i \in 1 .. Len(token) : token'[i].owner = token[i].owner
    <2> DEFINE k == call[c].token
    <2>1. token' = [token EXCEPT ![k] = [token[k] EXCEPT !.revoked = TRUE]] /\ k \in 1 .. Len(token)
        BY <1>2, <1>5 DEF RotateRevoke
    <2>2. token[k] \in TokenRows
        BY <1>2, <2>1
    <2> HIDE DEF k
    <2>3. [token[k] EXCEPT !.revoked = TRUE] \in TokenRows
          /\ [token[k] EXCEPT !.revoked = TRUE].owner = token[k].owner
        BY <2>2 DEF TokenRows
    <2> QED
        BY <1>2, <2>1, <2>3
<1>6. \A row \in TokenRows : token' = Append(token, row) =>
                 /\ token' \in Seq(TokenRows) /\ Len(token') = Len(token) + 1
                 /\ \A i \in 1 .. Len(token) : token'[i] = token[i]
                 /\ token'[Len(token) + 1] = row
    BY <1>1, AppendProperties
<1> QED
    BY <1>3, <1>4, <1>5, <1>6

\* What every step has to keep.
Kept == SessionIInv' /\ Wedging /\ Presenting

\* A step that takes no token and touches no refresh request; localStorage may be
\* cleared.
LEMMA StoreFrame ==
    ASSUME SessionIInv, UNCHANGED <<call, token, spent>>,
           \A tn \in Tenants : stored'[tn] \in {stored[tn], 0}
    PROVE  CallsOK' /\ FreshOK' /\ OwnersOK' /\ SpentOK' /\ Presenting
<1>1. CallsOK' /\ Presenting
    BY DEF SessionIInv, CallsOK, Presenting
<1>2. FreshOK'
    <2>1. \A c \in Calls : call[c].phase = "issued" => call[c].new # 0
        BY DEF SessionIInv, CallsOK
    <2> QED
        BY <2>1 DEF SessionIInv, FreshOK
<1>3. OwnersOK'
    BY DEF SessionIInv, OwnersOK
<1>4. SpentOK'
    <2>1. \A w \in Tabs : 0 \notin spent[w]
        BY DEF SessionIInv, SpentOK
    <2> QED
        BY <2>1 DEF SessionIInv, SpentOK
<1> QED
    BY <1>1, <1>2, <1>3, <1>4

\* A step that begins and ends no refresh of a page.
LEMMA PageFrame ==
    ASSUME PagesOK, \A c \in Calls : call'[c].tab = call[c].tab,
           \A r \in Reqs : (req'[r].st = "refreshing") <=> (req[r].st = "refreshing"),
           \A w \in Tabs : tab'[w].isRefreshing = tab[w].isRefreshing
    PROVE  PagesOK' /\ Wedging
<1>1. \A w \in Tabs : Refreshing(w)' <=> Refreshing(w)
    BY DEF Refreshing
<1>2. PagesOK'
    BY <1>1 DEF PagesOK, PageOK
<1>3. Wedging
    BY <1>1 DEF Wedging, Wedged
<1> QED
    BY <1>2, <1>3

-----------------------------------------------------------------------------
\* One request goes on to another state than "refreshing".
LEMMA OneRequest ==
    ASSUME TypeOK, NEW r \in Reqs, req[r].st # "refreshing",
           NEW q \in Requests, q.st # "refreshing", req' = [req EXCEPT ![r] = q]
    PROVE  /\ req' \in [Reqs -> Requests]
           /\ \A s \in Reqs : (req'[s].st = "refreshing") <=> (req[s].st = "refreshing")
BY DEF TypeOK

LEMMA NoRequestType == NoRequest \in Requests /\ NoRequest.st # "refreshing"
BY SessionConstants DEF NoRequest, Requests, Ids

\* Requests are sent and answered; the page changes; time passes.
LEMMA PageStep ==
    ASSUME SessionIInv,
           \/ \E w \in Tabs, page \in {"login", "register"} : OpenPublic(w, page)
           \/ \E r \in Reqs : \/ Request(r) \/ SubmitLogin(r) \/ SubmitRegister(r)
                              \/ Answer(r) \/ RejectRetried(r) \/ JoinQueue(r)
           \/ Expire
    PROVE  Kept
<1>1. TypeOK /\ PagesOK /\ tab \in [Tabs -> TabRows] /\ req \in [Reqs -> Requests]
    BY DEF SessionIInv, TypeOK, TabRows
<1>2. UNCHANGED <<call, token, spent, stored, active>>
    BY DEF OpenPublic, Request, SubmitLogin, SubmitRegister, Send, Answer, RejectRetried,
           JoinQueue, Expire
<1>3. CallsOK' /\ FreshOK' /\ OwnersOK' /\ SpentOK' /\ Presenting
    BY <1>2, StoreFrame
<1>4. ASSUME NEW w \in Tabs, NEW page \in {"login", "register"}, OpenPublic(w, page)
      PROVE  Kept
    <2>1. tab' \in [Tabs -> TabRows] /\ \A v \in Tabs : tab'[v].isRefreshing = tab[v].isRefreshing
        BY <1>1, <1>4 DEF OpenPublic, TabRows
    <2>2. req' = req /\ expired' = expired
        BY <1>4 DEF OpenPublic
    <2>3. TypeOK'
        BY <1>1, <1>2, <2>1, <2>2 DEF TypeOK, TabRows
    <2>4. PagesOK' /\ Wedging
        BY <1>1, <1>2, <2>1, <2>2, PageFrame
    <2> QED
        BY <1>3, <2>3, <2>4 DEF Kept, SessionIInv
<1>5. ASSUME NEW r \in Reqs, NEW q \in Requests, req[r].st # "refreshing", q.st # "refreshing",
             req' = [req EXCEPT ![r] = q], UNCHANGED <<tab, expired>>
      PROVE  Kept
    <2>1. /\ req' \in [Reqs -> Requests]
          /\ \A s \in Reqs : (req'[s].st = "refreshing") <=> (req[s].st = "refreshing")
        BY <1>1, <1>5, OneRequest
    <2>2. TypeOK'
        BY <1>1, <1>2, <1>5, <2>1 DEF TypeOK
    <2>3. PagesOK' /\ Wedging
        BY <1>1, <1>2, <1>5, <2>1, PageFrame
    <2> QED
        BY <1>3, <2>2, <2>3 DEF Kept, SessionIInv
<1>6. ASSUME NEW r \in Reqs, NEW kind \in {"api", "login", "register"}, Send(r, kind)
      PROVE  Kept
    <2> DEFINE b == IF kind = "api" THEN GetRequestToken ELSE 0
               q == [st |-> "sent", kind |-> kind, retry |-> FALSE, bearer |-> b]
    <2>1. b \in Ids
        BY <1>1, TokenNumbers
    <2>2. req' = [req EXCEPT ![r] = q] /\ req[r].st = "idle" /\ UNCHANGED <<tab, expired>>
        BY <1>6 DEF Send
    <2> HIDE DEF b
    <2>3. q \in Requests /\ q.st = "sent"
        BY <2>1 DEF Requests
    <2> HIDE DEF q
    <2> QED
        BY <1>5, <2>2, <2>3
<1>7. ASSUME NEW r \in Reqs, Answer(r) \/ RejectRetried(r)
      PROVE  Kept
    <2>1. /\ req' = [req EXCEPT ![r] = NoRequest] /\ req[r].st = "sent"
          /\ UNCHANGED <<tab, expired>>
        BY <1>7 DEF Answer, RejectRetried, Unauthorised, Settle
    <2> QED
        BY <1>5, <2>1, NoRequestType
<1>8. ASSUME NEW r \in Reqs, JoinQueue(r)
      PROVE  Kept
    <2> DEFINE q == [req[r] EXCEPT !.st = "queued", !.bearer = 0]
    <2>1. /\ req' = [req EXCEPT ![r].st = "queued", ![r].bearer = 0] /\ req[r].st = "sent"
          /\ UNCHANGED <<tab, expired>>
        BY <1>8 DEF JoinQueue, Unauthorised
    <2>2. req' = [req EXCEPT ![r] = q]
        BY <1>1, <2>1
    <2>3. q \in Requests /\ q.st = "queued"
        BY <1>1, TokenNumbers DEF Requests
    <2> HIDE DEF q
    <2> QED
        BY <1>5, <2>1, <2>2, <2>3
<1>9. CASE Expire
    <2>1. req' = req /\ tab' = tab
        BY <1>9 DEF Expire
    <2>2. expired' \in 0 .. Len(token)
        BY <1>1, <1>9, TokenNumbers DEF Expire, TypeOK
    <2>3. TypeOK'
        BY <1>1, <1>2, <2>1, <2>2 DEF TypeOK
    <2>4. PagesOK' /\ Wedging
        BY <1>1, <1>2, <2>1, PageFrame
    <2> QED
        BY <1>3, <2>3, <2>4 DEF Kept, SessionIInv
<1> QED
    BY <1>4, <1>6, <1>7, <1>8, <1>9 DEF Request, SubmitLogin, SubmitRegister

-----------------------------------------------------------------------------
\* A document is loaded: the page's refresh goes on without it, or has just ended.
LEMMA LeaveStep ==
    ASSUME SessionIInv, NEW w \in Tabs, NEW user \in Tenants \cup {Nobody},
           NEW page \in {"login", "register", "app"}, Load(w, user, page),
           call' \in [Calls -> CallRows],
           \A c \in Calls : call[c].tab # w => call'[c] = call[c],
           \A c \in Calls : call[c].tab = w =>
                call'[c] = NoCall \/ call'[c] = [call[c] EXCEPT !.tab = Nobody],
           stored' \in [Tenants -> 0 .. Len(token)], active' \in Tenants \cup {Nobody},
           \A tn \in Tenants : stored'[tn] \in {stored[tn], 0}, UNCHANGED <<token, expired>>
    PROVE  Kept
<1>1. /\ TypeOK /\ tab \in [Tabs -> TabRows] /\ req \in [Reqs -> Requests]
      /\ call \in [Calls -> CallRows] /\ Nobody \notin Tabs
      /\ CallsOK /\ FreshOK /\ OwnersOK /\ SpentOK /\ PagesOK
    BY SessionConstants DEF SessionIInv, TypeOK, TabRows
<1>2. NoCall.phase = "idle" /\ NoCall.tab = Nobody
    BY DEF NoCall
<1>3. \A c \in Calls :
        \/ call'[c] = call[c] /\ call[c].tab # w
        \/ call'[c] = NoCall /\ call[c].tab = w
        \/ /\ call[c].tab = w /\ call'[c].tab = Nobody /\ call'[c].phase = call[c].phase
           /\ call'[c].token = call[c].token /\ call'[c].new = call[c].new
           /\ call[c].phase # "idle"
    BY <1>1, <1>2 DEF CallRows, CallsOK
<1>4. /\ tab' \in [Tabs -> TabRows] /\ tab'[w].isRefreshing = FALSE
      /\ \A v \in Tabs : v # w => tab'[v] = tab[v]
    BY <1>1 DEF Load, TabRows
<1>5. /\ req' \in [Reqs -> Requests]
      /\ \A r \in Reqs : TabOf[r] = w => req'[r].st # "refreshing"
      /\ \A r \in Reqs : TabOf[r] # w => req'[r] = req[r]
    BY <1>1, NoRequestType DEF Load
<1>6. spent'[w] = {} /\ \A v \in Tabs : v # w => spent'[v] = spent[v]
    BY DEF Load, SessionIInv, TypeOK
<1>7. TypeOK'
    <2>1. spent' \in [Tabs -> SUBSET Ids]
        BY DEF Load, SessionIInv, TypeOK
    <2> QED
        BY <1>1, <1>4, <1>5, <2>1 DEF TypeOK, TabRows
<1>8. CallsOK'
    BY <1>1, <1>2, <1>3 DEF CallsOK
<1>9. FreshOK'
    <2>1. \A c \in Calls : call'[c].phase = "issued" =>
            call[c].phase = "issued" /\ call'[c].new = call[c].new /\ call[c].new # 0
        BY <1>1, <1>2, <1>3 DEF CallsOK
    <2>2. \A v \in Tabs : spent'[v] \subseteq spent[v]
        BY <1>6
    <2> QED
        BY <1>1, <2>1, <2>2 DEF FreshOK
<1>10. OwnersOK'
    BY <1>1 DEF OwnersOK
<1>11. SpentOK'
    <2>1. \A v \in Tabs : 0 \notin spent[v]
        BY <1>1 DEF SpentOK
    <2>2. \A v \in Tabs : v # w =>
            \A c \in Calls : call[c].tab = v => call'[c] = call[c]
        OBVIOUS
    <2> QED
        BY <1>1, <1>6, <2>1, <2>2 DEF SpentOK
<1>12. \A v \in Tabs : /\ v = w => ~Refreshing(v)'
                       /\ v # w => (Refreshing(v)' <=> Refreshing(v))
    BY <1>5 DEF Refreshing
<1>13. PagesOK'
    <2>1. \A c \in Calls : /\ call'[c].tab # w
                           /\ \A v \in Tabs : v # w => (call'[c].tab = v <=> call[c].tab = v)
        BY <1>1, <1>2, <1>3
    <2> QED
        BY <1>1, <1>4, <1>12, <2>1 DEF PagesOK, PageOK
<1>14. Wedging
    BY <1>4, <1>12 DEF Wedging, Wedged
<1>15. Presenting
    BY <1>1, <1>2, <1>3 DEF Presenting, CallsOK
<1> QED
    BY <1>7, <1>8, <1>9, <1>10, <1>11, <1>13, <1>14, <1>15 DEF Kept, SessionIInv

\* What clearing leaves in localStorage.
LEMMA Clearing ==
    ASSUME TypeOK, \/ ClearToken \/ ClearAllTenantTokens \/ UNCHANGED <<stored, active>>
    PROVE  /\ stored' \in [Tenants -> 0 .. Len(token)] /\ active' \in Tenants \cup {Nobody}
           /\ \A tn \in Tenants : stored'[tn] \in {stored[tn], 0}
<1>1. /\ Len(token) \in Nat /\ stored \in [Tenants -> 0 .. Len(token)]
      /\ active \in Tenants \cup {Nobody} /\ 0 \in 0 .. Len(token)
    BY TokenNumbers DEF TypeOK
<1> QED
    BY <1>1 DEF ClearToken, ClearAllTenantTokens

\* What leaving a page does to its refresh request.
LEMMA Abandoning ==
    ASSUME TypeOK, NEW w \in Tabs
    PROVE  /\ Abandon(w) \in [Calls -> CallRows]
           /\ \A c \in Calls : call[c].tab # w => Abandon(w)[c] = call[c]
           /\ \A c \in Calls : call[c].tab = w => Abandon(w)[c] = [call[c] EXCEPT !.tab = Nobody]
BY DEF TypeOK, Abandon, CallRows

\* The user reloads the page or signs out.
LEMMA AwayStep ==
    ASSUME SessionIInv, NEW w \in Tabs, Reload(w) \/ Logout(w)
    PROVE  Kept
<1>1. TypeOK
    BY DEF SessionIInv
<1>2. /\ call' = Abandon(w) /\ UNCHANGED <<token, expired>>
      /\ \/ ClearToken \/ ClearAllTenantTokens \/ UNCHANGED <<stored, active>>
    BY DEF Reload, Logout, RedirectToLogin
<1>3. \E user \in Tenants \cup {Nobody}, page \in {"login", "register", "app"} :
        Load(w, user, page)
    <2>1. active \in Tenants \cup {Nobody} /\ tab[w].page \in {"login", "register", "app"}
        BY <1>1 DEF TypeOK
    <2>2. CASE Logout(w)
        BY <2>2 DEF Logout, RedirectToLogin
    <2>3. CASE Reload(w)
        BY <2>1, <2>3 DEF Reload
    <2> QED
        BY <2>2, <2>3
<1>4. PICK user \in Tenants \cup {Nobody}, page \in {"login", "register", "app"} :
        Load(w, user, page)
    BY <1>3
<1>5. /\ call' \in [Calls -> CallRows]
      /\ \A c \in Calls : call[c].tab # w => call'[c] = call[c]
      /\ \A c \in Calls : call[c].tab = w => call'[c] = [call[c] EXCEPT !.tab = Nobody]
    BY <1>1, <1>2, Abandoning
<1>6. /\ stored' \in [Tenants -> 0 .. Len(token)] /\ active' \in Tenants \cup {Nobody}
      /\ \A tn \in Tenants : stored'[tn] \in {stored[tn], 0}
    BY <1>1, <1>2, Clearing
<1> QED
    BY <1>2, <1>4, <1>5, <1>6, LeaveStep

\* No refresh token: off to /login, or wedged there.
LEMMA GiveUpStep ==
    ASSUME SessionIInv, NEW r \in Reqs, GiveUp(r)
    PROVE  Kept
<1> DEFINE w == TabOf[r]
<1>1. /\ TypeOK /\ PagesOK /\ w \in Tabs /\ tab \in [Tabs -> TabRows]
      /\ req[r].st = "sent" /\ GetToken = 0 /\ UNCHANGED <<token, expired>>
      /\ ClearToken
    BY SessionConstants DEF SessionIInv, TypeOK, TabRows, GiveUp, Unauthorised, GetRefreshToken
<1>2. /\ stored' \in [Tenants -> 0 .. Len(token)] /\ active' \in Tenants \cup {Nobody}
      /\ \A tn \in Tenants : stored'[tn] \in {stored[tn], 0}
    BY <1>1, Clearing
<1>3. CASE RedirectToLogin(w)
    <2>1. Load(w, Nobody, "login") /\ call' = Abandon(w)
        BY <1>3 DEF RedirectToLogin
    <2>2. /\ call' \in [Calls -> CallRows]
          /\ \A c \in Calls : call[c].tab # w => call'[c] = call[c]
          /\ \A c \in Calls : call[c].tab = w => call'[c] = [call[c] EXCEPT !.tab = Nobody]
        BY <1>1, <2>1, Abandoning
    <2> HIDE DEF w
    <2> QED
        BY <1>1, <1>2, <2>1, <2>2, LeaveStep
<1>4. CASE /\ tab[w].page = "login" /\ tab' = [tab EXCEPT ![w].isRefreshing = TRUE]
           /\ Settle(r) /\ UNCHANGED <<call, spent>>
    <2>1. CallsOK' /\ FreshOK' /\ OwnersOK' /\ SpentOK' /\ Presenting
        BY <1>1, <1>2, <1>4, StoreFrame
    <2>2. /\ req' \in [Reqs -> Requests]
          /\ \A s \in Reqs : (req'[s].st = "refreshing") <=> (req[s].st = "refreshing")
        BY <1>1, <1>4, NoRequestType, OneRequest DEF Settle
    <2>3. /\ tab' \in [Tabs -> TabRows] /\ tab'[w].isRefreshing
          /\ \A v \in Tabs : v # w => tab'[v] = tab[v]
        BY <1>1, <1>4 DEF TabRows
    <2>4. TypeOK'
        BY <1>1, <1>2, <1>4, <2>2, <2>3 DEF TypeOK, TabRows
    <2>5. \A v \in Tabs : Refreshing(v)' <=> Refreshing(v)
        BY <2>2 DEF Refreshing
    <2>6. PagesOK'
        BY <1>1, <1>4, <2>3, <2>5 DEF PagesOK, PageOK
    <2>7. Wedging
        BY <1>1, <1>4, <2>3, <2>5 DEF Wedging, Wedged
    <2> QED
        BY <2>1, <2>4, <2>6, <2>7 DEF Kept, SessionIInv
<1> QED
    BY <1>3, <1>4 DEF GiveUp

-----------------------------------------------------------------------------
(* The tokens: issued by login, presented, rotated and stored.             *)

LEMMA LoginStep ==
    ASSUME SessionIInv, NEW r \in Reqs, NEW tn \in Tenants, LoginSucceeds(r, tn)
    PROVE  Kept
<1> DEFINE w == TabOf[r]
           n == Len(token) + 1
           row == [owner |-> tn, family |-> n, revoked |-> FALSE]
<1>1. /\ TypeOK /\ CallsOK /\ FreshOK /\ OwnersOK /\ SpentOK /\ PagesOK /\ w \in Tabs
      /\ tab \in [Tabs -> TabRows] /\ stored \in [Tenants -> 0 .. Len(token)]
    BY SessionConstants DEF SessionIInv, TypeOK, TabRows
<1>2. /\ req[r].st = "sent" /\ Len(token) < MaxTokens /\ token' = Append(token, row)
      /\ stored' = [stored EXCEPT ![tn] = n] /\ active' = tn /\ Settle(r)
      /\ tab' = [tab EXCEPT ![w].user = tn, ![w].page = "app"]
      /\ UNCHANGED <<expired, call, spent>>
    BY DEF LoginSucceeds, SignIn, SaveTokens
<1>3. Len(token) \in Nat /\ n \in Ids /\ n \in Nat /\ n \notin 1 .. Len(token) /\ n # 0
    BY <1>1, <1>2, TokenNumbers
<1>4. row \in TokenRows /\ row.owner = tn
    BY <1>3 DEF TokenRows
<1> HIDE DEF row
<1>5. /\ token' \in Seq(TokenRows) /\ Len(token') = n /\ token'[n].owner = tn
      /\ \A i \in 1 .. Len(token) : token'[i] = token[i]
    BY <1>1, <1>2, <1>3, <1>4, TokenNumbers, AppendProperties
<1>6. /\ stored'[tn] = n /\ \A u \in Tenants : u # tn => stored'[u] = stored[u]
      /\ stored' \in [Tenants -> 0 .. n]
    BY <1>1, <1>2, <1>3
<1>7. /\ tab' \in [Tabs -> TabRows] /\ \A v \in Tabs : tab'[v].isRefreshing = tab[v].isRefreshing
    <2>1. tab[w] \in TabRows
        BY <1>1
    <2>2. tab' = [tab EXCEPT ![w] = [tab[w] EXCEPT !.user = tn, !.page = "app"]]
        BY <1>1, <1>2
    <2>3. /\ [tab[w] EXCEPT !.user = tn, !.page = "app"] \in TabRows
          /\ [tab[w] EXCEPT !.user = tn, !.page = "app"].isRefreshing = tab[w].isRefreshing
        BY <2>1 DEF TabRows
    <2> QED
        BY <1>1, <2>2, <2>3
<1>8. /\ req' \in [Reqs -> Requests]
      /\ \A s \in Reqs : (req'[s].st = "refreshing") <=> (req[s].st = "refreshing")
    BY <1>1, <1>2, NoRequestType, OneRequest DEF Settle
<1> HIDE DEF n
<1>9. \A k \in 1 .. Len(token) : k \in 1 .. n
    BY <1>3 DEF n
<1>10. TypeOK'
    <2>1. expired' \in 0 .. n
        BY <1>1, <1>2, <1>3 DEF TypeOK, n
    <2> QED
        BY <1>1, <1>2, <1>3, <1>5, <1>6, <1>7, <1>8, <2>1 DEF TypeOK, TokenRows, TabRows
<1>11. CallsOK'
    BY <1>1, <1>2, <1>5, <1>9 DEF CallsOK
<1>12. FreshOK'
    BY <1>1, <1>2, <1>3, <1>6 DEF FreshOK, CallsOK
<1>13. OwnersOK'
    <2>1. \A u \in Tenants : stored[u] # 0 => stored[u] \in 1 .. Len(token)
        BY <1>1, <1>3
    <2> QED
        BY <1>1, <1>5, <1>6, <2>1 DEF OwnersOK
<1>14. SpentOK'
    BY <1>1, <1>2, <1>3, <1>5, <1>6, <1>9 DEF SpentOK
<1>15. PagesOK' /\ Wedging
    BY <1>1, <1>2, <1>7, <1>8, PageFrame
<1>16. Presenting
    BY <1>2 DEF Presenting
<1> QED
    BY <1>10, <1>11, <1>12, <1>13, <1>14, <1>15, <1>16 DEF Kept, SessionIInv

\* isRefreshing is not set, so nothing is under way, so the stored token has not been
\* sent by this page.
LEMMA StartStep ==
    ASSUME SessionIInv, NEW r \in Reqs, NEW c \in Calls, StartRefresh(r, c)
    PROVE  Kept
<1> DEFINE w == TabOf[r]
           k == GetRefreshToken
           row == [phase |-> "sent", token |-> k, new |-> 0, tab |-> w]
           q == [req[r] EXCEPT !.st = "refreshing", !.bearer = 0, !.retry = TRUE]
<1>1. /\ TypeOK /\ CallsOK /\ FreshOK /\ OwnersOK /\ SpentOK /\ PagesOK /\ w \in Tabs
      /\ tab \in [Tabs -> TabRows] /\ call \in [Calls -> CallRows] /\ Nobody \notin Tabs
      /\ req \in [Reqs -> Requests] /\ spent \in [Tabs -> SUBSET Ids]
    BY SessionConstants DEF SessionIInv, TypeOK, TabRows
<1>2. /\ ~tab[w].isRefreshing /\ k # 0 /\ call[c].phase = "idle" /\ req[r].st = "sent"
      /\ call' = [call EXCEPT ![c] = row] /\ tab' = [tab EXCEPT ![w].isRefreshing = TRUE]
      /\ req' = [req EXCEPT ![r].st = "refreshing", ![r].bearer = 0, ![r].retry = TRUE]
      /\ spent' = [spent EXCEPT ![w] = spent[w] \cup {k}]
      /\ UNCHANGED <<token, expired, stored, active>>
    BY DEF StartRefresh, MustWait, Unauthorised
<1>3. /\ active \in Tenants /\ k = stored[active]
    BY <1>1, <1>2 DEF GetRefreshToken, GetToken, TypeOK
<1>4. k \in 1 .. Len(token) /\ k \in Ids /\ 0 \in Ids
    BY <1>1, <1>2, TokenNumbers DEF GetRefreshToken
<1>5. call[c] = NoCall /\ call[c].tab = Nobody /\ call[c].phase # "issued"
    BY <1>1, <1>2 DEF CallsOK, NoCall
<1>6. ~Refreshing(w) /\ \A d \in Calls : call[d].tab # w
    BY <1>1, <1>2 DEF PagesOK, PageOK
<1>7. \A tn \in Tenants : stored[tn] \notin spent[w]
    BY <1>1, <1>6 DEF SpentOK
<1> HIDE DEF k, w
<1>8. /\ row \in CallRows /\ row.phase = "sent" /\ row.token = k /\ row.tab = w
    BY <1>1, <1>4 DEF CallRows
<1> HIDE DEF row
<1>9. /\ call' \in [Calls -> CallRows] /\ call'[c] = row
      /\ \A d \in Calls : d # c => call'[d] = call[d]
    BY <1>1, <1>2, <1>8
<1>10. /\ req' \in [Reqs -> Requests] /\ req'[r].st = "refreshing"
       /\ \A s \in Reqs : s # r => req'[s] = req[s]
    <2>1. req' = [req EXCEPT ![r] = q]
        BY <1>1, <1>2
    <2>2. q \in Requests /\ q.st = "refreshing"
        BY <1>1, <1>4 DEF Requests
    <2> HIDE DEF q
    <2> QED
        BY <1>1, <2>1, <2>2
<1>11. /\ tab' \in [Tabs -> TabRows] /\ tab'[w].isRefreshing
       /\ \A v \in Tabs : v # w => tab'[v] = tab[v]
    BY <1>1, <1>2 DEF TabRows
<1>12. /\ spent' \in [Tabs -> SUBSET Ids] /\ spent'[w] = spent[w] \cup {k}
       /\ \A v \in Tabs : v # w => spent'[v] = spent[v]
    BY <1>1, <1>2, <1>4
<1>13. TypeOK'
    BY <1>1, <1>2, <1>9, <1>10, <1>11, <1>12 DEF TypeOK, TabRows
<1>14. CallsOK'
    BY <1>1, <1>2, <1>4, <1>8, <1>9 DEF CallsOK
<1>15. FreshOK'
    <2>1. \A d \in Calls : call'[d].phase = "issued" => d # c /\ call'[d] = call[d]
        BY <1>8, <1>9
    <2>2. \A v \in Tabs : spent'[v] \subseteq spent[v] \cup {k}
        BY <1>12
    <2> QED
        BY <1>1, <1>2, <1>3, <2>1, <2>2 DEF FreshOK
<1>16. OwnersOK'
    BY <1>1, <1>2 DEF OwnersOK
<1>17. SpentOK'
    <2> SUFFICES ASSUME NEW v \in Tabs
                 PROVE  /\ spent'[v] \subseteq 1 .. Len(token)
                        /\ \A tn \in Tenants : stored[tn] \in spent'[v] =>
                              \E d \in Calls : call'[d].tab = v /\ call'[d].token = stored[tn]
        BY <1>2 DEF SpentOK
    <2>1. CASE v = w
        BY <1>1, <1>4, <1>7, <1>8, <1>9, <1>12, <2>1 DEF SpentOK
    <2>2. CASE v # w
        <3>1. \A d \in Calls : call[d].tab = v => call'[d] = call[d]
            BY <1>1, <1>5, <1>9
        <3> QED
            BY <1>1, <1>12, <2>2, <3>1 DEF SpentOK
    <2> QED
        BY <2>1, <2>2
<1>18. \A v \in Tabs : /\ v = w => Refreshing(v)'
                       /\ v # w => (Refreshing(v)' <=> Refreshing(v))
    <2>1. TabOf[r] = w
        BY DEF w
    <2> QED
        BY <1>10, <2>1 DEF Refreshing
<1>19. PagesOK'
    <2> SUFFICES ASSUME NEW v \in Tabs PROVE PageOK(v)'
        BY DEF PagesOK
    <2>1. CASE v = w
        BY <1>6, <1>8, <1>9, <1>11, <1>18, <2>1 DEF PageOK
    <2>2. CASE v # w
        <3>1. \A d \in Calls : (call'[d].tab = v) <=> (call[d].tab = v)
            BY <1>1, <1>5, <1>8, <1>9, <2>2
        <3> QED
            BY <1>1, <1>11, <1>18, <2>2, <3>1 DEF PagesOK, PageOK
    <2> QED
        BY <2>1, <2>2
<1>20. Wedging
    BY <1>11, <1>18 DEF Wedging, Wedged
<1>21. Presenting
    BY <1>3, <1>7, <1>8, <1>9 DEF Presenting
<1> QED
    BY <1>13, <1>14, <1>15, <1>16, <1>17, <1>19, <1>20, <1>21 DEF Kept, SessionIInv

\* failedQueue is emptied and nobody of the page is refreshing any more.
LEMMA QueueEmptied ==
    ASSUME TypeOK, NEW w \in Tabs, NEW k \in Ids, req' = ProcessQueue(w, k)
    PROVE  /\ req' \in [Reqs -> Requests]
           /\ \A v \in Tabs : /\ v = w => ~Refreshing(v)'
                              /\ v # w => (Refreshing(v)' <=> Refreshing(v))
<1>1. \A r \in Reqs : req[r] \in Requests
    BY DEF TypeOK
<1>2. \A r \in Reqs : /\ req'[r] \in Requests
                      /\ TabOf[r] # w => req'[r] = req[r]
                      /\ TabOf[r] = w => req'[r].st # "refreshing"
    <2> SUFFICES ASSUME NEW r \in Reqs
                 PROVE  /\ req'[r] \in Requests
                        /\ TabOf[r] # w => req'[r] = req[r]
                        /\ TabOf[r] = w => req'[r].st # "refreshing"
        OBVIOUS
    <2>1. req'[r] = IF TabOf[r] # w \/ req[r].st \notin {"queued", "refreshing"} THEN req[r]
                    ELSE IF k = 0 THEN NoRequest
                    ELSE [req[r] EXCEPT !.st = "sent", !.bearer = k]
        BY DEF ProcessQueue
    <2>2. /\ [req[r] EXCEPT !.st = "sent", !.bearer = k] \in Requests
          /\ [req[r] EXCEPT !.st = "sent", !.bearer = k].st = "sent"
        BY <1>1 DEF Requests
    <2> QED
        BY <1>1, <2>1, <2>2, NoRequestType
<1>3. req' \in [Reqs -> Requests]
    <2>1. req' = [r \in Reqs |-> req'[r]]
        BY DEF ProcessQueue
    <2> QED
        BY <1>2, <2>1
<1> QED
    BY <1>2, <1>3 DEF Refreshing

\* The refresh of page w ends without the page being left.
LEMMA EndOfRefresh ==
    ASSUME SessionIInv, NEW w \in Tabs, NEW c \in Calls, NEW k \in Ids, call[c].tab = w,
           call' = [call EXCEPT ![c] = NoCall], req' = ProcessQueue(w, k),
           tab' = [tab EXCEPT ![w].isRefreshing = FALSE]
    PROVE  /\ call' \in [Calls -> CallRows] /\ req' \in [Reqs -> Requests]
           /\ tab' \in [Tabs -> TabRows]
           /\ call'[c] = NoCall /\ \A d \in Calls : d # c => call'[d] = call[d] /\ call[d].tab # w
           /\ PagesOK' /\ Wedging /\ Presenting
<1>1. /\ TypeOK /\ PagesOK /\ CallsOK /\ call \in [Calls -> CallRows] /\ tab \in [Tabs -> TabRows]
      /\ Nobody \notin Tabs
    BY SessionConstants DEF SessionIInv, TypeOK, TabRows
<1>2. NoCall \in CallRows /\ NoCall.phase = "idle" /\ NoCall.tab = Nobody
    BY <1>1, TokenNumbers DEF NoCall, CallRows
<1>3. /\ call' \in [Calls -> CallRows] /\ call'[c] = NoCall
      /\ \A d \in Calls : d # c => call'[d] = call[d] /\ call[d].tab # w
    BY <1>1, <1>2 DEF PagesOK, PageOK
<1>4. /\ tab' \in [Tabs -> TabRows] /\ tab'[w].isRefreshing = FALSE
      /\ \A v \in Tabs : v # w => tab'[v] = tab[v]
    BY <1>1 DEF TabRows
<1>5. /\ req' \in [Reqs -> Requests]
      /\ \A v \in Tabs : /\ v = w => ~Refreshing(v)'
                         /\ v # w => (Refreshing(v)' <=> Refreshing(v))
    BY <1>1, QueueEmptied
<1>6. PagesOK'
    <2> SUFFICES ASSUME NEW v \in Tabs PROVE PageOK(v)'
        BY DEF PagesOK
    <2>1. CASE v = w
        <3>1. \A d \in Calls : call'[d].tab # w
            BY <1>1, <1>2, <1>3
        <3> QED
            BY <1>4, <1>5, <2>1, <3>1 DEF PageOK
    <2>2. CASE v # w
        <3>1. \A d \in Calls : (call'[d].tab = v) <=> (call[d].tab = v)
            BY <1>1, <1>2, <1>3, <2>2
        <3> QED
            BY <1>1, <1>4, <1>5, <2>2, <3>1 DEF PagesOK, PageOK
    <2> QED
        BY <2>1, <2>2
<1>7. Wedging
    BY <1>4, <1>5 DEF Wedging, Wedged
<1>8. Presenting
    BY <1>2, <1>3 DEF Presenting
<1> QED
    BY <1>3, <1>4, <1>5, <1>6, <1>7, <1>8

\* The answer overwrites the token that was sent, where it is kept.
LEMMA DoneStep ==
    ASSUME SessionIInv, NEW w \in Tabs, NEW c \in Calls, RefreshDone(w, c)
    PROVE  Kept
<1> DEFINE k == call[c].new
           tn == token[k].owner
<1>1. /\ TypeOK /\ CallsOK /\ FreshOK /\ OwnersOK /\ SpentOK /\ PagesOK
      /\ stored \in [Tenants -> 0 .. Len(token)]
    BY DEF SessionIInv, TypeOK
<1>2. /\ call[c].tab = w /\ call[c].phase = "issued"
      /\ stored' = [stored EXCEPT ![tn] = k] /\ active' = tn
      /\ tab' = [tab EXCEPT ![w].isRefreshing = FALSE] /\ req' = ProcessQueue(w, k)
      /\ call' = [call EXCEPT ![c] = NoCall] /\ UNCHANGED <<token, expired, spent>>
    BY DEF RefreshDone, SaveTokens
<1>3. /\ k \in 1 .. Len(token) /\ call[c].token \in 1 .. Len(token)
      /\ token[call[c].token].owner = tn
    BY <1>1, <1>2 DEF CallsOK
<1>4. /\ k \in Ids /\ tn \in Tenants /\ Len(token) \in Nat
      /\ k \in 0 .. Len(token)
    <2>1. /\ token \in Seq(TokenRows) /\ Len(token) \in Nat
          /\ \A j \in 0 .. Len(token) : j \in Ids
        BY <1>1, TokenNumbers
    <2>2. token[k] \in TokenRows
        BY <1>3, <2>1, ElementOfSeq
    <2> QED
        BY <1>3, <2>1, <2>2 DEF TokenRows
<1>5. /\ \A v \in Tabs : k \notin spent[v]
      /\ \A d \in Calls : call[d].phase = "issued" /\ d # c => call[d].new # k
    BY <1>1, <1>2 DEF FreshOK
<1> HIDE DEF k, tn
<1>6. /\ call' \in [Calls -> CallRows] /\ req' \in [Reqs -> Requests] /\ tab' \in [Tabs -> TabRows]
      /\ call'[c] = NoCall /\ \A d \in Calls : d # c => call'[d] = call[d] /\ call[d].tab # w
      /\ PagesOK' /\ Wedging /\ Presenting
    BY <1>2, <1>4, EndOfRefresh
<1>7. /\ stored' \in [Tenants -> 0 .. Len(token)] /\ stored'[tn] = k
      /\ \A u \in Tenants : u # tn => stored'[u] = stored[u]
    BY <1>1, <1>2, <1>4
<1>8. NoCall.phase = "idle"
    BY DEF NoCall
<1>9. TypeOK'
    BY <1>1, <1>2, <1>4, <1>6, <1>7 DEF TypeOK, TabRows
<1>10. CallsOK'
    BY <1>1, <1>2, <1>6, <1>8 DEF CallsOK
<1>11. FreshOK'
    <2>1. \A d \in Calls : call'[d].phase = "issued" => d # c /\ call'[d] = call[d]
        BY <1>6, <1>8
    <2> QED
        BY <1>1, <1>2, <1>5, <1>7, <2>1 DEF FreshOK
<1>12. OwnersOK'
    BY <1>1, <1>2, <1>7 DEF OwnersOK, tn
<1>13. SpentOK'
    <2> SUFFICES ASSUME NEW v \in Tabs, NEW u \in Tenants, stored'[u] \in spent[v]
                 PROVE  \E d \in Calls : call'[d].tab = v /\ call'[d].token = stored'[u]
        BY <1>1, <1>2 DEF SpentOK
    <2>1. u # tn /\ stored'[u] = stored[u]
        BY <1>5, <1>7
    <2>2. PICK d \in Calls : call[d].tab = v /\ call[d].token = stored[u]
        BY <1>1, <2>1 DEF SpentOK
    <2>3. d # c
        <3>1. ASSUME d = c PROVE FALSE
            <4>1. stored[u] # 0
                BY <1>3, <2>2, <3>1
            <4>2. token[stored[u]].owner = u
                BY <1>1, <4>1 DEF OwnersOK
            <4> QED
                BY <1>3, <2>1, <2>2, <3>1, <4>2
        <3> QED
            BY <3>1
    <2> QED
        BY <1>6, <2>1, <2>2, <2>3
<1> QED
    BY <1>6, <1>9, <1>10, <1>11, <1>12, <1>13 DEF Kept, SessionIInv

\* Everything in localStorage is removed.
LEMMA FailsStep ==
    ASSUME SessionIInv, NEW w \in Tabs, NEW c \in Calls, RefreshFails(w, c)
    PROVE  Kept
<1>1. /\ TypeOK /\ CallsOK /\ FreshOK /\ SpentOK
      /\ call[c].tab = w /\ ClearAllTenantTokens /\ UNCHANGED <<token, expired>>
    BY DEF SessionIInv, RefreshFails
<1>2. /\ stored' \in [Tenants -> 0 .. Len(token)] /\ active' \in Tenants \cup {Nobody}
      /\ \A tn \in Tenants : stored'[tn] \in {stored[tn], 0} /\ stored'[tn] = 0
    BY <1>1, Clearing DEF ClearAllTenantTokens
<1>3. NoCall \in CallRows /\ NoCall.phase = "idle"
    BY <1>1, TokenNumbers DEF NoCall, CallRows
<1>4. CASE Load(w, Nobody, "login") /\ call' = [Abandon(w) EXCEPT ![c] = NoCall]
    <2>1. /\ Abandon(w) \in [Calls -> CallRows]
          /\ \A d \in Calls : call[d].tab # w => Abandon(w)[d] = call[d]
          /\ \A d \in Calls : call[d].tab = w => Abandon(w)[d] = [call[d] EXCEPT !.tab = Nobody]
        BY <1>1, Abandoning
    <2>2. /\ call' \in [Calls -> CallRows] /\ call'[c] = NoCall
          /\ \A d \in Calls : d # c => call'[d] = Abandon(w)[d]
        BY <1>3, <1>4, <2>1
    <2>3. /\ \A d \in Calls : call[d].tab # w => call'[d] = call[d]
          /\ \A d \in Calls : call[d].tab = w =>
                call'[d] = NoCall \/ call'[d] = [call[d] EXCEPT !.tab = Nobody]
        BY <1>1, <2>1, <2>2
    <2> QED
        BY <1>1, <1>2, <1>4, <2>2, <2>3, LeaveStep
<1>5. CASE /\ tab' = [tab EXCEPT ![w].isRefreshing = FALSE] /\ req' = ProcessQueue(w, 0)
           /\ call' = [call EXCEPT ![c] = NoCall] /\ UNCHANGED spent
    <2>1. 0 \in Ids
        BY <1>1, TokenNumbers
    <2>2. /\ call' \in [Calls -> CallRows] /\ req' \in [Reqs -> Requests]
          /\ tab' \in [Tabs -> TabRows]
          /\ call'[c] = NoCall /\ \A d \in Calls : d # c => call'[d] = call[d] /\ call[d].tab # w
          /\ PagesOK' /\ Wedging /\ Presenting
        BY <1>1, <1>5, <2>1, EndOfRefresh
    <2>3. TypeOK'
        BY <1>1, <1>2, <1>5, <2>2 DEF TypeOK, TabRows
    <2>4. CallsOK'
        BY <1>1, <1>3, <2>2 DEF CallsOK
    <2>5. FreshOK'
        <3>1. \A d \in Calls : call'[d].phase = "issued" =>
                d # c /\ call'[d] = call[d] /\ call[d].new # 0
            BY <1>1, <1>3, <2>2 DEF CallsOK
        <3> QED
            BY <1>1, <1>2, <1>5, <3>1 DEF FreshOK
    <2>6. OwnersOK'
        BY <1>2 DEF OwnersOK
    <2>7. SpentOK'
        <3>1. \A v \in Tabs : 0 \notin spent[v]
            BY <1>1 DEF SpentOK
        <3> QED
            BY <1>1, <1>2, <1>5, <3>1 DEF SpentOK
    <2> QED
        BY <2>2, <2>3, <2>4, <2>5, <2>6, <2>7 DEF Kept, SessionIInv
<1> QED
    BY <1>4, <1>5 DEF RefreshFails

-----------------------------------------------------------------------------
(* The backend.                                                            *)

\* The pages do not see how far rotate_refresh_token is, nor the end of a refresh
\* that is nobody's.
LEMMA BackendFrame ==
    ASSUME SessionIInv, NEW c \in Calls, NEW row \in CallRows,
           call' = [call EXCEPT ![c] = row], row.tab = call[c].tab, row.phase # "sent",
           UNCHANGED <<expired, stored, active, tab, req, spent>>,
           token' \in Seq(TokenRows), Len(token') \in Ids, Len(token) <= Len(token'),
           \A i \in 1 .. Len(token) : token'[i].owner = token[i].owner
    PROVE  /\ call'[c] = row /\ \A d \in Calls : d # c => call'[d] = call[d]
           /\ TypeOK' /\ OwnersOK' /\ PagesOK' /\ Wedging /\ Presenting
           /\ \A v \in Tabs : spent'[v] \subseteq 1 .. Len(token')
           /\ \A d \in Calls : d # c => /\ call[d].phase # "idle" => call[d].token \in 1 .. Len(token')
                                        /\ call[d].phase = "issued" => call[d].new \in 1 .. Len(token')
<1>1. /\ TypeOK /\ CallsOK /\ OwnersOK /\ SpentOK /\ PagesOK /\ call \in [Calls -> CallRows]
      /\ stored \in [Tenants -> 0 .. Len(token)] /\ expired \in 0 .. Len(token)
    BY DEF SessionIInv, TypeOK
<1>2. /\ call' \in [Calls -> CallRows] /\ call'[c] = row
      /\ \A d \in Calls : d # c => call'[d] = call[d]
    BY <1>1
<1>3. Len(token) \in Nat /\ Len(token') \in Nat
    BY <1>1, TokenNumbers, SessionConstants DEF Ids
<1>4. /\ \A j \in 1 .. Len(token) : j \in 1 .. Len(token')
      /\ \A j \in 0 .. Len(token) : j \in 0 .. Len(token')
    BY <1>3
<1>5. TypeOK'
    BY <1>1, <1>2, <1>4 DEF TypeOK, TokenRows
<1>6. OwnersOK'
    <2>1. \A tn \in Tenants : stored[tn] # 0 => stored[tn] \in 1 .. Len(token)
        BY <1>1, <1>3
    <2> QED
        BY <1>1, <2>1 DEF OwnersOK
<1>7. PagesOK' /\ Wedging
    BY <1>1, <1>2, PageFrame
<1>8. Presenting
    BY <1>2 DEF Presenting
<1>9. \A v \in Tabs : spent'[v] \subseteq 1 .. Len(token')
    BY <1>1, <1>4 DEF SpentOK
<1> QED
    BY <1>1, <1>2, <1>4, <1>5, <1>6, <1>7, <1>8, <1>9 DEF CallsOK

\* rotate_refresh_token goes on, a statement at a time, or refuses.
LEMMA RotateStep ==
    ASSUME SessionIInv, NEW c \in Calls, Rotate(c)
    PROVE  Kept
<1>1. /\ TypeOK /\ CallsOK /\ FreshOK /\ SpentOK /\ call[c] \in CallRows
      /\ call \in [Calls -> CallRows]
    BY DEF SessionIInv, TypeOK
<1>2. /\ token \in Seq(TokenRows) /\ Len(token) \in Nat /\ Len(token) \in Ids
      /\ Len(token) < MaxTokens => Len(token) + 1 \in Ids
    BY <1>1, TokenNumbers DEF TypeOK
<1>3. /\ call[c].phase \in {"sent", "read", "revoked"} /\ call[c].token \in 1 .. Len(token)
      /\ UNCHANGED <<expired, stored, active, tab, req, spent>>
    BY <1>1 DEF Rotate, RotateRead, RotateReuse, RotateRevoke, RotateInsert, RotateRefuse, CallsOK
<1>4. ASSUME NEW p \in {"read", "revoked", "refused"}, call' = [call EXCEPT ![c].phase = p],
             token' \in Seq(TokenRows), Len(token') = Len(token),
             \A i \in 1 .. Len(token) : token'[i].owner = token[i].owner
      PROVE  Kept
    <2> DEFINE row == [call[c] EXCEPT !.phase = p]
    <2>1. call' = [call EXCEPT ![c] = row]
        BY <1>1, <1>4
    <2>2. /\ row \in CallRows /\ row.tab = call[c].tab /\ row.phase = p /\ row.token = call[c].token
        BY <1>1 DEF CallRows
    <2> HIDE DEF row
    <2>3. Len(token') \in Ids /\ Len(token) <= Len(token') /\ row.phase # "sent"
        BY <1>2, <1>4, <2>2
    <2>4. /\ call'[c] = row /\ \A d \in Calls : d # c => call'[d] = call[d]
          /\ TypeOK' /\ OwnersOK' /\ PagesOK' /\ Wedging /\ Presenting
        BY <1>3, <1>4, <2>1, <2>2, <2>3, BackendFrame
    <2>5. CallsOK'
        BY <1>1, <1>3, <1>4, <2>2, <2>4 DEF CallsOK
    <2>6. FreshOK'
        BY <1>1, <1>3, <2>2, <2>4 DEF FreshOK
    <2>7. SpentOK'
        BY <1>1, <1>3, <1>4, <2>2, <2>4 DEF SpentOK
    <2> QED
        BY <2>4, <2>5, <2>6, <2>7 DEF Kept, SessionIInv
<1>5. CASE RotateRead(c) \/ RotateRefuse(c)
    BY <1>2, <1>4, <1>5 DEF RotateRead, RotateRefuse
<1>6. CASE RotateReuse(c) \/ RotateRevoke(c)
    <2>1. /\ token' \in Seq(TokenRows) /\ Len(token') = Len(token)
          /\ \A i \in 1 .. Len(token) : token'[i].owner = token[i].owner
        BY <1>1, <1>3, <1>6, TokensChange
    <2> QED
        BY <1>4, <1>6, <2>1 DEF RotateReuse, RotateRevoke
<1>7. CASE RotateInsert(c)
    <2> DEFINE n == Len(token) + 1
               row == [call[c] EXCEPT !.phase = "issued", !.new = n]
               new == [Row(c) EXCEPT !.revoked = FALSE]
    <2>1. /\ Len(token) < MaxTokens /\ token' = Append(token, new)
          /\ call' = [call EXCEPT ![c].phase = "issued", ![c].new = n]
        BY <1>7 DEF RotateInsert
    <2>2. /\ n \in Ids /\ n \in Nat /\ n \notin 1 .. Len(token) /\ n # 0 /\ n \in 1 .. n
          /\ \A k \in 0 .. Len(token) : k # n
        BY <1>2, <2>1
    <2>3. new \in TokenRows /\ new.owner = token[call[c].token].owner
        <3>1. Row(c) \in TokenRows
            BY <1>2, <1>3, ElementOfSeq DEF Row
        <3> QED
            BY <3>1 DEF TokenRows, Row
    <2> HIDE DEF new
    <2>4. /\ token' \in Seq(TokenRows) /\ Len(token') = n /\ token'[n] = new
          /\ \A i \in 1 .. Len(token) : token'[i] = token[i]
        BY <1>2, <2>1, <2>3, AppendProperties
    <2>5. Len(token) <= n
        BY <1>2
    <2> HIDE DEF n
    <2>6. call' = [call EXCEPT ![c] = row]
        BY <1>1, <2>1
    <2>7. /\ row \in CallRows /\ row.tab = call[c].tab /\ row.phase = "issued"
          /\ row.token = call[c].token /\ row.new = n
        BY <1>1, <2>2 DEF CallRows
    <2> HIDE DEF row
    <2>8. /\ call'[c] = row /\ \A d \in Calls : d # c => call'[d] = call[d]
          /\ TypeOK' /\ OwnersOK' /\ PagesOK' /\ Wedging /\ Presenting
          /\ \A v \in Tabs : spent'[v] \subseteq 1 .. n
          /\ \A d \in Calls : d # c => /\ call[d].phase # "idle" => call[d].token \in 1 .. n
                                       /\ call[d].phase = "issued" => call[d].new \in 1 .. n
        BY <1>3, <2>2, <2>4, <2>5, <2>6, <2>7, BackendFrame
    <2>9. \A k \in 1 .. Len(token) : k \in 1 .. n
        BY <1>2 DEF n
    <2>10. CallsOK'
        BY <1>1, <1>3, <2>2, <2>3, <2>4, <2>7, <2>8, <2>9 DEF CallsOK
    <2>11. FreshOK'
        <3>1. /\ \A v \in Tabs : n \notin spent'[v]
              /\ \A tn \in Tenants : stored'[tn] # n
              /\ \A d \in Calls : d # c /\ call'[d].phase = "issued" => call'[d].new # n
            BY <1>1, <1>3, <2>2, <2>8 DEF SpentOK, TypeOK, CallsOK
        <3> QED
            BY <1>1, <1>3, <2>7, <2>8, <3>1 DEF FreshOK
    <2>12. SpentOK'
        BY <1>1, <1>3, <2>4, <2>7, <2>8 DEF SpentOK
    <2> QED
        BY <2>8, <2>10, <2>11, <2>12 DEF Kept, SessionIInv
<1> QED
    BY <1>5, <1>6, <1>7 DEF Rotate

LEMMA NobodyStep ==
    ASSUME SessionIInv, NEW c \in Calls, AnswerNobody(c)
    PROVE  Kept
<1>1. /\ TypeOK /\ CallsOK /\ FreshOK /\ SpentOK /\ Nobody \notin Tabs
      /\ call[c].tab = Nobody /\ call' = [call EXCEPT ![c] = NoCall]
      /\ UNCHANGED <<token, expired, stored, active, tab, req, spent>>
    BY SessionConstants DEF SessionIInv, AnswerNobody
<1>2. /\ token' \in Seq(TokenRows) /\ Len(token') \in Ids /\ Len(token) <= Len(token')
      /\ NoCall \in CallRows /\ NoCall.tab = Nobody /\ NoCall.phase = "idle"
    BY <1>1, TokenNumbers DEF TypeOK, NoCall, CallRows
<1>3. /\ call'[c] = NoCall /\ \A d \in Calls : d # c => call'[d] = call[d]
      /\ TypeOK' /\ OwnersOK' /\ PagesOK' /\ Wedging /\ Presenting
    BY <1>1, <1>2, BackendFrame
<1>4. CallsOK'
    BY <1>1, <1>2, <1>3 DEF CallsOK
<1>5. FreshOK'
    BY <1>1, <1>2, <1>3 DEF FreshOK
<1>6. SpentOK'
    BY <1>1, <1>3 DEF SpentOK
<1> QED
    BY <1>3, <1>4, <1>5, <1>6 DEF Kept, SessionIInv

-----------------------------------------------------------------------------
\* A browser nobody has signed in with.
LEMMA SessionStart == Init => SessionIInv
<1> SUFFICES ASSUME Init PROVE SessionIInv
    OBVIOUS
<1>1. 0 \in Ids /\ Len(token) = 0 /\ token \in Seq(TokenRows)
    BY SessionConstants, EmptySeq DEF Init, Ids
<1>2. NoCall \in CallRows /\ NoCall.phase = "idle" /\ NoCall.tab = Nobody
    BY <1>1 DEF NoCall, CallRows
<1>3. TypeOK
    <2>1. tab \in [Tabs -> TabRows]
        BY DEF Init, TabRows
    <2> QED
        BY <1>1, <1>2, <2>1, NoRequestType DEF Init, TypeOK, TokenRows, TabRows
<1>4. CallsOK /\ FreshOK /\ OwnersOK /\ SpentOK
    BY <1>1, <1>2 DEF Init, CallsOK, FreshOK, OwnersOK, SpentOK
<1>5. PagesOK
    BY <1>2, NoRequestType, SessionConstants DEF Init, PagesOK, PageOK, Refreshing
<1> QED
    BY <1>3, <1>4, <1>5 DEF SessionIInv

\* Whatever a page, another tab or the backend does next.
LEMMA SessionStep == SessionIInv /\ [Next]_sessionVars => Kept
<1> SUFFICES ASSUME SessionIInv, [Next]_sessionVars PROVE Kept
    OBVIOUS
<1>1. CASE UNCHANGED sessionVars
    <2>1. UNCHANGED <<token, expired, stored, active, tab, req, call, spent>>
        BY <1>1 DEF sessionVars
    <2>2. CallsOK' /\ FreshOK' /\ OwnersOK' /\ SpentOK' /\ Presenting
        BY <2>1, StoreFrame
    <2>3. PagesOK' /\ Wedging
        BY <2>1, PageFrame DEF SessionIInv
    <2>4. TypeOK'
        BY <2>1 DEF SessionIInv, TypeOK
    <2> QED
        BY <2>2, <2>3, <2>4 DEF Kept, SessionIInv
<1>2. ASSUME NEW w \in Tabs, Reload(w) \/ Logout(w) PROVE Kept
    BY <1>2, AwayStep
<1>3. ASSUME NEW r \in Reqs, Request(r) \/ SubmitLogin(r) \/ SubmitRegister(r) \/ Answered(r)
      PROVE  Kept
    BY <1>3, PageStep, GiveUpStep, StartStep, LoginStep DEF Answered, Interceptor
<1>4. ASSUME NEW c \in Calls, Rotate(c) \/ Deliver(c) PROVE Kept
    BY <1>4, RotateStep, NobodyStep, DoneStep, FailsStep DEF Deliver
<1>5. ASSUME \/ \E w \in Tabs, page \in {"login", "register"} : OpenPublic(w, page)
             \/ Expire
      PROVE  Kept
    BY <1>5, PageStep
<1> QED
    BY <1>1, <1>2, <1>3, <1>4, <1>5 DEF Next

\* The inductive invariant of the signed-in browser holds throughout.
THEOREM SessionInvariant == Spec => []SessionIInv
<1>1. SessionIInv /\ [Next]_sessionVars => SessionIInv'
    BY SessionStep DEF Kept
<1> QED
    BY <1>1, SessionStart, PTL DEF Spec

\* However many tabs share localStorage and however many requests meet a 401, the
\* interceptor of lib/api.ts has one refresh of its page under way at a time.
THEOREM OneRefreshAtATime == Spec => []SessionInv
<1>1. SessionIInv => SessionInv
    BY PagesAreSingle DEF SessionIInv, SessionInv
<1> QED
    BY <1>1, SessionInvariant, PTL

\* A page never presents a refresh token it has presented before, so that
\* rotate_refresh_token never takes a page by itself for a thief.
THEOREM TokensAreSpentOnce == Spec => SpentOnce
<1>1. SessionIInv /\ [Next]_sessionVars =>
        [\A c \in Calls, w \in Tabs :
            (call[c].phase = "idle" /\ call'[c].phase = "sent" /\ call'[c].tab = w)
                => call'[c].token \notin spent[w]]_sessionVars
    BY SessionStep DEF Kept, Presenting
<1> QED
    BY <1>1, SessionInvariant, PTL DEF Spec, SpentOnce

\* The one way to a page that waits for a refresh nobody has begun is the early
\* return for a missing refresh token, on /login.
THEOREM PagesWedgeOnlyAtLogin == Spec => WedgedOnlyAtLogin
<1>1. SessionIInv /\ [Next]_sessionVars =>
        [\A w \in Tabs : (~Wedged(w) /\ Wedged(w)') =>
            tab[w].page = "login" /\ GetToken = 0]_sessionVars
    BY SessionStep DEF Kept, Wedging
<1> QED
    BY <1>1, SessionInvariant, PTL DEF Spec, WedgedOnlyAtLogin

=============================================================================
