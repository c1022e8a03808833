----------------------- MODULE SuperAdminLoginProofs ------------------------
(***************************************************************************)
(* Proofs about SuperAdminLogin, for any number of tabs, requests in the   *)
(* air and logins, and any limit of wrong codes.                           *)
(*                                                                         *)
(* verify_totp and setup_totp act on what their first SELECT read, in a    *)
(* request that may be served, answered or lost at any later time.  The    *)
(* inductive invariant therefore speaks of each request and each tab       *)
(* relative to how far the backend has come: the pre-auth tokens p, the    *)
(* secrets s and the access tokens a it has made so far (TabFits,          *)
(* ReqFits).  All three only grow, and what fits them fits them later.     *)
(* Two more parts speak of verify_totp at work: a request past the UPDATE  *)
(* of used_at has a spent token (SpentOK), and the attempts of a token     *)
(* leave room for every request the read of Redis has let in (GuessesOK).  *)
(***************************************************************************)
EXTENDS SuperAdminLogin, FiniteSetTheorems, SequenceTheorems, TLAPS

TabStates == [page : {"login", "console"}, step : Steps, token : Nat, qr : Nat]

\* A tab that asks for a code has the token to send it with, and there is a
\* secret to make it from.
TabFits(x, p, s) ==
    /\ x.token \in 0 .. p /\ x.qr \in 0 .. s
    /\ x.step \in {"totp_setup", "totp_verify"} => x.token # 0
    /\ x.step = "totp_verify" => s # 0

\* A request names a pre-auth token that exists, what it has read of the account
\* was so once, and what a successful answer carries exists.
ReqFits(q, p, s, a) ==
    /\ q.op \in {"setup", "verify"} /\ q.phase # "answered" => q.token \in 1 .. p
    /\ q.op = "verify" => s # 0
    /\ q.row.secret \in 0 .. s /\ (q.row.verified => q.row.secret # 0)
    /\ q.phase = "answered" /\ q.answer = 200 =>
          /\ q.op = "password" => q.new \in 1 .. p
          /\ q.op = "setup" => q.new \in 1 .. s
          /\ q.op = "verify" => q.new \in 1 .. a

TabsFit(f, p, s) == f \in [Tabs -> TabStates] /\ \A t \in Tabs : TabFits(f[t], p, s)

ReqsFit(f, p, s, a) == f \in [Reqs -> Requests] /\ \A r \in Reqs : ReqFits(f[r], p, s, a)

\* The backend: a complete account has a secret, and a pre-auth token that has
\* bought a session is spent.
ServerOK ==
    /\ account \in Accounts
    /\ account.verified => account.secret # 0
    /\ preAuth \in Seq(PreAuthRows) /\ Len(preAuth) <= MaxLogins
    /\ access \in Seq(1 .. Len(preAuth)) /\ Len(access) <= MaxTokens
    /\ \A i \in 1 .. Len(access) : preAuth[access[i]].st = "used"
    /\ expired \in 0 .. Len(access)

TabsOK == TabsFit(tab, Len(preAuth), account.secret)

ReqsOK == ReqsFit(req, Len(preAuth), account.secret, Len(access))

KeysOK == stored \in 0 .. Len(access) /\ scanned \subseteq 1 .. account.secret

BaseInv == ServerOK /\ TabsOK /\ ReqsOK /\ KeysOK

\* The requests the read of Redis has let in to guess with a pre-auth token.
Guessing(i) == {r \in Reqs : Verifying(r, "open") /\ req[r].token = i}

\* What they may still count fits under the limit.
GuessesOK ==
    \A i \in 1 .. Len(preAuth) :
        preAuth[i].fails + Cardinality(Guessing(i)) <= MaxAttempts - 1 + Cardinality(Reqs)

\* A request that is past a right code has a spent token.
Late == {"consumed", "cleared", "verified"}

SpentOK ==
    \A r \in Reqs : req[r].op = "verify" /\ req[r].phase \in Late
                      => preAuth[req[r].token].st = "used"

LoginIInv == BaseInv /\ SpentOK /\ GuessesOK

-----------------------------------------------------------------------------
\* How many tokens and secrets there may be.
LEMMA Counts ==
    ASSUME ServerOK
    PROVE  /\ Len(preAuth) \in Nat /\ Len(preAuth) \in 0 .. MaxLogins
           /\ account.secret \in Nat /\ account.secret \in 0 .. MaxSecrets
           /\ Len(access) \in Nat /\ Len(access) \in 0 .. MaxTokens
BY LoginConstants DEF ServerOK, Accounts

\* What fits the backend fits it when it has made more.
LEMMA FitsLater ==
    ASSUME NEW p \in Nat, NEW s \in Nat, NEW a \in Nat,
           NEW p2 \in Nat, NEW s2 \in Nat, NEW a2 \in Nat,
           p <= p2, s <= s2, a <= a2
    PROVE  /\ \A f : TabsFit(f, p, s) => TabsFit(f, p2, s2)
           /\ \A f : ReqsFit(f, p, s, a) => ReqsFit(f, p2, s2, a2)
<1>1. ASSUME NEW f, TabsFit(f, p, s)
      PROVE  TabsFit(f, p2, s2)
    <2>1. ASSUME NEW t \in Tabs
          PROVE  TabFits(f[t], p2, s2)
        <3>1. TabFits(f[t], p, s)
            BY <1>1 DEF TabsFit
        <3> QED
            BY <3>1 DEF TabFits
    <2> QED
        BY <1>1, <2>1 DEF TabsFit
<1>2. ASSUME NEW f, ReqsFit(f, p, s, a)
      PROVE  ReqsFit(f, p2, s2, a2)
    <2>1. ASSUME NEW r \in Reqs
          PROVE  ReqFits(f[r], p2, s2, a2)
        <3>1. ReqFits(f[r], p, s, a)
            BY <1>2 DEF ReqsFit
        <3> QED
            BY <3>1 DEF ReqFits
    <2> QED
        BY <1>2, <2>1 DEF ReqsFit
<1> QED
    BY <1>1, <1>2

\* The same for one more of either.
LEMMA FitsNext ==
    ASSUME NEW p \in Nat, NEW s \in Nat, NEW a \in Nat, NEW f
    PROVE  /\ TabsFit(f, p, s) => TabsFit(f, p + 1, s) /\ TabsFit(f, p, s + 1)
           /\ ReqsFit(f, p, s, a) => /\ ReqsFit(f, p + 1, s, a)
                                     /\ ReqsFit(f, p, s + 1, a)
                                     /\ ReqsFit(f, p, s, a + 1)
<1> DEFINE p2 == p + 1  s2 == s + 1  a2 == a + 1
<1>1. /\ p2 \in Nat /\ s2 \in Nat /\ a2 \in Nat
      /\ p <= p2 /\ s <= s2 /\ a <= a2 /\ p <= p /\ s <= s /\ a <= a
    OBVIOUS
<1> HIDE DEF p2, s2, a2
<1>2. /\ TabsFit(f, p, s) => TabsFit(f, p2, s)
      /\ ReqsFit(f, p, s, a) => ReqsFit(f, p2, s, a)
    BY <1>1, FitsLater
<1>3. /\ TabsFit(f, p, s) => TabsFit(f, p, s2)
      /\ ReqsFit(f, p, s, a) => ReqsFit(f, p, s2, a)
    BY <1>1, FitsLater
<1>4. ReqsFit(f, p, s, a) => ReqsFit(f, p, s, a2)
    BY <1>1, FitsLater
<1> QED
    BY <1>2, <1>3, <1>4 DEF p2, s2, a2

\* Numbers that are small enough to be carried.
LEMMA Zeros ==
    /\ 0 \in 0 .. MaxLogins /\ 0 \in 0 .. MaxSecrets /\ 0 \in 0 .. MaxTokens
    /\ 0 \in Carried
    /\ \A n \in 0 .. MaxLogins : n \in Carried
    /\ \A n \in 0 .. MaxSecrets : n \in Carried
    /\ \A n \in 0 .. MaxTokens : n \in Carried
BY LoginConstants DEF Carried

\* A free slot, and a slot whose page is gone.
LEMMA RequestShapes ==
    ASSUME NEW p \in Nat, NEW s \in Nat, NEW a \in Nat
    PROVE  /\ NoRequest \in Requests /\ ReqFits(NoRequest, p, s, a)
           /\ \A q \in Requests : ReqFits(q, p, s, a) =>
                 /\ [q EXCEPT !.tab = Nobody] \in Requests
                 /\ ReqFits([q EXCEPT !.tab = Nobody], p, s, a)
<1>1. NoRequest \in Requests
    BY Zeros DEF NoRequest, Requests, Answers, Accounts, Phases
<1>2. ReqFits(NoRequest, p, s, a)
    BY DEF NoRequest, ReqFits
<1>3. ASSUME NEW q \in Requests, ReqFits(q, p, s, a)
      PROVE  /\ [q EXCEPT !.tab = Nobody] \in Requests
             /\ ReqFits([q EXCEPT !.tab = Nobody], p, s, a)
    <2> DEFINE d == [q EXCEPT !.tab = Nobody]
    <2>1. d \in Requests
        BY DEF Requests
    <2>2. /\ d.op = q.op /\ d.token = q.token /\ d.row = q.row
          /\ d.phase = q.phase /\ d.answer = q.answer /\ d.new = q.new
        BY DEF Requests
    <2> HIDE DEF d
    <2>3. ReqFits(d, p, s, a)
        BY <1>3, <2>2 DEF ReqFits
    <2> QED
        BY <2>1, <2>3 DEF d
<1> QED
    BY <1>1, <1>2, <1>3

\* One slot gets a request that fits.
LEMMA PutRequest ==
    ASSUME NEW p \in Nat, NEW s \in Nat, NEW a \in Nat,
           NEW f, ReqsFit(f, p, s, a), NEW r \in Reqs,
           NEW q \in Requests, ReqFits(q, p, s, a)
    PROVE  ReqsFit([f EXCEPT ![r] = q], p, s, a)
BY DEF ReqsFit

\* The page of a tab goes.
LEMMA OrphanRequests ==
    ASSUME NEW p \in Nat, NEW s \in Nat, NEW a \in Nat,
           NEW f, ReqsFit(f, p, s, a), NEW t
    PROVE  ReqsFit(Orphaned(f, t), p, s, a)
<1>1. ASSUME NEW r \in Reqs
      PROVE  Orphaned(f, t)[r] \in Requests /\ ReqFits(Orphaned(f, t)[r], p, s, a)
    <2>1. f[r] \in Requests /\ ReqFits(f[r], p, s, a)
        BY DEF ReqsFit
    <2>2. /\ [f[r] EXCEPT !.tab = Nobody] \in Requests
          /\ ReqFits([f[r] EXCEPT !.tab = Nobody], p, s, a)
        BY <2>1, RequestShapes
    <2> QED
        BY <2>1, <2>2 DEF Orphaned
<1> QED
    BY <1>1 DEF ReqsFit, Orphaned

\* The slot of a request is freed.
LEMMA FreeSlot ==
    ASSUME NEW p \in Nat, NEW s \in Nat, NEW a \in Nat,
           ReqsFit(req, p, s, a), NEW r \in Reqs
    PROVE  ReqsFit(Done(r), p, s, a)
BY RequestShapes, PutRequest DEF Done

\* A request is answered with what exists.
LEMMA AnswerFits ==
    ASSUME NEW p \in Nat, NEW s \in Nat, NEW a \in Nat,
           ReqsFit(req, p, s, a), NEW r \in Reqs, NEW code \in Answers, NEW n \in Carried,
           code = 200 => /\ req[r].op = "password" => n \in 1 .. p
                         /\ req[r].op = "setup" => n \in 1 .. s
                         /\ req[r].op = "verify" => n \in 1 .. a,
           Answer(r, code, n)
    PROVE  ReqsFit(req', p, s, a)
<1> DEFINE q == req[r]
           d == [NoRequest EXCEPT !.op = q.op, !.tab = q.tab,
                                  !.phase = "answered", !.answer = code, !.new = n]
<1>1. q \in Requests /\ ReqFits(q, p, s, a)
    BY DEF ReqsFit
<1>2. d \in Requests
    BY <1>1, RequestShapes DEF Requests, Phases
<1>3. /\ d.op = q.op /\ d.row = NoRequest.row /\ d.phase = "answered"
      /\ d.answer = code /\ d.new = n
    BY DEF NoRequest
<1>3a. NoRequest.row.secret = 0 /\ NoRequest.row.verified = FALSE
    BY DEF NoRequest
<1>4. req' = [req EXCEPT ![r] = d]
    BY DEF Answer, ReqsFit
<1> HIDE DEF d
<1>5. ReqFits(d, p, s, a)
    BY <1>1, <1>3, <1>3a DEF ReqFits
<1> QED
    BY <1>2, <1>4, <1>5, PutRequest

\* A page is loaded.
LEMMA LoadedFits ==
    ASSUME NEW p \in Nat, NEW s \in Nat, NEW page \in {"login", "console"}, NEW k
    PROVE  Loaded(page, k) \in TabStates /\ TabFits(Loaded(page, k), p, s)
BY DEF Loaded, TabStates, TabFits, Steps

\* One tab changes to a state that fits.
LEMMA PutTab ==
    ASSUME NEW p \in Nat, NEW s \in Nat,
           NEW f, TabsFit(f, p, s), NEW t \in Tabs,
           NEW x \in TabStates, TabFits(x, p, s)
    PROVE  TabsFit([f EXCEPT ![t] = x], p, s)
BY DEF TabsFit

\* One row of super_admin_pre_auth_tokens changes, and stays spent if it was.
LEMMA PutRow ==
    ASSUME ServerOK, NEW i \in 1 .. Len(preAuth), NEW row \in PreAuthRows,
           preAuth[i].st = "used" => row.st = "used",
           preAuth' = [preAuth EXCEPT ![i] = row],
           UNCHANGED <<account, access, expired>>
    PROVE  ServerOK' /\ Len(preAuth') = Len(preAuth)
<1>1. /\ preAuth' \in Seq(PreAuthRows) /\ Len(preAuth') = Len(preAuth)
      /\ \A j \in 1 .. Len(preAuth) : preAuth'[j] = IF j = i THEN row ELSE preAuth[j]
    BY ExceptSeq DEF ServerOK
<1>2. ASSUME NEW j \in 1 .. Len(access)
      PROVE  access[j] \in 1 .. Len(preAuth)
    BY ElementOfSeq DEF ServerOK
<1>3. \A j \in 1 .. Len(access) : preAuth'[access[j]].st = "used"
    BY <1>1, <1>2 DEF ServerOK
<1> QED
    BY <1>1, <1>3 DEF ServerOK

-----------------------------------------------------------------------------
\* A step that leaves the backend alone.
LEMMA BrowserStep ==
    ASSUME BaseInv, UNCHANGED <<account, preAuth, access, expired>>,
           stored' \in 0 .. Len(access), scanned' \subseteq 1 .. account.secret,
           TabsFit(tab', Len(preAuth), account.secret),
           ReqsFit(req', Len(preAuth), account.secret, Len(access))
    PROVE  BaseInv'
BY DEF BaseInv, ServerOK, TabsOK, ReqsOK, KeysOK

\* The steps of a tab that send nothing: reload, the QR screen, reset, logout.
LEMMA TabStep ==
    ASSUME BaseInv, NEW t \in Tabs,
           \/ \E page \in {"login", "console"} : Visit(t, page)
           \/ ScannedIt(t) \/ HandleResetAuth(t) \/ Logout(t)
    PROVE  BaseInv'
<1> DEFINE p == Len(preAuth)  s == account.secret  a == Len(access)
<1>1. /\ p \in Nat /\ s \in Nat /\ a \in Nat
      /\ TabsFit(tab, p, s) /\ ReqsFit(req, p, s, a)
      /\ stored \in 0 .. a /\ scanned \subseteq 1 .. s
    BY Counts DEF BaseInv, TabsOK, ReqsOK, KeysOK
<1>2. tab \in [Tabs -> TabStates] /\ tab[t] \in TabStates /\ TabFits(tab[t], p, s)
    BY <1>1 DEF TabsFit
<1> HIDE DEF p, s, a
<1>3. ASSUME NEW page \in {"login", "console"}, Visit(t, page)
      PROVE  BaseInv'
    <2>1. TabsFit(tab', p, s)
        BY <1>1, <1>3, LoadedFits, PutTab DEF Visit
    <2>2. ReqsFit(req', p, s, a)
        BY <1>1, <1>3, OrphanRequests DEF Visit
    <2>3. stored' \in 0 .. a
        BY <1>1, <1>3 DEF Visit, Kept
    <2> QED
        BY <1>1, <1>3, <2>1, <2>2, <2>3, BrowserStep DEF Visit, p, s, a
<1>4. CASE ScannedIt(t)
    <2> DEFINE x == [tab[t] EXCEPT !.step = "totp_verify"]
    <2>1. x \in TabStates /\ TabFits(x, p, s)
        BY <1>1, <1>2, <1>4 DEF ScannedIt, SetupScreen, TabStates, Steps, TabFits
    <2>2. tab' = [tab EXCEPT ![t] = x]
        BY <1>2, <1>4 DEF ScannedIt
    <2> HIDE DEF x
    <2>3. TabsFit(tab', p, s)
        BY <1>1, <2>1, <2>2, PutTab
    <2>4. scanned' \subseteq 1 .. s
        BY <1>1, <1>2, <1>4 DEF ScannedIt, TabFits, TabStates
    <2> QED
        BY <1>1, <1>4, <2>3, <2>4, BrowserStep DEF ScannedIt, p, s, a
<1>5. CASE HandleResetAuth(t)
    <2> DEFINE x == [tab[t] EXCEPT !.token = 0, !.step = "idle", !.qr = 0]
    <2>0. /\ x \in TabStates
          /\ x.token = 0 /\ x.qr = 0 /\ x.step = "idle"
        BY <1>2 DEF TabStates, Steps
    <2>2. tab' = [tab EXCEPT ![t] = x]
        BY <1>2, <1>5 DEF HandleResetAuth
    <2> HIDE DEF x
    <2>1. x \in TabStates /\ TabFits(x, p, s)
        BY <1>1, <2>0 DEF TabFits
    <2>3. TabsFit(tab', p, s)
        BY <1>1, <2>1, <2>2, PutTab
    <2> QED
        BY <1>1, <1>5, <2>3, BrowserStep DEF HandleResetAuth, p, s, a
<1>6. CASE Logout(t)
    <2>1. TabsFit(tab', p, s)
        BY <1>1, <1>6, LoadedFits, PutTab DEF Logout
    <2>2. ReqsFit(req', p, s, a)
        BY <1>1, <1>6, OrphanRequests DEF Logout
    <2>3. stored' \in 0 .. a
        BY <1>1, <1>6 DEF Logout
    <2> QED
        BY <1>1, <1>6, <2>1, <2>2, <2>3, BrowserStep DEF Logout, p, s, a
<1> QED
    BY <1>3, <1>4, <1>5, <1>6

\* The steps of a tab that send a request.
LEMMA SendStep ==
    ASSUME BaseInv, NEW r \in Reqs, NEW t \in Tabs,
           \/ OnPasswordSubmit(r, t) \/ ConsoleRead(r, t)
           \/ \E c \in 0 .. MaxSecrets : HandleTotpChange(r, t, c)
    PROVE  BaseInv'
<1> DEFINE p == Len(preAuth)  s == account.secret  a == Len(access)
<1>1. /\ p \in Nat /\ s \in Nat /\ a \in Nat /\ p \in 0 .. MaxLogins
      /\ TabsFit(tab, p, s) /\ ReqsFit(req, p, s, a)
      /\ stored \in 0 .. a /\ scanned \subseteq 1 .. s
      /\ stored \in 0 .. MaxTokens
    BY Counts, LoginConstants DEF BaseInv, TabsOK, ReqsOK, KeysOK
<1> HIDE DEF p, s, a
<1>2. ASSUME NEW d \in Requests, d.op \in {"password", "read"}, d.phase = "sent",
             d.row = NoRequest.row, req' = [req EXCEPT ![r] = d]
      PROVE  ReqsFit(req', p, s, a)
    <2>1. NoRequest.row.secret = 0 /\ NoRequest.row.verified = FALSE
        BY DEF NoRequest
    <2>2. ReqFits(d, p, s, a)
        BY <1>1, <1>2, <2>1 DEF ReqFits
    <2> QED
        BY <1>1, <1>2, <2>2, PutRequest
<1>3. CASE OnPasswordSubmit(r, t)
    <2> DEFINE d == [[NoRequest EXCEPT !.op = "password"] EXCEPT !.tab = t]
    <2>1. d \in Requests
        BY <1>1, RequestShapes DEF Requests
    <2>2. d.op = "password" /\ d.phase = "sent" /\ d.row = NoRequest.row
        BY DEF NoRequest
    <2>3. req' = [req EXCEPT ![r] = d]
        BY <1>3 DEF OnPasswordSubmit, Send
    <2> HIDE DEF d
    <2>4. ReqsFit(req', p, s, a)
        BY <1>2, <2>1, <2>2, <2>3
    <2> QED
        BY <1>1, <1>3, <2>4, BrowserStep DEF OnPasswordSubmit, p, s, a
<1>4. CASE ConsoleRead(r, t)
    <2> DEFINE d == [[NoRequest EXCEPT !.op = "read", !.bearer = stored] EXCEPT !.tab = t]
    <2>1. d \in Requests
        BY <1>1, RequestShapes DEF Requests
    <2>2. d.op = "read" /\ d.phase = "sent" /\ d.row = NoRequest.row
        BY DEF NoRequest
    <2>3. req' = [req EXCEPT ![r] = d]
        BY <1>4 DEF ConsoleRead, Send
    <2> HIDE DEF d
    <2>4. ReqsFit(req', p, s, a)
        BY <1>2, <2>1, <2>2, <2>3
    <2> QED
        BY <1>1, <1>4, <2>4, BrowserStep DEF ConsoleRead, p, s, a
<1>5. ASSUME NEW c \in 0 .. MaxSecrets, HandleTotpChange(r, t, c)
      PROVE  BaseInv'
    <2> DEFINE k == tab[t].token
               d == [[NoRequest EXCEPT !.op = "verify", !.token = k, !.code = c]
                       EXCEPT !.tab = t]
    <2>0. /\ tab[t].step = "totp_verify" /\ k # 0
          /\ TabFits(tab[t], p, s)
        BY <1>1, <1>5 DEF HandleTotpChange, CodeScreen, TabsFit
    <2>1. k \in 1 .. p /\ s # 0
        BY <1>1, <2>0 DEF TabFits
    <2>2. req' = [req EXCEPT ![r] = d]
        BY <1>5 DEF HandleTotpChange, Send
    <2> HIDE DEF k
    <2>3. k \in 0 .. MaxLogins
        BY <1>1, <2>1, LoginConstants
    <2>4. d \in Requests
        <3> DEFINE b == [NoRequest EXCEPT !.op = "verify", !.token = k, !.code = c]
        <3>1. b \in Requests
            BY <1>1, <2>3, RequestShapes DEF Requests
        <3> HIDE DEF b
        <3>2. [b EXCEPT !.tab = t] \in Requests
            BY <1>1, <3>1 DEF Requests
        <3> QED
            BY <3>2 DEF b
    <2>5. ReqFits(d, p, s, a)
        BY <1>1, <2>1 DEF NoRequest, ReqFits
    <2> HIDE DEF d
    <2>6. ReqsFit(req', p, s, a)
        BY <1>1, <2>2, <2>4, <2>5, PutRequest
    <2> QED
        BY <1>1, <1>5, <2>6, BrowserStep DEF HandleTotpChange, p, s, a
<1> QED
    BY <1>3, <1>4, <1>5

\* The statements of the backend that write nothing.
LEMMA ReadingStep ==
    ASSUME BaseInv, NEW r \in Reqs,
           WrongPassword(r) \/ Validate(r) \/ ServeRead(r)
    PROVE  BaseInv'
<1> DEFINE p == Len(preAuth)  s == account.secret  a == Len(access)
<1>1. /\ p \in Nat /\ s \in Nat /\ a \in Nat
      /\ TabsFit(tab, p, s) /\ ReqsFit(req, p, s, a)
      /\ stored \in 0 .. a /\ scanned \subseteq 1 .. s
      /\ account \in Accounts /\ (account.verified => account.secret # 0)
      /\ account.secret \in 0 .. s
    BY Counts DEF BaseInv, TabsOK, ReqsOK, KeysOK, ServerOK
<1>2. req \in [Reqs -> Requests] /\ req[r] \in Requests /\ ReqFits(req[r], p, s, a)
    BY <1>1 DEF ReqsFit
<1>3. 0 \in Carried /\ 200 \in Answers /\ 401 \in Answers
    BY Zeros DEF Answers
<1> HIDE DEF p, s, a
<1>4. Answer(r, 401, 0) => ReqsFit(req', p, s, a)
    BY <1>1, <1>3, AnswerFits
<1>5. CASE WrongPassword(r)
    BY <1>1, <1>4, <1>5, BrowserStep DEF WrongPassword, p, s, a
<1>6. CASE Validate(r)
    <2> DEFINE d == [req[r] EXCEPT !.phase = "validated", !.row = account]
    <2>1. d \in Requests
        BY <1>1, <1>2 DEF Requests, Phases, Working
    <2>2. d.op = req[r].op /\ d.token = req[r].token /\ d.phase = "validated" /\ d.row = account
          /\ req[r].phase = "sent"
        BY <1>2, <1>6 DEF Requests, Validate
    <2>3. ASSUME req' = [req EXCEPT ![r].phase = "validated", ![r].row = account]
          PROVE  ReqsFit(req', p, s, a)
        <3>1. req' = [req EXCEPT ![r] = d]
            BY <1>2, <2>3
        <3> HIDE DEF d
        <3>2. ReqFits(d, p, s, a)
            BY <1>1, <1>2, <2>2 DEF ReqFits
        <3>3. ReqsFit([req EXCEPT ![r] = d], p, s, a)
            BY <1>1, <2>1, <3>2, PutRequest
        <3> QED
            BY <3>1, <3>3
    <2>4. ReqsFit(req', p, s, a)
        <3> HIDE DEF d
        <3> QED
            BY <1>4, <1>6, <2>3 DEF Validate
    <2> QED
        BY <1>1, <1>6, <2>4, BrowserStep DEF Validate, p, s, a
<1>7. CASE ServeRead(r)
    <2> DEFINE code == IF Live(req[r].bearer) THEN 200 ELSE 401
    <2>1. code \in Answers /\ Answer(r, code, 0) /\ req[r].op = "read"
        BY <1>3, <1>7 DEF ServeRead
    <2> HIDE DEF code
    <2>2. ReqsFit(req', p, s, a)
        BY <1>1, <1>3, <2>1, AnswerFits
    <2> QED
        BY <1>1, <1>7, <2>2, BrowserStep DEF ServeRead, p, s, a
<1> QED
    BY <1>5, <1>6, <1>7

\* authenticate_password makes a pre-auth token.
LEMMA PasswordStep ==
    ASSUME BaseInv, NEW r \in Reqs, AuthenticatePassword(r)
    PROVE  BaseInv'
<1> DEFINE p == Len(preAuth)  s == account.secret  a == Len(access)
           row == [st |-> "live", fails |-> 0]
<1>1. /\ p \in Nat /\ s \in Nat /\ a \in Nat /\ p + 1 \in Nat /\ p < MaxLogins
      /\ TabsFit(tab, p, s) /\ ReqsFit(req, p, s, a)
      /\ account \in Accounts /\ (account.verified => account.secret # 0)
      /\ preAuth \in Seq(PreAuthRows) /\ access \in Seq(1 .. p)
      /\ account.secret \in 0 .. s
    BY Counts DEF BaseInv, TabsOK, ReqsOK, ServerOK, AuthenticatePassword
<1>2. row \in PreAuthRows
    BY DEF PreAuthRows
<1>3. /\ preAuth' \in Seq(PreAuthRows) /\ Len(preAuth') = p + 1
      /\ \A i \in 1 .. p : preAuth'[i] = preAuth[i]
    <2> HIDE DEF row
    <2>1. preAuth' = Append(preAuth, row)
        BY DEF AuthenticatePassword, row
    <2> QED
        BY <1>1, <1>2, <2>1, AppendProperties
<1>4. ServerOK'
    <2>1. access' \in Seq(1 .. Len(preAuth'))
        <3>1. 1 .. p \subseteq 1 .. (p + 1)
            BY <1>1
        <3> QED
            BY <1>1, <1>3, <3>1, SeqMonotonic DEF AuthenticatePassword
    <2>2. \A i \in 1 .. Len(access) : access[i] \in 1 .. p
        BY <1>1, ElementOfSeq
    <2>3. \A i \in 1 .. Len(access) : preAuth'[access[i]].st = "used"
        BY <1>3, <2>2 DEF BaseInv, ServerOK
    <2>4. Len(preAuth') <= MaxLogins
        BY <1>1, <1>3, LoginConstants
    <2> QED
        BY <1>3, <2>1, <2>3, <2>4 DEF BaseInv, ServerOK, AuthenticatePassword
<1>5. TabsFit(tab, p + 1, s) /\ ReqsFit(req, p + 1, s, a)
    <2> HIDE DEF p, s, a
    <2> QED
        BY <1>1, FitsNext
<1>6. ReqsFit(req', p + 1, s, a)
    <2> DEFINE d == [req[r] EXCEPT !.phase = "answered", !.answer = 200,
                                   !.new = p + 1, !.row = account]
    <2>1. p + 1 \in Carried /\ 200 \in Answers
        <3>1. p + 1 \in 0 .. MaxLogins
            BY <1>1, LoginConstants
        <3> HIDE DEF p
        <3> QED
            BY <3>1, Zeros DEF Answers
    <2>2. req \in [Reqs -> Requests] /\ req[r] \in Requests /\ ReqFits(req[r], p + 1, s, a)
        BY <1>5 DEF ReqsFit
    <2>3. req' = [req EXCEPT ![r] = d] /\ req[r].op = "password"
        BY <2>2 DEF AuthenticatePassword
    <2> HIDE DEF p, s, a
    <2>4. d \in Requests
        BY <1>1, <2>1, <2>2 DEF Requests, Phases
    <2>5. d.op = req[r].op /\ d.new = p + 1 /\ d.row = account
        BY <2>2 DEF Requests
    <2> HIDE DEF d
    <2>6. ReqFits(d, p + 1, s, a)
        BY <1>1, <2>2, <2>3, <2>5 DEF ReqFits
    <2> QED
        BY <1>1, <1>5, <2>3, <2>4, <2>6, PutRequest
<1> QED
    BY <1>3, <1>4, <1>5, <1>6 DEF BaseInv, TabsOK, ReqsOK, KeysOK, AuthenticatePassword

\* setup_totp makes a secret, or answers 409.
LEMMA SetupStep ==
    ASSUME BaseInv, NEW r \in Reqs, SetupTotp(r)
    PROVE  BaseInv'
<1> DEFINE p == Len(preAuth)  s == account.secret  a == Len(access)
<1>1. /\ p \in Nat /\ s \in Nat /\ a \in Nat
      /\ TabsFit(tab, p, s) /\ ReqsFit(req, p, s, a)
      /\ stored \in 0 .. a /\ scanned \subseteq 1 .. s
      /\ account \in Accounts
    BY Counts DEF BaseInv, TabsOK, ReqsOK, KeysOK, ServerOK
<1>2. 0 \in Carried /\ 200 \in Answers /\ 409 \in Answers /\ req[r].op = "setup"
    BY Zeros DEF Answers, SetupTotp
<1>3. ASSUME Answer(r, 409, 0), UNCHANGED account
      PROVE  BaseInv'
    <2> HIDE DEF p, s, a
    <2>1. ReqsFit(req', p, s, a)
        BY <1>1, <1>2, <1>3, AnswerFits
    <2> QED
        BY <1>1, <1>3, <2>1, BrowserStep DEF SetupTotp, p, s, a
<1>4. ASSUME account.secret < MaxSecrets, account' = [account EXCEPT !.secret = @ + 1],
             Answer(r, 200, account.secret + 1)
      PROVE  BaseInv'
    <2>1. s + 1 \in 0 .. MaxSecrets /\ s + 1 \in Nat
        BY <1>1, <1>4, LoginConstants
    <2>2. account' \in Accounts /\ account'.secret = s + 1
        BY <1>1, <1>4, <2>1 DEF Accounts
    <2>3. ServerOK'
        BY <1>1, <2>2 DEF BaseInv, ServerOK, SetupTotp
    <2>4. TabsFit(tab, p, s + 1) /\ ReqsFit(req, p, s + 1, a)
        <3> HIDE DEF p, s, a
        <3> QED
            BY <1>1, FitsNext
    <2>5. ReqsFit(req', p, s + 1, a)
        <3> DEFINE s2 == s + 1
        <3>1. /\ s2 \in Nat /\ s2 \in 0 .. MaxSecrets /\ s2 \in 1 .. s2
              /\ ReqsFit(req, p, s2, a) /\ Answer(r, 200, s2)
            BY <1>1, <1>4, <2>1, <2>4
        <3> HIDE DEF p, s, a, s2
        <3>2. s2 \in Carried
            BY <3>1, Zeros
        <3>3. ReqsFit(req', p, s2, a)
            BY <1>1, <1>2, <3>1, <3>2, AnswerFits
        <3> QED
            BY <3>3 DEF s2
    <2>6. scanned \subseteq 1 .. (s + 1)
        BY <1>1
    <2> QED
        BY <1>1, <2>2, <2>3, <2>4, <2>5, <2>6
        DEF BaseInv, TabsOK, ReqsOK, KeysOK, SetupTotp
<1> QED
    BY <1>3, <1>4 DEF SetupTotp

\* A step that changes one row of the pre-auth tokens and the requests.
LEMMA RowStep ==
    ASSUME BaseInv, NEW i \in 1 .. Len(preAuth), NEW row \in PreAuthRows,
           preAuth[i].st = "used" => row.st = "used",
           preAuth' = [preAuth EXCEPT ![i] = row],
           UNCHANGED <<account, access, expired, stored, tab, scanned>>,
           ReqsFit(req', Len(preAuth), account.secret, Len(access))
    PROVE  BaseInv'
<1>1. ServerOK' /\ Len(preAuth') = Len(preAuth)
    BY PutRow DEF BaseInv
<1> QED
    BY <1>1 DEF BaseInv, TabsOK, ReqsOK, KeysOK

\* The ways verify_totp writes a row, and what an expiry writes.
LEMMA RowShapes ==
    ASSUME ServerOK, NEW i \in 1 .. Len(preAuth)
    PROVE  /\ preAuth[i] \in PreAuthRows /\ preAuth[i].fails \in Nat
           /\ Spent(i) = [preAuth EXCEPT ![i] = [preAuth[i] EXCEPT !.st = "used"]]
           /\ [preAuth[i] EXCEPT !.st = "used"] \in PreAuthRows
           /\ [preAuth[i] EXCEPT !.st = "expired"] \in PreAuthRows
           /\ [preAuth[i] EXCEPT !.fails = @ + 1] \in PreAuthRows
           /\ [preAuth[i] EXCEPT !.fails = 0] \in PreAuthRows
<1>1. preAuth[i] \in PreAuthRows
    BY ElementOfSeq DEF ServerOK
<1>2. preAuth \in [1 .. Len(preAuth) -> PreAuthRows]
    BY LenProperties DEF ServerOK
<1> QED
    BY <1>1, <1>2 DEF PreAuthRows, Spent

\* verify_totp goes on with its token.
LEMMA GoOnFits ==
    ASSUME BaseInv, NEW r \in Reqs, NEW phase \in Working, req[r].op = "verify",
           req[r].phase # "answered", GoOn(r, phase)
    PROVE  ReqsFit(req', Len(preAuth), account.secret, Len(access))
<1> DEFINE p == Len(preAuth)  s == account.secret  a == Len(access)
           d == [NoRequest EXCEPT !.op = "verify", !.tab = req[r].tab,
                                  !.token = req[r].token, !.phase = phase]
<1>1. /\ p \in Nat /\ s \in Nat /\ a \in Nat /\ ReqsFit(req, p, s, a)
    BY Counts DEF BaseInv, ReqsOK
<1>2. req[r] \in Requests /\ req[r].token \in 1 .. p /\ s # 0
    BY <1>1 DEF ReqsFit, ReqFits
<1>3. d \in Requests
    BY <1>2, RequestShapes DEF Requests, Phases
<1>4. /\ d.op = "verify" /\ d.token = req[r].token /\ d.phase = phase
      /\ d.row.secret = 0 /\ d.row.verified = FALSE /\ phase # "answered"
    BY DEF NoRequest, Working
<1>5. req' = [req EXCEPT ![r] = d]
    BY DEF GoOn
<1> HIDE DEF d, p, s, a
<1>6. ReqFits(d, p, s, a)
    BY <1>1, <1>2, <1>4 DEF ReqFits
<1>7. ReqsFit(req', p, s, a)
    BY <1>1, <1>3, <1>5, <1>6, PutRequest
<1> QED
    BY <1>7 DEF p, s, a

\* The steps of verify_totp up to the last, and the death of the backend.
LEMMA VerifyingStep ==
    ASSUME BaseInv, NEW r \in Reqs,
           \/ ReadAttempts(r) \/ WrongCode(r) \/ SpendToken(r) \/ RightCode(r)
           \/ ClearAttempts(r) \/ CompleteSetup(r) \/ CutShort(r)
    PROVE  BaseInv'
<1> DEFINE p == Len(preAuth)  s == account.secret  a == Len(access)  i == req[r].token
<1>1. /\ p \in Nat /\ s \in Nat /\ a \in Nat
      /\ TabsFit(tab, p, s) /\ ReqsFit(req, p, s, a)
      /\ stored \in 0 .. a /\ scanned \subseteq 1 .. s
      /\ account \in Accounts /\ ServerOK
    BY Counts DEF BaseInv, TabsOK, ReqsOK, KeysOK, ServerOK
<1>2. 0 \in Carried /\ 401 \in Answers
    BY Zeros DEF Answers
<1>3. /\ req \in [Reqs -> Requests] /\ req[r] \in Requests /\ ReqFits(req[r], p, s, a)
    BY <1>1 DEF ReqsFit
<1>4. Answer(r, 401, 0) => ReqsFit(req', p, s, a)
    <2> HIDE DEF p, s, a
    <2> QED
        BY <1>1, <1>2, AnswerFits
<1>5. ASSUME NEW phase \in Working, req[r].op = "verify", req[r].phase # "answered",
             GoOn(r, phase)
      PROVE  ReqsFit(req', p, s, a)
    BY <1>5, GoOnFits
<1>6. req[r].op = "verify" /\ req[r].phase # "answered" => i \in 1 .. p /\ s # 0
    BY <1>3 DEF ReqFits
<1> HIDE DEF i, p, s, a
<1>7. CASE ReadAttempts(r)
    <2>1. /\ req[r].op = "verify" /\ req[r].phase = "validated"
          /\ \/ GoOn(r, "spending")
             \/ req' = [req EXCEPT ![r].phase = "open"]
        BY <1>7 DEF ReadAttempts, Verifying
    <2>2. ASSUME req' = [req EXCEPT ![r].phase = "open"]
          PROVE  ReqsFit(req', p, s, a)
        <3> DEFINE d == [req[r] EXCEPT !.phase = "open"]
        <3>1. /\ d \in Requests /\ req' = [req EXCEPT ![r] = d]
              /\ d.op = req[r].op /\ d.token = req[r].token /\ d.row = req[r].row
              /\ d.phase = "open"
            BY <1>3, <2>2 DEF Requests, Phases, Working
        <3> HIDE DEF d
        <3>2. ReqFits(d, p, s, a)
            BY <1>3, <2>1, <3>1 DEF ReqFits
        <3> QED
            BY <1>1, <3>1, <3>2, PutRequest
    <2>3. ReqsFit(req', p, s, a)
        BY <1>5, <2>1, <2>2 DEF Working
    <2> QED
        BY <1>1, <1>7, <2>3, BrowserStep DEF ReadAttempts, p, s, a
<1>8. CASE WrongCode(r)
    <2> DEFINE row == [preAuth[i] EXCEPT !.fails = @ + 1]
    <2>1. /\ req[r].op = "verify" /\ req[r].phase = "open"
          /\ GoOn(r, "spending") \/ Answer(r, 401, 0)
          /\ preAuth' = [preAuth EXCEPT ![i].fails = @ + 1]
        BY <1>8 DEF WrongCode, Verifying, i
    <2>2. i \in 1 .. Len(preAuth)
        BY <1>6, <2>1 DEF p
    <2>3. /\ row \in PreAuthRows /\ row.st = preAuth[i].st
          /\ preAuth' = [preAuth EXCEPT ![i] = row]
        <3>1. preAuth \in [1 .. Len(preAuth) -> PreAuthRows]
            BY <1>1, LenProperties DEF ServerOK
        <3> QED
            BY <1>1, <2>1, <2>2, <3>1, RowShapes DEF PreAuthRows
    <2>4. ReqsFit(req', Len(preAuth), account.secret, Len(access))
        BY <1>4, <1>5, <2>1 DEF Working, p, s, a
    <2> HIDE DEF row
    <2> QED
        BY <1>8, <2>2, <2>3, <2>4, RowStep DEF WrongCode
<1>9. CASE SpendToken(r) \/ RightCode(r)
    <2> DEFINE row == [preAuth[i] EXCEPT !.st = "used"]
    <2>1. /\ req[r].op = "verify" /\ req[r].phase \in {"open", "spending"}
          /\ GoOn(r, "consumed") \/ Answer(r, 401, 0)
          /\ preAuth' = Spent(i)
        BY <1>9 DEF SpendToken, RightCode, Verifying, i
    <2>2. i \in 1 .. Len(preAuth)
        BY <1>6, <2>1 DEF p
    <2>3. row \in PreAuthRows /\ row.st = "used" /\ preAuth' = [preAuth EXCEPT ![i] = row]
        BY <1>1, <2>1, <2>2, RowShapes DEF PreAuthRows
    <2>4. ReqsFit(req', Len(preAuth), account.secret, Len(access))
        BY <1>4, <1>5, <2>1 DEF Working, p, s, a
    <2> HIDE DEF row
    <2> QED
        BY <1>9, <2>2, <2>3, <2>4, RowStep DEF SpendToken, RightCode
<1>10. CASE ClearAttempts(r)
    <2> DEFINE row == [preAuth[i] EXCEPT !.fails = 0]
    <2>1. /\ req[r].op = "verify" /\ req[r].phase = "consumed" /\ GoOn(r, "cleared")
          /\ preAuth' = [preAuth EXCEPT ![i].fails = 0]
        BY <1>10 DEF ClearAttempts, Verifying, i
    <2>2. i \in 1 .. Len(preAuth)
        BY <1>6, <2>1 DEF p
    <2>3. /\ row \in PreAuthRows /\ row.st = preAuth[i].st
          /\ preAuth' = [preAuth EXCEPT ![i] = row]
        <3>1. preAuth \in [1 .. Len(preAuth) -> PreAuthRows]
            BY <1>1, LenProperties DEF ServerOK
        <3> QED
            BY <1>1, <2>1, <2>2, <3>1, RowShapes DEF PreAuthRows
    <2>4. ReqsFit(req', Len(preAuth), account.secret, Len(access))
        BY <1>5, <2>1 DEF Working, p, s, a
    <2> HIDE DEF row
    <2> QED
        BY <1>10, <2>2, <2>3, <2>4, RowStep DEF ClearAttempts
<1>11. CASE CompleteSetup(r)
    <2>1. /\ req[r].op = "verify" /\ req[r].phase = "cleared" /\ GoOn(r, "verified")
          /\ account' = [account EXCEPT !.verified = TRUE]
        BY <1>11 DEF CompleteSetup, Verifying
    <2>2. ReqsFit(req', p, s, a) /\ s # 0
        BY <1>5, <1>6, <2>1 DEF Working
    <2>3. account' \in Accounts /\ account'.secret = account.secret /\ account.secret # 0
        BY <1>1, <2>1, <2>2 DEF Accounts, s
    <2>4. ServerOK'
        BY <1>1, <1>11, <2>3 DEF ServerOK, CompleteSetup
    <2> QED
        BY <1>1, <1>11, <2>2, <2>3, <2>4
        DEF BaseInv, TabsOK, ReqsOK, KeysOK, CompleteSetup, p, s, a
<1>12. CASE CutShort(r)
    <2>1. ReqsFit(req', p, s, a)
        BY <1>1, <1>12, FreeSlot DEF CutShort, Done
    <2> QED
        BY <1>1, <1>12, <2>1, BrowserStep DEF CutShort, p, s, a
<1> QED
    BY <1>7, <1>8, <1>9, <1>10, <1>11, <1>12

\* The last step: the access token.
LEMMA IssueStep ==
    ASSUME LoginIInv, NEW r \in Reqs, IssueToken(r)
    PROVE  BaseInv'
<1> DEFINE p == Len(preAuth)  s == account.secret  a == Len(access)  i == req[r].token
<1>1. /\ p \in Nat /\ s \in Nat /\ a \in Nat
      /\ TabsFit(tab, p, s) /\ ReqsFit(req, p, s, a)
      /\ stored \in 0 .. a /\ scanned \subseteq 1 .. s /\ ServerOK
    BY Counts DEF LoginIInv, BaseInv, TabsOK, ReqsOK, KeysOK
<1>2. /\ 200 \in Answers /\ req[r].op = "verify" /\ req[r].phase = "verified"
      /\ access' = Append(access, i) /\ a < MaxTokens /\ Answer(r, 200, a + 1)
    BY DEF Answers, IssueToken, Verifying
<1>3. i \in 1 .. p /\ preAuth[i].st = "used"
    BY <1>1, <1>2 DEF ReqsFit, ReqFits, LoginIInv, SpentOK, Late
<1>4. /\ access' \in Seq(1 .. p) /\ Len(access') = a + 1
      /\ \A j \in 1 .. a : access'[j] = access[j]
      /\ access'[a + 1] = i
    <2> HIDE DEF i
    <2> QED
        BY <1>1, <1>2, <1>3, AppendProperties DEF ServerOK
<1>5. ServerOK'
    <2>1. ASSUME NEW j \in 1 .. Len(access')
          PROVE  preAuth[access'[j]].st = "used"
        <3>1. j \in 1 .. a \/ j = a + 1
            BY <1>1, <1>4
        <3>2. CASE j \in 1 .. a
            BY <1>1, <1>4, <3>2 DEF ServerOK
        <3>3. CASE j = a + 1
            BY <1>3, <1>4, <3>3
        <3> QED
            BY <3>1, <3>2, <3>3
    <2>2. expired \in 0 .. Len(access') /\ Len(access') <= MaxTokens
        BY <1>1, <1>2, <1>4, LoginConstants DEF ServerOK
    <2> QED
        BY <1>1, <1>4, <2>1, <2>2 DEF ServerOK, IssueToken
<1>6. ReqsFit(req', p, s, a + 1)
    <2> DEFINE a2 == a + 1
    <2>1. a2 \in Nat /\ a2 \in 0 .. MaxTokens /\ a2 \in 1 .. a2 /\ Answer(r, 200, a2)
        BY <1>1, <1>2, LoginConstants
    <2>2. ReqsFit(req, p, s, a2)
        <3> HIDE DEF p, s, a
        <3> QED
            BY <1>1, FitsNext
    <2> HIDE DEF p, s, a, a2
    <2>3. a2 \in Carried
        BY <2>1, Zeros
    <2>4. ReqsFit(req', p, s, a2)
        BY <1>1, <1>2, <2>1, <2>2, <2>3, AnswerFits
    <2> QED
        BY <2>4 DEF a2
<1>7. stored \in 0 .. (a + 1)
    BY <1>1
<1> QED
    BY <1>1, <1>4, <1>5, <1>6, <1>7 DEF BaseInv, TabsOK, ReqsOK, KeysOK, IssueToken

\* Tokens run out.
LEMMA ExpiryStep ==
    ASSUME BaseInv,
           (\E i \in 1 .. MaxLogins : PreAuthExpires(i)) \/ AccessExpires
    PROVE  BaseInv'
<1>1. ASSUME NEW i \in 1 .. MaxLogins, PreAuthExpires(i)
      PROVE  BaseInv'
    <2> DEFINE row == [preAuth[i] EXCEPT !.st = "expired"]
    <2>1. ServerOK /\ i \in 1 .. Len(preAuth)
        BY <1>1, LenProperties DEF BaseInv, ServerOK, PreAuthExpires
    <2>2. /\ row \in PreAuthRows /\ preAuth' = [preAuth EXCEPT ![i] = row]
          /\ preAuth[i].st # "used"
        BY <1>1, <2>1, RowShapes DEF PreAuthExpires
    <2> HIDE DEF row
    <2> QED
        BY <1>1, <2>1, <2>2, RowStep DEF PreAuthExpires, BaseInv, ReqsOK
<1>2. CASE AccessExpires
    <2>1. ServerOK'
        BY <1>2 DEF BaseInv, ServerOK, AccessExpires
    <2> QED
        BY <1>2, <2>1 DEF BaseInv, TabsOK, ReqsOK, KeysOK, AccessExpires
<1> QED
    BY <1>1, <1>2

\* The answers arrive, are dropped or are lost.
LEMMA ArrivalStep ==
    ASSUME BaseInv, NEW r \in Reqs,
           \/ PasswordArrives(r) \/ SetupArrives(r) \/ VerifyArrives(r) \/ ReadArrives(r)
           \/ Refused(r) \/ Unheard(r) \/ Lost(r)
    PROVE  BaseInv'
<1> DEFINE p == Len(preAuth)  s == account.secret  a == Len(access)
           q == req[r]  t == req[r].tab
<1>1. /\ p \in Nat /\ s \in Nat /\ a \in Nat /\ p \in 0 .. MaxLogins
      /\ TabsFit(tab, p, s) /\ ReqsFit(req, p, s, a)
      /\ stored \in 0 .. a /\ scanned \subseteq 1 .. s
      /\ stored \in 0 .. MaxTokens
    BY Counts, LoginConstants DEF BaseInv, TabsOK, ReqsOK, KeysOK
<1>2. /\ req \in [Reqs -> Requests] /\ q \in Requests /\ ReqFits(q, p, s, a)
      /\ tab \in [Tabs -> TabStates]
    BY <1>1 DEF ReqsFit, TabsFit
<1>3. t # Nobody => t \in Tabs
    BY <1>2 DEF Requests
<1>4. t \in Tabs => tab[t] \in TabStates /\ TabFits(tab[t], p, s)
    BY <1>1 DEF TabsFit
<1> HIDE DEF p, s, a, q, t
<1>5. ReqsFit(Done(r), p, s, a)
    BY <1>1, FreeSlot
<1>6. CASE PasswordArrives(r)
    <2> DEFINE k == q.new
               step == IF ~q.row.verified THEN "totp_setup" ELSE "totp_verify"
               x == [tab[t] EXCEPT !.token = k, !.step = step]
               e == [NoRequest EXCEPT !.op = "setup", !.tab = t, !.token = k]
    <2>1. t \in Tabs /\ q.op = "password" /\ q.phase = "answered" /\ q.answer = 200
        BY <1>3, <1>6 DEF PasswordArrives, Heard, q, t
    <2>2. k \in 1 .. p /\ (q.row.verified => s # 0)
        BY <1>1, <1>2, <2>1 DEF ReqFits
    <2>3. tab' = [tab EXCEPT ![t] = x]
        <3>1. tab' = [tab EXCEPT ![t].token = k, ![t].step = step]
            BY <1>6 DEF PasswordArrives, q, t
        <3>2. tab \in [Tabs -> TabStates] /\ t \in Tabs
            BY <1>2, <2>1
        <3> HIDE DEF k, step
        <3> QED
            BY <3>1, <3>2
    <2>4. \/ req' = [Orphaned(req, t) EXCEPT ![r] = e]
          \/ req' = Done(r)
        BY <1>6 DEF PasswordArrives, q, t
    <2>5. step \in {"totp_setup", "totp_verify"} /\ (step = "totp_verify" => s # 0)
        BY <2>2
    <2> HIDE DEF k, step
    <2>6. /\ x \in TabStates
          /\ x.token = k /\ x.step = step /\ x.qr = tab[t].qr
        <3>1. k \in Nat /\ step \in Steps
            BY <1>1, <2>2, <2>5 DEF Steps
        <3> QED
            BY <1>4, <2>1, <3>1 DEF TabStates
    <2> HIDE DEF x
    <2>7. TabFits(x, p, s)
        BY <1>1, <1>4, <2>1, <2>2, <2>5, <2>6 DEF TabFits
    <2>8. TabsFit(tab', p, s)
        <3>1. TabsFit([tab EXCEPT ![t] = x], p, s)
            BY <1>1, <2>1, <2>6, <2>7, PutTab
        <3> QED
            BY <2>3, <3>1
    <2>9. e \in Requests
        <3>1. k \in 0 .. MaxLogins
            BY <1>1, <2>2, LoginConstants
        <3>2. NoRequest \in Requests
            BY RequestShapes
        <3> QED
            BY <1>1, <2>1, <3>1, <3>2 DEF Requests
    <2>10. ReqFits(e, p, s, a)
        BY <1>1, <2>2 DEF NoRequest, ReqFits
    <2> HIDE DEF e
    <2>11. ReqsFit(req', p, s, a)
        <3>1. ReqsFit(Orphaned(req, t), p, s, a)
            BY <1>1, OrphanRequests
        <3>2. ReqsFit([Orphaned(req, t) EXCEPT ![r] = e], p, s, a)
            BY <1>1, <2>9, <2>10, <3>1, PutRequest
        <3> QED
            BY <1>5, <2>4, <3>2
    <2> QED
        BY <1>1, <1>6, <2>8, <2>11, BrowserStep DEF PasswordArrives, p, s, a
<1>7. CASE SetupArrives(r)
    <2> DEFINE k == q.new
               x == [tab[t] EXCEPT !.qr = k]
    <2>1. t \in Tabs /\ q.op = "setup" /\ q.phase = "answered" /\ q.answer = 200
        BY <1>3, <1>7 DEF SetupArrives, Heard, q, t
    <2>2. k \in 1 .. s
        BY <1>1, <1>2, <2>1 DEF ReqFits
    <2>3. tab' = [tab EXCEPT ![t] = x]
        BY <1>2, <1>7, <2>1 DEF SetupArrives, q, t
    <2> HIDE DEF k
    <2>4. /\ x \in TabStates
          /\ x.token = tab[t].token /\ x.step = tab[t].step /\ x.qr = k
        BY <1>1, <1>4, <2>1, <2>2 DEF TabStates
    <2> HIDE DEF x
    <2>5. TabFits(x, p, s)
        BY <1>1, <1>4, <2>1, <2>2, <2>4 DEF TabFits
    <2>6. TabsFit(tab', p, s)
        <3>1. TabsFit([tab EXCEPT ![t] = x], p, s)
            BY <1>1, <2>1, <2>4, <2>5, PutTab
        <3> QED
            BY <2>3, <3>1
    <2> QED
        BY <1>1, <1>5, <1>7, <2>6, BrowserStep DEF SetupArrives, p, s, a
<1>8. CASE VerifyArrives(r)
    <2> DEFINE x == [tab[t] EXCEPT !.page = "console", !.step = "done"]
    <2>1. t \in Tabs /\ q.op = "verify" /\ q.phase = "answered" /\ q.answer = 200
        BY <1>3, <1>8 DEF VerifyArrives, Heard, q, t
    <2>2. stored' \in 0 .. a
        <3>1. q.new \in 1 .. a /\ stored' = q.new
            BY <1>2, <1>8, <2>1 DEF ReqFits, VerifyArrives, q
        <3> QED
            BY <1>1, <3>1
    <2>3. tab' = [tab EXCEPT ![t] = x]
        <3>1. tab' = [tab EXCEPT ![t].page = "console", ![t].step = "done"]
            BY <1>8 DEF VerifyArrives, SignedIn, t
        <3>2. tab \in [Tabs -> TabStates] /\ t \in Tabs
            BY <1>2, <2>1
        <3> QED
            BY <3>1, <3>2
    <2>4. /\ x \in TabStates
          /\ x.token = tab[t].token /\ x.step = "done" /\ x.qr = tab[t].qr
        BY <1>4, <2>1 DEF TabStates, Steps
    <2> HIDE DEF x
    <2>5. TabFits(x, p, s)
        BY <1>1, <1>4, <2>1, <2>4 DEF TabFits
    <2>6. TabsFit(tab', p, s)
        <3>1. TabsFit([tab EXCEPT ![t] = x], p, s)
            BY <1>1, <2>1, <2>4, <2>5, PutTab
        <3> QED
            BY <2>3, <3>1
    <2> QED
        BY <1>1, <1>5, <1>8, <2>2, <2>6, BrowserStep DEF VerifyArrives, p, s, a
<1>9. CASE ReadArrives(r)
    BY <1>1, <1>5, <1>9, BrowserStep DEF ReadArrives, p, s, a
<1>10. CASE Refused(r)
    <2>1. t \in Tabs
        BY <1>3, <1>10 DEF Refused, Heard, t
    <2>2. stored' \in 0 .. a
        BY <1>1, <1>10 DEF Refused
    <2>3. ReqsFit(Orphaned(Done(r), t), p, s, a)
        BY <1>1, <1>5, OrphanRequests
    <2>4. TabsFit([tab EXCEPT ![t] = Loaded("login", 0)], p, s)
        BY <1>1, <2>1, LoadedFits, PutTab
    <2>5. TabsFit(tab', p, s) /\ ReqsFit(req', p, s, a)
        BY <1>1, <1>5, <1>10, <2>3, <2>4 DEF Refused, t
    <2> QED
        BY <1>1, <1>10, <2>2, <2>5, BrowserStep DEF Refused, p, s, a
<1>11. CASE Unheard(r)
    BY <1>1, <1>5, <1>11, BrowserStep DEF Unheard, p, s, a
<1>12. CASE Lost(r)
    <2> DEFINE d == [q EXCEPT !.tab = Nobody]
    <2>1. d \in Requests /\ ReqFits(d, p, s, a)
        BY <1>1, <1>2, RequestShapes
    <2>2. req' = [req EXCEPT ![r] = d] \/ req' = Done(r)
        BY <1>2, <1>12 DEF Lost, q
    <2> HIDE DEF d
    <2>3. ReqsFit([req EXCEPT ![r] = d], p, s, a)
        BY <1>1, <2>1, PutRequest
    <2>4. ReqsFit(req', p, s, a)
        BY <1>5, <2>2, <2>3
    <2> QED
        BY <1>1, <1>12, <2>4, BrowserStep DEF Lost, p, s, a
<1> QED
    BY <1>6, <1>7, <1>8, <1>9, <1>10, <1>11, <1>12

-----------------------------------------------------------------------------
-----------------------------------------------------------------------------
(* The two parts about verify_totp at work.                                *)

\* How many requests there may be at a guess.
LEMMA Cards ==
    /\ Cardinality(Reqs) \in Nat
    /\ \A S \in SUBSET Reqs : Cardinality(S) \in Nat /\ Cardinality(S) <= Cardinality(Reqs)
    /\ \A T \in SUBSET Reqs : \A S \in SUBSET T : Cardinality(S) <= Cardinality(T)
    /\ \A T \in SUBSET Reqs : \A r \in T : Cardinality(T \ {r}) = Cardinality(T) - 1
<1>1. \A S \in SUBSET Reqs : IsFiniteSet(S)
    BY LoginConstants, FS_Subset
<1> QED
    BY LoginConstants, <1>1, FS_CardinalityType, FS_Subset, FS_RemoveElement

\* The tokens a step may leave: below the limit, with no more guesses at work than
\* before, or with one counted for a guess that has ended.
LEMMA RoomLeft ==
    ASSUME LoginIInv, BaseInv',
           \A i \in 1 .. Len(preAuth') :
              \/ preAuth'[i].fails <= MaxAttempts - 1
              \/ /\ i \in 1 .. Len(preAuth)
                 /\ preAuth'[i].fails = preAuth[i].fails
                 /\ Guessing(i)' \subseteq Guessing(i)
              \/ /\ i \in 1 .. Len(preAuth)
                 /\ preAuth'[i].fails = preAuth[i].fails + 1
                 /\ \E r \in Guessing(i) : Guessing(i)' \subseteq Guessing(i) \ {r}
    PROVE  GuessesOK'
<1> DEFINE top == MaxAttempts - 1 + Cardinality(Reqs)
<1>1. Cardinality(Reqs) \in Nat /\ MaxAttempts - 1 \in Nat /\ top \in Nat
    BY Cards, LoginConstants
<1>2. ASSUME NEW i \in 1 .. Len(preAuth')
      PROVE  preAuth'[i].fails + Cardinality(Guessing(i)') <= top
    <2> DEFINE G == Guessing(i)  H == Guessing(i)'
               f == preAuth[i].fails  g == preAuth'[i].fails
    <2> SUFFICES g + Cardinality(H) <= top
        OBVIOUS
    <2>1. /\ G \in SUBSET Reqs /\ H \in SUBSET Reqs
          /\ Cardinality(G) \in Nat /\ Cardinality(H) \in Nat
          /\ Cardinality(H) <= Cardinality(Reqs)
        <3>1. G \in SUBSET Reqs /\ H \in SUBSET Reqs
            BY DEF Guessing
        <3> HIDE DEF G, H
        <3> QED
            BY <3>1, Cards
    <2>2. g \in Nat
        <3>1. preAuth'[i] \in PreAuthRows
            BY <1>2, ElementOfSeq DEF BaseInv, ServerOK
        <3> QED
            BY <3>1 DEF PreAuthRows
    <2>3. CASE g <= MaxAttempts - 1
        <3> HIDE DEF H, g
        <3> QED
            BY <1>1, <2>1, <2>2, <2>3
    <2>4. ASSUME i \in 1 .. Len(preAuth)
          PROVE  f \in Nat /\ f + Cardinality(G) <= top
        BY <2>4, RowShapes DEF LoginIInv, BaseInv, GuessesOK
    <2>5. CASE i \in 1 .. Len(preAuth) /\ g = f /\ H \subseteq G
        <3>1. Cardinality(H) <= Cardinality(G)
            <4> HIDE DEF G, H
            <4> QED
                BY <2>1, <2>5, Cards
        <3> HIDE DEF G, H, f, g, top
        <3> QED
            BY <1>1, <2>1, <2>4, <2>5, <3>1
    <2>6. ASSUME i \in 1 .. Len(preAuth), g = f + 1,
                 NEW r \in G, H \subseteq G \ {r}
          PROVE  g + Cardinality(H) <= top
        <3>1. Cardinality(H) <= Cardinality(G \ {r}) /\ Cardinality(G \ {r}) = Cardinality(G) - 1
            <4> HIDE DEF G, H
            <4>1. G \ {r} \in SUBSET Reqs /\ H \in SUBSET (G \ {r})
                BY <2>1, <2>6
            <4> QED
                BY <2>1, <2>6, <4>1, Cards
        <3> HIDE DEF G, H, f, g, top
        <3> QED
            BY <1>1, <2>1, <2>4, <2>6, <3>1
    <2> QED
        BY <2>3, <2>5, <2>6
<1> QED
    BY <1>2 DEF GuessesOK

\* Where a request stands in verify_totp.
SamePlace(q, x) == q.op = x.op /\ q.phase = x.phase /\ q.token = x.token

\* A step that takes no request on in verify_totp: each stays, starts or ends.
Calm == \A k \in Reqs : \/ req'[k].phase \in {"sent", "validated", "answered"}
                        \/ SamePlace(req'[k], req[k])

\* A step that counts no wrong code and makes no spent token good again.
RowsKept ==
    /\ \A i \in 1 .. Len(preAuth) : /\ preAuth'[i].fails = preAuth[i].fails
                                    /\ preAuth[i].st = "used" => preAuth'[i].st = "used"
    /\ \A i \in 1 .. Len(preAuth') : i \notin 1 .. Len(preAuth) => preAuth'[i].fails = 0

\* A request that is past a right code has a token.
LEMMA LateTokens ==
    ASSUME LoginIInv, NEW k \in Reqs, req[k].op = "verify", req[k].phase \in Late
    PROVE  req[k].token \in 1 .. Len(preAuth) /\ preAuth[req[k].token].st = "used"
BY DEF LoginIInv, BaseInv, ReqsOK, ReqsFit, ReqFits, SpentOK, Late

LEMMA CalmStep ==
    ASSUME LoginIInv, BaseInv', Calm, RowsKept
    PROVE  LoginIInv'
<1>1. SpentOK'
    <2> SUFFICES ASSUME NEW k \in Reqs, req'[k].op = "verify", req'[k].phase \in Late
                 PROVE  preAuth'[req'[k].token].st = "used"
        BY DEF SpentOK
    <2>1. SamePlace(req'[k], req[k])
        BY DEF Calm, Late
    <2> QED
        BY <2>1, LateTokens DEF SamePlace, RowsKept
<1>2. GuessesOK'
    <2>1. ASSUME NEW i
          PROVE  Guessing(i)' \subseteq Guessing(i)
        BY DEF Guessing, Verifying, Calm, SamePlace
    <2>2. 0 <= MaxAttempts - 1
        BY LoginConstants
    <2> QED
        BY <2>1, <2>2, RoomLeft DEF RowsKept
<1> QED
    BY <1>1, <1>2 DEF LoginIInv

\* A step that leaves the pre-auth tokens alone.
LEMMA SameRows ==
    ASSUME UNCHANGED preAuth
    PROVE  RowsKept
BY DEF RowsKept

\* Requests are sent, orphaned and freed.
LEMMA CalmRequests ==
    ASSUME LoginIInv
    PROVE  /\ \A t : (req' = Orphaned(req, t) => Calm)
           /\ \A r \in Reqs : (req' = Done(r) => Calm)
           /\ \A r \in Reqs : \A t : (req' = Orphaned(Done(r), t) => Calm)
           /\ \A r \in Reqs : \A q : (q.phase \in {"sent", "answered", "validated"}
                                  /\ req' = [req EXCEPT ![r] = q] => Calm)
           /\ \A r \in Reqs : \A t, q : (q.phase = "sent"
                                  /\ req' = [Orphaned(req, t) EXCEPT ![r] = q] => Calm)
           /\ (req' = req => Calm)
<1>1. req \in [Reqs -> Requests]
    BY DEF LoginIInv, BaseInv, ReqsOK, ReqsFit
<1>2. NoRequest.phase = "sent"
    BY DEF NoRequest
<1>3. \A k \in Reqs : SamePlace(req[k], req[k]) /\ SamePlace([req[k] EXCEPT !.tab = Nobody], req[k])
    BY <1>1 DEF SamePlace, Requests
<1>4. ASSUME NEW t, req' = Orphaned(req, t)
      PROVE  Calm
    BY <1>1, <1>3, <1>4 DEF Calm, Orphaned
<1>5. ASSUME NEW r \in Reqs, req' = Done(r)
      PROVE  Calm
    BY <1>1, <1>2, <1>3, <1>5 DEF Calm, Done
<1>6. ASSUME NEW r \in Reqs, NEW t, req' = Orphaned(Done(r), t)
      PROVE  Calm
    <2>1. ASSUME NEW k \in Reqs
          PROVE  \/ req'[k].phase = "sent" \/ SamePlace(req'[k], req[k])
        <3>1. CASE k = r
            <4>1. [NoRequest EXCEPT !.tab = Nobody].phase = "sent"
                BY DEF NoRequest
            <4> QED
                BY <1>1, <1>2, <1>6, <3>1, <4>1 DEF Orphaned, Done
        <3>2. CASE k # r
            BY <1>1, <1>3, <1>6, <3>2 DEF Orphaned, Done
        <3> QED
            BY <3>1, <3>2
    <2> QED
        BY <2>1 DEF Calm
<1>7. ASSUME NEW r \in Reqs, NEW q, q.phase \in {"sent", "answered", "validated"},
             req' = [req EXCEPT ![r] = q]
      PROVE  Calm
    BY <1>1, <1>3, <1>7 DEF Calm
<1>8. ASSUME NEW r \in Reqs, NEW t, NEW q, q.phase = "sent",
             req' = [Orphaned(req, t) EXCEPT ![r] = q]
      PROVE  Calm
    BY <1>1, <1>3, <1>8 DEF Calm, Orphaned
<1>9. req' = req => Calm
    BY <1>3 DEF Calm
<1> QED
    BY <1>4, <1>5, <1>6, <1>7, <1>8, <1>9

\* An answer ends a request.
LEMMA CalmAnswer ==
    ASSUME LoginIInv, NEW r \in Reqs, NEW code, NEW n, Answer(r, code, n)
    PROVE  Calm
<1> DEFINE d == [NoRequest EXCEPT !.op = req[r].op, !.tab = req[r].tab,
                                  !.phase = "answered", !.answer = code, !.new = n]
<1>1. d.phase = "answered" /\ req' = [req EXCEPT ![r] = d]
    BY DEF NoRequest, Answer
<1> HIDE DEF d
<1> QED
    BY <1>1, CalmRequests

\* The steps other than verify_totp's leave its requests where they are.
LEMMA OtherSteps ==
    ASSUME LoginIInv, BaseInv',
           \/ \E t \in Tabs : \/ \E page \in {"login", "console"} : Visit(t, page)
                              \/ ScannedIt(t) \/ HandleResetAuth(t) \/ Logout(t)
           \/ \E r \in Reqs, t \in Tabs :
                 \/ OnPasswordSubmit(r, t) \/ ConsoleRead(r, t)
                 \/ \E c \in 0 .. MaxSecrets : HandleTotpChange(r, t, c)
           \/ \E r \in Reqs :
                 \/ WrongPassword(r) \/ SetupTotp(r) \/ ServeRead(r) \/ CutShort(r)
                 \/ IssueToken(r)
                 \/ PasswordArrives(r) \/ SetupArrives(r) \/ VerifyArrives(r)
                 \/ ReadArrives(r) \/ Refused(r) \/ Unheard(r)
           \/ AccessExpires
    PROVE  LoginIInv'
<1>1. UNCHANGED preAuth
    BY DEF Visit, ScannedIt, HandleResetAuth, Logout, OnPasswordSubmit, ConsoleRead,
           HandleTotpChange, WrongPassword, SetupTotp, ServeRead, CutShort, IssueToken,
           PasswordArrives, SetupArrives, VerifyArrives, ReadArrives, Refused, Unheard,
           AccessExpires
<1> SUFFICES Calm
    BY <1>1, SameRows, CalmStep
<1>2. ASSUME NEW r \in Reqs, NEW t, NEW q, q.phase = "sent", Send(r, t, q)
      PROVE  Calm
    <2> DEFINE d == [q EXCEPT !.tab = t]
    <2>1. req' = [req EXCEPT ![r] = d]
        BY <1>2 DEF Send
    <2>2. d.phase = "sent"
        BY <1>2
    <2> HIDE DEF d
    <2> QED
        BY <2>1, <2>2, CalmRequests
<1>3. ASSUME NEW t \in Tabs,
             \/ \E page \in {"login", "console"} : Visit(t, page)
             \/ ScannedIt(t) \/ HandleResetAuth(t) \/ Logout(t)
      PROVE  Calm
    BY <1>3, CalmRequests DEF Visit, ScannedIt, HandleResetAuth, Logout
<1>4. ASSUME NEW r \in Reqs, NEW t \in Tabs,
             \/ OnPasswordSubmit(r, t) \/ ConsoleRead(r, t)
             \/ \E c \in 0 .. MaxSecrets : HandleTotpChange(r, t, c)
      PROVE  Calm
    <2>1. /\ [NoRequest EXCEPT !.op = "password"].phase = "sent"
          /\ [NoRequest EXCEPT !.op = "read", !.bearer = stored].phase = "sent"
          /\ \A n, c : [NoRequest EXCEPT !.op = "verify", !.token = n, !.code = c].phase
                         = "sent"
        BY DEF NoRequest
    <2>2. CASE OnPasswordSubmit(r, t)
        BY <1>2, <2>1, <2>2 DEF OnPasswordSubmit
    <2>3. CASE ConsoleRead(r, t)
        BY <1>2, <2>1, <2>3 DEF ConsoleRead
    <2>4. ASSUME NEW c \in 0 .. MaxSecrets, HandleTotpChange(r, t, c)
          PROVE  Calm
        BY <1>2, <2>1, <2>4 DEF HandleTotpChange
    <2> QED
        BY <1>4, <2>2, <2>3, <2>4
<1>5. ASSUME NEW r \in Reqs,
             WrongPassword(r) \/ SetupTotp(r) \/ ServeRead(r) \/ IssueToken(r)
      PROVE  Calm
    BY <1>5, CalmAnswer DEF WrongPassword, SetupTotp, ServeRead, IssueToken
<1>6. ASSUME NEW r \in Reqs,
             \/ CutShort(r) \/ SetupArrives(r) \/ VerifyArrives(r) \/ ReadArrives(r)
             \/ Refused(r) \/ Unheard(r)
      PROVE  Calm
    <2>1. CutShort(r) => req' = Done(r)
        BY DEF CutShort, Done
    <2> QED
        BY <1>6, <2>1, CalmRequests
        DEF SetupArrives, VerifyArrives, ReadArrives, Refused, Unheard
<1>7. ASSUME NEW r \in Reqs, PasswordArrives(r)
      PROVE  Calm
    <2> DEFINE u == req[r].tab
               e == [NoRequest EXCEPT !.op = "setup", !.tab = u, !.token = req[r].new]
    <2>1. req' = [Orphaned(req, u) EXCEPT ![r] = e] \/ req' = Done(r)
        BY <1>7 DEF PasswordArrives
    <2>2. e.phase = "sent"
        BY DEF NoRequest
    <2> HIDE DEF e
    <2> QED
        BY <2>1, <2>2, CalmRequests
<1>8. CASE AccessExpires
    BY <1>8, CalmRequests DEF AccessExpires
<1> QED
    BY <1>3, <1>4, <1>5, <1>6, <1>7, <1>8

\* So do a right password, a SELECT, a lost call and an expiry.
LEMMA OtherWriters ==
    ASSUME LoginIInv, BaseInv',
           \/ \E r \in Reqs : AuthenticatePassword(r) \/ Validate(r) \/ Lost(r)
           \/ \E i \in 1 .. MaxLogins : PreAuthExpires(i)
    PROVE  LoginIInv'
<1>0. /\ req \in [Reqs -> Requests] /\ preAuth \in Seq(PreAuthRows)
      /\ preAuth \in [1 .. Len(preAuth) -> PreAuthRows]
    BY LenProperties DEF LoginIInv, BaseInv, ServerOK, ReqsOK, ReqsFit
<1>1. ASSUME NEW r \in Reqs, AuthenticatePassword(r)
      PROVE  LoginIInv'
    <2> DEFINE row == [st |-> "live", fails |-> 0]
    <2>1. row \in PreAuthRows /\ row.fails = 0
        BY DEF PreAuthRows
    <2>2. preAuth' = Append(preAuth, row)
        BY <1>1 DEF AuthenticatePassword
    <2> HIDE DEF row
    <2>3. /\ \A k \in 1 .. Len(preAuth) : preAuth'[k] = preAuth[k]
          /\ \A k \in 1 .. Len(preAuth') : k \notin 1 .. Len(preAuth) => preAuth'[k] = row
        BY <1>0, <2>1, <2>2, AppendProperties
    <2>4. RowsKept
        BY <2>1, <2>3 DEF RowsKept
    <2>5. Calm
        <3> DEFINE q == [req[r] EXCEPT !.phase = "answered", !.answer = 200,
                                       !.new = Len(preAuth) + 1, !.row = account]
        <3>1. q.phase = "answered" /\ req' = [req EXCEPT ![r] = q]
            BY <1>0, <1>1 DEF AuthenticatePassword, Requests
        <3> HIDE DEF q
        <3> QED
            BY <3>1, CalmRequests
    <2> QED
        BY <2>4, <2>5, CalmStep
<1>2. ASSUME NEW r \in Reqs, Validate(r)
      PROVE  LoginIInv'
    <2> DEFINE q == [req[r] EXCEPT !.phase = "validated", !.row = account]
    <2>1. /\ UNCHANGED preAuth
          /\ Answer(r, 401, 0) \/ req' = [req EXCEPT ![r] = q]
        <3>1. req' = [req EXCEPT ![r].phase = "validated", ![r].row = account]
                => req' = [req EXCEPT ![r] = q]
            BY <1>0
        <3> QED
            BY <1>2, <3>1 DEF Validate
    <2>2. q.phase = "validated"
        BY <1>0 DEF Requests
    <2> HIDE DEF q
    <2> QED
        BY <2>1, <2>2, CalmRequests, CalmAnswer, SameRows, CalmStep
<1>3. ASSUME NEW r \in Reqs, Lost(r)
      PROVE  LoginIInv'
    <2>1. Calm
        <3> DEFINE q == [req[r] EXCEPT !.tab = Nobody]
        <3>1. SamePlace(q, req[r])
            BY <1>0 DEF SamePlace, Requests
        <3>2. req' = [req EXCEPT ![r] = q] \/ req' = Done(r)
            BY <1>0, <1>3 DEF Lost
        <3> HIDE DEF q
        <3>3. \A k \in Reqs : SamePlace(req[k], req[k])
            BY DEF SamePlace
        <3>4. ASSUME req' = [req EXCEPT ![r] = q]
              PROVE  Calm
            BY <1>0, <3>1, <3>3, <3>4 DEF Calm
        <3> QED
            BY <3>2, <3>4, CalmRequests
    <2> QED
        BY <1>3, <2>1, SameRows, CalmStep DEF Lost
<1>4. ASSUME NEW i \in 1 .. MaxLogins, PreAuthExpires(i)
      PROVE  LoginIInv'
    <2>1. RowsKept
        BY <1>0, <1>4 DEF PreAuthExpires, RowsKept, PreAuthRows
    <2> QED
        BY <1>4, <2>1, CalmRequests, CalmStep DEF PreAuthExpires
<1> QED
    BY <1>1, <1>2, <1>3, <1>4

\* The other requests stay where they are.
LEMMA GoOnElsewhere ==
    ASSUME LoginIInv, NEW r \in Reqs, NEW phase, GoOn(r, phase)
    PROVE  /\ req'[r].op = "verify" /\ req'[r].phase = phase
           /\ req'[r].token = req[r].token
           /\ \A k \in Reqs \ {r} : req'[k] = req[k]
BY DEF GoOn, NoRequest, LoginIInv, BaseInv, ReqsOK, ReqsFit

\* The steps of verify_totp with the pre-auth token i.
LEMMA VerifySteps ==
    ASSUME LoginIInv, BaseInv', NEW r \in Reqs, NEW i, i = req[r].token,
           \/ ReadAttempts(r) \/ WrongCode(r) \/ SpendToken(r) \/ RightCode(r)
           \/ ClearAttempts(r) \/ CompleteSetup(r)
    PROVE  LoginIInv'
<1>0. /\ req \in [Reqs -> Requests] /\ preAuth \in Seq(PreAuthRows)
      /\ preAuth \in [1 .. Len(preAuth) -> PreAuthRows]
      /\ MaxAttempts - 1 \in Nat
    BY LenProperties, LoginConstants DEF LoginIInv, BaseInv, ServerOK, ReqsOK, ReqsFit
<1>1. req[r].op = "verify" /\ req[r].phase \in Working /\ i \in 1 .. Len(preAuth)
    <2>1. req[r].op = "verify" /\ req[r].phase \in Working
        BY DEF ReadAttempts, WrongCode, SpendToken, RightCode, ClearAttempts, CompleteSetup,
               Verifying, Working
    <2> QED
        BY <2>1 DEF Working, LoginIInv, BaseInv, ReqsOK, ReqsFit, ReqFits
<1>2. /\ Len(preAuth') = Len(preAuth)
      /\ \A j \in 1 .. Len(preAuth) : j # i => preAuth'[j] = preAuth[j]
      /\ preAuth'[i].st = preAuth[i].st \/ preAuth'[i].st = "used"
    <2>1. \/ preAuth' = preAuth
          \/ preAuth' = [preAuth EXCEPT ![i].fails = @ + 1]
          \/ preAuth' = [preAuth EXCEPT ![i].fails = 0]
          \/ preAuth' = [preAuth EXCEPT ![i].st = "used"]
        BY DEF ReadAttempts, WrongCode, SpendToken, RightCode, ClearAttempts, CompleteSetup,
               Spent
    <2>2. preAuth' \in [1 .. Len(preAuth) -> PreAuthRows] => Len(preAuth') = Len(preAuth)
        BY LenProperties DEF BaseInv, ServerOK
    <2>3. /\ preAuth'[i].st = preAuth[i].st \/ preAuth'[i].st = "used"
          /\ \A j \in 1 .. Len(preAuth) : j # i => preAuth'[j] = preAuth[j]
          /\ DOMAIN preAuth' = 1 .. Len(preAuth)
        BY <1>0, <1>1, <2>1 DEF PreAuthRows
    <2>4. Len(preAuth') = Len(preAuth)
        BY <2>3, <1>0, LenProperties DEF BaseInv, ServerOK
    <2> QED
        BY <2>3, <2>4
<1>3. \A k \in Reqs \ {r} : req'[k] = req[k]
    BY <1>0, GoOnElsewhere
    DEF ReadAttempts, WrongCode, SpendToken, RightCode, ClearAttempts, CompleteSetup, Answer
<1>4. \A j \in 1 .. Len(preAuth) : preAuth[j].st = "used" => preAuth'[j].st = "used"
    BY <1>2
<1>5. SpentOK'
    <2> SUFFICES ASSUME NEW k \in Reqs, req'[k].op = "verify", req'[k].phase \in Late
                 PROVE  preAuth'[req'[k].token].st = "used"
        BY DEF SpentOK
    <2>1. CASE k # r
        BY <1>3, <1>4, <2>1, LateTokens
    <2>2. CASE k = r
        <3>1. CASE ReadAttempts(r)
            <4>1. req' = [req EXCEPT ![r].phase = "open"] => req'[r].phase = "open"
                BY <1>0 DEF Requests
            <4> QED
                BY <2>2, <3>1, <4>1, GoOnElsewhere DEF ReadAttempts, Late
        <3>2. CASE WrongCode(r) \/ SpendToken(r)
            <4>1. ASSUME Answer(r, 401, 0)
                  PROVE  req'[r].phase = "answered"
                BY <1>0, <4>1 DEF Answer, NoRequest
            <4> QED
                BY <2>2, <3>2, <4>1, GoOnElsewhere DEF WrongCode, SpendToken, Late
        <3>3. CASE RightCode(r)
            <4>1. preAuth'[i].st = "used" /\ req'[r].token = i
                BY <1>0, <1>1, <3>3, GoOnElsewhere DEF RightCode, Spent, PreAuthRows
            <4> QED
                BY <2>2, <4>1
        <3>4. CASE ClearAttempts(r) \/ CompleteSetup(r)
            <4>1. req[r].phase \in Late /\ req'[r].token = i
                BY <3>4, GoOnElsewhere DEF ClearAttempts, CompleteSetup, Verifying, Late
            <4> QED
                BY <1>1, <1>4, <2>2, <4>1, LateTokens
        <3> QED
            BY <3>1, <3>2, <3>3, <3>4
    <2> QED
        BY <2>1, <2>2
<1>6. GuessesOK'
    <2>1. ASSUME NEW j \in 1 .. Len(preAuth), j # i
          PROVE  preAuth'[j].fails = preAuth[j].fails /\ Guessing(j)' \subseteq Guessing(j)
        <3>1. preAuth'[j].fails = preAuth[j].fails
            BY <1>2, <2>1
        <3>2. req'[r].op = "verify" /\ req'[r].phase = "open" => req'[r].token = i
            <4>1. CASE ReadAttempts(r)
                <5>1. req' = [req EXCEPT ![r].phase = "open"] => req'[r].token = i
                    BY <1>0 DEF Requests
                <5> QED
                    BY <4>1, <5>1, GoOnElsewhere DEF ReadAttempts
            <4>2. ASSUME Answer(r, 401, 0)
                  PROVE  req'[r].phase = "answered"
                BY <1>0, <4>2 DEF Answer, NoRequest
            <4> QED
                BY <4>1, <4>2, GoOnElsewhere
                DEF WrongCode, SpendToken, RightCode, ClearAttempts, CompleteSetup
        <3> QED
            BY <1>3, <2>1, <3>1, <3>2 DEF Guessing, Verifying
    <2>2. \/ preAuth'[i].fails <= MaxAttempts - 1
          \/ preAuth'[i].fails = preAuth[i].fails /\ Guessing(i)' \subseteq Guessing(i)
          \/ /\ preAuth'[i].fails = preAuth[i].fails + 1
             /\ r \in Guessing(i) /\ Guessing(i)' \subseteq Guessing(i) \ {r}
        <3>0. preAuth[i].fails \in Nat
            BY <1>0, <1>1 DEF PreAuthRows
        <3>1. req'[r].phase # "open" => Guessing(i)' \subseteq Guessing(i) \ {r}
            BY <1>3 DEF Guessing, Verifying
        <3>2. CASE ReadAttempts(r)
            <4>1. CASE LockedOut(i)
                BY <3>1, <3>2, <4>1, GoOnElsewhere DEF ReadAttempts
            <4>2. CASE ~LockedOut(i)
                BY <3>0, <3>2, <4>2, LoginConstants DEF ReadAttempts, LockedOut
            <4> QED
                BY <4>1, <4>2
        <3>3. ASSUME Answer(r, 401, 0)
              PROVE  req'[r].phase = "answered"
            BY <1>0, <3>3 DEF Answer, NoRequest
        <3>4. CASE WrongCode(r)
            <4>1. preAuth'[i].fails = preAuth[i].fails + 1
                BY <1>0, <1>1, <3>4 DEF WrongCode, PreAuthRows
            <4>2. r \in Guessing(i) /\ req'[r].phase # "open"
                BY <3>3, <3>4, GoOnElsewhere DEF WrongCode, Guessing
            <4> QED
                BY <3>1, <4>1, <4>2
        <3>5. CASE SpendToken(r) \/ RightCode(r)
            <4>1. preAuth'[i].fails = preAuth[i].fails
                BY <1>0, <1>1, <3>5 DEF SpendToken, RightCode, Spent, PreAuthRows
            <4> QED
                BY <3>1, <3>3, <3>5, <4>1, GoOnElsewhere DEF SpendToken, RightCode
        <3>6. CASE ClearAttempts(r)
            <4>1. preAuth'[i].fails = 0
                BY <1>0, <1>1, <3>6 DEF ClearAttempts, PreAuthRows
            <4> QED
                BY <1>0, <4>1
        <3>7. CASE CompleteSetup(r)
            BY <3>1, <3>7, GoOnElsewhere DEF CompleteSetup
        <3> QED
            BY <3>2, <3>4, <3>5, <3>6, <3>7
    <2>3. \A j \in 1 .. Len(preAuth') :
              \/ preAuth'[j].fails <= MaxAttempts - 1
              \/ /\ j \in 1 .. Len(preAuth)
                 /\ preAuth'[j].fails = preAuth[j].fails
                 /\ Guessing(j)' \subseteq Guessing(j)
              \/ /\ j \in 1 .. Len(preAuth)
                 /\ preAuth'[j].fails = preAuth[j].fails + 1
                 /\ \E x \in Guessing(j) : Guessing(j)' \subseteq Guessing(j) \ {x}
        BY <1>1, <1>2, <2>1, <2>2
    <2> QED
        BY <2>3, RoomLeft
<1> QED
    BY <1>5, <1>6 DEF LoginIInv

LEMMA LoginStart == Init => LoginIInv
<1> SUFFICES ASSUME Init PROVE LoginIInv
    OBVIOUS
<1>1. /\ preAuth = <<>> /\ access = <<>> /\ Len(preAuth) = 0 /\ Len(access) = 0
      /\ account.secret = 0 /\ account.verified = FALSE /\ account \in Accounts
    BY LoginConstants DEF Init, Accounts
<1>2. ServerOK
    BY <1>1, LoginConstants DEF Init, ServerOK
<1>3. TabsOK
    BY <1>1 DEF Init, TabsOK, TabsFit, TabFits, TabStates, Steps
<1>4. ReqsOK
    <2>1. NoRequest \in Requests /\ ReqFits(NoRequest, 0, 0, 0)
        BY RequestShapes
    <2> QED
        BY <1>1, <2>1 DEF Init, ReqsOK, ReqsFit
<1>5. SpentOK
    BY DEF Init, SpentOK, NoRequest
<1>6. GuessesOK
    BY <1>1 DEF GuessesOK
<1> QED
    BY <1>1, <1>2, <1>3, <1>4, <1>5, <1>6 DEF Init, LoginIInv, BaseInv, KeysOK

LEMMA LoginStep == LoginIInv /\ [Next]_loginVars => LoginIInv'
<1> SUFFICES ASSUME LoginIInv, [Next]_loginVars PROVE LoginIInv'
    OBVIOUS
<1>0. BaseInv
    BY DEF LoginIInv
<1>1. CASE \E t \in Tabs : \/ \E page \in {"login", "console"} : Visit(t, page)
                           \/ ScannedIt(t) \/ HandleResetAuth(t) \/ Logout(t)
    BY <1>0, <1>1, TabStep, OtherSteps
<1>2. CASE \E r \in Reqs, t \in Tabs :
              \/ OnPasswordSubmit(r, t) \/ ConsoleRead(r, t)
              \/ \E c \in 0 .. MaxSecrets : HandleTotpChange(r, t, c)
    BY <1>0, <1>2, SendStep, OtherSteps
<1>3. ASSUME NEW r \in Reqs,
             \/ WrongPassword(r) \/ SetupTotp(r) \/ ServeRead(r) \/ CutShort(r)
             \/ IssueToken(r)
             \/ PasswordArrives(r) \/ SetupArrives(r) \/ VerifyArrives(r)
             \/ ReadArrives(r) \/ Refused(r) \/ Unheard(r)
      PROVE  LoginIInv'
    <2>1. BaseInv'
        BY <1>0, <1>3, ReadingStep, SetupStep, VerifyingStep, IssueStep, ArrivalStep
    <2> QED
        BY <1>3, <2>1, OtherSteps
<1>4. ASSUME NEW r \in Reqs, AuthenticatePassword(r) \/ Validate(r) \/ Lost(r)
      PROVE  LoginIInv'
    BY <1>0, <1>4, PasswordStep, ReadingStep, ArrivalStep, OtherWriters
<1>5. ASSUME NEW r \in Reqs,
             \/ ReadAttempts(r) \/ WrongCode(r) \/ SpendToken(r) \/ RightCode(r)
             \/ ClearAttempts(r) \/ CompleteSetup(r)
      PROVE  LoginIInv'
    BY <1>0, <1>5, VerifyingStep, VerifySteps
<1>6. ASSUME NEW i \in 1 .. MaxLogins, PreAuthExpires(i)
      PROVE  LoginIInv'
    BY <1>0, <1>6, ExpiryStep, OtherWriters
<1>7. CASE AccessExpires
    BY <1>0, <1>7, ExpiryStep, OtherSteps
<1>8. CASE UNCHANGED loginVars
    BY <1>8
    DEF loginVars, LoginIInv, BaseInv, ServerOK, TabsOK, ReqsOK, KeysOK, SpentOK,
        GuessesOK, Guessing, Verifying
<1> QED
    BY <1>1, <1>2, <1>3, <1>4, <1>5, <1>6, <1>7, <1>8 DEF Next

\* The inductive invariant holds throughout: what a tab or a request in the air
\* carries was made by the backend, at whatever time it is served or heard.
THEOREM LoginInvariant == Spec => []LoginIInv
BY LoginStart, LoginStep, PTL DEF Spec

\* LoginInv on every instance: no reset, late answer or reload leaves a tab that
\* asks for a code without the pre-auth token the code is sent with.
THEOREM CodeFormsWork == Spec => []LoginInv
<1>1. LoginIInv => LoginInv
    <2> SUFFICES ASSUME LoginIInv PROVE LoginInv
        OBVIOUS
    <2>1. /\ Len(preAuth) \in Nat /\ account.secret \in 0 .. MaxSecrets
          /\ tab \in [Tabs -> TabStates]
          /\ \A t \in Tabs : TabFits(tab[t], Len(preAuth), account.secret)
        BY Counts DEF LoginIInv, BaseInv, TabsOK, TabsFit
    <2>2. ASSUME NEW t \in Tabs
          PROVE  /\ tab[t] \in TabStates
                 /\ tab[t].token \in 0 .. Len(preAuth) /\ tab[t].qr \in 0 .. MaxSecrets
                 /\ tab[t].step \in {"totp_setup", "totp_verify"} => tab[t].token # 0
        BY <2>1, LoginConstants DEF TabFits
    <2>3. tab \in [Tabs -> [page : {"login", "console"}, step : Steps,
                            token : 0 .. Len(preAuth), qr : 0 .. MaxSecrets]]
        <3>1. ASSUME NEW t \in Tabs
              PROVE  tab[t] \in [page : {"login", "console"}, step : Steps,
                                 token : 0 .. Len(preAuth), qr : 0 .. MaxSecrets]
            BY <2>2 DEF TabStates
        <3> QED
            BY <2>1, <3>1
    <2>4. TypeOK
        BY <2>3 DEF TypeOK, LoginIInv, BaseInv, ServerOK, ReqsOK, ReqsFit, KeysOK
    <2> QED
        BY <2>2, <2>4 DEF LoginInv, CodeCanBeSubmitted
<1> QED
    BY <1>1, LoginInvariant, PTL

\* GuessesBounded on every instance, whatever the limit and the number of requests:
\* overlapping verify_totp gain one wrong code each over the limit and no more, also
\* when the backend dies between the INCR and the UPDATE.
THEOREM GuessesAreBounded == Spec => []GuessesBounded
<1>1. LoginIInv => GuessesBounded
    <2> SUFFICES ASSUME LoginIInv, NEW i \in DOMAIN preAuth
                 PROVE  preAuth[i].fails <= MaxAttempts - 1 + Cardinality(Reqs)
        BY DEF GuessesBounded
    <2>1. i \in 1 .. Len(preAuth)
        BY LenProperties DEF LoginIInv, BaseInv, ServerOK
    <2>2. /\ preAuth[i].fails \in Nat
          /\ preAuth[i].fails + Cardinality(Guessing(i)) <= MaxAttempts - 1 + Cardinality(Reqs)
        BY <2>1, RowShapes DEF LoginIInv, BaseInv, GuessesOK
    <2>3. Cardinality(Guessing(i)) \in Nat
        <3>1. Guessing(i) \in SUBSET Reqs
            BY DEF Guessing
        <3> QED
            BY <3>1, Cards
    <2> QED
        BY <2>2, <2>3, Cards, LoginConstants
<1> QED
    BY <1>1, LoginInvariant, PTL

-----------------------------------------------------------------------------
(* What single steps may do.                                               *)

\* A request becomes validated in one place only.
LEMMA OnlyValidate ==
    ASSUME LoginIInv, [Next]_loginVars, NEW r \in Reqs,
           req[r].phase = "sent", req'[r].phase = "validated"
    PROVE  Validate(r)
<1>0. req \in [Reqs -> Requests]
    BY DEF LoginIInv, BaseInv, ReqsOK, ReqsFit
<1>1. /\ \A t : Orphaned(req, t)[r].phase = req[r].phase
      /\ NoRequest.phase = "sent"
      /\ \A k \in Reqs : Done(k)[r].phase # "validated"
      /\ \A k \in Reqs : \A t : Orphaned(Done(k), t)[r].phase # "validated"
    BY <1>0 DEF Orphaned, NoRequest, Done, Requests
<1>2. ~UNCHANGED req
    OBVIOUS
<1>3. ASSUME NEW t \in Tabs,
             \/ \E page \in {"login", "console"} : Visit(t, page)
             \/ ScannedIt(t) \/ HandleResetAuth(t) \/ Logout(t)
      PROVE  FALSE
    BY <1>1, <1>2, <1>3 DEF Visit, ScannedIt, HandleResetAuth, Logout
<1>4. ASSUME NEW k \in Reqs, NEW t \in Tabs,
             \/ OnPasswordSubmit(k, t) \/ ConsoleRead(k, t)
             \/ \E c \in 0 .. MaxSecrets : HandleTotpChange(k, t, c)
      PROVE  FALSE
    <2>1. ASSUME NEW q, Send(k, t, q), q.phase = "sent", q \in Requests
          PROVE  FALSE
        BY <1>0, <2>1 DEF Send, Requests
    <2>2. NoRequest \in Requests
        BY RequestShapes
    <2>3. CASE OnPasswordSubmit(k, t)
        BY <1>1, <2>1, <2>2, <2>3 DEF OnPasswordSubmit, Requests
    <2>4. CASE ConsoleRead(k, t)
        <3> DEFINE q == [NoRequest EXCEPT !.op = "read", !.bearer = stored]
        <3>1. stored \in 0 .. MaxTokens /\ Send(k, t, q)
            BY <2>4, Counts, LoginConstants DEF ConsoleRead, LoginIInv, BaseInv, KeysOK
        <3>2. q \in Requests /\ q.phase = "sent"
            BY <1>1, <2>2, <3>1 DEF Requests
        <3> HIDE DEF q
        <3> QED
            BY <2>1, <3>1, <3>2
    <2>5. ASSUME NEW c \in 0 .. MaxSecrets, HandleTotpChange(k, t, c)
          PROVE  FALSE
        <3> DEFINE n == tab[t].token
                   q == [NoRequest EXCEPT !.op = "verify", !.token = n, !.code = c]
        <3>1. n \in 0 .. MaxLogins /\ Send(k, t, q)
            BY <2>5, Counts, LoginConstants
            DEF HandleTotpChange, LoginIInv, BaseInv, TabsOK, TabsFit, TabFits
        <3> HIDE DEF n
        <3>2. q \in Requests /\ q.phase = "sent"
            BY <1>1, <2>2, <3>1 DEF Requests
        <3> HIDE DEF q
        <3> QED
            BY <2>1, <3>1, <3>2
    <2> QED
        BY <1>4, <2>3, <2>4, <2>5
<1>5. ASSUME NEW k \in Reqs, NEW code, NEW n, Answer(k, code, n)
      PROVE  FALSE
    BY <1>0, <1>1, <1>5 DEF Answer, NoRequest
<1>6. ASSUME NEW k \in Reqs,
             \/ AuthenticatePassword(k) \/ WrongPassword(k)
             \/ SetupTotp(k) \/ ServeRead(k) \/ ReadAttempts(k) \/ WrongCode(k)
             \/ SpendToken(k) \/ RightCode(k) \/ ClearAttempts(k) \/ CompleteSetup(k)
             \/ IssueToken(k) \/ CutShort(k)
      PROVE  FALSE
    <2>1. CASE AuthenticatePassword(k)
        BY <1>0, <2>1 DEF AuthenticatePassword, Requests
    <2>2. CASE CutShort(k)
        BY <1>1, <2>2 DEF CutShort, Done
    <2>3. ASSUME NEW phase, phase # "validated", GoOn(k, phase)
          PROVE  FALSE
        <3>1. req'[k].phase = phase /\ \A x \in Reqs \ {k} : req'[x] = req[x]
            BY <2>3, GoOnElsewhere
        <3> QED
            BY <2>3, <3>1
    <2>4. CASE ReadAttempts(k)
        <3>1. CASE req' = [req EXCEPT ![k].phase = "open"]
            BY <1>0, <3>1 DEF Requests
        <3> QED
            BY <2>3, <2>4, <3>1 DEF ReadAttempts
    <2>5. CASE WrongCode(k) \/ SpendToken(k) \/ IssueToken(k)
        BY <1>5, <2>3, <2>5 DEF WrongCode, SpendToken, IssueToken
    <2>6. CASE RightCode(k) \/ ClearAttempts(k) \/ CompleteSetup(k)
        BY <2>3, <2>6 DEF RightCode, ClearAttempts, CompleteSetup
    <2> QED
        BY <1>5, <1>6, <2>1, <2>2, <2>4, <2>5, <2>6 DEF WrongPassword, SetupTotp, ServeRead
<1>7. ASSUME NEW k \in Reqs,
             \/ PasswordArrives(k) \/ SetupArrives(k) \/ VerifyArrives(k) \/ ReadArrives(k)
             \/ Refused(k) \/ Unheard(k) \/ Lost(k)
      PROVE  FALSE
    <2>1. CASE PasswordArrives(k)
        <3> DEFINE t == req[k].tab
                   e == [NoRequest EXCEPT !.op = "setup", !.tab = t,
                                          !.token = req[k].new]
        <3>1. req' = Done(k) \/ req' = [Orphaned(req, t) EXCEPT ![k] = e]
            BY <2>1 DEF PasswordArrives
        <3>2. e.phase = "sent"
            BY DEF NoRequest
        <3>3. Orphaned(req, t) \in [Reqs -> Requests]
            <4>1. ReqsFit(req, Len(preAuth), account.secret, Len(access))
                BY DEF LoginIInv, BaseInv, ReqsOK
            <4> QED
                BY <4>1, Counts, OrphanRequests DEF LoginIInv, BaseInv, ReqsFit
        <3> HIDE DEF t, e
        <3> QED
            BY <1>1, <3>1, <3>2, <3>3
    <2>2. CASE Lost(k)
        BY <1>0, <1>1, <2>2 DEF Lost, Requests
    <2> QED
        BY <1>1, <1>7, <2>1, <2>2
        DEF SetupArrives, VerifyArrives, ReadArrives, Refused, Unheard
<1>8. ASSUME (\E i \in 1 .. MaxLogins : PreAuthExpires(i)) \/ AccessExpires
      PROVE  FALSE
    BY <1>2, <1>8 DEF PreAuthExpires, AccessExpires
<1>9. ASSUME NEW k \in Reqs, Validate(k), k # r
      PROVE  FALSE
    BY <1>0, <1>5, <1>9 DEF Validate
<1> QED
    BY <1>2, <1>3, <1>4, <1>6, <1>7, <1>8, <1>9 DEF Next, loginVars

\* SpentTokenIsRefused on every instance: a second session of one password takes
\* two verify_totp that overlap.
THEOREM SpentTokensAreRefused == Spec => SpentTokenIsRefused
<1>1. LoginIInv /\ [Next]_loginVars =>
         [\A r \in Reqs : req[r].phase = "sent" /\ req'[r].phase = "validated"
            => \A i \in DOMAIN access : access[i] # req[r].token]_loginVars
    <2> SUFFICES ASSUME LoginIInv, [Next]_loginVars, NEW r \in Reqs,
                        req[r].phase = "sent", req'[r].phase = "validated",
                        NEW i \in DOMAIN access
                 PROVE  access[i] # req[r].token
        OBVIOUS
    <2>1. Validate(r) /\ req[r] \in Requests
        BY OnlyValidate DEF LoginIInv, BaseInv, ReqsOK, ReqsFit
    <2>2. preAuth[req[r].token].st = "live"
        <3>1. ASSUME Answer(r, 401, 0)
              PROVE  FALSE
            BY <2>1, <3>1 DEF Answer, NoRequest, LoginIInv, BaseInv, ReqsOK, ReqsFit
        <3> QED
            BY <2>1, <3>1 DEF Validate
    <2>3. i \in 1 .. Len(access)
        BY LenProperties DEF LoginIInv, BaseInv, ServerOK
    <2> QED
        BY <2>2, <2>3 DEF LoginIInv, BaseInv, ServerOK
<1> QED
    BY <1>1, LoginInvariant, PTL DEF Spec, SpentTokenIsRefused

\* The secret is written in one place only.
LEMMA OnlySetup ==
    ASSUME LoginIInv, [Next]_loginVars, account'.secret # account.secret
    PROVE  \E r \in Reqs : SetupTotp(r) /\ ~AlreadyConfigured(req[r].row)
<1>1. ASSUME NEW r \in Reqs, CompleteSetup(r)
      PROVE  FALSE
    BY <1>1 DEF CompleteSetup, LoginIInv, BaseInv, ServerOK, Accounts
<1>2. ASSUME NEW r \in Reqs, SetupTotp(r)
      PROVE  ~AlreadyConfigured(req[r].row)
    BY <1>2 DEF SetupTotp
<1>3. ASSUME NEW t \in Tabs,
             \/ \E page \in {"login", "console"} : Visit(t, page)
             \/ ScannedIt(t) \/ HandleResetAuth(t) \/ Logout(t)
      PROVE  FALSE
    BY <1>3 DEF Visit, ScannedIt, HandleResetAuth, Logout
<1>4. ASSUME NEW r \in Reqs, NEW t \in Tabs,
             \/ OnPasswordSubmit(r, t) \/ ConsoleRead(r, t)
             \/ \E c \in 0 .. MaxSecrets : HandleTotpChange(r, t, c)
      PROVE  FALSE
    BY <1>4 DEF OnPasswordSubmit, ConsoleRead, HandleTotpChange
<1>5. ASSUME NEW r \in Reqs,
             \/ AuthenticatePassword(r) \/ WrongPassword(r) \/ Validate(r)
             \/ ServeRead(r) \/ ReadAttempts(r) \/ WrongCode(r) \/ SpendToken(r)
             \/ RightCode(r) \/ ClearAttempts(r) \/ IssueToken(r) \/ CutShort(r)
             \/ PasswordArrives(r) \/ SetupArrives(r) \/ VerifyArrives(r) \/ ReadArrives(r)
             \/ Refused(r) \/ Unheard(r) \/ Lost(r)
      PROVE  FALSE
    BY <1>5 DEF AuthenticatePassword, WrongPassword, Validate, ServeRead, ReadAttempts,
                WrongCode, SpendToken, RightCode, ClearAttempts, IssueToken, CutShort,
                PasswordArrives, SetupArrives, VerifyArrives, ReadArrives, Refused,
                Unheard, Lost
<1>6. ASSUME (\E i \in 1 .. MaxLogins : PreAuthExpires(i)) \/ AccessExpires
      PROVE  FALSE
    BY <1>6 DEF PreAuthExpires, AccessExpires
<1> QED
    BY <1>1, <1>2, <1>3, <1>4, <1>5, <1>6 DEF Next, loginVars

\* ReplacedOnlyByOverlap on every instance: the authenticator of a complete
\* account is replaced only by a setup_totp that had read it before.
THEOREM SecretsReplacedOnlyByOverlap == Spec => ReplacedOnlyByOverlap
<1>1. LoginIInv /\ [Next]_loginVars =>
         [account.verified /\ account'.secret # account.secret
          => \E r \in Reqs : /\ req[r].op = "setup" /\ req[r].phase = "validated"
                             /\ ~req[r].row.verified]_loginVars
    <2> SUFFICES ASSUME LoginIInv, [Next]_loginVars, account'.secret # account.secret
                 PROVE  \E r \in Reqs : /\ req[r].op = "setup" /\ req[r].phase = "validated"
                                        /\ ~req[r].row.verified
        OBVIOUS
    <2>1. PICK r \in Reqs : SetupTotp(r) /\ ~AlreadyConfigured(req[r].row)
        BY OnlySetup
    <2>2. req[r].row.verified => req[r].row.secret # 0
        BY DEF LoginIInv, BaseInv, ReqsOK, ReqsFit, ReqFits
    <2> QED
        BY <2>1, <2>2 DEF SetupTotp, AlreadyConfigured
<1> QED
    BY <1>1, LoginInvariant, PTL DEF Spec, ReplacedOnlyByOverlap

=============================================================================
