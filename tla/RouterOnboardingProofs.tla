----------------------- MODULE RouterOnboardingProofs -----------------------
(***************************************************************************)
(* Proofs about RouterRegistry and RouterOnboarding, for any number of     *)
(* tenants, routers and concurrent init-magic calls and any address pool.  *)
(*                                                                         *)
(* init-magic commits its statements one by one, so the registry's         *)
(* invariant ties a call under way to the row it has inserted (CallOK): no *)
(* two calls have the same row, and the token column only moves forward.   *)
(* The wizard keeps router ids over reloads and changes of user, so its    *)
(* invariant says of each of its states what it still knows about the row  *)
(* (WizardOK).  Every step of the composition is one of the registry's, so *)
(* that the registry's invariant is proved once.                           *)
(***************************************************************************)
EXTENDS RouterOnboarding, TLAPS

\* The columns of one row.
RowOK(r) ==
    /\ row[r].st = "none" => row[r].tenant = None
    /\ row[r].st \in {"none", "deleted"} => row[r].token = "none"
    /\ row[r].st \in {"online", "offline"} <=> row[r].token = "used"

\* A call under way: its row, its token, and what it knows of other rows.
CallOK(c) ==
    LET call == init[c] IN
    /\ call.phase \in {"idle", "asked", "picked"} => call.router = None
    /\ call.phase = "picked" =>
          \A q \in call.seen : /\ row[q].st # "none"
                               /\ Alive(q) => row[q].addr # call.addr
    /\ call.phase \in {"rowed", "tokened"} =>
          /\ call.router \in Routers /\ row[call.router].st # "none"
          /\ row[call.router].tenant = call.tenant
    /\ call.phase = "rowed" /\ Alive(call.router)
          => row[call.router].token = "none"
    /\ call.phase = "tokened" /\ Alive(call.router)
          => row[call.router].token = "fresh"

\* No two calls have inserted the same row.
CallsApart ==
    \A c, d \in Clients : c # d /\ init[c].router # None
                             => init[c].router # init[d].router

RowsOK  == \A r \in Routers : RowOK(r)
CallsOK == \A c \in Clients : CallOK(c)

RegistryInv == RegistryTypeOK /\ RowsOK /\ CallsOK /\ CallsApart

\* What no step takes back: the row's owner, a confirmation, a deletion.
Lasting ==
    \A r \in Routers : row[r].st # "none" =>
        /\ row'[r].st # "none" /\ row'[r].tenant = row[r].tenant
        /\ row[r].st = "deleted" => row'[r].st = "deleted"
        /\ row[r].token = "used" => row'[r].token = "used" \/ row'[r].st = "deleted"

-----------------------------------------------------------------------------
\* The address a call picks is one no row has.
LEMMA NextFreeIsFree ==
    ASSUME NEW a \in NextFree
    PROVE  a \in 1 .. MaxAddr /\ \A r \in Routers : Alive(r) => row[r].addr # a
BY DEF NextFree

\* The id a call takes is one no row has.
LEMMA FreshIsFresh ==
    ASSUME NEW r \in FreshIds
    PROVE  r \in Routers /\ row[r].st = "none"
<1> DEFINE unused == {q \in Routers : row[q].st = "none"}
<1>1. unused # {} => (CHOOSE q \in unused : TRUE) \in unused
    OBVIOUS
<1> QED
    BY <1>1 DEF FreshIds

\* A step that leaves the rows alone and moves one call.
LEMMA CallFrame ==
    ASSUME RegistryInv, NEW c \in Clients, NEW call \in Calls,
           row' = row, init' = [init EXCEPT ![c] = call],
           CallOK(c)', call.router # None => call.router = init[c].router
    PROVE  RegistryInv' /\ Lasting
<1>1. init'[c] = call /\ \A d \in Clients : d # c => init'[d] = init[d]
    BY DEF RegistryInv, RegistryTypeOK
<1>2. RegistryTypeOK'
    BY DEF RegistryInv, RegistryTypeOK
<1>3. RowsOK'
    BY DEF RegistryInv, RowsOK, RowOK
<1>4. CallsOK'
    BY <1>1 DEF RegistryInv, CallsOK, CallOK, Alive
<1>5. CallsApart'
    BY <1>1 DEF RegistryInv, CallsApart
<1> QED
    BY <1>2, <1>3, <1>4, <1>5 DEF RegistryInv, Lasting

\* A step that leaves the calls alone and changes one row that is there, and
\* neither revives it nor gives it another address, owner or unspent token.
LEMMA RowFrame ==
    ASSUME RegistryInv, NEW r \in Routers, NEW new \in Rows,
           init' = init, row' = [row EXCEPT ![r] = new], RowOK(r)',
           row[r].st # "none", new.st # "none", new.tenant = row[r].tenant,
           row[r].st = "deleted" => new.st = "deleted",
           new.st # "deleted" => new.addr = row[r].addr,
           row[r].token = "used" => new.token = "used" \/ new.st = "deleted",
           row[r].token \in {"none", "fresh"} =>
               new.token = row[r].token \/ new.st = "deleted"
    PROVE  RegistryInv' /\ Lasting
<1>1. row'[r] = new /\ \A q \in Routers : q # r => row'[q] = row[q]
    BY DEF RegistryInv, RegistryTypeOK
<1>2. RegistryTypeOK'
    BY DEF RegistryInv, RegistryTypeOK
<1>3. RowsOK'
    BY <1>1 DEF RegistryInv, RowsOK, RowOK
<1>4. CallsOK'
    <2> SUFFICES ASSUME NEW c \in Clients PROVE CallOK(c)'
        BY DEF CallsOK
    <2>1. CallOK(c) /\ init[c] \in Calls
        BY DEF RegistryInv, CallsOK, RegistryTypeOK
    <2>2. \A q \in Routers : Alive(q)' => Alive(q)
        BY <1>1 DEF Alive
    <2>3. \A q \in Routers : row[q].st # "none" => row'[q].st # "none"
        BY <1>1
    <2>4. \A q \in Routers : Alive(q)' => row'[q].addr = row[q].addr
        BY <1>1 DEF Alive
    <2>5. \A q \in Routers : row'[q].tenant = row[q].tenant
        BY <1>1
    <2>6. \A q \in Routers : Alive(q)' /\ row[q].token \in {"none", "fresh"}
                                => row'[q].token = row[q].token
        BY <1>1 DEF Alive
    <2>7. init[c].seen \subseteq Routers
        BY <2>1 DEF Calls
    <2> QED
        BY <2>1, <2>2, <2>3, <2>4, <2>5, <2>6, <2>7 DEF CallOK
<1>5. CallsApart'
    BY DEF RegistryInv, CallsApart
<1>6. Lasting
    BY <1>1 DEF Lasting
<1> QED
    BY <1>2, <1>3, <1>4, <1>5, <1>6 DEF RegistryInv

\* One step of the registry.
LEMMA RegistryStep ==
    RegistryInv /\ [RegistryNext]_registryVars => RegistryInv' /\ Lasting
<1> SUFFICES ASSUME RegistryInv, [RegistryNext]_registryVars
             PROVE  RegistryInv' /\ Lasting
    OBVIOUS
<1>1. row \in [Routers -> Rows] /\ init \in [Clients -> Calls]
    BY DEF RegistryInv, RegistryTypeOK
<1>2. CASE UNCHANGED registryVars
    BY <1>2 DEF registryVars, RegistryInv, RegistryTypeOK, RowsOK, RowOK, CallsOK,
                CallOK, CallsApart, Alive, Lasting
<1>3. /\ NoCall \in Calls /\ NoCall.phase = "idle" /\ NoCall.router = None
      /\ NoRow \in Rows /\ NoRow.token = "none"
    BY RegistryConstants DEF NoCall, Calls, NoRow, Rows
<1>4. ASSUME NEW c \in Clients, init' = [init EXCEPT ![c] = NoCall], row' = row
      PROVE  RegistryInv' /\ Lasting
    <2>1. init'[c] = NoCall
        BY <1>1, <1>4
    <2>2. CallOK(c)'
        BY <2>1 DEF CallOK, NoCall
    <2> QED
        BY <1>3, <1>4, <2>2, CallFrame DEF NoCall
<1>5. ASSUME NEW c \in Clients, NEW t \in Tenants, InitAsk(c, t)
      PROVE  RegistryInv' /\ Lasting
    <2> DEFINE call == [NoCall EXCEPT !.phase = "asked", !.tenant = t]
    <2>1. call \in Calls /\ call.phase = "asked" /\ call.router = None
        BY <1>3 DEF Calls
    <2>2. init' = [init EXCEPT ![c] = call] /\ row' = row
        BY <1>5 DEF InitAsk
    <2> HIDE DEF call
    <2>3. init'[c] = call
        BY <1>1, <2>2
    <2>4. CallOK(c)'
        BY <2>1, <2>3 DEF CallOK
    <2> QED
        BY <2>1, <2>2, <2>4, CallFrame
<1>6. ASSUME NEW c \in Clients, InitPick(c) PROVE RegistryInv' /\ Lasting
    <2>1. PICK a \in NextFree :
             init' = [init EXCEPT ![c].phase = "picked", ![c].addr = a,
                                  ![c].seen = {r \in Routers : Alive(r)}]
        BY <1>6 DEF InitPick
    <2>2. a \in 0 .. MaxAddr /\ \A r \in Routers : Alive(r) => row[r].addr # a
        BY NextFreeIsFree, RegistryConstants
    <2> DEFINE seen == {r \in Routers : Alive(r)}
               call == [init[c] EXCEPT !.phase = "picked", !.addr = a, !.seen = seen]
    <2>3. init' = [init EXCEPT ![c] = call] /\ row' = row
        BY <1>1, <1>6, <2>1 DEF InitPick
    <2>4. call \in Calls /\ call.phase = "picked" /\ call.addr = a
             /\ call.seen = seen /\ call.router = init[c].router
        BY <1>1, <2>2 DEF Calls
    <2>5. call.router = None
        BY <1>6, <2>4 DEF InitPick, RegistryInv, CallsOK, CallOK
    <2>6. \A q \in seen : row[q].st # "none" /\ (Alive(q) => row[q].addr # a)
        BY <2>2 DEF Alive
    <2> HIDE DEF call, seen
    <2>7. init'[c] = call
        BY <1>1, <2>3
    <2>8. CallOK(c)'
        BY <2>3, <2>4, <2>5, <2>6, <2>7 DEF CallOK, Alive
    <2> QED
        BY <2>3, <2>4, <2>8, CallFrame
<1>7. ASSUME NEW c \in Clients, NEW r \in FreshIds, InitInsertRouter(c, r)
      PROVE  RegistryInv' /\ Lasting
    <2>1. r \in Routers /\ row[r].st = "none"
        BY FreshIsFresh
    <2> DEFINE new == [NoRow EXCEPT !.st = "pending_setup",
                                    !.tenant = init[c].tenant, !.addr = init[c].addr]
               call == [init[c] EXCEPT !.phase = "rowed", !.router = r, !.seen = {}]
    <2>2. init' = [init EXCEPT ![c] = call] /\ row' = [row EXCEPT ![r] = new]
        BY <1>1, <1>7 DEF InitInsertRouter
    <2>3. new \in Rows /\ new.st = "pending_setup" /\ new.tenant = init[c].tenant
             /\ new.token = "none"
        BY <1>1, RegistryConstants DEF NoRow, Rows, Calls
    <2>4. call \in Calls /\ call.phase = "rowed" /\ call.router = r
             /\ call.tenant = init[c].tenant
        BY <1>1, <2>1 DEF Calls
    <2> HIDE DEF new, call
    <2>5. /\ init'[c] = call /\ \A d \in Clients : d # c => init'[d] = init[d]
          /\ row'[r] = new /\ \A q \in Routers : q # r => row'[q] = row[q]
        BY <1>1, <2>1, <2>2
    <2>6. RegistryTypeOK'
        BY <1>1, <2>1, <2>2, <2>3, <2>4 DEF RegistryTypeOK
    <2>7. RowsOK'
        BY <2>3, <2>5 DEF RegistryInv, RowsOK, RowOK
    <2>8. ASSUME NEW d \in Clients, d # c
          PROVE  /\ init[d].router # r
                 /\ init[d].phase = "picked" => r \notin init[d].seen
        BY <1>1, <2>1, <2>8, RegistryConstants
           DEF RegistryInv, CallsOK, CallOK, Calls
    <2>9. CallOK(c)'
        BY <2>1, <2>3, <2>4, <2>5 DEF CallOK, Alive
    <2>10. ASSUME NEW d \in Clients, d # c PROVE CallOK(d)'
        <3>1. CallOK(d) /\ init[d] \in Calls /\ init'[d] = init[d]
            BY <1>1, <2>5, <2>10 DEF RegistryInv, CallsOK
        <3>2. init[d].seen \subseteq Routers /\ init[d].router \in Routers \cup {None}
            BY <3>1 DEF Calls
        <3> QED
            BY <2>5, <2>8, <2>10, <3>1, <3>2 DEF CallOK, Alive
    <2>11. CallsApart'
        BY <2>4, <2>5, <2>8 DEF RegistryInv, CallsApart
    <2> QED
        BY <2>1, <2>5, <2>6, <2>7, <2>9, <2>10, <2>11
           DEF RegistryInv, CallsOK, Lasting
<1>8. ASSUME NEW c \in Clients, NEW tok \in {"fresh", "shown"}, NEW call \in Calls,
             init[c].phase \in {"rowed", "tokened"}, Alive(init[c].router),
             row' = [row EXCEPT ![init[c].router].token = tok],
             init' = [init EXCEPT ![c] = call],
             \/ call = [init[c] EXCEPT !.phase = "tokened"] /\ tok = "fresh"
             \/ call = NoCall
      PROVE  RegistryInv' /\ Lasting
    <2> DEFINE r == init[c].router
               new == [row[r] EXCEPT !.token = tok]
    <2>1. /\ r \in Routers /\ r # None /\ row[r].st # "none" /\ RowOK(r)
          /\ row[r].token \in {"none", "fresh"} /\ row[r].tenant = init[c].tenant
        BY <1>8, RegistryConstants DEF RegistryInv, CallsOK, CallOK, RowsOK
    <2>2. row' = [row EXCEPT ![r] = new]
        BY <1>1, <1>8, <2>1
    <2>3. new \in Rows /\ new.st = row[r].st /\ new.token = tok
             /\ new.tenant = row[r].tenant /\ new.addr = row[r].addr
        BY <1>1, <2>1 DEF Rows
    <2>4. \/ call.phase = "idle" /\ call.router = None
          \/ /\ call.phase = "tokened" /\ tok = "fresh" /\ call.router = r
             /\ call.tenant = init[c].tenant
        <3>1. CASE call = NoCall
            BY <1>3, <3>1
        <3>2. CASE call = [init[c] EXCEPT !.phase = "tokened"] /\ tok = "fresh"
            <4>1. init[c] \in Calls
                BY <1>1
            <4> QED
                BY <3>2, <4>1 DEF Calls
        <3> QED
            BY <1>8, <3>1, <3>2
    <2> HIDE DEF new
    <2>5. /\ init'[c] = call /\ \A d \in Clients : d # c => init'[d] = init[d]
          /\ row'[r] = new /\ \A q \in Routers : q # r => row'[q] = row[q]
        BY <1>1, <1>8, <2>1, <2>2
    <2>6. RegistryTypeOK'
        BY <1>1, <1>8, <2>1, <2>2, <2>3 DEF RegistryTypeOK
    <2>7. row[r].st = "pending_setup"
        BY <1>1, <1>8, <2>1 DEF Rows, RowOK, Alive
    <2>8. RowsOK'
        BY <2>1, <2>3, <2>5, <2>7 DEF RegistryInv, RowsOK, RowOK
    <2>9. CallOK(c)'
        BY <2>1, <2>3, <2>4, <2>5 DEF CallOK
    <2>10. ASSUME NEW d \in Clients, d # c PROVE CallOK(d)'
        <3>1. CallOK(d) /\ init[d] \in Calls /\ init'[d] = init[d]
            BY <1>1, <2>5, <2>10 DEF RegistryInv, CallsOK
        <3>2. init[d].seen \subseteq Routers /\ init[d].router # r
            BY <2>1, <2>10, <3>1 DEF Calls, RegistryInv, CallsApart
        <3>3. \A q \in Routers : /\ row'[q].st = row[q].st
                                 /\ row'[q].addr = row[q].addr
                                 /\ row'[q].tenant = row[q].tenant
            BY <2>3, <2>5
        <3> QED
            BY <2>5, <3>1, <3>2, <3>3 DEF CallOK, Alive
    <2>11. CallsApart'
        BY <2>1, <2>4, <2>5 DEF RegistryInv, CallsApart
    <2>12. Lasting
        BY <2>1, <2>3, <2>5 DEF Lasting
    <2> QED
        BY <2>6, <2>8, <2>9, <2>10, <2>11, <2>12 DEF RegistryInv, CallsOK
<1>9. ASSUME NEW c \in Clients, InitInsertToken(c) PROVE RegistryInv' /\ Lasting
    <2> DEFINE call == [init[c] EXCEPT !.phase = "tokened"]
    <2>1. call \in Calls /\ init' = [init EXCEPT ![c] = call]
        BY <1>1, <1>9 DEF InitInsertToken, Calls
    <2> QED
        BY <1>8, <1>9, <2>1 DEF InitInsertToken
<1>10. ASSUME NEW c \in Clients, InitAnswered(c) PROVE RegistryInv' /\ Lasting
    <2>1. CASE Alive(init[c].router)
        BY <1>3, <1>8, <1>10, <2>1 DEF InitAnswered
    <2>2. CASE ~Alive(init[c].router)
        BY <1>4, <1>10, <2>2 DEF InitAnswered
    <2> QED
        BY <2>1, <2>2
<1>11. ASSUME NEW c \in Clients, InitFails(c) PROVE RegistryInv' /\ Lasting
    BY <1>4, <1>11 DEF InitFails
<1>12. ASSUME NEW r \in Routers, ConfirmSetup(r) PROVE RegistryInv' /\ Lasting
    <2> DEFINE new == [row[r] EXCEPT !.token = "used", !.st = "online"]
    <2>1. row' = [row EXCEPT ![r] = new] /\ init' = init
        BY <1>1, <1>12 DEF ConfirmSetup
    <2>2. new \in Rows /\ new.st = "online" /\ new.token = "used"
             /\ new.tenant = row[r].tenant /\ new.addr = row[r].addr
        BY <1>1 DEF Rows
    <2>3. row[r].token = "shown" /\ row[r].st \notin {"none", "deleted"}
        BY <1>12 DEF ConfirmSetup, TokenValid, RegistryInv, RowsOK, RowOK
    <2> HIDE DEF new
    <2>4. RowOK(r)'
        BY <1>1, <2>1, <2>2 DEF RowOK
    <2> QED
        BY <2>1, <2>2, <2>3, <2>4, RowFrame
<1>13. ASSUME NEW r \in Routers, Heartbeat(r) PROVE RegistryInv' /\ Lasting
    <2>1. PICK s \in {"online", "offline"} : row' = [row EXCEPT ![r].st = s]
        BY <1>13 DEF Heartbeat
    <2> DEFINE new == [row[r] EXCEPT !.st = s]
    <2>2. row' = [row EXCEPT ![r] = new] /\ init' = init
        BY <1>1, <1>13, <2>1 DEF Heartbeat
    <2>3. new \in Rows /\ new.st = s /\ new.token = row[r].token
             /\ new.tenant = row[r].tenant /\ new.addr = row[r].addr
        BY <1>1 DEF Rows
    <2>4. row[r].token = "used" /\ row[r].st \notin {"none", "deleted"}
        BY <1>13 DEF Heartbeat, RegistryInv, RowsOK, RowOK
    <2> HIDE DEF new
    <2>5. RowOK(r)'
        BY <1>1, <2>2, <2>3, <2>4 DEF RowOK
    <2> QED
        BY <2>2, <2>3, <2>4, <2>5, RowFrame
<1>14. ASSUME NEW r \in Routers, Expire(r) PROVE RegistryInv' /\ Lasting
    <2> DEFINE new == [row[r] EXCEPT !.over = TRUE]
    <2>1. row' = [row EXCEPT ![r] = new] /\ init' = init
        BY <1>1, <1>14 DEF Expire
    <2>2. new \in Rows /\ new.st = row[r].st /\ new.token = row[r].token
             /\ new.tenant = row[r].tenant /\ new.addr = row[r].addr
        BY <1>1 DEF Rows
    <2>3. row[r].st # "none" /\ RowOK(r)
        BY <1>14 DEF Expire, RegistryInv, RowsOK
    <2> HIDE DEF new
    <2>4. RowOK(r)'
        BY <1>1, <2>1, <2>2, <2>3 DEF RowOK
    <2> QED
        BY <2>1, <2>2, <2>3, <2>4, RowFrame
<1>15. ASSUME NEW r \in Routers, DeleteRouter(r) PROVE RegistryInv' /\ Lasting
    <2> DEFINE new == [NoRow EXCEPT !.st = "deleted", !.over = row[r].over,
                                    !.tenant = row[r].tenant]
    <2>1. row' = [row EXCEPT ![r] = new] /\ init' = init
        BY <1>15 DEF DeleteRouter
    <2>2. new \in Rows /\ new.st = "deleted" /\ new.token = "none"
             /\ new.tenant = row[r].tenant
        BY <1>1, <1>3 DEF Rows
    <2>3. row[r].st \notin {"none", "deleted"}
        BY <1>15 DEF DeleteRouter, Alive
    <2> HIDE DEF new
    <2>4. RowOK(r)'
        BY <1>1, <2>1, <2>2 DEF RowOK
    <2> QED
        BY <2>1, <2>2, <2>3, <2>4, RowFrame
<1> QED
    BY <1>2, <1>5, <1>6, <1>7, <1>9, <1>10, <1>11, <1>12, <1>13, <1>14, <1>15
       DEF RegistryNext, Serve, Device

\* Nothing is registered yet.
LEMMA RegistryStart == RegistryInit => RegistryInv
BY RegistryConstants
   DEF RegistryInit, RegistryInv, RegistryTypeOK, RowsOK, RowOK, CallsOK, CallOK,
       CallsApart, NoRow, NoCall, Rows, Calls

\* The inductive invariant of the two tables and the calls that fill them.
THEOREM RegistryInvariant == RegistrySpec => []RegistryInv
BY RegistryStart, RegistryStep, PTL DEF RegistrySpec

\* assign_peer_ip gives an address twice only to a call that read the table
\* before the other one's INSERT.
THEOREM AddressesSharedOnlyByRace == RegistrySpec => AddressSharedOnlyByRace
<1>1. RegistryInv /\ [RegistryNext]_registryVars
        => [\A c \in Clients, r \in Routers :
              (init[c].phase = "picked" /\ init'[c].router = r /\ row[r].st = "none")
                 => \A q \in init[c].seen : Alive(q) => row'[r].addr # row[q].addr
           ]_registryVars
    <2> SUFFICES ASSUME RegistryInv, RegistryNext,
                        NEW c \in Clients, NEW r \in Routers,
                        init[c].phase = "picked", init'[c].router = r,
                        NEW q \in init[c].seen, Alive(q)
                 PROVE  row'[r].addr # row[q].addr
        OBVIOUS
    <2>1. init[c].router = None /\ row[q].addr # init[c].addr
        BY DEF RegistryInv, CallsOK, CallOK
    <2>2. init \in [Clients -> Calls] /\ row \in [Routers -> Rows]
        BY DEF RegistryInv, RegistryTypeOK
    <2>3. init'[c] # init[c] /\ init'[c].router # None
        BY <2>1, RegistryConstants
    <2>4. PICK s \in FreshIds : InitInsertRouter(c, s)
        <3>1. ~\E r0 \in Routers : Device(r0)
            BY <2>3 DEF Device, ConfirmSetup, Heartbeat, Expire, DeleteRouter
        <3>2. ASSUME NEW d \in Clients,
                     \/ Serve(d) \/ InitAnswered(d) \/ InitFails(d)
                     \/ \E t \in Tenants : InitAsk(d, t)
              PROVE  d = c
            BY <2>2, <2>3, <3>2 DEF Serve, InitPick, InitInsertRouter,
                   InitInsertToken, InitAnswered, InitFails, InitAsk
        <3>3. ~InitFails(c)
            BY <2>2, <2>3 DEF InitFails, NoCall
        <3>4. ~(InitPick(c) \/ InitInsertToken(c) \/ InitAnswered(c))
            BY DEF InitPick, InitInsertToken, InitAnswered
        <3>5. ASSUME NEW t \in Tenants PROVE ~InitAsk(c, t)
            BY DEF InitAsk
        <3> QED
            BY <3>1, <3>2, <3>3, <3>4, <3>5 DEF RegistryNext, Serve
    <2>5. init'[c].router = s
        BY <2>2, <2>4 DEF InitInsertRouter, Calls
    <2>6. row'[r].addr = init[c].addr
        BY <2>2, <2>4, <2>5 DEF InitInsertRouter, NoRow
    <2> QED
        BY <2>1, <2>6
<1> QED
    BY <1>1, RegistryInvariant, PTL DEF RegistrySpec, AddressSharedOnlyByRace

-----------------------------------------------------------------------------
(* The wizard and the shell.                                               *)

\* The router has confirmed, or is gone.
Settled(r) == row[r].token = "used" \/ row[r].st = "deleted"

\* What the wizard knows about the router it works on.
WizardOK ==
    wiz # None =>
        /\ wiz.rid = wiz.cmd \/ wiz.link
        /\ wiz.loading => wiz.rid \in Routers /\ wiz.step = "details" /\ ~wiz.seen
        /\ ~wiz.loading /\ wiz.rid # None => row[wiz.rid].tenant = user
        /\ wiz.step = "provision" \/ wiz.seen =>
              ~wiz.loading /\ wiz.rid \in Routers /\ Settled(wiz.rid)
        /\ wiz.prov # "idle" => wiz.step = "provision"

\* A handler that will update the wizard finds the details form of the user who
\* asked.
HandlerOK ==
    handler = "wizard" =>
        /\ wiz # None /\ ~wiz.loading /\ wiz.step = "details" /\ ~wiz.seen
        /\ init[Me].tenant = user

\* Which pages show the wizard and where a package may be under way.
PageOK ==
    /\ wiz # None => page \in {"wizard", "router"}
    /\ pkg => page \in Steps

OnboardingInv ==
    /\ TypeOK /\ RegistryInv /\ WizardOK /\ HandlerOK /\ PageOK /\ ShellResumable

-----------------------------------------------------------------------------
\* Every step of the composition is a step of the registry, or none of its
\* business: provision_router changes a row as a heartbeat would.
LEMMA OnboardingIsRegistry ==
    OnboardingInv /\ [Next]_vars => [RegistryNext]_registryVars
<1> SUFFICES ASSUME OnboardingInv, Next PROVE [RegistryNext]_registryVars
    BY DEF vars, registryVars
<1>1. CASE Backend
    BY <1>1 DEF Backend, RegistryNext
<1>2. CASE Pages
    BY <1>2 DEF Pages, OpenWizard, Leave, OpenShell, HandlePackageSubmit,
                HandleSkipPackage, PackageCreated, PackageFails, HandleSkipRouter,
                HandleGoToDashboard, SignIn, Signup, registryVars
<1>3. CASE SubmitDetails \/ CommandArrives \/ CommandRefused
    <2>1. Me \in Clients /\ user \in Tenants
        BY OnboardingConstants DEF OnboardingInv, TypeOK
    <2> QED
        BY <1>3, <2>1
           DEF SubmitDetails, CommandArrives, CommandRefused, RegistryNext
<1>4. CASE ProvisionRouter
    <2> DEFINE r == wiz.rid
    <2>1. r \in Routers
        BY <1>4 DEF ProvisionRouter, OnboardingInv, WizardOK
    <2>2. row \in [Routers -> Rows] /\ row[r].st \in {"online", "offline"}
        BY <1>4, <2>1 DEF ProvisionRouter, OnboardingInv, RegistryInv, RegistryTypeOK,
                          RowsOK, RowOK
    <2>3. row' = [row EXCEPT ![r].st = "online"] /\ init' = init
        BY <1>4 DEF ProvisionRouter
    <2>4. CASE row[r].st = "online"
        <3>1. [row[r] EXCEPT !.st = "online"] = row[r]
            BY <2>1, <2>2, <2>4 DEF Rows
        <3>2. row' = row
            BY <2>1, <2>2, <2>3, <3>1
        <3> QED
            BY <2>3, <3>2 DEF registryVars
    <2>5. CASE row[r].st = "offline"
        <3>1. Heartbeat(r)
            BY <2>3, <2>5 DEF Heartbeat
        <3> QED
            BY <2>1, <3>1 DEF RegistryNext, Device
    <2> QED
        BY <2>2, <2>4, <2>5
<1>5. CASE \/ Resumed \/ ResumeFails \/ Poll \/ Advance \/ Back \/ PortsListed
           \/ Deploy \/ ProvisionError \/ ProvisionFails \/ Provisioned
           \/ LateAnswer \/ Reset
    BY <1>5 DEF Resumed, ResumeFails, Poll, Advance, Back, PortsListed, Deploy,
                ProvisionError, ProvisionFails, Provisioned, LateAnswer, Reset,
                registryVars
<1> QED
    BY <1>1, <1>2, <1>3, <1>4, <1>5 DEF Next, Wizard

\* A wizard that is opened knows nothing yet, or has a router to look up.
LEMMA MountOK ==
    ASSUME TypeOK, NEW links \in SUBSET (Routers \cup {None}), Mount(links)
    PROVE  /\ wiz' \in Wizards /\ saved' \in Routers \cup {None}
           /\ WizardOK'
<1>1. /\ NewWizard \in Wizards /\ NewWizard.step = "details" /\ ~NewWizard.seen
      /\ ~NewWizard.loading /\ NewWizard.rid = None /\ NewWizard.cmd = None
      /\ NewWizard.prov = "idle"
    BY DEF NewWizard, Wizards
<1>2. CASE wiz' = NewWizard /\ saved' \in {saved, None}
    BY <1>1, <1>2 DEF WizardOK, TypeOK
<1>3. ASSUME saved # None, saved' = saved, NEW link \in links,
             wiz' = [NewWizard EXCEPT !.loading = TRUE, !.link = link # None,
                        !.cmd = saved, !.rid = IF link # None THEN link ELSE saved]
      PROVE  /\ wiz' \in Wizards /\ saved' \in Routers \cup {None}
             /\ WizardOK'
    <2> DEFINE r == IF link # None THEN link ELSE saved
    <2>1. saved \in Routers /\ r \in Routers
        BY <1>3 DEF TypeOK
    <2>2. /\ wiz' \in Wizards /\ wiz'.loading /\ wiz'.rid = r /\ wiz'.cmd = saved
          /\ wiz'.link = (link # None) /\ wiz'.step = "details" /\ ~wiz'.seen
          /\ wiz'.prov = "idle"
        BY <1>1, <1>3, <2>1 DEF Wizards
    <2> QED
        BY <1>3, <2>1, <2>2 DEF WizardOK, TypeOK
<1> QED
    BY <1>2, <1>3 DEF Mount

\* What the rows' changes leave of the wizard's knowledge.
LEMMA WizardFrame ==
    ASSUME TypeOK, RegistryInv, Lasting, WizardOK, UNCHANGED <<wiz, user>>
    PROVE  WizardOK'
<1> SUFFICES ASSUME wiz # None PROVE WizardOK'
    BY DEF WizardOK
<1>1. wiz \in Wizards
    BY DEF TypeOK
<1>2. ASSUME ~wiz.loading, wiz.rid # None
      PROVE  row'[wiz.rid].tenant = row[wiz.rid].tenant
    <2>1. wiz.rid \in Routers /\ row[wiz.rid].tenant \in Tenants
        BY <1>1, <1>2 DEF WizardOK, Wizards, TypeOK
    <2>2. row[wiz.rid].st # "none"
        BY <2>1, RegistryConstants DEF RegistryInv, RowsOK, RowOK
    <2> QED
        BY <2>1, <2>2 DEF Lasting
<1>3. ASSUME NEW r \in Routers, Settled(r) PROVE Settled(r)'
    <2>1. row[r].st # "none"
        BY <1>3 DEF Settled, RegistryInv, RowsOK, RowOK
    <2> QED
        BY <1>3, <2>1 DEF Settled, Lasting
<1> QED
    BY <1>2, <1>3 DEF WizardOK

\* What a handler of the browser becomes when its page is left.
LEMMA LeavingOK ==
    ASSUME TypeOK
    PROVE  LeftHandler \in Handlers /\ LeftHandler # "wizard"
BY DEF TypeOK, Handlers, LeftHandler

\* The steps of the backend: the browser stays as it is.
LEMMA BackendStep ==
    ASSUME OnboardingInv, RegistryInv', Lasting, Backend
    PROVE  OnboardingInv'
<1> USE DEF OnboardingInv
<1>1. UNCHANGED <<user, wiz, handler, saved, page, stored, pkg>>
    BY DEF Backend
<1>2. init'[Me].tenant = init[Me].tenant
    <2>1. init \in [Clients -> Calls] /\ init[Me] \in Calls
        BY OnboardingConstants DEF RegistryInv, RegistryTypeOK
    <2>2. ASSUME NEW r \in Routers, Device(r) PROVE init' = init
        BY <2>2 DEF Device, ConfirmSetup, Heartbeat, Expire, DeleteRouter
    <2>3. ASSUME NEW c \in Clients, Serve(c)
          PROVE  init'[Me].tenant = init[Me].tenant
        <3> USE <2>1, OnboardingConstants DEF Calls
        <3>1. CASE InitPick(c)
            BY <3>1 DEF InitPick
        <3>2. CASE InitInsertToken(c)
            BY <3>2 DEF InitInsertToken
        <3>3. ASSUME NEW r \in FreshIds, InitInsertRouter(c, r)
              PROVE  init'[Me].tenant = init[Me].tenant
            BY <3>3 DEF InitInsertRouter
        <3> QED
            BY <2>3, <3>1, <3>2, <3>3 DEF Serve
    <2> QED
        BY <2>2, <2>3 DEF Backend
<1>3. TypeOK'
    BY <1>1 DEF TypeOK, RegistryInv
<1>4. WizardOK'
    BY <1>1, WizardFrame
<1>5. HandlerOK' /\ PageOK' /\ ShellResumable'
    BY <1>1, <1>2 DEF HandlerOK, PageOK, ShellResumable, ReadyScreen,
                      ShowOnboardingBanner
<1> QED
    BY <1>3, <1>4, <1>5

\* Moving between the pages of the browser.
LEMMA PagesStep ==
    ASSUME OnboardingInv, RegistryInv', Pages
    PROVE  OnboardingInv'
<1> USE DEF OnboardingInv
<1>1. row' = row /\ init' = init
    BY DEF Pages, OpenWizard, Leave, OpenShell, HandlePackageSubmit,
           HandleSkipPackage, PackageCreated, PackageFails, HandleSkipRouter,
           HandleGoToDashboard, SignIn, Signup
<1>2. LeftHandler \in Handlers /\ LeftHandler # "wizard" /\ "gone" \in Handlers
    BY LeavingOK DEF Handlers
<1>3. WizardOK' /\ wiz' \in Wizards \cup {None} /\ saved' \in Routers \cup {None}
    <2>1. CASE wiz' = None /\ saved' = saved
        BY <2>1 DEF WizardOK, TypeOK
    <2>2. CASE UNCHANGED <<wiz, saved, user>>
        BY <1>1, <2>2 DEF WizardOK, Settled, TypeOK
    <2>3. CASE \E links \in SUBSET (Routers \cup {None}) : Mount(links)
        BY <2>3, MountOK
    <2> QED
        BY <2>1, <2>2, <2>3
           DEF Pages, OpenWizard, Leave, OpenShell, HandlePackageSubmit,
               HandleSkipPackage, PackageCreated, PackageFails, HandleSkipRouter,
               HandleGoToDashboard, SignIn, Signup
<1> DEFINE Rest ==
        /\ user' \in Tenants /\ handler' \in Handlers
        /\ page' \in Steps \cup {"wizard", "elsewhere"}
        /\ stored' \in Steps \cup {None} /\ pkg' \in BOOLEAN
        /\ HandlerOK' /\ PageOK' /\ ShellResumable'
<1>4. SUFFICES Rest
    BY <1>3 DEF TypeOK, RegistryInv
<1> USE <1>1, <1>2
    DEF TypeOK, HandlerOK, PageOK, ShellResumable, ReadyScreen, ShowOnboardingBanner,
        Steps, LeaveOrLoad, LeavePage, LoadDocument, LeaveWizard, ShowStep,
        SaveOnboardingState, ClearOnboardingState
<1>5. CASE OpenWizard
    BY <1>5 DEF OpenWizard
<1>6. CASE Leave
    BY <1>6 DEF Leave
<1>7. CASE OpenShell
    BY <1>7 DEF OpenShell
<1>8. CASE HandlePackageSubmit
    BY <1>8 DEF HandlePackageSubmit, PackageForm, PackageScreen
<1>9. CASE HandleSkipPackage
    BY <1>9 DEF HandleSkipPackage, PackageScreen
<1>10. CASE PackageCreated
    BY <1>10 DEF PackageCreated, RouterScreen
<1>11. CASE PackageFails
    BY <1>11 DEF PackageFails
<1>12. CASE HandleSkipRouter
    BY <1>12 DEF HandleSkipRouter, RouterScreen
<1>13. CASE HandleGoToDashboard
    BY <1>13 DEF HandleGoToDashboard
<1>14. ASSUME NEW t \in Tenants, SignIn(t) PROVE Rest
    BY <1>14 DEF SignIn
<1>15. ASSUME NEW t \in Tenants, Signup(t) PROVE Rest
    BY <1>15 DEF Signup, Registered, InitOnboardingState
<1> QED
    BY <1>5, <1>6, <1>7, <1>8, <1>9, <1>10, <1>11, <1>12, <1>13, <1>14, <1>15
       DEF Pages

\* The wizard asks for a command and gets it.
LEMMA CommandStep ==
    ASSUME OnboardingInv, RegistryInv', Lasting,
           SubmitDetails \/ CommandArrives \/ CommandRefused
    PROVE  OnboardingInv'
<1> USE OnboardingConstants DEF OnboardingInv
<1>1. /\ UNCHANGED <<user, page, stored, pkg>>
      /\ PageOK' => ShellResumable'
    BY DEF SubmitDetails, CommandArrives, CommandRefused, ShellResumable,
           ReadyScreen, ShowOnboardingBanner
<1>2. CASE SubmitDetails
    <2>1. init'[Me].tenant = user
        BY <1>2 DEF SubmitDetails, InitAsk, RegistryInv, RegistryTypeOK, NoCall
    <2>2. TypeOK'
        BY <1>1, <1>2 DEF SubmitDetails, TypeOK, RegistryInv, Handlers
    <2>3. WizardOK'
        BY <1>2, WizardFrame DEF SubmitDetails
    <2>4. HandlerOK'
        BY <1>2, <2>1 DEF SubmitDetails, DetailsForm, Showing, HandlerOK
    <2>5. PageOK'
        BY <1>1, <1>2 DEF SubmitDetails, PageOK
    <2> QED
        BY <1>1, <2>2, <2>3, <2>4, <2>5
<1>3. CASE CommandRefused
    <2>1. handler' \in Handlers /\ handler' # "wizard"
        BY <1>3 DEF CommandRefused, NotWaiting, Handlers
    <2>2. TypeOK'
        BY <1>1, <1>3, <2>1 DEF CommandRefused, TypeOK, RegistryInv
    <2>3. WizardOK'
        BY <1>3, WizardFrame DEF CommandRefused
    <2>4. HandlerOK' /\ PageOK'
        BY <1>1, <1>3, <2>1 DEF CommandRefused, HandlerOK, PageOK
    <2> QED
        BY <1>1, <2>2, <2>3, <2>4
<1>4. CASE CommandArrives
    <2> DEFINE r == init[Me].router
    <2>1. handler' \in Handlers /\ handler' # "wizard"
        BY <1>4 DEF CommandArrives, NotWaiting, Handlers
    <2>2. /\ r \in Routers /\ row[r].st # "none"
          /\ row[r].tenant = init[Me].tenant
        BY <1>4 DEF CommandArrives, InitAnswered, RegistryInv, CallsOK, CallOK
    <2>3. row'[r].tenant = init[Me].tenant
        BY <2>2 DEF Lasting
    <2>4. CASE handler # "wizard"
        <3>1. wiz' = wiz /\ saved' \in Routers \cup {None}
            BY <1>4, <2>2, <2>4 DEF CommandArrives, TypeOK
        <3>2. TypeOK'
            BY <1>1, <2>1, <3>1 DEF TypeOK, RegistryInv
        <3>3. WizardOK'
            BY <1>1, <3>1, WizardFrame
        <3>4. HandlerOK' /\ PageOK'
            BY <1>1, <2>1, <3>1 DEF HandlerOK, PageOK
        <3> QED
            BY <1>1, <3>2, <3>3, <3>4
    <2>5. CASE handler = "wizard"
        <3>1. /\ wiz \in Wizards /\ wiz # None /\ ~wiz.loading
              /\ init[Me].tenant = user /\ wiz.step = "details"
            BY <2>5 DEF HandlerOK, TypeOK
        <3>2. /\ saved' = r
              /\ wiz' = [wiz EXCEPT !.rid = r, !.cmd = r, !.step = "command",
                                    !.link = FALSE, !.seen = FALSE]
            BY <1>4, <2>5 DEF CommandArrives
        <3>3. /\ wiz' \in Wizards /\ wiz'.rid = r /\ wiz'.cmd = r /\ ~wiz'.loading
              /\ wiz'.step = "command" /\ ~wiz'.seen /\ wiz'.prov = wiz.prov
            BY <2>2, <3>1, <3>2 DEF Wizards
        <3>4. TypeOK'
            BY <1>1, <2>1, <2>2, <3>2, <3>3 DEF TypeOK, RegistryInv
        <3>5. wiz.prov = "idle"
            BY <3>1 DEF WizardOK
        <3>6. WizardOK'
            BY <1>1, <2>3, <3>1, <3>3, <3>5 DEF WizardOK
        <3>7. HandlerOK' /\ PageOK'
            BY <1>1, <2>1, <3>1 DEF HandlerOK, PageOK
        <3> QED
            BY <1>1, <3>4, <3>6, <3>7
    <2> QED
        BY <2>4, <2>5
<1> QED
    BY <1>2, <1>3, <1>4

\* The wizard's own steps: it offers a router for provisioning only when it has
\* seen it online.
LEMMA WizardOwnStep ==
    ASSUME OnboardingInv, RegistryInv', row' = row,
           \/ Resumed \/ ResumeFails \/ Poll \/ Advance \/ Back \/ PortsListed
           \/ Deploy \/ ProvisionError \/ ProvisionFails \/ Reset
    PROVE  OnboardingInv'
<1> USE DEF OnboardingInv
<1>1. /\ UNCHANGED <<init, user, handler, page, stored, pkg>>
      /\ saved' \in {saved, None}
    BY DEF Resumed, ResumeFails, Poll, Advance, Back, PortsListed, Deploy,
           ProvisionError, ProvisionFails, Reset
<1>2. wiz # None /\ wiz \in Wizards
    BY DEF Resumed, ResumeFails, Poll, Advance, Back, PortsListed, Deploy,
           ProvisionError, ProvisionFails, Reset, PollWanted, CommandScreen,
           ProvisionForm, CompleteScreen, Showing, TypeOK
<1>3. handler # "wizard"
    BY DEF Resumed, ResumeFails, Poll, Advance, Back, PortsListed, Deploy,
           ProvisionError, ProvisionFails, Reset, PollWanted, CommandScreen,
           ProvisionForm, CompleteScreen, Showing, HandlerOK, WizardOK
<1>4. /\ NewWizard \in Wizards /\ NewWizard.step = "details" /\ ~NewWizard.seen
      /\ ~NewWizard.loading /\ NewWizard.rid = None /\ NewWizard.cmd = None
      /\ NewWizard.prov = "idle"
    BY DEF NewWizard, Wizards
<1> DEFINE Good(w) ==
        /\ w \in Wizards
        /\ w.rid = w.cmd \/ w.link
        /\ w.loading => w.rid \in Routers /\ w.step = "details" /\ ~w.seen
        /\ ~w.loading /\ w.rid # None => row[w.rid].tenant = user
        /\ w.step = "provision" \/ w.seen =>
              ~w.loading /\ w.rid \in Routers /\ Settled(w.rid)
        /\ w.prov # "idle" => w.step = "provision"
<1>5. Good(wiz) /\ Good(NewWizard)
    BY <1>2, <1>4 DEF WizardOK
<1>6. ASSUME Good(wiz') PROVE OnboardingInv'
    <2>1. TypeOK'
        BY <1>1, <1>6 DEF TypeOK, RegistryInv
    <2>2. WizardOK'
        BY <1>1, <1>6 DEF WizardOK, Settled
    <2>3. HandlerOK' /\ PageOK' /\ ShellResumable'
        BY <1>1, <1>2, <1>3 DEF HandlerOK, PageOK, ShellResumable, ReadyScreen,
                                ShowOnboardingBanner
    <2> QED
        BY <2>1, <2>2, <2>3
<1>7. ASSUME NEW r \in Routers, Alive(r), row[r].st = "online"
      PROVE  Settled(r)
    BY <1>7 DEF Settled, RegistryInv, RowsOK, RowOK
<1>8. CASE wiz' = NewWizard
    BY <1>5, <1>6, <1>8
<1>9. CASE Resumed
    <2>1. wiz.loading /\ wiz.rid \in Routers /\ wiz.step = "details" /\ ~wiz.seen
             /\ row[wiz.rid].tenant = user /\ wiz.prov = "idle"
        BY <1>2, <1>9 DEF Resumed, WizardOK, OwnRow
    <2>2. CASE wiz' = [wiz EXCEPT !.loading = FALSE, !.step = "command"]
        <3>1. Good(wiz')
            BY <1>5, <2>1, <2>2 DEF Wizards
        <3> QED
            BY <1>6, <3>1
    <2>3. CASE /\ row[wiz.rid].st = "online"
               /\ wiz' = [wiz EXCEPT !.loading = FALSE, !.step = "provision",
                                     !.ports = "loading"]
        <3>1. Settled(wiz.rid)
            BY <1>7, <1>9, <2>1, <2>3 DEF Resumed, OwnRow
        <3>2. Good(wiz')
            BY <1>5, <2>1, <2>3, <3>1 DEF Wizards
        <3> QED
            BY <1>6, <3>2
    <2> QED
        BY <1>8, <1>9, <2>2, <2>3 DEF Resumed
<1>10. CASE Poll
    <2>1. ~wiz.loading /\ wiz.rid \in Routers /\ Settled(wiz.rid)
        BY <1>2, <1>7, <1>10
           DEF Poll, PollWanted, CommandScreen, Showing, OwnRow, Wizards
    <2>2. wiz' = [wiz EXCEPT !.seen = TRUE]
        BY <1>10 DEF Poll
    <2>3. Good(wiz')
        BY <1>5, <2>1, <2>2 DEF Wizards
    <2> QED
        BY <1>6, <2>3
<1>11. CASE Advance
    <2>1. /\ wiz.seen
          /\ wiz' = [wiz EXCEPT !.step = "provision", !.ports = "loading",
                                !.seen = FALSE]
        BY <1>11 DEF Advance
    <2>2. Good(wiz')
        BY <1>5, <2>1 DEF Wizards
    <2> QED
        BY <1>6, <2>2
<1>12. CASE Back
    <2>1. /\ ~wiz.loading /\ wiz.step = "command"
          /\ wiz' = [wiz EXCEPT !.step = "details"]
        BY <1>12 DEF Back, CommandScreen, Showing
    <2>2. Good(wiz')
        BY <1>5, <2>1 DEF Wizards
    <2> QED
        BY <1>6, <2>2
<1>13. CASE PortsListed
    <2>1. PICK s \in {"found", "no"} : wiz' = [wiz EXCEPT !.ports = s]
        BY <1>13 DEF PortsListed
    <2>2. Good(wiz')
        BY <1>5, <2>1 DEF Wizards
    <2> QED
        BY <1>6, <2>2
<1>14. CASE Deploy \/ ProvisionError \/ ProvisionFails
    <2>1. PICK s \in {"sent", "error", "idle"} : wiz' = [wiz EXCEPT !.prov = s]
        BY <1>14 DEF Deploy, ProvisionError, ProvisionFails
    <2>2. wiz.step = "provision"
        BY <1>5, <1>14
           DEF Deploy, ProvisionError, ProvisionFails, ProvisionForm, Showing
    <2>3. Good(wiz')
        BY <1>5, <2>1, <2>2 DEF Wizards
    <2> QED
        BY <1>6, <2>3
<1> QED
    BY <1>8, <1>9, <1>10, <1>11, <1>12, <1>13, <1>14 DEF ResumeFails, Reset

\* Provisioning: done by the backend, and taken note of by the wizard or by the
\* handler it has left behind.
LEMMA ProvisionStep ==
    ASSUME OnboardingInv, RegistryInv', Lasting,
           ProvisionRouter \/ Provisioned \/ LateAnswer
    PROVE  OnboardingInv'
<1> USE DEF OnboardingInv
<1>1. CASE ProvisionRouter
    <2>1. UNCHANGED <<init, user, handler, saved, page, stored, pkg>>
        BY <1>1 DEF ProvisionRouter
    <2>2. wiz \in Wizards /\ wiz # None /\ wiz.prov = "sent"
        BY <1>1 DEF ProvisionRouter, TypeOK
    <2>3. /\ wiz.step = "provision" /\ ~wiz.loading /\ wiz.rid \in Routers
          /\ Settled(wiz.rid) /\ row[wiz.rid].tenant = user
          /\ wiz.rid = wiz.cmd \/ wiz.link
        BY <2>2, RegistryConstants DEF WizardOK
    <2>4. /\ wiz' \in Wizards /\ wiz'.step = "provision" /\ ~wiz'.loading
          /\ wiz'.rid = wiz.rid /\ wiz'.cmd = wiz.cmd /\ wiz'.link = wiz.link
        BY <1>1, <2>2, <2>3 DEF ProvisionRouter, Wizards
    <2>5. row[wiz.rid].st # "none"
        BY <2>3 DEF Settled, RegistryInv, RowsOK, RowOK
    <2>6. Settled(wiz.rid)' /\ row'[wiz.rid].tenant = user
        BY <2>3, <2>4, <2>5 DEF Settled, Lasting
    <2>7. TypeOK'
        BY <2>1, <2>4 DEF TypeOK, RegistryInv
    <2>8. WizardOK'
        BY <2>1, <2>3, <2>4, <2>6 DEF WizardOK, Settled
    <2>9. HandlerOK' /\ PageOK' /\ ShellResumable'
        BY <2>1, <2>2, <2>3 DEF HandlerOK, PageOK, ShellResumable, ReadyScreen,
                                ShowOnboardingBanner
    <2> QED
        BY <2>7, <2>8, <2>9
<1>2. CASE Provisioned
    <2>1. UNCHANGED <<row, init, user, handler, pkg>> /\ saved' = None
        BY <1>2 DEF Provisioned
    <2>2. /\ wiz \in Wizards /\ wiz # None /\ wiz.step = "provision" /\ ~wiz.loading
          /\ handler # "wizard"
        BY <1>2 DEF Provisioned, Showing, TypeOK, HandlerOK
    <2>3. CASE page = "wizard"
        <3>1. UNCHANGED <<page, stored>>
                 /\ wiz' = [wiz EXCEPT !.step = "complete", !.prov = "idle"]
            BY <1>2, <2>3 DEF Provisioned, RouterScreen
        <3>2. /\ wiz' \in Wizards /\ wiz'.step = "complete" /\ wiz'.prov = "idle"
              /\ ~wiz'.loading /\ wiz'.rid = wiz.rid /\ wiz'.cmd = wiz.cmd
              /\ wiz'.link = wiz.link /\ wiz'.seen = wiz.seen
            BY <2>2, <3>1 DEF Wizards
        <3>3. TypeOK'
            BY <2>1, <3>1, <3>2 DEF TypeOK, RegistryInv
        <3>4. WizardOK'
            BY <2>1, <2>2, <3>2 DEF WizardOK, Settled
        <3>5. HandlerOK' /\ PageOK' /\ ShellResumable'
            BY <2>1, <2>2, <2>3, <3>1 DEF HandlerOK, PageOK, ShellResumable,
               ReadyScreen, ShowOnboardingBanner
        <3> QED
            BY <3>3, <3>4, <3>5
    <2>4. CASE page # "wizard"
        <3>1. wiz' = None /\ page' = "complete" /\ stored' = None
            BY <1>2, <2>4 DEF Provisioned, ShowStep, ClearOnboardingState
        <3>2. TypeOK'
            BY <2>1, <3>1 DEF TypeOK, RegistryInv, Steps
        <3>3. WizardOK' /\ HandlerOK' /\ PageOK' /\ ShellResumable'
            BY <2>1, <2>2, <3>1 DEF WizardOK, HandlerOK, PageOK, ShellResumable,
               ReadyScreen, ShowOnboardingBanner, Steps
        <3> QED
            BY <3>2, <3>3
    <2> QED
        BY <2>3, <2>4
<1>3. CASE LateAnswer
    <2>1. UNCHANGED <<row, init, user, wiz, page, stored, pkg>>
             /\ saved' \in {saved, None} /\ handler' = "gone"
        BY <1>3 DEF LateAnswer
    <2>2. TypeOK'
        BY <2>1 DEF TypeOK, RegistryInv, Handlers
    <2>3. WizardOK'
        BY <2>1, WizardFrame
    <2>4. HandlerOK' /\ PageOK' /\ ShellResumable'
        BY <2>1 DEF HandlerOK, PageOK, ShellResumable, ReadyScreen,
                    ShowOnboardingBanner
    <2> QED
        BY <2>2, <2>3, <2>4
<1> QED
    BY <1>1, <1>2, <1>3

-----------------------------------------------------------------------------
\* The inductive step.
LEMMA OnboardingStep == OnboardingInv /\ [Next]_vars => OnboardingInv'
<1> SUFFICES ASSUME OnboardingInv, [Next]_vars PROVE OnboardingInv'
    OBVIOUS
<1>1. RegistryInv' /\ Lasting
    BY OnboardingIsRegistry, RegistryStep DEF OnboardingInv
<1>2. CASE UNCHANGED vars
    <2>1. UNCHANGED <<row, init, user, wiz, handler, saved, page, stored, pkg>>
        BY <1>2 DEF vars
    <2>2. TypeOK' /\ WizardOK' /\ HandlerOK' /\ PageOK' /\ ShellResumable'
        BY <1>1, <2>1 DEF OnboardingInv, TypeOK, RegistryInv, WizardOK, Settled,
           HandlerOK, PageOK, ShellResumable, ReadyScreen, ShowOnboardingBanner
    <2> QED
        BY <1>1, <2>2 DEF OnboardingInv
<1>3. ASSUME \/ Resumed \/ ResumeFails \/ Poll \/ Advance \/ Back \/ PortsListed
             \/ Deploy \/ ProvisionError \/ ProvisionFails \/ Reset
      PROVE  row' = row
    BY <1>3 DEF Resumed, ResumeFails, Poll, Advance, Back, PortsListed, Deploy,
                ProvisionError, ProvisionFails, Reset
<1> QED
    BY <1>1, <1>2, <1>3, BackendStep, PagesStep, CommandStep, WizardOwnStep,
       ProvisionStep DEF Next, Wizard

\* The inductive invariant of backend, wizard and shell.
THEOREM OnboardingInvariant == Spec => []OnboardingInv
<1>1. Init => OnboardingInv
    <2> SUFFICES ASSUME Init PROVE OnboardingInv
        OBVIOUS
    <2>1. RegistryInv
        BY RegistryStart DEF Init
    <2>2. TypeOK
        BY <2>1 DEF Init, TypeOK, RegistryInv, Handlers, Steps
    <2>3. WizardOK /\ HandlerOK /\ PageOK /\ ShellResumable
        BY DEF Init, WizardOK, HandlerOK, PageOK, ShellResumable, ReadyScreen,
               ShowOnboardingBanner
    <2> QED
        BY <2>1, <2>2, <2>3 DEF OnboardingInv
<1> QED
    BY <1>1, OnboardingStep, PTL DEF Spec

\* The wizard and the shell do to the tables only what the registry's own
\* specification allows, so that AddressesSharedOnlyByRace holds of the whole.
THEOREM OnboardingUsesRegistry == Spec => RegistrySpec
<1>1. Init => RegistryInit
    BY DEF Init
<1> QED
    BY <1>1, OnboardingInvariant, OnboardingIsRegistry, PTL DEF Spec, RegistrySpec

\* The command on the screen is the router's own, only a router that confirmed is
\* offered for provisioning, and a reload of the shell comes back to its step.
THEOREM WizardConsistent == Spec => []WizardInv
<1>1. OnboardingInv => WizardInv
    <2> SUFFICES ASSUME OnboardingInv PROVE WizardInv
        OBVIOUS
    <2>1. OnlineHasConfirmed
        BY DEF OnboardingInv, RegistryInv, RowsOK, RowOK, OnlineHasConfirmed
    <2>2. CommandIsOfItsRouter
        BY DEF OnboardingInv, WizardOK, CommandIsOfItsRouter
    <2>3. ProvisionsConfirmed
        BY DEF OnboardingInv, WizardOK, Settled, ProvisionsConfirmed, Showing, Alive
    <2> QED
        BY <2>1, <2>2, <2>3 DEF OnboardingInv, WizardInv
<1> QED
    BY <1>1, OnboardingInvariant, PTL

\* The wizard never works on another tenant's router, whatever localStorage keeps
\* from an earlier user of the browser.
THEOREM WizardKeepsToItsTenant == Spec => []WizardOfOwnTenant
<1>1. OnboardingInv => WizardOfOwnTenant
    BY DEF OnboardingInv, WizardOK, WizardOfOwnTenant
<1> QED
    BY <1>1, OnboardingInvariant, PTL

=============================================================================
