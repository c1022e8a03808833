--------------------------- MODULE RouterRegistry ---------------------------
(***************************************************************************)
(* The backend's side of connecting a router: the tables routers and       *)
(* setup_tokens, the init-magic calls that fill them one statement at a    *)
(* time and without a transaction, the router's own confirmation, the      *)
(* heartbeat and the deletion of a router.                                 *)
(*                                                                         *)
(* A router stands for its id, its setup token and its command, which are  *)
(* made together; ids are never used again.                                *)
(***************************************************************************)
EXTENDS Integers, FiniteSets

CONSTANTS
    Tenants,
    Routers,    \* bound: the routers that are ever registered
    Clients,    \* bound: init-magic calls under way at once
    None,
    MaxAddr     \* size of the pool 10.8.0.2 - 10.8.0.254

ASSUME RegistryConstants ==
    /\ None \notin Routers \cup Tenants
    /\ MaxAddr \in Nat \ {0}

VARIABLES
    row,      \* the tables routers and setup_tokens
    init      \* the init-magic calls

registryVars == <<row, init>>

-----------------------------------------------------------------------------
\* token: "shown" once an admin has the command, "used" when used_at is set;
\* over: expires_at has passed.
Rows == [st : {"none", "pending_setup", "online", "offline", "deleted"},
         tenant : Tenants \cup {None}, addr : 0 .. MaxAddr,
         token : {"none", "fresh", "shown", "used"}, over : BOOLEAN]

NoRow == [st |-> "none", tenant |-> None, addr |-> 0, token |-> "none",
          over |-> FALSE]

\* seen: the rows assign_peer_ip has read.
Calls == [phase : {"idle", "asked", "picked", "rowed", "tokened"},
          tenant : Tenants \cup {None}, addr : 0 .. MaxAddr,
          router : Routers \cup {None}, seen : SUBSET Routers]

NoCall == [phase |-> "idle", tenant |-> None, addr |-> 0, router |-> None, seen |-> {}]

RegistryTypeOK == row \in [Routers -> Rows] /\ init \in [Clients -> Calls]

RegistryInit == row = [r \in Routers |-> NoRow] /\ init = [c \in Clients |-> NoCall]

-----------------------------------------------------------------------------
Alive(r) == row[r].st \notin {"none", "deleted"}

\* Mutant of NextFree: the pool is taken to be as full as the table is long.
NextFreeByCount == {Cardinality({r \in Routers : Alive(r)}) + 1} \cap 1 .. MaxAddr

\* assign_peer_ip: the least address no row has, none when the pool is full.
NextFree ==
    LET free == 1 .. MaxAddr \ {row[r].addr : r \in {q \in Routers : Alive(q)}}
    IN  {a \in free : \A b \in free : a <= b}

\* An admin asks for a command.
InitAsk(c, t) ==
    /\ init[c].phase = "idle"
    /\ init' = [init EXCEPT ![c] = [NoCall EXCEPT !.phase = "asked", !.tenant = t]]
    /\ UNCHANGED row

\* The name is not taken, and the address is chosen.
InitPick(c) ==
    /\ init[c].phase = "asked"
    /\ \E a \in NextFree : init' = [init EXCEPT ![c].phase = "picked", ![c].addr = a,
                                                ![c].seen = {r \in Routers : Alive(r)}]
    /\ UNCHANGED row

\* A fresh id.  Ids that are not in use are interchangeable, so one stands for all.
FreshIds ==
    LET unused == {r \in Routers : row[r].st = "none"}
    IN  IF unused = {} THEN {} ELSE {CHOOSE r \in unused : TRUE}

InitInsertRouter(c, r) ==
    /\ init[c].phase = "picked" /\ r \in FreshIds
    /\ row' = [row EXCEPT ![r] = [NoRow EXCEPT !.st = "pending_setup",
                                  !.tenant = init[c].tenant, !.addr = init[c].addr]]
    /\ init' = [init EXCEPT ![c].phase = "rowed", ![c].router = r, ![c].seen = {}]

InitInsertToken(c) ==
    /\ init[c].phase = "rowed" /\ Alive(init[c].router)
    /\ row' = [row EXCEPT ![init[c].router].token = "fresh"]
    /\ init' = [init EXCEPT ![c].phase = "tokened"]

\* The name is taken, the pool is empty, wg fails, a statement raises, the process
\* stops or the answer is lost: what has been inserted stays.
InitFails(c) ==
    /\ init[c].phase # "idle"
    /\ init' = [init EXCEPT ![c] = NoCall]
    /\ UNCHANGED row

\* The peer is added to wg0, outside the database, and the admin gets the command.
InitAnswered(c) ==
    /\ init[c].phase = "tokened"
    /\ row' = IF Alive(init[c].router) THEN [row EXCEPT ![init[c].router].token = "shown"]
              ELSE row
    /\ init' = [init EXCEPT ![c] = NoCall]

-----------------------------------------------------------------------------
(* The router, the heartbeat and the clock.                                *)

TokenValid(r) == row[r].token \in {"fresh", "shown"} /\ ~row[r].over

\* The router has downloaded its script, run it and calls confirm_setup: one
\* transaction.  An expired or used token changes nothing, nor does a download.
ConfirmSetup(r) ==
    /\ row[r].token # "fresh" /\ TokenValid(r)
    /\ row' = [row EXCEPT ![r].token = "used", ![r].st = "online"]
    /\ UNCHANGED init

\* router_heartbeat_loop: three failures in a row, or an answer again.
Heartbeat(r) ==
    /\ row[r].st \in {"online", "offline"}
    /\ \E s \in {"online", "offline"} \ {row[r].st} : row' = [row EXCEPT ![r].st = s]
    /\ UNCHANGED init

\* Twenty-four hours pass.
Expire(r) ==
    /\ row[r].st # "none" /\ ~row[r].over
    /\ row' = [row EXCEPT ![r].over = TRUE]
    /\ UNCHANGED init

\* The routers page of some admin: the row goes, and its token with it.
DeleteRouter(r) ==
    /\ Alive(r)
    /\ row' = [row EXCEPT ![r] = [NoRow EXCEPT !.st = "deleted", !.over = row[r].over,
                                               !.tenant = row[r].tenant]]
    /\ UNCHANGED init

-----------------------------------------------------------------------------
Serve(c) == InitPick(c) \/ InitInsertToken(c)
               \/ \E r \in FreshIds : InitInsertRouter(c, r)

Device(r) == ConfirmSetup(r) \/ Heartbeat(r) \/ Expire(r) \/ DeleteRouter(r)

RegistryNext ==
    \/ \E c \in Clients : Serve(c) \/ InitAnswered(c) \/ InitFails(c)
                           \/ \E t \in Tenants : InitAsk(c, t)
    \/ \E r \in Routers : Device(r)

RegistrySpec == RegistryInit /\ [][RegistryNext]_registryVars

-----------------------------------------------------------------------------
\* A router that counts as online, or as offline later, has confirmed, and its
\* setup token is spent: nobody can fetch its keys a second time.
OnlineHasConfirmed ==
    \A r \in Routers : row[r].st \in {"online", "offline"} => row[r].token = "used"

\* An address is given to a second router only if the first was registered after
\* the table was read for the second: the deletion of routers in between, and
\* commands that failed half-way, never make two share one.
AddressSharedOnlyByRace ==
    [][\A c \in Clients, r \in Routers :
          (init[c].phase = "picked" /\ init'[c].router = r /\ row[r].st = "none") =>
             \A q \in init[c].seen : Alive(q) => row'[r].addr # row[q].addr]_registryVars

=============================================================================
