----------------------- MODULE SuperAdminConsoleProofs ----------------------
(***************************************************************************)
(* Proofs about SuperAdminConsole, for any number of tenants, mutations in *)
(* the air and impersonation tabs.                                         *)
(*                                                                         *)
(* That an answer shown without a request is up to date once the console   *)
(* has heard of its mutations says nothing of the answers on their way.    *)
(* What carries it is a second clause (FetchFits): the answer of a fetch   *)
(* that has not been overtaken is what the backend has.  For               *)
(* the types it must be known that a mutation is for a tenant, or for an   *)
(* e-mail address, as its kind asks (Addressed).                           *)
(***************************************************************************)
EXTENDS SuperAdminConsole, FiniteSetTheorems, TLAPS

\* A dialog or a mutation is about something of its kind.
Addressed(d) ==
    CASE d.kind = "none" -> TRUE
      [] d.kind = "create" -> d.of \in Emails
      [] OTHER -> d.of \in Tenants

TablesOK ==
    /\ status \in [Tenants -> Statuses]
    /\ accounts \in SUBSET Emails

\* The cache and the fetches in the air.
QueriesTyped(e, f) ==
    /\ DOMAIN e = Keys /\ DOMAIN f = Keys
    /\ \A k \in Keys : e[k] \in Entries(k) /\ f[k] \in Fetches(k)

\* The page shown is asking unless it has an answer, or has just failed to get one.
Asked == fetch[page].st = "none" => entry[page].st \in {"valid", "failed"}

QueryOK == page \in Keys /\ QueriesTyped(entry, fetch) /\ Asked

MutationsOK ==
    /\ dialog \in Dialogs /\ Addressed(dialog)
    /\ call \in [Slots -> CallRows]
    /\ \A s \in Slots : Addressed(call[s])
    /\ started \in 0 .. MaxCalls
    /\ others \in 0 .. MaxOthers

WindowsOK ==
    /\ window \in [Windows -> WindowRows]
    /\ listening \subseteq Windows
    /\ ImpersonatesItsTenant
    /\ HandshakeGoesOn

EntryFits(k) ==
    entry[k].st = "valid" /\ ~entry[k].overtaken /\ Heard(k) => entry[k].val = Value(k)

FetchFits(k) == fetch[k].st = "read" /\ ~fetch[k].overtaken => fetch[k].val = Value(k)

UpToDate == \A k \in Keys : EntryFits(k) /\ FetchFits(k)

ConsoleIInv == TablesOK /\ QueryOK /\ MutationsOK /\ WindowsOK /\ UpToDate

-----------------------------------------------------------------------------
(* What the backend answers.                                               *)

\* The answers depend on nothing but the two tables.
LEMMA ValueFrame ==
    ASSUME UNCHANGED <<status, accounts>>, NEW k
    PROVE  Value(k)' = Value(k)
<1>1. Stats' = Stats
    BY DEF Stats
<1> QED
    BY <1>1 DEF Value

\* A change of a tenant's status changes the answers it concerns and no other.
LEMMA ValueElsewhere ==
    ASSUME TablesOK, NEW t, NEW v, status' = [status EXCEPT ![t] = v],
           accounts' = accounts, NEW k \in Keys, k \notin {"stats", "list", t}
    PROVE  Value(k)' = Value(k)
<1>1. CASE k = "accounts"
    BY <1>1 DEF Value
<1>2. CASE k \in Tenants
    <2>1. status'[k] = status[k]
        BY <1>2 DEF TablesOK
    <2> QED
        BY <1>2, <2>1, ConsoleConstants DEF Value
<1> QED
    BY <1>1, <1>2 DEF Keys

\* An answer is of the type of its query.
LEMMA ValueType ==
    ASSUME TablesOK, NEW k \in Keys
    PROVE  Value(k) \in Answers(k)
<1>1. Stats \in 0 .. Cardinality(Tenants)
    <2> DEFINE Gone == {t \in Tenants : status[t] = "suspended"}
    <2>1. Gone \subseteq Tenants
        OBVIOUS
    <2>2. IsFiniteSet(Gone) /\ Cardinality(Gone) <= Cardinality(Tenants)
        BY <2>1, FS_Subset, ConsoleConstants
    <2>3. Cardinality(Gone) \in Nat /\ Cardinality(Tenants) \in Nat
        BY <2>2, FS_CardinalityType, ConsoleConstants
    <2> QED
        BY <2>2, <2>3 DEF Stats
<1>2. CASE k = "stats"
    BY <1>1, <1>2 DEF Value, Answers
<1>3. CASE k = "list"
    BY <1>3 DEF Value, Answers, TablesOK
<1>4. CASE k = "accounts"
    BY <1>4 DEF Value, Answers, TablesOK
<1>5. CASE k \in Tenants
    BY <1>5, ConsoleConstants DEF Value, Answers, TablesOK
<1> QED
    BY <1>2, <1>3, <1>4, <1>5 DEF Keys

-----------------------------------------------------------------------------
(* What a step that leaves some part alone preserves.                      *)

LEMMA TablesFrame ==
    ASSUME TablesOK, UNCHANGED <<status, accounts>>
    PROVE  TablesOK'
BY DEF TablesOK

LEMMA QueryFrame ==
    ASSUME QueryOK, UNCHANGED <<page, entry, fetch>>
    PROVE  QueryOK'
BY DEF QueryOK, Asked

LEMMA MutationsFrame ==
    ASSUME MutationsOK, UNCHANGED <<dialog, call, started, others>>
    PROVE  MutationsOK'
BY DEF MutationsOK, Addressed

LEMMA WindowsFrame ==
    ASSUME WindowsOK, UNCHANGED <<window, listening>>
    PROVE  WindowsOK'
BY DEF WindowsOK, ImpersonatesItsTenant, HandshakeGoesOn

\* A step that changes no answer, and hears of no mutation that matters to one.
LEMMA UpToDateFrame ==
    ASSUME UpToDate, UNCHANGED <<entry, fetch>>,
           \A k \in Keys : Value(k)' = Value(k) /\ (Heard(k)' => Heard(k))
    PROVE  UpToDate'
<1> SUFFICES ASSUME NEW k \in Keys
             PROVE  EntryFits(k)' /\ FetchFits(k)'
    BY DEF UpToDate
<1>1. EntryFits(k) /\ FetchFits(k) /\ Value(k)' = Value(k) /\ (Heard(k)' => Heard(k))
    BY DEF UpToDate
<1> HIDE DEF Heard, Value
<1> QED
    BY <1>1 DEF EntryFits, FetchFits

\* A step in which a query k alone gets new answers.
LEMMA UpToDateOne ==
    ASSUME UpToDate, UNCHANGED <<status, accounts, call>>, NEW k \in Keys,
           \A j \in Keys \ {k} : entry'[j] = entry[j] /\ fetch'[j] = fetch[j],
           EntryFits(k)', FetchFits(k)'
    PROVE  UpToDate'
<1> SUFFICES ASSUME NEW j \in Keys, j # k
             PROVE  EntryFits(j)' /\ FetchFits(j)'
    BY DEF UpToDate
<1>1. Value(j)' = Value(j)
    BY ValueFrame
<1>2. Heard(j)' = Heard(j)
    BY DEF Heard, Concerned
<1>3. EntryFits(j) /\ FetchFits(j) /\ entry'[j] = entry[j] /\ fetch'[j] = fetch[j]
    BY DEF UpToDate
<1> HIDE DEF Heard, Value
<1> QED
    BY <1>1, <1>2, <1>3 DEF EntryFits, FetchFits

\* The constant answers are of their types.
LEMMA AnswerShapes ==
    ASSUME NEW k
    PROVE  NoEntry \in Entries(k) /\ NoFetch \in Fetches(k) /\ NewFetch \in Fetches(k)
BY DEF NoEntry, NoFetch, NewFetch, Entries, Fetches

\* A query starts a fetch.
LEMMA FetchStarts ==
    ASSUME QueryOK, UpToDate, NEW k \in Keys, fetch' = [fetch EXCEPT ![k] = NewFetch],
           UNCHANGED <<status, accounts, entry>>,
           \A j \in Keys : Heard(j)' => Heard(j)
    PROVE  QueriesTyped(entry', fetch') /\ UpToDate' /\ fetch'[k].st = "sent"
<1>1. /\ fetch'[k] = NewFetch /\ DOMAIN fetch' = Keys
      /\ \A j \in Keys \ {k} : fetch'[j] = fetch[j]
    BY DEF QueryOK, QueriesTyped
<1>2. QueriesTyped(entry', fetch')
    BY <1>1, AnswerShapes DEF QueryOK, QueriesTyped
<1>3. ASSUME NEW j \in Keys
      PROVE  EntryFits(j)' /\ FetchFits(j)'
    <2>1. EntryFits(j) /\ FetchFits(j) /\ Value(j)' = Value(j) /\ (Heard(j)' => Heard(j))
        BY ValueFrame DEF UpToDate
    <2>2. NewFetch.st = "sent"
        BY DEF NewFetch
    <2> HIDE DEF Heard, Value
    <2> QED
        BY <1>1, <2>1, <2>2 DEF EntryFits, FetchFits
<1> QED
    BY <1>1, <1>2, <1>3 DEF UpToDate, NewFetch

\* Answers that are overtaken are of the same types, and excused.
LEMMA OvertakenShape ==
    ASSUME NEW K, NEW a, NEW k \in Keys
    PROVE  /\ a[k] \in Entries(k) => Overtaken(a, K)[k] \in Entries(k)
           /\ a[k] \in Fetches(k) => Overtaken(a, K)[k] \in Fetches(k)
           /\ a[k] \in Entries(k) \/ a[k] \in Fetches(k) =>
                 /\ Overtaken(a, K)[k].st = a[k].st
                 /\ Overtaken(a, K)[k].val = a[k].val
                 /\ a[k].overtaken => Overtaken(a, K)[k].overtaken
                 /\ k \in K /\ a[k].st \in {"valid", "read"} => Overtaken(a, K)[k].overtaken
           /\ k \notin K => Overtaken(a, K)[k] = a[k]
           /\ DOMAIN Overtaken(a, K) = Keys
BY DEF Overtaken, Entries, Fetches

-----------------------------------------------------------------------------
(* Dialogs and mutations.                                                  *)

\* A dialog is opened for something of its kind.
LEMMA DialogOpened ==
    ASSUME MutationsOK, UNCHANGED <<call, started, others>>,
           dialog' \in Dialogs, Addressed(dialog)'
    PROVE  MutationsOK'
BY DEF MutationsOK, Addressed

LEMMA DialogClosed ==
    ASSUME MutationsOK, UNCHANGED <<call, started, others>>, dialog' = NoDialog
    PROVE  MutationsOK'
BY DialogOpened DEF Dialogs, NoDialog, Addressed

LEMMA UnmountedAlready ==
    ASSUME NEW K, NEW O, NEW P,
           NEW c \in [kind : K, of : O, phase : P, mounted : BOOLEAN], c.mounted = FALSE
    PROVE  [c EXCEPT !.mounted = FALSE] = c
OBVIOUS

LEMMA NoCallUnmounted == [NoCall EXCEPT !.mounted = FALSE] = NoCall
<1>1. NoCall \in [kind : {"none"}, of : {Nobody}, phase : {"idle"}, mounted : BOOLEAN]
    BY DEF NoCall
<1>2. NoCall.mounted = FALSE
    BY DEF NoCall
<1> QED
    BY ONLY <1>1, <1>2, UnmountedAlready

\* Clearing mounted leaves a mutation what it is.
LEMMA Unmounted ==
    ASSUME NEW c \in CallRows, Addressed(c), NEW b \in BOOLEAN, c # NoCall \/ b = FALSE
    PROVE  /\ [c EXCEPT !.mounted = b] \in CallRows
           /\ Addressed([c EXCEPT !.mounted = b])
           /\ [c EXCEPT !.mounted = b].phase = c.phase
           /\ [c EXCEPT !.mounted = b].kind = c.kind
           /\ [c EXCEPT !.mounted = b].of = c.of
<1> DEFINE d == [c EXCEPT !.mounted = b]
<1>1. d.phase = c.phase /\ d.kind = c.kind /\ d.of = c.of
    BY DEF CallRows, NoCall
<1>2. d \in CallRows
    <2>1. CASE c = NoCall
        <3>1. b = FALSE
            BY <2>1
        <3>2. d = [NoCall EXCEPT !.mounted = FALSE]
            BY <2>1, <3>1
        <3>3. d = NoCall
            BY <3>2, NoCallUnmounted
        <3> QED
            BY <3>3 DEF CallRows
    <2>2. CASE c # NoCall
        BY <2>2 DEF CallRows
    <2> QED
        BY <2>1, <2>2
<1>3. Addressed(d)
    BY <1>1 DEF Addressed
<1> QED
    BY <1>1, <1>2, <1>3

\* mutate() adds a mutation and takes callbacks away from others.
LEMMA MutateOK ==
    ASSUME MutationsOK, NEW s \in Slots, NEW kind \in Kinds, NEW x,
           IF kind = "create" THEN x \in Emails ELSE x \in Tenants,
           Mutate(s, kind, x), UNCHANGED <<dialog, others>>
    PROVE  MutationsOK' /\ \A k \in Keys : Heard(k)' => Heard(k)
<1> DEFINE new == [kind |-> kind, of |-> x, phase |-> "sent", mounted |-> TRUE]
           left(c) == [call[c] EXCEPT !.mounted = @ /\ call[c].kind \notin Shared(kind)]
<1>1. new \in CallRows /\ Addressed(new)
    BY DEF CallRows, Kinds, Addressed
<1>2. ASSUME NEW c \in Slots
      PROVE  /\ left(c) \in CallRows /\ Addressed(left(c))
             /\ left(c).phase = call[c].phase /\ left(c).kind = call[c].kind
             /\ left(c).of = call[c].of
    <2>1. call[c] \in CallRows /\ Addressed(call[c])
        BY DEF MutationsOK
    <2>2. call[c].mounted \in BOOLEAN /\ (call[c] = NoCall => call[c].mounted = FALSE)
        <3>1. CASE call[c] = NoCall
            BY <3>1 DEF NoCall
        <3>2. CASE call[c] # NoCall
            BY <2>1, <3>2 DEF CallRows
        <3> QED
            BY <3>1, <3>2
    <2> DEFINE b == call[c].mounted /\ call[c].kind \notin Shared(kind)
    <2>3. b \in BOOLEAN /\ (call[c] # NoCall \/ b = FALSE)
        BY <2>2
    <2>4. left(c) = [call[c] EXCEPT !.mounted = b]
        OBVIOUS
    <2> QED
        BY <2>1, <2>3, <2>4, Unmounted
<1>3. /\ call' = [c \in Slots |-> IF c = s THEN new ELSE left(c)]
      /\ call[s] = NoCall /\ started < MaxCalls /\ started' = started + 1
    BY DEF Mutate
<1>4. new.phase = "sent"
    OBVIOUS
<1> HIDE DEF new, left
<1>5. call' \in [Slots -> CallRows] /\ \A c \in Slots : Addressed(call'[c])
    BY <1>1, <1>2, <1>3
<1>6. started' \in 0 .. MaxCalls
    BY <1>3, ConsoleConstants DEF MutationsOK
<1>7. MutationsOK'
    BY <1>5, <1>6 DEF MutationsOK, Addressed
<1>8. ASSUME NEW k \in Keys, Heard(k)', NEW c \in Slots, call[c].phase = "done"
      PROVE  k \notin Concerned(call[c].kind, call[c].of)
    <2>1. c # s
        BY <1>3, <1>8 DEF NoCall
    <2>2. /\ call'[c].phase = "done" /\ call'[c].kind = call[c].kind
          /\ call'[c].of = call[c].of
        BY <1>2, <1>3, <1>8, <2>1
    <2> QED
        BY <1>8, <2>2 DEF Heard
<1> QED
    BY <1>7, <1>8 DEF Heard

\* A mutation that is over is forgotten; its dialog may close.
LEMMA CallEnds ==
    ASSUME MutationsOK, NEW s \in Slots, call' = [call EXCEPT ![s] = NoCall],
           UNCHANGED <<started, others>>, dialog' \in {dialog, NoDialog}
    PROVE  MutationsOK'
<1>1. NoCall \in CallRows /\ Addressed(NoCall)
    BY DEF CallRows, NoCall, Addressed
<1>2. call' \in [Slots -> CallRows] /\ \A c \in Slots : Addressed(call'[c])
    BY <1>1 DEF MutationsOK
<1>3. dialog' \in Dialogs /\ Addressed(dialog')
    BY DEF MutationsOK, Dialogs, NoDialog, Addressed
<1> QED
    BY <1>2, <1>3 DEF MutationsOK, Addressed

\* If it did not concern a query, the query has missed nothing.
LEMMA CallEndsQuietly ==
    ASSUME MutationsOK, NEW s \in Slots, call' = [call EXCEPT ![s] = NoCall],
           NEW k, call[s].phase = "done" => k \notin Concerned(call[s].kind, call[s].of),
           Heard(k)'
    PROVE  Heard(k)
<1> SUFFICES ASSUME NEW c \in Slots, call[c].phase = "done"
             PROVE  k \notin Concerned(call[c].kind, call[c].of)
    BY DEF Heard
<1>1. CASE c = s
    BY <1>1
<1>2. CASE c # s
    <2>1. call'[c] = call[c]
        BY <1>2 DEF MutationsOK
    <2> QED
        BY <2>1 DEF Heard
<1> QED
    BY <1>1, <1>2

-----------------------------------------------------------------------------
(* The actions, one by one.                                                *)

LEMMA GotoStep ==
    ASSUME ConsoleIInv, NEW k \in Keys, Goto(k)
    PROVE  ConsoleIInv'
<1>1. TablesOK' /\ WindowsOK'
    BY TablesFrame, WindowsFrame DEF ConsoleIInv, Goto, windowVars
<1>2. /\ call' = [s \in Slots |-> [call[s] EXCEPT !.mounted = FALSE]]
      /\ UNCHANGED <<status, accounts, entry, dialog, started, others>> /\ page' = k
    BY DEF Goto
<1>3. ASSUME NEW s \in Slots
      PROVE  /\ call'[s] \in CallRows /\ Addressed(call'[s])
             /\ call'[s].phase = call[s].phase /\ call'[s].kind = call[s].kind
             /\ call'[s].of = call[s].of
    <2>1. call'[s] = [call[s] EXCEPT !.mounted = FALSE]
        BY <1>2
    <2>2. call[s] \in CallRows /\ Addressed(call[s])
        BY DEF ConsoleIInv, MutationsOK
    <2> QED
        BY <2>1, <2>2, Unmounted
<1>4. MutationsOK'
    <2>1. call' \in [Slots -> CallRows]
        BY <1>2, <1>3
    <2> QED
        BY <1>2, <1>3, <2>1 DEF ConsoleIInv, MutationsOK, Addressed
<1>5. \A j \in Keys : Heard(j)' => Heard(j)
    BY <1>3 DEF Heard
<1>6. CASE fetch' = [fetch EXCEPT ![k] = NewFetch]
    <2>1. QueriesTyped(entry', fetch') /\ UpToDate' /\ fetch'[k].st = "sent"
        BY <1>2, <1>5, <1>6, FetchStarts DEF ConsoleIInv
    <2>2. QueryOK'
        BY <1>2, <2>1 DEF QueryOK, Asked
    <2> QED
        BY <1>1, <1>4, <2>1, <2>2 DEF ConsoleIInv
<1>7. CASE (entry[k].st = "valid" \/ fetch[k].st # "none") /\ fetch' = fetch
    <2>1. QueryOK'
        BY <1>2, <1>7 DEF ConsoleIInv, QueryOK, Asked
    <2>2. \A j \in Keys : Value(j)' = Value(j)
        BY <1>2, ValueFrame
    <2>3. UpToDate'
        BY <1>2, <1>5, <1>7, <2>2, UpToDateFrame DEF ConsoleIInv
    <2> QED
        BY <1>1, <1>4, <2>1, <2>3 DEF ConsoleIInv
<1> QED
    BY <1>6, <1>7 DEF Goto

\* A step of the client alone.
LEMMA ClientStep ==
    ASSUME ConsoleIInv, UNCHANGED notQueries,
           QueriesTyped(entry', fetch'), Asked', UpToDate'
    PROVE  ConsoleIInv'
<1>1. TablesOK' /\ WindowsOK' /\ MutationsOK'
    BY TablesFrame, WindowsFrame, MutationsFrame DEF ConsoleIInv, notQueries, windowVars
<1> QED
    BY <1>1 DEF ConsoleIInv, QueryOK, notQueries

LEMMA RefocusStep ==
    ASSUME ConsoleIInv, Refocus
    PROVE  ConsoleIInv'
<1>1. /\ fetch' = [fetch EXCEPT ![page] = NewFetch] /\ page \in Keys
      /\ UNCHANGED <<status, accounts, entry, page, call>> /\ UNCHANGED notQueries
    BY DEF Refocus, ConsoleIInv, QueryOK, notQueries
<1>2. \A j \in Keys : Heard(j)' => Heard(j)
    BY <1>1 DEF Heard, Concerned
<1>3. QueriesTyped(entry', fetch') /\ UpToDate' /\ fetch'[page].st = "sent"
    BY <1>1, <1>2, FetchStarts DEF ConsoleIInv
<1>4. Asked'
    BY <1>1, <1>3 DEF Asked
<1> QED
    BY <1>1, <1>3, <1>4, ClientStep

LEMMA ServeFetchStep ==
    ASSUME ConsoleIInv, NEW k \in Keys, ServeFetch(k)
    PROVE  ConsoleIInv'
<1> DEFINE f == [st |-> "read", val |-> Value(k), overtaken |-> FALSE]
<1>1. /\ fetch' = [fetch EXCEPT ![k] = f] /\ UNCHANGED <<entry, notQueries>>
      /\ UNCHANGED <<status, accounts, page, call>>
    BY DEF ServeFetch, notQueries
<1>2. f \in Fetches(k) /\ f.st = "read" /\ f.val = Value(k)
    <2>1. Value(k) \in Answers(k)
        BY ValueType DEF ConsoleIInv
    <2> QED
        BY <2>1 DEF Fetches
<1> HIDE DEF f
<1>3. /\ fetch'[k] = f /\ DOMAIN fetch' = Keys
      /\ \A j \in Keys \ {k} : fetch'[j] = fetch[j]
    BY <1>1 DEF ConsoleIInv, QueryOK, QueriesTyped
<1>4. QueriesTyped(entry', fetch')
    BY <1>1, <1>2, <1>3 DEF ConsoleIInv, QueryOK, QueriesTyped
<1>5. EntryFits(k)' /\ FetchFits(k)'
    <2>1. Value(k)' = Value(k) /\ Heard(k)' = Heard(k) /\ EntryFits(k)
        BY <1>1, ValueFrame DEF Heard, Concerned, ConsoleIInv, UpToDate
    <2> HIDE DEF Heard, Value
    <2> QED
        BY <1>1, <1>2, <1>3, <2>1 DEF EntryFits, FetchFits
<1>6. UpToDate'
    BY <1>1, <1>3, <1>5, UpToDateOne DEF ConsoleIInv
<1>7. Asked'
    BY <1>1, <1>2, <1>3 DEF ConsoleIInv, QueryOK, Asked
<1> QED
    BY <1>1, <1>4, <1>6, <1>7, ClientStep

\* A fetch ends, and leaves an entry e.
LEMMA FetchEnds ==
    ASSUME ConsoleIInv, NEW k \in Keys, NEW e \in Entries(k),
           entry' = [entry EXCEPT ![k] = e], fetch' = [fetch EXCEPT ![k] = NoFetch],
           UNCHANGED notQueries, e.st \in {"valid", "failed"},
           e.st = "valid" /\ ~e.overtaken => e.val = Value(k)
    PROVE  ConsoleIInv'
<1>1. UNCHANGED <<status, accounts, page, call>> /\ NoFetch.st = "none"
    BY DEF notQueries, NoFetch
<1>2. /\ fetch'[k] = NoFetch /\ entry'[k] = e
      /\ DOMAIN fetch' = Keys /\ DOMAIN entry' = Keys
      /\ \A j \in Keys \ {k} : fetch'[j] = fetch[j] /\ entry'[j] = entry[j]
    BY DEF ConsoleIInv, QueryOK, QueriesTyped
<1>3. QueriesTyped(entry', fetch')
    BY <1>2, AnswerShapes DEF ConsoleIInv, QueryOK, QueriesTyped
<1>4. EntryFits(k)' /\ FetchFits(k)'
    <2>1. Value(k)' = Value(k)
        BY <1>1, ValueFrame
    <2> HIDE DEF Value
    <2> QED
        BY <1>1, <1>2, <2>1 DEF EntryFits, FetchFits
<1>5. UpToDate'
    BY <1>1, <1>2, <1>4, UpToDateOne DEF ConsoleIInv
<1>6. Asked'
    BY <1>1, <1>2 DEF ConsoleIInv, QueryOK, Asked
<1> QED
    BY <1>3, <1>5, <1>6, ClientStep

LEMMA FetchEndsStep ==
    ASSUME ConsoleIInv, NEW k \in Keys, FetchLands(k) \/ FetchFails(k)
    PROVE  ConsoleIInv'
<1>1. entry[k] \in Entries(k) /\ fetch[k] \in Fetches(k) /\ FetchFits(k) /\ DOMAIN entry = Keys
    BY DEF ConsoleIInv, QueryOK, QueriesTyped, UpToDate
<1>2. CASE FetchLands(k)
    <2> DEFINE e == [st |-> "valid", val |-> fetch[k].val, overtaken |-> fetch[k].overtaken]
    <2>1. /\ e \in Entries(k) /\ e.st = "valid" /\ e.val = fetch[k].val
          /\ e.overtaken = fetch[k].overtaken
        BY <1>1 DEF Entries, Fetches
    <2>2. entry' = [entry EXCEPT ![k] = e] /\ fetch[k].st = "read"
        BY <1>2 DEF FetchLands
    <2> HIDE DEF e
    <2>3. ~e.overtaken => e.val = Value(k)
        BY <1>1, <2>1, <2>2 DEF FetchFits
    <2> QED
        BY <1>2, <2>1, <2>2, <2>3, FetchEnds DEF FetchLands
<1>3. CASE FetchFails(k)
    <2> DEFINE e == [st |-> "failed", val |-> entry[k].val, overtaken |-> FALSE]
    <2>1. e \in Entries(k) /\ e.st = "failed"
        BY <1>1 DEF Entries
    <2>2. entry' = [entry EXCEPT ![k] = e]
        BY <1>1, <1>3 DEF FetchFails
    <2> HIDE DEF e
    <2> QED
        BY <1>3, <2>1, <2>2, FetchEnds DEF FetchFails
<1> QED
    BY <1>2, <1>3

LEMMA ForgetStep ==
    ASSUME ConsoleIInv, NEW k \in Keys, Forget(k)
    PROVE  ConsoleIInv'
<1>1. /\ entry' = [entry EXCEPT ![k] = NoEntry] /\ fetch' = fetch /\ k # page
      /\ UNCHANGED <<status, accounts, page, call>> /\ UNCHANGED notQueries
      /\ NoEntry.st = "none"
    BY DEF Forget, notQueries, NoEntry
<1>2. /\ entry'[k] = NoEntry /\ DOMAIN entry' = Keys
      /\ \A j \in Keys \ {k} : entry'[j] = entry[j]
    BY <1>1 DEF ConsoleIInv, QueryOK, QueriesTyped
<1>3. QueriesTyped(entry', fetch')
    BY <1>1, <1>2, AnswerShapes DEF ConsoleIInv, QueryOK, QueriesTyped
<1>4. EntryFits(k)' /\ FetchFits(k)'
    <2>1. Value(k)' = Value(k) /\ FetchFits(k)
        BY <1>1, ValueFrame DEF ConsoleIInv, UpToDate
    <2> HIDE DEF Value
    <2> QED
        BY <1>1, <1>2, <2>1 DEF EntryFits, FetchFits
<1>5. UpToDate'
    BY <1>1, <1>2, <1>4, UpToDateOne DEF ConsoleIInv
<1>6. Asked'
    BY <1>1, <1>2 DEF ConsoleIInv, QueryOK, Asked
<1> QED
    BY <1>1, <1>3, <1>5, <1>6, ClientStep

\* A step of the dialogs alone.
LEMMA DialogStep ==
    ASSUME ConsoleIInv, MutationsOK',
           UNCHANGED <<status, accounts, page, queryVars, call, windowVars>>
    PROVE  ConsoleIInv'
<1>1. TablesOK' /\ WindowsOK'
    BY TablesFrame, WindowsFrame DEF ConsoleIInv, windowVars
<1>2. QueryOK'
    BY QueryFrame DEF ConsoleIInv, queryVars
<1>3. \A k \in Keys : Value(k)' = Value(k) /\ (Heard(k)' => Heard(k))
    BY ValueFrame DEF Heard, Concerned
<1>4. UpToDate'
    BY <1>3, UpToDateFrame DEF ConsoleIInv, queryVars
<1> QED
    BY <1>1, <1>2, <1>4 DEF ConsoleIInv

LEMMA OpenDialogStep ==
    ASSUME ConsoleIInv, NEW kind \in Kinds, NEW t \in Tenants,
           OpenListDialog(kind, t) \/ OpenDetailDialog(kind, t)
    PROVE  ConsoleIInv'
<1>1. /\ kind \in Kinds \ {"auditlog", "create"}
      /\ dialog' = [kind |-> kind, of |-> t]
      /\ UNCHANGED <<status, accounts, page, queryVars, call, started, others, windowVars>>
    BY DEF OpenListDialog, OpenDetailDialog, ListOffers, DetailOffers, Kinds
<1>2. dialog' \in Dialogs /\ Addressed(dialog')
    BY <1>1 DEF Dialogs, Addressed, Kinds
<1>3. MutationsOK'
    BY <1>1, <1>2, DialogOpened DEF ConsoleIInv, Addressed
<1> QED
    BY <1>1, <1>3, DialogStep

LEMMA OpenAccountStep ==
    ASSUME ConsoleIInv, NEW e \in Emails, OpenAccountDialog(e)
    PROVE  ConsoleIInv'
<1>1. /\ dialog' = [kind |-> "create", of |-> e]
      /\ UNCHANGED <<status, accounts, page, queryVars, call, started, others, windowVars>>
    BY DEF OpenAccountDialog
<1>2. dialog' \in Dialogs /\ Addressed(dialog')
    BY <1>1 DEF Dialogs, Addressed, Kinds
<1>3. MutationsOK'
    BY <1>1, <1>2, DialogOpened DEF ConsoleIInv, Addressed
<1> QED
    BY <1>1, <1>3, DialogStep

LEMMA CancelStep ==
    ASSUME ConsoleIInv, CancelDialog
    PROVE  ConsoleIInv'
BY DialogClosed, DialogStep DEF CancelDialog, ConsoleIInv

\* A button that starts a mutation.
LEMMA MutateStep ==
    ASSUME ConsoleIInv, NEW s \in Slots, NEW kind \in Kinds, NEW x,
           IF kind = "create" THEN x \in Emails ELSE x \in Tenants,
           Mutate(s, kind, x),
           UNCHANGED <<status, accounts, page, queryVars, dialog, others, windowVars>>
    PROVE  ConsoleIInv'
<1>1. TablesOK' /\ WindowsOK'
    BY TablesFrame, WindowsFrame DEF ConsoleIInv, windowVars
<1>2. QueryOK'
    BY QueryFrame DEF ConsoleIInv, queryVars
<1>3. \A k \in Keys : Value(k)' = Value(k)
    BY ValueFrame
<1>4. MutationsOK' /\ \A k \in Keys : Heard(k)' => Heard(k)
    BY MutateOK DEF ConsoleIInv
<1>5. UpToDate'
    BY <1>3, <1>4, UpToDateFrame DEF ConsoleIInv, queryVars
<1> QED
    BY <1>1, <1>2, <1>4, <1>5 DEF ConsoleIInv

\* The confirm button of a dialog.
LEMMA ConfirmedStep ==
    ASSUME ConsoleIInv, NEW s \in Slots, Confirmed(s), dialog # NoDialog
    PROVE  ConsoleIInv'
<1>1. dialog \in Dialogs /\ Addressed(dialog)
    BY DEF ConsoleIInv, MutationsOK
<1>2. /\ dialog.kind \in Kinds
      /\ IF dialog.kind = "create" THEN dialog.of \in Emails ELSE dialog.of \in Tenants
    BY <1>1 DEF Dialogs, Kinds, Addressed
<1> QED
    BY <1>2, MutateStep DEF Confirmed

LEMMA ButtonsStep ==
    ASSUME ConsoleIInv, NEW s \in Slots,
           \/ HandleStartImpersonation(s) \/ HandleConfirmSuspend(s)
           \/ HandleConfirmReactivate(s) \/ HandleConfirmBilling(s) \/ OnSubmit(s)
           \/ HandleReactivate(s) \/ LoadTenantAuditLogs(s)
    PROVE  ConsoleIInv'
<1>1. CASE \/ HandleStartImpersonation(s) \/ HandleConfirmSuspend(s)
           \/ HandleConfirmReactivate(s) \/ HandleConfirmBilling(s) \/ OnSubmit(s)
    BY <1>1, ConfirmedStep
    DEF HandleStartImpersonation, HandleConfirmSuspend, HandleConfirmReactivate,
        HandleConfirmBilling, OnSubmit, ImpersonateDialog, SuspendDialog, ReactivateDialog,
        BillingDialog, AccountDialog, Ready, NoDialog
<1>2. CASE HandleReactivate(s) \/ LoadTenantAuditLogs(s)
    BY <1>2, MutateStep DEF HandleReactivate, LoadTenantAuditLogs, Kinds
<1> QED
    BY <1>1, <1>2

\* The backend does what the mutation asks: the page's value changes only if the
\* mutation is one that invalidates it.
LEMMA ServeCallStep ==
    ASSUME ConsoleIInv, NEW s \in Slots, ServeCall(s)
    PROVE  ConsoleIInv'
<1> DEFINE c == call[s]
           ok == ~Conflict(c)
<1>1. /\ c \in CallRows /\ Addressed(c) /\ c.phase = "sent"
      /\ call' = [call EXCEPT ![s].phase = IF ok THEN "done" ELSE "refused"]
      /\ status' = IF ok /\ c.kind \in {"suspend", "reactivate"}
                   THEN [status EXCEPT ![c.of] = IF c.kind = "suspend" THEN "suspended" ELSE "active"]
                   ELSE status
      /\ accounts' = IF ok /\ c.kind = "create" THEN accounts \cup {c.of} ELSE accounts
      /\ fetch' = IF ok THEN Overtaken(fetch, Concerned(c.kind, c.of)) ELSE fetch
      /\ UNCHANGED <<page, entry, dialog, started, others, window, listening>>
    BY DEF ServeCall, ConsoleIInv, MutationsOK, queryVars, windowVars
<1>2. /\ c.kind \in Kinds
      /\ c.kind = "create" => c.of \in Emails
      /\ call'[s].phase \in {"done", "refused"} /\ (ok => call'[s].phase = "done")
      /\ call'[s].kind = c.kind /\ call'[s].of = c.of
      /\ call'[s] \in CallRows /\ Addressed(call'[s])
      /\ \A d \in Slots \ {s} : call'[d] = call[d]
    <2>1. c.kind \in Kinds /\ (c.kind = "create" => c.of \in Emails)
        BY <1>1 DEF CallRows, NoCall, Addressed
    <2> DEFINE ph == IF ok THEN "done" ELSE "refused"
               n == [c EXCEPT !.phase = ph]
    <2>2. ph \in {"done", "refused"} /\ (ok => ph = "done")
        OBVIOUS
    <2>3. call \in [Slots -> CallRows]
        BY DEF ConsoleIInv, MutationsOK
    <2>4. call'[s] = n /\ \A d \in Slots \ {s} : call'[d] = call[d]
        BY <1>1, <2>3
    <2> HIDE DEF ph
    <2>5. n.phase = ph /\ n.kind = c.kind /\ n.of = c.of /\ n \in CallRows
        BY <1>1, <2>2 DEF CallRows, NoCall
    <2>6. Addressed(n)
        BY <1>1, <2>5 DEF Addressed
    <2> QED
        BY <2>1, <2>2, <2>4, <2>5, <2>6
<1>3. TablesOK'
    BY <1>1, <1>2 DEF ConsoleIInv, TablesOK, Statuses
<1>4. QueriesTyped(entry, fetch) /\ page \in Keys /\ Asked
    BY DEF ConsoleIInv, QueryOK
<1>5. /\ WindowsOK' /\ DOMAIN fetch' = Keys
      /\ \A k \in Keys : fetch'[k] \in Fetches(k) /\ fetch'[k].st = fetch[k].st
    <2> DEFINE K == Concerned(c.kind, c.of)
    <2>1. DOMAIN fetch = Keys /\ \A k \in Keys : fetch[k] \in Fetches(k)
        BY <1>4 DEF QueriesTyped
    <2>2. DOMAIN Overtaken(fetch, K) = Keys
        BY DEF Overtaken
    <2>3. fetch' \in {fetch, Overtaken(fetch, K)}
        BY <1>1
    <2> HIDE DEF K
    <2>4. ASSUME NEW k \in Keys
          PROVE  fetch'[k] \in Fetches(k) /\ fetch'[k].st = fetch[k].st
        BY <2>1, <2>3, OvertakenShape
    <2> QED
        BY <1>1, <2>1, <2>2, <2>3, <2>4, WindowsFrame DEF ConsoleIInv
<1>6. QueryOK'
    BY <1>1, <1>4, <1>5 DEF QueryOK, QueriesTyped, Asked
<1>7. MutationsOK'
    BY <1>1, <1>2 DEF ConsoleIInv, MutationsOK, Addressed
<1>8. ASSUME NEW k \in Keys
      PROVE  /\ Value(k)' = Value(k) \/ (ok /\ k \in Concerned(c.kind, c.of))
             /\ Heard(k)' => Heard(k) /\ ~(ok /\ k \in Concerned(c.kind, c.of))
    <2>1. Heard(k)' => Heard(k) /\ ~(ok /\ k \in Concerned(c.kind, c.of))
        <3>1. ASSUME Heard(k)', NEW d \in Slots, call[d].phase = "done"
              PROVE  k \notin Concerned(call[d].kind, call[d].of)
            <4>1. d # s
                BY <1>1, <3>1
            <4> QED
                BY <1>2, <3>1, <4>1 DEF Heard
        <3>2. Heard(k)' /\ ok => k \notin Concerned(c.kind, c.of)
            BY <1>2 DEF Heard
        <3> QED
            BY <3>1, <3>2 DEF Heard
    <2>2. CASE ~ok \/ c.kind \notin {"suspend", "reactivate", "create"}
        BY <1>1, <1>2, <2>1, <2>2, ValueFrame
    <2>3. CASE ok /\ c.kind \in {"suspend", "reactivate"} /\ k \notin Concerned(c.kind, c.of)
        BY <1>1, <2>1, <2>3, ValueElsewhere DEF Concerned, ConsoleIInv
    <2>4. CASE ok /\ c.kind = "create" /\ k \notin Concerned(c.kind, c.of)
        <3>1. k # "accounts" /\ status' = status
            BY <1>1, <2>4 DEF Concerned
        <3>2. Stats' = Stats
            BY <3>1 DEF Stats
        <3> QED
            BY <2>1, <3>1, <3>2 DEF Value
    <2> QED
        BY <2>1, <2>2, <2>3, <2>4
<1>9. ASSUME NEW k \in Keys
      PROVE  EntryFits(k)' /\ FetchFits(k)'
    <2>1. /\ EntryFits(k) /\ FetchFits(k) /\ entry' = entry
          /\ fetch'[k].val = fetch[k].val /\ fetch'[k].st = fetch[k].st
          /\ ~fetch'[k].overtaken => ~fetch[k].overtaken
          /\ ok /\ k \in Concerned(c.kind, c.of) /\ fetch[k].st = "read" => fetch'[k].overtaken
        BY <1>1, <1>4, OvertakenShape DEF ConsoleIInv, UpToDate, QueriesTyped
    <2> HIDE DEF ok, c
    <2>2. EntryFits(k)'
        BY <1>8, <2>1 DEF EntryFits
    <2>3. FetchFits(k)'
        BY <1>8, <2>1 DEF FetchFits
    <2> QED
        BY <2>2, <2>3
<1> QED
    BY <1>3, <1>5, <1>6, <1>7, <1>9 DEF ConsoleIInv, UpToDate

\* What the hook of a mutation invalidates is what the mutation concerns, and more.
LEMMA ConcernedAffected ==
    ASSUME NEW c \in CallRows, Addressed(c), c # NoCall
    PROVE  Concerned(c.kind, c.of) \cap Keys \subseteq Affects(c.kind)
BY ConsoleConstants DEF Concerned, Affects, Addressed, CallRows, Kinds, Keys

\* onSuccess, without the impersonation tabs.
LEMMA SucceededStep ==
    ASSUME ConsoleIInv, NEW s \in Slots, Succeeded(s), WindowsOK'
    PROVE  ConsoleIInv'
<1> DEFINE A == Affects(call[s].kind)
           e(k) == [st |-> "invalidated", val |-> entry[k].val, overtaken |-> FALSE]
           again == page \in A /\ (Loaded \/ fetch[page].st = "none")
<1>1. /\ call[s].phase = "done"
      /\ dialog' \in {dialog, NoDialog}
      /\ call' = [call EXCEPT ![s] = NoCall]
      /\ entry' = [k \in Keys |-> IF k \in A /\ entry[k].st # "none" THEN e(k) ELSE entry[k]]
      /\ fetch' = IF again THEN [fetch EXCEPT ![page] = NewFetch] ELSE fetch
      /\ UNCHANGED <<status, accounts, page, started, others>>
    BY DEF Succeeded, Invalidated
<1>2. TablesOK' /\ MutationsOK'
    BY <1>1, TablesFrame, CallEnds DEF ConsoleIInv
<1>3. QueriesTyped(entry, fetch) /\ page \in Keys /\ Asked
    BY DEF ConsoleIInv, QueryOK
<1>4. ASSUME NEW k \in Keys
      PROVE  Concerned(call[s].kind, call[s].of) \cap {k} \subseteq A
    <2>1. call[s] \in CallRows /\ Addressed(call[s]) /\ call[s] # NoCall
        BY <1>1 DEF ConsoleIInv, MutationsOK, NoCall
    <2> QED
        BY <2>1, <1>4, ConcernedAffected
<1> HIDE DEF A
<1>5. ASSUME NEW k \in Keys
      PROVE  /\ entry'[k] \in Entries(k) /\ fetch'[k] \in Fetches(k)
             /\ k \in A /\ entry[k].st # "none" => entry'[k].st = "invalidated"
             /\ entry'[k] = IF k \in A /\ entry[k].st # "none" THEN e(k) ELSE entry[k]
             /\ fetch'[k] = IF again /\ k = page THEN NewFetch ELSE fetch[k]
    <2>1. entry[k] \in Entries(k) /\ fetch[k] \in Fetches(k) /\ DOMAIN fetch = Keys
        BY <1>3 DEF QueriesTyped
    <2>2. e(k) \in Entries(k) /\ e(k).st = "invalidated"
        BY <2>1 DEF Entries
    <2>3. /\ entry'[k] = IF k \in A /\ entry[k].st # "none" THEN e(k) ELSE entry[k]
          /\ fetch'[k] = IF again /\ k = page THEN NewFetch ELSE fetch[k]
        <3> HIDE DEF e, again
        <3> QED
            BY <1>1, <2>1
    <2> HIDE DEF e, again
    <2> QED
        BY <2>1, <2>2, <2>3, AnswerShapes
<1>6. QueriesTyped(entry', fetch')
    <2>1. DOMAIN entry' = Keys /\ DOMAIN fetch' = Keys
        BY <1>1, <1>3 DEF QueriesTyped
    <2> QED
        BY <1>5, <2>1 DEF QueriesTyped
<1>7. Asked'
    <2>1. CASE again
        BY <1>1, <1>3, <1>5, <2>1 DEF Asked, NewFetch
    <2>2. CASE ~again
        BY <1>1, <1>3, <1>5, <2>2 DEF Asked, Loaded, Shown
    <2> QED
        BY <2>1, <2>2
<1>8. ASSUME NEW k \in Keys
      PROVE  EntryFits(k)' /\ FetchFits(k)'
    <2>1. EntryFits(k) /\ FetchFits(k) /\ Value(k)' = Value(k)
        BY <1>1, ValueFrame DEF ConsoleIInv, UpToDate
    <2>2. EntryFits(k)'
        <3>1. CASE k \in A /\ entry[k].st # "none"
            <4>1. entry'[k].st = "invalidated"
                BY <1>5, <3>1
            <4> QED
                BY <4>1 DEF EntryFits
        <3>2. CASE k \notin A
            <4>1. Heard(k)' => Heard(k)
                BY <1>1, <1>4, <3>2, CallEndsQuietly DEF ConsoleIInv
            <4>2. entry'[k] = entry[k]
                BY <1>5, <3>2
            <4> HIDE DEF Heard, Value
            <4> QED
                BY <2>1, <4>1, <4>2 DEF EntryFits
        <3>3. CASE entry[k].st = "none"
            BY <1>5, <3>3 DEF EntryFits
        <3> QED
            BY <3>1, <3>2, <3>3
    <2>3. FetchFits(k)'
        <3>1. Value(k)' = Value(k) /\ NewFetch.st = "sent"
            BY <2>1 DEF NewFetch
        <3>2. fetch'[k] = NewFetch \/ fetch'[k] = fetch[k]
            BY <1>5
        <3> HIDE DEF Value
        <3> QED
            BY <2>1, <3>1, <3>2 DEF FetchFits
    <2> QED
        BY <2>2, <2>3
<1> QED
    BY <1>1, <1>2, <1>3, <1>6, <1>7, <1>8 DEF ConsoleIInv, QueryOK, UpToDate

LEMMA ArrivesStep ==
    ASSUME ConsoleIInv, NEW s \in Slots, Arrives(s) \/ PopupBlocked(s)
    PROVE  ConsoleIInv'
<1>1. Succeeded(s) /\ UNCHANGED <<window, listening>>
    BY DEF Arrives, PopupBlocked, windowVars
<1>2. WindowsOK'
    BY <1>1, WindowsFrame DEF ConsoleIInv
<1> QED
    BY <1>1, <1>2, SucceededStep

\* A tab that has been opened has still to load.
LEMMA OpenWindowStep ==
    ASSUME ConsoleIInv, NEW s \in Slots, NEW w \in Windows, OpenWindow(s, w)
    PROVE  ConsoleIInv'
<1> DEFINE n == [for |-> call[s].of, phase |-> "opened", ready |-> FALSE, token |-> Nobody]
<1>1. /\ call[s].kind = "impersonate" /\ Succeeded(s)
      /\ window' = [window EXCEPT ![w] = n] /\ listening' = listening \cup {w}
    BY DEF OpenWindow
<1>2. call[s].of \in Tenants
    BY <1>1 DEF ConsoleIInv, MutationsOK, Addressed
<1>3. n.phase = "opened"
    OBVIOUS
<1>4. n \in WindowRows
    BY <1>2 DEF WindowRows
<1> HIDE DEF n
<1>5. window' \in [Windows -> WindowRows] /\ listening' \subseteq Windows
    BY <1>1, <1>4 DEF ConsoleIInv, WindowsOK
<1>6. /\ window'[w].phase = "opened"
      /\ \A v \in Windows \ {w} : window'[v] = window[v]
    BY <1>1, <1>3 DEF ConsoleIInv, WindowsOK
<1>7. ImpersonatesItsTenant' /\ HandshakeGoesOn'
    BY <1>1, <1>5, <1>6 DEF ConsoleIInv, WindowsOK, ImpersonatesItsTenant, HandshakeGoesOn
<1>8. WindowsOK'
    BY <1>5, <1>7 DEF WindowsOK
<1> QED
    BY <1>1, <1>8, SucceededStep

LEMMA CallRefusedStep ==
    ASSUME ConsoleIInv, NEW s \in Slots, CallRefused(s)
    PROVE  ConsoleIInv'
<1>1. TablesOK' /\ WindowsOK'
    BY TablesFrame, WindowsFrame DEF ConsoleIInv, CallRefused, windowVars
<1>2. QueryOK'
    BY QueryFrame DEF ConsoleIInv, CallRefused, queryVars
<1>3. MutationsOK'
    BY CallEnds DEF ConsoleIInv, CallRefused
<1>4. \A k \in Keys : Value(k)' = Value(k) /\ (Heard(k)' => Heard(k))
    BY ValueFrame, CallEndsQuietly DEF ConsoleIInv, CallRefused
<1>5. UpToDate'
    BY <1>4, UpToDateFrame DEF ConsoleIInv, CallRefused, queryVars
<1> QED
    BY <1>1, <1>2, <1>3, <1>5 DEF ConsoleIInv

LEMMA CallLostStep ==
    ASSUME ConsoleIInv, NEW s \in Slots, CallLost(s)
    PROVE  ConsoleIInv'
<1> DEFINE K == Concerned(call[s].kind, call[s].of)
<1>1. /\ call' = [call EXCEPT ![s] = NoCall]
      /\ entry' = IF call[s].phase = "done" THEN Overtaken(entry, K) ELSE entry
      /\ UNCHANGED <<status, accounts, page, fetch, dialog, started, others, windowVars>>
    BY DEF CallLost
<1>2. TablesOK' /\ WindowsOK' /\ MutationsOK'
    BY <1>1, TablesFrame, WindowsFrame, CallEnds DEF ConsoleIInv, windowVars
<1>3. QueriesTyped(entry, fetch) /\ page \in Keys /\ Asked
    BY DEF ConsoleIInv, QueryOK
<1>4. /\ DOMAIN entry' = Keys
      /\ \A k \in Keys : entry'[k] \in Entries(k) /\ entry'[k].st = entry[k].st
    <2>1. DOMAIN entry = Keys /\ \A k \in Keys : entry[k] \in Entries(k)
        BY <1>3 DEF QueriesTyped
    <2>2. DOMAIN Overtaken(entry, K) = Keys
        BY DEF Overtaken
    <2> HIDE DEF K
    <2>3. ASSUME NEW k \in Keys
          PROVE  entry'[k] \in Entries(k) /\ entry'[k].st = entry[k].st
        BY <1>1, <2>1, OvertakenShape
    <2> QED
        BY <1>1, <2>1, <2>2, <2>3
<1>5. QueryOK'
    BY <1>1, <1>3, <1>4 DEF QueryOK, QueriesTyped, Asked
<1>6. ASSUME NEW k \in Keys
      PROVE  EntryFits(k)' /\ FetchFits(k)'
    <2>1. EntryFits(k) /\ FetchFits(k) /\ Value(k)' = Value(k)
        BY <1>1, ValueFrame DEF ConsoleIInv, UpToDate
    <2>2. EntryFits(k)'
        <3>1. CASE call[s].phase = "done" /\ k \in K
            <4>1. entry[k] \in Entries(k) /\ entry' = Overtaken(entry, K)
                BY <1>1, <1>3, <3>1 DEF QueriesTyped
            <4>2. entry'[k].st = "valid" => entry'[k].overtaken
                BY <3>1, <4>1, OvertakenShape
            <4> QED
                BY <4>2 DEF EntryFits
        <3>2. CASE ~(call[s].phase = "done" /\ k \in K)
            <4>1. Heard(k)' => Heard(k)
                BY <1>1, <3>2, CallEndsQuietly DEF ConsoleIInv
            <4>2. entry'[k] = entry[k]
                BY <1>1, <3>2, OvertakenShape
            <4> HIDE DEF Heard, Value
            <4> QED
                BY <2>1, <4>1, <4>2 DEF EntryFits
        <3> QED
            BY <3>1, <3>2
    <2>3. FetchFits(k)'
        <3> HIDE DEF Value
        <3> QED
            BY <1>1, <2>1 DEF FetchFits
    <2> QED
        BY <2>2, <2>3
<1> QED
    BY <1>2, <1>5, <1>6 DEF ConsoleIInv, UpToDate

LEMMA OthersChangeStep ==
    ASSUME ConsoleIInv, NEW t \in Tenants, OthersChange(t)
    PROVE  ConsoleIInv'
<1> DEFINE K == Concerned("suspend", t)
<1>1. /\ status' = [status EXCEPT ![t] = IF @ = "active" THEN "suspended" ELSE "active"]
      /\ entry' = Overtaken(entry, K) /\ fetch' = Overtaken(fetch, K)
      /\ UNCHANGED <<accounts, page, dialog, call, started, windowVars>>
    BY DEF OthersChange
<1>2. TablesOK'
    BY <1>1 DEF ConsoleIInv, TablesOK, Statuses
<1>3. WindowsOK'
    BY <1>1, WindowsFrame DEF ConsoleIInv, windowVars
<1>4. others' \in 0 .. MaxOthers
    BY ConsoleConstants DEF ConsoleIInv, MutationsOK, OthersChange
<1>5. MutationsOK'
    BY <1>1, <1>4 DEF ConsoleIInv, MutationsOK, Addressed
<1>6. QueriesTyped(entry, fetch) /\ page \in Keys /\ Asked
    BY DEF ConsoleIInv, QueryOK
<1>7. /\ DOMAIN entry' = Keys /\ DOMAIN fetch' = Keys
      /\ \A k \in Keys : /\ entry'[k] \in Entries(k) /\ entry'[k].st = entry[k].st
                         /\ fetch'[k] \in Fetches(k) /\ fetch'[k].st = fetch[k].st
    <2>1. \A k \in Keys : entry[k] \in Entries(k) /\ fetch[k] \in Fetches(k)
        BY <1>6 DEF QueriesTyped
    <2>2. DOMAIN entry' = Keys /\ DOMAIN fetch' = Keys
        BY <1>1 DEF Overtaken
    <2> HIDE DEF K
    <2>3. ASSUME NEW k \in Keys
          PROVE  /\ entry'[k] \in Entries(k) /\ entry'[k].st = entry[k].st
                 /\ fetch'[k] \in Fetches(k) /\ fetch'[k].st = fetch[k].st
        BY <1>1, <2>1, OvertakenShape
    <2> QED
        BY <2>2, <2>3
<1>8. QueryOK'
    BY <1>1, <1>6, <1>7 DEF QueryOK, QueriesTyped, Asked
<1>9. ASSUME NEW k \in Keys
      PROVE  EntryFits(k)' /\ FetchFits(k)'
    <2>1. EntryFits(k) /\ FetchFits(k)
        BY DEF ConsoleIInv, UpToDate
    <2>2. CASE k \in K
        BY <1>1, <1>6, <2>2, OvertakenShape DEF EntryFits, FetchFits, QueriesTyped
    <2>3. CASE k \notin K
        <3>1. Heard(k)' = Heard(k)
            BY <1>1 DEF Heard, Concerned
        <3>2. Value(k)' = Value(k)
            <4> DEFINE v == IF status[t] = "active" THEN "suspended" ELSE "active"
            <4>1. status' = [status EXCEPT ![t] = v]
                BY <1>1
            <4> HIDE DEF v
            <4> QED
                BY <1>1, <2>3, <4>1, ValueElsewhere DEF Concerned, ConsoleIInv
        <3>3. entry'[k] = entry[k] /\ fetch'[k] = fetch[k]
            BY <1>1, <2>3, OvertakenShape
        <3> HIDE DEF Heard, Value
        <3> QED
            BY <2>1, <3>1, <3>2, <3>3 DEF EntryFits, FetchFits
    <2> QED
        BY <2>2, <2>3
<1> QED
    BY <1>2, <1>3, <1>5, <1>8, <1>9 DEF ConsoleIInv, UpToDate

LEMMA ReloadStep ==
    ASSUME ConsoleIInv, ConsoleReloads
    PROVE  ConsoleIInv'
<1>1. TablesOK'
    BY TablesFrame DEF ConsoleIInv, ConsoleReloads
<1>2. WindowsOK'
    BY DEF ConsoleIInv, ConsoleReloads, WindowsOK, ImpersonatesItsTenant, HandshakeGoesOn
<1>3. MutationsOK'
    BY DEF ConsoleIInv, ConsoleReloads, MutationsOK, Dialogs, NoDialog, CallRows, NoCall,
           Addressed
<1>4. /\ page' = "stats" /\ entry' = [k \in Keys |-> NoEntry]
      /\ fetch' = [k \in Keys |-> IF k = "stats" THEN NewFetch ELSE NoFetch]
    BY DEF ConsoleReloads, JustStarted
<1>5. "stats" \in Keys /\ NewFetch.st = "sent" /\ NoFetch.st = "none" /\ NoEntry.st = "none"
    BY DEF Keys, NewFetch, NoFetch, NoEntry
<1>6. /\ DOMAIN entry' = Keys /\ DOMAIN fetch' = Keys
      /\ \A k \in Keys : entry'[k] = NoEntry /\ fetch'[k] \in {NewFetch, NoFetch}
      /\ fetch'["stats"] = NewFetch
    BY <1>4, <1>5
<1>7. QueryOK'
    BY <1>4, <1>5, <1>6, AnswerShapes DEF QueryOK, QueriesTyped, Asked
<1>8. UpToDate'
    BY <1>5, <1>6 DEF UpToDate, EntryFits, FetchFits
<1> QED
    BY <1>1, <1>2, <1>3, <1>7, <1>8 DEF ConsoleIInv

-----------------------------------------------------------------------------
(* The impersonation tabs.                                                 *)

Tabs == [for : Tenants, phase : {"opened", "waiting", "viewing", "closed"}, ready : BOOLEAN,
         token : Tenants \cup {Nobody}]

LEMMA TabRows ==
    /\ Tabs \subseteq WindowRows
    /\ \A r \in WindowRows : r.phase # "none" => r \in Tabs
    /\ \A r \in WindowRows : r = NoWindow \/ r \in Tabs
BY DEF Tabs, WindowRows, NoWindow

\* A step of the tabs leaves the console alone.
LEMMA WindowsOnly ==
    ASSUME ConsoleIInv, UNCHANGED consoleOnly, WindowsOK'
    PROVE  ConsoleIInv'
<1>1. TablesOK' /\ MutationsOK'
    BY TablesFrame, MutationsFrame DEF ConsoleIInv, consoleOnly
<1>2. QueryOK'
    BY QueryFrame DEF ConsoleIInv, consoleOnly, queryVars
<1>3. \A k \in Keys : Value(k)' = Value(k) /\ (Heard(k)' => Heard(k))
    BY ValueFrame DEF Heard, Concerned, consoleOnly
<1>4. UpToDate'
    BY <1>3, UpToDateFrame DEF ConsoleIInv, consoleOnly, queryVars
<1> QED
    BY <1>1, <1>2, <1>4 DEF ConsoleIInv

\* One tab gets a new row that keeps the two promises.
LEMMA TabChanges ==
    ASSUME WindowsOK, NEW w \in Windows, NEW n \in WindowRows,
           window' = [window EXCEPT ![w] = n], listening' = listening,
           n.phase = "viewing" => n.token = n.for,
           n.phase = "waiting" => n.ready
    PROVE  WindowsOK'
<1>1. window' \in [Windows -> WindowRows] /\ listening' \subseteq Windows
    BY DEF WindowsOK
<1>2. window'[w] = n /\ \A v \in Windows \ {w} : window'[v] = window[v]
    BY DEF WindowsOK
<1>3. ImpersonatesItsTenant' /\ HandshakeGoesOn'
    BY <1>1, <1>2 DEF WindowsOK, ImpersonatesItsTenant, HandshakeGoesOn
<1> QED
    BY <1>1, <1>3 DEF WindowsOK

LEMMA TabStep ==
    ASSUME ConsoleIInv, NEW w \in Windows, WindowLoads(w) \/ TokenExpires(w) \/ WindowCloses(w)
    PROVE  ConsoleIInv'
<1>1. window[w] \in WindowRows /\ window \in [Windows -> WindowRows]
    BY DEF ConsoleIInv, WindowsOK
<1>2. CASE WindowLoads(w)
    <2> DEFINE n == [window[w] EXCEPT !.phase = "waiting", !.ready = TRUE]
    <2>1. window' = [window EXCEPT ![w] = n] /\ window[w].phase \in {"opened", "waiting"}
        BY <1>1, <1>2 DEF WindowLoads
    <2>2. n \in WindowRows /\ n.phase = "waiting" /\ n.ready
        <3>1. window[w] \in Tabs
            BY <1>1, <2>1, TabRows
        <3>2. n \in Tabs /\ n.phase = "waiting" /\ n.ready = TRUE
            BY ONLY <3>1 DEF Tabs
        <3> QED
            BY <3>2, TabRows
    <2> HIDE DEF n
    <2> QED
        BY <1>2, <2>1, <2>2, TabChanges, WindowsOnly DEF ConsoleIInv, WindowLoads
<1>3. CASE TokenExpires(w)
    <2> DEFINE n == [window[w] EXCEPT !.phase = "waiting", !.ready = TRUE, !.token = Nobody]
    <2>1. window' = [window EXCEPT ![w] = n] /\ window[w].phase = "viewing"
        BY <1>1, <1>3 DEF TokenExpires
    <2>2. n \in WindowRows /\ n.phase = "waiting" /\ n.ready
        <3>1. window[w] \in Tabs
            BY <1>1, <2>1, TabRows
        <3>2. n \in Tabs /\ n.phase = "waiting" /\ n.ready = TRUE
            BY ONLY <3>1 DEF Tabs
        <3> QED
            BY <3>2, TabRows
    <2> HIDE DEF n
    <2> QED
        BY <1>3, <2>1, <2>2, TabChanges, WindowsOnly DEF ConsoleIInv, TokenExpires
<1>4. CASE WindowCloses(w)
    <2> DEFINE n == [window[w] EXCEPT !.phase = "closed", !.ready = FALSE, !.token = Nobody]
    <2>1. /\ window' = [window EXCEPT ![w] = n]
          /\ window[w].phase \in {"opened", "waiting", "viewing"}
        BY <1>1, <1>4 DEF WindowCloses
    <2>2. n \in WindowRows /\ n.phase = "closed"
        <3>1. window[w] \in Tabs
            BY <1>1, <2>1, TabRows
        <3>2. n \in Tabs /\ n.phase = "closed" /\ n.ready = FALSE
            BY ONLY <3>1 DEF Tabs
        <3> QED
            BY <3>2, TabRows
    <2> HIDE DEF n
    <2> QED
        BY <1>4, <2>1, <2>2, TabChanges, WindowsOnly DEF ConsoleIInv, WindowCloses
<1> QED
    BY <1>2, <1>3, <1>4

LEMMA NotReadyAlready ==
    ASSUME NEW F, NEW P, NEW T, NEW r \in [for : F, phase : P, ready : BOOLEAN, token : T],
           r.ready = FALSE
    PROVE  [r EXCEPT !.ready = FALSE] = r
OBVIOUS

LEMMA NoWindowNotReady == [NoWindow EXCEPT !.ready = FALSE] = NoWindow
<1>1. NoWindow \in [for : {Nobody}, phase : {"none"}, ready : BOOLEAN, token : {Nobody}]
    BY DEF NoWindow
<1>2. NoWindow.ready = FALSE
    BY DEF NoWindow
<1> QED
    BY ONLY <1>1, <1>2, NotReadyAlready

\* Every listener answers at once, each to its own tab, and is gone.
LEMMA ConsoleHearsStep ==
    ASSUME ConsoleIInv, NEW w \in Windows, ConsoleHears(w)
    PROVE  ConsoleIInv'
<1>1. window' = Served(w) /\ listening' = {} /\ UNCHANGED consoleOnly
    BY DEF ConsoleHears
<1>2. ASSUME NEW v \in Windows
      PROVE  /\ window'[v] \in WindowRows
             /\ window'[v].phase = "viewing" => window'[v].token = window'[v].for
    <2> DEFINE b == window[v].ready /\ v # w
               n == [window[v] EXCEPT !.ready = b]
               m == [n EXCEPT !.phase = "viewing", !.token = n.for, !.ready = FALSE]
    <2>1. window'[v] = IF v \in listening /\ n.phase = "waiting" THEN m ELSE n
        BY <1>1 DEF Served
    <2>2. /\ window[v] \in WindowRows
          /\ window[v].phase = "viewing" => window[v].token = window[v].for
        BY DEF ConsoleIInv, WindowsOK, ImpersonatesItsTenant
    <2>3. CASE window[v] = NoWindow
        <3>1. b = FALSE
            BY <2>3 DEF NoWindow
        <3>2. n = NoWindow
            BY <2>3, <3>1, NoWindowNotReady
        <3> QED
            BY <2>1, <3>2 DEF NoWindow, WindowRows
    <2>4. CASE window[v] \in Tabs
        <3>1. b \in BOOLEAN
            BY <2>4 DEF Tabs
        <3> HIDE DEF b
        <3>2. /\ n \in Tabs /\ n.phase = window[v].phase /\ n.token = window[v].token
              /\ n.for = window[v].for
            BY <2>4, <3>1 DEF Tabs
        <3> HIDE DEF n
        <3>3. m \in Tabs /\ m.token = n.for /\ m.for = n.for
            BY <3>2 DEF Tabs
        <3> HIDE DEF m
        <3> QED
            BY <2>1, <2>2, <3>2, <3>3, TabRows
    <2> QED
        BY <2>2, <2>3, <2>4, TabRows
<1>3. WindowsOK'
    <2>1. window' \in [Windows -> WindowRows]
        BY <1>1, <1>2 DEF Served
    <2> QED
        BY <1>1, <1>2, <2>1 DEF WindowsOK, ImpersonatesItsTenant, HandshakeGoesOn
<1> QED
    BY <1>1, <1>3, WindowsOnly

-----------------------------------------------------------------------------
\* The client has just been made.
LEMMA JustStartedOK ==
    ASSUME page = "stats", entry = [k \in Keys |-> NoEntry], fetch = JustStarted
    PROVE  QueryOK /\ UpToDate
<1>1. "stats" \in Keys /\ NewFetch.st = "sent" /\ NoFetch.st = "none" /\ NoEntry.st = "none"
    BY DEF Keys, NewFetch, NoFetch, NoEntry
<1>2. /\ DOMAIN entry = Keys /\ DOMAIN fetch = Keys
      /\ \A k \in Keys : entry[k] = NoEntry /\ fetch[k] \in {NewFetch, NoFetch}
      /\ fetch["stats"] = NewFetch
    BY <1>1 DEF JustStarted
<1>3. QueryOK
    BY <1>1, <1>2, AnswerShapes DEF QueryOK, QueriesTyped, Asked
<1>4. UpToDate
    BY <1>1, <1>2 DEF UpToDate, EntryFits, FetchFits
<1> QED
    BY <1>3, <1>4

LEMMA ConsoleInit == Init => ConsoleIInv
<1> SUFFICES ASSUME Init
             PROVE  ConsoleIInv
    OBVIOUS
<1>1. TablesOK
    BY DEF Init, TablesOK, Statuses
<1>2. QueryOK /\ UpToDate
    BY JustStartedOK DEF Init
<1>3. MutationsOK
    BY ConsoleConstants
    DEF Init, MutationsOK, Dialogs, NoDialog, CallRows, NoCall, Addressed
<1>4. WindowsOK
    BY DEF Init, WindowsOK, WindowRows, NoWindow, ImpersonatesItsTenant, HandshakeGoesOn
<1> QED
    BY <1>1, <1>2, <1>3, <1>4 DEF ConsoleIInv

LEMMA ConsoleStep == ConsoleIInv /\ [Next]_consoleVars => ConsoleIInv'
<1> SUFFICES ASSUME ConsoleIInv, [Next]_consoleVars
             PROVE  ConsoleIInv'
    OBVIOUS
<1>1. CASE UNCHANGED consoleVars
    <2>1. MutationsOK'
        BY <1>1, MutationsFrame DEF ConsoleIInv, consoleVars
    <2> QED
        BY <1>1, <2>1, DialogStep DEF consoleVars
<1>2. CASE Next
    BY <1>2, GotoStep, RefocusStep, ServeFetchStep, FetchEndsStep, ForgetStep, CancelStep,
       ReloadStep, OpenDialogStep, OpenAccountStep, ButtonsStep, ServeCallStep, ArrivesStep,
       CallRefusedStep, CallLostStep, OpenWindowStep, OthersChangeStep, TabStep,
       ConsoleHearsStep
    DEF Next
<1> QED
    BY <1>1, <1>2

\* The inductive invariant holds throughout.
THEOREM ConsoleInvariant == Spec => []ConsoleIInv
<1>1. Init => ConsoleIInv
    BY ConsoleInit
<1>2. ConsoleIInv /\ [Next]_consoleVars => ConsoleIInv'
    BY ConsoleStep
<1> QED
    BY <1>1, <1>2, PTL DEF Spec

\* However the "ready" messages and the answers of createImpersonation are
\* interleaved, a tab acts for the tenant it was opened for, and a tab the console
\* still listens for has its "ready" on the way.
THEOREM TabsGetTheirOwnToken == Spec => []ConsoleInv
<1>1. ConsoleIInv => ConsoleInv
    BY DEF ConsoleIInv, ConsoleInv, TypeOK, TablesOK, QueryOK, QueriesTyped, MutationsOK,
           WindowsOK
<1> QED
    BY <1>1, ConsoleInvariant, PTL

\* However mutations, fetches, page changes and changes by others overlap, an answer
\* the console shows without asking again is what the backend has, unless it has been
\* overtaken since it was read: that is all the invalidateQueries of useSuperAdmin buys.
THEOREM PagesAreUpToDate == Spec => []PageIsUpToDate
<1>1. ConsoleIInv => PageIsUpToDate
    BY DEF ConsoleIInv, UpToDate, EntryFits, QueryOK, Asked, PageIsUpToDate
<1> QED
    BY <1>1, ConsoleInvariant, PTL

=============================================================================
