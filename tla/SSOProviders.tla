---------------------------- MODULE SSOProviders ----------------------------
(***************************************************************************)
(* The settings screen for sign-in providers (SSOProvidersSettings.tsx) on *)
(* the API that keeps them (sso_admin_handlers.go).  The screen acts on a  *)
(* list it loaded some time ago and reloads it after each of its writes;   *)
(* a connection test and an enabling each read the row, then update it.    *)
(* Another operator may put in a new client secret at any moment.  The     *)
(* screen is left and opened again while its calls are under way: what     *)
(* they write is written, what they set is set on a screen that is gone.   *)
(***************************************************************************)
EXTENDS Naturals

CONSTANTS
    Providers,   \* the rows that are followed
    Other,       \* stands for every other row: it takes part in busyID only
    MaxCalls,    \* bounds how many calls of the screen overlap
    None

VARIABLES
    table,     \* identity_provider_configs: a row, or None
    vouched,   \* history: rows whose secret a probe found good, or whose secret was
               \* replaced between the two steps of a test or of an enabling
    shown,     \* the list on screen
    busy,      \* busyID
    form,      \* the "Add provider" form
    call,      \* requests of the screen
    outdated   \* history: the screen was not told of something, see Untold, ListAwaited

vars == <<table, vouched, shown, busy, form, call, outdated>>
server == <<table, vouched>>

Slots == 1..MaxCalls
Row == [there : BOOLEAN, enabled : BOOLEAN, tested : BOOLEAN]
NewRow == [there |-> TRUE, enabled |-> FALSE, tested |-> FALSE]
Removed == [there |-> FALSE, enabled |-> FALSE, tested |-> FALSE]
RowOps == {"test", "enable", "disable", "remove"}
Ops == RowOps \cup {"load", "create"}

Bounds ==
    /\ MaxCalls \in Nat \ {0} /\ {None, Other} \cap Providers = {}
    /\ None \notin Row /\ None \notin Ops

\* mine: the screen that waits for the answer is still the one that is open.
Free == [op |-> None, row |-> None, step |-> "free", got |-> None, mine |-> FALSE]

InFlight(c) == call[c].op # None
Quiet == \A c \in Slots : ~InFlight(c)
Arrived(c, ops) == call[c].op \in ops /\ call[c].step \in {"ok", "refused"}
Exists(rows, p) == rows[p] # None /\ rows[p].there

Request(op, p) == [op |-> op, row |-> p, step |-> "sent", got |-> None, mine |-> TRUE]

\* The load() that ends the action of a row: then busyID is cleared.
Tail(c) == call[c].op = "load" /\ call[c].row # None

NextSlot(c) == call[c] = Free /\ \A d \in 1..(c - 1) : InFlight(d)
Send(c, op, p) == NextSlot(c) /\ call' = [call EXCEPT ![c] = Request(op, p)]

\* The list that comes holds what is written before it is read.
ListAwaited ==
    \E d \in Slots : call[d].mine /\ call[d].op = "load" /\ call[d].step = "sent"

-----------------------------------------------------------------------------
(* The screen *)

Orphaned == [d \in Slots |-> [call[d] EXCEPT !.mine = FALSE]]

\* Opened, or left and opened again, whatever is in flight.
Open(c) ==
    /\ shown' = None /\ busy' = None /\ form' = "closed"
    /\ outdated' = FALSE
    /\ NextSlot(c) /\ call' = [Orphaned EXCEPT ![c] = Request("load", None)]
    /\ UNCHANGED server

RowAction(c, op, p) ==
    /\ shown # None /\ Exists(shown, p) /\ busy # p
    /\ busy' = p
    /\ Send(c, op, p)
    /\ UNCHANGED <<server, shown, form, outdated>>

runTest(c, p) == RowAction(c, "test", p)
remove(c, p) == RowAction(c, "remove", p)

\* What the switch asks for depends on the row as it is shown.
toggle(c, p) ==
    /\ shown # None /\ Exists(shown, p) /\ (shown[p].enabled \/ shown[p].tested)
    /\ RowAction(c, IF shown[p].enabled THEN "disable" ELSE "enable", p)

\* Buttons of another row: busyID is one for all of them.
OtherRow ==
    /\ shown # None /\ busy' \in {Other, None} \ {busy}
    /\ UNCHANGED <<server, shown, form, call, outdated>>

AddProvider ==
    /\ shown # None /\ form = "closed" /\ form' = "open"
    /\ UNCHANGED <<server, shown, busy, call, outdated>>

submit(c, p) ==
    /\ form = "open" /\ form' = "saving"
    /\ Send(c, "create", p)
    /\ UNCHANGED <<server, shown, busy, outdated>>

\* Cancel stays enabled while the form is saving.
Cancel ==
    /\ form # "closed" /\ form' = "closed"
    /\ UNCHANGED <<server, shown, busy, call, outdated>>

\* Mutant: the list is left as it was.
NoReload(c) == Free

\* await load() after a write that went through, for a screen that is gone too.
Reload(c) ==
    [Request("load", IF call[c].op \in RowOps THEN call[c].row ELSE None) EXCEPT !.mine = call[c].mine]

SettleRow(c) ==
    /\ Arrived(c, RowOps)
    /\ IF call[c].step = "ok"
       THEN call' = [call EXCEPT ![c] = Reload(c)] /\ UNCHANGED busy
       ELSE call' = [call EXCEPT ![c] = Free] /\ busy' = IF call[c].mine THEN None ELSE busy
    /\ UNCHANGED <<server, shown, form, outdated>>

\* The form after the answer.
FormAfter(c) ==
    IF ~call[c].mine THEN form
    ELSE IF call[c].step = "ok" THEN "closed"
    ELSE IF form = "saving" THEN "open" ELSE form

SettleCreate(c) ==
    /\ Arrived(c, {"create"})
    /\ call' = [call EXCEPT ![c] = IF call[c].step = "ok" THEN Reload(c) ELSE Free]
    /\ form' = FormAfter(c)
    /\ UNCHANGED <<server, shown, busy, outdated>>

\* Mutant: busyID is cleared only when the list came.
BusyAfterList(c) == IF call[c].mine /\ Tail(c) /\ call[c].step = "ok" THEN None ELSE busy

\* finally { setBusyID(null) }: whichever row it names by now.
BusyAfter(c) == IF call[c].mine /\ Tail(c) THEN None ELSE busy

\* The answer shown is no longer, or not surely, the last one.
Untold(c) ==
    /\ call[c].mine
    /\ call[c].step = "refused" \/ \E d \in Slots \ {c} : call[d].mine /\ call[d].op = "load"

SettleLoad(c) ==
    /\ Arrived(c, {"load"})
    /\ shown' = IF ~call[c].mine THEN shown
                ELSE IF call[c].step = "ok" THEN call[c].got
                ELSE IF shown = None THEN [p \in Providers |-> None] ELSE shown
    /\ busy' = BusyAfter(c)
    /\ outdated' = (outdated \/ Untold(c))
    /\ call' = [call EXCEPT ![c] = Free]
    /\ UNCHANGED <<server, form>>

\* The answer does not arrive, or is an error; what was done stays done.
Lose(c) ==
    /\ InFlight(c) /\ call[c].step # "refused"
    /\ call' = [call EXCEPT ![c].step = "refused", ![c].got = None]
    /\ outdated' = (outdated \/ call[c].mine)
    /\ UNCHANGED <<server, shown, busy, form>>

-----------------------------------------------------------------------------
(* The API *)

\* What a screen that is gone has asked for, the one that is open is not told of.
Serve(c, step, got) ==
    /\ call' = [call EXCEPT ![c].step = step, ![c].got = got]
    /\ outdated' = (outdated \/ (~call[c].mine /\ table' # table /\ ~ListAwaited))
    /\ UNCHANGED <<shown, busy, form>>

Received(c, ops) == call[c].op \in ops /\ call[c].step = "sent"

List(c) == Received(c, {"load"}) /\ UNCHANGED server /\ Serve(c, "ok", table)

\* A row id is used once; a second provider for the same page is a 409.
Create(c) ==
    /\ Received(c, {"create"})
    /\ UNCHANGED vouched
    /\ \/ table[call[c].row] = None /\ table' = [table EXCEPT ![call[c].row] = NewRow] /\ Serve(c, "ok", None)
       \/ UNCHANGED table /\ Serve(c, "refused", None)

Delete(c) ==
    /\ Received(c, {"remove"})
    /\ table' = [table EXCEPT ![call[c].row] = Removed]
    /\ Serve(c, IF Exists(table, call[c].row) THEN "ok" ELSE "refused", None)
    /\ UNCHANGED vouched

\* getProviderByID, and the 409 of an enabling that was not tested.
ReadRow(c) ==
    /\ Received(c, {"test", "enable", "disable"})
    /\ UNCHANGED server
    /\ LET p == call[c].row
           found == Exists(table, p) /\ (call[c].op = "enable" => table[p].tested)
       IN Serve(c, IF found THEN "read" ELSE "refused", None)

\* UPDATE ... WHERE id = ...: nothing, if the row has gone.
Write(p, row) == table' = IF Exists(table, p) THEN [table EXCEPT ![p] = row] ELSE table

\* The probe's verdict is stored with whatever the row holds by now.
RecordTest(c) ==
    /\ call[c].op = "test" /\ call[c].step = "read"
    /\ \E good \in BOOLEAN :
         /\ Write(call[c].row, [table[call[c].row] EXCEPT !.tested = good])
         /\ vouched' = IF good THEN vouched \cup {call[c].row} ELSE vouched
    /\ Serve(c, "ok", None)

SetEnabled(c) ==
    /\ call[c].op \in {"enable", "disable"} /\ call[c].step = "read"
    /\ Write(call[c].row, [table[call[c].row] EXCEPT !.enabled = (call[c].op = "enable")])
    /\ Serve(c, "ok", None)
    /\ UNCHANGED vouched

\* Mutant: the previous verdict is kept.
SecretReplacedOnly(row) == [row EXCEPT !.enabled = FALSE]

\* A new secret invalidates the previous test result.
SecretReplaced(row) == [row EXCEPT !.enabled = FALSE, !.tested = FALSE]

\* Another operator, through the API.
Update(p) ==
    /\ Exists(table, p)
    /\ Write(p, SecretReplaced(table[p]))
    /\ vouched' = IF \E c \in Slots : call[c].row = p /\ call[c].step = "read"
                  THEN vouched \cup {p} ELSE vouched \ {p}
    /\ outdated' = (outdated \/ ~ListAwaited)
    /\ UNCHANGED <<shown, busy, form, call>>

-----------------------------------------------------------------------------
Init ==
    /\ table = [p \in Providers |-> None] /\ vouched = {}
    /\ shown = None /\ busy = None /\ form = "closed" /\ outdated = FALSE
    /\ call = [c \in Slots |-> Free]

Answer(c) == List(c) \/ Create(c) \/ Delete(c) \/ ReadRow(c) \/ RecordTest(c) \/ SetEnabled(c)
Settle(c) == SettleRow(c) \/ SettleCreate(c) \/ SettleLoad(c)

Next ==
    \/ \E c \in Slots : Answer(c) \/ Settle(c) \/ Lose(c) \/ Open(c)
    \/ \E c \in Slots, p \in Providers : runTest(c, p) \/ toggle(c, p) \/ remove(c, p) \/ submit(c, p)
    \/ OtherRow \/ AddProvider \/ Cancel
    \/ \E p \in Providers : Update(p)

Spec == Init /\ [][Next]_vars

-----------------------------------------------------------------------------
TypeOK ==
    /\ table \in [Providers -> Row \cup {None}]
    /\ vouched \subseteq Providers /\ outdated \in BOOLEAN
    /\ shown \in [Providers -> Row \cup {None}] \cup {None}
    /\ busy \in Providers \cup {Other, None} /\ form \in {"closed", "open", "saving"}
    /\ \A c \in Slots :
         /\ call[c].op \in Ops \cup {None} /\ call[c].row \in Providers \cup {None}
         /\ call[c].step \in {"free", "sent", "read", "ok", "refused"} /\ call[c].mine \in BOOLEAN

\* A provider on a sign-in page works with a secret that a connection test has
\* found good, unless a secret was replaced in the middle of a test or of an
\* enabling (Test and SetEnabled read and write in two steps).
EnabledWasTested ==
    \A p \in Providers :
        (Exists(table, p) /\ table[p].enabled) => p \in vouched

\* Once nothing is in flight the list is the table, if every answer of this visit
\* came and in order, and nobody, an earlier visit included, wrote after the
\* last list was read.
ListIsCurrent == (Quiet /\ ~outdated /\ shown # None) => shown = table

\* A row whose buttons are disabled waits for a call of its own, after whose
\* answer or failure they come back.
BusyRowsAwait ==
    busy \in Providers
       => \E c \in Slots : call[c].mine /\ call[c].row = busy /\ call[c].op # "create"
=============================================================================
