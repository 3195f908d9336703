---------------------------- MODULE AdminConsole ----------------------------
(***************************************************************************)
(* The pages of the console that work on the in-memory store               *)
(* (adminStore.ts, through adminService.ts and useAdminData.ts): lists     *)
(* with a filter in the address, detail pages with a dialog that asks for  *)
(* a reason (ConfirmDialog.tsx, SimulatedActionDialog.tsx), the drawer of  *)
(* the incidents.  A behaviour follows the rows of one kind.  Row ids are  *)
(* cut from the clock and may coincide; what a page shows was selected by  *)
(* the address it was opened with, and stays so when only the address      *)
(* changes.                                                                *)
(***************************************************************************)
EXTENDS Naturals, Sequences, SequencesExt

CONSTANTS
    MaxRows,   \* bounds how many rows are created
    Ids,       \* what Date.now().toString().slice(-4) can be
    None

Kinds == {"organizations", "users", "devices", "incidents", "alerts", "admins", "plans",
          "maintenance", "flags", "releases", "invitations", "sessions"}

\* ACTIVE, ONLINE, OPEN, PENDING, on; SUSPENDED, OFFLINE, INACTIVE, ACKNOWLEDGED, off;
\* ARCHIVED, RESOLVED, REVOKED.
Statuses == {"active", "suspended", "archived"}

Bounds == MaxRows \in Nat \ {0} /\ None \notin Ids \cup Statuses

VARIABLES
    kind,
    order,    \* the array of the store: rows, by their number
    id,       \* of each row, None until it is made
    status,
    mark,     \* the other thing that changes: assignee, second factor
    page,     \* "closed", "list" or "detail"
    route,    \* filter or id in the address
    asked,    \* ... as it was when the page was mounted
    shown,    \* what the page shows: copies of rows
    dialog,   \* the row for which a confirmation is asked
    drawer,   \* selectedIncident: a copy
    logged    \* the audit entry of the last event: the row, and the row the operator chose

store == <<order, id, status, mark>>
place == <<page, route, asked>>
vars == <<kind, store, place, shown, dialog, drawer, logged>>

Rows == 1..MaxRows
Copy(u) == [row |-> u, status |-> status[u], mark |-> mark[u]]

\* findIndex: the first row with the id, or 0.
At(i) == SelectInSeq(order, LAMBDA u : id[u] = i)
First(i) == order[At(i)]

\* The selectors of the lists, copies by their place in the array, and of the
\* detail pages.
Filtered(a) == [k \in {n \in DOMAIN order : a \in {None, status[order[n]]}} |-> Copy(order[k])]
Found(i) == IF At(i) = 0 THEN <<>> ELSE <<Copy(First(i))>>
Selected(p, a) == CASE p = "list" -> Filtered(a) [] p = "detail" -> Found(a) [] OTHER -> <<>>

Listed == ToSet(shown)

-----------------------------------------------------------------------------
(* adminStore.ts: change, log, notify *)

\* setData(selector()) of the page that is mounted.
Notify == shown' = Selected(page, asked)'

\* chosen: the row the operator chose, for the history only.
logAction(u, chosen) == logged' = [row |-> u, chosen |-> chosen]

\* Mutant: a change nobody is told of.
SetRowSilently(i, s, m, chosen) ==
    /\ At(i) # 0 /\ status' = [status EXCEPT ![First(i)] = s] /\ mark' = [mark EXCEPT ![First(i)] = m]
    /\ logAction(First(i), chosen) /\ UNCHANGED <<order, id, shown>>

SetRow(i, s, m, chosen) ==
    /\ At(i) # 0
    /\ status' = [status EXCEPT ![First(i)] = s]
    /\ mark' = [mark EXCEPT ![First(i)] = m]
    /\ logAction(First(i), chosen)
    /\ UNCHANGED <<order, id>>
    /\ Notify

SetStatus(i, s, chosen) == SetRow(i, s, mark[First(i)], chosen)
Toggle(i, chosen) == SetStatus(i, IF status[First(i)] = "active" THEN "suspended" ELSE "active", chosen)

setOrganizationStatus(i, s, chosen) == SetStatus(i, s, chosen)
setUserStatus(i, s, chosen) == SetStatus(i, s, chosen)
setAdminStatus(i, s, chosen) == SetStatus(i, s, chosen)
resetAdminMfa(i, chosen) == SetRow(i, status[First(i)], TRUE, chosen)
simulateDeviceCommand(i, command, chosen) ==
    SetStatus(i, IF command = "ISOLATE" THEN "suspended" ELSE status[First(i)], chosen)
updatePlan(i, chosen) == Toggle(i, chosen)
updateIncidentStatus(i, chosen) == SetStatus(i, "archived", chosen)
assignIncident(i, chosen) == SetRow(i, status[First(i)], TRUE, chosen)
setAlertStatus(i, s, assign, chosen) == SetRow(i, s, assign \/ mark[First(i)], chosen)
revokeInvitation(i, chosen) == SetStatus(i, "archived", chosen)
revokeSession(i, chosen) == SetStatus(i, "archived", chosen)
toggleAgentMinSupported(i, chosen) == Toggle(i, chosen)
toggleFeatureFlag(i, chosen) == Toggle(i, chosen)

Create(i, where) ==
    \E u \in Rows :
        /\ id[u] = None /\ \A v \in 1..(u - 1) : id[v] # None
        /\ id' = [id EXCEPT ![u] = i]
        /\ order' = IF where = "front" THEN <<u>> \o order ELSE Append(order, u)
        /\ logAction(u, u)
        /\ UNCHANGED <<status, mark>>
        /\ Notify

createOrganization(i) == Create(i, "front")
createUser(i) == Create(i, "front")
createIncident(i) == Create(i, "front")
createMaintenanceWindow(i) == Create(i, "front")
createPlan(i) == Create(i, "end")
createAdmin(i) == Create(i, "end")

-----------------------------------------------------------------------------
(* Going from page to page *)

ListFilters == IF kind \in {"organizations", "users", "devices"} THEN {None, "suspended"} ELSE {None}
HasDetails == kind \in {"organizations", "users", "devices", "admins", "plans"}

\* Another page is mounted; dialogs and drawers go with the one that was there.
Go(p, a) ==
    /\ page' = p /\ route' = a /\ asked' = a
    /\ dialog' = None /\ drawer' = None
    /\ UNCHANGED kind

\* useAdminData: the selector of the first render is the one that stays.
Mount(p, a) ==
    /\ Go(p, a)
    /\ shown' = Selected(p, a) /\ logged' = None
    /\ UNCHANGED store

OpenList(a) == page # "list" /\ a \in ListFilters /\ Mount("list", a)
OpenDetail(i) == HasDetails /\ page # "detail" /\ Mount("detail", i)
Leave == page # "closed" /\ Mount("closed", None)

\* The same page at another address, from the command palette or the back
\* button: nothing is mounted.
Readdress(a) ==
    /\ a # route
    /\ \/ page = "list" /\ a \in ListFilters
       \/ page = "detail" /\ a \in Ids
    /\ route' = a /\ logged' = None
    /\ UNCHANGED <<kind, store, page, asked, shown, dialog, drawer>>

Stay == UNCHANGED <<kind, place, dialog>>
Quiet == logged' = None /\ UNCHANGED <<kind, store, place, shown>>

-----------------------------------------------------------------------------
(* Buttons of a row, of which the click also reaches the row and opens its *)
(* page: a dialog they open goes with the list, what they do at once stays *)

On(k, c) == kind = k /\ page = "list" /\ dialog = None /\ drawer = None /\ c \in Listed
ToItsPage(c) == Go("detail", id[c.row])
OnlyThat == logged' = None /\ UNCHANGED store /\ Notify

\* Change Plan, Suspend, Archive; Reactivate.
OrganizationRow(c) ==
    /\ On("organizations", c) /\ ToItsPage(c)
    /\ OnlyThat \/ (c.status # "active" /\ setOrganizationStatus(id[c.row], "active", c.row))

UserRow(c) ==
    /\ On("users", c) /\ ToItsPage(c)
    /\ OnlyThat \/ (c.status # "active" /\ setUserStatus(id[c.row], "active", c.row))

\* Suspend, Remove; Reactivate; Reset MFA.
AdminRow(c) ==
    /\ On("admins", c) /\ ToItsPage(c)
    /\ \/ OnlyThat
       \/ c.status # "active" /\ setAdminStatus(id[c.row], "active", c.row)
       \/ resetAdminMfa(id[c.row], c.row)

-----------------------------------------------------------------------------
(* Dialogs that ask for a reason *)

Ask(c) ==
    /\ dialog = None /\ c \in Listed
    /\ dialog' = c.row
    /\ UNCHANGED drawer /\ Quiet

OrganizationHeader(c) == kind = "organizations" /\ page = "detail" /\ c.status = "active" /\ Ask(c)
UserHeader(c) == kind = "users" /\ page = "detail" /\ c.status = "active" /\ Ask(c)

\* In the list these buttons keep the click from the row.
DeviceRow(c) == kind = "devices" /\ page = "list" /\ Ask(c)
DeviceHeader(c) == kind = "devices" /\ page = "detail" /\ Ask(c)

Cancel ==
    /\ dialog # None /\ dialog' = None
    /\ UNCHANGED drawer /\ Quiet

\* handleSubmit, once a reason is there.
Confirm(k) ==
    /\ kind = k /\ dialog # None
    /\ dialog' = None
    /\ UNCHANGED <<kind, place, drawer>>

\* Mutant: a detail page acts on the id in the address.
TargetOfAddress == IF page = "detail" THEN route ELSE id[dialog]

\* selectedDevice.id in the list, org.id, user.id, device.id on a detail page.
Target == id[dialog]

handleSuspendOrganization ==
    Confirm("organizations") /\ setOrganizationStatus(Target, "suspended", dialog)
handleSuspendUser ==
    Confirm("users") /\ setUserStatus(Target, "suspended", dialog)
handleExecuteSimAction(command) ==
    Confirm("devices") /\ simulateDeviceCommand(Target, command, dialog)

\* "Reactivate" of the detail pages.
handleReactivateOrganization(c) ==
    /\ kind = "organizations" /\ page = "detail" /\ dialog = None /\ c \in Listed /\ c.status # "active"
    /\ Stay /\ UNCHANGED drawer
    /\ setOrganizationStatus(id[c.row], "active", c.row)
handleReactivateUser(c) ==
    /\ kind = "users" /\ page = "detail" /\ dialog = None /\ c \in Listed /\ c.status # "active"
    /\ Stay /\ UNCHANGED drawer
    /\ setUserStatus(id[c.row], "active", c.row)

-----------------------------------------------------------------------------
(* Pages whose buttons act at once *)

Button(k, c) == On(k, c) /\ Stay /\ UNCHANGED drawer

PlanRow(c) == Button("plans", c) /\ updatePlan(id[c.row], c.row)

\* "Assign" is there until the alert is assigned: also on a resolved one, which it
\* makes "acknowledged" again.
AlertRow(c) ==
    /\ Button("alerts", c)
    /\ \/ c.status = "active" /\ setAlertStatus(id[c.row], "suspended", FALSE, c.row)
       \/ ~c.mark /\ setAlertStatus(id[c.row], "suspended", TRUE, c.row)
       \/ c.status # "archived" /\ setAlertStatus(id[c.row], "archived", FALSE, c.row)

InvitationRow(c) == Button("invitations", c) /\ c.status = "active" /\ revokeInvitation(id[c.row], c.row)
SessionRow(c) == Button("sessions", c) /\ c.status = "active" /\ revokeSession(id[c.row], c.row)
FlagRow(c) == Button("flags", c) /\ toggleFeatureFlag(id[c.row], c.row)
ReleaseRow(c) == Button("releases", c) /\ toggleAgentMinSupported(id[c.row], c.row)

\* Modals with a form; each covers its page until it is sent or cancelled.
Form(k) == kind = k /\ page = "list" /\ dialog = None /\ drawer = None /\ Stay /\ UNCHANGED drawer
handleCreateUser(i) == Form("users") /\ createUser(i)
handleCreateAdmin(i) == Form("admins") /\ createAdmin(i)
handleCreatePlan(i) == Form("plans") /\ createPlan(i)
handleCreateIncident(i) == Form("incidents") /\ createIncident(i)
MaintenancePage(i) == Form("maintenance") /\ createMaintenanceWindow(i)

\* The wizard (Onboarding.tla) is a page of its own.
Onboard(i) ==
    /\ kind = "organizations" /\ page = "closed"
    /\ Stay /\ UNCHANGED drawer
    /\ createOrganization(i)

-----------------------------------------------------------------------------
(* The incident drawer: a copy that its own buttons change by hand *)

Inspect(c) ==
    /\ On("incidents", c) /\ drawer' = c
    /\ UNCHANGED dialog /\ Quiet
CloseDrawer ==
    /\ drawer # None /\ drawer' = None
    /\ UNCHANGED dialog /\ Quiet

\* Mutant: the copy is left as it was.
DrawerAsItWas(c, field, value) == drawer

\* setSelectedIncident((prev) => ...) if the drawer has the same id.
DrawerAfter(c, field, value) ==
    IF drawer # None /\ id[drawer.row] = id[c.row] THEN [drawer EXCEPT ![field] = value] ELSE drawer

\* From the drawer, or from the row while no drawer covers it.
OnIncident(c) == kind = "incidents" /\ page = "list" /\ c \in (IF drawer = None THEN Listed ELSE {drawer}) /\ Stay

handleResolve(c) ==
    /\ OnIncident(c) /\ c.status # "archived"
    /\ updateIncidentStatus(id[c.row], c.row)
    /\ drawer' = DrawerAfter(c, "status", "archived")

handleAssign(c) ==
    /\ OnIncident(c) /\ drawer # None
    /\ assignIncident(id[c.row], c.row)
    /\ drawer' = DrawerAfter(c, "mark", TRUE)

-----------------------------------------------------------------------------
Init ==
    /\ kind \in Kinds /\ order = <<1>>
    /\ id \in {[u \in Rows |-> IF u = 1 THEN i ELSE None] : i \in Ids}
    /\ status \in {[u \in Rows |-> IF u = 1 THEN s ELSE "active"] : s \in {"active", "suspended"}}
    /\ mark = [u \in Rows |-> FALSE]
    /\ page = "closed" /\ route = None /\ asked = None /\ shown = <<>>
    /\ dialog = None /\ drawer = None /\ logged = None

Copies == Listed \cup (IF drawer = None THEN {} ELSE {drawer})

Next ==
    \/ Leave \/ Cancel \/ CloseDrawer
    \/ handleSuspendOrganization \/ handleSuspendUser
    \/ \E command \in {"LOCK", "ISOLATE"} : handleExecuteSimAction(command)   \* SYNC as LOCK
    \/ \E a \in ListFilters : OpenList(a)
    \/ \E a \in ListFilters \cup Ids : Readdress(a)
    \/ \E i \in Ids :
         \/ OpenDetail(i) \/ handleCreateUser(i) \/ handleCreateAdmin(i) \/ handleCreatePlan(i)
         \/ handleCreateIncident(i) \/ MaintenancePage(i) \/ Onboard(i)
    \/ \E c \in Copies :
         \/ OrganizationRow(c) \/ UserRow(c) \/ AdminRow(c) \/ OrganizationHeader(c) \/ UserHeader(c)
         \/ DeviceRow(c) \/ DeviceHeader(c) \/ handleReactivateOrganization(c) \/ handleReactivateUser(c)
         \/ PlanRow(c) \/ AlertRow(c) \/ InvitationRow(c) \/ SessionRow(c) \/ FlagRow(c) \/ ReleaseRow(c)
         \/ Inspect(c) \/ handleResolve(c) \/ handleAssign(c)

Spec == Init /\ [][Next]_vars

-----------------------------------------------------------------------------
CopyOf == [row : Rows, status : Statuses, mark : BOOLEAN]

TypeOK ==
    /\ kind \in Kinds /\ ToSet(order) \subseteq Rows /\ Len(order) <= MaxRows
    /\ id \in [Rows -> Ids \cup {None}] /\ status \in [Rows -> Statuses] /\ mark \in [Rows -> BOOLEAN]
    /\ page \in {"closed", "list", "detail"} /\ {route, asked} \subseteq Ids \cup Statuses \cup {None}
    /\ Listed \subseteq CopyOf /\ drawer \in CopyOf \cup {None} /\ dialog \in Rows \cup {None}
    /\ logged \in [row : Rows, chosen : Rows] \cup {None}

\* Two rows got the same id: every operation then finds the first of them.
Ambiguous == \E u, v \in Rows : u # v /\ id[u] = id[v] /\ id[u] # None

\* As long as the address is the one the page was opened with, the page shows
\* what the store has for it.
ListIsStore == route = asked => shown = Selected(page, route)

\* The row that changes is the one the operator chose, also on a page whose
\* address has changed under it, unless ids coincide.
ActsOnTheRowChosen == logged # None => logged.row = logged.chosen \/ Ambiguous

\* The drawer agrees with the store though nothing tells it of a change.
DrawerIsCurrent == drawer # None => drawer = Copy(drawer.row) \/ Ambiguous
=============================================================================
