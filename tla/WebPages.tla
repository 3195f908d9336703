------------------------------- MODULE WebPages -------------------------------
(***************************************************************************)
(* The remaining screens: the security page of an account, the settings of *)
(* sign-in providers, the own look of the dashboard, the pages over the    *)
(* in-memory store, and the wizard.  They share no state, so a behaviour   *)
(* follows one of them, its site; the variables of the others are None.    *)
(* A variable of the same name serves every component that has one.        *)
(***************************************************************************)
EXTENDS Naturals

CONSTANTS
    Methods, MaxSets,
    Providers, Other,
    Users, Styles, Choices, Default, MaxActs,
    MaxRows, Ids,
    MaxMade,
    MaxCalls,
    None

VARIABLES
    site,
    account, screen, seen, crossed, untold,
    table, vouched, busy, form, outdated,
    row, user, look, snapshot, saving, memory, prefs, load, puts, acts, chosen, overtaken,
    kind, order, id, status, mark, page, route, asked, dialog, drawer, logged,
    step, invalid, isActivated, createdOrgId, made,
    call,    \* of the first three
    shown    \* of the providers and of the pages over the store

Security == INSTANCE AccountSecurity
SSO == INSTANCE SSOProviders
Look == INSTANCE PersonalLook
Console == INSTANCE AdminConsole
Wizard == INSTANCE Onboarding

ASSUME PagesBounds ==
    Security!Bounds /\ SSO!Bounds /\ Look!Bounds /\ Console!Bounds /\ Wizard!Bounds

securityVars == <<account, screen, seen, crossed, untold>>
ssoVars == <<table, vouched, busy, form, outdated>>
lookVars == <<row, user, look, snapshot, saving, memory, prefs, load, puts, acts, chosen, overtaken>>
consoleVars == <<kind, order, id, status, mark, page, route, asked, dialog, drawer, logged>>
wizardVars == <<step, invalid, isActivated, createdOrgId, made>>
vars == <<site, securityVars, ssoVars, lookVars, consoleVars, wizardVars, call, shown>>

-----------------------------------------------------------------------------
NoSecurity == account = None /\ screen = None /\ seen = None /\ crossed = None /\ untold = None
NoSSO == table = None /\ vouched = None /\ busy = None /\ form = None /\ outdated = None
NoLook ==
    /\ row = None /\ user = None /\ look = None /\ snapshot = None /\ saving = None /\ memory = None
    /\ prefs = None /\ load = None /\ puts = None /\ acts = None /\ chosen = None /\ overtaken = None
NoConsole ==
    /\ kind = None /\ order = None /\ id = None /\ status = None /\ mark = None /\ page = None
    /\ route = None /\ asked = None /\ dialog = None /\ drawer = None /\ logged = None
NoWizard == step = None /\ invalid = None /\ isActivated = None /\ createdOrgId = None /\ made = None

Init ==
    \/ /\ site = "security" /\ Security!Init
       /\ NoSSO /\ NoLook /\ NoConsole /\ NoWizard /\ shown = None
    \/ /\ site = "sso" /\ SSO!Init
       /\ NoSecurity /\ NoLook /\ NoConsole /\ NoWizard
    \/ /\ site = "look" /\ Look!Init
       /\ NoSecurity /\ NoSSO /\ NoConsole /\ NoWizard /\ shown = None
    \/ /\ site = "console" /\ Console!Init
       /\ NoSecurity /\ NoSSO /\ NoLook /\ NoWizard /\ call = None
    \/ /\ site = "wizard" /\ Wizard!Init
       /\ NoSecurity /\ NoSSO /\ NoLook /\ NoConsole /\ call = None /\ shown = None

SecurityStep ==
    /\ site = "security" /\ Security!Next
    /\ UNCHANGED <<site, ssoVars, lookVars, consoleVars, wizardVars, shown>>
SSOStep ==
    /\ site = "sso" /\ SSO!Next
    /\ UNCHANGED <<site, securityVars, lookVars, consoleVars, wizardVars>>
LookStep ==
    /\ site = "look" /\ Look!Next
    /\ UNCHANGED <<site, securityVars, ssoVars, consoleVars, wizardVars, shown>>
ConsoleStep ==
    /\ site = "console" /\ Console!Next
    /\ UNCHANGED <<site, securityVars, ssoVars, lookVars, wizardVars, call>>
WizardStep ==
    /\ site = "wizard" /\ Wizard!Next
    /\ UNCHANGED <<site, securityVars, ssoVars, lookVars, consoleVars, call, shown>>

Next == SecurityStep \/ SSOStep \/ LookStep \/ ConsoleStep \/ WizardStep

Spec == Init /\ [][Next]_vars

-----------------------------------------------------------------------------
TypeOK ==
    /\ site = "security" => Security!TypeOK
    /\ site = "sso" => SSO!TypeOK
    /\ site = "look" => Look!TypeOK
    /\ site = "console" => Console!TypeOK
    /\ site = "wizard" => Wizard!TypeOK

\* At rest a page shows what is stored: the factors and sessions of the account,
\* the providers, the operator's theme (also after saves that were refused), the
\* rows of the store, the incident in the drawer and the organization last made;
\* and a row shown as busy has a call of its own under way.  The components say when a
\* page cannot know: an answer was lost, somebody else changed the rows, or a call of an
\* earlier visit to the page changed them after the list of this one was read (untold
\* also counts such a call of the security page that was answered before).
ShownIsStored ==
    /\ site = "security" => Security!ListsAreCurrent
    /\ site = "sso" => SSO!ListIsCurrent /\ SSO!BusyRowsAwait
    /\ site = "look" => Look!LookIsStored
    /\ site = "console" => Console!ListIsStore /\ Console!DrawerIsCurrent
    /\ site = "wizard" => Wizard!SuccessNamesTheLast

\* Recovery codes on screen are the ones that work ("every previous code has been
\* invalidated"); and codes that replaced the old ones do reach the screen, unless
\* their answer was lost, or came after the enrolment was cancelled or the page left
\* (seen).  Neither is claimed once two writers of codes overlapped, or new codes came
\* to a page with an enrolment open (crossed).
CodesReachTheOwner ==
    site = "security" => Security!CodesShownAreCurrent /\ Security!CodesNotForgotten

\* A provider on a sign-in page has a secret that a connection test found good,
\* unless the secret was replaced between the two statements of a test or of an
\* enabling (vouched).
EnabledWasTested == site = "sso" => SSO!EnabledWasTested

\* Edited preferences are not taken back by an answer that was asked for earlier,
\* and are what the server keeps once every write has arrived.
EditsAreKept == site = "look" => Look!EditsStay /\ Look!EditsAreStored

\* The row that changes is the one the operator chose.
ActsOnTheRowChosen == site = "console" => Console!ActsOnTheRowChosen

\* "Activate" is never refused in silence over a field that is not on screen.
StepsBehindAreValid == site = "wizard" => Wizard!StepsBehindAreValid
=============================================================================
