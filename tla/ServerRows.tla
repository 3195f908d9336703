------------------------------ MODULE ServerRows ------------------------------
(***************************************************************************)
(* Four parts of the server whose requests meet only in the rows of their  *)
(* own tables: settings and their cache, sessions, second factors, sign-in *)
(* through a provider.  A behaviour follows one of them, its site; the     *)
(* variables of the others are None.                                       *)
(***************************************************************************)
EXTENDS Naturals

CONSTANTS
    Requests,
    Instances, CacheTTL, MaxRead, MaxVersion, SettingsTime,
    Sessions, Absolute, IdleTime, RenewWithin, Touch, MaxStall, SessionsTime,
    Methods, MaxSets,
    Addresses, MaxStarts,
    None

VARIABLES
    site,
    table, cache, replaced, promised,
    rows, jar,
    methods, codeSets, generated, locks, required,
    provider, states, accounts, link, person, issued, provisioned, crossed,
    now,   \* of settings and sessions
    req    \* of all four

Settings == INSTANCE SettingsReads WITH MaxTime <- SettingsTime
Sess == INSTANCE Sessions WITH MaxTime <- SessionsTime, Idle <- IdleTime
Mfa == INSTANCE MfaMethods
Sso == INSTANCE SsoLogin

ASSUME RowsBounds == Settings!Bounds /\ Sess!Bounds /\ Mfa!Bounds /\ Sso!Bounds
ASSUME StoreBounds == CacheTTL \in Nat \ {0} /\ SettingsTime \in Nat /\ MaxVersion \in Nat

settingsVars == <<table, cache, replaced, promised>>
sessionVars == <<rows, jar>>
factorVars == <<methods, codeSets, generated, locks, required>>
ssoVars == <<provider, states, accounts, link, person, issued, provisioned, crossed>>
vars == <<site, settingsVars, sessionVars, factorVars, ssoVars, now, req>>

-----------------------------------------------------------------------------
NoSettings == table = None /\ cache = None /\ replaced = None /\ promised = None
NoSessions == rows = None /\ jar = None
NoFactors ==
    methods = None /\ codeSets = None /\ generated = None /\ locks = None /\ required = None
NoSso ==
    /\ provider = None /\ states = None /\ accounts = None /\ link = None
    /\ person = None /\ issued = None /\ provisioned = None /\ crossed = None

Init ==
    \/ site = "settings" /\ Settings!Init /\ NoSessions /\ NoFactors /\ NoSso
    \/ site = "sessions" /\ Sess!Init /\ NoSettings /\ NoFactors /\ NoSso
    \/ site = "factors" /\ Mfa!Init /\ NoSettings /\ NoSessions /\ NoSso /\ now = None
    \/ site = "sso" /\ Sso!Init /\ NoSettings /\ NoSessions /\ NoFactors /\ now = None

SettingsStep == site = "settings" /\ Settings!Next /\ UNCHANGED <<site, sessionVars, factorVars, ssoVars>>
SessionsStep == site = "sessions" /\ Sess!Next /\ UNCHANGED <<site, settingsVars, factorVars, ssoVars>>
FactorsStep == site = "factors" /\ Mfa!Next /\ UNCHANGED <<site, settingsVars, sessionVars, ssoVars, now>>
SsoStep == site = "sso" /\ Sso!Next /\ UNCHANGED <<site, settingsVars, sessionVars, factorVars, now>>

\* The clock of the sessions stops at its bound; nothing else may.
Ended == site = "sessions" /\ now = SessionsTime /\ UNCHANGED vars

Next == Ended \/ SettingsStep \/ SessionsStep \/ FactorsStep \/ SsoStep

Spec == Init /\ [][Next]_vars

-----------------------------------------------------------------------------
TypeOK ==
    /\ site = "settings" => Settings!TypeOK
    /\ site = "sessions" => Sess!TypeOK
    /\ site = "factors" => Mfa!TypeOK
    /\ site = "sso" => Sso!TypeOK

\* "The settings cache TTL bounds how long a policy change takes to reach every
\* request path."
StaleAtMostTTL == site = "settings" => Settings!StaleAtMostTTL

\* "Idle expiry is accurate to within one interval", however requests overlap,
\* and the row of a session in use outlives the use by the renewal window.
RowFollowsUse == site = "sessions" => Sess!IdleAccurate /\ Sess!RowOutlivesUse

\* "IdleMinutes ends a session that has gone quiet."
QuietSessionsEnd == [][site = "sessions" => Sess!QuietSessionEnds]_vars

\* An account with a factor has recovery codes, whatever replacements overlap.
AlwaysSomeCodes == site = "factors" => Mfa!AlwaysSomeCodes

\* "You cannot remove your last factor", unless MFA was not required when the
\* removal was authorised; and a removed factor never counts again, although an
\* enrolment of it may have been waiting for the removal to commit.
RemovalsHold == [][site = "factors" => Mfa!RemovalHolds]_vars

\* "A replayed callback URL matches no row and cannot mint a second session."
StatePaysOnce == site = "sso" => Sso!StatePaysOnce

\* An account made for a person at a provider is made together with its link, also
\* when the provider is being deleted, and the link never moves to another account;
\* only where the address changed between two first sign-ins in flight may the second
\* account be left without one.
ProvisionedAreLinked == [][site = "sso" => Sso!ProvisionedAreLinked]_vars

\* "Matching is by provider subject first": the session goes to the account that
\* is linked, unless the address changed between two first sign-ins in flight.
SignsInTheLinked == site = "sso" => Sso!SignsInTheLinked
=============================================================================
