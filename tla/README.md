# Guardian Cloud: TLA+ models of the control plane and its web client

Guardian Cloud is a Go API in front of PostgreSQL (`src/cmd/server`,
`src/internal`, `src/migrations`) with a React front end (`src/web`).  What can
go wrong in it is mostly between requests: every handler is a series of
statements and short transactions at READ COMMITTED, any number of handlers run
at once, and every page of the client keeps a copy of something and acts on it
while answers are still under way.  The modules here model the handlers one
statement or one transaction per action and the pages one event or one answer
per action, check them with TLC on small instances, and prove some of the
results with TLAPS for every instance.

* `PROJECT.json` lists components, runs, mutants, the map from definitions to
  source lines, findings, hazards and theorems.
* `tlc -config <Run>.cfg <Module>` repeats a run; `tlapm <Module>Proofs.tla`
  repeats its proofs.

## 1. Inventory

The server, under `src/internal`:

| Component (source) | State | Operations | Talks to | Hard because |
|---|---|---|---|---|
| Sign-in: `api/auth_handlers.go`, `mfa/challenge.go`, `auth/login.go` | `mfa_challenges`, challenge cookie | Login, VerifyMFA, completeLogin | lockout, MFA methods, sessions, settings | five transactions per sign-in; several answers to one challenge |
| Self-service: `api/selfservice_handlers.go` | the same tables | enrol, verify, delete a factor, regenerate codes, change password, revoke sessions | MFA, sessions | authorisation is read outside the transaction that acts on it |
| Sign-up and recovery: `api/signup_handlers.go` | `password_reset_tokens`, `email_verification_tokens` | Signup, VerifyEmail, Resend, Forgot, Reset | mail, sessions | single-use links; a reset races sign-ins and other resets |
| Lockout: `auth/lockout.go` | `account_lockouts` | CheckLockout, RecordFailure, ClearFailures | sign-in | two row locks per transaction, in no fixed order; first failures collide |
| MFA: `auth/mfa.go`, `mfa/recovery.go` | `*_mfa_methods`, `mfa_recovery_codes` | create, verify, revoke, count, replace codes | self-service | counts and defaults decided on statement snapshots |
| Sessions: `auth/session.go`, `auth/cookie.go`, `api/session_middleware.go` | session rows, browser cookie | issue, look up, touch, renew, revoke, list | every handler | touches overlap; row and cookie have clocks of their own |
| Settings: `settings/settings.go` | `platform_settings`, in-process cache | All, Int, Bool, Set, Invalidate | every policy decision | read-then-store cache without versions |
| Setup: `api/setup_handlers.go`, `cmd/server/bootstrap.go` | first administrator, setup flag, advisory lock | SetupStatus, CompleteSetup, bootstrap-admin | settings, pool | lock, cache and connection pool meet in one transaction |
| SSO sign-in: `api/sso_login_handlers.go`, `oauth/` | state tokens, linked identities | StartSSO, Callback | providers, sessions | two legs with a redirect in between; first sign-ins race |
| SSO administration: `api/sso_admin_handlers.go` | provider rows | create, update, test, enable, delete | SSO sign-in | a test result outlives what it tested |
| Authorization: `authz/` | role grants | match, expand, resolve | sessions (admin plane) | pure functions over patterns |
| Appearance: `api/theme.go`, `dashboard_theme.go`, `admin_settings.go` | singleton rows, rows per user | get, put | web client | last writer wins; versions only say that something changed |
| Request plumbing: `api/middleware.go`, `auth_support.go`, `netutil/` | CSRF digest | origin and CSRF check, client address | sessions, lockout | header parsing; rotation by two tabs |

The web client, under `src/web/src`:

| Component (source) | State | Operations | Talks to | Hard because |
|---|---|---|---|---|
| Session: `auth/`, `lib/apiClient.ts`, the sign-in pages | caller shown, start-up, route, cookie jar | refresh, 401 handler, sign in, enrol, set up, ping, sign out, retry | the API | answers carry no session and settle in any order |
| Sign-up and recovery pages: `pages/SignupPage.tsx`, `pages/app/CustomerAuthPages.tsx` | form and status of each tab | submit, open a mailed link | `signup_handlers.go` | one link in several tabs; a reset may be a deadlock's victim |
| Security pages: `pages/admin/account`, `components/auth/InlineTotpEnroll.tsx`, `pages/app/PersonalPages.tsx` | lists, panels, recovery codes on screen | enrol, remove, regenerate, revoke, change password | `selfservice_handlers.go` | nothing waits for a call in flight; codes are shown once |
| Provider settings: `pages/admin/settings/SSOProvidersSettings.tsx` | list, form, one `busyID` | add, test, enable, remove | `sso_admin_handlers.go` | acts on an old list; one flag for all rows |
| Brand theme: `theme/ThemeProvider.tsx`, `theme/tokens.ts`, Brand Studio | theme, version, document | refresh, poll, save, reset, preview | `theme.go` | four kinds of answer in any order; two themes share `<html>` |
| Own look: `theme/adminTheme.tsx`, `theme/navPrefs.tsx`, `components/theme/` | theme, snapshot, preferences in module memory | choose, follow brand, reset | `dashboard_theme.go`, `admin_settings.go` | optimistic writes and their reversal; memory outlives the account |
| Console: `repositories/adminStore.ts`, `hooks/useAdminData.ts`, lists, dialogs, drawer | in-memory rows, copies of them | create, suspend, lock, resolve, ... | itself | copies refreshed only by notifications; dialogs act later |
| Wizard: `pages/admin/organizations/OrganizationOnboardingPage.tsx` | one form over eight steps | next, back, activate | the store | steps are validated one at a time |
| Presentation: landing page, dashboards, charts | none of their own | | | |

What makes each correct is stated in section 3 where it is modelled.

## 2. Modules

Components:

| Module | Models | State → code |
|---|---|---|
| `SignIn` | sign-in, second factor, self-service and password reset for one identity | one variable per table; `revoking` the sessions that a reset under way has revoked; `req[r]` is what a handler holds in local variables (`at` names the next statement) |
| `SignInPromise` | what a sign-in promises, abstractly | a challenge is absent, open, spent, redeemed; a session absent, live, revoked |
| `MCSignIn` | `SignIn` with symmetry, for TLC | |
| `Lockout` | `account_lockouts` statement by statement | `rows` committed rows, `owner` row locks, `draft` uncommitted writes |
| `SettingsStore` | the cache: `Fresh`, `Fill`, `Invalidate` | `cache[i]` is `Store.cached`, `cachedAt` of one process |
| `SettingsReads` | `SettingsStore` plus requests that read, write and restart | `req[r].value` is what `All` has queried and not stored yet |
| `Setup` | `SettingsStore` plus the setup handlers, the connection pool, the advisory lock and bootstrap-admin | `lock`, `Conns(i)`, `admins` |
| `Sessions` | one browser's sessions and cookie over time | `rows` the table, `jar` the browser, `req[r]` the `Principal` a request loaded |
| `MfaMethods` | factors and recovery codes of one account, statement by statement | `methods`, `codeSets`, `locks` |
| `SsoLogin` | StartSSO, the callback and its transaction, for one provider and one person | `states` is `oidc_auth_requests`, `link` the person's row of `identity_providers`, `req[r]` a callback |
| `WebSession` | one page of one plane of the client, with as much of the API as answers it | `user`, `userRef`, `initState`, `endedReason` of `AuthProvider`; `page` the route; `cookie`, `challenge` the jar; `call[c]` a request and its answer |
| `AccountLinks` | sign-up, verification and recovery: pages in several tabs, handlers, row locks of the reset | `link` the token rows, `mailed` the mailbox, `tab[x]` a page and its call (`step` names the statement) |
| `AccountSecurity` | the security pages and in-place enrolment, with one action per handler | `account` the server's rows, `screen` the component state, `call[c]` with `mine` as in `SSOProviders` |
| `SSOProviders` | the provider settings and their handlers; test and enable read and write in two steps | `table` the rows, `shown`, `busy`, `form` the screen; `call[c].mine` whether the screen that waits for it is still the one open |
| `BrandTheme` | the published theme, its copy in a browser, Brand Studio, who paints the document | `published` all versions of `platform_theme`, `seen` is `versionRef`, `document` is `<html>`, `owns` the two flags of `tokens.ts`, `shell` the dashboard as rendered, `due` a rendering to come |
| `PersonalLook` | an operator's theme and preferences | `look`, `snapshot`, `saving` of `adminTheme`; `memory` is `memoryPrefs`; `load`, `puts` requests for preferences |
| `AdminConsole` | the in-memory store and the pages over it, for the rows of one kind | `order`, `id`, `status`, `mark` the array; `route`, `asked`, `shown`, `dialog`, `drawer` the page |
| `Onboarding` | the wizard | `step`, `invalid` (steps with a field the schema refuses), `isActivated`, `createdOrgId` |

Compositions:

* `SettingsReads` and `Setup` EXTEND `SettingsStore` and use its cache operators
  inside their own steps.
* `SignIn` maps to `SignInPromise` with `INSTANCE ... WITH`.  `SignIn` treats the
  transactions of `MfaMethods` as single actions, `MfaMethods` opens them up, and
  `Sessions` adds the clock that `SignIn` abstracts to a flag.
* `WebSession`, `AccountLinks`, `AccountSecurity`, `SSOProviders`, `BrandTheme`,
  `PersonalLook` compose client and server: a call is sent with what the page
  knew, served by the handler's action at a later moment, and its answer handled
  later still; it may be lost on either way.
* `ServerRows` (`SettingsReads`, `Sessions`, `MfaMethods`, `SsoLogin`),
  `WebForms` (`AccountLinks`, `BrandTheme`) and `WebPages` (`AccountSecurity`,
  `SSOProviders`, `PersonalLook`, `AdminConsole`, `Onboarding`) check components
  together that share no state.  Each INSTANCEs its components; a behaviour chooses
  one of them, its `site`, and follows it alone, with the variables of the others
  at `None`.  Interleaving components that share no state would multiply their
  states and add no behaviour to any of them.

* The proofs are beside the modules: `SignInProofs` EXTENDS `SignIn`,
  `LockoutProofs` `Lockout`, `SetupProofs` `Setup`, `ServerRowsProofs` `ServerRows`
  (types only), `ServerProofs` `ServerRowsProofs`, `SessionProofs` `WebSession`,
  `FormsProofs` `WebForms`, `PagesProofs` `WebPages`.

PostgreSQL is outside the repository and modelled from how the code uses it:
each statement sees what is committed when it starts, an UPDATE, DELETE or
SELECT FOR UPDATE waits for the transaction that holds the row and looks at it
again, an INSERT waits for an uncommitted row with the same unique key, a cycle
of waiting transactions loses one of them, `now()` is the start of the
transaction.  `database/sql` blocks a caller without a deadline when MaxOpenConns
connections are out.  A client that goes away cancels its request's context and
so its transaction (`Disconnect`, `Abandon`).  React runs effects before the next
event (`EffectsRan` in `WebSession`) and an event handler up to its first `await`
in one go; what follows an `await` is an action of its own (`Settle...`).  In
`BrandTheme` a rendering with its effects is one action (`Render`), answers arrive
before and after it, and a click falls on a page that is rendered.  A page that is
left takes nothing back: its calls run on, and what their answers set is set on a
component that is gone (`Orphaned`).

Conventions: comments that start with `Mutant:` introduce a broken variant of the
definition below; nothing in the specification uses it.  Variables and fields
called history exist for a property and are read by no guard.  A count from which
the code never decides (audit, login_attempts, `last_used_at`) is left out.

## 3. Runs

Passing runs:

| Run | Properties | What it shows |
|---|---|---|
| `signin_factor` | `TypeOK`, `OneSessionPerChallenge`, `AttemptsBounded`, `EnrolledMidLoginHasSession`, `KeepsSignInPromise` | two requests over one challenge and one factor: a challenge is worth one session; guesses overshoot `MaxChallengeAttempts` by less than one per request in flight; enrolment in the middle of a sign-in is all or nothing; every step is a step of `SignInPromise` |
| `signin_codes` | `OneSessionPerRecoveryCode` | two sign-ins with a challenge each and one recovery code between them: the code is worth one session, though it is spent before the challenge is and may be regenerated meanwhile |
| `signin_recovery` | `ResetSignsOut` | resets in two steps (the statement that revokes the sessions, the commit) between sign-ins and password changes: a session begun with a password that a reset replaced is left only if it was issued while the reset was under way, or after it |
| `lockout_concurrent` | `TypeOK`, `CountersLoseNothing`, `OvershootBounded`, `LocksOnlyAtThreshold`, `EverySignInEnds` | no committed failure is lost, no lock comes early, counters pass the threshold by less than one per sign-in in flight, and every sign-in ends in spite of deadlocks |
| `setup_once` | `SetupCreatesOneAdmin`, `ClosedScreenStaysClosed`, `EverySetupIsAnswered` | two requests over a pool of two connections: one administrator from the screen, none after it closed, every request answered unless those that wait for the lock hold the connections its holder needs |
| `server_rows` | `TypeOK`, `StaleAtMostTTL`, `RowFollowsUse`, `AlwaysSomeCodes`, `RemovalsHold`, `QuietSessionsEnd`, `StatePaysOnce`, `ProvisionedAreLinked`, `SignsInTheLinked` | a request uses settings at most `cacheTTL` plus one query old; throttled, overlapping and failing touches keep idle and absolute expiry honest; removals, enrolments and code replacements race at statement level; racing callbacks of a provider find, link or make one account, a state is worth one session, and no account is made without its link unless the address changed between them |
| `web_session` | `TypeOK`, `ScreenMatchesCookie`, `CodesLeftOnPurpose` | two calls in flight, settling in any order or lost, over sign-in with and without a factor, enrolment, setup, pings, sign-out, reloads and sessions that end: until a late answer is believed, the caller on screen is the one the cookie acts as; recovery codes leave the screen only when they should |
| `web_startup` | `NothingHangs` | the start-up splash goes away through retries and failures, and every form that was submitted is usable again |
| `web_forms` | `TypeOK`, `LinksWorkOnce`, `DocumentShowsItsTheme`, `FormsAnswer`, `CatchesUp` | one mailed link in two tabs, resets that deadlock over each other's links; whatever arrives between renderings, the document shows the theme of the page it shows and is handed back when the dashboard closes, and a published theme reaches every open page |
| `web_pages` | `TypeOK`, `ShownIsStored`, `CodesReachTheOwner`, `EnabledWasTested`, `EditsAreKept`, `ActsOnTheRowChosen`, `StepsBehindAreValid` | lists, looks, drawers and codes on screen agree with what is stored once nothing is in flight, also on a page left and opened again during its calls; the row that changes is the row chosen, an enabled provider was tested with its secret, edited preferences are not taken back, no step of the wizard is left invalid |

Runs that end in a violation, each a finding of `PROJECT.json` with the line it
contradicts:

| Run | Property | What TLC shows |
|---|---|---|
| `signin_stale_challenge` | `SignedOutEverywhere` | a sign-in half done when the password is reset finishes afterwards |
| `mfa_codes` | `OneSetOfCodes` | two replacements in flight leave two sets |

`ShownIsStored`, `CodesReachTheOwner`, `EditsAreKept`, `RowFollowsUse`,
`RemovalsHold`, `LinksWorkOnce` and `NothingHangs` are conjunctions of properties
stated in the components; a mutant for each conjunct is in `PROJECT.json`.  Their
antecedents name what a page cannot know.  History variables record

* an answer that was lost, or given before somebody else, or a call of an earlier
  visit to the page, changed the rows (`untold`, `outdated`), and requests that
  overtook each other (`overtaken`);
* two writers of codes that overlapped, or codes that came to a page with an
  enrolment open (`crossed` of `AccountSecurity`), and codes whose reply found the
  enrolment cancelled (`seen`);
* a secret replaced in the middle of a test or an enabling (`vouched`), an address
  that changed between two callbacks (`crossed` of `SsoLogin`);
* a late answer that was believed (`late` of `WebSession`), a session issued while
  a reset was under way or after it (`late` of `SignIn`), a dashboard that closed
  before it had rendered the last theme (`missed` of `BrandTheme`).

What such a variable lets through is listed below as a divergence or follows from
the loss itself.  TLC reaches every property with them false after several calls.

### Further divergences, without a run of their own

These properties quote a comment and stand in the modules; TLC refutes each when
it replaces the properties of the cfg named (with the constants given).
`ServerRows` has them under the prefixes `Settings!`, `Sess!`, `Mfa!`, `Sso!`;
they, and the one of `AccountLinks`, are checked on the component, with the
component's constants of that cfg (`MaxTime` is `SettingsTime` or `SessionsTime`,
`Idle` is `IdleTime`).

| Property | Module and cfg | Comment | Code |
|---|---|---|---|
| `GuessesWithinMaximum` | `MCSignIn`, `SignInFactor` | "MaxChallengeAttempts bounds guesses" (`mfa/challenge.go:20`) | checked at 108, counted at 116; `AttemptsBounded` says by how much |
| `EveryDenialIsCounted` | `Lockout`, `LockoutConcurrent` | a denied sign-in is recorded (`auth/lockout.go:85`) | the victim of the map-order deadlock answers 401 uncounted |
| `NoCounterAtThreshold` | `Lockout`, `LockoutConcurrent` | "trips a lockout at the threshold" (`auth/lockout.go:80`) | the ON CONFLICT branch does not compare (113); `OvershootBounded` says by how much |
| `NextRequestSeesChange` | `SettingsReads`, `ServerRows` | "the operator's next request reflects the change immediately" (`settings/settings.go:169`) | a copy read before the commit is stored after `Invalidate` (114) |
| `NoSetupHangs` | `Setup`, `SetupOnce` | every request is answered | the holder of the lock needs a second connection, and those who wait for the lock have the rest (`api/setup_handlers.go:91`); production has 20 (`db/db.go:18`) |
| `OutstandingLinksDie` | `AccountLinks`, `WebForms` | "Any other outstanding reset links are dead too." (`api/signup_handlers.go:373`) | a link inserted (307) between the start of the sweep (374) and the commit stays usable |
| `FlagIsALatch` | `Setup`, `SetupOnce` | "once set, no credential state can re-open setup" (`api/setup_handlers.go:158`) | the flag is read through the cache (160) |
| `RenewedSessionKeepsCookie` | `Sessions`, `ServerRows` | "so active people are not logged out on a fixed schedule" (`auth/session.go:23`) | the row is renewed; the cookie's MaxAge is set at sign-in only (`auth/cookie.go:30`) |
| `AbsoluteIsACap` | `Sessions`, `ServerRows` | "caps total session lifetime regardless of activity" (`auth/session.go:19`) | each renewal counts from now (226) |
| `OnlyDeadCookiesCleared` | `Sessions`, `ServerRows` with `Sessions = {s1, s2}` | "so a dead token stops being resent" (`api/session_middleware.go:28`) | cookies are cleared by name, also by a late 401 |
| `ExactlyOneDefault` | `MfaMethods`, `MfaCodes` | "always exactly one default" (`auth/mfa.go:130`) | removal promotes nothing; two first enrolments do not see each other |
| `CompletedMeansVerified` | `MfaMethods`, `MfaCodes` | "marks an enrolment complete" (`auth/mfa.go:130`) | zero updated rows go unnoticed (142) |
| `DisabledSignsNobodyIn` | `SsoLogin`, `ServerRows` | "a disabled one stops working immediately rather than at the next restart" (`api/sso_store.go:99`) | the callback loads the provider by id and does not ask `enabled` again (`api/sso_login_handlers.go:143`) |

`IdleAccurate` holds as long as no failed touch is left that a later one has not
made good; "worst case the idle deadline is a minute stale"
(`api/session_middleware.go:75`) is also said of touches that fail, where it does
not hold.

Where a model follows code that is surprising, its properties step aside and the
case is listed here.

Server:

* A provider test probes the record it read and stamps the row it updates; an
  enabling does the same with the stamp (`api/sso_admin_handlers.go:283`).  A
  secret replaced in between is enabled untested.
* Two first sign-ins through a provider that cross a change of the person's
  address sign in to different accounts; the link keeps the first, and an account
  that the second makes stays without one (`api/sso_login_handlers.go:268`).
* A session issued while a reset is under way is not revoked by it: the statement
  does not see it (`api/signup_handlers.go:368`).  `ChangePassword` and the reset
  queue for the credential's row, so they do not overlap.
* `ForgotPassword` drops the error of its INSERT and mails the link all the same
  (`api/signup_handlers.go:307`).

Client, session (`WebSession`):

* `refresh` takes any error, also a timeout, for "signed out"
  (`auth/AuthProvider.tsx:105`), though `auth/useIdleTimeout.ts:22` says that the
  ping "never signs anyone out on its own".
* `/me` answers and 401s of an earlier session are believed; the 401 handler
  compares the plane only.
* The security pages call without `suppressUnauthorized`: a wrong code or password
  (401) signs the page out, while the session lives on
  (`components/auth/InlineTotpEnroll.tsx`, `pages/admin/account/AccountSecurityPage.tsx`,
  `pages/app/PersonalPages.tsx`).

Client, pages:

* Closing the enrolment while its verification is under way never shows the
  recovery codes (`InlineTotpEnroll.tsx:68`); `PasswordSection` does not reload
  the list of sessions that its change revoked.
* `VerifyEmailPage` shows "no longer valid" after any failure and promises a new
  link (`pages/app/CustomerAuthPages.tsx:123`); no page calls the resend route.
* One `busyID` serves all providers (`SSOProvidersSettings.tsx:100`), and a toggle
  sends the opposite of what the old list shows.
* The provider settings, left and opened again during a test, a toggle or a removal,
  show the list from before it: the reload that follows goes to the screen that is
  gone (`SSOProvidersSettings.tsx:96`, 115, 135; `SettingsPages.tsx:23`).  So does
  the security page after a removal or a revocation (`AccountSecurityPage.tsx:38`).
* A dashboard that closes in the rendering that would have shown a new theme hands
  back the one before: the cleanup paints what was rendered last
  (`SuperAdminShell.tsx:64`).
* A refresh that fails after a poll leaves the default theme with a version that
  no later poll differs from; light or dark is local until the next edit publishes
  it with everything else (`theme/ThemeProvider.tsx`).
* `memoryPrefs` survives a sign-out into the next account (`theme/navPrefs.tsx`).
  `handleScheme` starts from the last answer, not from what is shown
  (`theme/adminTheme.tsx:223`).
* `ATMOSPHERE_SCHEME_PAIR` is not its own inverse: grid, mesh and starfield do not
  come back (`theme/tokens.ts:704`).
* A button in a list row opens its dialog and the row's click navigates at once
  (`OrganizationListPage.tsx:303` and the lists of users and administrators), so
  that `updateOrganization`, `removeAdmin`, archiving and suspending an
  administrator are never reached.
* "Assign" on a resolved alert reopens it (`AlertsPage.tsx:92`).  Row ids are four
  digits of the clock and may coincide (`repositories/adminStore.ts:118`); then
  the first row is acted on.
* The wizard can be sent back from its success page and activated again;
  "Save Draft" saves nothing (`OrganizationOnboardingPage.tsx:120`).

### Bounds

| Bound | Where | Value and why it is enough |
|---|---|---|
| requests in flight | server modules | two: each race above needs two |
| `MaxAttempts` | `SignIn` | 2: a guess below, at and above the limit |
| `MaxPasswords` | `SignIn` | 0 where no password changes, 1 for a reset, 2 for a reset after a change or another reset |
| `Sessions`, `Challenges`, `Methods`, `RecoveryCodes` | `SignIn` | one of what is raced for, two where the property compares two, and in `signin_codes` a third session to generate the codes; a row is used once and never reclaimed |
| `MaxFailures`, `Window`, `MaxTime` | `Lockout` | threshold 2, window 1, clock to 3: a count, a lapse, a lock and the lock after it; the counters themselves are unbounded and stay small by the code |
| `MaxVersion`, `SettingsTime`, `MaxRead` | `SettingsReads` | two writes, a TTL of 2 and room for an entry to be filled, served, lapse and be filled again |
| `MaxOpen`, `MaxRemovals`, `MaxTime` | `Setup` | a pool of two for two requests, so that the holder of the lock can be starved by the one that waits for it, bootstrap-admin comes over a pool of its own; one removal is enough to re-open the credential check |
| `Absolute`, `IdleTime`, `RenewWithin`, `Touch`, `SessionsTime`, `MaxStall` | `Sessions` | 6, 4, 3, 1: long enough that an untouched session would lag, short enough that idling, renewal and expiry all happen before the clock stops at 9; a request may take one unit |
| `MaxSets` | `MfaMethods`, `AccountSecurity` | the set in place and two replacements that overlap at statement level (3); one replacement at page level (2) |
| `MaxStarts`, `Addresses` | `SsoLogin` | two starts, which two callbacks may share or not; two addresses, so that a person's address can change to one that is taken or free |
| `MaxCalls`, `MaxSessions`, `InitRetries`, `Endings` | `WebSession` | two calls overlap, two sessions follow each other (one in `web_startup`), one retry; the reasons a session ends for are told apart only by the text shown, so one of them is enough |
| `Tabs`, `MaxLinks` | `AccountLinks` | two tabs and two links: one link twice, or two resets |
| `Fields`, `Saves`, `MaxVersion` | `BrandTheme` | one field, so two themes, and one save beside refresh and poll; two versions, so that one can be missed.  What is published elsewhere is one theme, light and without edits |
| `Providers`, `Other`, `Methods`, `Ids`, `MaxRows`, `MaxMade`, `MaxActs` | `WebPages` | one provider and all others; one factor; three rows over two ids, so that ids coincide; two activations; three acts of an operator, enough to edit, be refused and edit again, or to change accounts |
| `MaxCalls` | `WebPages` | two calls in flight, those of an earlier visit to the page counted |

Deadlock is checked in all runs but those of `Lockout`, where the bounded clock
may stop when nothing is in flight and nothing is left to do, and of `WebForms`
and `WebPages`, where a page has used up its links, ids or acts and rests.  In
`ServerRows` the step `Ended` lets the sessions alone stop at their clock.
`MaxStall` and `MaxRead` are assumptions on the machine, not bounds the code
enforces; the properties name them in their conclusions.

### Fairness

`LockoutConcurrent` and `SetupOnce` check liveness under `FairSpec`: strong
fairness of each request's own steps, because PostgreSQL queues the waiters of a
row or advisory lock and `database/sql` queues those of a connection, first come
first served, so a request that can take it again and again gets it; weak
fairness of the deadlock detector, which runs after `deadlock_timeout`.  Arrival
of requests, clients going away, crashes, operators and the clock have no
fairness.  `Crash`, `Disconnect` and `Abandon` are not needed for a request to
end.

`WebSession` has weak fairness of effects, of the attempts of start-up, of serving
and of handling each call: the browser runs its tasks, and a call is answered or
fails in the end.  For the setup status `apiClient` is given a timeout
(`auth/AuthProvider.tsx:117`); for the other calls it is an assumption on the API
and the network, that handlers end (`EverySignInEnds`, `FormsAnswer` say so of
those that wait for locks) and broken connections are noticed.  Without it a hung
`/me` leaves the splash for ever: neither side has a timeout for it.
`WebForms` adds strong fairness of serving in `AccountLinks` (row locks are queued,
a deadlock's victim is aborted) and, for the brand theme, weak fairness of the
poll timer, of the poll's answers and their handling, and strong fairness of the poll being answered rather
than lost: of the polls sent every few seconds for ever, some get through.  Nobody
is assumed to click, and no page to be left or stay open.

## 4. Proofs

Every safety invariant and every action property of the passing runs is a theorem
of the specification the run checks, for any sets of requests, rows, tabs,
accounts and providers and any limits.  The assumptions are the named ASSUMEs of
the modules: "no row" is not a row, "nobody" is not a request, account and address
keys differ, `None` is none of the values it stands beside (`NoneApart` in
`WebSession`, the `Bounds` of the others), the requests in flight are finitely many
where they are counted, and limits and times are natural numbers.  `RowsBounds`,
`StoreBounds`, `FormsBounds` and `PagesBounds` gather those of the components of a
composition.  `Setup` has `MaxVersion = 1`: its settings table is the one flag, unset or
set.

The type invariants are proved action by action: `TypeCorrect` (`SignInProofs`),
`LockoutTypeCorrect`, `SetupTypeCorrect`, `RowsTypeCorrect`, `SessionTypeCorrect`,
`FormsTypeCorrect`, `PagesTypeCorrect`.  Most are not inductive by themselves: a
type holds of a request only with what its step says it has loaded (`Carries`,
`Knows`, `Sound`, `Whole`), and the proof carries both along.  None of the
invariants below is inductive as a run states it either; each is strengthened by
what a request in the middle of a handler, or an answer on its way to a page,
relies on.

| Theorem (module) | Property | Inductive invariant and what it adds |
|---|---|---|
| `ChallengeSingleUse` (`SignInProofs`) | `OneSessionPerChallenge` | `ChallengeInv`: `VerifyMFA` spends the challenge in one transaction and issues the session in a later one; a request between the two `Claims` the challenge, is the only one that does, and no session was issued for it.  The step with content is `VerifyConsume`: no second request passes `consumed_at IS NULL` |
| `ResetSignsOthersOut` (`SignInProofs`) | `ResetSignsOut` | `RevokedInv`: while a reset is under way, every live session is one its statement found or was issued since (`late`), and the last reset is not after the current password |
| `RecoveryCodeSingleUse` (`SignInProofs`) | `OneSessionPerRecoveryCode` | `RecoveryCodeInv`: a request that spent a code is the only one that holds it, the code is used or deleted, and no session was earned with it yet |
| `GuessesBounded` (`SignInProofs`) | `AttemptsBounded` | `AttemptsInv`: once the limit is reached nobody loads the challenge any more, and the attempts plus those that loaded it and have not counted (`Uncounted`) only fall from there |
| `EnrolmentSignsIn` (`SignInProofs`) | `EnrolledMidLoginHasSession` | `PromiseInv`: one transaction writes the factor and the session, and the row it issues was earned with nothing before |
| `SignInKeepsPromise` (`SignInProofs`) | `KeepsSignInPromise` | the refinement of `SignInPromise`: initial states map to initial states and every step to a step or a stutter, under `PromiseInv` (`ChallengeInv`, and rows never issued were earned with nothing) |
| `NoFailureIsLost`, `NoEarlyLock` (`LockoutProofs`) | `CountersLoseNothing`, `LocksOnlyAtThreshold` | `CounterInv`: a row read and not yet written is owned by its reader and unchanged (`Reading`, `OneAtATime`), and a draft is one event on top of the committed row (`DraftFollows`), so a commit moves the counter exactly as it moves `trail`.  With the plain read of `ReadCounterUnlocked` it fails |
| `OvershootIsBounded` (`LockoutProofs`) | `OvershootBounded` | `OvershootInv`: the sign-ins that found no row (`Late`) only become fewer once the row is there, and each adds at most one to what is committed or drafted |
| `SettingsReachRequests` (`ServerProofs`) | `StaleAtMostTTL` | `AgeInv`: an entry was current when its query ran, at most `MaxRead` before the date it is stored under, also for the copies that requests hold and have not stored or used yet |
| `RowsFollowUse`, `QuietSessionsStayQuiet` (`ServerProofs`) | `RowFollowsUse`, `QuietSessionsEnd` | `TouchInv`: what the row says is behind the last use only by the interval, or by a request in flight that `Owes` the touch; a stamp is at most `MaxStall` old.  A touch clears the history `missed` only when its stamp covers the last use: three overlapping requests, one touch failing, distinguish the two |
| `CodesForEveryFactor`, `RemovalsHoldAlways` (`ServerProofs`) | `AlwaysSomeCodes`, `RemovalsHold` | `FactorInv`: what each row lock is good for: who marks a factor holds its row (`MarkHolds`), who counted the factors holds the account's row, so another one stays (`CountHolds`), who replaced the codes has a set of its own that is not among those it deletes (`CodesHold`), and a set not generated yet is nobody's (`FreshCodes`) |
| `SsoStatePaysOnce`, `SsoProvisionedAreLinked`, `SsoSignsInTheLinked` (`ServerProofs`) | `StatePaysOnce`, `ProvisionedAreLinked`, `SignsInTheLinked` | `PaysInv`: one callback at most carries a consumed state; `LinkInv`: one callback at most is about to commit, and it links if and only if the row is missing; `AgreedInv`: unless the address changed under way, what each callback found and the link name one account.  For `ProvisionedAreLinked` the two together show that who commits an account it made either links it or found the link of a callback that crossed the change |
| `SetupCreatesOne` (`SetupProofs`) | `SetupCreatesOneAdmin` | `SetupInv`: `Holder`, a setup transaction past the advisory lock holds it until it ends; `Once`, whoever has passed the credential query under that lock may still create, because no password sign-in exists and nobody else can make one meanwhile |
| `ClosedStaysClosed` (`SetupProofs`) | `ClosedScreenStaysClosed` | `SetupInv` with `Over`: unless a password sign-in was taken away, what had ended setup when a request arrived still does at its credential query, whatever the cached flag said in between |
| `ScreenFollowsCookie` (`SessionProofs`) | `ScreenMatchesCookie` | `SessionInv`: each answer fits the moment it arrives in (`CallFits`).  A `/me` that says yes carries the session it was asked with; start-up and setup calls fit `initState`, plane and whether there is an administrator; before there is one nobody signs in; one call per form and one of start-up are under way (`Unique`); the page fits what it holds (`PageFits`) |
| `CodesStayOnScreen` (`SessionProofs`) | `CodesLeftOnPurpose` | `SessionInv`: calls fit the page that sent them (`FormOn`, `StaysPut`), so the page that shows the codes can only be left by a sign-out or by entering the console, both of which the user asks for, or in the situations the property names |
| `LinksWork` (`FormsProofs`) | `LinksWorkOnce` | `LinksInv`: a link that worked is spent and worked in one tab; the link a reset `Claims` is live and claimed by it alone, from its UPDATE to its commit; the links a committed reset swept are `Dead` for good |
| `DocumentIsPainted` (`FormsProofs`) | `DocumentShowsItsTheme` | `BrandInv`: the versions form a history, what a browser has seen and what an answer carries are in it, and an answer carries a version there is.  `FlagsInv`: both flags say what the rendered shell is, also between a change and its rendering.  With them the property is inductive (`DocInv`): a handler paints only what the flags leave it, and each rendering makes up for the rest |
| `PagesShowWhatIsStored` (`PagesProofs`) | `ShownIsStored` | `SecInv` (lists): a list on the security page is what is stored, or something under way, and of this visit, will have it loaded again (`Told`).  `LookInv` (theme): while requests do not overtake each other, one is under way at most and the screen and its snapshot are what that request assumes (`Stands`).  `SsoInv` (providers): the list is the table or is being loaded again by the screen that is open (`Fresh`).  `ConsoleInv`, `WizardInv`: below |
| `RecoveryCodesReachTheOwner` (`PagesProofs`) | `CodesReachTheOwner` | `SecInv` (codes): the enrolment waits for one call; while writers do not overlap (`crossed`) the codes on screen or on their way are those in force, and the old ones are off the screen before new ones are asked for (`CodesInv`) |
| `EnabledProvidersWereTested` (`PagesProofs`) | `EnabledWasTested` | `SsoInv`: `Vouched`, a row that is tested or enabled, or that an enable has read and not written yet, was probed; a removed row stays removed, and what a screen or a call names is or was in the table |
| `PreferenceEditsAreKept` (`PagesProofs`) | `EditsAreKept` | `LookInv` (preferences): once the user has chosen, no older load is fresh, and each choice is stored or in a request of that user's with that value |
| `OperationsHitTheRowChosen` (`PagesProofs`) | `ActsOnTheRowChosen` | `ConsoleInv`: the rows made are the first ones and only they are in the array (`MadeInOrder`), the copy on the page is what it selects from the store, a dialog is about a row, a drawer is a current copy of one |
| `WizardStepsBehindAreValid` (`PagesProofs`) | `StepsBehindAreValid` | `WizardInv`: no step before the one shown has a refused field, and after activation the organization named is the last one made |

A behaviour of `WebForms` or `WebPages` follows one component, so `FormsInv` and
`PagesInv` say that the site chosen has its component's invariant and the variables
of the others stay `None`.

Two changes of a model were needed to reason about it, neither of which adds or
removes a behaviour: `AdminConsole` keeps a filtered list as a function on the
places its rows have in the array, and the operations and answers that `None` must
differ from have names (`Ops`, `Answers`) in `SSOProviders`, `AccountSecurity` and
`WebSession`.

Only model-checked: liveness (`EverySignInEnds`, `EverySetupIsAnswered`,
`NothingHangs`, `FormsAnswer`, `CatchesUp`), which needs fairness and ENABLED and is out
of the prover's reach, and the violations that the two failing runs exhibit.

## 5. Not modelled

* TOTP arithmetic, password hashing, sealing, token formats: a right secret
  passes, a wrong one does not, and tokens are never guessed.
* The e-mail code branch of `verifyChallengeCode` (`api/auth_handlers.go:262`):
  no code creates an e-mail method, so it cannot be reached.
  `RevokeAllMFAMethods` and `UpdateChallengeEmailCode` have no caller.
* `login_attempts`, `audit_logs`, mail: written and never read by these handlers.
* Overflow in `backoff`: the shift is capped at 16, so an int64 duration would
  need a base of over four years.
* `ResendVerification`, the rotation of the CSRF digest, `List` and the platform
  scope of the admin settings: routes the web client never calls.
* `authz/`, `netutil/`, `oauth/`: pure functions of one request, or HTTP calls
  whose outcomes are inputs of `SsoLogin` and `SSOProviders`.
* Colour arithmetic and the token tables of the theme, the local-storage branches
  behind `THEME_DB_ONLY` and `NAV_DB_ONLY` (constants, true), the settings forms of
  the mock store (one object per category, replaced as a whole), charts, landing
  page and mock rows: data, or rendering without state that two actors share.
* Router, configuration, schema, deployment: no behaviour of their own.

## 6. Plan

1. `Authz`, `ClientIP`: pure operators against reference definitions.
2. `Csrf`: rotation by two tabs, once a client calls the route.
3. `MfaMethods` and `Sessions` shown to implement the single actions that `SignIn`
   makes of their transactions.
