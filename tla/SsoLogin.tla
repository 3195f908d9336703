------------------------------- MODULE SsoLogin -------------------------------
(***************************************************************************)
(* Sign-in through a provider (sso_login_handlers.go): the two legs of the *)
(* redirect, and the transaction that finds, links or provisions the       *)
(* account.  One provider and one person there, whose callbacks may run at *)
(* once; the person may take another address at the provider meanwhile,    *)
(* the operator may disable or delete the provider, and the same addresses *)
(* may sign up with a password.                                            *)
(***************************************************************************)
EXTENDS Naturals

CONSTANTS
    Requests,
    Addresses,
    MaxStarts,   \* bounds how often the sign-in is started
    None

Providers == [enabled : BOOLEAN, jit : BOOLEAN]   \* of identity_provider_configs

Bounds == MaxStarts \in Nat /\ None \notin Addresses \cup Providers

VARIABLES
    provider,      \* identity_provider_configs: the row, or None once it is deleted
    states,        \* oidc_auth_requests
    accounts,      \* users, which are told apart by their address (UNIQUE)
    link,          \* identity_providers: the account of the person, or None
    person,        \* what the provider says of the person
    req,           \* callbacks
    issued,        \* history: sessions each state paid for
    provisioned,   \* history: accounts that were made here
    crossed        \* history: the address changed between two callbacks in flight

vars == <<provider, states, accounts, link, person, req, issued, provisioned, crossed>>
tables == <<provider, states, accounts, link>>
outside == <<person, issued, provisioned, crossed>>

Starts == 1..MaxStarts
Free == [at |-> "free", state |-> 0, jit |-> FALSE, email |-> None, verified |-> FALSE,
         subject |-> None, made |-> FALSE, links |-> FALSE]
InTx == {"match", "provision", "linking", "commit"}

\* Uncommitted rows: whoever inserts the same key waits for their transaction.
HoldsAddress(r, a) == req[r].made /\ req[r].at \in InTx /\ req[r].email = a
HoldsLink(r) == req[r].at = "commit"

Goes(r, to) == req' = [req EXCEPT ![r] = to]
Ends(r) == Goes(r, Free)

-----------------------------------------------------------------------------
(* The two legs *)

StartSSO(t) ==
    /\ provider # None /\ provider.enabled
    /\ states[t] = "unused" /\ \A u \in 1..(t - 1) : states[u] # "unused"
    /\ states' = [states EXCEPT ![t] = "open"]
    /\ UNCHANGED <<provider, accounts, link, req, outside>>

\* The browser comes back with a state, perhaps twice.  The UPDATE that validates
\* it consumes it; without a row the callback ends in "sso_expired".
\* Mutant: a consumed row is found again.
ConsumeStateAgain(r, t) ==
    /\ req[r] = Free /\ states[t] # "unused"
    /\ Goes(r, [Free EXCEPT !.at = "load", !.state = t])
    /\ states' = [states EXCEPT ![t] = "consumed"]
    /\ UNCHANGED <<provider, accounts, link, outside>>

ConsumeState(r, t) ==
    /\ req[r] = Free /\ states[t] = "open"
    /\ Goes(r, [Free EXCEPT !.at = "load", !.state = t])
    /\ states' = [states EXCEPT ![t] = "consumed"]
    /\ UNCHANGED <<provider, accounts, link, outside>>

\* getProviderByID, which does not ask whether it is still enabled.
LoadProvider(r) ==
    /\ req[r].at = "load"
    /\ IF provider = None THEN Ends(r)
       ELSE Goes(r, [req[r] EXCEPT !.at = "identify", !.jit = provider.jit])
    /\ UNCHANGED <<tables, outside>>

\* Exchange and FetchIdentity; any error of theirs is Fail.
FetchIdentity(r) ==
    /\ req[r].at = "identify"
    /\ Goes(r, [req[r] EXCEPT !.at = "find", !.email = person.email, !.verified = person.verified])
    /\ UNCHANGED <<tables, outside>>

-----------------------------------------------------------------------------
(* resolveSSOAccount: one transaction *)

\* 1. An existing link; nothing else is read then.
\* Mutant: the address is tried first.
FindLinkAfterAddress(r) ==
    /\ req[r].at = "find"
    /\ Goes(r, IF link # None /\ accounts[req[r].email] = "none"
               THEN [req[r] EXCEPT !.at = "check", !.subject = link]
               ELSE [req[r] EXCEPT !.at = "match"])
    /\ UNCHANGED <<tables, outside>>

FindLink(r) ==
    /\ req[r].at = "find"
    /\ Goes(r, IF link # None THEN [req[r] EXCEPT !.at = "check", !.subject = link]
               ELSE [req[r] EXCEPT !.at = "match"])
    /\ UNCHANGED <<tables, outside>>

\* 2. An account with the same address, if the provider vouches for it;
\* 3. or a new one, if the operator allows that (never for staff: jit is FALSE there).
MatchEmail(r) ==
    /\ req[r].at = "match"
    /\ LET known == req[r].verified /\ accounts[req[r].email] # "none"
       IN \/ /\ known /\ accounts[req[r].email] = "active"
             /\ Goes(r, [req[r] EXCEPT !.at = "linking", !.subject = req[r].email])
          \/ ~known /\ req[r].jit /\ Goes(r, [req[r] EXCEPT !.at = "provision"])
          \/ (IF known THEN accounts[req[r].email] # "active" ELSE ~req[r].jit) /\ Ends(r)
    /\ UNCHANGED <<tables, outside>>

\* provisionCustomerFromSSO; an address that is taken fails the transaction.
\* Mutant: the account is committed before the link is made.
ProvisionAlone(r) ==
    /\ req[r].at = "provision"
    /\ accounts[req[r].email] = "none"
    /\ accounts' = [accounts EXCEPT ![req[r].email] = "active"]
    /\ provisioned' = provisioned \cup {req[r].email}
    /\ Goes(r, [req[r] EXCEPT !.at = "linking", !.subject = req[r].email])
    /\ UNCHANGED <<provider, states, link, person, issued, crossed>>

Provision(r) ==
    /\ req[r].at = "provision"
    /\ \A s \in Requests : ~HoldsAddress(s, req[r].email)
    /\ IF accounts[req[r].email] = "none"
       THEN Goes(r, [req[r] EXCEPT !.at = "linking", !.subject = req[r].email, !.made = TRUE])
       ELSE Ends(r)
    /\ UNCHANGED <<tables, outside>>

\* Mutant: the conflict updates the account too.
JoinsAlways(r) == TRUE

\* INSERT ... ON CONFLICT DO UPDATE of the time only: the first link stays.
Joins(r) == link = None

\* Mutant: the link does not reference the provider's row.
linkIdentityUnchecked(r) ==
    /\ req[r].at = "linking"
    /\ \A s \in Requests : ~HoldsLink(s)
    /\ Goes(r, [req[r] EXCEPT !.at = "commit", !.links = provider # None])
    /\ UNCHANGED <<tables, outside>>

\* The provider's row is referenced: it must be there, and cannot be deleted now.
linkIdentity(r) ==
    /\ req[r].at = "linking"
    /\ \A s \in Requests : ~HoldsLink(s)
    /\ IF provider = None THEN Ends(r)
       ELSE Goes(r, [req[r] EXCEPT !.at = "commit", !.links = Joins(r)])
    /\ UNCHANGED <<tables, outside>>

Commit(r) ==
    /\ req[r].at = "commit"
    /\ accounts' = IF req[r].made THEN [accounts EXCEPT ![req[r].email] = "active"] ELSE accounts
    /\ provisioned' = IF req[r].made THEN provisioned \cup {req[r].email} ELSE provisioned
    /\ link' = IF req[r].links THEN req[r].subject ELSE link
    /\ Goes(r, [req[r] EXCEPT !.at = "check", !.made = FALSE, !.links = FALSE])
    /\ UNCHANGED <<provider, states, person, issued, crossed>>

-----------------------------------------------------------------------------
(* issueSSOSession *)

CheckAccountStatus(r) ==
    /\ req[r].at = "check"
    /\ IF accounts[req[r].subject] = "active" THEN Goes(r, [req[r] EXCEPT !.at = "issue"])
       ELSE Ends(r)
    /\ UNCHANGED <<tables, outside>>

IssueSession(r) ==
    /\ req[r].at = "issue"
    /\ issued' = [issued EXCEPT ![req[r].state] = @ + 1]
    /\ Ends(r)
    /\ UNCHANGED <<tables, person, provisioned, crossed>>

\* A statement fails, the provider answers badly, or the browser goes away: the
\* transaction is rolled back.
Fail(r) ==
    /\ req[r] # Free
    /\ Ends(r)
    /\ UNCHANGED <<tables, outside>>

-----------------------------------------------------------------------------
(* What others do *)

\* The person takes another address at the provider, or has it confirmed.
Rename ==
    /\ \E e \in Addresses, v \in BOOLEAN : person' = [email |-> e, verified |-> v]
    /\ crossed' = (crossed \/ \E r \in Requests : req[r].email # None /\ person'.email # req[r].email)
    /\ UNCHANGED <<tables, req, issued, provisioned>>

\* The rest of signup_handlers.go's createAccount is in AccountLinks.
Signup(a) ==
    /\ accounts[a] = "none" /\ \A r \in Requests : ~HoldsAddress(r, a)
    /\ accounts' = [accounts EXCEPT ![a] = "active"]
    /\ UNCHANGED <<provider, states, link, req, outside>>

Suspend(a) ==
    /\ accounts[a] = "active"
    /\ accounts' = [accounts EXCEPT ![a] = "suspended"]
    /\ UNCHANGED <<provider, states, link, req, outside>>

\* Update and SetEnabled of sso_admin_handlers.go.
Configure ==
    /\ provider # None
    /\ provider' \in Providers
    /\ UNCHANGED <<states, accounts, link, req, outside>>

\* Delete, which takes the links and the open states with it (ON DELETE CASCADE).
DeleteProvider ==
    /\ provider # None /\ \A r \in Requests : ~HoldsLink(r)
    /\ provider' = None /\ link' = None
    /\ states' = [t \in Starts |-> IF states[t] = "open" THEN "consumed" ELSE states[t]]
    /\ UNCHANGED <<accounts, req, outside>>

Expire(t) ==
    /\ states[t] = "open"
    /\ states' = [states EXCEPT ![t] = "consumed"]
    /\ UNCHANGED <<provider, accounts, link, req, outside>>

Init ==
    /\ provider \in Providers
    /\ states = [t \in Starts |-> "unused"]
    /\ accounts \in [Addresses -> {"none", "active"}]
    /\ link = None
    /\ person \in [email : Addresses, verified : BOOLEAN]
    /\ req = [r \in Requests |-> Free]
    /\ issued = [t \in Starts |-> 0]
    /\ provisioned = {} /\ crossed = FALSE

Callback(r) ==
    \/ \E t \in Starts : ConsumeState(r, t)
    \/ LoadProvider(r) \/ FetchIdentity(r)
    \/ FindLink(r) \/ MatchEmail(r) \/ Provision(r) \/ linkIdentity(r) \/ Commit(r)
    \/ CheckAccountStatus(r) \/ IssueSession(r) \/ Fail(r)

Next ==
    \/ \E r \in Requests : Callback(r)
    \/ \E t \in Starts : StartSSO(t) \/ Expire(t)
    \/ \E a \in Addresses : Signup(a) \/ Suspend(a)
    \/ Rename \/ Configure \/ DeleteProvider

Spec == Init /\ [][Next]_vars

-----------------------------------------------------------------------------
TypeOK ==
    /\ provider \in Providers \cup {None}
    /\ states \in [Starts -> {"unused", "open", "consumed"}]
    /\ accounts \in [Addresses -> {"none", "active", "suspended"}]
    /\ link \in Addresses \cup {None}
    /\ person \in [email : Addresses, verified : BOOLEAN]
    /\ req \in [Requests ->
         [at : {"free", "load", "identify", "find", "check", "issue"} \cup InTx,
          state : Starts \cup {0}, jit : BOOLEAN, email : Addresses \cup {None},
          verified : BOOLEAN, subject : Addresses \cup {None}, made : BOOLEAN, links : BOOLEAN]]
    /\ issued \in [Starts -> Nat]
    /\ provisioned \in SUBSET Addresses /\ crossed \in BOOLEAN

\* "a replayed callback URL matches no row and cannot mint a second session":
\* a state pays for one session, whatever callbacks run at once.
StatePaysOnce == \A t \in Starts : issued[t] <= 1

\* An account that is made for the person is made with a link, to itself unless
\* the address changed between two first sign-ins in flight: then the link that was
\* there first stays, and the second account has none.  A provider deleted meanwhile
\* takes the account with it, and a link never moves to another account.
ProvisionedAreLinked ==
    /\ \A a \in provisioned' \ provisioned : link' = a \/ (crossed /\ link' # None)
    /\ link # None /\ link' # None => link' = link

\* "Matching is by provider subject first": whoever is about to get a session is
\* the account the person is linked to, unless the address changed between two
\* first sign-ins in flight, or the provider is deleted meanwhile.
SignsInTheLinked ==
    \/ crossed \/ provider = None
    \/ \A r \in Requests : req[r].at \in {"check", "issue"} => req[r].subject = link

\* "a disabled one stops working immediately rather than at the next restart":
\* sso_store.go says so of StartSSO's query; the callback does not ask again.
DisabledSignsNobodyIn ==
    [][issued' # issued => provider # None /\ provider.enabled]_vars
=============================================================================
