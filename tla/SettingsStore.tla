--------------------------- MODULE SettingsStore ---------------------------
(***************************************************************************)
(* The in-process cache in front of platform_settings (settings.Store):    *)
(* one per server process.  A request that finds it fresh uses it; one     *)
(* that does not reads the table and stores what it read, in two steps     *)
(* that other requests can come between.  SettingsReads and Setup compose  *)
(* these steps into requests.                                              *)
(***************************************************************************)
EXTENDS Integers

CONSTANTS Instances,   \* server processes
          CacheTTL,    \* cacheTTL, in clock units
          MaxTime,     \* bound: the clock stops here
          MaxVersion   \* bound: how often the settings are written

ASSUME StoreAssumption == /\ CacheTTL \in Nat \ {0} /\ MaxTime \in Nat
                          /\ MaxVersion \in Nat

VARIABLES now,    \* wall clock
          table,  \* version of platform_settings last committed
          cache   \* per instance: the version held and when it was stored

storeVars == <<now, table, cache>>

Versions == 0..MaxVersion

\* Version 0 is both the fresh table and the Defaults the code falls back to.
Defaults == 0

StoreTypeOK == /\ now \in 0..MaxTime
               /\ table \in Versions
               /\ cache \in [Instances -> [valid : BOOLEAN, value : Versions, at : 0..MaxTime]]

Empty == [valid |-> FALSE, value |-> Defaults, at |-> 0]

StoreInit == /\ now = 0
             /\ table = 0
             /\ cache = [i \in Instances |-> Empty]

\* Mutant: the age of the cached copy is not looked at.
FreshForever(i) == cache[i].valid

\* All may answer from the cache.
Fresh(i) == cache[i].valid /\ now - cache[i].at < CacheTTL

\* Mutant: the entry is dated with its deadline instead of its age.
FillWithDeadline(i, value) ==
    cache' = [cache EXCEPT ![i] = [valid |-> TRUE, value |-> value, at |-> now + CacheTTL]]

\* All stores the values it read, dated when it stores them.
Fill(i, value) == cache' = [cache EXCEPT ![i] = [valid |-> TRUE, value |-> value, at |-> now]]

Invalidate(i) == cache' = [cache EXCEPT ![i] = Empty]

Advance == now < MaxTime /\ now' = now + 1
=============================================================================
