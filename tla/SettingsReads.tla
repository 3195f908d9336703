--------------------------- MODULE SettingsReads ---------------------------
(***************************************************************************)
(* Requests that read a policy setting through settings.Store while        *)
(* settings transactions commit, on the same instance and elsewhere.       *)
(***************************************************************************)
EXTENDS SettingsStore

CONSTANTS Requests,  \* requests in flight at once
          MaxRead    \* bound: time between a query and storing its result

Bounds == MaxRead \in Nat

VARIABLES req,       \* what each request is doing
          replaced,  \* history: when each version stopped being the current one
          promised   \* history: per instance, the version current when
                     \* Invalidate was last called

vars == <<now, table, cache, req, replaced, promised>>

Request == [at : {"idle", "missed", "fetched", "served", "committed"},
            inst : Instances, value : Versions, took : 0..MaxTime,
            begun : 0..MaxTime, floor : Versions, failed : BOOLEAN]

Idle(i) == [at |-> "idle", inst |-> i, value |-> Defaults, took |-> 0,
            begun |-> 0, floor |-> 0, failed |-> FALSE]

TypeOK == /\ StoreTypeOK
          /\ req \in [Requests -> Request]
          /\ replaced \in [Versions -> 0..MaxTime]
          /\ promised \in [Instances -> Versions]

Init == /\ StoreInit
        /\ req \in [Requests -> {Idle(i) : i \in Instances}]
        /\ replaced = [v \in Versions |-> 0]
        /\ promised = [i \in Instances |-> 0]

-----------------------------------------------------------------------------
Begin(r) == [req[r] EXCEPT !.begun = now, !.floor = promised[req[r].inst]]

\* The cached map is copied under the read lock.
ReadCached(r) ==
    /\ req[r].at = "idle" /\ Fresh(req[r].inst)
    /\ req' = [req EXCEPT ![r] = [Begin(r) EXCEPT !.at = "served",
                                     !.value = cache[req[r].inst].value]]
    /\ UNCHANGED <<now, table, cache, replaced, promised>>

ReadMisses(r) ==
    /\ req[r].at = "idle" /\ ~Fresh(req[r].inst)
    /\ req' = [req EXCEPT ![r] = [Begin(r) EXCEPT !.at = "missed"]]
    /\ UNCHANGED <<now, table, cache, replaced, promised>>

\* SELECT key, value FROM platform_settings.
Query(r) ==
    /\ req[r].at = "missed"
    /\ req' = [req EXCEPT ![r].at = "fetched", ![r].value = table, ![r].took = now]
    /\ UNCHANGED <<now, table, cache, replaced, promised>>

\* Int and Bool answer with the default when All fails; nothing is cached.
QueryFails(r) ==
    /\ req[r].at = "missed"
    /\ req' = [req EXCEPT ![r].at = "served", ![r].value = Defaults, ![r].failed = TRUE]
    /\ UNCHANGED <<now, table, cache, replaced, promised>>

FillCache(r) ==
    /\ req[r].at = "fetched"
    /\ Fill(req[r].inst, req[r].value)
    /\ req' = [req EXCEPT ![r].at = "served"]
    /\ UNCHANGED <<now, table, replaced, promised>>

Finish(r) ==
    /\ req[r].at = "served"
    /\ req' = [req EXCEPT ![r] = Idle(req[r].inst)]
    /\ UNCHANGED <<now, table, cache, replaced, promised>>

\* A settings transaction commits (Set ran inside it).
CommitSettings ==
    /\ table < MaxVersion
    /\ table' = table + 1
    /\ replaced' = [replaced EXCEPT ![table] = now]

SetSetting(r) ==
    /\ req[r].at = "idle"
    /\ CommitSettings
    /\ req' = [req EXCEPT ![r].at = "committed"]
    /\ UNCHANGED <<now, cache, promised>>

InvalidateCache(r) ==
    /\ req[r].at = "committed"
    /\ Invalidate(req[r].inst)
    /\ promised' = [promised EXCEPT ![req[r].inst] = table]
    /\ req' = [req EXCEPT ![r] = Idle(req[r].inst)]
    /\ UNCHANGED <<now, table, replaced>>

\* Another process (bootstrap-admin, psql) writes the table: no cache hears.
SetElsewhere == CommitSettings /\ UNCHANGED <<now, cache, req, promised>>

\* The process dies: its cache and its requests with it.
Restart(i) ==
    /\ Invalidate(i)
    /\ req' = [r \in Requests |-> IF req[r].inst = i THEN Idle(i) ELSE req[r]]
    /\ UNCHANGED <<now, table, replaced, promised>>

\* MaxRead is an assumption on the machine, not something the code enforces.
Tick == /\ \A r \in Requests : req[r].at = "fetched" => now - req[r].took < MaxRead
        /\ Advance
        /\ UNCHANGED <<table, cache, req, replaced, promised>>

Next == \/ \E r \in Requests :
              \/ ReadCached(r) \/ ReadMisses(r) \/ Query(r) \/ QueryFails(r)
              \/ FillCache(r) \/ Finish(r) \/ SetSetting(r) \/ InvalidateCache(r)
        \/ SetElsewhere
        \/ \E i \in Instances : Restart(i)
        \/ Tick

Spec == Init /\ [][Next]_vars

-----------------------------------------------------------------------------
(* Properties.                                                             *)

\* cacheTTL "bounds how long a policy change takes to reach every request
\* path": a value a request uses was still the committed one at most the TTL,
\* plus the time a slow reader took to store it, before the request began.
StaleAtMostTTL ==
    \A r \in Requests :
        (req[r].at = "served" /\ ~req[r].failed /\ req[r].value < table)
            => req[r].begun < replaced[req[r].value] + CacheTTL + MaxRead

\* "Call it after a settings transaction commits, so the operator's next
\* request reflects the change immediately."  Violated: a request that read
\* the table before the commit stores the old values after Invalidate.
NextRequestSeesChange ==
    \A r \in Requests :
        (req[r].at = "served" /\ ~req[r].failed) => req[r].value >= req[r].floor
=============================================================================
