------------------------------- MODULE ModelCache --------------------------------
(***************************************************************************)
(* The serving process: the ModelCache that a background thread refreshes  *)
(* from the MLflow registry (refresh, refresh_loop), and the requests      *)
(* POST /predict that are answered from it and logged in                   *)
(* ops.model_predictions.                                                  *)
(*                                                                         *)
(* A refresh asks the registry, horizon after horizon, which version has   *)
(* the alias @production, and only if that is not the version in memory    *)
(* loads models:/<name>@production -- a second question to the registry,   *)
(* to which the answer may be another one by then -- and swaps the pair    *)
(* (model, version) in under a lock.                                       *)
(*                                                                         *)
(* A request runs in a thread of its own: it takes the pair out once,      *)
(* predicts, adds its row to the session and answers; the dependency       *)
(* get_db commits the session after the answer is out.                     *)
(*                                                                         *)
(* An operator whose name starts with Faulty is not part of the model: it  *)
(* is the definition after it with a bug in it, kept to show that the      *)
(* properties notice the bug.                                              *)
(***************************************************************************)
EXTENDS Naturals, Sequences

CONSTANTS
  Horizons,      \* the length of ModelCache.horizons (2 in the code)
  Deployed,      \* the horizons with a version in production from the start
  Requests,      \* POST /predict requests
  MaxVersions,   \* bound: versions registered of a model
  MaxMoves,      \* bound: times an operator moves an alias by hand
  MaxFaults,     \* bound: registry calls and commits that fail, of each horizon
  MaxStops       \* bound: times the serving process stops

Hs == 1 .. Horizons

ASSUME CacheAssumption ==
  /\ Horizons \in Nat \ {0} /\ Deployed \subseteq Hs
  /\ MaxVersions \in Nat \ {0} /\ MaxMoves \in Nat
  /\ MaxFaults \in Nat /\ MaxStops \in Nat

VARIABLES
  latest,      \* latest[h]: how many versions of the model for h are registered
  production,  \* production[h]: the version with the alias @production, 0 if none
  api,         \* the process: down, starting (lifespan before its yield), serving
  cache,       \* cache[h]: ModelCache._models
  refresh,     \* the refresh under way, if any
  request,     \* request[r]: what became of the request r
  log,         \* committed ops.model_predictions: request -> row
  faults,      \* faults[h]: registry calls and commits for h that failed
  moves, stops

registry == <<latest, production, moves>>
process  == <<api, cache, refresh>>
vars     == <<latest, production, api, cache, refresh, request, log, moves, faults, stops>>

Versions == 0 .. MaxVersions         \* 0: none

NoModel  == [model |-> 0, version |-> 0]
Loaded   == [model : Versions, version : Versions]
Asleep   == [pc |-> "sleep", h |-> 1, resolved |-> 0, model |-> 0]
Awake(h) == [pc |-> "resolve", h |-> h, resolved |-> 0, model |-> 0]
Unborn   == [pc |-> "idle", h |-> 1, loaded |-> NoModel]

--------------------------------------------------------------------------------
(* The registry: training promotes new versions, an operator moves aliases. *)

\* registry.promote of a newly registered version, by a training cycle.
Promote(h) ==
  /\ latest[h] < MaxVersions
  /\ latest' = [latest EXCEPT ![h] = @ + 1]
  /\ production' = [production EXCEPT ![h] = latest'[h]]
  /\ UNCHANGED <<api, cache, refresh, request, log, moves, faults, stops>>

\* "move the alias manually" in the MLflow UI, to any registered version.
MoveAlias(h, v) ==
  /\ moves < MaxMoves
  /\ v \in 1 .. latest[h] /\ v # production[h]
  /\ production' = [production EXCEPT ![h] = v]
  /\ moves' = moves + 1
  /\ UNCHANGED <<latest, api, cache, refresh, request, log, faults, stops>>

--------------------------------------------------------------------------------
(* The process and its refresh.                                            *)

\* The first refresh is left to the background loop.
FaultyBoot ==
  /\ api = "down"
  /\ api' = "serving" /\ refresh' = Awake(1)
  /\ UNCHANGED <<latest, production, cache, request, log, moves, faults, stops>>

\* lifespan: a refresh of its own before the first request is let in.
Boot ==
  /\ api = "down"
  /\ api' = "starting" /\ refresh' = Awake(1)
  /\ UNCHANGED <<latest, production, cache, request, log, moves, faults, stops>>

\* On to the next horizon; after the last one the startup lets requests in and
\* starts refresh_loop, which refreshes before it sleeps.
Proceed ==
  IF refresh.h < Horizons
    THEN refresh' = Awake(refresh.h + 1) /\ UNCHANGED api
    ELSE /\ api' = "serving"
         /\ refresh' = IF api = "starting" THEN Awake(1) ELSE Asleep

\* The sleep of refresh_loop is over.
Tick ==
  /\ api = "serving" /\ refresh.pc = "sleep"
  /\ refresh' = Awake(1)
  /\ UNCHANGED <<latest, production, api, cache, request, log, moves, faults, stops>>

\* get_model_version_by_alias finds no version with the alias, or finds the one
\* that is in memory already.
Unchanged ==
  /\ refresh.pc = "resolve"
  /\ production[refresh.h] \in {0, cache[refresh.h].version}
  /\ Proceed
  /\ UNCHANGED <<latest, production, cache, request, log, moves, faults, stops>>

\* It finds another one.
Resolve ==
  /\ refresh.pc = "resolve"
  /\ production[refresh.h] \notin {0, cache[refresh.h].version}
  /\ refresh' = [refresh EXCEPT !.pc = "load", !.resolved = production[refresh.h]]
  /\ UNCHANGED <<latest, production, api, cache, request, log, moves, faults, stops>>

\* mlflow.pyfunc.load_model("models:/...@production") resolves the alias again.
Load ==
  /\ refresh.pc = "load"
  /\ refresh' = [refresh EXCEPT !.pc = "swap", !.model = production[refresh.h]]
  /\ UNCHANGED <<latest, production, api, cache, request, log, moves, faults, stops>>

\* The version is asked for when the model has been loaded.
FaultyEntry == [model |-> refresh.model, version |-> production[refresh.h]]

\* LoadedModel(model=model, version=version_info.version).
Entry == [model |-> refresh.model, version |-> refresh.resolved]

\* The assignment under the lock.
Swap ==
  /\ refresh.pc = "swap"
  /\ cache' = [cache EXCEPT ![refresh.h] = Entry]
  /\ Proceed
  /\ UNCHANGED <<latest, production, request, log, moves, faults, stops>>

\* The refresh ends with the horizon whose call raises.
FaultyRegistryFault ==
  /\ refresh.pc \in {"resolve", "load"}
  /\ faults[refresh.h] < MaxFaults
  /\ faults' = [faults EXCEPT ![refresh.h] = @ + 1]
  /\ api' = "serving" /\ refresh' = Asleep
  /\ UNCHANGED <<latest, production, cache, request, log, moves, stops>>

\* Either call raises: this horizon is left as it is until the next refresh.
RegistryFault ==
  /\ refresh.pc \in {"resolve", "load"}
  /\ faults[refresh.h] < MaxFaults
  /\ faults' = [faults EXCEPT ![refresh.h] = @ + 1]
  /\ Proceed
  /\ UNCHANGED <<latest, production, cache, request, log, moves, stops>>

RefreshStep == Tick \/ Unchanged \/ Resolve \/ Load \/ Swap

--------------------------------------------------------------------------------
(* Requests.                                                               *)

\* The dependency get_db opens a session.
Arrive(r, h) ==
  /\ api = "serving" /\ request[r].pc = "idle"
  /\ request' = [request EXCEPT ![r].pc = "arrived", ![r].h = h]
  /\ UNCHANGED <<latest, production, api, cache, refresh, log, moves, faults, stops>>

\* model_cache.get, under the lock; 503 when there is no model.
Get(r) ==
  /\ request[r].pc = "arrived"
  /\ LET m == cache[request[r].h]
     IN  request' = [request EXCEPT ![r].pc = IF m = NoModel THEN "unavailable" ELSE "got",
                                    ![r].loaded = m]
  /\ UNCHANGED <<latest, production, api, cache, refresh, log, moves, faults, stops>>

\* 404 when there is no observation to build features from; or building them or
\* the model raises, a 500.  Nothing was added to the session.
Decline(r) ==
  /\ request[r].pc = "got"
  /\ request' = [request EXCEPT ![r].pc = "declined"]
  /\ UNCHANGED <<latest, production, api, cache, refresh, log, moves, faults, stops>>

\* The pair used for the answer and for the row is looked up once more.
FaultyAnswer(r) ==
  /\ request[r].pc = "got"
  /\ request' = [request EXCEPT ![r].pc = "answered",
                                ![r].loaded.version = cache[request[r].h].version]
  /\ UNCHANGED <<latest, production, api, cache, refresh, log, moves, faults, stops>>

\* loaded.model predicts, the row is added to the session, the answer goes out.
Answer(r) ==
  /\ request[r].pc = "got"
  /\ request' = [request EXCEPT ![r].pc = "answered"]
  /\ UNCHANGED <<latest, production, api, cache, refresh, log, moves, faults, stops>>

RowOf(r) == [h |-> request[r].h, version |-> request[r].loaded.version]

\* get_db resumes after its yield: session_scope commits the row.
CommitRow(r) ==
  /\ request[r].pc = "answered"
  /\ log' = [x \in DOMAIN log \cup {r} |-> IF x = r THEN RowOf(r) ELSE log[x]]
  /\ request' = [request EXCEPT ![r].pc = "logged"]
  /\ UNCHANGED <<latest, production, api, cache, refresh, moves, faults, stops>>

\* ... or the commit raises, when the answer is out already.
CommitFails(r) ==
  /\ request[r].pc = "answered"
  /\ faults[request[r].h] < MaxFaults
  /\ faults' = [faults EXCEPT ![request[r].h] = @ + 1]
  /\ request' = [request EXCEPT ![r].pc = "unlogged"]
  /\ UNCHANGED <<latest, production, api, cache, refresh, log, moves, stops>>

\* What becomes of a request when the process stops under it.
Cut(s) ==
  IF s.pc = "answered" THEN [s EXCEPT !.pc = "unlogged"]
  ELSE IF s.pc \in {"arrived", "got"} THEN [s EXCEPT !.pc = "declined"]
  ELSE s

\* The process is stopped or killed: the cache and every session are gone.
Stop ==
  /\ api # "down" /\ stops < MaxStops
  /\ stops' = stops + 1
  /\ api' = "down" /\ refresh' = Asleep
  /\ cache' = [h \in Hs |-> NoModel]
  /\ request' = [r \in Requests |-> Cut(request[r])]
  /\ UNCHANGED <<latest, production, log, moves, faults>>

--------------------------------------------------------------------------------
Init ==
  /\ latest = [h \in Hs |-> IF h \in Deployed THEN 1 ELSE 0]
  /\ production = latest
  /\ api = "down" /\ refresh = Asleep
  /\ cache = [h \in Hs |-> NoModel]
  /\ request = [r \in Requests |-> Unborn]
  /\ log = [r \in {} |-> Unborn]
  /\ faults = [h \in Hs |-> 0]
  /\ moves = 0 /\ stops = 0

RequestStep(r) == Get(r) \/ Decline(r) \/ Answer(r) \/ CommitRow(r) \/ CommitFails(r)

Next ==
  \/ \E h \in Hs : Promote(h) \/ \E v \in Versions : MoveAlias(h, v)
  \/ Boot \/ RefreshStep \/ RegistryFault \/ Stop
  \/ \E r \in Requests : RequestStep(r) \/ \E h \in Hs : Arrive(r, h)

Spec == Init /\ [][Next]_vars

\* The background thread keeps running while the process does: the registry
\* answers or a call to it raises, and the event loop wakes the loop up again.
FairSpec == Spec /\ WF_vars(RefreshStep)

--------------------------------------------------------------------------------
(* What makes serving correct.                                             *)

\* Every variable stays in its type, and aliases name registered versions.
TypeOK ==
  /\ latest \in [Hs -> Versions]
  /\ production \in [Hs -> Versions] /\ \A h \in Hs : production[h] <= latest[h]
  /\ api \in {"down", "starting", "serving"}
  /\ cache \in [Hs -> Loaded]
  /\ refresh \in [pc : {"sleep", "resolve", "load", "swap"}, h : Hs,
                  resolved : Versions, model : Versions]
  /\ request \in [Requests -> [pc : {"idle", "arrived", "got", "unavailable", "declined",
                                    "answered", "logged", "unlogged"},
                              h : Hs, loaded : Loaded]]
  /\ DOMAIN log \subseteq Requests
  /\ \A r \in DOMAIN log : log[r] \in [h : Hs, version : Versions]
  /\ faults \in [Hs -> 0 .. MaxFaults] /\ moves \in 0 .. MaxMoves /\ stops \in 0 .. MaxStops

\* As long as versions are only promoted, in the order of their registration, the
\* log may call a prediction older than it is, never newer: the version of a logged
\* row is a version of the request's horizon no later than the one whose model
\* predicted -- whatever was promoted between the two questions of the refresh, and
\* whatever was swapped in while the request ran.
LogNotAhead ==
  moves = 0 =>
    \A r \in DOMAIN log :
      /\ log[r].h = request[r].h
      /\ 1 <= log[r].version /\ log[r].version <= request[r].loaded.model
      /\ request[r].loaded.model <= latest[log[r].h]

\* "A synchronous initial load so the very first requests aren't served against
\* an empty cache" (lifespan): where a version was in production all the time,
\* only a failed call for that very horizon makes a request for it fail with 503;
\* a failure for another horizon does not, whichever comes first in the refresh.
AvailableAfterStart ==
  \A r \in Requests :
    request[r].pc = "unavailable" /\ request[r].h \in Deployed => faults[request[r].h] > 0

\* What the cache holds once things have settled.
Current(h) == production[h] # 0 => cache[h].model = production[h]

\* As long as versions are only promoted, in their order: if the process stays up, the model in
\* memory becomes and stays the one in production (refresh_loop), although each
\* refresh asks the registry twice and any of its calls may fail.
FollowsPromotions ==
  \A h \in Hs : <>[](api = "serving") => <>[](moves = 0 => Current(h))

\* "Holds the current @production model per horizon in memory, refreshed on a
\* background timer" (ModelCache), whoever moves the alias.  The code does not
\* keep this: an alias moved away and back during a refresh leaves it a model
\* that no later refresh replaces.
ServesProduction ==
  \A h \in Hs : <>[](api = "serving") => <>[]Current(h)

--------------------------------------------------------------------------------
(* Why it is correct: the inductive invariant.                             *)

InFlight == {"arrived", "got", "answered"}

\* Where the process is and where its refresh and its requests are fit together,
\* and what a refresh has in hand was in production when it asked.
Placed ==
  /\ api = "down" => refresh.pc = "sleep"
  /\ api = "starting" => refresh.pc # "sleep"
  /\ \A r \in Requests : request[r].pc \in InFlight => api = "serving"
  /\ \A h \in Deployed : production[h] # 0
  /\ refresh.pc \in {"load", "swap"} => refresh.resolved # 0 /\ production[refresh.h] # 0
  /\ refresh.pc = "swap" => refresh.model # 0

\* Without failed calls for it, whatever has been refreshed once has its model.
Filled ==
  /\ \A h \in Deployed :
       faults[h] = 0 /\ (api = "serving" \/ (api = "starting" /\ h < refresh.h)) =>
         cache[h].version # 0
  /\ AvailableAfterStart

\* m is labelled with a version no later than the model's, both registered for h.
Ordered(m, h) == m.version <= m.model /\ m.model <= latest[h]

\* With promotions only, time orders labels and models everywhere on their way
\* from the registry to the log.
Labelled ==
  moves = 0 =>
    /\ production = latest
    /\ refresh.pc \in {"load", "swap"} => refresh.resolved <= latest[refresh.h]
    /\ refresh.pc = "swap" => refresh.resolved <= refresh.model
                              /\ refresh.model <= latest[refresh.h]
    /\ \A h \in Hs : Ordered(cache[h], h)
    /\ \A r \in Requests : Ordered(request[r].loaded, request[r].h)

\* A model in memory has a label; so has the model of an answer, and a row of the
\* log is its request's.
Named ==
  /\ \A h \in Hs : cache[h] # NoModel => cache[h].version # 0
  /\ \A r \in Requests :
       /\ request[r].pc = "idle" => request[r].loaded = NoModel
       /\ request[r].pc \in {"got", "answered", "logged", "unlogged"} =>
            request[r].loaded.version # 0
  /\ \A r \in DOMAIN log : request[r].pc = "logged" /\ log[r] = RowOf(r)

\* Holds initially, is kept by every step, and implies the invariants above.
IndInv == TypeOK /\ Placed /\ Filled /\ Labelled /\ Named

================================================================================
