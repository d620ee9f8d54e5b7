---------------------------- MODULE ModelCacheProofs -----------------------------
(***************************************************************************)
(* The serving process, for any number of horizons, requests, versions and *)
(* failures: the inductive invariant and what follows from it.             *)
(***************************************************************************)
EXTENDS ModelCache, TLAPS

USE CacheAssumption

\* The state before the first step satisfies the invariant.
LEMMA InitInv == Init => IndInv
<1> SUFFICES ASSUME Init PROVE IndInv
  OBVIOUS
<1>1. /\ 1 \in Hs /\ Deployed \subseteq Hs /\ {0, 1} \subseteq Versions
      /\ NoModel \in Loaded /\ NoModel.version = 0 /\ NoModel.model = 0
  BY DEF Hs, Versions, NoModel, Loaded
<1>2. \A h \in Hs : latest[h] \in {0, 1} /\ production[h] = latest[h]
                    /\ (h \in Deployed => latest[h] = 1) /\ cache[h] = NoModel
  BY DEF Init
<1>3. \A r \in Requests : request[r].pc = "idle" /\ request[r].h = 1
                          /\ request[r].loaded = NoModel
  BY DEF Init, Unborn
<1>4. refresh.pc = "sleep" /\ api = "down" /\ moves = 0 /\ stops = 0
      /\ faults \in [Hs -> 0 .. MaxFaults] /\ DOMAIN log = {}
  BY DEF Init, Asleep
<1>5. TypeOK
  <2>1. latest \in [Hs -> Versions] /\ production \in [Hs -> Versions] /\ cache \in [Hs -> Loaded]
    BY <1>1 DEF Init
  <2>2. refresh \in [pc : {"sleep", "resolve", "load", "swap"}, h : Hs,
                     resolved : Versions, model : Versions]
    BY <1>1 DEF Init, Asleep
  <2>3. request \in [Requests -> [pc : {"idle", "arrived", "got", "unavailable", "declined",
                                        "answered", "logged", "unlogged"},
                                  h : Hs, loaded : Loaded]]
    BY <1>1 DEF Init, Unborn
  <2> QED
    BY <1>2, <1>4, <2>1, <2>2, <2>3 DEF TypeOK, Versions
<1>6. Placed
  BY <1>1, <1>2, <1>3, <1>4 DEF Placed, InFlight
<1>7. Filled
  BY <1>3, <1>4 DEF Filled, AvailableAfterStart
<1>8. Labelled
  BY <1>1, <1>2, <1>3, <1>4 DEF Labelled, Ordered, Init
<1>9. Named
  BY <1>2, <1>3, <1>4 DEF Named
<1> QED
  BY <1>5, <1>6, <1>7, <1>8, <1>9 DEF IndInv

\* The types of the refresh and of the requests.
RefreshType == [pc : {"sleep", "resolve", "load", "swap"}, h : Hs,
                resolved : Versions, model : Versions]
RequestType == [pc : {"idle", "arrived", "got", "unavailable", "declined",
                      "answered", "logged", "unlogged"},
                h : Hs, loaded : Loaded]

\* Where a refresh goes when it is done with a horizon.
LEMMA ProceedStep ==
  ASSUME refresh \in RefreshType, Proceed
  PROVE  /\ refresh' \in RefreshType
         /\ refresh'.pc \in {"sleep", "resolve"}
         /\ \/ /\ api' = api /\ refresh'.h = refresh.h + 1 /\ refresh'.pc = "resolve"
            \/ /\ refresh.h = Horizons /\ api' = "serving"
<1>1. 1 \in Hs /\ 0 \in Versions /\ refresh.h \in Hs
  BY DEF Hs, Versions, RefreshType
<1>2. CASE refresh.h < Horizons
  <2>1. refresh.h + 1 \in Hs
    BY <1>1, <1>2 DEF Hs
  <2> QED
    BY <1>1, <1>2, <2>1 DEF Proceed, Awake, RefreshType
<1>3. CASE ~ (refresh.h < Horizons)
  <2>1. refresh.h = Horizons
    BY <1>1, <1>3 DEF Hs
  <2> QED
    BY <1>1, <1>3, <2>1 DEF Proceed, Awake, Asleep, RefreshType
<1> QED
  BY <1>2, <1>3

\* What a step of the process of request r does to the requests: r moves on and
\* takes at most the model that is in memory; the other requests stay.
OnlyRequest(r) ==
  /\ request' \in [Requests -> RequestType]
  /\ \A x \in Requests \ {r} : request'[x] = request[x]

\* A step of a request: it changes that request and, on a commit, the log.
LEMMA RequestMoves ==
  ASSUME NEW r \in Requests, TypeOK,
         RequestStep(r) \/ \E h \in Hs : Arrive(r, h)
  PROVE  /\ OnlyRequest(r)
         /\ \/ /\ request[r].pc = "idle" /\ api = "serving" /\ UNCHANGED log
               /\ request'[r].pc = "arrived"
               /\ request'[r].loaded = request[r].loaded
            \/ /\ request[r].pc = "arrived" /\ UNCHANGED log
               /\ request'[r].pc = IF cache[request[r].h] = NoModel THEN "unavailable" ELSE "got"
               /\ request'[r].loaded = cache[request[r].h] /\ request'[r].h = request[r].h
            \/ /\ request[r].pc \in {"got", "answered"} /\ UNCHANGED log
               /\ request'[r].pc \in {"declined", "answered", "unlogged"}
               /\ request[r].pc # "got" => request'[r].pc = "unlogged"
               /\ request'[r].loaded = request[r].loaded /\ request'[r].h = request[r].h
            \/ /\ CommitRow(r) /\ request'[r].pc = "logged"
               /\ request'[r].loaded = request[r].loaded /\ request'[r].h = request[r].h
<1>1. request \in [Requests -> RequestType] /\ cache \in [Hs -> Loaded]
  BY DEF TypeOK, RequestType
<1>2. request[r] \in RequestType
  BY <1>1
<1>3. ASSUME NEW h \in Hs, Arrive(r, h)
      PROVE  /\ OnlyRequest(r) /\ UNCHANGED log /\ request[r].pc = "idle" /\ api = "serving"
             /\ request'[r].pc = "arrived" /\ request'[r].loaded = request[r].loaded
  BY <1>1, <1>2, <1>3 DEF Arrive, OnlyRequest, RequestType
<1>4. CASE Get(r)
  <2>1. PICK m \in Loaded : m = cache[request[r].h]
    BY <1>1, <1>2 DEF RequestType
  <2>2. PICK pc \in {"unavailable", "got"} : pc = IF m = NoModel THEN "unavailable" ELSE "got"
    OBVIOUS
  <2>3. request' = [request EXCEPT ![r].pc = pc, ![r].loaded = m] /\ UNCHANGED log
        /\ request[r].pc = "arrived"
    BY <1>4, <2>1, <2>2 DEF Get
  <2>4. OnlyRequest(r)
    BY <1>1, <1>2, <2>3 DEF OnlyRequest, RequestType
  <2>5. request'[r].pc = pc /\ request'[r].loaded = m /\ request'[r].h = request[r].h
    BY <1>1, <1>2, <2>3 DEF RequestType
  <2> QED
    BY <2>1, <2>2, <2>3, <2>4, <2>5
<1>5. ASSUME Decline(r) \/ Answer(r) \/ CommitFails(r)
      PROVE  /\ OnlyRequest(r) /\ UNCHANGED log /\ request[r].pc \in {"got", "answered"}
             /\ request'[r].pc \in {"declined", "answered", "unlogged"}
             /\ request[r].pc # "got" => request'[r].pc = "unlogged"
             /\ request'[r].loaded = request[r].loaded /\ request'[r].h = request[r].h
  BY <1>1, <1>2, <1>5 DEF Decline, Answer, CommitFails, OnlyRequest, RequestType
<1>6. ASSUME CommitRow(r)
      PROVE  /\ OnlyRequest(r) /\ request'[r].pc = "logged"
             /\ request'[r].loaded = request[r].loaded /\ request'[r].h = request[r].h
  BY <1>1, <1>2, <1>6 DEF CommitRow, OnlyRequest, RequestType
<1> QED
  BY <1>3, <1>4, <1>5, <1>6 DEF RequestStep

\* Failures are counted, never forgotten.
Counted ==
  /\ faults' \in [Hs -> 0 .. MaxFaults]
  /\ \A h \in Hs : faults[h] \in Nat /\ faults'[h] \in Nat /\ (faults'[h] = 0 => faults[h] = 0)

LEMMA FaultCounted ==
  ASSUME TypeOK,
         \/ UNCHANGED faults
         \/ \E h \in Hs : faults[h] < MaxFaults /\ faults' = [faults EXCEPT ![h] = @ + 1]
  PROVE  Counted
<1>1. faults \in [Hs -> 0 .. MaxFaults]
  BY DEF TypeOK
<1>2. CASE UNCHANGED faults
  BY <1>1, <1>2 DEF Counted
<1>3. ASSUME NEW h \in Hs, faults[h] < MaxFaults, faults' = [faults EXCEPT ![h] = @ + 1]
      PROVE  Counted
  <2>1. faults[h] + 1 \in 1 .. MaxFaults
    BY <1>1, <1>3
  <2> QED
    BY <1>1, <1>3, <2>1 DEF Counted
<1> QED
  BY <1>2, <1>3

\* The inductive invariant, on the steps of requests.
LEMMA RequestKeeps ==
  ASSUME IndInv, NEW r \in Requests, RequestStep(r) \/ \E h \in Hs : Arrive(r, h)
  PROVE  IndInv'
<1>1. TypeOK /\ Placed /\ Filled /\ Labelled /\ Named
  BY DEF IndInv
<1>2. UNCHANGED <<latest, production, api, cache, refresh, moves, stops>> /\ Counted
  <2>1. /\ UNCHANGED <<latest, production, api, cache, refresh, moves, stops>>
        /\ \/ UNCHANGED faults
           \/ /\ faults[request[r].h] < MaxFaults
              /\ faults' = [faults EXCEPT ![request[r].h] = @ + 1]
    BY DEF RequestStep, Arrive, Get, Decline, Answer, CommitRow, CommitFails
  <2>2. request[r].h \in Hs
    BY <1>1 DEF TypeOK
  <2> QED
    BY <1>1, <2>1, <2>2, FaultCounted
<1>3. /\ OnlyRequest(r)
      /\ \/ /\ request[r].pc = "idle" /\ api = "serving" /\ UNCHANGED log
            /\ request'[r].pc = "arrived"
            /\ request'[r].loaded = request[r].loaded
         \/ /\ request[r].pc = "arrived" /\ UNCHANGED log
            /\ request'[r].pc = IF cache[request[r].h] = NoModel THEN "unavailable" ELSE "got"
            /\ request'[r].loaded = cache[request[r].h] /\ request'[r].h = request[r].h
         \/ /\ request[r].pc \in {"got", "answered"} /\ UNCHANGED log
            /\ request'[r].pc \in {"declined", "answered", "unlogged"}
            /\ request[r].pc # "got" => request'[r].pc = "unlogged"
            /\ request'[r].loaded = request[r].loaded /\ request'[r].h = request[r].h
         \/ /\ CommitRow(r) /\ request'[r].pc = "logged"
            /\ request'[r].loaded = request[r].loaded /\ request'[r].h = request[r].h
  BY <1>1, RequestMoves
<1>4. /\ request[r] \in RequestType /\ cache[request[r].h] \in Loaded /\ request[r].h \in Hs
      /\ request'[r] \in RequestType
  BY <1>1, <1>3 DEF TypeOK, OnlyRequest, RequestType
<1>5. \A x \in DOMAIN log' : request'[x].pc = "logged" /\ log'[x] = RowOf(x)'
      /\ log'[x] \in [h : Hs, version : Versions] /\ x \in Requests
  <2>1. \A x \in DOMAIN log : request[x].pc = "logged" /\ log[x] = RowOf(x)
        /\ log[x] \in [h : Hs, version : Versions] /\ x \in Requests
    BY <1>1 DEF Named, TypeOK
  <2>2. CASE UNCHANGED log /\ request[r].pc # "logged"
    BY <2>1, <2>2, <1>3 DEF OnlyRequest, RowOf
  <2>3. CASE CommitRow(r) /\ request'[r].pc = "logged"
             /\ request'[r].loaded = request[r].loaded /\ request'[r].h = request[r].h
    <3>1. DOMAIN log' = DOMAIN log \cup {r} /\ log'[r] = RowOf(r) /\ r \notin DOMAIN log
          /\ \A x \in DOMAIN log : log'[x] = log[x]
      BY <2>1, <2>3 DEF CommitRow
    <3>2. RowOf(r) \in [h : Hs, version : Versions] /\ RowOf(r)' = RowOf(r)
      BY <1>4, <2>3 DEF RowOf, RequestType, Loaded
    <3>3. \A x \in DOMAIN log : request'[x] = request[x]
      BY <2>1, <3>1, <1>3 DEF OnlyRequest
    <3> QED
      BY <2>1, <2>3, <3>1, <3>2, <3>3 DEF RowOf
  <2> QED
    BY <1>3, <2>2, <2>3
<1>6. TypeOK'
  BY <1>1, <1>2, <1>3, <1>5 DEF TypeOK, OnlyRequest, RequestType, Counted
<1>7. Placed'
  BY <1>1, <1>2, <1>3 DEF Placed, InFlight, OnlyRequest
<1>8. Filled'
  <2>1. \A h \in Deployed : h \in Hs /\ faults[h] \in Nat /\ faults'[h] \in Nat
                          /\ (faults'[h] = 0 => faults[h] = 0)
    BY <1>2 DEF Counted
  <2>2. \A h \in Deployed :
          faults[h] = 0 /\ (api = "serving" \/ (api = "starting" /\ h < refresh.h)) =>
            cache[h].version # 0
    BY <1>1 DEF Filled
  <2>3. \A x \in Requests \ {r} :
          request[x].pc = "unavailable" /\ request[x].h \in Deployed => faults'[request[x].h] > 0
    BY <1>1, <2>1 DEF Filled, AvailableAfterStart
  <2>4. request[r].pc = "arrived" => api = "serving"
    BY <1>1 DEF Placed, InFlight
  <2>5. request'[r].pc = "unavailable" /\ request'[r].h \in Deployed => faults'[request'[r].h] > 0
    BY <1>3, <2>1, <2>2, <2>4 DEF NoModel
  <2>6. AvailableAfterStart'
    BY <1>3, <2>3, <2>5 DEF AvailableAfterStart, OnlyRequest
  <2> QED
    BY <1>2, <2>1, <2>2, <2>6 DEF Filled
<1>9. Labelled'
  <2>1. CASE moves # 0
    BY <1>2, <2>1 DEF Labelled
  <2>2. CASE moves = 0
    <3>1. \A h \in Hs : Ordered(cache[h], h)
      BY <1>1, <2>2 DEF Labelled
    <3>2. \A x \in Requests : Ordered(request[x].loaded, request[x].h)
      BY <1>1, <2>2 DEF Labelled
    <3>3. \A h \in Hs : latest[h] \in Nat
      BY <1>1 DEF TypeOK, Versions
    <3>4. request'[r].pc = "arrived" /\ request[r].pc = "idle" =>
            request'[r].loaded = NoModel
      BY <1>1, <1>3 DEF Named
    <3>5. Ordered(request'[r].loaded, request'[r].h)
      <4>1. CASE request'[r].loaded = NoModel
        BY <1>4, <4>1, <3>3 DEF Ordered, NoModel, RequestType
      <4>2. CASE request'[r].h = request[r].h
                 /\ request'[r].loaded \in {request[r].loaded, cache[request[r].h]}
        BY <1>4, <3>1, <3>2, <4>2
      <4> QED
        BY <1>3, <3>4, <4>1, <4>2
    <3>6. \A x \in Requests : Ordered(request'[x].loaded, request'[x].h)
      BY <1>3, <3>2, <3>5 DEF OnlyRequest
    <3>7. production = latest
          /\ (refresh.pc \in {"load", "swap"} => refresh.resolved <= latest[refresh.h])
          /\ (refresh.pc = "swap" => refresh.resolved <= refresh.model
                                     /\ refresh.model <= latest[refresh.h])
      BY <1>1, <2>2 DEF Labelled
    <3> QED
      BY <1>2, <3>1, <3>6, <3>7 DEF Labelled, Ordered
  <2> QED
    BY <2>1, <2>2
<1>10. Named'
  <2>1. \A h \in Hs : cache[h] # NoModel => cache[h].version # 0
    BY <1>1 DEF Named
  <2>2. \A x \in Requests :
          /\ request[x].pc = "idle" => request[x].loaded = NoModel
          /\ request[x].pc \in {"got", "answered", "logged", "unlogged"} =>
               request[x].loaded.version # 0
    BY <1>1 DEF Named
  <2>3. /\ request'[r].pc = "idle" => request'[r].loaded = NoModel
        /\ request'[r].pc \in {"got", "answered", "logged", "unlogged"} =>
             request'[r].loaded.version # 0
    <3>1. CommitRow(r) => request[r].pc = "answered"
      BY DEF CommitRow
    <3> QED
      BY <1>3, <1>4, <2>1, <2>2, <3>1
  <2>4. \A x \in DOMAIN log' : request'[x].pc = "logged" /\ log'[x] = RowOf(x)'
    BY <1>5
  <2> QED
    BY <1>2, <1>3, <2>1, <2>2, <2>3, <2>4 DEF Named, OnlyRequest
<1> QED
  BY <1>6, <1>7, <1>8, <1>9, <1>10 DEF IndInv

\* The inductive invariant, on what training and operators do to the registry.
LEMMA RegistryKeeps ==
  ASSUME IndInv, NEW h \in Hs, Promote(h) \/ \E v \in Versions : MoveAlias(h, v)
  PROVE  IndInv'
<1>1. TypeOK /\ Placed /\ Filled /\ Labelled /\ Named
  BY DEF IndInv
<1>2. UNCHANGED <<api, cache, refresh, request, log, faults, stops>>
  BY DEF Promote, MoveAlias
<1>3. latest \in [Hs -> Versions] /\ production \in [Hs -> Versions] /\ moves \in 0 .. MaxMoves
      /\ \A g \in Hs : production[g] <= latest[g]
  BY <1>1 DEF TypeOK
<1>4. PICK n \in Versions :
        /\ n # 0 /\ production' = [production EXCEPT ![h] = n]
        /\ \/ latest' = latest /\ moves' = moves + 1 /\ moves < MaxMoves /\ n <= latest[h]
           \/ latest' = [latest EXCEPT ![h] = n] /\ n = latest[h] + 1 /\ moves' = moves
  <2>1. CASE Promote(h)
    <3>1. PICK n \in Versions : n = latest[h] + 1 /\ n # 0
      BY <1>3, <2>1 DEF Promote, Versions
    <3>2. latest' = [latest EXCEPT ![h] = n] /\ latest'[h] = n
      BY <1>3, <2>1, <3>1 DEF Promote
    <3>3. production' = [production EXCEPT ![h] = n] /\ moves' = moves
      BY <2>1, <3>2 DEF Promote
    <3> QED
      BY <3>1, <3>2, <3>3
  <2>2. ASSUME NEW v \in Versions, MoveAlias(h, v)
        PROVE  /\ v # 0 /\ production' = [production EXCEPT ![h] = v]
               /\ latest' = latest /\ moves' = moves + 1 /\ moves < MaxMoves /\ v <= latest[h]
    BY <1>3, <2>2 DEF MoveAlias, Versions
  <2> QED
    BY <2>1, <2>2
<1>5. latest' \in [Hs -> Versions] /\ production' \in [Hs -> Versions]
  BY <1>3, <1>4
<1>6. moves' \in 0 .. MaxMoves /\ (moves' = 0 => moves = 0 /\ latest' = [latest EXCEPT ![h] = n])
  BY <1>3, <1>4
<1>7. \A g \in Hs : /\ production'[g] <= latest'[g] /\ latest[g] <= latest'[g]
                    /\ production[g] # 0 => production'[g] # 0
                    /\ {latest[g], latest'[g]} \subseteq Nat
  BY <1>3, <1>4, <1>5 DEF Versions
<1>8. TypeOK'
  BY <1>1, <1>2, <1>5, <1>6, <1>7 DEF TypeOK
<1>9. refresh.h \in Hs /\ refresh.model \in Nat /\ refresh.resolved \in Nat
      /\ (\A g \in Hs : cache[g] \in Loaded)
      /\ \A r \in Requests : request[r].h \in Hs /\ request[r].loaded \in Loaded
  BY <1>1 DEF TypeOK, Versions
<1>10. Placed'
  BY <1>1, <1>2, <1>7, <1>9 DEF Placed
<1>11. Filled'
  BY <1>1, <1>2 DEF Filled, AvailableAfterStart
<1>12. Labelled'
  <2> SUFFICES ASSUME moves' = 0 PROVE Labelled'
    BY DEF Labelled
  <2>1. production = latest
    BY <1>1, <1>6 DEF Labelled
  <2>2. production' = latest'
    BY <1>4, <1>6, <2>1
  <2>3. \A m \in Loaded, g \in Hs : Ordered(m, g) => Ordered(m, g)'
    BY <1>7 DEF Ordered, Loaded, Versions
  <2>4. /\ \A g \in Hs : Ordered(cache[g], g)
        /\ \A r \in Requests : Ordered(request[r].loaded, request[r].h)
    BY <1>1, <1>6 DEF Labelled
  <2>5. /\ \A g \in Hs : Ordered(cache[g], g)'
        /\ \A r \in Requests : Ordered(request[r].loaded, request[r].h)'
    BY <1>2, <1>9, <2>3, <2>4 DEF Ordered
  <2>6. /\ refresh.pc \in {"load", "swap"} => refresh.resolved <= latest'[refresh.h]
        /\ refresh.pc = "swap" => refresh.resolved <= refresh.model
                                  /\ refresh.model <= latest'[refresh.h]
    BY <1>1, <1>6, <1>7, <1>9 DEF Labelled
  <2> QED
    BY <1>2, <2>2, <2>5, <2>6 DEF Labelled
<1>13. Named'
  BY <1>1, <1>2 DEF Named, RowOf
<1> QED
  BY <1>8, <1>10, <1>11, <1>12, <1>13 DEF IndInv

\* A step of the refresh: what it has in hand and where it goes.
LEMMA RefreshMoves ==
  ASSUME TypeOK, Placed, RefreshStep \/ RegistryFault \/ Boot
  PROVE  /\ UNCHANGED <<latest, production, request, log, moves, stops>>
         /\ refresh' \in RefreshType
         /\ \/ /\ Boot \/ Tick
               /\ UNCHANGED <<cache, faults>> /\ refresh'.pc = "resolve" /\ refresh'.h = 1
               /\ (api = "down" /\ api' = "starting") \/ (api = "serving" /\ api' = "serving")
            \/ /\ Resolve \/ Load
               /\ UNCHANGED <<cache, faults, api>> /\ refresh'.h = refresh.h
               /\ \/ /\ refresh'.pc = "load" /\ refresh'.resolved = production[refresh.h]
                     /\ production[refresh.h] # 0
                  \/ /\ refresh.pc = "load" /\ refresh'.pc = "swap"
                     /\ refresh'.resolved = refresh.resolved
                     /\ refresh'.model = production[refresh.h]
            \/ /\ Proceed /\ refresh.pc # "sleep"
               /\ \/ /\ UNCHANGED <<cache, faults>>
                     /\ production[refresh.h] \in {0, cache[refresh.h].version}
                  \/ /\ UNCHANGED faults /\ refresh.pc = "swap"
                     /\ cache' = [cache EXCEPT ![refresh.h] = Entry]
                  \/ /\ UNCHANGED cache /\ faults[refresh.h] < MaxFaults
                     /\ faults' = [faults EXCEPT ![refresh.h] = @ + 1]
<1>1. /\ refresh \in RefreshType /\ refresh.h \in Hs /\ production[refresh.h] \in Versions
      /\ 1 \in Hs /\ 0 \in Versions /\ api \in {"down", "starting", "serving"}
  BY DEF TypeOK, RefreshType, Hs, Versions
<1>2. CASE Boot \/ Tick
  BY <1>1, <1>2 DEF Boot, Tick, Awake, RefreshType
<1>3. CASE Resolve
  <2>1. PICK v \in Versions : v = production[refresh.h] /\ v # 0
    BY <1>1, <1>3 DEF Resolve
  <2>2. refresh' = [refresh EXCEPT !.pc = "load", !.resolved = v]
    BY <1>3, <2>1 DEF Resolve
  <2> QED
    BY <1>1, <1>3, <2>1, <2>2 DEF Resolve, RefreshType
<1>4. CASE Load
  <2>1. PICK v \in Versions : v = production[refresh.h]
    BY <1>1
  <2>2. refresh' = [refresh EXCEPT !.pc = "swap", !.model = v]
    BY <1>4, <2>1 DEF Load
  <2> QED
    BY <1>1, <1>4, <2>1, <2>2 DEF Load, RefreshType
<1>5. CASE Unchanged
  BY <1>1, <1>5, ProceedStep DEF Unchanged
<1>6. CASE Swap
  BY <1>1, <1>6, ProceedStep DEF Swap
<1>7. CASE RegistryFault
  BY <1>1, <1>7, ProceedStep DEF RegistryFault
<1> QED
  BY <1>2, <1>3, <1>4, <1>5, <1>6, <1>7 DEF RefreshStep

\* The inductive invariant, on the steps of the refresh.
LEMMA RefreshKeeps ==
  ASSUME IndInv, RefreshStep \/ RegistryFault \/ Boot
  PROVE  IndInv'
<1>1. TypeOK /\ Placed /\ Filled /\ Labelled /\ Named
  BY DEF IndInv
<1>2. /\ UNCHANGED <<latest, production, request, log, moves, stops>>
      /\ refresh' \in RefreshType
  BY <1>1, RefreshMoves
<1>3. /\ refresh \in RefreshType /\ refresh.h \in Hs /\ refresh.h \in 1 .. Horizons
      /\ cache \in [Hs -> Loaded] /\ faults \in [Hs -> 0 .. MaxFaults]
      /\ api \in {"down", "starting", "serving"}
      /\ latest \in [Hs -> Versions] /\ production \in [Hs -> Versions]
      /\ \A g \in Hs : production[g] <= latest[g]
  BY <1>1 DEF TypeOK, RefreshType, Hs
<1>4. /\ api = "down" => refresh.pc = "sleep"
      /\ api = "starting" => refresh.pc # "sleep"
      /\ \A r \in Requests : request[r].pc \in InFlight => api = "serving"
      /\ \A g \in Deployed : production[g] # 0
      /\ refresh.pc \in {"load", "swap"} => refresh.resolved # 0 /\ production[refresh.h] # 0
      /\ refresh.pc = "swap" => refresh.model # 0
  BY <1>1 DEF Placed
\* The three kinds of steps, one conjunct of the invariant after the other.
<1>5. CASE (Boot \/ Tick) /\ UNCHANGED <<cache, faults>>
           /\ refresh'.pc = "resolve" /\ refresh'.h = 1
           /\ ((api = "down" /\ api' = "starting") \/ (api = "serving" /\ api' = "serving"))
  <2>1. TypeOK'
    BY <1>1, <1>2, <1>5 DEF TypeOK, RefreshType
  <2>2. Placed'
    BY <1>2, <1>4, <1>5 DEF Placed
  <2>3. Filled'
    BY <1>1, <1>2, <1>5 DEF Filled, AvailableAfterStart, Hs
  <2>4. Labelled'
    BY <1>1, <1>2, <1>5 DEF Labelled, Ordered
  <2>5. Named'
    BY <1>1, <1>2, <1>5 DEF Named, RowOf
  <2> QED
    BY <2>1, <2>2, <2>3, <2>4, <2>5 DEF IndInv
<1>6. CASE /\ UNCHANGED <<cache, faults, api>> /\ refresh'.h = refresh.h
           /\ Resolve \/ Load
           /\ \/ /\ refresh'.pc = "load" /\ refresh'.resolved = production[refresh.h]
                 /\ production[refresh.h] # 0
              \/ /\ refresh.pc = "load" /\ refresh'.pc = "swap"
                 /\ refresh'.resolved = refresh.resolved
                 /\ refresh'.model = production[refresh.h]
  <2>1. TypeOK'
    BY <1>1, <1>2, <1>6 DEF TypeOK, RefreshType
  <2>2. Placed'
    BY <1>2, <1>3, <1>4, <1>6 DEF Placed, Resolve, Load
  <2>3. Filled'
    BY <1>1, <1>2, <1>6 DEF Filled, AvailableAfterStart
  <2>4. Labelled'
    <3> SUFFICES ASSUME moves' = 0 PROVE Labelled'
      BY DEF Labelled
    <3>1. production[refresh.h] = latest[refresh.h] /\ latest[refresh.h] \in Nat
          /\ (refresh.pc = "load" => refresh.resolved <= latest[refresh.h])
      BY <1>1, <1>2, <1>3 DEF Labelled, Versions
    <3>2. /\ refresh'.pc \in {"load", "swap"} => refresh'.resolved <= latest[refresh.h]
          /\ refresh'.pc = "swap" => refresh'.resolved <= refresh'.model
                                     /\ refresh'.model <= latest[refresh.h]
      BY <1>6, <3>1
    <3> QED
      BY <1>1, <1>2, <1>6, <3>2 DEF Labelled, Ordered
  <2>5. Named'
    BY <1>1, <1>2, <1>6 DEF Named, RowOf
  <2> QED
    BY <2>1, <2>2, <2>3, <2>4, <2>5 DEF IndInv
<1>7. CASE /\ Proceed /\ refresh.pc # "sleep"
           /\ \/ /\ UNCHANGED <<cache, faults>>
                 /\ production[refresh.h] \in {0, cache[refresh.h].version}
              \/ /\ UNCHANGED faults /\ refresh.pc = "swap"
                 /\ cache' = [cache EXCEPT ![refresh.h] = Entry]
              \/ /\ UNCHANGED cache /\ faults[refresh.h] < MaxFaults
                 /\ faults' = [faults EXCEPT ![refresh.h] = @ + 1]
  <2>1. /\ refresh'.pc \in {"sleep", "resolve"} /\ api \in {"starting", "serving"}
        /\ \/ /\ api' = api /\ refresh'.h = refresh.h + 1 /\ refresh'.pc = "resolve"
           \/ /\ refresh.h = Horizons /\ api' = "serving"
    BY <1>3, <1>4, <1>7, ProceedStep
  <2>2. Entry \in Loaded /\ (refresh.pc = "swap" => Entry.version # 0)
    BY <1>3, <1>4 DEF Entry, Loaded, RefreshType
  <2>9. Counted
    BY <1>1, <1>3, <1>7, FaultCounted
  <2>3. /\ cache' \in [Hs -> Loaded]
        /\ \A g \in Hs : cache'[g] = cache[g] \/ (g = refresh.h /\ cache'[g] = Entry
                                                   /\ refresh.pc = "swap")
    BY <1>3, <1>7, <2>2
  <2>4. TypeOK'
    BY <1>1, <1>2, <2>1, <2>3, <2>9 DEF TypeOK, RefreshType, Counted
  <2>5. Placed'
    BY <1>2, <1>4, <2>1 DEF Placed
  <2>6. Filled'
    <3>1. \A g \in Deployed : g \in Hs /\ g \in 1 .. Horizons /\ faults[g] \in Nat
                              /\ faults'[g] \in Nat /\ (faults'[g] = 0 => faults[g] = 0)
      BY <2>9 DEF Counted, Hs
    <3>2. refresh.h \in Deployed /\ faults'[refresh.h] = 0 => cache'[refresh.h].version # 0
      BY <1>3, <1>4, <1>7, <2>2, <3>1
    <3>3. ASSUME NEW g \in Deployed, faults'[g] = 0,
                 api' = "serving" \/ (api' = "starting" /\ g < refresh'.h)
          PROVE  cache'[g].version # 0
      <4>1. CASE g = refresh.h
        BY <3>2, <3>3, <4>1
      <4>2. CASE g # refresh.h
        <5>1. api = "serving" \/ (api = "starting" /\ g < refresh.h)
          BY <1>3, <2>1, <3>1, <3>3, <4>2
        <5>2. cache[g].version # 0
          BY <1>1, <3>1, <3>3, <5>1 DEF Filled
        <5> QED
          BY <2>3, <3>1, <4>2, <5>2
      <4> QED
        BY <4>1, <4>2
    <3>4. AvailableAfterStart'
      BY <1>1, <1>2, <3>1 DEF Filled, AvailableAfterStart
    <3> QED
      BY <3>3, <3>4 DEF Filled
  <2>7. Labelled'
    <3> SUFFICES ASSUME moves' = 0 PROVE Labelled'
      BY DEF Labelled
    <3>1. /\ production' = latest'
          /\ \A r \in Requests : Ordered(request[r].loaded, request[r].h)'
          /\ \A g \in Hs : Ordered(cache[g], g)
          /\ refresh.pc = "swap" => Ordered(Entry, refresh.h)
      BY <1>1, <1>2 DEF Labelled, Ordered, Entry
    <3>2. \A g \in Hs : Ordered(cache[g], g)'
      BY <1>2, <2>3, <3>1 DEF Ordered
    <3> QED
      BY <2>1, <3>1, <3>2 DEF Labelled
  <2>8. Named'
    <3>1. \A g \in Hs : cache'[g] # NoModel => cache'[g].version # 0
      BY <1>1, <2>2, <2>3 DEF Named
    <3> QED
      BY <1>1, <1>2, <3>1 DEF Named, RowOf
  <2> QED
    BY <2>4, <2>5, <2>6, <2>7, <2>8 DEF IndInv
<1> QED
  BY <1>1, <1>5, <1>6, <1>7, RefreshMoves

\* The inductive invariant, when the process stops.
LEMMA StopKeeps ==
  ASSUME IndInv, Stop
  PROVE  IndInv'
<1>1. TypeOK /\ Placed /\ Filled /\ Labelled /\ Named
  BY DEF IndInv
<1>2. /\ UNCHANGED <<latest, production, log, moves, faults>>
      /\ api' = "down" /\ refresh' = Asleep /\ cache' = [h \in Hs |-> NoModel]
      /\ request' = [r \in Requests |-> Cut(request[r])]
      /\ stops < MaxStops /\ stops' = stops + 1
  BY DEF Stop
<1>3. NoModel \in Loaded /\ refresh' \in RefreshType /\ refresh'.pc = "sleep"
  BY <1>2 DEF NoModel, Loaded, Versions, Asleep, RefreshType, Hs
<1>4. \A r \in Requests :
        /\ request'[r] \in RequestType
        /\ request'[r].h = request[r].h /\ request'[r].loaded = request[r].loaded
        /\ request'[r].pc = request[r].pc
           \/ (request[r].pc = "answered" /\ request'[r].pc = "unlogged")
           \/ (request[r].pc \in {"arrived", "got"} /\ request'[r].pc = "declined")
        /\ request'[r].pc \notin InFlight
  <2> SUFFICES ASSUME NEW r \in Requests PROVE <1>4!(r)
    OBVIOUS
  <2>1. request[r] \in RequestType /\ request'[r] = Cut(request[r])
    BY <1>1, <1>2 DEF TypeOK, RequestType
  <2> QED
    BY <2>1 DEF Cut, RequestType, InFlight
<1>5. TypeOK'
  <2>1. request' \in [Requests -> RequestType] /\ cache' \in [Hs -> Loaded]
    BY <1>2, <1>3, <1>4
  <2>2. stops' \in 0 .. MaxStops
    BY <1>1, <1>2 DEF TypeOK
  <2> QED
    BY <1>1, <1>2, <1>3, <2>1, <2>2 DEF TypeOK, RefreshType, RequestType
<1>6. Placed'
  BY <1>1, <1>2, <1>3, <1>4 DEF Placed
<1>7. Filled'
  BY <1>1, <1>2, <1>4 DEF Filled, AvailableAfterStart
<1>8. Labelled'
  <2> SUFFICES ASSUME moves' = 0 PROVE Labelled'
    BY DEF Labelled
  <2>1. \A h \in Hs : latest[h] \in Nat
    BY <1>1 DEF TypeOK, Versions
  <2>2. \A h \in Hs : Ordered(cache[h], h)'
    BY <1>2, <2>1 DEF Ordered, NoModel
  <2> QED
    BY <1>1, <1>2, <1>3, <1>4, <2>2 DEF Labelled, Ordered
<1>9. Named'
  <2>1. \A h \in Hs : cache'[h] = NoModel
    BY <1>2
  <2>2. \A x \in DOMAIN log : x \in Requests
    BY <1>1 DEF TypeOK
  <2> QED
    BY <1>1, <1>2, <1>4, <2>1, <2>2 DEF Named, RowOf
<1> QED
  BY <1>5, <1>6, <1>7, <1>8, <1>9 DEF IndInv

\* Every reachable state satisfies the inductive invariant.
THEOREM Invariance == Spec => []IndInv
<1>1. ASSUME IndInv, [Next]_vars PROVE IndInv'
  <2>1. CASE UNCHANGED vars
    BY <1>1, <2>1 DEF vars, IndInv, TypeOK, Placed, Filled, AvailableAfterStart, Labelled,
                      Ordered, Named, RowOf
  <2>2. CASE Next
    BY <1>1, <2>2, RegistryKeeps, RefreshKeeps, StopKeeps, RequestKeeps DEF Next
  <2> QED
    BY <1>1, <2>1, <2>2
<1> QED
  BY <1>1, InitInv, PTL DEF Spec

\* Type correctness, aliases of registered versions included.
THEOREM TypeCorrect == Spec => []TypeOK
BY Invariance, PTL DEF IndInv

\* As long as nobody moves an alias back, the log never calls a prediction newer
\* than the model it came from.
THEOREM LogHonest == Spec => []LogNotAhead
<1>1. IndInv => LogNotAhead
  <2> SUFFICES ASSUME IndInv, moves = 0, NEW r \in DOMAIN log
               PROVE  /\ log[r].h = request[r].h
                      /\ 1 <= log[r].version /\ log[r].version <= request[r].loaded.model
                      /\ request[r].loaded.model <= latest[log[r].h]
    BY DEF LogNotAhead
  <2>1. r \in Requests /\ request[r].loaded.version \in Nat
    BY DEF IndInv, TypeOK, Loaded, Versions
  <2>2. log[r] = RowOf(r) /\ request[r].loaded.version # 0
    BY <2>1 DEF IndInv, Named
  <2>3. Ordered(request[r].loaded, request[r].h)
    BY <2>1 DEF IndInv, Labelled
  <2> QED
    BY <2>1, <2>2, <2>3 DEF RowOf, Ordered
<1> QED
  BY <1>1, Invariance, PTL

\* A horizon that had a model all the time answers from the first request on, as
\* long as no call for that very horizon fails, whatever fails for others.
THEOREM Available == Spec => []AvailableAfterStart
BY Invariance, PTL DEF IndInv, Filled
================================================================================
