----------------------------- MODULE TrainingProofs ------------------------------
(***************************************************************************)
(* Theorems about Training: its types, what a finished cycle reports, and  *)
(* how the aliases move; for any number of cycles, tries and horizons, any *)
(* errors and any threshold.                                               *)
(***************************************************************************)
EXTENDS Training, SequenceTheorems, TLAPS

--------------------------------------------------------------------------------
(* What a horizon that is begun, or filed, looks like.                     *)

LEMMA FreshFields ==
  ASSUME NEW c \in Cycles, cycle[c] \in CycleState, NEW pc \in PCs, NEW h \in Hs
  PROVE  LET t == Fresh(c, pc, h)
         IN  /\ t \in CycleState
             /\ t.pc = pc /\ t.h = h /\ t.tries = cycle[c].tries
             /\ t.compared = 0 /\ t.mine = 0 /\ t.summary = cycle[c].summary
  BY DEF Fresh, CycleState, Maes, NaN

LEMMA NextFields ==
  ASSUME NEW c \in Cycles, cycle[c] \in CycleState, NEW n \in Nat
  PROVE  LET s == cycle[c]
             t == NextHorizon(c, n)
         IN  /\ t \in CycleState
             /\ t.pc = (IF s.h < Horizons THEN "train" ELSE "close")
             /\ t.h = (IF s.h < Horizons THEN s.h + 1 ELSE s.h)
             /\ t.tries = s.tries /\ t.compared = 0 /\ t.mine = 0
             /\ t.summary = [s.summary EXCEPT ![s.h] = n]
  <1> DEFINE s == cycle[c]
  <1>1. s \in CycleState /\ s.h \in 1 .. Horizons /\ Horizons \in Nat
    BY NumbersAssumption DEF CycleState, Hs
  <1>2. CASE s.h < Horizons
    <2> DEFINE t == Fresh(c, "train", s.h + 1)
    <2>1. s.h + 1 \in Hs /\ "train" \in PCs
      BY <1>1, <1>2 DEF Hs, PCs, Running
    <2>2. /\ t \in CycleState
          /\ t.pc = "train" /\ t.h = s.h + 1 /\ t.tries = s.tries
          /\ t.compared = 0 /\ t.mine = 0 /\ t.summary = s.summary
      BY <2>1, FreshFields
    <2>3. NextHorizon(c, n) = [t EXCEPT !.summary[s.h] = n]
      BY <1>2 DEF NextHorizon
    <2>. HIDE DEF t
    <2>4. s.h \in Hs
      BY <1>1 DEF Hs
    <2>. QED
      BY <1>2, <2>2, <2>3, <2>4 DEF CycleState
  <1>3. CASE ~ (s.h < Horizons)
    <2> DEFINE t == Fresh(c, "close", s.h)
    <2>1. s.h \in Hs /\ "close" \in PCs
      BY <1>1 DEF Hs, PCs, Running
    <2>2. /\ t \in CycleState
          /\ t.pc = "close" /\ t.h = s.h /\ t.tries = s.tries
          /\ t.compared = 0 /\ t.mine = 0 /\ t.summary = s.summary
      BY <2>1, FreshFields
    <2>3. NextHorizon(c, n) = [t EXCEPT !.summary[s.h] = n]
      BY <1>3 DEF NextHorizon
    <2>. HIDE DEF t
    <2>. QED
      BY <1>3, <2>1, <2>2, <2>3 DEF CycleState
  <1>. QED
    BY <1>2, <1>3

--------------------------------------------------------------------------------
(* What each action does to the cycle that takes it.                       *)

\* Cycle c makes a move: the others stay as they are.
Moves(c) ==
  /\ cycle' \in [Cycles -> CycleState]
  /\ \A d \in Cycles \ {c} : cycle'[d] = cycle[d]

LEMMA Moving ==
  ASSUME TypeOK, NEW c \in Cycles, NEW t \in CycleState, cycle' = [cycle EXCEPT ![c] = t]
  PROVE  Moves(c) /\ cycle'[c] = t
  BY DEF TypeOK, Moves

LEMMA StartFields ==
  ASSUME TypeOK, NEW c \in Cycles, Start(c)
  PROVE  LET s == cycle[c]
             t == cycle'[c]
         IN  /\ Moves(c) /\ UNCHANGED <<registry, audit, faults, crashes>>
             /\ s.pc \in {"idle", "failed"} /\ MayStart(c)
             /\ t.pc = "train" /\ t.tries = s.tries + 1 /\ t.h = 1
             /\ t.compared = 0 /\ t.mine = 0 /\ t.summary = [h \in Hs |-> 0]
  <1> DEFINE s == cycle[c]
             f == Fresh(c, "train", 1)
             t == [f EXCEPT !.tries = @ + 1, !.summary = NoSummary]
  <1>1. s \in CycleState /\ s.tries \in Nat /\ s.tries + 1 \in 0 .. Tries /\ 1 \in Hs
    BY NumbersAssumption DEF TypeOK, CycleState, Hs, Start, TriesLeft
  <1>2. "train" \in PCs
    BY DEF PCs, Running
  <1>3. /\ f \in CycleState /\ f.pc = "train" /\ f.h = 1 /\ f.tries = s.tries
        /\ f.compared = 0 /\ f.mine = 0
    BY <1>1, <1>2, FreshFields
  <1>4. cycle' = [cycle EXCEPT ![c] = t] /\ UNCHANGED <<registry, audit, faults, crashes>>
    BY DEF Start, registry
  <1>5. s.pc \in {"idle", "failed"} /\ MayStart(c)
    BY DEF Start
  <1>. HIDE DEF f
  <1>6. /\ t \in CycleState /\ t.pc = "train" /\ t.tries = s.tries + 1 /\ t.h = 1
        /\ t.compared = 0 /\ t.mine = 0 /\ t.summary = [h \in Hs |-> 0]
    BY <1>1, <1>3 DEF CycleState, NoSummary
  <1>. HIDE DEF t
  <1>. QED
    BY <1>4, <1>5, <1>6, Moving

\* A horizon that is skipped or not promoted.
LEMMA DropFields ==
  ASSUME TypeOK, NEW c \in Cycles, SkipHorizon(c) \/ (Decide(c) /\ cycle'[c].pc # "register")
  PROVE  LET s == cycle[c]
             t == cycle'[c]
         IN  /\ Moves(c) /\ UNCHANGED <<registry, audit, faults, crashes>>
             /\ s.pc \in {"train", "decide"}
             /\ t.pc = (IF s.h < Horizons THEN "train" ELSE "close")
             /\ t.h = (IF s.h < Horizons THEN s.h + 1 ELSE s.h)
             /\ t.tries = s.tries /\ t.compared = 0 /\ t.mine = 0
             /\ t.summary = [s.summary EXCEPT ![s.h] = 0]
  <1> DEFINE n == NextHorizon(c, 0)
  <1>1. cycle[c] \in CycleState
    BY DEF TypeOK
  <1>2. /\ n \in CycleState
        /\ n.pc = (IF cycle[c].h < Horizons THEN "train" ELSE "close")
        /\ n.h = (IF cycle[c].h < Horizons THEN cycle[c].h + 1 ELSE cycle[c].h)
        /\ n.tries = cycle[c].tries /\ n.compared = 0 /\ n.mine = 0
        /\ n.summary = [cycle[c].summary EXCEPT ![cycle[c].h] = 0]
    BY <1>1, NextFields
  <1>. HIDE DEF n
  <1>3. /\ cycle[c].pc \in {"train", "decide"} /\ cycle' = [cycle EXCEPT ![c] = n]
        /\ UNCHANGED <<registry, audit, faults, crashes>>
    <2>1. CASE SkipHorizon(c)
      BY <2>1 DEF SkipHorizon, registry, n
    <2>2. CASE Decide(c) /\ cycle'[c].pc # "register"
      <3>1. ~ DecidePromotion(cycle[c].candidate, cycle[c].baseline, cycle[c].compared, cycle[c].prod)
        <4>1. SUFFICES ASSUME cycle' = [cycle EXCEPT ![c] = [@ EXCEPT !.pc = "register"]]
                       PROVE  FALSE
          BY <2>2 DEF Decide
        <4>. QED
          BY <2>2, <4>1 DEF TypeOK, CycleState
      <3>. QED
        BY <2>2, <3>1 DEF Decide, registry, n
    <2>. QED
      BY <2>1, <2>2
  <1>. QED
    BY <1>2, <1>3, Moving

LEMMA TrainFields ==
  ASSUME TypeOK, NEW c \in Cycles, NEW x \in Maes, NEW y \in Maes, Train(c, x, y)
  PROVE  LET s == cycle[c]
             t == cycle'[c]
         IN  /\ Moves(c) /\ UNCHANGED <<registry, audit, faults, crashes>>
             /\ s.pc = "train" /\ t.pc = "lookup" /\ t.tries = s.tries /\ t.h = s.h
             /\ t.compared = s.compared /\ t.mine = s.mine /\ t.summary = s.summary
  <1> DEFINE t == [cycle[c] EXCEPT !.pc = "lookup", !.candidate = x, !.baseline = y]
  <1>1. cycle' = [cycle EXCEPT ![c] = t] /\ cycle[c].pc = "train"
    BY DEF Train, TypeOK
  <1>2. UNCHANGED <<registry, audit, faults, crashes>>
    BY DEF Train, registry
  <1>3. cycle[c] \in CycleState
    BY DEF TypeOK
  <1>4. /\ t \in CycleState /\ t.pc = "lookup" /\ t.tries = cycle[c].tries /\ t.h = cycle[c].h
        /\ t.compared = cycle[c].compared /\ t.mine = cycle[c].mine
        /\ t.summary = cycle[c].summary
    BY <1>3 DEF CycleState, PCs, Running
  <1>. HIDE DEF t
  <1>. QED
    BY <1>1, <1>2, <1>4, Moving

LEMMA LookupFields ==
  ASSUME TypeOK, NEW c \in Cycles, Lookup(c)
  PROVE  LET s == cycle[c]
             t == cycle'[c]
         IN  /\ Moves(c) /\ UNCHANGED <<registry, audit, faults, crashes>>
             /\ s.pc = "lookup" /\ t.pc = (IF production[s.h] = 0 THEN "decide" ELSE "reevaluate")
             /\ t.tries = s.tries /\ t.h = s.h
             /\ t.compared = s.compared /\ t.mine = s.mine /\ t.summary = s.summary
  <1> DEFINE pc == IF production[cycle[c].h] = 0 THEN "decide" ELSE "reevaluate"
             t  == [cycle[c] EXCEPT !.pc = pc]
  <1>1. cycle' = [cycle EXCEPT ![c] = t] /\ cycle[c].pc = "lookup"
    BY DEF Lookup, Champion, TypeOK
  <1>2. UNCHANGED <<registry, audit, faults, crashes>>
    BY DEF Lookup, registry
  <1>3. cycle[c] \in CycleState
    BY DEF TypeOK
  <1>4. /\ t \in CycleState /\ t.pc = pc /\ t.tries = cycle[c].tries /\ t.h = cycle[c].h
        /\ t.compared = cycle[c].compared /\ t.mine = cycle[c].mine
        /\ t.summary = cycle[c].summary
    BY <1>3 DEF CycleState, PCs, Running
  <1>. HIDE DEF t
  <1>. QED
    BY <1>1, <1>2, <1>4, Moving

LEMMA FaultFields ==
  ASSUME TypeOK, NEW c \in Cycles, RegistryFault(c)
  PROVE  LET s == cycle[c]
             t == cycle'[c]
         IN  /\ Moves(c) /\ UNCHANGED <<registry, audit, crashes>>
             /\ faults' = faults + 1 /\ faults' \in 0 .. MaxFaults
             /\ s.pc \in {"lookup", "reevaluate"} /\ t.pc = "decide"
             /\ t.tries = s.tries /\ t.h = s.h /\ t.mine = s.mine /\ t.summary = s.summary
  <1> DEFINE t == [cycle[c] EXCEPT !.pc = "decide"]
  <1>1. cycle' = [cycle EXCEPT ![c] = t] /\ cycle[c].pc \in {"lookup", "reevaluate"}
    BY DEF RegistryFault, TypeOK
  <1>2. UNCHANGED <<registry, audit, crashes>> /\ faults' = faults + 1 /\ faults' \in 0 .. MaxFaults
    BY NumbersAssumption DEF RegistryFault, registry, TypeOK
  <1>3. cycle[c] \in CycleState
    BY DEF TypeOK
  <1>4. /\ t \in CycleState /\ t.pc = "decide" /\ t.tries = cycle[c].tries /\ t.h = cycle[c].h
        /\ t.mine = cycle[c].mine /\ t.summary = cycle[c].summary
    BY <1>3 DEF CycleState, PCs, Running
  <1>. HIDE DEF t
  <1>. QED
    BY <1>1, <1>2, <1>4, Moving

LEMMA ReevaluateFields ==
  ASSUME TypeOK, NEW c \in Cycles, NEW x \in Maes, Reevaluate(c, x)
  PROVE  LET s == cycle[c]
             t == cycle'[c]
         IN  /\ Moves(c) /\ UNCHANGED <<registry, audit, faults, crashes>>
             /\ s.pc = "reevaluate" /\ t.pc = "decide" /\ t.tries = s.tries /\ t.h = s.h
             /\ t.compared = production[s.h] /\ t.mine = s.mine /\ t.summary = s.summary
  <1> DEFINE p == production[cycle[c].h]
             t == [cycle[c] EXCEPT !.pc = "decide", !.prod = x, !.compared = p]
  <1>1. cycle' = [cycle EXCEPT ![c] = t] /\ cycle[c].pc = "reevaluate"
    BY DEF Reevaluate, Champion, TypeOK
  <1>2. UNCHANGED <<registry, audit, faults, crashes>>
    BY DEF Reevaluate, registry
  <1>3. cycle[c] \in CycleState /\ p \in Nat
    BY DEF TypeOK, CycleState
  <1>. HIDE DEF p
  <1>4. /\ t \in CycleState /\ t.pc = "decide" /\ t.tries = cycle[c].tries /\ t.h = cycle[c].h
        /\ t.compared = p /\ t.mine = cycle[c].mine /\ t.summary = cycle[c].summary
    BY <1>3 DEF CycleState, PCs, Running
  <1>. HIDE DEF t
  <1>. QED
    BY <1>1, <1>2, <1>4, Moving DEF p

\* A candidate that is to be promoted.
LEMMA AcceptFields ==
  ASSUME TypeOK, NEW c \in Cycles, Decide(c), cycle'[c].pc = "register"
  PROVE  LET s == cycle[c]
             t == cycle'[c]
         IN  /\ Moves(c) /\ UNCHANGED <<registry, audit, faults, crashes>>
             /\ s.pc = "decide" /\ t.tries = s.tries /\ t.h = s.h
             /\ t.compared = s.compared /\ t.mine = s.mine /\ t.summary = s.summary
             /\ t.candidate = s.candidate /\ t.prod = s.prod
             /\ s.compared = 0 \/ Improves(s.candidate, s.prod)
  <1> DEFINE t == [cycle[c] EXCEPT !.pc = "register"]
             n == NextHorizon(c, 0)
  <1>1. cycle[c] \in CycleState
    BY DEF TypeOK
  <1>2. n \in CycleState /\ n.pc # "register"
    BY <1>1, NextFields
  <1>3. DecidePromotion(cycle[c].candidate, cycle[c].baseline, cycle[c].compared, cycle[c].prod)
    <2>. HIDE DEF n
    <2>1. SUFFICES ASSUME cycle' = [cycle EXCEPT ![c] = n]
                   PROVE  FALSE
      BY DEF Decide, n
    <2>. QED
      BY <1>2, <2>1, Moving
  <1>4. cycle' = [cycle EXCEPT ![c] = t] /\ cycle[c].pc = "decide"
    BY <1>3 DEF Decide
  <1>5. UNCHANGED <<registry, audit, faults, crashes>>
    BY DEF Decide, registry
  <1>6. /\ t \in CycleState /\ t.tries = cycle[c].tries /\ t.h = cycle[c].h
        /\ t.compared = cycle[c].compared /\ t.mine = cycle[c].mine
        /\ t.summary = cycle[c].summary /\ t.candidate = cycle[c].candidate
        /\ t.prod = cycle[c].prod
    BY <1>1 DEF CycleState, PCs, Running
  <1>. HIDE DEF t
  <1>. QED
    BY <1>3, <1>4, <1>5, <1>6, Moving DEF DecidePromotion

LEMMA RegisterFields ==
  ASSUME TypeOK, NEW c \in Cycles, cycle[c].tries > 0, Register(c)
  PROVE  LET s == cycle[c]
             t == cycle'[c]
             n == Len(version[s.h]) + 1
         IN  /\ Moves(c) /\ UNCHANGED <<staging, production, audit, faults, crashes, moves>>
             /\ s.pc = "register" /\ t.pc = "stage" /\ t.tries = s.tries /\ t.h = s.h
             /\ t.mine = n /\ t.summary = s.summary
             /\ version' \in [Hs -> Seq(VersionRow)]
             /\ \A h \in Hs \ {s.h} : version'[h] = version[h]
             /\ Len(version'[s.h]) = n
             /\ \A v \in 1 .. Len(version[s.h]) : version'[s.h][v] = version[s.h][v]
             /\ version'[s.h][n].run = RunOf(c)
             /\ version'[s.h][n].compared = s.compared
             /\ version'[s.h][n].candidate = s.candidate /\ version'[s.h][n].prod = s.prod
  <1> DEFINE s == cycle[c]
             h == s.h
             n == Len(version[h]) + 1
             t == [s EXCEPT !.pc = "stage", !.mine = n]
             r == [run |-> RunOf(c), candidate |-> s.candidate, baseline |-> s.baseline,
                   compared |-> s.compared, prod |-> s.prod]
  <1>1. s \in CycleState /\ h \in Hs /\ s.tries \in 1 .. Tries
    BY NumbersAssumption DEF TypeOK, CycleState
  <1>2. version[h] \in Seq(VersionRow) /\ n \in Nat
    BY <1>1, LenProperties DEF TypeOK
  <1>3. /\ cycle' = [cycle EXCEPT ![c] = t] /\ s.pc = "register"
        /\ version' = [version EXCEPT ![h] = Append(@, r)]
        /\ UNCHANGED <<staging, production, audit, faults, crashes, moves>>
    BY DEF Register, TypeOK
  <1>4. /\ r \in VersionRow /\ r.run = RunOf(c) /\ r.compared = s.compared
        /\ r.candidate = s.candidate /\ r.prod = s.prod
    BY <1>1 DEF VersionRow, CycleState, RunOf, Runs
  <1>5. /\ t \in CycleState /\ t.pc = "stage" /\ t.tries = s.tries /\ t.h = s.h
        /\ t.mine = n /\ t.summary = s.summary
    BY <1>1, <1>2 DEF CycleState, PCs, Running
  <1>6. Moves(c) /\ cycle'[c] = t
    BY <1>3, <1>5, Moving
  <1>. HIDE DEF t, r
  <1>7. /\ Append(version[h], r) \in Seq(VersionRow)
        /\ Len(Append(version[h], r)) = n
        /\ \A v \in 1 .. Len(version[h]) : Append(version[h], r)[v] = version[h][v]
        /\ Append(version[h], r)[n] = r
    BY <1>2, <1>4, AppendProperties
  <1>8. version'[h] = Append(version[h], r) /\ \A k \in Hs \ {h} : version'[k] = version[k]
    BY <1>1, <1>3 DEF TypeOK
  <1>9. version' \in [Hs -> Seq(VersionRow)]
    BY <1>1, <1>3, <1>7 DEF TypeOK
  <1>. QED
    BY <1>3, <1>4, <1>5, <1>6, <1>7, <1>8, <1>9

LEMMA StagingFields ==
  ASSUME TypeOK, NEW c \in Cycles, SetStaging(c)
  PROVE  LET s == cycle[c]
             t == cycle'[c]
         IN  /\ Moves(c) /\ UNCHANGED <<version, production, audit, faults, crashes, moves>>
             /\ s.pc = "stage" /\ t.pc = "promote" /\ t.tries = s.tries /\ t.h = s.h
             /\ t.mine = s.mine /\ t.summary = s.summary
             /\ staging' \in [Hs -> Nat] /\ staging'[s.h] = s.mine
             /\ \A h \in Hs \ {s.h} : staging'[h] = staging[h]
  <1> DEFINE t == [cycle[c] EXCEPT !.pc = "promote"]
  <1>1. cycle' = [cycle EXCEPT ![c] = t] /\ cycle[c].pc = "stage"
    BY DEF SetStaging, TypeOK
  <1>2. UNCHANGED <<version, production, audit, faults, crashes, moves>>
    BY DEF SetStaging
  <1>3. cycle[c] \in CycleState
    BY DEF TypeOK
  <1>4. /\ t \in CycleState /\ t.pc = "promote" /\ t.tries = cycle[c].tries /\ t.h = cycle[c].h
        /\ t.mine = cycle[c].mine /\ t.summary = cycle[c].summary
    BY <1>3 DEF CycleState, PCs, Running
  <1>5. cycle[c].h \in Hs /\ cycle[c].mine \in Nat
    BY <1>3 DEF CycleState
  <1>6. /\ staging' \in [Hs -> Nat] /\ staging'[cycle[c].h] = cycle[c].mine
        /\ \A h \in Hs \ {cycle[c].h} : staging'[h] = staging[h]
    BY <1>5 DEF SetStaging, TypeOK
  <1>. HIDE DEF t
  <1>. QED
    BY <1>1, <1>2, <1>4, <1>6, Moving

LEMMA ProductionFields ==
  ASSUME TypeOK, NEW c \in Cycles, SetProduction(c)
  PROVE  LET s == cycle[c]
             t == cycle'[c]
         IN  /\ Moves(c) /\ UNCHANGED <<version, staging, audit, faults, crashes, moves>>
             /\ s.pc = "promote"
             /\ t.pc = (IF s.h < Horizons THEN "train" ELSE "close")
             /\ t.h = (IF s.h < Horizons THEN s.h + 1 ELSE s.h)
             /\ t.tries = s.tries /\ t.compared = 0 /\ t.mine = 0
             /\ t.summary = [s.summary EXCEPT ![s.h] = s.mine]
             /\ production' \in [Hs -> Nat] /\ production'[s.h] = s.mine
             /\ \A h \in Hs \ {s.h} : production'[h] = production[h]
  <1> DEFINE m == cycle[c].mine
             n == NextHorizon(c, m)
  <1>1. cycle[c] \in CycleState /\ m \in Nat /\ cycle[c].h \in Hs
    BY DEF TypeOK, CycleState
  <1>2. /\ n \in CycleState
        /\ n.pc = (IF cycle[c].h < Horizons THEN "train" ELSE "close")
        /\ n.h = (IF cycle[c].h < Horizons THEN cycle[c].h + 1 ELSE cycle[c].h)
        /\ n.tries = cycle[c].tries /\ n.compared = 0 /\ n.mine = 0
        /\ n.summary = [cycle[c].summary EXCEPT ![cycle[c].h] = m]
    BY <1>1, NextFields
  <1>. HIDE DEF n
  <1>3. /\ cycle[c].pc = "promote" /\ cycle' = [cycle EXCEPT ![c] = n]
        /\ UNCHANGED <<version, staging, audit, faults, crashes, moves>>
    BY DEF SetProduction, n
  <1>4. /\ production' \in [Hs -> Nat] /\ production'[cycle[c].h] = m
        /\ \A h \in Hs \ {cycle[c].h} : production'[h] = production[h]
    BY <1>1 DEF SetProduction, TypeOK
  <1>. QED
    BY <1>2, <1>3, <1>4, Moving

LEMMA CloseFields ==
  ASSUME TypeOK, NEW c \in Cycles, cycle[c].tries > 0, Close(c)
  PROVE  LET s == cycle[c]
             t == cycle'[c]
         IN  /\ Moves(c) /\ UNCHANGED <<registry, faults, crashes>>
             /\ s.pc = "close" /\ t.pc = "committed" /\ t.tries = s.tries /\ t.h = s.h
             /\ DOMAIN audit' = DOMAIN audit \cup {RunOf(c)} /\ RunOf(c) \in Runs
             /\ audit'[RunOf(c)] = s.summary /\ s.summary \in [Hs -> Nat]
             /\ \A r \in DOMAIN audit \ {RunOf(c)} : audit'[r] = audit[r]
  <1> DEFINE t == [cycle[c] EXCEPT !.pc = "committed"]
  <1>1. cycle' = [cycle EXCEPT ![c] = t] /\ cycle[c].pc = "close"
    BY DEF Close, TypeOK
  <1>2. UNCHANGED <<registry, faults, crashes>>
    BY DEF Close, registry
  <1>3. cycle[c] \in CycleState /\ cycle[c].tries \in 1 .. Tries
    BY NumbersAssumption DEF TypeOK, CycleState
  <1>4. /\ t \in CycleState /\ t.pc = "committed" /\ t.tries = cycle[c].tries /\ t.h = cycle[c].h
    BY <1>3 DEF CycleState, PCs, Running
  <1>5. RunOf(c) \in Runs /\ cycle[c].summary \in [Hs -> Nat]
    BY <1>3 DEF RunOf, Runs, CycleState
  <1>6. /\ DOMAIN audit' = DOMAIN audit \cup {RunOf(c)}
        /\ audit'[RunOf(c)] = cycle[c].summary
        /\ \A r \in DOMAIN audit \ {RunOf(c)} : audit'[r] = audit[r]
    BY DEF Close
  <1>. HIDE DEF t
  <1>. QED
    BY <1>1, <1>2, <1>4, <1>5, <1>6, Moving

\* The process ends, by itself or not.
Leaves(c) == Exit(c) \/ Crash(c)

LEMMA LeavesFields ==
  ASSUME TypeOK, NEW c \in Cycles, Leaves(c)
  PROVE  LET s == cycle[c]
             t == cycle'[c]
         IN  /\ Moves(c) /\ UNCHANGED <<registry, audit, faults>>
             /\ crashes' = crashes \/ crashes' = crashes + 1
             /\ s.pc # "committed" => crashes' = crashes + 1
             /\ crashes' \in 0 .. MaxCrashes
             /\ s.pc \in Running \cup {"committed"} /\ t.pc \in {"failed", "done"}
             /\ t.tries = s.tries
  <1>1. CASE Exit(c)
    <2> DEFINE t == [cycle[c] EXCEPT !.pc = "done"]
    <2>1. /\ cycle' = [cycle EXCEPT ![c] = t] /\ cycle[c].pc = "committed"
          /\ UNCHANGED <<registry, audit, faults, crashes>>
      BY <1>1 DEF Exit, registry, TypeOK
    <2>2. cycle[c] \in CycleState /\ crashes \in 0 .. MaxCrashes
      BY DEF TypeOK
    <2>3. t \in CycleState /\ t.pc = "done" /\ t.tries = cycle[c].tries
      BY <2>2 DEF CycleState, PCs
    <2>. HIDE DEF t
    <2>. QED
      BY <2>1, <2>2, <2>3, Moving
  <1>2. CASE Crash(c)
    <2> DEFINE f == Fresh(c, "failed", cycle[c].h)
               t == [f EXCEPT !.summary = NoSummary]
    <2>1. cycle[c] \in CycleState /\ cycle[c].h \in Hs /\ "failed" \in PCs
      BY DEF TypeOK, CycleState, PCs
    <2>2. f \in CycleState /\ f.pc = "failed" /\ f.tries = cycle[c].tries
      BY <2>1, FreshFields
    <2>3. /\ cycle' = [cycle EXCEPT ![c] = t] /\ UNCHANGED <<registry, audit, faults>>
          /\ cycle[c].pc \in Running \cup {"committed"}
      BY <1>2 DEF Crash, registry
    <2>4. crashes' = crashes + 1 /\ crashes' \in 0 .. MaxCrashes
      BY <1>2, NumbersAssumption DEF Crash, TypeOK
    <2>. HIDE DEF f
    <2>5. t \in CycleState /\ t.pc = "failed" /\ t.tries = cycle[c].tries
      BY <2>2 DEF CycleState, NoSummary
    <2>. HIDE DEF t
    <2>. QED
      BY <2>3, <2>4, <2>5, Moving
  <1>. QED
    BY <1>1, <1>2 DEF Leaves

\* An operator moves an alias by hand.
Moved == \E h \in Hs : \E v \in 1 .. Len(version[h]) : MoveAlias(h, v)

LEMMA MovedFields ==
  ASSUME TypeOK, Moved
  PROVE  /\ UNCHANGED <<cycle, version, staging, audit, faults, crashes>>
         /\ moves' = moves + 1 /\ moves' \in 1 .. MaxMoves
         /\ Meddling \/ \A c \in Cycles : cycle[c].pc \notin Running
         /\ production' \in [Hs -> Nat]
         /\ \A h \in Hs : production'[h] <= Len(version[h])
  <1>0. PICK h \in Hs : \E v \in 1 .. Len(version[h]) : MoveAlias(h, v)
    BY DEF Moved
  <1>1. PICK v \in 1 .. Len(version[h]) : MoveAlias(h, v)
    BY <1>0
  <1>2. Len(version[h]) \in Nat /\ v \in Nat /\ v <= Len(version[h])
    BY LenProperties DEF TypeOK
  <1>3. /\ production' \in [Hs -> Nat]
        /\ \A k \in Hs : production'[k] <= Len(version[k])
    BY <1>1, <1>2 DEF MoveAlias, TypeOK
  <1>4. moves' = moves + 1 /\ moves' \in 1 .. MaxMoves
    BY <1>1, NumbersAssumption DEF MoveAlias, TypeOK
  <1>. QED
    BY <1>1, <1>3, <1>4 DEF MoveAlias

--------------------------------------------------------------------------------
(* The kinds of step, as the proofs tell them apart.                       *)

Early == {"train", "lookup", "reevaluate", "decide", "register"}

\* A horizon is dropped.
Drops(c) == SkipHorizon(c) \/ (Decide(c) /\ cycle'[c].pc # "register")

\* The cycle goes on with its horizon, up to the decision to promote.
Goes(c) ==
  \/ \E x, y \in Maes : Train(c, x, y)
  \/ Lookup(c) \/ RegistryFault(c) \/ \E x \in Maes : Reevaluate(c, x)
  \/ Decide(c) /\ cycle'[c].pc = "register"

\* A step of cycle c, whichever.
Works(c) ==
  \/ Start(c) \/ Drops(c) \/ Goes(c) \/ Register(c) \/ SetStaging(c)
  \/ SetProduction(c) \/ Close(c) \/ Leaves(c)

LEMMA Steps ==
  ASSUME [Next]_vars
  PROVE  UNCHANGED vars \/ Moved \/ \E c \in Cycles : Works(c)
  BY DEF Next, Works, Drops, Goes, Leaves, Moved

LEMMA GoesFields ==
  ASSUME TypeOK, NEW c \in Cycles, Goes(c)
  PROVE  LET s == cycle[c]
             t == cycle'[c]
         IN  /\ Moves(c) /\ UNCHANGED <<registry, audit, crashes>>
             /\ faults' = faults \/ (faults' = faults + 1 /\ faults' \in 0 .. MaxFaults)
             /\ s.pc \in Early /\ t.pc \in Early
             /\ t.tries = s.tries /\ t.h = s.h /\ t.mine = s.mine /\ t.summary = s.summary
  <1>. USE DEF Early
  <1>2. CASE \E x, y \in Maes : Train(c, x, y)
    BY <1>2, TrainFields
  <1>3. CASE Lookup(c)
    BY <1>3, LookupFields
  <1>4. CASE RegistryFault(c)
    BY <1>4, FaultFields
  <1>5. CASE \E x \in Maes : Reevaluate(c, x)
    BY <1>5, ReevaluateFields
  <1>6. CASE Decide(c) /\ cycle'[c].pc = "register"
    BY <1>6, AcceptFields
  <1>. QED
    BY <1>2, <1>3, <1>4, <1>5, <1>6 DEF Goes

\* Where the steps are, in the terms of Running.
LEMMA Places ==
  /\ Early \subseteq Running /\ Running = Early \cup {"stage", "promote", "close"}
  /\ "idle" \notin Running /\ "failed" \notin Running /\ "done" \notin Running
  /\ "committed" \notin Running
  BY DEF Early, Running

--------------------------------------------------------------------------------
(* Types, and where the cycles are.                                        *)

LEMMA TypeKept ==
  ASSUME TypeOK, Placed, [Next]_vars
  PROVE  TypeOK'
  <1>1. ASSUME NEW c \in Cycles, Moves(c), UNCHANGED <<registry, audit>>,
               faults' \in 0 .. MaxFaults, crashes' \in 0 .. MaxCrashes
        PROVE  TypeOK'
    BY <1>1 DEF TypeOK, Moves, registry
  <1>2. CASE UNCHANGED vars
    BY <1>2 DEF TypeOK, vars
  <1>10. CASE Moved
    BY <1>10, MovedFields DEF TypeOK
  <1>3. ASSUME NEW c \in Cycles, Start(c) \/ Drops(c)
        PROVE  TypeOK'
    BY <1>1, <1>3, StartFields, DropFields DEF TypeOK, Drops
  <1>4. ASSUME NEW c \in Cycles, Goes(c)
        PROVE  TypeOK'
    BY <1>1, <1>4, GoesFields DEF TypeOK
  <1>5. ASSUME NEW c \in Cycles, Leaves(c)
        PROVE  TypeOK'
    BY <1>1, <1>5, LeavesFields DEF TypeOK
  <1>6. ASSUME NEW c \in Cycles, Register(c)
        PROVE  TypeOK'
    <2>1. cycle[c].tries > 0
      BY <1>6 DEF Placed, Register, Running
    <2>2. /\ Moves(c) /\ UNCHANGED <<staging, production, audit, faults, crashes, moves>>
          /\ version' \in [Hs -> Seq(VersionRow)]
          /\ \A h \in Hs \ {cycle[c].h} : version'[h] = version[h]
          /\ Len(version'[cycle[c].h]) = Len(version[cycle[c].h]) + 1
      BY <1>6, <2>1, RegisterFields
    <2>3. \A h \in Hs : Len(version[h]) \in Nat
      BY LenProperties DEF TypeOK
    <2>4. ASSUME NEW h \in Hs
          PROVE  staging'[h] <= Len(version'[h]) /\ production'[h] <= Len(version'[h])
      <3>1. Len(version'[h]) >= Len(version[h]) /\ Len(version'[h]) \in Nat
        BY <2>2, <2>3
      <3>2. /\ staging'[h] = staging[h] /\ production'[h] = production[h]
            /\ staging[h] <= Len(version[h]) /\ production[h] <= Len(version[h])
            /\ staging[h] \in Nat /\ production[h] \in Nat
        BY <2>2 DEF TypeOK
      <3>. QED
        BY <2>3, <3>1, <3>2
    <2>. QED
      BY <2>2, <2>4 DEF TypeOK, Moves
  <1>7. ASSUME NEW c \in Cycles, SetStaging(c)
        PROVE  TypeOK'
    <2>1. /\ Moves(c) /\ UNCHANGED <<version, production, audit, faults, crashes, moves>>
          /\ cycle[c].pc = "stage" /\ staging' \in [Hs -> Nat]
          /\ staging'[cycle[c].h] = cycle[c].mine
          /\ \A h \in Hs \ {cycle[c].h} : staging'[h] = staging[h]
      BY <1>7, StagingFields
    <2>2. cycle[c].mine <= Len(version[cycle[c].h])
      BY <2>1 DEF Placed
    <2>3. \A h \in Hs : staging'[h] <= Len(version[h])
      BY <2>1, <2>2 DEF TypeOK
    <2>. QED
      BY <2>1, <2>3 DEF TypeOK, Moves
  <1>8. ASSUME NEW c \in Cycles, SetProduction(c)
        PROVE  TypeOK'
    <2>1. /\ Moves(c) /\ UNCHANGED <<version, staging, audit, faults, crashes, moves>>
          /\ cycle[c].pc = "promote" /\ production' \in [Hs -> Nat]
          /\ production'[cycle[c].h] = cycle[c].mine
          /\ \A h \in Hs \ {cycle[c].h} : production'[h] = production[h]
      BY <1>8, ProductionFields
    <2>2. cycle[c].mine <= Len(version[cycle[c].h])
      BY <2>1 DEF Placed
    <2>3. \A h \in Hs : production'[h] <= Len(version[h])
      BY <2>1, <2>2 DEF TypeOK
    <2>. QED
      BY <2>1, <2>3 DEF TypeOK, Moves
  <1>9. ASSUME NEW c \in Cycles, Close(c)
        PROVE  TypeOK'
    <2>1. cycle[c].tries > 0
      BY <1>9 DEF Placed, Close, Running
    <2>2. /\ Moves(c) /\ UNCHANGED <<registry, faults, crashes>>
          /\ DOMAIN audit' = DOMAIN audit \cup {RunOf(c)} /\ RunOf(c) \in Runs
          /\ audit'[RunOf(c)] \in [Hs -> Nat]
          /\ \A r \in DOMAIN audit \ {RunOf(c)} : audit'[r] = audit[r]
      BY <1>9, <2>1, CloseFields
    <2>3. DOMAIN audit' \subseteq Runs /\ \A r \in DOMAIN audit' : audit'[r] \in [Hs -> Nat]
      BY <2>2 DEF TypeOK
    <2>. QED
      BY <2>2, <2>3 DEF TypeOK, Moves, registry
  <1>. QED
    BY <1>2, <1>3, <1>4, <1>5, <1>6, <1>7, <1>8, <1>9, <1>10, Steps DEF Works

LEMMA PlacedKept ==
  ASSUME TypeOK, Placed, [Next]_vars
  PROVE  Placed'
  <1>0. ASSUME NEW c \in Cycles
        PROVE  cycle[c].tries \in Nat /\ Len(version[cycle[c].h]) \in Nat
    BY NumbersAssumption, LenProperties DEF TypeOK, CycleState
  <1>1. ASSUME NEW c \in Cycles, Moves(c),
               \A d \in Cycles \ {c} : Len(version[cycle[d].h]) <= Len(version'[cycle[d].h]),
               \A d \in Cycles \ {c} : Len(version'[cycle[d].h]) \in Nat,
               cycle'[c].pc \in Running => cycle'[c].tries > 0,
               cycle'[c].pc \in {"stage", "promote"} => cycle'[c].mine \in 1 .. Len(version'[cycle'[c].h])
        PROVE  Placed'
    <2>1. ASSUME NEW d \in Cycles \ {c}
          PROVE  /\ cycle'[d].pc \in Running => cycle'[d].tries > 0
                 /\ cycle'[d].pc \in {"stage", "promote"} =>
                      cycle'[d].mine \in 1 .. Len(version'[cycle'[d].h])
      <3>1. cycle'[d] = cycle[d]
        BY <1>1 DEF Moves
      <3>2. /\ cycle[d].pc \in Running => cycle[d].tries > 0
            /\ cycle[d].pc \in {"stage", "promote"} =>
                 cycle[d].mine \in 1 .. Len(version[cycle[d].h])
        BY DEF Placed
      <3>. QED
        BY <1>0, <1>1, <3>1, <3>2
    <2>. QED
      BY <1>1, <2>1 DEF Placed
  <1>2. ASSUME NEW c \in Cycles, Moves(c), UNCHANGED version,
               cycle'[c].pc \in Running => cycle'[c].tries > 0,
               cycle'[c].pc \in {"stage", "promote"} => cycle'[c].mine \in 1 .. Len(version[cycle'[c].h])
        PROVE  Placed'
    BY <1>0, <1>1, <1>2
  <1>3. CASE UNCHANGED vars \/ Moved
    <2>1. UNCHANGED <<cycle, version>>
      BY <1>3, MovedFields DEF vars
    <2>. QED
      BY <2>1 DEF Placed
  <1>4. ASSUME NEW c \in Cycles, Start(c)
        PROVE  Placed'
    BY <1>0, <1>2, <1>4, StartFields DEF registry
  <1>5. ASSUME NEW c \in Cycles, Drops(c)
        PROVE  Placed'
    BY <1>2, <1>5, DropFields DEF registry, Placed, Running, Drops
  <1>6. ASSUME NEW c \in Cycles, Goes(c)
        PROVE  Placed'
    <2>1. cycle[c].pc \in Running /\ cycle'[c].pc \notin {"stage", "promote"}
      BY <1>6, GoesFields DEF Early, Running
    <2>. QED
      BY <1>2, <1>6, <2>1, GoesFields DEF registry, Placed
  <1>7. ASSUME NEW c \in Cycles, Register(c)
        PROVE  Placed'
    <2>1. cycle[c].tries > 0
      BY <1>7 DEF Placed, Register, Running
    <2>2. /\ Moves(c) /\ cycle'[c].tries = cycle[c].tries /\ cycle'[c].h = cycle[c].h
          /\ cycle'[c].mine = Len(version[cycle[c].h]) + 1
          /\ \A h \in Hs \ {cycle[c].h} : version'[h] = version[h]
          /\ Len(version'[cycle[c].h]) = Len(version[cycle[c].h]) + 1
      BY <1>7, <2>1, RegisterFields
    <2>3. ASSUME NEW d \in Cycles
          PROVE  /\ Len(version[cycle[d].h]) <= Len(version'[cycle[d].h])
                 /\ Len(version'[cycle[d].h]) \in Nat
      <3>1. cycle[d].h \in Hs
        BY DEF TypeOK, CycleState
      <3>. QED
        BY <1>0, <2>2, <3>1
    <2>. QED
      BY <1>0, <1>1, <2>1, <2>2, <2>3
  <1>8. ASSUME NEW c \in Cycles, SetStaging(c)
        PROVE  Placed'
    BY <1>2, <1>8, StagingFields DEF Placed, Running
  <1>9. ASSUME NEW c \in Cycles, SetProduction(c)
        PROVE  Placed'
    BY <1>2, <1>9, ProductionFields DEF Placed, Running
  <1>10. ASSUME NEW c \in Cycles, Close(c)
        PROVE  Placed'
    <2>1. cycle[c].tries > 0
      BY <1>10 DEF Placed, Close, Running
    <2>. QED
      BY <1>2, <1>10, <2>1, CloseFields, Places DEF registry
  <1>11. ASSUME NEW c \in Cycles, Leaves(c)
        PROVE  Placed'
    BY <1>2, <1>11, LeavesFields, Places DEF registry
  <1>. QED
    BY <1>3, <1>4, <1>5, <1>6, <1>7, <1>8, <1>9, <1>10, <1>11, Steps DEF Works

--------------------------------------------------------------------------------
(* Runs and their summaries.                                               *)

LEMMA RowTypes ==
  ASSUME TypeOK, NEW h \in Hs, NEW v \in 1 .. Len(version[h])
  PROVE  version[h][v].run \in Runs /\ version[h][v].compared \in Nat
  <1>1. version[h] \in Seq(VersionRow)
    BY DEF TypeOK
  <1>2. version[h][v] \in VersionRow
    BY <1>1, ElementOfSeq
  <1>. QED
    BY <1>2 DEF VersionRow

\* A run is a cycle and the number of its try.
LEMMA RunTypes ==
  ASSUME NEW r \in Runs
  PROVE  r[1] \in Cycles /\ r[2] \in Nat /\ r = <<r[1], r[2]>>
  BY NumbersAssumption DEF Runs

LEMMA RunsTriedKept ==
  ASSUME TypeOK, Placed, RunsTried, [Next]_vars
  PROVE  RunsTried'
  <1>0. \A d \in Cycles : cycle[d].tries \in Nat
    BY NumbersAssumption DEF TypeOK, CycleState
  <1>1. ASSUME NEW c \in Cycles, Moves(c), UNCHANGED <<version, audit>>,
               \/ /\ cycle[c].pc \in Running \/ cycle'[c].pc \notin Running
                  /\ cycle'[c].tries = cycle[c].tries
               \/ cycle'[c].tries = cycle[c].tries + 1
        PROVE  RunsTried'
    <2>1. \A d \in Cycles : cycle'[d].tries >= cycle[d].tries /\ cycle'[d].tries \in Nat
      BY <1>0, <1>1 DEF Moves
    <2>2. ASSUME NEW h \in Hs, NEW v \in 1 .. Len(version[h])
          PROVE  version[h][v].run[2] <= cycle'[version[h][v].run[1]].tries
      BY <1>0, <2>1, RowTypes, RunTypes DEF RunsTried
    <2>3. ASSUME NEW r \in DOMAIN audit
          PROVE  r[2] <= cycle'[r[1]].tries /\ (r = RunOf(r[1])' => cycle'[r[1]].pc \notin Running)
      <3>1. r \in Runs /\ r[1] \in Cycles /\ r[2] \in Nat /\ r = <<r[1], r[2]>>
        BY RunTypes DEF TypeOK
      <3>2. r[2] <= cycle[r[1]].tries /\ (r[2] = cycle[r[1]].tries => cycle[r[1]].pc \notin Running)
        BY <3>1 DEF RunsTried, RunOf
      <3>3. CASE r[1] = c
        BY <1>0, <1>1, <3>1, <3>2, <3>3 DEF RunOf
      <3>4. CASE r[1] # c
        <4>1. cycle'[r[1]] = cycle[r[1]]
          BY <1>1, <3>1, <3>4 DEF Moves
        <4>. QED
          BY <3>1, <3>2, <4>1 DEF RunOf
      <3>. QED
        BY <3>3, <3>4
    <2>. QED
      BY <1>1, <2>2, <2>3 DEF RunsTried
  <1>2. CASE UNCHANGED vars \/ Moved
    <2>1. UNCHANGED <<cycle, version, audit>>
      BY <1>2, MovedFields DEF vars
    <2>. QED
      BY <2>1 DEF RunsTried, RunOf
  <1>3. ASSUME NEW c \in Cycles, Start(c)
        PROVE  RunsTried'
    BY <1>1, <1>3, StartFields DEF registry
  <1>4. ASSUME NEW c \in Cycles, Drops(c)
        PROVE  RunsTried'
    <2>1. /\ Moves(c) /\ UNCHANGED <<version, audit>>
          /\ cycle[c].pc \in {"train", "decide"} /\ cycle'[c].tries = cycle[c].tries
      BY <1>4, DropFields DEF registry, Drops
    <2>. QED
      BY <1>1, <2>1 DEF Running
  <1>5. ASSUME NEW c \in Cycles, Goes(c)
        PROVE  RunsTried'
    <2>1. /\ Moves(c) /\ UNCHANGED <<version, audit>>
          /\ cycle[c].pc \in Running /\ cycle'[c].tries = cycle[c].tries
      BY <1>5, GoesFields, Places DEF registry
    <2>. QED
      BY <1>1, <2>1, Places
  <1>6. ASSUME NEW c \in Cycles, SetStaging(c) \/ SetProduction(c)
        PROVE  RunsTried'
    <2>1. /\ Moves(c) /\ UNCHANGED <<version, audit>>
          /\ cycle[c].pc \in {"stage", "promote"} /\ cycle'[c].tries = cycle[c].tries
      BY <1>6, StagingFields, ProductionFields
    <2>. QED
      BY <1>1, <2>1 DEF Running
  <1>7. ASSUME NEW c \in Cycles, Leaves(c)
        PROVE  RunsTried'
    <2>1. /\ Moves(c) /\ UNCHANGED <<version, audit>>
          /\ cycle'[c].pc \in {"failed", "done"} /\ cycle'[c].tries = cycle[c].tries
      BY <1>7, LeavesFields DEF registry
    <2>. QED
      BY <1>1, <2>1, Places
  <1>8. ASSUME NEW c \in Cycles, Register(c)
        PROVE  RunsTried'
    <2>1. cycle[c].tries > 0
      BY <1>8 DEF Placed, Register, Running
    <2>2. /\ Moves(c) /\ UNCHANGED audit
          /\ cycle[c].pc = "register" /\ cycle'[c].tries = cycle[c].tries
          /\ \A h \in Hs \ {cycle[c].h} : version'[h] = version[h]
          /\ Len(version'[cycle[c].h]) = Len(version[cycle[c].h]) + 1
          /\ \A v \in 1 .. Len(version[cycle[c].h]) :
               version'[cycle[c].h][v] = version[cycle[c].h][v]
          /\ version'[cycle[c].h][Len(version[cycle[c].h]) + 1].run = RunOf(c)
      BY <1>8, <2>1, RegisterFields
    <2>3. \A d \in Cycles : cycle'[d].tries = cycle[d].tries
      BY <2>2 DEF Moves
    <2>4. ASSUME NEW h \in Hs, NEW v \in 1 .. Len(version'[h])
          PROVE  version'[h][v].run[2] <= cycle'[version'[h][v].run[1]].tries
      <3>1. CASE v \in 1 .. Len(version[h])
        <4>1. version'[h][v] = version[h][v]
          BY <2>2, <3>1
        <4>. QED
          BY <2>3, <3>1, <4>1, RowTypes, RunTypes DEF RunsTried
      <3>2. CASE v \notin 1 .. Len(version[h])
        <4>1. Len(version[h]) \in Nat
          BY LenProperties DEF TypeOK
        <4>2. h = cycle[c].h /\ v = Len(version[h]) + 1
          BY <2>2, <3>2, <4>1
        <4>3. version'[h][v].run = <<c, cycle[c].tries>>
          BY <2>2, <4>2 DEF RunOf
        <4>. QED
          BY <1>0, <2>3, <4>3
      <3>. QED
        BY <3>1, <3>2
    <2>5. ASSUME NEW r \in DOMAIN audit
          PROVE  r[2] <= cycle'[r[1]].tries /\ (r = RunOf(r[1])' => cycle'[r[1]].pc \notin Running)
      <3>1. r[1] \in Cycles
        BY RunTypes DEF TypeOK
      <3>2. r[2] <= cycle[r[1]].tries /\ (r = RunOf(r[1]) => cycle[r[1]].pc \notin Running)
        BY DEF RunsTried
      <3>3. RunOf(r[1])' = RunOf(r[1])
        BY <2>3, <3>1 DEF RunOf
      <3>4. r[1] = c => r # RunOf(r[1])
        BY <2>2, <3>2 DEF Running
      <3>5. r[1] # c => cycle'[r[1]] = cycle[r[1]]
        BY <2>2, <3>1 DEF Moves
      <3>. QED
        BY <2>3, <3>1, <3>2, <3>3, <3>4, <3>5
    <2>. QED
      BY <2>2, <2>4, <2>5 DEF RunsTried
  <1>9. ASSUME NEW c \in Cycles, Close(c)
        PROVE  RunsTried'
    <2>1. cycle[c].tries > 0
      BY <1>9 DEF Placed, Close, Running
    <2>2. /\ Moves(c) /\ UNCHANGED registry
          /\ cycle[c].pc = "close" /\ cycle'[c].pc = "committed" /\ cycle'[c].tries = cycle[c].tries
          /\ DOMAIN audit' = DOMAIN audit \cup {RunOf(c)}
      BY <1>9, <2>1, CloseFields
    <2>3. \A d \in Cycles : cycle'[d].tries = cycle[d].tries
      BY <2>2 DEF Moves
    <2>4. ASSUME NEW h \in Hs, NEW v \in 1 .. Len(version[h])
          PROVE  version[h][v].run[2] <= cycle'[version[h][v].run[1]].tries
      BY <2>3, RowTypes, RunTypes DEF RunsTried
    <2>5. ASSUME NEW r \in DOMAIN audit'
          PROVE  r[2] <= cycle'[r[1]].tries /\ (r = RunOf(r[1])' => cycle'[r[1]].pc \notin Running)
      <3>1. CASE r = RunOf(c)
        BY <1>0, <2>2, <2>3, <3>1, Places DEF RunOf
      <3>2. CASE r # RunOf(c)
        <4>1. r \in DOMAIN audit /\ r[1] \in Cycles
          BY <2>2, <3>2, RunTypes DEF TypeOK
        <4>2. r[2] <= cycle[r[1]].tries /\ (r = RunOf(r[1]) => cycle[r[1]].pc \notin Running)
          BY <4>1 DEF RunsTried
        <4>3. RunOf(r[1])' = RunOf(r[1])
          BY <2>3, <4>1 DEF RunOf
        <4>4. r[1] # c => cycle'[r[1]] = cycle[r[1]]
          BY <2>2, <4>1 DEF Moves
        <4>. QED
          BY <2>2, <2>3, <4>1, <4>2, <4>3, <4>4, Places
      <3>. QED
        BY <3>1, <3>2
    <2>. QED
      BY <2>2, <2>4, <2>5 DEF RunsTried, registry
  <1>. QED
    BY <1>2, <1>3, <1>4, <1>5, <1>6, <1>7, <1>8, <1>9, Steps DEF Works

\* What cycle c has registered for h in the try at hand is in its summary, or in hand.
Accounted(c, h) ==
  LET s == cycle[c]
  IN  /\ s.pc # "close" /\ h >= s.h => s.summary[h] = 0
      /\ RegisteredBy(RunOf(c), h)
           = IF s.pc \in {"stage", "promote"} /\ s.h = h THEN {s.mine} ELSE Filed(s.summary[h])

LEMMA SummaryCompleteKept ==
  ASSUME TypeOK, Placed, RunsTried, SummaryComplete, [Next]_vars
  PROVE  SummaryComplete'
  <1>0. SummaryComplete <=> \A c \in Cycles, h \in Hs : cycle[c].pc \in Running => Accounted(c, h)
    BY DEF SummaryComplete, Accounted
  <1>00. SummaryComplete' <=>
           \A c \in Cycles, h \in Hs : cycle'[c].pc \in Running => Accounted(c, h)'
    BY DEF SummaryComplete, Accounted
  <1>01. ASSUME NEW c \in Cycles
         PROVE  /\ cycle[c].h \in Hs /\ cycle[c].tries \in Nat /\ cycle[c].summary \in [Hs -> Nat]
                /\ cycle[c].mine \in Nat
    BY NumbersAssumption DEF TypeOK, CycleState
  <1>02. Hs = 1 .. Horizons /\ Horizons \in Nat
    BY NumbersAssumption DEF Hs
  <1>1. ASSUME NEW c \in Cycles, Moves(c), UNCHANGED version,
               NEW d \in Cycles \ {c}, NEW h \in Hs, Accounted(d, h)
        PROVE  Accounted(d, h)'
    <2>1. cycle'[d] = cycle[d]
      BY <1>1 DEF Moves
    <2>. QED
      BY <1>1, <2>1 DEF Accounted, RegisteredBy, RunOf
  <1>2. ASSUME NEW c \in Cycles, Moves(c), UNCHANGED version,
               \A h \in Hs : cycle'[c].pc \in Running => Accounted(c, h)'
        PROVE  SummaryComplete'
    <2>1. ASSUME NEW d \in Cycles, NEW h \in Hs, cycle'[d].pc \in Running
          PROVE  Accounted(d, h)'
      <3>1. d # c => cycle'[d] = cycle[d]
        BY <1>2 DEF Moves
      <3>. QED
        BY <1>0, <1>1, <1>2, <2>1, <3>1
    <2>. QED
      BY <1>00, <2>1
  <1>3. ASSUME NEW c \in Cycles, Moves(c), UNCHANGED version, cycle'[c].pc \in Early,
               cycle[c].pc \in Early, cycle'[c].tries = cycle[c].tries,
               cycle'[c].h = cycle[c].h, cycle'[c].summary = cycle[c].summary
        PROVE  SummaryComplete'
    <2>1. \A h \in Hs : Accounted(c, h)
      BY <1>0, <1>3, Places
    <2>2. ASSUME NEW h \in Hs
          PROVE  Accounted(c, h)'
      BY <1>3, <2>1 DEF Accounted, RegisteredBy, RunOf, Early
    <2>. QED
      BY <1>2, <1>3, <2>2
  <1>4. CASE UNCHANGED vars \/ Moved
    <2>1. UNCHANGED <<cycle, version>>
      BY <1>4, MovedFields DEF vars
    <2>. QED
      BY <2>1 DEF SummaryComplete, RegisteredBy, RunOf
  <1>5. ASSUME NEW c \in Cycles, Start(c)
        PROVE  SummaryComplete'
    <2>1. /\ Moves(c) /\ UNCHANGED version
          /\ cycle'[c].pc = "train" /\ cycle'[c].tries = cycle[c].tries + 1
          /\ cycle'[c].summary = [h \in Hs |-> 0]
      BY <1>5, StartFields DEF registry
    <2>2. ASSUME NEW h \in Hs
          PROVE  RegisteredBy(RunOf(c), h)' = {}
      <3>1. SUFFICES ASSUME NEW v \in 1 .. Len(version[h]),
                            version[h][v].run = <<c, cycle[c].tries + 1>>
                     PROVE  FALSE
        BY <2>1 DEF RegisteredBy, RunOf
      <3>2. version[h][v].run[2] <= cycle[version[h][v].run[1]].tries
        BY DEF RunsTried
      <3>3. version[h][v].run[1] = c /\ version[h][v].run[2] = cycle[c].tries + 1
        BY <3>1
      <3>. QED
        BY <1>01, <3>2, <3>3
    <2>3. ASSUME NEW h \in Hs
          PROVE  Accounted(c, h)'
      BY <2>1, <2>2 DEF Accounted, Filed
    <2>. QED
      BY <1>2, <2>1, <2>3
  <1>6. ASSUME NEW c \in Cycles, Drops(c)
        PROVE  SummaryComplete'
    <2>1. /\ Moves(c) /\ UNCHANGED version
          /\ cycle[c].pc \in {"train", "decide"}
          /\ cycle'[c].pc \in {"train", "close"}
          /\ cycle'[c].pc # "close" => cycle'[c].h = cycle[c].h + 1
          /\ cycle'[c].tries = cycle[c].tries
          /\ cycle'[c].summary = [cycle[c].summary EXCEPT ![cycle[c].h] = 0]
      BY <1>6, DropFields DEF registry, Drops
    <2>2. \A h \in Hs : Accounted(c, h)
      BY <1>0, <2>1 DEF Running
    <2>3. cycle[c].summary[cycle[c].h] = 0
      BY <1>01, <1>02, <2>1, <2>2 DEF Accounted
    <2>4. cycle'[c].summary = cycle[c].summary
      BY <1>01, <2>1, <2>3
    <2>5. ASSUME NEW h \in Hs
          PROVE  Accounted(c, h)'
      <3>1. RegisteredBy(RunOf(c), h)' = RegisteredBy(RunOf(c), h)
        BY <2>1 DEF RegisteredBy, RunOf
      <3>2. RegisteredBy(RunOf(c), h) = Filed(cycle[c].summary[h])
        BY <2>1, <2>2 DEF Accounted
      <3>3. cycle'[c].pc # "close" /\ h >= cycle'[c].h => cycle[c].summary[h] = 0
        BY <1>01, <1>02, <2>1, <2>2 DEF Accounted
      <3>. QED
        BY <2>1, <2>4, <3>1, <3>2, <3>3 DEF Accounted, Filed
    <2>. QED
      BY <1>2, <2>1, <2>5
  <1>7. ASSUME NEW c \in Cycles, Goes(c)
        PROVE  SummaryComplete'
    BY <1>3, <1>7, GoesFields DEF registry
  <1>8. ASSUME NEW c \in Cycles, Register(c)
        PROVE  SummaryComplete'
    <2> DEFINE k == cycle[c].h
               n == Len(version[k]) + 1
    <2>1. cycle[c].tries > 0
      BY <1>8 DEF Placed, Register, Running
    <2>2. /\ Moves(c) /\ cycle[c].pc = "register" /\ cycle'[c].pc = "stage"
          /\ cycle'[c].tries = cycle[c].tries /\ cycle'[c].h = k /\ cycle'[c].mine = n
          /\ cycle'[c].summary = cycle[c].summary
          /\ \A h \in Hs \ {k} : version'[h] = version[h]
          /\ Len(version'[k]) = n
          /\ \A v \in 1 .. Len(version[k]) : version'[k][v] = version[k][v]
          /\ version'[k][n].run = RunOf(c)
      BY <1>8, <2>1, RegisterFields
    <2>3. k \in Hs /\ Len(version[k]) \in Nat
      BY <1>01, LenProperties DEF TypeOK
    <2>4. \A d \in Cycles : RunOf(d)' = RunOf(d)
      BY <2>2 DEF RunOf, Moves
    <2>5. ASSUME NEW d \in Cycles, NEW h \in Hs
          PROVE  RegisteredBy(RunOf(d), h)'
                   = IF d = c /\ h = k THEN RegisteredBy(RunOf(d), h) \cup {n}
                                       ELSE RegisteredBy(RunOf(d), h)
      <3>1. CASE h # k
        BY <2>2, <2>4, <3>1 DEF RegisteredBy
      <3>2. CASE h = k
        <4>1. 1 .. n = (1 .. Len(version[k])) \cup {n} /\ n \notin 1 .. Len(version[k])
          BY <2>3
        <4>2. RegisteredBy(RunOf(d), h)' = {v \in 1 .. n : version'[k][v].run = RunOf(d)}
          BY <2>2, <2>4, <3>2 DEF RegisteredBy
        <4>3. RegisteredBy(RunOf(d), h)
                = {v \in 1 .. Len(version[k]) : version'[k][v].run = RunOf(d)}
          BY <2>2, <3>2 DEF RegisteredBy
        <4>4. RunOf(c) = RunOf(d) <=> d = c
          BY DEF RunOf
        <4>. HIDE DEF n
        <4>. QED
          BY <2>2, <3>2, <4>1, <4>2, <4>3, <4>4
      <3>. QED
        BY <3>1, <3>2
    <2>6. ASSUME NEW d \in Cycles, NEW h \in Hs, cycle'[d].pc \in Running
          PROVE  Accounted(d, h)'
      <3>1. CASE d = c
        <4>1. Accounted(c, h) /\ Accounted(c, k)
          BY <1>0, <2>2, <2>3 DEF Running
        <4>2. RegisteredBy(RunOf(c), h) = Filed(cycle[c].summary[h])
          BY <2>2, <4>1 DEF Accounted
        <4>3. cycle[c].summary[k] = 0
          BY <1>02, <2>2, <2>3, <4>1 DEF Accounted
        <4>4. h >= k => cycle[c].summary[h] = 0
          BY <2>2, <4>1 DEF Accounted
        <4>. HIDE DEF n, k
        <4>. QED
          BY <2>2, <2>5, <3>1, <4>2, <4>3, <4>4 DEF Accounted, Filed
      <3>2. CASE d # c
        <4>1. cycle'[d] = cycle[d]
          BY <2>2, <3>2 DEF Moves
        <4>2. Accounted(d, h)
          BY <1>0, <2>6, <4>1
        <4>3. RegisteredBy(RunOf(d), h)' = RegisteredBy(RunOf(d), h)
          BY <2>5, <3>2
        <4>. QED
          BY <4>1, <4>2, <4>3 DEF Accounted
      <3>. QED
        BY <3>1, <3>2
    <2>. QED
      BY <1>00, <2>6
  <1>9. ASSUME NEW c \in Cycles, SetStaging(c)
        PROVE  SummaryComplete'
    <2>1. /\ Moves(c) /\ UNCHANGED version /\ cycle[c].pc = "stage" /\ cycle'[c].pc = "promote"
          /\ cycle'[c].tries = cycle[c].tries /\ cycle'[c].h = cycle[c].h
          /\ cycle'[c].mine = cycle[c].mine /\ cycle'[c].summary = cycle[c].summary
      BY <1>9, StagingFields
    <2>2. \A h \in Hs : Accounted(c, h)
      BY <1>0, <2>1 DEF Running
    <2>3. ASSUME NEW h \in Hs
          PROVE  Accounted(c, h)'
      <3>1. RegisteredBy(RunOf(c), h)' = RegisteredBy(RunOf(c), h)
        BY <2>1 DEF RegisteredBy, RunOf
      <3>. QED
        BY <2>1, <2>2, <3>1 DEF Accounted
    <2>. QED
      BY <1>2, <2>1, <2>3
  <1>10. ASSUME NEW c \in Cycles, SetProduction(c)
         PROVE  SummaryComplete'
    <2> DEFINE k == cycle[c].h
               m == cycle[c].mine
    <2>1. /\ Moves(c) /\ UNCHANGED version
          /\ cycle[c].pc = "promote"
          /\ cycle'[c].pc \in {"train", "close"}
          /\ cycle'[c].pc # "close" => cycle'[c].h = k + 1
          /\ cycle'[c].tries = cycle[c].tries
          /\ cycle'[c].summary = [cycle[c].summary EXCEPT ![k] = m]
      BY <1>10, ProductionFields
    <2>2. \A h \in Hs : Accounted(c, h)
      BY <1>0, <2>1 DEF Running
    <2>3. m \in Nat \ {0} /\ k \in Hs
      BY <1>01, <2>1 DEF Placed
    <2>4. ASSUME NEW h \in Hs
          PROVE  Accounted(c, h)'
      <3>1. RegisteredBy(RunOf(c), h)' = RegisteredBy(RunOf(c), h)
        BY <2>1 DEF RegisteredBy, RunOf
      <3>2. cycle'[c].summary[h] = IF h = k THEN m ELSE cycle[c].summary[h]
        BY <1>01, <2>1, <2>3
      <3>3. RegisteredBy(RunOf(c), h) = IF h = k THEN {m} ELSE Filed(cycle[c].summary[h])
        BY <2>1, <2>2 DEF Accounted
      <3>4. Filed(m) = {m}
        BY <2>3 DEF Filed
      <3>5. cycle'[c].pc # "close" /\ h >= cycle'[c].h => cycle'[c].summary[h] = 0
        <4>1. SUFFICES ASSUME cycle'[c].pc # "close", h >= cycle'[c].h
                       PROVE  cycle'[c].summary[h] = 0
          OBVIOUS
        <4>2. h >= k /\ h # k
          BY <1>02, <2>1, <2>3, <4>1
        <4>3. cycle[c].summary[h] = 0
          BY <2>1, <2>2, <4>2 DEF Accounted
        <4>. QED
          BY <3>2, <4>2, <4>3
      <3>. HIDE DEF m, k
      <3>. QED
        BY <2>1, <3>1, <3>2, <3>3, <3>4, <3>5 DEF Accounted
    <2>. QED
      BY <1>2, <2>1, <2>4
  <1>11. ASSUME NEW c \in Cycles, Close(c)
         PROVE  SummaryComplete'
    <2>1. cycle[c].tries > 0
      BY <1>11 DEF Placed, Close, Running
    <2>2. Moves(c) /\ UNCHANGED version /\ cycle'[c].pc = "committed"
      BY <1>11, <2>1, CloseFields DEF registry
    <2>. QED
      BY <1>2, <2>2, Places
  <1>12. ASSUME NEW c \in Cycles, Leaves(c)
         PROVE  SummaryComplete'
    <2>1. Moves(c) /\ UNCHANGED version /\ cycle'[c].pc \in {"failed", "done"}
      BY <1>12, LeavesFields DEF registry
    <2>. QED
      BY <1>2, <2>1, Places
  <1>. QED
    BY <1>4, <1>5, <1>6, <1>7, <1>8, <1>9, <1>10, <1>11, <1>12, Steps DEF Works

LEMMA AuditCompleteKept ==
  ASSUME TypeOK, Placed, RunsTried, SummaryComplete, AuditComplete, [Next]_vars
  PROVE  AuditComplete'
  <1>1. CASE UNCHANGED <<version, audit>>
    BY <1>1 DEF AuditComplete, RegisteredBy
  <1>2. ASSUME NEW c \in Cycles, Register(c)
        PROVE  AuditComplete'
    <2> DEFINE k == cycle[c].h
               n == Len(version[k]) + 1
    <2>1. cycle[c].tries > 0
      BY <1>2 DEF Placed, Register, Running
    <2>2. /\ UNCHANGED audit /\ cycle[c].pc = "register"
          /\ \A h \in Hs \ {k} : version'[h] = version[h]
          /\ Len(version'[k]) = n
          /\ \A v \in 1 .. Len(version[k]) : version'[k][v] = version[k][v]
          /\ version'[k][n].run = RunOf(c)
      BY <1>2, <2>1, RegisterFields
    <2>3. Len(version[k]) \in Nat
      BY LenProperties DEF TypeOK, CycleState
    <2>4. ASSUME NEW r \in DOMAIN audit, NEW h \in Hs
          PROVE  RegisteredBy(r, h)' = RegisteredBy(r, h)
      <3>1. r # RunOf(c)
        <4>1. r[1] = c /\ r = RunOf(r[1]) => cycle[c].pc \notin Running
          BY DEF RunsTried
        <4>. QED
          BY <2>2, <4>1 DEF RunOf, Running
      <3>2. CASE h # k
        BY <2>2, <3>2 DEF RegisteredBy
      <3>3. CASE h = k
        <4>1. 1 .. n = (1 .. Len(version[k])) \cup {n}
          BY <2>3
        <4>2. RegisteredBy(r, h)' = {v \in 1 .. n : version'[k][v].run = r}
          BY <2>2, <3>3 DEF RegisteredBy
        <4>3. RegisteredBy(r, h) = {v \in 1 .. Len(version[k]) : version'[k][v].run = r}
          BY <2>2, <3>3 DEF RegisteredBy
        <4>. HIDE DEF n
        <4>. QED
          BY <2>2, <3>1, <4>1, <4>2, <4>3
      <3>. QED
        BY <3>2, <3>3
    <2>. QED
      BY <2>2, <2>4 DEF AuditComplete
  <1>3. ASSUME NEW c \in Cycles, Close(c)
        PROVE  AuditComplete'
    <2>1. cycle[c].tries > 0
      BY <1>3 DEF Placed, Close, Running
    <2>2. /\ UNCHANGED registry /\ cycle[c].pc = "close"
          /\ DOMAIN audit' = DOMAIN audit \cup {RunOf(c)}
          /\ audit'[RunOf(c)] = cycle[c].summary
          /\ \A r \in DOMAIN audit \ {RunOf(c)} : audit'[r] = audit[r]
      BY <1>3, <2>1, CloseFields
    <2>3. ASSUME NEW r, NEW h \in Hs
          PROVE  RegisteredBy(r, h)' = RegisteredBy(r, h)
      BY <2>2 DEF RegisteredBy, registry
    <2>4. ASSUME NEW h \in Hs
          PROVE  RegisteredBy(RunOf(c), h) = Filed(cycle[c].summary[h])
      BY <2>2 DEF SummaryComplete, Running
    <2>5. ASSUME NEW r \in DOMAIN audit', NEW h \in Hs
          PROVE  RegisteredBy(r, h)' = Filed(audit'[r][h])
      <3>1. CASE r = RunOf(c)
        BY <2>2, <2>3, <2>4, <3>1
      <3>2. CASE r # RunOf(c)
        BY <2>2, <2>3, <3>2 DEF AuditComplete
      <3>. QED
        BY <3>1, <3>2
    <2>. QED
      BY <2>5 DEF AuditComplete, Filed
  <1>4. ASSUME NEW c \in Cycles,
               Start(c) \/ Drops(c) \/ Goes(c) \/ SetStaging(c) \/ SetProduction(c) \/ Leaves(c)
        PROVE  UNCHANGED <<version, audit>>
    <2>1. Start(c) \/ Drops(c) => UNCHANGED <<version, audit>>
      BY StartFields, DropFields DEF registry, Drops
    <2>2. Goes(c) \/ Leaves(c) => UNCHANGED <<version, audit>>
      BY GoesFields, LeavesFields DEF registry
    <2>3. SetStaging(c) \/ SetProduction(c) => UNCHANGED <<version, audit>>
      BY StagingFields, ProductionFields
    <2>. QED
      BY <1>4, <2>1, <2>2, <2>3
  <1>5. UNCHANGED vars \/ Moved => UNCHANGED <<version, audit>>
    BY MovedFields DEF vars
  <1>. QED
    BY <1>1, <1>2, <1>3, <1>4, <1>5, Steps DEF Works

--------------------------------------------------------------------------------
(* One cycle at a time, and what it holds when the aliases move.           *)

\* Only Start sets a cycle to work, and only these three touch the registry.
LEMMA Working ==
  ASSUME TypeOK, Placed, NEW c \in Cycles, Works(c)
  PROVE  /\ Moves(c) /\ UNCHANGED moves
         /\ \/ cycle[c].pc \in Running
            \/ UNCHANGED registry /\ (cycle'[c].pc \in Running => MayStart(c))
         /\ faults' = faults \/ faults' = faults + 1
         /\ crashes' = crashes \/ crashes' = crashes + 1
  <1>. USE DEF registry
  <1>1. CASE Start(c)
    BY <1>1, StartFields
  <1>2. CASE Drops(c)
    BY <1>2, DropFields DEF Running, Drops
  <1>3. CASE Goes(c)
    BY <1>3, GoesFields, Places
  <1>4. CASE Register(c)
    <2>1. cycle[c].tries > 0
      BY <1>4 DEF Placed, Register, Running
    <2>. QED
      BY <1>4, <2>1, RegisterFields DEF Running
  <1>5. CASE SetStaging(c)
    BY <1>5, StagingFields DEF Running
  <1>6. CASE SetProduction(c)
    BY <1>6, ProductionFields DEF Running
  <1>7. CASE Close(c)
    <2>1. cycle[c].tries > 0
      BY <1>7 DEF Placed, Close, Running
    <2>. QED
      BY <1>7, <2>1, CloseFields DEF Running
  <1>8. CASE Leaves(c)
    BY <1>8, LeavesFields, Places
  <1>. QED
    BY <1>1, <1>2, <1>3, <1>4, <1>5, <1>6, <1>7, <1>8 DEF Works

LEMMA AloneKept ==
  ASSUME TypeOK, Placed, Alone, [Next]_vars
  PROVE  Alone'
  <1>1. CASE UNCHANGED vars \/ Moved
    <2>1. UNCHANGED cycle
      BY <1>1, MovedFields DEF vars
    <2>. QED
      BY <2>1 DEF Alone
  <1>2. ASSUME NEW c \in Cycles, Works(c)
        PROVE  Alone'
    <2>1. /\ \A d \in Cycles \ {c} : cycle'[d] = cycle[d]
          /\ cycle'[c].pc \in Running => cycle[c].pc \in Running \/ MayStart(c)
      BY <1>2, Working DEF Moves
    <2>2. SUFFICES ASSUME ~ Overlap, NEW d \in Cycles, NEW e \in Cycles,
                          cycle'[d].pc \in Running, cycle'[e].pc \in Running, d # e
                   PROVE  FALSE
      BY DEF Alone
    <2>3. \A b \in Cycles \ {c} : cycle'[b].pc \in Running => ~ MayStart(c)
      BY <2>1, <2>2, Places DEF MayStart
    <2>4. cycle[d].pc \notin Running \/ cycle[e].pc \notin Running
      BY <2>2 DEF Alone
    <2>. QED
      BY <2>1, <2>2, <2>3, <2>4
  <1>. QED
    BY <1>1, <1>2, Steps

\* What ComparedWithProduction says of one cycle.
Compared(c) ==
  LET s == cycle[c]
  IN  /\ s.pc \in {"train", "lookup", "reevaluate"} => s.compared = 0
      /\ s.pc \in {"decide", "register"} => s.compared = production[s.h]
      /\ s.pc = "register" => s.compared = 0 \/ Improves(s.candidate, s.prod)
      /\ s.pc \in {"stage", "promote"} =>
           production[s.h] = 0 \/ Outdoes(s.h, s.mine, production[s.h])

LEMMA ComparedStep ==
  ASSUME TypeOK, Placed, NEW c \in Cycles, Compared(c), faults' = 0, faults = 0, Works(c)
  PROVE  Compared(c)'
  <1>1. CASE Start(c)
    BY <1>1, StartFields DEF Compared
  <1>2. CASE Drops(c)
    BY <1>2, DropFields DEF Compared, Drops
  <1>3. CASE \E x, y \in Maes : Train(c, x, y)
    BY <1>3, TrainFields DEF Compared
  <1>4. CASE Lookup(c)
    <2>1. /\ UNCHANGED production /\ cycle[c].pc = "lookup"
          /\ cycle'[c].pc = IF production[cycle[c].h] = 0 THEN "decide" ELSE "reevaluate"
          /\ cycle'[c].h = cycle[c].h /\ cycle'[c].compared = cycle[c].compared
      BY <1>4, LookupFields DEF registry
    <2>. QED
      BY <2>1 DEF Compared
  <1>5. CASE RegistryFault(c)
    BY <1>5, FaultFields
  <1>6. CASE \E x \in Maes : Reevaluate(c, x)
    <2>1. /\ UNCHANGED production /\ cycle'[c].pc = "decide"
          /\ cycle'[c].h = cycle[c].h /\ cycle'[c].compared = production[cycle[c].h]
      BY <1>6, ReevaluateFields DEF registry
    <2>. QED
      BY <2>1 DEF Compared
  <1>7. CASE Decide(c) /\ cycle'[c].pc = "register"
    <2>1. /\ UNCHANGED production /\ cycle[c].pc = "decide" /\ cycle'[c].h = cycle[c].h
          /\ cycle'[c].compared = cycle[c].compared
          /\ cycle'[c].candidate = cycle[c].candidate /\ cycle'[c].prod = cycle[c].prod
          /\ cycle[c].compared = 0 \/ Improves(cycle[c].candidate, cycle[c].prod)
      BY <1>7, AcceptFields DEF registry
    <2>. QED
      BY <1>7, <2>1 DEF Compared, Improves
  <1>8. CASE Register(c)
    <2> DEFINE k == cycle[c].h
               n == Len(version[k]) + 1
    <2>1. cycle[c].tries > 0
      BY <1>8 DEF Placed, Register, Running
    <2>2. /\ UNCHANGED production /\ cycle[c].pc = "register" /\ cycle'[c].pc = "stage"
          /\ cycle'[c].h = k /\ cycle'[c].mine = n
          /\ version'[k][n].compared = cycle[c].compared
          /\ version'[k][n].candidate = cycle[c].candidate
          /\ version'[k][n].prod = cycle[c].prod
      BY <1>8, <2>1, RegisterFields
    <2>3. /\ cycle[c].compared = production[k]
          /\ cycle[c].compared = 0 \/ Improves(cycle[c].candidate, cycle[c].prod)
      BY <2>2 DEF Compared
    <2>. HIDE DEF k, n
    <2>. QED
      BY <2>2, <2>3 DEF Compared, Outdoes, Improves
  <1>9. CASE SetStaging(c)
    <2>1. /\ UNCHANGED <<version, production>> /\ cycle[c].pc = "stage"
          /\ cycle'[c].pc = "promote" /\ cycle'[c].h = cycle[c].h /\ cycle'[c].mine = cycle[c].mine
      BY <1>9, StagingFields
    <2>. QED
      BY <2>1 DEF Compared, Outdoes
  <1>10. CASE SetProduction(c)
    <2>1. cycle'[c].pc \in {"train", "close"} /\ cycle'[c].compared = 0
      BY <1>10, ProductionFields
    <2>. QED
      BY <2>1 DEF Compared
  <1>11. CASE Close(c)
    <2>1. cycle[c].tries > 0
      BY <1>11 DEF Placed, Close, Running
    <2>2. cycle'[c].pc = "committed"
      BY <1>11, <2>1, CloseFields
    <2>. QED
      BY <2>2 DEF Compared
  <1>12. CASE Leaves(c)
    <2>1. cycle'[c].pc \in {"failed", "done"}
      BY <1>12, LeavesFields
    <2>. QED
      BY <2>1 DEF Compared
  <1>. QED
    BY <1>1, <1>2, <1>3, <1>4, <1>5, <1>6, <1>7, <1>8, <1>9, <1>10, <1>11, <1>12 DEF Works, Goes

LEMMA ComparedWithProductionKept ==
  ASSUME TypeOK, Placed, Alone, ComparedWithProduction, [Next]_vars
  PROVE  ComparedWithProduction'
  <1>1. CASE UNCHANGED vars
    BY <1>1 DEF ComparedWithProduction, Outdoes, Improves, vars
  \* Nobody is at work, and nothing is claimed of a cycle that is not.
  <1>2. CASE Moved
    <2>1. UNCHANGED cycle /\ (Meddling \/ \A c \in Cycles : cycle[c].pc \notin Running)
      BY <1>2, MovedFields
    <2>. QED
      BY <2>1 DEF ComparedWithProduction, Running
  <1>3. ASSUME NEW c \in Cycles, Works(c)
        PROVE  ComparedWithProduction'
    <2>1. /\ Moves(c)
          /\ faults' = faults \/ faults' = faults + 1
          /\ cycle[c].pc \in Running \/ UNCHANGED registry
      BY <1>3, Working
    <2>2. SUFFICES ASSUME ~ Overlap, ~ Meddling, faults' = 0, NEW d \in Cycles
                   PROVE  Compared(d)'
      BY DEF ComparedWithProduction, Compared
    <2>3. faults = 0
      BY <2>1, <2>2 DEF TypeOK
    <2>4. Compared(d)
      BY <2>2, <2>3 DEF ComparedWithProduction, Compared
    <2>5. CASE d = c
      BY <1>3, <2>2, <2>3, <2>4, <2>5, ComparedStep
    <2>6. CASE d # c
      <3>1. cycle'[d] = cycle[d]
        BY <2>1, <2>6 DEF Moves
      <3>2. CASE cycle[d].pc \in Running
        <4>1. cycle[c].pc \notin Running
          BY <2>2, <2>6, <3>2 DEF Alone
        <4>2. UNCHANGED registry
          BY <2>1, <4>1
        <4>. QED
          BY <2>4, <3>1, <4>2 DEF Compared, Outdoes, Improves, registry
      <3>3. CASE cycle[d].pc \notin Running
        <4>1. cycle[d].pc \notin {"train", "lookup", "reevaluate", "decide", "register", "stage",
                                  "promote"}
          BY <3>3 DEF Running
        <4>. QED
          BY <3>1, <4>1 DEF Compared
      <3>. QED
        BY <3>2, <3>3
    <2>. QED
      BY <2>5, <2>6
  <1>. QED
    BY <1>1, <1>2, <1>3, Steps

\* What LatestInStaging says of one cycle.
Latest(c) ==
  LET s == cycle[c]
  IN  /\ s.pc \in {"stage", "promote"} => s.mine = Len(version[s.h])
      /\ s.pc = "promote" => staging[s.h] = s.mine

LEMMA LatestStep ==
  ASSUME TypeOK, Placed, NEW c \in Cycles, Latest(c), Works(c)
  PROVE  Latest(c)'
  <1>1. CASE Start(c)
    BY <1>1, StartFields DEF Latest
  <1>2. CASE Drops(c)
    BY <1>2, DropFields DEF Latest, Drops
  <1>3. CASE Goes(c)
    <2>1. cycle'[c].pc \notin {"stage", "promote"}
      BY <1>3, GoesFields DEF Early
    <2>. QED
      BY <2>1 DEF Latest
  <1>4. CASE Register(c)
    <2>1. cycle[c].tries > 0
      BY <1>4 DEF Placed, Register, Running
    <2>2. /\ cycle'[c].pc = "stage" /\ cycle'[c].h = cycle[c].h
          /\ cycle'[c].mine = Len(version[cycle[c].h]) + 1
          /\ Len(version'[cycle[c].h]) = Len(version[cycle[c].h]) + 1
      BY <1>4, <2>1, RegisterFields
    <2>. QED
      BY <2>2 DEF Latest
  <1>5. CASE SetStaging(c)
    <2>1. /\ UNCHANGED version /\ cycle[c].pc = "stage"
          /\ cycle'[c].pc = "promote" /\ cycle'[c].h = cycle[c].h /\ cycle'[c].mine = cycle[c].mine
          /\ staging'[cycle[c].h] = cycle[c].mine
      BY <1>5, StagingFields
    <2>. QED
      BY <2>1 DEF Latest
  <1>6. CASE SetProduction(c)
    <2>1. cycle'[c].pc \in {"train", "close"}
      BY <1>6, ProductionFields
    <2>. QED
      BY <2>1 DEF Latest
  <1>7. CASE Close(c)
    <2>1. cycle[c].tries > 0
      BY <1>7 DEF Placed, Close, Running
    <2>2. cycle'[c].pc = "committed"
      BY <1>7, <2>1, CloseFields
    <2>. QED
      BY <2>2 DEF Latest
  <1>8. CASE Leaves(c)
    <2>1. cycle'[c].pc \in {"failed", "done"}
      BY <1>8, LeavesFields
    <2>. QED
      BY <2>1 DEF Latest
  <1>. QED
    BY <1>1, <1>2, <1>3, <1>4, <1>5, <1>6, <1>7, <1>8 DEF Works

LEMMA LatestInStagingKept ==
  ASSUME TypeOK, Placed, Alone, LatestInStaging, [Next]_vars
  PROVE  LatestInStaging'
  <1>1. CASE UNCHANGED vars \/ Moved
    <2>1. UNCHANGED <<cycle, version, staging>>
      BY <1>1, MovedFields DEF vars
    <2>. QED
      BY <2>1 DEF LatestInStaging
  <1>2. ASSUME NEW c \in Cycles, Works(c)
        PROVE  LatestInStaging'
    <2>1. Moves(c) /\ (cycle[c].pc \notin Running => UNCHANGED registry)
      BY <1>2, Working
    <2>2. SUFFICES ASSUME ~ Overlap, NEW d \in Cycles
                   PROVE  Latest(d)'
      BY DEF LatestInStaging, Latest
    <2>3. Latest(d)
      BY <2>2 DEF LatestInStaging, Latest
    <2>4. CASE d = c
      BY <1>2, <2>3, <2>4, LatestStep
    <2>5. CASE d # c
      <3>1. cycle'[d] = cycle[d]
        BY <2>1, <2>5 DEF Moves
      <3>2. CASE cycle[d].pc \in {"stage", "promote"}
        <4>1. cycle[c].pc \notin Running
          BY <2>2, <2>5, <3>2 DEF Alone, Running
        <4>. QED
          BY <2>1, <2>3, <3>1, <4>1 DEF Latest, registry
      <3>3. CASE cycle[d].pc \notin {"stage", "promote"}
        BY <3>1, <3>3 DEF Latest
      <3>. QED
        BY <3>2, <3>3
    <2>. QED
      BY <2>4, <2>5
  <1>. QED
    BY <1>1, <1>2, Steps

--------------------------------------------------------------------------------
(* Aliases that part company.                                              *)

\* Version staging[h] of the model for h, which is not (yet) in production, and the run
\* that put it there.
Apart(h) == production[h] # staging[h]
Stager(h) == version[h][staging[h]].run

\* What StagedToPromote says of one cycle and one horizon.
Staged(c, h) ==
  cycle[c].pc \in Running /\ Apart(h) /\ Stager(h) = RunOf(c) =>
    cycle[c].pc = "promote" /\ cycle[c].h = h

\* What AliasesInStep says of one horizon, and the promise that Staged keeps.
InStep(h) ==
  /\ production[h] <= staging[h]
  /\ Apart(h) =>
       /\ Stager(h) \notin DOMAIN audit
       /\ crashes > 0 \/ \E c \in Cycles : cycle[c].pc = "promote" /\ cycle[c].h = h

LEMMA InStepIs ==
  /\ AliasesInStep <=> (~ Overlap /\ moves = 0 => \A h \in Hs : InStep(h))
  /\ StagedToPromote <=> (~ Overlap /\ moves = 0 => \A c \in Cycles, h \in Hs : Staged(c, h))
  /\ AliasesInStep' <=> (~ Overlap /\ moves' = 0 => \A h \in Hs : InStep(h)')
  /\ StagedToPromote' <=> (~ Overlap /\ moves' = 0 => \A c \in Cycles, h \in Hs : Staged(c, h)')
  BY DEF AliasesInStep, StagedToPromote, InStep, Staged, Apart, Stager

\* A version that is staged alone stays the version it is: its run is known, and no
\* registration changes it.
LEMMA StagerKnown ==
  ASSUME TypeOK, NEW h \in Hs, production[h] <= staging[h], Apart(h)
  PROVE  staging[h] \in 1 .. Len(version[h]) /\ Stager(h) \in Runs
  <1>1. staging[h] \in Nat /\ production[h] \in Nat /\ staging[h] <= Len(version[h])
    BY DEF TypeOK
  <1>2. Len(version[h]) \in Nat
    BY LenProperties DEF TypeOK
  <1>3. staging[h] \in 1 .. Len(version[h])
    BY <1>1, <1>2 DEF Apart
  <1>. QED
    BY <1>3, RowTypes DEF Stager

\* Steps that leave the aliases and the versions they name alone.
LEMMA AliasesRest ==
  ASSUME TypeOK, Placed, NEW c \in Cycles, Works(c),
         ~ SetStaging(c), ~ SetProduction(c), NEW h \in Hs, production[h] <= staging[h]
  PROVE  /\ UNCHANGED <<staging, production>>
         /\ (Apart(h)' <=> Apart(h))
         /\ Apart(h) => Stager(h)' = Stager(h)
  <1>1. CASE Register(c)
    <2>1. cycle[c].tries > 0
      BY <1>1 DEF Placed, Register, Running
    <2>2. /\ UNCHANGED <<staging, production>>
          /\ \A k \in Hs \ {cycle[c].h} : version'[k] = version[k]
          /\ \A v \in 1 .. Len(version[cycle[c].h]) :
               version'[cycle[c].h][v] = version[cycle[c].h][v]
      BY <1>1, <2>1, RegisterFields
    <2>3. Apart(h) => version'[h][staging[h]] = version[h][staging[h]]
      BY <2>2, StagerKnown
    <2>. QED
      BY <2>2, <2>3 DEF Apart, Stager
  <1>2. CASE ~ Register(c)
    <2>1. Close(c) => cycle[c].tries > 0
      BY DEF Placed, Close, Running
    <2>2. UNCHANGED registry
      <3>1. Start(c) \/ Drops(c) => UNCHANGED registry
        BY StartFields, DropFields DEF Drops
      <3>2. Goes(c) \/ Leaves(c) => UNCHANGED registry
        BY GoesFields, LeavesFields
      <3>3. Close(c) => UNCHANGED registry
        BY <2>1, CloseFields
      <3>. QED
        BY <1>2, <3>1, <3>2, <3>3 DEF Works
    <2>. QED
      BY <2>2 DEF registry, Apart, Stager
  <1>. QED
    BY <1>1, <1>2

\* What c is working for when it sets an alias.
LEMMA Promoting ==
  ASSUME TypeOK, Placed, RunsTried, SummaryComplete, LatestInStaging, ~ Overlap,
         NEW c \in Cycles, cycle[c].pc \in {"stage", "promote"}
  PROVE  LET s == cycle[c]
         IN  /\ s.h \in Hs /\ s.mine \in 1 .. Len(version[s.h])
             /\ version[s.h][s.mine].run = RunOf(c) /\ RunOf(c) \notin DOMAIN audit
             /\ production[s.h] <= s.mine
             /\ s.pc = "promote" => staging[s.h] = s.mine
  <1> DEFINE s == cycle[c]
  <1>1. s.h \in Hs /\ s.mine \in 1 .. Len(version[s.h]) /\ s.pc \in Running
    BY DEF TypeOK, CycleState, Placed, Running
  <1>2. s.mine = Len(version[s.h]) /\ (s.pc = "promote" => staging[s.h] = s.mine)
    BY DEF LatestInStaging
  <1>3. RegisteredBy(RunOf(c), s.h) = {s.mine}
    BY <1>1 DEF SummaryComplete
  <1>4. RunOf(c) \notin DOMAIN audit
    BY <1>1 DEF RunsTried, RunOf
  <1>. QED
    BY <1>1, <1>2, <1>3, <1>4 DEF RegisteredBy, TypeOK

\* What a step that sets no alias does to the cycle that takes it: out of promote there
\* is but the crash.
LEMMA OwnSteps ==
  ASSUME TypeOK, Placed, NEW c \in Cycles, Works(c), ~ SetStaging(c), ~ SetProduction(c)
  PROVE  /\ cycle[c].pc = "promote" => crashes' = crashes + 1
         /\ cycle'[c].pc \in Running /\ ~ Start(c) =>
              /\ cycle[c].pc \in Running /\ cycle[c].pc # "promote"
              /\ cycle'[c].tries = cycle[c].tries
  <1>1. CASE Start(c)
    BY <1>1, StartFields
  <1>2. CASE Drops(c)
    BY <1>2, DropFields DEF Running, Drops
  <1>3. CASE Goes(c)
    BY <1>3, GoesFields, Places DEF Early
  <1>4. CASE Register(c)
    <2>1. cycle[c].tries > 0
      BY <1>4 DEF Placed, Register, Running
    <2>. QED
      BY <1>4, <2>1, RegisterFields DEF Running
  <1>5. CASE Close(c)
    <2>1. cycle[c].tries > 0
      BY <1>5 DEF Placed, Close, Running
    <2>. QED
      BY <1>5, <2>1, CloseFields DEF Running
  <1>6. CASE Leaves(c)
    BY <1>6, LeavesFields, Places
  <1>. QED
    BY <1>1, <1>2, <1>3, <1>4, <1>5, <1>6 DEF Works

\* Only Close leaves a row.
LEMMA OwnRows ==
  ASSUME TypeOK, Placed, NEW c \in Cycles, Works(c), ~ Close(c)
  PROVE  UNCHANGED audit
  <1>1. Start(c) \/ Drops(c) => UNCHANGED audit
    BY StartFields, DropFields DEF Drops
  <1>2. Goes(c) \/ Leaves(c) => UNCHANGED audit
    BY GoesFields, LeavesFields
  <1>3. SetStaging(c) \/ SetProduction(c) => UNCHANGED audit
    BY StagingFields, ProductionFields
  <1>4. Register(c) => UNCHANGED audit
    BY DEF Register
  <1>. QED
    BY <1>1, <1>2, <1>3, <1>4 DEF Works

LEMMA StagedToPromoteKept ==
  ASSUME TypeOK, Placed, RunsTried, SummaryComplete, LatestInStaging, StagedToPromote,
         AliasesInStep, [Next]_vars
  PROVE  StagedToPromote'
  <1>1. CASE UNCHANGED vars
    BY <1>1 DEF StagedToPromote, RunOf, vars
  <1>2. CASE Moved
    <2>1. moves' # 0
      BY <1>2, MovedFields
    <2>. QED
      BY <2>1 DEF StagedToPromote
  <1>3. ASSUME NEW c \in Cycles, Works(c)
        PROVE  StagedToPromote'
    <2>1. /\ Moves(c) /\ UNCHANGED moves
      BY <1>3, Working
    <2>2. SUFFICES ASSUME ~ Overlap, moves' = 0, NEW d \in Cycles, NEW h \in Hs
                   PROVE  Staged(d, h)'
      BY InStepIs
    <2>3. InStep(h) /\ \A e \in Cycles : Staged(e, h)
      BY <2>1, <2>2, InStepIs
    <2>4. d # c => cycle'[d] = cycle[d] /\ RunOf(d)' = RunOf(d)
      BY <2>1 DEF Moves, RunOf
    <2>5. CASE SetStaging(c)
      <3>1. /\ UNCHANGED <<version, production>> /\ cycle[c].pc = "stage"
            /\ cycle'[c].pc = "promote" /\ cycle'[c].h = cycle[c].h
            /\ cycle'[c].tries = cycle[c].tries
            /\ staging'[cycle[c].h] = cycle[c].mine
            /\ \A k \in Hs \ {cycle[c].h} : staging'[k] = staging[k]
        BY <2>5, StagingFields
      <3>2. CASE h = cycle[c].h
        <4>1. Stager(h)' = RunOf(c)
          BY <2>2, <3>1, <3>2, Promoting DEF Stager
        <4>2. d # c => RunOf(d)' # RunOf(c)
          BY <2>4 DEF RunOf
        <4>. QED
          BY <3>1, <3>2, <4>1, <4>2 DEF Staged
      <3>3. CASE h # cycle[c].h
        <4>1. (Apart(h)' <=> Apart(h)) /\ Stager(h)' = Stager(h)
          BY <3>1, <3>3 DEF Apart, Stager
        <4>2. d = c => ~ (Apart(h) /\ Stager(h) = RunOf(c))
          BY <2>3, <3>1 DEF Staged, Running
        <4>3. RunOf(c)' = RunOf(c)
          BY <3>1 DEF RunOf
        <4>. QED
          BY <2>3, <2>4, <4>1, <4>2, <4>3 DEF Staged
      <3>. QED
        BY <3>2, <3>3
    <2>6. CASE SetProduction(c)
      <3>1. /\ UNCHANGED <<version, staging>> /\ cycle[c].pc = "promote"
            /\ cycle'[c].tries = cycle[c].tries
            /\ production'[cycle[c].h] = cycle[c].mine
            /\ \A k \in Hs \ {cycle[c].h} : production'[k] = production[k]
        BY <2>6, ProductionFields
      <3>2. CASE h = cycle[c].h
        BY <2>2, <3>1, <3>2, Promoting DEF Staged, Apart
      <3>3. CASE h # cycle[c].h
        <4>1. (Apart(h)' <=> Apart(h)) /\ Stager(h)' = Stager(h)
          BY <3>1, <3>3 DEF Apart, Stager
        <4>2. d = c => ~ (Apart(h) /\ Stager(h) = RunOf(c))
          BY <2>3, <3>1, <3>3 DEF Staged, Running
        <4>3. RunOf(c)' = RunOf(c)
          BY <3>1 DEF RunOf
        <4>. QED
          BY <2>3, <2>4, <4>1, <4>2, <4>3 DEF Staged
      <3>. QED
        BY <3>2, <3>3
    <2>7. CASE ~ SetStaging(c) /\ ~ SetProduction(c)
      <3>1. (Apart(h)' <=> Apart(h)) /\ (Apart(h) => Stager(h)' = Stager(h))
        BY <1>3, <2>3, <2>7, AliasesRest DEF InStep
      <3>2. CASE d # c
        BY <2>3, <2>4, <3>1, <3>2 DEF Staged
      <3>3. CASE d = c
        <4>0. SUFFICES ASSUME cycle'[c].pc \in Running, Apart(h)', Stager(h)' = RunOf(c)'
                       PROVE  FALSE
          BY <3>3 DEF Staged
        <4>1. Apart(h) /\ Stager(h) = RunOf(c)'
          BY <3>1, <4>0
        <4>2. CASE Start(c)
          <5>0. cycle[c].tries \in Nat
            BY NumbersAssumption DEF TypeOK, CycleState
          <5>1. cycle'[c].tries = cycle[c].tries + 1 /\ cycle[c].tries \in Nat
            BY <4>2, <5>0, StartFields
          <5>2. Stager(h)[1] = c /\ Stager(h)[2] = cycle[c].tries + 1
            BY <4>1, <5>1 DEF RunOf
          <5>3. Stager(h)[2] <= cycle[Stager(h)[1]].tries
            BY <2>3, <4>1, StagerKnown DEF RunsTried, Stager, InStep
          <5>. QED
            BY <5>1, <5>2, <5>3
        <4>3. CASE ~ Start(c)
          <5>1. /\ cycle[c].pc \in Running /\ cycle[c].pc # "promote"
                /\ cycle'[c].tries = cycle[c].tries
            BY <1>3, <2>7, <4>0, <4>3, OwnSteps
          <5>. QED
            BY <2>3, <4>1, <5>1 DEF Staged, RunOf
        <4>. QED
          BY <4>2, <4>3
      <3>. QED
        BY <3>2, <3>3
    <2>. QED
      BY <2>5, <2>6, <2>7
  <1>. QED
    BY <1>1, <1>2, <1>3, Steps

LEMMA AliasesInStepKept ==
  ASSUME TypeOK, Placed, RunsTried, SummaryComplete, LatestInStaging, StagedToPromote,
         AliasesInStep, [Next]_vars
  PROVE  AliasesInStep'
  <1>1. CASE UNCHANGED vars
    BY <1>1 DEF AliasesInStep, vars
  <1>2. CASE Moved
    <2>1. moves' # 0
      BY <1>2, MovedFields
    <2>. QED
      BY <2>1 DEF AliasesInStep
  <1>3. ASSUME NEW c \in Cycles, Works(c)
        PROVE  AliasesInStep'
    <2>1. Moves(c) /\ UNCHANGED moves /\ (crashes' = crashes \/ crashes' = crashes + 1)
      BY <1>3, Working
    <2>2. SUFFICES ASSUME ~ Overlap, moves' = 0, NEW h \in Hs
                   PROVE  InStep(h)'
      BY InStepIs
    <2>3. InStep(h) /\ Staged(c, h)
      BY <2>1, <2>2, InStepIs
    <2>4. crashes \in Nat /\ crashes' \in Nat /\ (crashes > 0 => crashes' > 0)
      BY <2>1, NumbersAssumption DEF TypeOK
    \* What is in step stays so unless c was about to promote for h, or leaves a row.
    <2>5. ASSUME production'[h] = production[h], staging'[h] = staging[h],
                 (Apart(h)' <=> Apart(h)), Apart(h) => Stager(h)' = Stager(h),
                 Apart(h) => Stager(h) \notin DOMAIN audit',
                 \/ crashes' > 0 \/ cycle[c].pc # "promote" \/ cycle[c].h # h
          PROVE  InStep(h)'
      <3>1. \A d \in Cycles \ {c} : cycle'[d] = cycle[d]
        BY <2>1 DEF Moves
      <3>. QED
        BY <2>3, <2>4, <2>5, <3>1 DEF InStep
    <2>6. CASE SetStaging(c)
      <3>1. /\ UNCHANGED <<version, production, audit>> /\ cycle[c].pc = "stage"
            /\ cycle'[c].pc = "promote" /\ cycle'[c].h = cycle[c].h
            /\ staging'[cycle[c].h] = cycle[c].mine
            /\ \A k \in Hs \ {cycle[c].h} : staging'[k] = staging[k]
        BY <2>6, StagingFields
      <3>2. CASE h = cycle[c].h
        <4>1. Stager(h)' = RunOf(c) /\ RunOf(c) \notin DOMAIN audit'
          BY <2>2, <3>1, <3>2, Promoting DEF Stager
        <4>2. production'[h] <= staging'[h]
          BY <2>2, <3>1, <3>2, Promoting
        <4>. QED
          BY <3>1, <3>2, <4>1, <4>2 DEF InStep
      <3>3. CASE h # cycle[c].h
        BY <2>3, <2>5, <3>1, <3>3 DEF Apart, Stager, InStep
      <3>. QED
        BY <3>2, <3>3
    <2>7. CASE SetProduction(c)
      <3>1. /\ UNCHANGED <<version, staging, audit>> /\ cycle[c].pc = "promote"
            /\ production'[cycle[c].h] = cycle[c].mine
            /\ \A k \in Hs \ {cycle[c].h} : production'[k] = production[k]
        BY <2>7, ProductionFields
      <3>2. CASE h = cycle[c].h
        <4>1. staging[h] = cycle[c].mine /\ staging[h] \in Nat
          BY <3>1, <3>2, <2>2, Promoting DEF TypeOK
        <4>. QED
          BY <3>1, <3>2, <4>1 DEF InStep, Apart
      <3>3. CASE h # cycle[c].h
        BY <2>3, <2>5, <3>1, <3>3 DEF Apart, Stager, InStep
      <3>. QED
        BY <3>2, <3>3
    <2>8. CASE ~ SetStaging(c) /\ ~ SetProduction(c)
      <3>1. /\ UNCHANGED <<staging, production>>
            /\ (Apart(h)' <=> Apart(h)) /\ (Apart(h) => Stager(h)' = Stager(h))
        BY <1>3, <2>3, <2>8, AliasesRest DEF InStep
      <3>2. Apart(h) => Stager(h) \notin DOMAIN audit'
        <4>1. CASE Close(c)
          <5>1. cycle[c].tries > 0
            BY <4>1 DEF Placed, Close, Running
          <5>2. cycle[c].pc = "close" /\ DOMAIN audit' = DOMAIN audit \cup {RunOf(c)}
            BY <4>1, <5>1, CloseFields
          <5>3. Apart(h) => Stager(h) # RunOf(c)
            BY <2>3, <5>2 DEF Staged, Running
          <5>. QED
            BY <2>3, <5>2, <5>3 DEF InStep
        <4>2. CASE ~ Close(c)
          BY <1>3, <2>3, <2>8, <4>2, OwnRows DEF InStep
        <4>. QED
          BY <4>1, <4>2
      <3>3. crashes' > 0 \/ cycle[c].pc # "promote"
        BY <1>3, <2>4, <2>8, OwnSteps
      <3>. QED
        BY <2>5, <3>1, <3>2, <3>3
    <2>. QED
      BY <2>6, <2>7, <2>8
  <1>. QED
    BY <1>1, <1>2, <1>3, Steps


--------------------------------------------------------------------------------
(* The invariant, and what follows from it.                                *)

LEMMA Initially ==
  ASSUME Init
  PROVE  IndInv
  <1>1. 1 \in Hs /\ Hs = 1 .. Horizons
    BY NumbersAssumption DEF Hs
  <1>2. ASSUME NEW c \in Cycles
        PROVE  cycle[c].pc = "idle" /\ cycle[c].tries = 0 /\ cycle[c] \in CycleState
    <2>1. /\ cycle[c].pc = "idle" /\ cycle[c].tries = 0 /\ cycle[c].h = 1
          /\ cycle[c].candidate = NaN /\ cycle[c].baseline = NaN /\ cycle[c].compared = 0
          /\ cycle[c].prod = NaN /\ cycle[c].mine = 0 /\ cycle[c].summary = NoSummary
      BY DEF Init
    <2>2. NoSummary \in [Hs -> Nat] /\ "idle" \in PCs /\ NaN \in Maes
      BY DEF NoSummary, PCs, Maes
    <2>. QED
      BY <1>1, <2>1, <2>2, NumbersAssumption DEF Init, CycleState
  <1>3. ASSUME NEW h \in Hs
        PROVE  /\ version[h] = << >> /\ version[h] \in Seq(VersionRow) /\ Len(version[h]) = 0
               /\ staging[h] = 0 /\ production[h] = 0
    BY DEF Init
  <1>4. TypeOK
    <2>1. cycle \in [Cycles -> CycleState]
      BY <1>2 DEF Init
    <2>2. version \in [Hs -> Seq(VersionRow)]
      BY <1>3 DEF Init
    <2>3. staging \in [Hs -> Nat] /\ production \in [Hs -> Nat]
      BY DEF Init
    <2>4. DOMAIN audit = {} /\ faults \in 0 .. MaxFaults /\ crashes \in 0 .. MaxCrashes
          /\ moves \in 0 .. MaxMoves
      BY NumbersAssumption DEF Init
    <2>. QED
      BY <1>3, <2>1, <2>2, <2>3, <2>4 DEF TypeOK
  <1>5. \A c \in Cycles : cycle[c].pc \notin Running
    BY <1>2, Places
  <1>6. Placed /\ SummaryComplete /\ Alone
    BY <1>2, <1>5 DEF Placed, SummaryComplete, Alone, Running
  <1>7. RunsTried /\ AuditComplete
    <2>1. DOMAIN audit = {}
      BY DEF Init
    <2>. QED
      BY <1>3, <2>1 DEF RunsTried, AuditComplete
  <1>8. ComparedWithProduction /\ LatestInStaging
    BY <1>2 DEF ComparedWithProduction, LatestInStaging
  <1>9. AliasesInStep /\ StagedToPromote
    BY <1>3 DEF AliasesInStep, StagedToPromote
  <1>. QED
    BY <1>4, <1>6, <1>7, <1>8, <1>9 DEF IndInv

LEMMA Inductive ==
  ASSUME IndInv, [Next]_vars
  PROVE  IndInv'
  BY TypeKept, PlacedKept, RunsTriedKept, SummaryCompleteKept, AuditCompleteKept, AloneKept,
     ComparedWithProductionKept, LatestInStagingKept, StagedToPromoteKept,
     AliasesInStepKept DEF IndInv

\* The invariant from which the theorems below are drawn: where a cycle is, what its
\* try has registered and filed, what it compared its candidate with, and where that
\* leaves the aliases (run_training_cycle, train_for_horizon, promote).
THEOREM Invariance == Spec => []IndInv
  <1>1. Init => IndInv
    BY Initially
  <1>2. IndInv /\ [Next]_vars => IndInv'
    BY Inductive
  <1>. QED
    BY <1>1, <1>2, PTL DEF Spec

\* Every variable stays in its type, and no alias ever names a version that was not
\* registered.
THEOREM TypeCorrect == Spec => []TypeOK
  <1>1. IndInv => TypeOK
    BY DEF IndInv
  <1>. QED
    BY <1>1, Invariance, PTL

\* The committed row of a run lists, for each horizon, exactly the version that this
\* run registered, also when runs crash, are retried or overlap.
THEOREM AuditTrue == Spec => []AuditComplete
  <1>1. IndInv => AuditComplete
    BY DEF IndInv
  <1>. QED
    BY <1>1, Invariance, PTL

\* Without overlapping cycles and moves by hand @production trails @staging, wherever
\* tries crash, and differs from it only by the version of a run that is between the two
\* calls of promote or has crashed there, and so has left no row.
THEOREM AliasesTogether == Spec => []AliasesInStep
  <1>1. IndInv => AliasesInStep
    BY DEF IndInv
  <1>. QED
    BY <1>1, Invariance, PTL

LEMMA PromotesBetter ==
  ASSUME IndInv, [Next]_vars, ~ Overlap, ~ Meddling, faults = 0, moves' = moves,
         NEW h \in Hs, production[h] # 0, production'[h] # production[h]
  PROVE  Outdoes(h, production'[h], production[h])
  <1>1. TypeOK /\ Placed /\ ComparedWithProduction
    BY DEF IndInv
  <1>2. ~ UNCHANGED vars
    BY DEF vars
  <1>3. ~ Moved
    <2>1. moves \in Nat
      BY <1>1, NumbersAssumption DEF TypeOK
    <2>. QED
      BY <1>1, <2>1, MovedFields
  <1>4. PICK c \in Cycles : Works(c)
    BY <1>2, <1>3, Steps
  <1>5. ~ (Start(c) \/ Drops(c) \/ Goes(c) \/ Leaves(c))
    BY <1>1, StartFields, DropFields, GoesFields, LeavesFields DEF Drops, registry
  <1>6. ~ (Register(c) \/ Close(c))
    <2>1. Register(c) \/ Close(c) => cycle[c].tries > 0
      BY <1>1 DEF Placed, Register, Close, Running
    <2>. QED
      BY <1>1, <2>1, RegisterFields, CloseFields DEF registry
  <1>7. ~ SetStaging(c)
    BY <1>1, StagingFields
  <1>8. /\ cycle[c].pc = "promote" /\ production'[cycle[c].h] = cycle[c].mine
        /\ \A k \in Hs \ {cycle[c].h} : production'[k] = production[k]
    BY <1>1, <1>4, <1>5, <1>6, <1>7, ProductionFields DEF Works
  <1>9. h = cycle[c].h
    BY <1>8
  <1>. QED
    BY <1>1, <1>8, <1>9 DEF ComparedWithProduction

\* As long as no registry call fails, no cycles overlap and no alias is moved under a
\* cycle at work, a cycle only replaces in @production a version that it compared its
\* candidate with and beat by the threshold, wherever earlier tries crashed and whatever
\* an operator put there.
THEOREM ChampionOnlyBeaten == Spec => BeatsPredecessor
  <1>1. IndInv /\ [Next]_vars =>
          [~ Overlap /\ ~ Meddling /\ faults = 0 /\ moves' = moves =>
             \A h \in Hs : production[h] # 0 /\ production'[h] # production[h] =>
                          Outdoes(h, production'[h], production[h])]_registry
    BY PromotesBetter
  <1>. QED
    BY <1>1, Invariance, PTL DEF Spec, BeatsPredecessor
==================================================================================
