----------------------------- MODULE FeaturesProofs ------------------------------
(***************************************************************************)
(* Theorems about Features: what a feature row may know, and what a rerun  *)
(* of a slot may change, for any lags, windows and lookback, any number of *)
(* runs at a time, and any late or overwritten observations; about         *)
(* Insights: that the grid draws on the same readings; and about Signals:  *)
(* between which bounds the air-quality score lies, and when the storm     *)
(* flag is raised, with the sums that the slope is made of.                *)
(***************************************************************************)
EXTENDS Insights, Signals, Extrema

--------------------------------------------------------------------------------
(* Times.                                                                  *)

LEMMA TimesFinite ==
  /\ Times \subseteq Nat \ {0} /\ MaxTime \in Nat \ {0}
  /\ \A S \in SUBSET Times : IsFiniteSet(S) /\ S \subseteq Int
  <1>1. Times = 1 .. MaxTime /\ MaxTime \in Nat \ {0}
    BY SpansAssumption DEF Times
  <1>2. IsFiniteSet(Times)
    BY <1>1, FS_Interval
  <1>3. ASSUME NEW S \in SUBSET Times
        PROVE  IsFiniteSet(S) /\ S \subseteq Int
    <2>1. IsFiniteSet(S)
      BY <1>2, FS_Subset
    <2>2. S \subseteq Int
      BY <1>1
    <2>. QED
      BY <2>1, <2>2
  <1>. QED
    BY <1>1, <1>3

\* The last element of a set of times.
LEMMA LastTime ==
  ASSUME NEW S, S \subseteq Times, S # {}
  PROVE  Max(S) \in S /\ \A u \in S : u <= Max(S)
  BY TimesFinite, MaxIsGreatest

LEMMA LookbackInteger == Lookback \in Int
  <1> DEFINE L == {LookbackSetting} \cup Lags \cup Windows
  <1>1. IsFiniteSet({LookbackSetting}) /\ IsFiniteSet(Lags \cup Windows)
    BY SpansAssumption, FS_Singleton
  <1>2. L = {LookbackSetting} \cup (Lags \cup Windows)
    OBVIOUS
  <1>3. IsFiniteSet(L)
    BY <1>1, <1>2, FS_Union
  <1>4. L \subseteq Int /\ L # {}
    BY SpansAssumption
  <1>. HIDE DEF L
  <1>5. Max(L) \in L
    BY <1>3, <1>4, MaxIsGreatest
  <1>. QED
    BY <1>4, <1>5 DEF Lookback, L

\* Latest is the last time with an observation, or 0.
LEMMA LatestIs ==
  ASSUME NEW table
  PROVE  /\ Latest(table) \in {0} \cup {u \in Times : table[u] # Absent}
         /\ \A u \in Times : table[u] # Absent => u <= Latest(table)
         /\ Latest(table) \in 0 .. MaxTime
  <1> DEFINE S == {0} \cup {u \in Times : table[u] # Absent}
  <1>1. S \subseteq Int /\ S # {} /\ S \subseteq 0 .. MaxTime
    BY TimesFinite DEF Times
  <1>2. IsFiniteSet(S)
    <2>1. IsFiniteSet(0 .. MaxTime)
      BY TimesFinite, FS_Interval
    <2>. HIDE DEF S
    <2>. QED
      BY <1>1, <2>1, FS_Subset
  <1>3. Max(S) \in S /\ \A u \in S : u <= Max(S)
    BY <1>1, <1>2, MaxIsGreatest
  <1>. QED
    BY <1>1, <1>3 DEF Latest

--------------------------------------------------------------------------------
(* What the query returns.                                                 *)

LEMMA LoadIs ==
  ASSUME NEW table, table \in [Times -> Readings \cup {Absent}], NEW asOf \in Int
  PROVE  LET df == LoadObservations(table, asOf)
         IN  /\ DOMAIN df = {x \in Times : table[x] # Absent /\ InWindow(x, asOf)}
             /\ \A u \in DOMAIN df : df[u] = table[u] /\ df[u] \in Readings
             /\ df # << >> => DOMAIN df # {}
  <1> DEFINE D  == {x \in Times : table[x] # Absent /\ InWindow(x, asOf)}
             df == LoadObservations(table, asOf)
  <1>1. df = [u \in D |-> table[u]]
    BY DEF LoadObservations
  <1>2. \A u \in D : table[u] \in Readings
    OBVIOUS
  <1>. HIDE DEF D, df
  <1>3. D = {} => df = << >>
    BY <1>1
  <1>. QED
    BY <1>1, <1>2, <1>3 DEF D, df

--------------------------------------------------------------------------------
(* What a row is made of.                                                  *)

\* A lag is NULL or the last reading up to its target.
LEMMA ValueIs ==
  ASSUME NEW df, DOMAIN df \subseteq Times, \A u \in DOMAIN df : df[u] \in Readings,
         NEW target \in Int
  PROVE  LET x == ValueAtOrBefore(df, target)
         IN  /\ x \in Sourced
             /\ x # Null => /\ x[1] \in DOMAIN df /\ x[1] <= target
                            /\ x = <<x[1], df[x[1]]>> /\ df[x[1]] # Null
                            /\ \A u \in DOMAIN df : u <= target => u <= x[1]
  <1> DEFINE S == {u \in DOMAIN df : u <= target}
             x == ValueAtOrBefore(df, target)
  <1>1. CASE S = {} \/ df[Max(S)] = Null
    <2>1. x = Null
      BY <1>1 DEF ValueAtOrBefore
    <2>. QED
      BY <2>1 DEF Sourced
  <1>2. CASE S # {} /\ df[Max(S)] # Null
    <2>1. x = <<Max(S), df[Max(S)]>>
      BY <1>2 DEF ValueAtOrBefore
    <2>2. Max(S) \in S /\ \A u \in S : u <= Max(S)
      BY <1>2, LastTime
    <2>. DEFINE m == Max(S)
    <2>3. m \in DOMAIN df /\ m <= target /\ df[m] \in Values /\ m \in Times
      BY <1>2, <2>2 DEF Readings
    <2>4. \A u \in DOMAIN df : u <= target => u <= m
      BY <2>2
    <2>5. x = <<m, df[m]>>
      BY <2>1
    <2>. HIDE DEF m, x, S
    <2>6. x \in Sourced
      BY <2>3, <2>5 DEF Sourced
    <2>7. x[1] = m
      BY <2>5
    <2>. QED
      BY <1>2, <2>3, <2>4, <2>5, <2>6, <2>7 DEF x, m, S
  <1>. QED
    BY <1>1, <1>2

\* A row has its type, is anchored at the last row of its frame, and looks back.
LEMMA RowIs ==
  ASSUME NEW df, DOMAIN df \subseteq Times, DOMAIN df # {},
         \A u \in DOMAIN df : df[u] \in Readings, NEW asOf
  PROVE  LET r == ComputeRow(df, asOf)
         IN  /\ r \in Row /\ r.feature_time \in DOMAIN df
             /\ \A u \in DOMAIN df : u <= r.feature_time
             /\ LooksBack(r, r.feature_time)
  <1> DEFINE a == Max(DOMAIN df)
             r == ComputeRow(df, asOf)
  <1>1. a \in DOMAIN df /\ \A u \in DOMAIN df : u <= a
    BY LastTime
  <1>2. a \in Times /\ a \in Int /\ df[a] \in Readings
    BY <1>1, TimesFinite
  <1>3. r = [feature_time |-> a, anchor |-> df[a],
             lag |-> [h \in Lags |-> ValueAtOrBefore(df, a - h)],
             rolling |-> [w \in Windows |-> Window(df, a, w)]]
    BY DEF ComputeRow, LagBase
  <1>. HIDE DEF a
  <1>4. ASSUME NEW h \in Lags
        PROVE  /\ ValueAtOrBefore(df, a - h) \in Sourced
               /\ ValueAtOrBefore(df, a - h) # Null =>
                    /\ ValueAtOrBefore(df, a - h)[1] \in DOMAIN df
                    /\ ValueAtOrBefore(df, a - h)[1] <= a - h
    <2>1. a - h \in Int
      BY <1>2, SpansAssumption
    <2>. QED
      BY <2>1, ValueIs
  <1>5. ASSUME NEW w \in Windows
        PROVE  /\ Window(df, a, w) \in SUBSET (Times \X Values)
               /\ \A s \in Window(df, a, w) : s[1] \in DOMAIN df /\ s[1] <= a
    <2>1. ASSUME NEW s \in Window(df, a, w)
          PROVE  s \in Times \X Values /\ s[1] \in DOMAIN df /\ s[1] <= a
      <3>1. PICK u \in DOMAIN df : u <= a /\ df[u] # Null /\ s = <<u, df[u]>>
        BY <1>1 DEF Window
      <3>2. u \in Times /\ df[u] \in Values
        BY <3>1 DEF Readings
      <3>. QED
        BY <3>1, <3>2
    <2>. QED
      BY <2>1
  <1>6. /\ r.feature_time = a /\ r.anchor = df[a]
        /\ r.lag = [h \in Lags |-> ValueAtOrBefore(df, a - h)]
        /\ r.rolling = [w \in Windows |-> Window(df, a, w)]
    BY <1>3
  <1>7. r \in Row
    <2>1. [h \in Lags |-> ValueAtOrBefore(df, a - h)] \in [Lags -> Sourced]
      BY <1>4
    <2>2. [w \in Windows |-> Window(df, a, w)] \in [Windows -> SUBSET (Times \X Values)]
      BY <1>5
    <2>. QED
      BY <1>2, <1>3, <2>1, <2>2 DEF Row
  <1>. HIDE DEF r
  <1>8. ASSUME NEW h \in Lags, r.lag[h] # Null
        PROVE  r.lag[h][1] \in DOMAIN df /\ r.lag[h][1] <= a - h /\ r.lag[h][1] <= a
    <2>1. r.lag[h][1] \in DOMAIN df /\ r.lag[h][1] <= a - h
      BY <1>4, <1>6, <1>8
    <2>. QED
      BY <1>1, <2>1
  <1>9. ASSUME NEW u \in Sources(r)
        PROVE  u <= a
    <2>1. CASE u \in {r.lag[h][1] : h \in {x \in Lags : r.lag[x] # Null}}
      BY <1>8, <2>1
    <2>2. CASE u \in {s[1] : s \in UNION {r.rolling[w] : w \in Windows}}
      <3>1. PICK w \in Windows : \E s \in r.rolling[w] : u = s[1]
        BY <2>2
      <3>. QED
        BY <1>5, <1>6, <3>1
    <2>. QED
      BY <2>1, <2>2 DEF Sources
  <1>10. LooksBack(r, a)
    BY <1>8, <1>9 DEF LooksBack
  <1>. QED
    BY <1>1, <1>6, <1>7, <1>10 DEF r

--------------------------------------------------------------------------------
(* Rows of one anchor.                                                     *)

\* Two runs that found the same table up to the anchor they share make the same row,
\* unless one of them used a reading that the window of the other did not reach.
LEMMA SameRow ==
  ASSUME NEW table, table \in [Times -> Readings \cup {Absent}],
         NEW a \in Times, table[a] # Absent, \A u \in Times : table[u] # Absent => u <= a,
         NEW x \in Int, NEW y \in Int, InWindow(a, x), InWindow(a, y),
         NEW n \in Int, x <= n, y <= n,
         \A u \in Sources(ComputeRow(LoadObservations(table, x), x)) : u >= n - Lookback,
         \A u \in Sources(ComputeRow(LoadObservations(table, y), y)) : u >= n - Lookback
  PROVE  ComputeRow(LoadObservations(table, x), x) = ComputeRow(LoadObservations(table, y), y)
  <1> DEFINE d(z) == LoadObservations(table, z)
             r(z) == ComputeRow(d(z), z)
             asOf == {x, y}
  <1>1. ASSUME NEW z \in asOf
        PROVE  /\ z \in Int /\ z <= n /\ z >= a
               /\ DOMAIN d(z) = {u \in Times : table[u] # Absent /\ InWindow(u, z)}
               /\ DOMAIN d(z) \subseteq Times
               /\ \A u \in DOMAIN d(z) : d(z)[u] = table[u] /\ d(z)[u] \in Readings
               /\ a \in DOMAIN d(z) /\ Max(DOMAIN d(z)) = a
               /\ \A u \in Sources(r(z)) : u >= n - Lookback
    <2>1. z \in Int /\ z <= n /\ InWindow(a, z) /\ z >= a
      BY TimesFinite DEF InWindow
    <2>2. /\ DOMAIN d(z) = {u \in Times : table[u] # Absent /\ InWindow(u, z)}
          /\ \A u \in DOMAIN d(z) : d(z)[u] = table[u] /\ d(z)[u] \in Readings
      BY <2>1, LoadIs
    <2>3. a \in DOMAIN d(z) /\ DOMAIN d(z) \subseteq Times
      BY <2>1, <2>2
    <2>4. Max(DOMAIN d(z)) = a
      <3>1. Max(DOMAIN d(z)) \in DOMAIN d(z) /\ a <= Max(DOMAIN d(z))
        BY <2>3, LastTime
      <3>2. Max(DOMAIN d(z)) <= a /\ Max(DOMAIN d(z)) \in Int
        BY <2>2, <3>1, TimesFinite
      <3>. QED
        BY <3>1, <3>2, TimesFinite
    <2>5. \A u \in Sources(r(z)) : u >= n - Lookback
      OBVIOUS
    <2>. QED
      BY <2>1, <2>2, <2>3, <2>4, <2>5
  \* A reading that is recent enough for n is in both frames.
  <1>2. ASSUME NEW z \in asOf, NEW u \in Times, table[u] # Absent, u <= a, u >= n - Lookback
        PROVE  u \in DOMAIN d(z) /\ d(z)[u] = table[u]
    <2>1. u \in Int /\ a \in Int /\ Lookback \in Int /\ z \in Int /\ z <= n /\ z >= a
      BY <1>1, TimesFinite, LookbackInteger
    <2>2. InWindow(u, z)
      BY <1>2, <2>1 DEF InWindow
    <2>. QED
      BY <1>1, <1>2, <2>2
  <1>3. ASSUME NEW z \in asOf
        PROVE  /\ r(z).feature_time = a /\ r(z).anchor = table[a]
               /\ r(z).lag = [h \in Lags |-> ValueAtOrBefore(d(z), a - h)]
               /\ r(z).rolling = [w \in Windows |-> Window(d(z), a, w)]
               /\ r(z) = [feature_time |-> a, anchor |-> table[a],
                          lag |-> [h \in Lags |-> ValueAtOrBefore(d(z), a - h)],
                          rolling |-> [w \in Windows |-> Window(d(z), a, w)]]
    <2>1. d(z)[a] = table[a] /\ Max(DOMAIN d(z)) = a
      BY <1>1
    <2>. QED
      BY <2>1 DEF ComputeRow, LagBase
  <1>. HIDE DEF d, r
  \* What one run finds for a lag, the other finds as well.
  <1>4. ASSUME NEW z \in asOf, NEW t \in asOf, NEW h \in Lags,
               ValueAtOrBefore(d(z), a - h) # Null
        PROVE  ValueAtOrBefore(d(t), a - h) = ValueAtOrBefore(d(z), a - h)
    <2> DEFINE v == ValueAtOrBefore(d(z), a - h)
               S == {u \in DOMAIN d(t) : u <= a - h}
    <2>1. a - h \in Int /\ a \in Int /\ h \in Nat
      BY SpansAssumption, TimesFinite
    <2>2. /\ v[1] \in DOMAIN d(z) /\ v[1] <= a - h /\ v = <<v[1], d(z)[v[1]]>>
          /\ d(z)[v[1]] # Null /\ \A u \in DOMAIN d(z) : u <= a - h => u <= v[1]
      BY <1>1, <1>4, <2>1, ValueIs
    <2>3. v[1] \in Sources(r(z))
      BY <1>3, <1>4 DEF Sources
    <2>4. v[1] \in Times /\ v[1] \in Int /\ table[v[1]] # Absent /\ v[1] >= n - Lookback
      BY <1>1, <2>2, <2>3, TimesFinite
    <2>5. v[1] <= a
      BY <2>1, <2>2, <2>4
    <2>6. v[1] \in DOMAIN d(t) /\ d(t)[v[1]] = table[v[1]] /\ d(z)[v[1]] = table[v[1]]
      BY <1>2, <2>4, <2>5
    <2>7. v[1] \in S
      BY <2>2, <2>6
    <2>8. Max(S) \in S /\ v[1] <= Max(S)
      <3>1. S \subseteq Times /\ S # {}
        BY <1>1, <2>7
      <3>. QED
        BY <2>7, <3>1, LastTime
    <2>9. Max(S) <= v[1]
      <3> DEFINE m == Max(S)
      <3>1. m \in DOMAIN d(t) /\ m <= a - h /\ m \in Times /\ m \in Int /\ table[m] # Absent
        BY <1>1, <2>8, TimesFinite
      <3>2. m <= a /\ m >= n - Lookback
        BY <2>1, <2>4, <2>8, <3>1, LookbackInteger
      <3>3. m \in DOMAIN d(z)
        BY <1>2, <3>1, <3>2
      <3>. QED
        BY <2>2, <3>1, <3>3
    <2>10. Max(S) = v[1]
      <3>1. Max(S) \in Int
        BY <1>1, <2>8, TimesFinite
      <3>. QED
        BY <2>4, <2>8, <2>9, <3>1
    <2>11. d(t)[v[1]] # Null
      BY <2>2, <2>6
    <2>12. ValueAtOrBefore(d(t), a - h) = <<v[1], d(t)[v[1]]>>
      BY <2>7, <2>10, <2>11 DEF ValueAtOrBefore
    <2>. QED
      BY <2>2, <2>6, <2>12
  <1>5. ASSUME NEW h \in Lags
        PROVE  ValueAtOrBefore(d(x), a - h) = ValueAtOrBefore(d(y), a - h)
    BY <1>4
  \* And what it finds in a window.
  <1>6. ASSUME NEW z \in asOf, NEW t \in asOf, NEW w \in Windows
        PROVE  Window(d(z), a, w) \subseteq Window(d(t), a, w)
    <2>1. ASSUME NEW s \in Window(d(z), a, w)
          PROVE  s \in Window(d(t), a, w)
      <3>1. PICK u \in DOMAIN d(z) : /\ a - w <= u /\ u <= a /\ d(z)[u] # Null
                                     /\ s = <<u, d(z)[u]>>
        BY DEF Window
      <3>2. s[1] \in Sources(r(z)) /\ s[1] = u
        BY <1>3, <3>1 DEF Sources
      <3>3. u \in Times /\ table[u] # Absent /\ u >= n - Lookback
        BY <1>1, <3>2
      <3>4. u \in DOMAIN d(t) /\ d(t)[u] = table[u] /\ d(z)[u] = table[u]
        BY <1>2, <3>1, <3>3
      <3>. QED
        BY <3>1, <3>4 DEF Window
    <2>. QED
      BY <2>1
  <1>7. ASSUME NEW w \in Windows
        PROVE  Window(d(x), a, w) = Window(d(y), a, w)
    BY <1>6
  <1>8. r(x) = r(y)
    BY <1>3, <1>5, <1>7
  <1>. QED
    BY <1>8 DEF r, d

--------------------------------------------------------------------------------
(* The grid of the dashboard.                                              *)

\* What `rows` is of a table: k of its readings, oldest first, and all readings since
\* the oldest of them.
Listing(rows, table, k) ==
  /\ k \in Nat /\ DOMAIN rows = 1 .. k
  /\ \A n \in 1 .. k : /\ rows[n].time \in Times /\ table[rows[n].time] # Absent
                       /\ rows[n].reading = table[rows[n].time]
  /\ \A m, n \in 1 .. k : m < n => rows[m].time < rows[n].time
  /\ \A u \in Times : table[u] # Absent /\ k # 0 /\ u >= rows[1].time =>
       \E n \in 1 .. k : rows[n].time = u

\* The n-th time is there, it is the n-th, and every time is some n-th.
LEMMA NthIs ==
  ASSUME NEW S, S \subseteq Times
  PROVE  /\ Cardinality(S) \in Nat
         /\ \A n \in 1 .. Cardinality(S) :
              Nth(S, n) \in S /\ Cardinality({x \in S : x <= Nth(S, n)}) = n
         /\ \A u \in S : \E n \in 1 .. Cardinality(S) : Nth(S, n) = u
         /\ \A m, n \in 1 .. Cardinality(S) : m < n => Nth(S, m) < Nth(S, n)
  <1> DEFINE k == Cardinality(S)
             place(u) == Cardinality({x \in S : x <= u})
  <1>1. IsFiniteSet(S) /\ S \subseteq Int /\ k \in Nat
    BY TimesFinite, FS_CardinalityType
  <1>2. ASSUME NEW n \in 1 .. k
        PROVE  Nth(S, n) \in S /\ place(Nth(S, n)) = n
    <2>1. \E u \in S : place(u) = n
      BY <1>1, Places
    <2>. QED
      BY <2>1 DEF Nth
  <1>3. \A u, v \in S : u < v => place(u) < place(v)
    BY <1>1, FurtherUp
  <1>4. \A u \in S : place(u) \in 1 .. k
    BY <1>1, Places
  <1>. HIDE DEF place, k
  <1>5. ASSUME NEW u \in S
        PROVE  Nth(S, place(u)) = u
    <2> DEFINE v == Nth(S, place(u))
    <2>1. v \in S /\ place(v) = place(u)
      BY <1>2, <1>4
    <2>. HIDE DEF v
    <2>2. ~ (u < v) /\ ~ (v < u)
      BY <1>1, <1>3, <1>4, <2>1
    <2>3. u \in Int /\ v \in Int
      BY <1>1, <2>1
    <2>4. u = v
      BY <2>2, <2>3
    <2>. QED
      BY <2>4 DEF v
  <1>6. ASSUME NEW m \in 1 .. k, NEW n \in 1 .. k, m < n
        PROVE  Nth(S, m) < Nth(S, n)
    <2> DEFINE v == Nth(S, m)
               w == Nth(S, n)
    <2>1. v \in S /\ w \in S /\ place(v) = m /\ place(w) = n
      BY <1>2
    <2>. HIDE DEF v, w
    <2>2. v \in Int /\ w \in Int /\ m \in Int /\ n \in Int
      BY <1>1, <2>1
    <2>3. v # w /\ ~ (w < v)
      BY <1>3, <1>6, <2>1, <2>2
    <2>4. v < w
      BY <2>2, <2>3
    <2>. QED
      BY <2>4 DEF v, w
  <1>. QED
    BY <1>1, <1>2, <1>4, <1>5, <1>6 DEF place, k

\* The history is the last part of the table.
LEMMA HistoryIs ==
  ASSUME NEW table
  PROVE  \E k \in Nat : Listing(History(table), table, k)
  <1> DEFINE there == {u \in Times : table[u] # Absent}
             newer(u) == {x \in there : x > u}
             last  == {u \in there : Cardinality(newer(u)) < HistoryLimit}
             k     == Cardinality(last)
             rows  == History(table)
  <1>1. there \subseteq Times /\ last \subseteq Times /\ last \subseteq there
    OBVIOUS
  <1>2. rows = [n \in 1 .. k |-> [time |-> Nth(last, n), reading |-> table[Nth(last, n)]]]
    BY DEF History
  \* With a reading, all later ones are among the last.
  <1>3. ASSUME NEW u \in last, NEW v \in there, v >= u
        PROVE  v \in last
    <2>1. u \in Int /\ v \in Int /\ \A x \in there : x \in Int
      BY <1>1, TimesFinite
    <2>2. newer(v) \subseteq newer(u) /\ newer(u) \subseteq Times
      <3>1. \A x \in there : x > v => x > u
        BY <1>3, <2>1
      <3>. QED
        BY <3>1
    <2>3. IsFiniteSet(newer(u)) /\ IsFiniteSet(newer(v))
      BY <2>2, TimesFinite, FS_Subset
    <2>4. Cardinality(newer(v)) <= Cardinality(newer(u))
      <3>. HIDE DEF newer
      <3>. QED
        BY <2>2, <2>3, FS_Subset
    <2>5. Cardinality(newer(v)) \in Nat /\ Cardinality(newer(u)) \in Nat /\ HistoryLimit \in Nat
      <3>. HIDE DEF newer
      <3>. QED
        BY <2>3, FS_CardinalityType, HistoryLimitAssumption
    <2>6. Cardinality(newer(u)) < HistoryLimit
      OBVIOUS
    <2>7. Cardinality(newer(v)) < HistoryLimit
      <3>. HIDE DEF newer
      <3>. QED
        BY <2>4, <2>5, <2>6
    <2>. QED
      BY <2>7
  <1>. HIDE DEF last
  <1>4. /\ k \in Nat
        /\ \A n \in 1 .. k : Nth(last, n) \in last
        /\ \A u \in last : \E n \in 1 .. k : Nth(last, n) = u
        /\ \A m, n \in 1 .. k : m < n => Nth(last, m) < Nth(last, n)
    BY <1>1, NthIs
  <1>. HIDE DEF k, rows
  <1>5. /\ DOMAIN rows = 1 .. k
        /\ \A n \in 1 .. k : rows[n].time = Nth(last, n) /\ rows[n].reading = table[Nth(last, n)]
    BY <1>2
  <1>6. ASSUME NEW u \in Times, table[u] # Absent, k # 0, u >= rows[1].time
        PROVE  \E n \in 1 .. k : rows[n].time = u
    <2>1. 1 \in 1 .. k
      BY <1>4, <1>6
    <2>2. rows[1].time \in last
      BY <1>4, <1>5, <2>1
    <2>3. u \in last
      BY <1>3, <1>6, <2>2
    <2>. QED
      BY <1>4, <1>5, <2>3
  <1>7. Listing(rows, table, k)
    BY <1>1, <1>4, <1>5, <1>6 DEF Listing
  <1>. QED
    BY <1>4, <1>7 DEF rows

--------------------------------------------------------------------------------
(* The invariant: what is stored, or about to be, is kept.                 *)

LEMMA Initially ==
  ASSUME Init
  PROVE  IndInv
  <1>1. now = 1 /\ now \in Times /\ 0 \in 0 .. now
    BY TimesFinite DEF Init, Times
  <1>2. Latest(obs) = 0
    BY LatestIs DEF Init
  <1>3. builder = [b \in Builders |-> Idle]
    BY DEF Init
  <1>4. builder \in [Builders -> [pc : {"idle", "load", "store"}, asOf : 0 .. now,
                                  row : Row \cup {NoRow}]]
    BY <1>1, <1>3 DEF Idle
  <1>5. \A b \in Builders : builder[b].pc # "store"
    BY <1>3 DEF Idle
  <1>6. DOMAIN feats = {}
    BY DEF Init
  <1>7. obs \in [Times -> Readings \cup {Absent}]
    BY DEF Init
  <1>8. late \in 0 .. MaxLate /\ kills \in 0 .. MaxKills
    BY SpansAssumption DEF Init
  <1>9. TypeOK
    BY <1>1, <1>2, <1>4, <1>5, <1>6, <1>7, <1>8 DEF TypeOK
  <1>10. Held = {}
    BY <1>5, <1>6 DEF Held
  <1>. QED
    BY <1>9, <1>10 DEF IndInv

\* Every row that is held is a row, anchored at some time.
LEMMA HeldRows ==
  ASSUME TypeOK, NEW r \in Held
  PROVE  r \in Row /\ r.feature_time \in Times
  <1>1. r \in Row
    BY DEF Held, TypeOK
  <1>. QED
    BY <1>1 DEF Row

LEMMA UpToType ==
  ASSUME TypeOK, NEW a
  PROVE  UpTo(a) \in [Times -> Readings \cup {Absent}]
  BY DEF UpTo, TypeOK

\* What explains a row goes on doing so, as long as the table is the same up to the
\* anchor.
LEMMA ExplainedKept ==
  ASSUME NEW r, r.feature_time \in Times, Explained(r),
         \A u \in Times : u <= r.feature_time => obs'[u] = obs[u],
         now \in Int, now' \in Int, now <= now'
  PROVE  Explained(r)'
  <1> DEFINE a == r.feature_time
  <1>1. a \in Times /\ a \in Int /\ a <= a
    <2>1. \A u \in Times : u \in Int /\ u <= u
      BY TimesFinite
    <2>. QED
      BY <2>1
  <1>2. obs[a] # Absent
    BY DEF Explained
  <1>3. PICK asOf \in 0 .. now :
          InWindow(a, asOf) /\ r = ComputeRow(LoadObservations(UpTo(a), asOf), asOf)
    BY DEF Explained
  <1>4. UpTo(a)' = UpTo(a)
    BY <1>1 DEF UpTo
  <1>5. asOf \in 0 .. now' /\ obs'[a] # Absent
    BY <1>1, <1>2
  <1>6. \E z \in 0 .. now' : InWindow(a, z) /\ r = ComputeRow(LoadObservations(UpTo(a)', z), z)
    BY <1>3, <1>4, <1>5
  <1>. QED
    BY <1>5, <1>6 DEF Explained

\* What a run makes of the table: all that is asked of a row.
LEMMA ComputedRow ==
  ASSUME TypeOK, NEW b \in Builders, Compute(b)
  PROVE  LET r == ComputeRow(LoadObservations(obs, builder[b].asOf), builder[b].asOf)
         IN  /\ r \in Row /\ r.feature_time \in Times
             /\ InWindow(r.feature_time, builder[b].asOf)
             /\ LooksBack(r, r.feature_time) /\ Explained(r)
  <1> DEFINE asOf == builder[b].asOf
             df   == LoadObservations(obs, asOf)
             r    == ComputeRow(df, asOf)
             a    == r.feature_time
  <1>1. asOf \in 0 .. now /\ now \in Int /\ asOf \in Int
    BY TimesFinite DEF TypeOK
  <1>2. /\ DOMAIN df = {x \in Times : obs[x] # Absent /\ InWindow(x, asOf)}
        /\ \A u \in DOMAIN df : df[u] = obs[u] /\ df[u] \in Readings
        /\ DOMAIN df # {}
    <2>1. df # << >> /\ obs \in [Times -> Readings \cup {Absent}]
      BY DEF TypeOK, Compute
    <2>. QED
      BY <1>1, <2>1, LoadIs
  <1>. HIDE DEF df
  <1>3. /\ r \in Row /\ a \in DOMAIN df /\ \A u \in DOMAIN df : u <= a /\ LooksBack(r, a)
    BY <1>2, RowIs
  <1>4. a \in Times /\ obs[a] # Absent /\ InWindow(a, asOf) /\ LooksBack(r, a)
    BY <1>2, <1>3
  <1>5. LoadObservations(UpTo(a), asOf) = df
    <2>1. \A x \in Times : UpTo(a)[x] # Absent => UpTo(a)[x] = obs[x] /\ x <= a
      BY DEF UpTo
    <2>2. \A x \in DOMAIN df : UpTo(a)[x] = obs[x]
      BY <1>2, <1>3 DEF UpTo
    <2> DEFINE D == {x \in Times : UpTo(a)[x] # Absent /\ InWindow(x, asOf)}
    <2>3. D = DOMAIN df
      BY <1>2, <2>1, <2>2
    <2>4. LoadObservations(UpTo(a), asOf) = [u \in D |-> UpTo(a)[u]]
      BY DEF LoadObservations
    <2>5. df = [u \in DOMAIN df |-> obs[u]]
      BY DEF df, LoadObservations
    <2>. HIDE DEF D, a
    <2>. QED
      BY <2>2, <2>3, <2>4, <2>5
  <1>6. Explained(r)
    BY <1>1, <1>4, <1>5 DEF Explained
  <1>. QED
    BY <1>3, <1>4, <1>6 DEF df

\* A reading that arrives by now leaves the table typed and not ahead of the clock.
LEMMA ObservedTable ==
  ASSUME TypeOK, NEW u \in Times, NEW x \in Readings, u <= now, obs' = [obs EXCEPT ![u] = x]
  PROVE  obs' \in [Times -> Readings \cup {Absent}] /\ Latest(obs') <= now
  <1>1. obs' \in [Times -> Readings \cup {Absent}]
    BY DEF TypeOK
  <1>2. now \in Nat /\ Latest(obs) <= now
    BY TimesFinite DEF TypeOK
  <1>3. ASSUME NEW w \in Times, obs'[w] # Absent
        PROVE  w <= now
    <2>1. CASE w = u
      BY <2>1
    <2>2. CASE w # u
      <3>1. obs[w] # Absent
        BY <1>3, <2>2 DEF TypeOK
      <3>2. w <= Latest(obs) /\ Latest(obs) \in Int /\ w \in Int
        BY <3>1, LatestIs, TimesFinite
      <3>. QED
        BY <1>2, <3>2
    <2>. QED
      BY <2>1, <2>2
  <1>4. Latest(obs') = 0 \/ \E w \in Times : Latest(obs') = w /\ obs'[w] # Absent
    BY LatestIs
  <1>5. CASE Latest(obs') = 0
    BY <1>1, <1>2, <1>5
  <1>6. CASE \E w \in Times : Latest(obs') = w /\ obs'[w] # Absent
    <2>1. Latest(obs') <= now
      BY <1>3, <1>6
    <2>. QED
      BY <1>1, <2>1
  <1>. QED
    BY <1>4, <1>5, <1>6

BuilderState(n) == [pc : {"idle", "load", "store"}, asOf : 0 .. n, row : Row \cup {NoRow}]

LEMMA TypeKept ==
  ASSUME TypeOK, [Next]_vars
  PROVE  TypeOK'
  <1>0. now \in Times /\ now \in Nat /\ Times = 1 .. MaxTime /\ MaxTime \in Nat
    BY TimesFinite DEF TypeOK, Times
  <1>01. ASSUME NEW b \in Builders
         PROVE  builder[b] \in BuilderState(now) /\ Idle \in BuilderState(now)
    BY <1>0 DEF TypeOK, BuilderState, Idle
  \* A builder that is given another state, which is in order.
  <1>1. ASSUME NEW b \in Builders, NEW s \in BuilderState(now), builder' = [builder EXCEPT ![b] = s],
               s.pc = "store" => s.row \in Row /\ InWindow(s.row.feature_time, s.asOf),
               now' = now
        PROVE  /\ builder' \in [Builders -> BuilderState(now')]
               /\ \A d \in Builders : builder'[d].pc = "store" =>
                    builder'[d].row \in Row
                    /\ InWindow(builder'[d].row.feature_time, builder'[d].asOf)
    <2>1. builder' \in [Builders -> BuilderState(now')]
      BY <1>01, <1>1 DEF TypeOK, BuilderState
    <2>2. ASSUME NEW d \in Builders, builder'[d].pc = "store"
          PROVE  builder'[d].row \in Row
                 /\ InWindow(builder'[d].row.feature_time, builder'[d].asOf)
      <3>1. d = b => builder'[d] = s
        BY <1>1 DEF TypeOK
      <3>2. d # b => builder'[d] = builder[d]
        BY <1>1 DEF TypeOK
      <3>. QED
        BY <1>1, <2>2, <3>1, <3>2 DEF TypeOK
    <2>. QED
      BY <2>1, <2>2
  <1>2. CASE UNCHANGED vars
    BY <1>2 DEF TypeOK, vars, InWindow, Lookback, Latest
  <1>3. CASE Tick
    <2>1. /\ now' = now + 1 /\ now' \in Times /\ UNCHANGED <<obs, feats, builder, late, kills>>
      BY <1>0, <1>3 DEF Tick
    <2>2. Latest(obs) <= now' /\ 0 .. now \subseteq 0 .. now'
      BY <1>0, <2>1, LatestIs DEF TypeOK
    <2>3. builder \in [Builders -> BuilderState(now')]
      BY <2>2 DEF TypeOK, BuilderState
    <2>. QED
      BY <2>1, <2>2, <2>3 DEF TypeOK, BuilderState
  <1>4. ASSUME NEW u \in Times, NEW x \in Readings, Observe(u, x) \/ ObserveLate(u, x)
        PROVE  TypeOK'
    <2>1. /\ obs' = [obs EXCEPT ![u] = x] /\ UNCHANGED <<now, feats, builder, kills>>
          /\ late' \in 0 .. MaxLate
      BY <1>4, SpansAssumption DEF Observe, ObserveLate, TypeOK
    <2>2. u <= now
      BY <1>0, <1>4, LatestIs DEF Observe, ObserveLate, TypeOK
    <2>3. obs' \in [Times -> Readings \cup {Absent}] /\ Latest(obs') <= now
      BY <2>1, <2>2, ObservedTable
    <2>. QED
      BY <2>1, <2>3 DEF TypeOK
  <1>5. ASSUME NEW b \in Builders, Begin(b)
        PROVE  TypeOK'
    <2> DEFINE s == [pc |-> "load", asOf |-> now, row |-> NoRow]
    <2>1. s \in BuilderState(now) /\ s.pc # "store"
      BY <1>0 DEF BuilderState
    <2>2. builder' = [builder EXCEPT ![b] = s] /\ UNCHANGED <<now, obs, feats, late, kills>>
      BY <1>5 DEF Begin
    <2>. HIDE DEF s
    <2>. QED
      BY <1>1, <2>1, <2>2 DEF TypeOK, BuilderState
  <1>6. ASSUME NEW b \in Builders, Compute(b)
        PROVE  TypeOK'
    <2> DEFINE r == ComputeRow(LoadObservations(obs, builder[b].asOf), builder[b].asOf)
               s == [builder[b] EXCEPT !.pc = "store", !.row = r]
    <2>1. r \in Row /\ InWindow(r.feature_time, builder[b].asOf)
      BY <1>6, ComputedRow
    <2>2. builder' = [builder EXCEPT ![b] = s] /\ UNCHANGED <<now, obs, feats, late, kills>>
      BY <1>6 DEF Compute, TypeOK
    <2>. HIDE DEF r
    <2>3. /\ s \in BuilderState(now)
          /\ s.row = r /\ s.asOf = builder[b].asOf
      BY <1>01, <2>1 DEF BuilderState
    <2>. HIDE DEF s
    <2>. QED
      BY <1>1, <2>1, <2>2, <2>3 DEF TypeOK, BuilderState
  <1>7. ASSUME NEW b \in Builders, NothingToDo(b) \/ Kill(b)
        PROVE  TypeOK'
    <2>1. /\ builder' = [builder EXCEPT ![b] = Idle] /\ UNCHANGED <<now, obs, feats, late>>
          /\ kills' \in 0 .. MaxKills
      BY <1>7, SpansAssumption DEF NothingToDo, Kill, TypeOK
    <2>2. Idle.pc # "store"
      BY DEF Idle
    <2>. QED
      BY <1>01, <1>1, <2>1, <2>2 DEF TypeOK, BuilderState
  <1>8. ASSUME NEW b \in Builders, Store(b)
        PROVE  TypeOK'
    <2> DEFINE r == builder[b].row
    <2>1. /\ builder' = [builder EXCEPT ![b] = Idle] /\ UNCHANGED <<now, obs, late, kills>>
          /\ r \in Row /\ feats' = UpsertFeatures(feats, r)
      BY <1>8 DEF Store, TypeOK
    <2>2. Idle.pc # "store"
      BY DEF Idle
    <2>3. r.feature_time \in Times
      BY <2>1 DEF Row
    <2>4. /\ DOMAIN feats' = DOMAIN feats \cup {r.feature_time}
          /\ \A a \in DOMAIN feats' : feats'[a] = IF a = r.feature_time THEN r ELSE feats[a]
      BY <2>1 DEF UpsertFeatures
    <2>. HIDE DEF r
    <2>5. DOMAIN feats' \subseteq Times
      BY <2>3, <2>4 DEF TypeOK
    <2>6. \A a \in DOMAIN feats' : feats'[a] \in Row /\ feats'[a].feature_time = a
      BY <2>1, <2>4 DEF TypeOK
    <2>. QED
      BY <1>01, <1>1, <2>1, <2>2, <2>5, <2>6 DEF TypeOK, BuilderState
  <1>. QED
    BY <1>2, <1>3, <1>4, <1>5, <1>6, <1>7, <1>8 DEF Next, Step

\* What one step adds to the rows that are held, and what it does to the table.
LEMMA HeldStep ==
  ASSUME TypeOK, [Next]_vars
  PROVE  /\ \A r \in Held' : r \in Held \/ (LooksBack(r, r.feature_time) /\ Explained(r))
         /\ now <= now' /\ now' \in Int
         /\ \/ late' = late /\ \A u \in Times : u <= Latest(obs) => obs'[u] = obs[u]
            \/ late' # 0
  <1>0. /\ now \in Nat /\ late \in Nat
        /\ builder \in [Builders -> [pc : {"idle", "load", "store"}, asOf : 0 .. now,
                                     row : Row \cup {NoRow}]]
    BY TimesFinite, SpansAssumption DEF TypeOK
  \* Where no row is stored, and b's row, if it still has one, is as before.
  <1>1. ASSUME UNCHANGED <<now, obs, feats, late>>, NEW b \in Builders,
               \A d \in Builders \ {b} : builder'[d] = builder[d],
               builder'[b].pc # "store"
        PROVE  Held' \subseteq Held
    BY <1>1 DEF Held
  <1>2. CASE UNCHANGED vars
    BY <1>0, <1>2 DEF Held, vars
  <1>3. CASE Tick
    BY <1>0, <1>3 DEF Tick, Held
  <1>4. ASSUME NEW u \in Times, NEW x \in Readings, Observe(u, x)
        PROVE  /\ Held' = Held /\ now' = now /\ late' = late
               /\ \A w \in Times : w <= Latest(obs) => obs'[w] = obs[w]
    <2>1. /\ Latest(obs) < u /\ obs' = [obs EXCEPT ![u] = x]
          /\ UNCHANGED <<now, feats, builder, late, kills>>
      BY <1>4 DEF Observe
    <2>2. Latest(obs) \in Int /\ u \in Int
      BY LatestIs, TimesFinite
    <2>3. \A w \in Times : w <= Latest(obs) => w # u
      BY <2>1, <2>2
    <2>. QED
      BY <2>1, <2>3 DEF Held, TypeOK
  <1>5. ASSUME NEW u \in Times, NEW x \in Readings, ObserveLate(u, x)
        PROVE  Held' = Held /\ now' = now /\ late' # 0
    BY <1>0, <1>5 DEF ObserveLate, Held
  <1>6. ASSUME NEW b \in Builders, Begin(b)
        PROVE  Held' \subseteq Held /\ UNCHANGED <<now, obs, late>>
    <2>1. UNCHANGED <<now, obs, feats, late>> /\ builder'[b].pc = "load"
          /\ \A d \in Builders \ {b} : builder'[d] = builder[d]
      BY <1>0, <1>6 DEF Begin
    <2>. QED
      BY <1>1, <2>1
  <1>7. ASSUME NEW b \in Builders, NothingToDo(b) \/ Kill(b)
        PROVE  Held' \subseteq Held /\ UNCHANGED <<now, obs, late>>
    <2>1. UNCHANGED <<now, obs, feats, late>> /\ builder'[b].pc = "idle"
          /\ \A d \in Builders \ {b} : builder'[d] = builder[d]
      BY <1>0, <1>7 DEF NothingToDo, Kill, Idle
    <2>. QED
      BY <1>1, <2>1
  <1>8. ASSUME NEW b \in Builders, Compute(b)
        PROVE  /\ \A r \in Held' : r \in Held \/ (LooksBack(r, r.feature_time) /\ Explained(r))
               /\ UNCHANGED <<now, obs, late>>
    <2> DEFINE r == ComputeRow(LoadObservations(obs, builder[b].asOf), builder[b].asOf)
    <2>1. LooksBack(r, r.feature_time) /\ Explained(r)
      BY <1>8, ComputedRow
    <2>2. /\ builder' = [builder EXCEPT ![b].pc = "store", ![b].row = r]
          /\ UNCHANGED <<now, obs, feats, late, kills>>
      BY <1>8 DEF Compute
    <2>. HIDE DEF r
    <2>3. builder'[b].row = r /\ \A d \in Builders \ {b} : builder'[d] = builder[d]
      BY <1>0, <2>2
    <2>4. ASSUME NEW x \in Held', x \notin Held
          PROVE  x = r
      BY <2>2, <2>3, <2>4 DEF Held
    <2>. QED
      BY <2>1, <2>2, <2>4
  <1>9. ASSUME NEW b \in Builders, Store(b)
        PROVE  Held' \subseteq Held /\ UNCHANGED <<now, obs, late>>
    <2>1. /\ builder[b].pc = "store" /\ builder'[b].pc = "idle"
          /\ \A d \in Builders \ {b} : builder'[d] = builder[d]
          /\ UNCHANGED <<now, obs, late, kills>>
      BY <1>0, <1>9 DEF Store, Idle
    <2>2. \A a \in DOMAIN feats' : feats'[a] = builder[b].row \/ (a \in DOMAIN feats /\ feats'[a] = feats[a])
      BY <1>9 DEF Store, UpsertFeatures
    <2>3. builder[b].row \in Held
      BY <2>1 DEF Held
    <2>4. \A a \in DOMAIN feats' : feats'[a] \in Held
      BY <2>2, <2>3 DEF Held
    <2>5. \A d \in Builders : builder'[d].pc = "store" => builder'[d].row \in Held
      BY <2>1 DEF Held
    <2>6. Held' \subseteq Held
      <3>1. ASSUME NEW x \in Held'
            PROVE  x \in Held
        <4>1. \/ \E a \in DOMAIN feats' : x = feats'[a]
              \/ \E d \in Builders : builder'[d].pc = "store" /\ x = builder'[d].row
          BY DEF Held
        <4>. QED
          BY <2>4, <2>5, <4>1
      <3>. QED
        BY <3>1
    <2>. QED
      BY <2>1, <2>6
  <1>. QED
    BY <1>0, <1>2, <1>3, <1>4, <1>5, <1>6, <1>7, <1>8, <1>9 DEF Next, Step

LEMMA Inductive ==
  ASSUME IndInv, [Next]_vars
  PROVE  IndInv'
  <1>1. TypeOK /\ TypeOK' /\ late \in Nat /\ now \in Int
    BY TypeKept, TimesFinite, SpansAssumption DEF IndInv, TypeOK
  <1>2. ASSUME NEW r \in Held'
        PROVE  LooksBack(r, r.feature_time)
    BY <1>1, <1>2, HeldStep DEF IndInv
  <1>3. ASSUME late' = 0, NEW r \in Held'
        PROVE  Explained(r)'
    <2>1. late' = late /\ \A u \in Times : u <= Latest(obs) => obs'[u] = obs[u]
      BY <1>1, <1>3, HeldStep
    <2>2. now <= now' /\ now' \in Int
      BY <1>1, HeldStep
    <2>3. Explained(r) /\ r.feature_time \in Times
      <3>1. CASE r \in Held
        BY <1>1, <1>3, <2>1, <3>1, HeldRows DEF IndInv
      <3>2. CASE r \notin Held
        <4>1. Explained(r)
          BY <1>1, <1>3, <3>2, HeldStep
        <4>2. r.feature_time \in Times
          <5>1. \/ \E a \in DOMAIN feats' : r = feats'[a]
                \/ \E b \in Builders : builder'[b].pc = "store" /\ r = builder'[b].row
            BY DEF Held
          <5>2. /\ \A a \in DOMAIN feats' : feats'[a] \in Row
                /\ \A b \in Builders : builder'[b].pc = "store" => builder'[b].row \in Row
            BY <1>1 DEF TypeOK
          <5>3. r \in Row
            BY <5>1, <5>2
          <5>. QED
            BY <5>3 DEF Row
        <4>. QED
          BY <4>1, <4>2
      <3>. QED
        BY <3>1, <3>2
    <2>4. ASSUME NEW u \in Times, u <= r.feature_time
          PROVE  obs'[u] = obs[u]
      <3>1. obs[r.feature_time] # Absent
        BY <2>3 DEF Explained
      <3>2. r.feature_time <= Latest(obs) /\ Latest(obs) \in Int
        BY <2>3, <3>1, LatestIs
      <3>3. u <= Latest(obs)
        <4>1. \A t \in Times : t \in Int
          BY TimesFinite
        <4>. QED
          BY <2>3, <2>4, <3>2, <4>1
      <3>. QED
        BY <2>1, <3>3
    <2>. QED
      BY <1>1, <2>2, <2>3, <2>4, ExplainedKept
  <1>. QED
    BY <1>1, <1>2, <1>3 DEF IndInv, LooksBack, Sources

\* The invariant from which the theorems below are drawn: rows that are stored, or in
\* the hands of a run, look back only, and, while readings come in order, are what
\* the table gives up to their anchor (build_and_store_features).
THEOREM Invariance == Spec => []IndInv
  <1>1. Init => IndInv
    BY Initially
  <1>2. IndInv /\ [Next]_vars => IndInv'
    BY Inductive
  <1>. QED
    BY <1>1, <1>2, PTL DEF Spec

\* Every variable stays in its type; a computed row is anchored in its run's window.
THEOREM TypeCorrect == Spec => []TypeOK
  <1>1. IndInv => TypeOK
    BY DEF IndInv
  <1>. QED
    BY <1>1, Invariance, PTL

\* No stored row knows of a reading that was observed after its feature_time, and no
\* lag of h hours is less than h hours old, whatever came late.
THEOREM NoFutureKnown == Spec => []NoLeak
  <1>1. IndInv => NoLeak
    <2>1. SUFFICES ASSUME IndInv, NEW a \in DOMAIN feats
                   PROVE  LooksBack(feats[a], a)
      BY DEF NoLeak
    <2>2. feats[a] \in Held /\ feats[a].feature_time = a
      BY <2>1 DEF Held, IndInv, TypeOK
    <2>. QED
      BY <2>1, <2>2 DEF IndInv
  <1>. QED
    BY <1>1, Invariance, PTL

LEMMA RerunChanges ==
  ASSUME IndInv, [Next]_vars, late = 0, NEW a \in DOMAIN feats, feats'[a] # feats[a]
  PROVE  \E u \in Sources(feats[a]) \cup Sources(feats'[a]) : u < now - Lookback
  <1>1. TypeOK /\ now \in Int /\ Lookback \in Int /\ a \in Times
    BY TimesFinite, LookbackInteger DEF IndInv, TypeOK
  <1>2. PICK b \in Builders : Store(b)
    <2>1. ~ UNCHANGED feats
      OBVIOUS
    <2>. QED
      BY <2>1 DEF Next, Step, vars, Tick, Observe, ObserveLate, Begin, Compute, NothingToDo, Kill
  <1>3. feats'[a] = builder[b].row /\ builder[b].row.feature_time = a /\ builder[b].pc = "store"
    BY <1>2 DEF Store, UpsertFeatures
  <1>4. feats[a] \in Held /\ feats'[a] \in Held /\ feats[a].feature_time = a
    BY <1>1, <1>3 DEF Held, TypeOK
  <1>5. Explained(feats[a]) /\ Explained(feats'[a])
    BY <1>4 DEF IndInv
  <1> DEFINE table == UpTo(a)
             row(z) == ComputeRow(LoadObservations(table, z), z)
  <1>6. PICK x \in 0 .. now : InWindow(a, x) /\ feats[a] = row(x)
    BY <1>4, <1>5 DEF Explained
  <1>7. PICK y \in 0 .. now : InWindow(a, y) /\ feats'[a] = row(y)
    BY <1>3, <1>5 DEF Explained
  <1>8. /\ table \in [Times -> Readings \cup {Absent}] /\ table[a] # Absent
        /\ \A u \in Times : table[u] # Absent => u <= a
    <2>1. obs[a] # Absent /\ a <= a
      BY <1>1, <1>4, <1>5, TimesFinite DEF Explained
    <2>2. table \in [Times -> Readings \cup {Absent}]
      BY <1>1, UpToType
    <2>. QED
      BY <1>1, <2>1, <2>2 DEF UpTo
  <1>9. x \in Int /\ y \in Int /\ x <= now /\ y <= now
    BY <1>1
  <1>10. SUFFICES ASSUME \A u \in Sources(feats[a]) \cup Sources(feats'[a]) : ~ (u < now - Lookback)
                  PROVE  FALSE
    OBVIOUS
  <1>11. \A u \in Sources(row(x)) \cup Sources(row(y)) : u \in Int
    <2>1. ASSUME NEW r \in Row
          PROVE  \A u \in Sources(r) : u \in Int
      <3>1. ASSUME NEW h \in Lags, r.lag[h] # Null
            PROVE  r.lag[h][1] \in Times
        <4>1. r.lag[h] \in Sourced
          BY DEF Row
        <4>2. r.lag[h] \in Times \X Values
          BY <3>1, <4>1 DEF Sourced
        <4>. QED
          BY <4>2
      <3>2. ASSUME NEW w \in Windows, NEW s \in r.rolling[w]
            PROVE  s[1] \in Times
        <4>1. r.rolling[w] \in SUBSET (Times \X Values)
          BY DEF Row
        <4>. QED
          BY <4>1
      <3>3. ASSUME NEW u \in Sources(r)
            PROVE  u \in Times
        <4>1. CASE u \in {r.lag[h][1] : h \in {z \in Lags : r.lag[z] # Null}}
          BY <3>1, <4>1
        <4>2. CASE u \in {s[1] : s \in UNION {r.rolling[w] : w \in Windows}}
          <5>1. PICK w \in Windows : \E s \in r.rolling[w] : u = s[1]
            BY <4>2
          <5>. QED
            BY <3>2, <5>1
        <4>. QED
          BY <4>1, <4>2 DEF Sources
      <3>. QED
        BY <3>3, TimesFinite
    <2>2. row(x) \in Row /\ row(y) \in Row
      BY <1>1, <1>4, <1>6, <1>7, HeldRows
    <2>. QED
      BY <2>1, <2>2
  <1>12. \A u \in Sources(row(x)) \cup Sources(row(y)) : u >= now - Lookback
    <2>. HIDE DEF row
    <2>. QED
      BY <1>1, <1>6, <1>7, <1>10, <1>11
  <1>13. row(x) = row(y)
    <2>. HIDE DEF table
    <2>. QED
      BY <1>1, <1>6, <1>7, <1>8, <1>9, <1>12, SameRow
  <1>. QED
    BY <1>6, <1>7, <1>13

\* While readings come in order, rerunning a slot changes its row only when a reading
\* that the old or the new row used has left the lookback window, however many runs
\* there are and whatever they read when.
THEOREM RerunsHarmless == Spec => RerunKeeps
  <1>1. IndInv /\ [Next]_vars =>
          [late = 0 =>
             \A a \in DOMAIN feats :
               feats'[a] # feats[a] =>
                 \E u \in Sources(feats[a]) \cup Sources(feats'[a]) : u < now - Lookback]_vars
    BY RerunChanges
  <1>. QED
    BY <1>1, Invariance, PTL DEF Spec, RerunKeeps

--------------------------------------------------------------------------------
(* The grid and the stored rows.                                           *)

\* The scan back from a row finds the last listed reading up to its target.
LEMMA GridValueIs ==
  ASSUME NEW rows, NEW table, NEW k, Listing(rows, table, k),
         NEW i \in 1 .. k, NEW target \in Int, target <= rows[i].time
  PROVE  LET x == GridValue(rows, i, target)
         IN  /\ x # Null =>
                  /\ x[1] \in Times /\ table[x[1]] # Absent /\ table[x[1]] # Null
                  /\ x[1] <= target /\ rows[1].time <= x[1] /\ x = <<x[1], table[x[1]]>>
                  /\ \A u \in Times : table[u] # Absent /\ rows[1].time <= u /\ u <= target =>
                       u <= x[1]
             /\ \A v \in Times :
                  /\ table[v] # Absent /\ table[v] # Null /\ rows[1].time <= v /\ v <= target
                  /\ \A u \in Times : table[u] # Absent /\ rows[1].time <= u /\ u <= target =>
                       u <= v
                  => x = <<v, table[v]>>
  <1> DEFINE t(n) == rows[n].time
             before == {n \in 1 .. i : t(n) <= target}
             x == GridValue(rows, i, target)
             there(u) == u \in Times /\ table[u] # Absent /\ t(1) <= u /\ u <= target
  <1>1. k \in Nat /\ i \in Nat /\ 1 \in 1 .. k /\ 1 .. i \subseteq 1 .. k /\ 1 .. i \subseteq Int
    BY DEF Listing
  <1>2. /\ \A n \in 1 .. k : /\ t(n) \in Times /\ t(n) \in Int /\ table[t(n)] # Absent
                             /\ rows[n].reading = table[t(n)]
        /\ \A m, n \in 1 .. k : m < n => t(m) < t(n)
        /\ \A u \in Times : table[u] # Absent /\ u >= t(1) => \E n \in 1 .. k : t(n) = u
    <2>1. \A u \in Times : u \in Int
      BY TimesFinite
    <2>2. k # 0
      BY <1>1
    <2>3. \A n \in 1 .. k : t(n) \in Times /\ t(n) \in Int /\ table[t(n)] # Absent
      BY <2>1 DEF Listing
    <2>. QED
      BY <2>2, <2>3 DEF Listing
  <1>3. target <= t(i)
    OBVIOUS
  <1>4. x = IF before = {} \/ rows[Max(before)].reading = Null THEN Null
            ELSE <<t(Max(before)), rows[Max(before)].reading>>
    BY DEF GridValue
  <1>. HIDE DEF t, x
  <1>5. \A m, n \in 1 .. k : m <= n => t(m) <= t(n)
    <2>1. ASSUME NEW m \in 1 .. k, NEW n \in 1 .. k, m <= n
          PROVE  t(m) <= t(n)
      <3>1. m = n \/ m < n
        BY <1>1, <2>1
      <3>2. t(m) \in Int /\ t(n) \in Int
        BY <1>2
      <3>. QED
        BY <1>2, <3>1, <3>2
    <2>. QED
      BY <2>1
  <1>6. before \subseteq 1 .. i /\ IsFiniteSet(before) /\ before \subseteq Int
    <2>1. IsFiniteSet(1 .. i) /\ before \subseteq 1 .. i
      BY <1>1, FS_Interval
    <2>. QED
      BY <1>1, <2>1, FS_Subset
  \* A reading up to the target is that of a row in `before`.
  <1>7. ASSUME NEW u, there(u)
        PROVE  \E n \in before : t(n) = u
    <2>1. PICK n \in 1 .. k : t(n) = u
      <3>1. u >= t(1)
        BY <1>1, <1>2, <1>7, TimesFinite
      <3>. QED
        BY <1>2, <1>7, <3>1
    <2>2. ~ (i < n)
      <3>1. t(n) <= t(i) /\ t(n) \in Int /\ t(i) \in Int
        BY <1>2, <1>3, <1>7, <2>1
      <3>. QED
        BY <1>2, <2>1, <3>1
    <2>3. n \in 1 .. i
      BY <1>1, <2>1, <2>2
    <2>. QED
      BY <1>7, <2>1, <2>3
  <1> DEFINE M == Max(before)
  <1>8. ASSUME before # {}
        PROVE  /\ M \in before /\ M \in 1 .. k /\ there(t(M))
               /\ \A u : there(u) => u <= t(M)
    <2>1. M \in before /\ \A n \in before : n <= M
      <3>. HIDE DEF before
      <3>. QED
        BY <1>6, <1>8, MaxIsGreatest
    <2>. HIDE DEF M
    <2>2. M \in 1 .. k /\ t(M) <= target
      BY <1>1, <2>1
    <2>3. t(1) <= t(M)
      BY <1>1, <1>5, <2>2
    <2>4. there(t(M))
      BY <1>2, <2>2, <2>3
    <2>5. ASSUME NEW u, there(u)
          PROVE  u <= t(M)
      <3>1. PICK n \in before : t(n) = u
        BY <1>7, <2>5
      <3>2. n \in 1 .. k /\ n <= M
        BY <1>1, <2>1, <3>1
      <3>. QED
        BY <1>5, <2>2, <3>1, <3>2
    <2>. QED
      BY <2>1, <2>2, <2>4, <2>5
  <1>9. ASSUME x # Null
        PROVE  /\ there(x[1]) /\ table[x[1]] # Null /\ x = <<x[1], table[x[1]]>>
               /\ \A u : there(u) => u <= x[1]
    <2>1. before # {} /\ rows[M].reading # Null /\ x = <<t(M), rows[M].reading>>
      BY <1>4, <1>9
    <2>2. rows[M].reading = table[t(M)]
      BY <1>2, <1>8, <2>1
    <2>3. /\ there(t(M)) /\ \A u : there(u) => u <= t(M)
      BY <1>8, <2>1
    <2>. HIDE DEF M, there
    <2>4. x[1] = t(M)
      BY <2>1
    <2>. QED
      BY <2>1, <2>2, <2>3, <2>4
  <1>10. ASSUME NEW v, there(v), table[v] # Null, \A u \in Times : there(u) => u <= v
         PROVE  x = <<v, table[v]>>
    <2>1. before # {}
      BY <1>7, <1>10
    <2>2. there(t(M)) /\ v <= t(M) /\ M \in 1 .. k
      BY <1>8, <1>10, <2>1
    <2>3. t(M) <= v /\ t(M) \in Int /\ v \in Int
      BY <1>2, <1>10, <2>2, TimesFinite
    <2>4. t(M) = v
      BY <2>2, <2>3
    <2>5. rows[M].reading = table[v]
      BY <1>2, <2>2, <2>4
    <2>. QED
      BY <1>4, <1>10, <2>1, <2>4, <2>5
  <1>. QED
    BY <1>9, <1>10 DEF t, x

\* The last row up to the target is the value, if its reading is not NULL.
LEMMA ValueFound ==
  ASSUME NEW df, DOMAIN df \subseteq Times, NEW target \in Int,
         NEW v \in DOMAIN df, v <= target, df[v] # Null,
         \A u \in DOMAIN df : u <= target => u <= v
  PROVE  ValueAtOrBefore(df, target) = <<v, df[v]>>
  <1> DEFINE S == {u \in DOMAIN df : u <= target}
  <1>1. v \in S /\ S \subseteq Times
    OBVIOUS
  <1>2. Max(S) \in S /\ v <= Max(S)
    BY <1>1, LastTime
  <1>3. Max(S) <= v /\ Max(S) \in Int /\ v \in Int
    BY <1>2, TimesFinite
  <1>4. Max(S) = v
    BY <1>2, <1>3
  <1>. QED
    BY <1>1, <1>4 DEF ValueAtOrBefore

\* Without late readings a stored row is computed from a frame of the table as it is
\* now, which has all readings up to the anchor that the run of this hour would get.
LEMMA StoredIs ==
  ASSUME IndInv, late = 0, NEW a \in DOMAIN feats
  PROVE  \E df : /\ DOMAIN df \subseteq {u \in Times : obs[u] # Absent /\ u <= a}
                 /\ \A u \in Times : obs[u] # Absent /\ u <= a /\ u >= now - Lookback =>
                      u \in DOMAIN df
                 /\ \A u \in DOMAIN df : df[u] = obs[u] /\ df[u] \in Readings
                 /\ \A h \in Lags : feats[a].lag[h] = ValueAtOrBefore(df, a - h)
                 /\ \A w \in Windows : feats[a].rolling[w] = Window(df, a, w)
  <1>1. TypeOK /\ now \in Int /\ Lookback \in Int /\ a \in Times /\ a \in Int
    BY TimesFinite, LookbackInteger DEF IndInv, TypeOK
  <1>2. feats[a] \in Held /\ feats[a].feature_time = a
    BY <1>1 DEF Held, TypeOK
  <1>3. obs[a] # Absent
    BY <1>2 DEF IndInv, Explained
  <1>4. PICK z \in 0 .. now :
          InWindow(a, z) /\ feats[a] = ComputeRow(LoadObservations(UpTo(a), z), z)
    BY <1>2 DEF IndInv, Explained
  <1> DEFINE df == LoadObservations(UpTo(a), z)
  <1>5. z \in Int /\ z <= now /\ a <= z
    BY <1>1, <1>4 DEF InWindow
  <1>6. /\ DOMAIN df = {u \in Times : UpTo(a)[u] # Absent /\ InWindow(u, z)}
        /\ \A u \in DOMAIN df : df[u] = UpTo(a)[u] /\ df[u] \in Readings
    BY <1>1, <1>5, UpToType, LoadIs
  <1>7. /\ \A u \in Times : u <= a => UpTo(a)[u] = obs[u]
        /\ \A u \in Times : UpTo(a)[u] # Absent => u <= a /\ UpTo(a)[u] = obs[u]
    BY DEF UpTo
  <1>. HIDE DEF df
  <1>8. DOMAIN df \subseteq {u \in Times : obs[u] # Absent /\ u <= a}
    BY <1>6, <1>7
  <1>9. ASSUME NEW u \in Times, obs[u] # Absent, u <= a, u >= now - Lookback
        PROVE  u \in DOMAIN df
    <2>1. u \in Int
      BY TimesFinite
    <2>2. InWindow(u, z)
      BY <1>1, <1>5, <1>9, <2>1 DEF InWindow
    <2>. QED
      BY <1>6, <1>7, <1>9, <2>2
  <1>10. Max(DOMAIN df) = a
    <2>1. a \in DOMAIN df
      BY <1>1, <1>3, <1>4, <1>6, <1>7
    <2>2. Max(DOMAIN df) \in DOMAIN df /\ a <= Max(DOMAIN df)
      BY <1>6, <2>1, LastTime
    <2>3. Max(DOMAIN df) <= a /\ Max(DOMAIN df) \in Int
      BY <1>8, <2>2, TimesFinite
    <2>. QED
      BY <1>1, <2>2, <2>3
  <1>11. feats[a] = ComputeRow(df, z)
    BY <1>4 DEF df
  <1>12. /\ \A h \in Lags : feats[a].lag[h] = ValueAtOrBefore(df, a - h)
         /\ \A w \in Windows : feats[a].rolling[w] = Window(df, a, w)
    BY <1>10, <1>11 DEF ComputeRow, LagBase
  <1>13. \A u \in DOMAIN df : df[u] = obs[u] /\ df[u] \in Readings
    BY <1>6, <1>7
  <1>. QED
    BY <1>8, <1>9, <1>12, <1>13

\* A listing of the table and a frame of it, both up to time a: what a lag or a window
\* finds in one, as far back as both go, it finds in the other.
LEMMA SameColumns ==
  ASSUME NEW table, NEW rows, NEW k, Listing(rows, table, k), NEW i \in 1 .. k,
         NEW a, a = rows[i].time, NEW since \in Int,
         NEW df, DOMAIN df \subseteq {u \in Times : table[u] # Absent /\ u <= a},
         \A u \in Times : table[u] # Absent /\ u <= a /\ u >= since => u \in DOMAIN df,
         \A u \in DOMAIN df : df[u] = table[u] /\ df[u] \in Readings
  PROVE  LET Both(S) == {s \in S : s[1] >= since /\ s[1] >= rows[1].time}
         IN  /\ \A h \in Lags : Both(Found(GridValue(rows, i, a - h)))
                                  = Both(Found(ValueAtOrBefore(df, a - h)))
             /\ \A w \in Windows : Both(GridWindow(rows, i, w)) = Both(Window(df, a, w))
  <1> DEFINE Both(S) == {s \in S : s[1] >= since /\ s[1] >= rows[1].time}
             first == rows[1].time
  <1>1. \A u \in Times : u \in Int
    BY TimesFinite
  <1>2. /\ 1 \in 1 .. k /\ 1 .. i \subseteq 1 .. k /\ k \in Nat /\ i \in Nat
        /\ a \in Times /\ first \in Times
        /\ \A n \in 1 .. k : /\ rows[n].time \in Times /\ table[rows[n].time] # Absent
                             /\ rows[n].reading = table[rows[n].time]
        /\ \A m, n \in 1 .. k : m < n => rows[m].time < rows[n].time
        /\ \A u \in Times : table[u] # Absent /\ u >= first => \E n \in 1 .. k : rows[n].time = u
    <2>1. 1 \in 1 .. k /\ 1 .. i \subseteq 1 .. k /\ k \in Nat /\ i \in Nat /\ k # 0
      BY DEF Listing
    <2>. QED
      BY <2>1 DEF Listing
  <1>3. DOMAIN df \subseteq Times
    OBVIOUS
  <1>4. ASSUME NEW h \in Lags
        PROVE  Both(Found(GridValue(rows, i, a - h))) = Both(Found(ValueAtOrBefore(df, a - h)))
    <2> DEFINE target == a - h
               x == GridValue(rows, i, target)
               y == ValueAtOrBefore(df, target)
    <2>1. target \in Int /\ target <= a /\ h \in Nat
      BY <1>1, <1>2, SpansAssumption
    <2>. HIDE DEF target
    <2>2. /\ x # Null =>
               /\ x[1] \in Times /\ table[x[1]] # Absent /\ table[x[1]] # Null
               /\ x[1] <= target /\ first <= x[1] /\ x = <<x[1], table[x[1]]>>
               /\ \A u \in Times : table[u] # Absent /\ first <= u /\ u <= target => u <= x[1]
          /\ \A v \in Times :
               /\ table[v] # Absent /\ table[v] # Null /\ first <= v /\ v <= target
               /\ \A u \in Times : table[u] # Absent /\ first <= u /\ u <= target => u <= v
               => x = <<v, table[v]>>
      BY <2>1, GridValueIs
    <2>3. y # Null =>
               /\ y[1] \in DOMAIN df /\ y[1] <= target
               /\ y = <<y[1], df[y[1]]>> /\ df[y[1]] # Null
               /\ \A u \in DOMAIN df : u <= target => u <= y[1]
      BY <1>3, <2>1, ValueIs
    <2>. HIDE DEF x, y
    <2>4. ASSUME x # Null, x[1] >= since
          PROVE  y = x
      <3> DEFINE v == x[1]
      <3>1. /\ v \in Times /\ v \in Int /\ table[v] # Absent /\ table[v] # Null
            /\ v <= target /\ first <= v /\ x = <<v, table[v]>>
            /\ \A u \in Times : table[u] # Absent /\ first <= u /\ u <= target => u <= v
        BY <1>1, <2>2, <2>4
      <3>2. v <= a
        BY <1>1, <1>2, <2>1, <3>1
      <3>3. v \in DOMAIN df /\ df[v] = table[v]
        BY <2>4, <3>1, <3>2
      <3>. HIDE DEF v
      <3>4. ASSUME NEW u \in DOMAIN df, u <= target
            PROVE  u <= v
        <4>1. u \in Times /\ u \in Int /\ table[u] # Absent /\ first \in Int
          BY <1>1, <1>2
        <4>2. first <= u \/ u <= first
          BY <4>1
        <4>3. u <= first => u <= v
          BY <3>1, <4>1
        <4>. QED
          BY <3>1, <3>4, <4>1, <4>2, <4>3
      <3>5. ValueAtOrBefore(df, target) = <<v, df[v]>>
        BY <1>3, <2>1, <3>1, <3>3, <3>4, ValueFound
      <3>. QED
        BY <3>1, <3>3, <3>5 DEF y
    <2>5. ASSUME y # Null, y[1] >= since, y[1] >= first
          PROVE  x = y
      <3> DEFINE v == y[1]
      <3>1. /\ v \in DOMAIN df /\ v <= target /\ y = <<v, df[v]>> /\ df[v] # Null
            /\ \A u \in DOMAIN df : u <= target => u <= v
            /\ v >= since /\ v >= first
        BY <2>3, <2>5
      <3>. HIDE DEF v
      <3>2. v \in Times /\ v \in Int /\ table[v] # Absent /\ df[v] = table[v] /\ first \in Int
        BY <1>1, <1>2, <3>1
      <3>3. first <= v
        BY <3>1, <3>2
      <3>4. ASSUME NEW u \in Times, table[u] # Absent, first <= u, u <= target
            PROVE  u <= v
        <4>1. u \in Int /\ u <= a
          BY <1>1, <1>2, <2>1, <3>4
        <4>2. CASE u >= since
          BY <3>1, <3>4, <4>1, <4>2
        <4>3. CASE ~ (u >= since)
          BY <3>1, <3>2, <4>1, <4>3
        <4>. QED
          BY <4>2, <4>3
      <3>. QED
        BY <2>2, <3>1, <3>2, <3>3, <3>4
    <2>6. \A s : s \in Both(Found(x)) <=> s \in Both(Found(y))
      <3>1. \A s : s \in Both(Found(x)) <=> s = x /\ x # Null /\ x[1] >= since /\ x[1] >= first
        BY DEF Found
      <3>2. \A s : s \in Both(Found(y)) <=> s = y /\ y # Null /\ y[1] >= since /\ y[1] >= first
        BY DEF Found
      <3>. HIDE DEF Both
      <3>. QED
        BY <2>4, <2>5, <3>1, <3>2
    <2>7. Both(Found(x)) = Both(Found(y))
      <3>1. Both(Found(x)) \subseteq Both(Found(y)) /\ Both(Found(y)) \subseteq Both(Found(x))
        BY <2>6
      <3>. HIDE DEF Both
      <3>. QED
        BY <3>1
    <2>. QED
      BY <2>7 DEF x, y, target
  <1>5. ASSUME NEW w \in Windows
        PROVE  Both(GridWindow(rows, i, w)) = Both(Window(df, a, w))
    <2> DEFINE G == GridWindow(rows, i, w)
               W == Window(df, a, w)
    <2>1. \A s : s \in G <=> \E n \in 1 .. i : /\ a - w <= rows[n].time /\ rows[n].reading # Null
                                               /\ s = <<rows[n].time, rows[n].reading>>
      BY DEF GridWindow
    <2>2. \A s : s \in W <=> \E u \in DOMAIN df : /\ a - w <= u /\ u <= a /\ df[u] # Null
                                                  /\ s = <<u, df[u]>>
      BY DEF Window
    <2>. HIDE DEF G, W
    <2>3. ASSUME NEW s \in G, s[1] >= since
          PROVE  s \in W
      <3>1. PICK n \in 1 .. i : /\ a - w <= rows[n].time /\ rows[n].reading # Null
                                /\ s = <<rows[n].time, rows[n].reading>>
        BY <2>1
      <3>2. n \in 1 .. k /\ (n = i \/ n < i)
        BY <1>2
      <3> DEFINE u == rows[n].time
      <3>3. u \in Times /\ u \in Int /\ table[u] # Absent /\ rows[n].reading = table[u]
        BY <1>1, <1>2, <3>2
      <3>4. u <= a
        BY <1>1, <1>2, <3>2, <3>3
      <3>5. u \in DOMAIN df /\ df[u] = table[u]
        BY <2>3, <3>1, <3>3, <3>4
      <3>. QED
        BY <2>2, <3>1, <3>3, <3>4, <3>5
    <2>4. ASSUME NEW s \in W, s[1] >= first
          PROVE  s \in G
      <3>1. PICK u \in DOMAIN df : a - w <= u /\ u <= a /\ df[u] # Null /\ s = <<u, df[u]>>
        BY <2>2
      <3>2. u \in Times /\ u \in Int /\ table[u] # Absent /\ df[u] = table[u] /\ u >= first
        BY <1>1, <2>4, <3>1
      <3>3. PICK n \in 1 .. k : rows[n].time = u
        BY <1>2, <3>2
      <3>4. ~ (i < n)
        BY <1>1, <1>2, <3>1, <3>2, <3>3
      <3>5. n \in 1 .. i /\ rows[n].reading = table[u]
        BY <1>2, <3>3, <3>4
      <3>. QED
        BY <2>1, <3>1, <3>2, <3>3, <3>5
    <2>5. Both(G) = Both(W)
      BY <2>3, <2>4
    <2>. QED
      BY <2>5 DEF G, W
  <1>. HIDE DEF Both
  <1>6. /\ \A h \in Lags : Both(Found(GridValue(rows, i, a - h)))
                             = Both(Found(ValueAtOrBefore(df, a - h)))
        /\ \A w \in Windows : Both(GridWindow(rows, i, w)) = Both(Window(df, a, w))
    BY <1>4, <1>5
  <1>. QED
    BY <1>6 DEF Both

\* What enrich_observations draws from the history it is given is what the feature
\* pipeline has stored for the same time, as far back as both windows still go, while
\* readings come in order.
THEOREM GridTrue == Spec => []GridAgrees
  <1>1. ASSUME IndInv
        PROVE  GridAgrees
    <2> DEFINE rows == History(obs)
               grid == Enrich(rows)
    <2>1. SUFFICES ASSUME late = 0, NEW i \in DOMAIN grid, grid[i].time \in DOMAIN feats
                   PROVE  LET stored == feats[grid[i].time]
                          IN  /\ \A h \in Lags : SeenByBoth(Found(grid[i].lag[h]), rows)
                                                   = SeenByBoth(Found(stored.lag[h]), rows)
                              /\ \A w \in Windows : SeenByBoth(grid[i].rolling[w], rows)
                                                      = SeenByBoth(stored.rolling[w], rows)
      BY DEF GridAgrees
    <2>2. PICK k \in Nat : Listing(rows, obs, k)
      BY HistoryIs
    <2>. HIDE DEF rows
    <2>3. i \in 1 .. k /\ DOMAIN rows = 1 .. k
      BY <2>2 DEF Enrich, Listing
    <2> DEFINE a == rows[i].time
               since == now - Lookback
    <2>4. /\ grid[i].time = a
          /\ \A h \in Lags : grid[i].lag[h] = GridValue(rows, i, a - h)
          /\ \A w \in Windows : grid[i].rolling[w] = GridWindow(rows, i, w)
      BY <2>3 DEF Enrich
    <2>. HIDE DEF grid
    <2>5. PICK df : /\ DOMAIN df \subseteq {u \in Times : obs[u] # Absent /\ u <= a}
                    /\ \A u \in Times : obs[u] # Absent /\ u <= a /\ u >= now - Lookback =>
                         u \in DOMAIN df
                    /\ \A u \in DOMAIN df : df[u] = obs[u] /\ df[u] \in Readings
                    /\ \A h \in Lags : feats[a].lag[h] = ValueAtOrBefore(df, a - h)
                    /\ \A w \in Windows : feats[a].rolling[w] = Window(df, a, w)
      BY <1>1, <2>1, <2>4, StoredIs
    <2>6. since \in Int
      BY <1>1, TimesFinite, LookbackInteger DEF IndInv, TypeOK
    <2>7. LET Both(S) == {s \in S : s[1] >= since /\ s[1] >= rows[1].time}
          IN  /\ \A h \in Lags : Both(Found(GridValue(rows, i, a - h)))
                                   = Both(Found(ValueAtOrBefore(df, a - h)))
              /\ \A w \in Windows : Both(GridWindow(rows, i, w)) = Both(Window(df, a, w))
      <3>. HIDE DEF since
      <3>1. a = rows[i].time
        OBVIOUS
      <3>2. \A u \in Times : obs[u] # Absent /\ u <= a /\ u >= since => u \in DOMAIN df
        BY <2>5 DEF since
      <3>. HIDE DEF a
      <3>. QED
        BY <2>2, <2>3, <2>5, <2>6, <3>1, <3>2, SameColumns
    <2>8. /\ \A h \in Lags : SeenByBoth(Found(GridValue(rows, i, a - h)), rows)
                               = SeenByBoth(Found(ValueAtOrBefore(df, a - h)), rows)
          /\ \A w \in Windows : SeenByBoth(GridWindow(rows, i, w), rows)
                                  = SeenByBoth(Window(df, a, w), rows)
      BY <2>7 DEF SeenByBoth
    <2>. HIDE DEF a
    <2>. QED
      BY <2>4, <2>5, <2>8
  <1>. QED
    BY <1>1, Invariance, PTL

--------------------------------------------------------------------------------
(* The air-quality score.                                                  *)

\* Rounding keeps the order of fractions.
LEMMA RoundedInOrder ==
  ASSUME NEW a \in Nat, NEW b \in Nat \ {0}, NEW c \in Nat, NEW d \in Nat \ {0},
         a * d <= c * b
  PROVE  Rounded(a, b) \in Nat /\ Rounded(c, d) \in Nat /\ Rounded(a, b) <= Rounded(c, d)
  <1> DEFINE p == Rounded(a, b)
             q == Rounded(c, d)
  <1>1. ASSUME NEW n \in Nat, NEW m \in Nat \ {0}
        PROVE  /\ Rounded(n, m) \in Nat
               /\ Rounded(n, m) * (2 * m) <= 2 * n + m
               /\ 2 * n + m < (Rounded(n, m) + 1) * (2 * m)
    <2>1. 2 * m \in Nat \ {0} /\ 2 * n + m \in Nat
      OBVIOUS
    <2>2. ASSUME NEW x \in Nat, NEW y \in Nat \ {0}
          PROVE  /\ x \div y \in Nat
                 /\ (x \div y) * y <= x /\ x < ((x \div y) + 1) * y
      OBVIOUS
    <2>. QED
      BY <2>1, <2>2 DEF Rounded
  <1>2. /\ p \in Nat /\ p * (2 * b) <= 2 * a + b
        /\ q \in Nat /\ 2 * c + d < (q + 1) * (2 * d)
    BY <1>1
  <1>. HIDE DEF p, q
  <1>3. ASSUME q + 1 <= p
        PROVE  FALSE
    <2>1. (p * (2 * b)) * d <= (2 * a + b) * d
      BY <1>2
    <2>2. (2 * c + d) * b < ((q + 1) * (2 * d)) * b
      BY <1>2
    <2>3. (2 * a + b) * d <= (2 * c + d) * b
      <3>1. (2 * a + b) * d = 2 * (a * d) + b * d /\ (2 * c + d) * b = 2 * (c * b) + b * d
        OBVIOUS
      <3>. QED
        BY <3>1
    <2>4. ((q + 1) * (2 * d)) * b = (q + 1) * (2 * b * d) /\ (p * (2 * b)) * d = p * (2 * b * d)
      BY <1>2
    <2>5. (q + 1) * (2 * b * d) <= p * (2 * b * d)
      BY <1>2, <1>3
    <2>6. (2 * a + b) * d \in Int /\ (2 * c + d) * b \in Int /\ (p * (2 * b)) * d \in Int
      BY <1>2
    <2>. QED
      BY <1>2, <2>1, <2>2, <2>3, <2>4, <2>5, <2>6
  <1>4. p <= q
    BY <1>2, <1>3
  <1>. QED
    BY <1>2, <1>4 DEF p, q

LEMMA TimesInOrder ==
  ASSUME NEW c \in Nat, NEW y \in Int, NEW z \in Int, y <= z
  PROVE  c * y <= c * z
  OBVIOUS

\* Each pollutant on the scale that they share.
Scaled(present, k) == OrZero(present, k) * (2100 \div Reference[k])

LEMMA PollutantIs ==
  ASSUME NEW k \in Pollutants
  PROVE  /\ Weight[k] \in 1 .. 35 /\ Reference[k] \in 35 .. 150
         /\ 2100 \div Reference[k] \in Nat /\ (2100 \div Reference[k]) * Reference[k] = 2100
  <1>1. CASE k = "pm2_5"
    BY <1>1 DEF Weight, Reference
  <1>2. CASE k = "pm10"
    BY <1>2 DEF Weight, Reference
  <1>3. CASE k = "o3"
    BY <1>3 DEF Weight, Reference
  <1>4. CASE k = "no2"
    BY <1>4 DEF Weight, Reference
  <1>5. CASE k = "so2"
    BY <1>5 DEF Weight, Reference
  <1>. QED
    BY <1>1, <1>2, <1>3, <1>4, <1>5 DEF Pollutants

\* The weighted sum is to the total weight as an average is to 1: bounds of what was
\* measured bound it.
LEMMA ExposureIs ==
  ASSUME NEW P \in SUBSET Pollutants, P # {}, NEW present \in [P -> Nat]
  PROVE  /\ WeightOf(present) \in Nat \ {0} /\ Exposure(present) \in Nat
         /\ \A x \in Nat : (\A k \in P : x <= Scaled(present, k)) =>
                              x * WeightOf(present) <= Exposure(present)
         /\ \A x \in Nat : (\A k \in P : Scaled(present, k) <= x) =>
                              Exposure(present) <= x * WeightOf(present)
         /\ \A k \in Pollutants : Scaled(present, k) \in Nat
  <1> DEFINE w(k) == IF k \in DOMAIN present THEN Weight[k] ELSE 0
             t(k) == Weight[k] * OrZero(present, k) * (2100 \div Reference[k])
             q(k) == Scaled(present, k)
             W    == WeightOf(present)
             sum  == Exposure(present)
  <1>1. Pollutants = {"pm2_5", "pm10", "o3", "no2", "so2"} /\ DOMAIN present = P
    BY DEF Pollutants
  <1>2. ASSUME NEW k \in Pollutants
        PROVE  w(k) \in Nat /\ q(k) \in Nat /\ t(k) = w(k) * q(k) /\ (k \in P => w(k) >= 1)
    <2>1. CASE k \in P
      <3>1. OrZero(present, k) \in Nat
        BY <1>1, <2>1 DEF OrZero
      <3> DEFINE o == OrZero(present, k)
                 c == 2100 \div Reference[k]
      <3>2. c \in Nat /\ Weight[k] \in Nat /\ Weight[k] >= 1 /\ w(k) = Weight[k]
        BY <1>1, <2>1, PollutantIs
      <3>. HIDE DEF o, c
      <3>3. o * c \in Nat /\ (Weight[k] * o) * c = Weight[k] * (o * c)
        BY <3>1, <3>2 DEF o
      <3>4. q(k) = o * c /\ t(k) = (Weight[k] * o) * c
        BY DEF Scaled, o, c
      <3>. HIDE DEF q, t, w
      <3>. QED
        BY <3>2, <3>3, <3>4
    <2>2. CASE k \notin P
      <3>1. OrZero(present, k) = 0 /\ w(k) = 0
        BY <1>1, <2>2 DEF OrZero
      <3>2. 2100 \div Reference[k] \in Nat /\ Weight[k] \in Nat
        BY PollutantIs
      <3>3. q(k) = 0 /\ t(k) = 0
        BY <3>1, <3>2 DEF Scaled
      <3>. HIDE DEF q, t, w
      <3>. QED
        BY <2>2, <3>1, <3>3
    <2>. QED
      BY <2>1, <2>2
  <1>3. /\ W = w("pm2_5") + w("pm10") + w("o3") + w("no2") + w("so2")
        /\ sum = t("pm2_5") + t("pm10") + t("o3") + t("no2") + t("so2")
    BY <1>1 DEF WeightOf, Exposure, OverAll
  <1>. HIDE DEF w, t, q, W, sum
  <1>4. W \in Nat \ {0} /\ sum \in Nat
    <2>1. \A k \in Pollutants : t(k) \in Nat
      BY <1>2
    <2>2. W \in Nat /\ sum \in Nat /\ \A k \in Pollutants : w(k) <= W
      BY <1>1, <1>2, <1>3, <2>1
    <2>3. PICK k \in P : TRUE
      OBVIOUS
    <2>4. w(k) >= 1 /\ w(k) <= W /\ w(k) \in Nat
      BY <1>2, <2>2, <2>3
    <2>. QED
      BY <2>2, <2>4
  <1>5. ASSUME NEW x \in Nat
        PROVE  x * W = x * w("pm2_5") + x * w("pm10") + x * w("o3") + x * w("no2") + x * w("so2")
    BY <1>1, <1>2, <1>3
  <1>6. ASSUME NEW k \in Pollutants, k \notin P
        PROVE  w(k) = 0
    BY <1>1, <1>6 DEF w
  <1>7. ASSUME NEW x \in Nat, \A k \in P : x <= q(k)
        PROVE  x * W <= sum
    <2>1. ASSUME NEW k \in Pollutants
          PROVE  x * w(k) <= t(k) /\ x * w(k) \in Nat /\ t(k) \in Nat
      BY <1>2, <1>6, <1>7
    <2>. QED
      BY <1>1, <1>3, <1>5, <2>1
  <1>8. ASSUME NEW x \in Nat, \A k \in P : q(k) <= x
        PROVE  sum <= x * W
    <2>1. ASSUME NEW k \in Pollutants
          PROVE  t(k) <= x * w(k) /\ x * w(k) \in Nat /\ t(k) \in Nat
      BY <1>2, <1>6, <1>8
    <2>. QED
      BY <1>1, <1>3, <1>5, <2>1
  <1>. QED
    BY <1>2, <1>4, <1>7, <1>8 DEF W, q, sum, t

\* The score lies between two of the scores that the pollutants have alone.
LEMMA ScoreBetween ==
  ASSUME NEW P \in SUBSET Pollutants, P # {}, NEW present \in [P -> Nat]
  PROVE  LET alone(k) == Rounded(10000 * present[k], Reference[k])
         IN  /\ Score(present) \in Nat /\ \A k \in P : alone(k) \in Nat
             /\ \E k \in P : alone(k) <= Score(present)
             /\ \E k \in P : Score(present) <= alone(k)
  <1> DEFINE alone(k) == Rounded(10000 * present[k], Reference[k])
             q(k) == Scaled(present, k)
             W    == WeightOf(present)
             sum  == Exposure(present)
  <1>1. /\ W \in Nat \ {0} /\ sum \in Nat /\ \A k \in P : q(k) \in Nat
        /\ \A x \in Nat : (\A k \in P : x <= q(k)) => x * W <= sum
        /\ \A x \in Nat : (\A k \in P : q(k) <= x) => sum <= x * W
    BY ExposureIs
  <1>2. Score(present) = Rounded(100 * sum, 21 * W)
    BY DEF Score
  <1>3. ASSUME NEW k \in P
        PROVE  present[k] \in Nat /\ Reference[k] \in Nat \ {0} /\ q(k) * Reference[k] = 2100 * present[k]
    <2>1. /\ Reference[k] \in Nat \ {0} /\ 2100 \div Reference[k] \in Nat
          /\ (2100 \div Reference[k]) * Reference[k] = 2100
      BY PollutantIs
    <2>2. q(k) = present[k] * (2100 \div Reference[k]) /\ present[k] \in Nat
      BY DEF Scaled, OrZero
    <2> DEFINE c == 2100 \div Reference[k]
    <2>. HIDE DEF c, q
    <2>3. (present[k] * c) * Reference[k] = present[k] * (c * Reference[k])
      BY <2>1, <2>2 DEF c
    <2>. QED
      BY <2>1, <2>2, <2>3 DEF c
  <1>. HIDE DEF q, W, sum
  \* Both fractions over 21 times the product of the denominators.
  <1>4. ASSUME NEW k \in P
        PROVE  /\ (10000 * present[k]) * (21 * W) = 100 * Reference[k] * (q(k) * W)
               /\ (100 * sum) * Reference[k] = 100 * Reference[k] * sum
    <2>1. (10000 * present[k]) * (21 * W) = 100 * (2100 * present[k]) * W
      BY <1>1, <1>3
    <2>2. 100 * (q(k) * Reference[k]) * W = 100 * Reference[k] * (q(k) * W)
      BY <1>1, <1>3
    <2>. QED
      BY <1>1, <1>3, <2>1, <2>2
  <1>5. ASSUME NEW k \in P
        PROVE  /\ 10000 * present[k] \in Nat /\ Reference[k] \in Nat \ {0}
               /\ 100 * sum \in Nat /\ 21 * W \in Nat \ {0}
               /\ q(k) * W \in Nat /\ 100 * Reference[k] \in Nat
    BY <1>1, <1>3
  <1>6. ASSUME NEW k \in P, q(k) * W <= sum
        PROVE  alone(k) \in Nat /\ Score(present) \in Nat /\ alone(k) <= Score(present)
    <2>1. 100 * Reference[k] * (q(k) * W) <= 100 * Reference[k] * sum
      <3>1. q(k) * W \in Int /\ sum \in Int /\ 100 * Reference[k] \in Nat
        BY <1>1, <1>5
      <3>. QED
        BY <1>6, <3>1, TimesInOrder
    <2> DEFINE a == 10000 * present[k]
               b == Reference[k]
               c == 100 * sum
               d == 21 * W
    <2>2. a \in Nat /\ b \in Nat \ {0} /\ c \in Nat /\ d \in Nat \ {0}
      BY <1>5
    <2>3. a * d <= c * b
      BY <1>4, <2>1
    <2>. HIDE DEF a, b, c, d
    <2>4. /\ Rounded(a, b) \in Nat /\ Rounded(c, d) \in Nat
          /\ Rounded(a, b) <= Rounded(c, d)
      BY <2>2, <2>3, RoundedInOrder
    <2>. QED
      BY <1>2, <2>4 DEF a, b, c, d
  <1>7. ASSUME NEW k \in P, sum <= q(k) * W
        PROVE  alone(k) \in Nat /\ Score(present) \in Nat /\ Score(present) <= alone(k)
    <2>1. 100 * Reference[k] * sum <= 100 * Reference[k] * (q(k) * W)
      BY <1>1, <1>5, <1>7, TimesInOrder
    <2> DEFINE a == 10000 * present[k]
               b == Reference[k]
               c == 100 * sum
               d == 21 * W
    <2>2. a \in Nat /\ b \in Nat \ {0} /\ c \in Nat /\ d \in Nat \ {0}
      BY <1>5
    <2>3. c * b <= a * d
      BY <1>4, <2>1
    <2>. HIDE DEF a, b, c, d
    <2>4. /\ Rounded(a, b) \in Nat /\ Rounded(c, d) \in Nat
          /\ Rounded(c, d) <= Rounded(a, b)
      BY <2>2, <2>3, RoundedInOrder
    <2>. QED
      BY <1>2, <2>4 DEF a, b, c, d
  <1>8. \E k \in P : alone(k) \in Nat /\ Score(present) \in Nat /\ alone(k) <= Score(present)
    <2> DEFINE Q == {q(k) : k \in P}
    <2>1. PICK x \in Q : \A y \in Q : x <= y
      <3>1. Q \subseteq Nat /\ Q # {}
        BY <1>1
      <3>. HIDE DEF Q
      <3>. QED
        BY <3>1, LeastNatural
    <2>2. PICK k \in P : q(k) = x
      OBVIOUS
    <2>3. q(k) * W <= sum
      BY <1>1, <2>1, <2>2
    <2>. QED
      BY <1>6, <2>3
  <1>9. \E k \in P : Score(present) <= alone(k)
    <2> DEFINE Q == {q(k) : k \in P}
    <2>1. Q \subseteq Nat /\ Q # {}
      BY <1>1
    <2>2. IsFiniteSet(Q)
      <3>1. Pollutants = {"pm2_5", "pm10", "o3", "no2", "so2"}
        BY DEF Pollutants
      <3> DEFINE R == {q("pm2_5"), q("pm10"), q("o3"), q("no2"), q("so2")}
      <3>2. Q \subseteq R
        BY <3>1
      <3>3. IsFiniteSet(R)
        <4>1. \A x : IsFiniteSet({x})
          BY FS_Singleton
        <4>2. \A S, T : IsFiniteSet(S) /\ IsFiniteSet(T) => IsFiniteSet(S \cup T)
          BY FS_Union
        <4>3. R = {q("pm2_5")} \cup ({q("pm10")} \cup ({q("o3")} \cup ({q("no2")} \cup {q("so2")})))
          OBVIOUS
        <4>. HIDE DEF R
        <4>. QED
          BY <4>1, <4>2, <4>3
      <3>. HIDE DEF Q, R
      <3>. QED
        BY <3>2, <3>3, FS_Subset
    <2>3. PICK x \in Q : \A y \in Q : x >= y
      <3>. HIDE DEF Q
      <3>1. Q \subseteq Int
        BY <2>1
      <3>. QED
        BY <2>1, <2>2, <3>1, GreatestExists
    <2>4. PICK k \in P : q(k) = x
      OBVIOUS
    <2>5. \A j \in P : q(j) <= q(k)
      BY <1>1, <2>3, <2>4
    <2>6. sum <= q(k) * W
      BY <1>1, <2>5
    <2>. QED
      BY <1>7, <2>6
  <1>10. \A k \in P : alone(k) \in Nat
    <2>1. ASSUME NEW k \in P
          PROVE  alone(k) \in Nat
      <3>1. 10000 * present[k] \in Nat /\ Reference[k] \in Nat \ {0}
        BY <1>5
      <3>2. (10000 * present[k]) * Reference[k] <= (10000 * present[k]) * Reference[k]
        BY <3>1
      <3>. QED
        BY <3>1, <3>2, RoundedInOrder
    <2>. QED
      BY <2>1
  <1>. QED
    BY <1>8, <1>9, <1>10

\* Where a pollutant stands alone: below its reference, at it, below ten times of it.
LEMMA AloneIs ==
  ASSUME NEW k \in Pollutants, NEW p \in Nat
  PROVE  LET alone == Rounded(10000 * p, Reference[k])
         IN  /\ p < Reference[k] => alone < 10000
             /\ p >= Reference[k] => alone >= 10000
             /\ p < 10 * Reference[k] => alone < 100000
  <1>1. CASE k = "pm2_5"
    BY <1>1 DEF Rounded, Reference
  <1>2. CASE k = "pm10"
    BY <1>2 DEF Rounded, Reference
  <1>3. CASE k = "o3"
    BY <1>3 DEF Rounded, Reference
  <1>4. CASE k = "no2"
    BY <1>4 DEF Rounded, Reference
  <1>5. CASE k = "so2"
    BY <1>5 DEF Rounded, Reference
  <1>. QED
    BY <1>1, <1>2, <1>3, <1>4, <1>5 DEF Pollutants

LEMMA LevelIs ==
  ASSUME NEW score \in Nat
  PROVE  /\ score < 10000 => Level(score) \in {"good", "moderate", "unhealthy_sensitive"}
         /\ score >= 10000 => Level(score) \in {"unhealthy", "hazardous"}
  BY DEF Level

\* Whatever is measured, aqi_composite_risk returns an average of what the pollutants
\* score alone, a level that fits it, and a score that fits its column unless a
\* pollutant is at ten times its reference: for all concentrations, not only those
\* of the run.
THEOREM ScoreFair == Calls => []ScoreIsAverage
  <1>1. call = NoCall => ScoreIsAverage
    BY DEF NoCall, ScoreIsAverage
  <1>2. ASSUME NEW P \in (SUBSET Pollutants) \ {{}}, NEW present \in [P -> Concentrations],
               CallRisk(present)
        PROVE  ScoreIsAverage'
    <2> DEFINE alone(k) == Rounded(10000 * present[k], Reference[k])
               score == Score(present)
    <2>1. P \in SUBSET Pollutants /\ P # {} /\ present \in [P -> Nat] /\ DOMAIN present = P
      <3>1. \A k \in P : present[k] \in Nat
        BY SignalsAssumption
      <3>2. present = [k \in P |-> present[k]]
        OBVIOUS
      <3>3. present \in [P -> Nat]
        BY <3>1, <3>2
      <3>4. P # {}
        OBVIOUS
      <3>5. P \subseteq Pollutants
        OBVIOUS
      <3>. QED
        BY <3>3, <3>4, <3>5
    <2>2. /\ score \in Nat /\ \A k \in P : alone(k) \in Nat
          /\ \E k \in P : alone(k) <= score
          /\ \E k \in P : score <= alone(k)
      BY <2>1, ScoreBetween
    <2>3. \A k \in P : /\ present[k] < Reference[k] => alone(k) < 10000
                       /\ present[k] >= Reference[k] => alone(k) >= 10000
                       /\ present[k] < 10 * Reference[k] => alone(k) < 100000
      BY <2>1, AloneIs
    <2>4. /\ call'.function = "aqi_composite_risk" /\ call'.present = present
          /\ call'.score = score /\ call'.level = Level(score)
      BY <1>2 DEF CallRisk
    <2>. HIDE DEF score
    <2>5. /\ score < 10000 => Level(score) \in {"good", "moderate", "unhealthy_sensitive"}
          /\ score >= 10000 => Level(score) \in {"unhealthy", "hazardous"}
      BY <2>2, LevelIs
    <2>6. /\ (\A k \in P : present[k] < Reference[k]) => score < 10000
          /\ (\A k \in P : present[k] >= Reference[k]) => score >= 10000
          /\ (\A k \in P : present[k] < 10 * Reference[k]) => score < 100000
      <3>. HIDE DEF alone
      <3>1. PICK k \in P : score <= alone(k)
        BY <2>2
      <3>2. PICK j \in P : alone(j) <= score
        BY <2>2
      <3>. QED
        BY <2>2, <2>3, <3>1, <3>2
    <2>7. /\ \E k \in P : Rounded(10000 * present[k], Reference[k]) <= score
          /\ \E k \in P : Rounded(10000 * present[k], Reference[k]) >= score
      BY <2>2
    <2>. QED
      BY <2>1, <2>4, <2>5, <2>6, <2>7 DEF ScoreIsAverage, FitsColumn
  <1>3. ScoreIsAverage /\ [Call]_call => ScoreIsAverage'
    <2>1. ASSUME NEW points, NEW weather, CallStorm(points, weather)
          PROVE  ScoreIsAverage'
      BY <2>1 DEF CallStorm, ScoreIsAverage
    <2>2. ASSUME Return
          PROVE  ScoreIsAverage'
      BY <2>2 DEF Return, NoCall, ScoreIsAverage
    <2>3. ASSUME ScoreIsAverage, UNCHANGED call
          PROVE  ScoreIsAverage'
      BY <2>3 DEF ScoreIsAverage
    <2>. QED
      BY <1>2, <2>1, <2>2, <2>3 DEF Call
  <1>. QED
    BY <1>1, <1>3, PTL DEF Calls

--------------------------------------------------------------------------------
(* Sums.                                                                   *)

\* The element that a fold takes from s.
First(s) == CHOOSE x \in s : TRUE

\* What Total adds up, one element after the other.
Sums(f) ==
  CHOOSE sum : sum = [s \in SUBSET DOMAIN f |->
                        IF s = {} THEN 0 ELSE f[First(s)] + sum[s \ {First(s)}]]

LEMMA TotalIs ==
  ASSUME NEW f
  PROVE  Total(f) = Sums(f)[DOMAIN f]
  BY DEF Total, FoldFunction, FoldFunctionOnSet, MapThenFoldSet, Sums, First

LEMMA SumsExists ==
  ASSUME NEW f, IsFiniteSet(DOMAIN f)
  PROVE  Sums(f) = [s \in SUBSET DOMAIN f |->
                      IF s = {} THEN 0 ELSE f[First(s)] + Sums(f)[s \ {First(s)}]]
  <1> DEFINE D == DOMAIN f
             Up(n) == {s \in SUBSET D : Cardinality(s) <= n}
             Value(g, s) == IF s = {} THEN 0 ELSE f[First(s)] + g[s \ {First(s)}]
             Fits(g, n) == g = [s \in Up(n) |-> Value(g, s)]
             Bad == {n \in Nat : ~ \E g : Fits(g, n)}
  <1>1. \A s \in SUBSET D : IsFiniteSet(s) /\ Cardinality(s) \in Nat /\ (Cardinality(s) = 0 <=> s = {})
    BY FS_Subset, FS_CardinalityType, FS_EmptySet
  <1>2. \A s : s # {} => First(s) \in s
    BY DEF First
  <1>3. \E g : Fits(g, 0)
    <2> DEFINE g == [s \in Up(0) |-> 0]
    <2>1. \A s \in Up(0) : s = {}
      BY <1>1
    <2>2. Fits(g, 0)
      BY <2>1
    <2>. HIDE DEF g
    <2>. QED
      BY <2>2
  <1>4. ASSUME NEW n \in Nat, NEW g, Fits(g, n)
        PROVE  \E h : Fits(h, n + 1)
    <2> DEFINE h == [s \in Up(n + 1) |-> Value(g, s)]
    <2>1. Up(n) \subseteq Up(n + 1)
      BY <1>1
    <2>2. \A s \in Up(n) : g[s] = Value(g, s)
      <3>. HIDE DEF Up, Value
      <3>. QED
        BY <1>4
    <2>3. \A s \in Up(n) : h[s] = g[s]
      <3>. HIDE DEF Up, Value
      <3>. QED
        BY <2>1, <2>2
    <2>4. ASSUME NEW s \in Up(n + 1), s # {}
          PROVE  s \ {First(s)} \in Up(n)
      <3>1. First(s) \in s /\ s \in SUBSET D
        BY <1>2, <2>4
      <3>2. Cardinality(s \ {First(s)}) = Cardinality(s) - 1
        BY <1>1, <3>1, FS_RemoveElement
      <3>3. s \ {First(s)} \in SUBSET D
        BY <3>1
      <3>. QED
        BY <1>1, <3>1, <3>2, <3>3
    <2>5. \A s \in Up(n + 1) : Value(g, s) = Value(h, s)
      <3>. HIDE DEF Up, h
      <3>. QED
        BY <2>3, <2>4
    <2>6. Fits(h, n + 1)
      <3>. HIDE DEF Up, Value
      <3>. QED
        BY <2>5
    <2>. HIDE DEF h
    <2>. QED
      BY <2>6
  <1>5. Bad = {}
    <2>. SUFFICES ASSUME Bad # {}
                  PROVE  FALSE
      OBVIOUS
    <2>1. PICK n \in Bad : \A k \in Bad : n <= k
      <3>1. Bad \subseteq Nat
        OBVIOUS
      <3>. HIDE DEF Bad
      <3>. QED
        BY <3>1, LeastNatural
    <2>. HIDE DEF Fits
    <2>2. n \in Nat /\ n # 0
      BY <1>3
    <2>3. n - 1 \in Nat /\ n - 1 \notin Bad
      <3>1. n - 1 \in Nat
        BY <2>2
      <3>. HIDE DEF Bad
      <3>. QED
        BY <2>1, <2>2, <3>1
    <2>4. PICK g : Fits(g, n - 1)
      BY <2>3
    <2>5. (n - 1) + 1 = n
      BY <2>2
    <2>6. \E h : Fits(h, (n - 1) + 1)
      BY <1>4, <2>3, <2>4
    <2>7. \E h : Fits(h, n)
      BY <2>5, <2>6
    <2>. QED
      BY <2>7
  <1>6. Up(Cardinality(D)) = SUBSET D
    <2>1. \A s \in SUBSET D : Cardinality(s) <= Cardinality(D)
      BY FS_Subset
    <2>. QED
      BY <2>1
  <1>7. \E g : Fits(g, Cardinality(D))
    <2>1. Cardinality(D) \in Nat
      BY FS_CardinalityType
    <2>. HIDE DEF Fits
    <2>. QED
      BY <1>5, <2>1
  <1>8. \E g : g = [s \in SUBSET D |-> Value(g, s)]
    <2>. HIDE DEF Up, Value
    <2>. QED
      BY <1>6, <1>7
  <1>. QED
    BY <1>8 DEF Sums

\* The sum of nothing, and of something.
LEMMA SumsIs ==
  ASSUME NEW f, IsFiniteSet(DOMAIN f)
  PROVE  /\ Sums(f)[{}] = 0
         /\ \A s \in SUBSET DOMAIN f :
              s # {} => First(s) \in s /\ Sums(f)[s] = f[First(s)] + Sums(f)[s \ {First(s)}]
  <1> DEFINE sums == Sums(f)
             D == DOMAIN f
  <1>1. sums = [s \in SUBSET D |-> IF s = {} THEN 0 ELSE f[First(s)] + sums[s \ {First(s)}]]
    BY SumsExists
  <1>2. {} \in SUBSET D
    OBVIOUS
  <1>. HIDE DEF sums
  <1>3. sums[{}] = 0
    BY <1>1, <1>2
  <1>4. \A s \in SUBSET D : s # {} => sums[s] = f[First(s)] + sums[s \ {First(s)}]
    BY <1>1
  <1>5. \A s : s # {} => First(s) \in s
    BY DEF First
  <1>. QED
    BY <1>3, <1>4, <1>5 DEF sums

\* A sum of integers is one.
LEMMA SumType ==
  ASSUME NEW f, IsFiniteSet(DOMAIN f), \A x \in DOMAIN f : f[x] \in Int
  PROVE  Total(f) \in Int /\ \A s \in SUBSET DOMAIN f : Sums(f)[s] \in Int
  <1> DEFINE D == DOMAIN f
             Bad == {s \in SUBSET D : Sums(f)[s] \notin Int}
  <1>1. SUFFICES ASSUME Bad # {}
                 PROVE  FALSE
    BY TotalIs
  <1>2. PICK s \in Bad : \A x \in s : s \ {x} \notin Bad
    <2>1. Bad \subseteq SUBSET D
      OBVIOUS
    <2>. HIDE DEF Bad, D
    <2>. QED
      BY <1>1, <2>1, SmallestSubset DEF D
  <1>3. /\ s \in SUBSET D /\ Sums(f)[{}] = 0
        /\ s # {} => First(s) \in s /\ Sums(f)[s] = f[First(s)] + Sums(f)[s \ {First(s)}]
    BY SumsIs
  <1>4. s # {} /\ First(s) \in s
    <2>1. Sums(f)[s] \notin Int
      OBVIOUS
    <2>. HIDE DEF Bad
    <2>2. ASSUME s = {}
          PROVE  FALSE
      <3>1. Sums(f)[s] = 0
        BY <1>3, <2>2
      <3>. QED
        BY <2>1, <3>1
    <2>. QED
      BY <1>3, <2>2
  <1>5. s \ {First(s)} \in SUBSET D /\ f[First(s)] \in Int
    BY <1>3, <1>4
  <1>6. Sums(f)[s \ {First(s)}] \in Int
    BY <1>2, <1>4, <1>5
  <1>. QED
    BY <1>3, <1>4, <1>5, <1>6

\* h is a times f plus b times g.
Combines(h, a, f, b, g) ==
  /\ DOMAIN g = DOMAIN f /\ DOMAIN h = DOMAIN f
  /\ \A x \in DOMAIN f : f[x] \in Int /\ g[x] \in Int /\ h[x] = a * f[x] + b * g[x]

\* The order of a sum is that of its domain: sums over the same domain add up.
LEMMA SumLinear ==
  ASSUME NEW f, NEW g, NEW h, NEW a \in Int, NEW b \in Int,
         IsFiniteSet(DOMAIN f), Combines(h, a, f, b, g)
  PROVE  Total(h) = a * Total(f) + b * Total(g)
  <1>. USE DEF Combines
  <1> DEFINE D == DOMAIN f
             Adds(s) == Sums(h)[s] = a * Sums(f)[s] + b * Sums(g)[s]
             Bad == {s \in SUBSET D : ~ Adds(s)}
  <1>1. SUFFICES ASSUME Bad # {}
                 PROVE  FALSE
    BY TotalIs
  <1>2. PICK s \in Bad : \A x \in s : s \ {x} \notin Bad
    <2>1. Bad \subseteq SUBSET D
      OBVIOUS
    <2>. HIDE DEF Bad, D
    <2>. QED
      BY <1>1, <2>1, SmallestSubset DEF D
  <1>3. s \in SUBSET D /\ ~ Adds(s)
    OBVIOUS
  <1>4. /\ Sums(f)[{}] = 0 /\ Sums(g)[{}] = 0 /\ Sums(h)[{}] = 0
        /\ s # {} => /\ First(s) \in s
                     /\ Sums(f)[s] = f[First(s)] + Sums(f)[s \ {First(s)}]
                     /\ Sums(g)[s] = g[First(s)] + Sums(g)[s \ {First(s)}]
                     /\ Sums(h)[s] = h[First(s)] + Sums(h)[s \ {First(s)}]
    BY <1>3, SumsIs
  <1>5. s # {} /\ First(s) \in s
    <2>1. a * 0 + b * 0 = 0
      OBVIOUS
    <2>. QED
      BY <1>3, <1>4, <2>1
  <1> DEFINE t == s \ {First(s)}
             p == First(s)
  <1>6. t \in SUBSET D /\ p \in D
    BY <1>3, <1>5
  <1>7. Adds(t)
    BY <1>2, <1>5, <1>6
  <1>8. Sums(f)[t] \in Int /\ Sums(g)[t] \in Int
    BY <1>6, SumType
  <1>9. f[p] \in Int /\ g[p] \in Int /\ h[p] = a * f[p] + b * g[p]
    BY <1>6
  <1>10. /\ Sums(f)[s] = f[p] + Sums(f)[t] /\ Sums(g)[s] = g[p] + Sums(g)[t]
         /\ Sums(h)[s] = h[p] + Sums(h)[t]
    BY <1>4, <1>5
  <1>11. ASSUME NEW u \in Int, NEW v \in Int, NEW x \in Int, NEW y \in Int
         PROVE  (a * u + b * v) + (a * x + b * y) = a * (u + x) + b * (v + y)
    OBVIOUS
  <1>12. Sums(h)[s] = (a * f[p] + b * g[p]) + (a * Sums(f)[t] + b * Sums(g)[t])
    BY <1>7, <1>9, <1>10
  <1>13. Sums(h)[s] = a * (f[p] + Sums(f)[t]) + b * (g[p] + Sums(g)[t])
    <2>. HIDE DEF p, t
    <2>. QED
      BY <1>8, <1>9, <1>11, <1>12
  <1>14. Adds(s)
    BY <1>10, <1>13
  <1>. QED
    BY <1>3, <1>14

\* A sum of ones counts them.
LEMMA SumOfOnes ==
  ASSUME NEW f, IsFiniteSet(DOMAIN f), \A x \in DOMAIN f : f[x] = 1
  PROVE  Total(f) = Cardinality(DOMAIN f)
  <1> DEFINE D == DOMAIN f
             Bad == {s \in SUBSET D : Sums(f)[s] # Cardinality(s)}
  <1>1. SUFFICES ASSUME Bad # {}
                 PROVE  FALSE
    BY TotalIs
  <1>2. PICK s \in Bad : \A x \in s : s \ {x} \notin Bad
    <2>1. Bad \subseteq SUBSET D
      OBVIOUS
    <2>. HIDE DEF Bad, D
    <2>. QED
      BY <1>1, <2>1, SmallestSubset DEF D
  <1>3. /\ s \in SUBSET D /\ Sums(f)[{}] = 0
        /\ s # {} => First(s) \in s /\ Sums(f)[s] = f[First(s)] + Sums(f)[s \ {First(s)}]
    BY SumsIs
  <1>4. s # {} /\ First(s) \in s
    BY <1>3, FS_EmptySet
  <1>5. s \ {First(s)} \in SUBSET D /\ f[First(s)] = 1
    BY <1>3, <1>4
  <1>6. Sums(f)[s \ {First(s)}] = Cardinality(s \ {First(s)})
    BY <1>2, <1>4, <1>5
  <1>7. IsFiniteSet(s)
    BY <1>3, FS_Subset
  <1>8. Cardinality(s) \in Nat /\ Cardinality(s \ {First(s)}) = Cardinality(s) - 1
    BY <1>4, <1>7, FS_CardinalityType, FS_RemoveElement
  <1>. QED
    BY <1>3, <1>4, <1>5, <1>6, <1>8

\* A sum without a negative term is at least each of its terms.
LEMMA SumAtLeast ==
  ASSUME NEW f, IsFiniteSet(DOMAIN f), \A x \in DOMAIN f : f[x] \in Nat
  PROVE  Total(f) \in Nat /\ \A x \in DOMAIN f : f[x] <= Total(f)
  <1> DEFINE D == DOMAIN f
             Above(s) == Sums(f)[s] \in Nat /\ \A x \in s : f[x] <= Sums(f)[s]
             Bad == {s \in SUBSET D : ~ Above(s)}
  <1>1. SUFFICES ASSUME Bad # {}
                 PROVE  FALSE
    BY TotalIs
  <1>2. PICK s \in Bad : \A x \in s : s \ {x} \notin Bad
    <2>1. Bad \subseteq SUBSET D
      OBVIOUS
    <2>. HIDE DEF Bad, D
    <2>. QED
      BY <1>1, <2>1, SmallestSubset DEF D
  <1>3. /\ s \in SUBSET D /\ Sums(f)[{}] = 0
        /\ s # {} => First(s) \in s /\ Sums(f)[s] = f[First(s)] + Sums(f)[s \ {First(s)}]
    BY SumsIs
  <1>4. s # {} /\ First(s) \in s
    BY <1>3
  <1> DEFINE p == First(s)
             t == s \ {p}
  <1>5. t \in SUBSET D /\ p \in D
    BY <1>3, <1>4
  <1>6. Above(t)
    BY <1>2, <1>4, <1>5
  <1>7. f[p] \in Nat /\ \A x \in s : f[x] \in Nat /\ (x = p \/ x \in t)
    BY <1>3, <1>5
  <1>8. Sums(f)[s] = f[p] + Sums(f)[t]
    BY <1>3, <1>4
  <1>9. Above(s)
    <2>. HIDE DEF t, p
    <2>. QED
      BY <1>6, <1>7, <1>8
  <1>. QED
    BY <1>9

\* dev is how far v is above its average, times n.
Deviation(dev, n, v, total) == \A p \in DOMAIN dev : dev[p] = n * v[p] - total

\* h is how far u is above its average, times n, and times dev.
Product(h, dev, n, u, total) ==
  DOMAIN h = DOMAIN dev /\ \A p \in DOMAIN dev : h[p] = dev[p] * (n * u[p] - total)

\* Chebyshev's inequality: what rises with x between any two, rises with it on average.
LEMMA SumOfRising ==
  ASSUME NEW P, IsFiniteSet(P), NEW n \in Nat,
         NEW x \in [P -> Nat], NEW u \in [P -> Int], NEW dev \in [P -> Int], NEW h,
         NEW X \in Int, NEW U \in Int,
         Deviation(dev, n, x, X), Product(h, dev, n, u, U), Total(dev) = 0,
         \A p, q \in P : x[p] <= x[q] => u[p] <= u[q]
  PROVE  Total(h) >= 0
  <1>0. DOMAIN h = P /\ \A p \in P : /\ dev[p] = n * x[p] - X
                                     /\ h[p] = dev[p] * (n * u[p] - U)
    BY DEF Deviation, Product
  <1>1. PICK c \in Int : \A p \in P : dev[p] * (u[p] - c) >= 0
    <2> DEFINE Above == {p \in P : dev[p] > 0}
    <2>1. CASE Above = {}
      <3> DEFINE low == [p \in P |-> (-1) * dev[p] + 0 * dev[p]]
      <3>1. DOMAIN dev = P /\ DOMAIN low = P /\ \A p \in P : dev[p] \in Int /\ ~ (dev[p] > 0)
        BY <2>1
      <3>2. \A p \in P : low[p] = (-1) * dev[p] + 0 * dev[p]
        OBVIOUS
      <3>3. \A p \in P : low[p] = - dev[p] /\ low[p] \in Nat
        BY <3>1, <3>2
      <3>. HIDE DEF low
      <3>4. Total(low) = (-1) * Total(dev) + 0 * Total(dev)
        <4>1. -1 \in Int /\ 0 \in Int /\ IsFiniteSet(DOMAIN dev)
          BY <3>1
        <4>2. \A p \in DOMAIN dev : dev[p] \in Int /\ dev[p] \in Int
                                   /\ low[p] = (-1) * dev[p] + 0 * dev[p]
          BY <3>1, <3>2
        <4>3. DOMAIN low = DOMAIN dev
          BY <3>1
        <4>4. Combines(low, -1, dev, 0, dev)
          BY <4>2, <4>3 DEF Combines
        <4>. QED
          BY <4>1, <4>4, SumLinear
      <3>5. \A p \in P : low[p] <= Total(low)
        BY <3>1, <3>3, SumAtLeast
      <3>6. \A p \in P : dev[p] = 0
        BY <3>1, <3>3, <3>4, <3>5
      <3>7. \A p \in P : dev[p] * (u[p] - 0) >= 0
        BY <3>6
      <3>. QED
        BY <3>7
    <2>2. CASE Above # {}
      <3> DEFINE S == {x[p] : p \in Above}
      <3>1. S \subseteq Nat /\ S # {}
        BY <2>2
      <3>2. PICK m \in S : \A k \in S : m <= k
        <4>. HIDE DEF S
        <4>. QED
          BY <3>1, LeastNatural
      <3>3. PICK p \in Above : x[p] = m
        OBVIOUS
      <3>4. ASSUME NEW q \in P
            PROVE  dev[q] * (u[q] - u[p]) >= 0
        <4>1. /\ x[p] \in Nat /\ x[q] \in Nat /\ u[p] \in Int /\ u[q] \in Int
              /\ dev[p] \in Int /\ dev[q] \in Int /\ dev[p] > 0 /\ p \in P
          OBVIOUS
        <4>2. CASE dev[q] > 0
          <5>1. x[p] <= x[q]
            BY <3>2, <3>3, <4>2
          <5>2. u[q] - u[p] >= 0
            BY <4>1, <5>1
          <5>. QED
            BY <4>1, <4>2, <5>2
        <4>3. CASE ~ (dev[q] > 0)
          <5>1. n * x[q] < n * x[p]
            BY <1>0, <4>1, <4>3
          <5>2. x[q] <= x[p]
            BY <4>1, <5>1
          <5>3. u[q] - u[p] <= 0
            BY <4>1, <5>2
          <5>4. \A v, w \in Int : v <= 0 /\ w <= 0 => v * w >= 0
            OBVIOUS
          <5>. QED
            BY <4>1, <4>3, <5>3, <5>4
        <4>. QED
          BY <4>2, <4>3
      <3>5. u[p] \in Int
        OBVIOUS
      <3>. QED
        BY <3>4, <3>5
    <2>. QED
      BY <2>1, <2>2
  <1> DEFINE g == [p \in P |-> dev[p] * (u[p] - c)]
             k == n * c - U
  <1>2. DOMAIN dev = P /\ DOMAIN g = P /\ \A p \in P : dev[p] \in Int /\ u[p] \in Int
    OBVIOUS
  <1>3. \A p \in P : g[p] = dev[p] * (u[p] - c) /\ g[p] \in Nat
    BY <1>1
  <1>4. k \in Int
    OBVIOUS
  <1>5. ASSUME NEW p \in P
        PROVE  h[p] = n * g[p] + k * dev[p]
    <2>1. \A d, w \in Int : d * (n * w - U) = n * (d * (w - c)) + (n * c - U) * d
      OBVIOUS
    <2>2. h[p] = dev[p] * (n * u[p] - U)
      BY <1>0
    <2>. HIDE DEF g
    <2>. QED
      BY <1>2, <1>3, <2>1, <2>2
  <1>. HIDE DEF g, k
  <1>6. Total(h) = n * Total(g) + k * Total(dev)
    <2>1. n \in Int /\ IsFiniteSet(DOMAIN g) /\ DOMAIN dev = DOMAIN g /\ DOMAIN h = DOMAIN g
      BY <1>0, <1>2
    <2>2. \A p \in DOMAIN g : g[p] \in Int /\ dev[p] \in Int /\ h[p] = n * g[p] + k * dev[p]
      BY <1>2, <1>3, <1>5
    <2>3. Combines(h, n, g, k, dev)
      BY <2>1, <2>2 DEF Combines
    <2>. QED
      BY <1>4, <2>1, <2>3, SumLinear
  <1>7. Total(g) \in Nat
    BY <1>2, <1>3, SumAtLeast
  <1>. QED
    BY <1>4, <1>6, <1>7

\* Deviations from the average, times the number of terms, cancel out.
LEMMA DeviationsCancel ==
  ASSUME NEW P, IsFiniteSet(P), NEW v \in [P -> Int], NEW dev,
         dev = [p \in P |-> Cardinality(P) * v[p] - Total(v)]
  PROVE  Total(v) \in Int /\ dev \in [P -> Int] /\ Total(dev) = 0
  <1> DEFINE n == Cardinality(P)
             ones == [p \in P |-> 1]
             k == - Total(v)
  <1>1. DOMAIN v = P /\ DOMAIN ones = P /\ DOMAIN dev = P /\ \A p \in P : v[p] \in Int /\ ones[p] = 1
    OBVIOUS
  <1>2. Total(v) \in Int
    BY <1>1, SumType
  <1>3. n \in Int
    BY FS_CardinalityType
  <1>4. k \in Int
    BY <1>2
  <1>5. \A p \in P : dev[p] = n * v[p] - Total(v)
    OBVIOUS
  <1>. HIDE DEF ones, n
  <1>6. ASSUME NEW p \in P
        PROVE  dev[p] = n * v[p] + k * ones[p] /\ dev[p] \in Int
    <2>1. ones[p] = 1 /\ v[p] \in Int /\ dev[p] = n * v[p] - Total(v)
      BY <1>1, <1>5
    <2>2. n * v[p] \in Int
      BY <1>3, <2>1
    <2>. HIDE DEF k
    <2>3. k * ones[p] = k
      BY <1>4, <2>1
    <2>. QED
      BY <1>2, <2>1, <2>2, <2>3 DEF k
  <1>. HIDE DEF k
  <1>7. Combines(dev, n, v, k, ones)
    <2>1. \A p \in P : ones[p] \in Int
      BY <1>1
    <2>. QED
      BY <1>1, <1>6, <2>1 DEF Combines
  <1>8. Total(dev) = n * Total(v) + k * Total(ones)
    BY <1>1, <1>3, <1>4, <1>7, SumLinear
  <1>9. Total(ones) = n
    BY <1>1, SumOfOnes DEF n
  <1>10. n * Total(v) + k * n = 0
    BY <1>2, <1>3 DEF k
  <1>11. dev \in [P -> Int]
    BY <1>6
  <1>. QED
    BY <1>2, <1>8, <1>9, <1>10, <1>11

--------------------------------------------------------------------------------
(* The slope of the pressure.                                              *)

\* Readings of a window: at most one at a time.
OnePerTime(points) ==
  /\ IsFiniteSet(points) /\ points \subseteq (0 .. LongestSpan) \X Nat
  /\ \A p, q \in points : p[1] = q[1] => p = q

LEMMA OnePerTimeType ==
  ASSUME NEW points, OnePerTime(points), NEW p \in points
  PROVE  p[1] \in 0 .. LongestSpan /\ p[1] \in Nat /\ p[2] \in Nat
  <1>1. p \in (0 .. LongestSpan) \X Nat
    BY DEF OnePerTime
  <1>2. p[1] \in 0 .. LongestSpan /\ p[2] \in Nat
    BY <1>1
  <1>3. LongestSpan \in Nat
    BY DEF LongestSpan
  <1>4. \A i \in 0 .. LongestSpan : i \in Nat
    BY <1>3
  <1>. QED
    BY <1>2, <1>4

LEMMA HoursIs ==
  ASSUME NEW points, OnePerTime(points), points # {}
  PROVE  /\ HoursSince(points) \in [points -> Nat]
         /\ \A p, q \in points :
              HoursSince(points)[q] - HoursSince(points)[p] = q[1] - p[1]
  <1> DEFINE S == {p[1] : p \in points}
             t0 == CHOOSE t \in S : \A p \in points : t <= p[1]
  <1>1. \A p \in points : p[1] \in Nat
    BY OnePerTimeType
  <1>2. S \subseteq Nat /\ S # {}
    BY <1>1
  <1>3. PICK m \in S : \A k \in S : m <= k
    <2>. HIDE DEF S
    <2>. QED
      BY <1>2, LeastNatural
  <1>4. t0 \in S /\ \A p \in points : t0 <= p[1]
    <2>1. \A p \in points : m <= p[1]
      BY <1>3
    <2>. HIDE DEF S
    <2>. QED
      BY <1>3, <2>1
  <1>5. HoursSince(points) = [p \in points |-> p[1] - t0]
    BY DEF HoursSince
  <1>6. t0 \in Nat
    BY <1>2, <1>4
  <1>. HIDE DEF t0, S
  <1>7. \A p \in points : p[1] - t0 \in Nat
    BY <1>1, <1>4, <1>6
  <1>. QED
    BY <1>1, <1>5, <1>6, <1>7

\* Multiplying deviations out.
LEMMA DeviationsTimes ==
  ASSUME NEW a \in Int, NEW b \in Int, NEW d \in Int, NEW n \in Int,
         NEW x \in Int, NEW y \in Int, NEW X \in Int, NEW Y \in Int,
         d = n * x - X
  PROVE  a * (d * (n * y - Y)) + b * (d * d) = d * (n * (a * y + b * x) - (a * Y + b * X))
  <1>1. n * (a * y + b * x) - (a * Y + b * X) = a * (n * y - Y) + b * (n * x - X)
    OBVIOUS
  <1>2. \A e \in Int : a * (d * e) + b * (d * d) = d * (a * e + b * d)
    OBVIOUS
  <1>3. n * y - Y \in Int
    OBVIOUS
  <1>. QED
    BY <1>1, <1>2, <1>3

\* The least squares keep to what holds between any two readings.
LEMMA TrendIs ==
  ASSUME NEW points, OnePerTime(points), Cardinality(points) >= 2
  PROVE  /\ Slope(points).num \in Int /\ Slope(points).den \in Nat \ {0}
         /\ \A a, b \in Int :
              (\A p, q \in points : p[1] <= q[1] => a * (q[2] - p[2]) + b * (q[1] - p[1]) >= 0)
                => a * Slope(points).num + b * Slope(points).den >= 0
  <1> DEFINE n == Cardinality(points)
             x == HoursSince(points)
             y == [q \in points |-> q[2]]
             X == Total(x)
             Y == Total(y)
             dx == [p \in points |-> n * x[p] - X]
             dy == [p \in points |-> n * p[2] - Y]
             xy == [p \in points |-> dx[p] * dy[p]]
             xx == [p \in points |-> dx[p] * dx[p]]
             num == Total(xy)
             den == Total(xx)
  <1>1. IsFiniteSet(points) /\ n \in Nat /\ points # {}
    BY FS_CardinalityType, FS_EmptySet DEF OnePerTime
  <1>2. \A p \in points : p[1] \in Nat /\ p[2] \in Nat
    BY OnePerTimeType
  <1>3. x \in [points -> Nat] /\ y \in [points -> Int]
    BY <1>1, <1>2, HoursIs
  <1>4. \A p, q \in points : x[q] - x[p] = q[1] - p[1]
    BY <1>1, HoursIs
  <1>5. Slope(points) = [num |-> num, den |-> den]
    <2>1. ~ (n < 2)
      BY <1>1
    <2>. QED
      BY <2>1, Zenon DEF Slope
  <1>6. X \in Int /\ dx \in [points -> Int] /\ Total(dx) = 0
    <2>1. x \in [points -> Int]
      BY <1>3
    <2>. HIDE DEF x
    <2>. QED
      BY <1>1, <2>1, DeviationsCancel
  <1>7. Y \in Int
    <2>1. DOMAIN y = points /\ \A p \in points : y[p] \in Int
      BY <1>2
    <2>. HIDE DEF y
    <2>. QED
      BY <1>1, <2>1, SumType
  <1>. HIDE DEF x, y, X, Y, n
  <1>8. \A p \in points : /\ dx[p] = n * x[p] - X /\ dy[p] = n * p[2] - Y
                          /\ dx[p] \in Int /\ dy[p] \in Int
    <2>1. \A p \in points : n * p[2] - Y \in Int
      BY <1>1, <1>2, <1>7
    <2>. QED
      BY <1>6, <2>1
  <1>. HIDE DEF dx, dy
  <1>9. /\ DOMAIN xy = points /\ DOMAIN xx = points
        /\ \A p \in points : /\ xy[p] = dx[p] * dy[p] /\ xx[p] = dx[p] * dx[p]
                             /\ xy[p] \in Int /\ xx[p] \in Int /\ xx[p] >= 0
    <2>1. \A i, j \in Int : i * j \in Int /\ i * i >= 0
      OBVIOUS
    <2>. QED
      BY <1>8, <2>1
  <1>. HIDE DEF xy, xx
  <1>10. num \in Int
    BY <1>1, <1>9, SumType
  <1>11. den \in Nat \ {0}
    <2>1. \A p \in points : xx[p] \in Nat
      BY <1>9
    <2>2. den \in Nat /\ \A p \in points : xx[p] <= den
      BY <1>1, <1>9, <2>1, SumAtLeast
    <2>3. PICK p \in points, q \in points : p # q
      <3>1. PICK p \in points : TRUE
        BY <1>1
      <3>2. Cardinality(points \ {p}) = n - 1 /\ IsFiniteSet(points \ {p})
        BY <1>1, FS_RemoveElement DEF n
      <3>3. points \ {p} # {}
        BY <1>1, <3>2, FS_EmptySet DEF n
      <3>. QED
        BY <3>3
    <2>4. x[p] # x[q] /\ x[p] \in Nat /\ x[q] \in Nat
      <3>1. p[1] # q[1]
        BY <2>3 DEF OnePerTime
      <3>2. x[q] - x[p] = q[1] - p[1] /\ p[1] \in Nat /\ q[1] \in Nat
        BY <1>2, <1>4
      <3>3. x[p] \in Nat /\ x[q] \in Nat
        BY <1>3
      <3>. QED
        BY <3>1, <3>2, <3>3
    <2>5. n >= 2
      BY DEF n
    <2>6. n * x[p] # n * x[q] /\ n * x[p] \in Int /\ n * x[q] \in Int
      <3>1. CASE x[p] < x[q]
        <4>1. n * x[p] < n * x[q]
          BY <1>1, <2>4, <2>5, <3>1
        <4>. QED
          BY <1>1, <2>4, <4>1
      <3>2. CASE x[q] < x[p]
        <4>1. n * x[q] < n * x[p]
          BY <1>1, <2>4, <2>5, <3>2
        <4>. QED
          BY <1>1, <2>4, <4>1
      <3>. QED
        BY <2>4, <3>1, <3>2
    <2>7. PICK r \in points : dx[r] # 0
      BY <1>6, <1>8, <2>6
    <2>8. \A i \in Int : i # 0 => i * i > 0
      OBVIOUS
    <2>9. xx[r] > 0
      BY <1>8, <1>9, <2>7, <2>8
    <2>. HIDE DEF den
    <2>. QED
      BY <2>1, <2>2, <2>9
  <1>12. ASSUME NEW a \in Int, NEW b \in Int,
                \A p, q \in points : p[1] <= q[1] => a * (q[2] - p[2]) + b * (q[1] - p[1]) >= 0
         PROVE  a * num + b * den >= 0
    <2> DEFINE u == [p \in points |-> a * p[2] + b * x[p]]
               U == a * Y + b * X
               h == [p \in points |-> a * xy[p] + b * xx[p]]
    <2>1. U \in Int /\ u \in [points -> Int]
      <3>1. \A p \in points : x[p] \in Int /\ p[2] \in Int
        BY <1>2, <1>3
      <3>2. \A i, j \in Int : a * i + b * j \in Int
        OBVIOUS
      <3>. QED
        BY <1>6, <1>7, <3>1, <3>2
    <2>2. ASSUME NEW p \in points, NEW q \in points, x[p] <= x[q]
          PROVE  u[p] <= u[q]
      <3>1. /\ x[p] \in Nat /\ x[q] \in Nat /\ p[1] \in Nat /\ p[2] \in Nat
            /\ q[1] \in Nat /\ q[2] \in Nat
        BY <1>2, <1>3
      <3>2. x[q] - x[p] = q[1] - p[1]
        BY <1>4
      <3>3. p[1] <= q[1]
        BY <2>2, <3>1, <3>2
      <3>4. a * (q[2] - p[2]) + b * (x[q] - x[p]) >= 0
        BY <1>12, <3>2, <3>3
      <3>5. \A i, j, k, l \in Int :
              a * (j - i) + b * (l - k) >= 0 => a * i + b * k <= a * j + b * l
        OBVIOUS
      <3>6. a * p[2] + b * x[p] <= a * q[2] + b * x[q]
        BY <3>1, <3>4, <3>5
      <3>. QED
        BY <3>6
    <2>3. ASSUME NEW p \in points
          PROVE  h[p] = dx[p] * (n * u[p] - U)
      <3>1. /\ h[p] = a * (dx[p] * dy[p]) + b * (dx[p] * dx[p])
            /\ dx[p] = n * x[p] - X /\ dy[p] = n * p[2] - Y /\ u[p] = a * p[2] + b * x[p]
        BY <1>8, <1>9
      <3>2. x[p] \in Int /\ p[2] \in Int /\ n \in Int /\ dx[p] \in Int
        BY <1>1, <1>2, <1>3, <1>8
      <3>3. a * (dx[p] * (n * p[2] - Y)) + b * (dx[p] * dx[p])
              = dx[p] * (n * (a * p[2] + b * x[p]) - (a * Y + b * X))
        BY <1>6, <1>7, <3>1, <3>2, DeviationsTimes
      <3>. QED
        BY <3>1, <3>3
    <2>4. DOMAIN h = points /\ \A p \in points : h[p] = a * xy[p] + b * xx[p]
      OBVIOUS
    <2>. HIDE DEF u, U, h
    <2>5. Total(h) >= 0
      <3>1. Deviation(dx, n, x, X)
        BY <1>6, <1>8 DEF Deviation
      <3>2. \A p, q \in points : x[p] <= x[q] => u[p] <= u[q]
        BY <2>2
      <3>3. Product(h, dx, n, u, U)
        BY <1>6, <2>3, <2>4 DEF Product
      <3>. QED
        BY <1>1, <1>3, <1>6, <2>1, <2>4, <3>1, <3>2, <3>3, SumOfRising
    <2>6. Combines(h, a, xy, b, xx)
      BY <1>9, <2>4 DEF Combines
    <2>7. Total(h) = a * num + b * den
      BY <1>1, <1>9, <2>6, SumLinear
    <2>. QED
      BY <2>5, <2>7
  <1>. HIDE DEF num, den
  <1>. QED
    BY <1>5, <1>10, <1>11, <1>12

\* Where -1 hPa an hour is on the rounded scale.
LEMMA RoundedAtMinusOne ==
  ASSUME NEW num \in Int, NEW den \in Nat \ {0}
  PROVE  /\ num <= - den => Rounded(10000 * num, den) <= -10000
         /\ 20000 * num + 19999 * den >= 0 => ~ (Rounded(10000 * num, den) <= -10000)
  <1> DEFINE r == Rounded(10000 * num, den)
  <1>1. /\ r \in Int /\ r * (2 * den) <= 2 * (10000 * num) + den
        /\ 2 * (10000 * num) + den < (r + 1) * (2 * den)
    <2>1. 2 * den \in Nat \ {0} /\ 2 * (10000 * num) + den \in Int
      OBVIOUS
    <2>2. ASSUME NEW i \in Int, NEW j \in Nat \ {0}
          PROVE  (i \div j) \in Int /\ (i \div j) * j <= i /\ i < ((i \div j) + 1) * j
      OBVIOUS
    <2> DEFINE i == 2 * (10000 * num) + den
               j == 2 * den
    <2>3. r = i \div j
      BY DEF Rounded
    <2>4. i \in Int /\ j \in Nat \ {0}
      BY <2>1
    <2>5. r \in Int /\ r * j <= i /\ i < (r + 1) * j
      <3>. HIDE DEF i, j, r
      <3>. QED
        BY <2>2, <2>3, <2>4
    <2>. QED
      BY <2>5
  <1>. HIDE DEF r
  <1>2. \A i, j \in Int : i < j => i * (2 * den) < j * (2 * den)
    OBVIOUS
  <1>3. \A i, j \in Int : i <= j => i * (2 * den) <= j * (2 * den)
    OBVIOUS
  <1>4. ASSUME num <= - den, r >= -9999
        PROVE  FALSE
    <2>1. (-9999) * (2 * den) <= r * (2 * den)
      BY <1>1, <1>3, <1>4
    <2>2. r * (2 * den) \in Int
      BY <1>1
    <2>. QED
      BY <1>1, <1>4, <2>1, <2>2
  <1>5. ASSUME 20000 * num + 19999 * den >= 0, r <= -10000
        PROVE  FALSE
    <2>1. (r + 1) * (2 * den) <= (-9999) * (2 * den)
      BY <1>1, <1>3, <1>5
    <2>2. (r + 1) * (2 * den) \in Int
      BY <1>1
    <2>. QED
      BY <1>1, <1>5, <2>1, <2>2
  <1>. QED
    BY <1>1, <1>4, <1>5 DEF r

\* The readings of a call make a window.
LEMMA CalledWith ==
  ASSUME NEW T \in SUBSET Hours, NEW pressure \in [T -> Pressures]
  PROVE  OnePerTime({<<t, pressure[t]>> : t \in T})
  <1> DEFINE points == {<<t, pressure[t]>> : t \in T}
             reading == [t \in T |-> <<t, pressure[t]>>]
  <1>1. T \subseteq 0 .. LongestSpan /\ LongestSpan \in Nat
    BY SignalsAssumption DEF LongestSpan
  <1>2. IsFiniteSet(T)
    <2>1. IsFiniteSet(0 .. LongestSpan)
      BY <1>1, FS_Interval
    <2>. QED
      BY <1>1, <2>1, FS_Subset
  <1>3. reading \in Surjection(T, points)
    BY DEF Surjection
  <1>4. IsFiniteSet(points)
    <2>. HIDE DEF points, reading
    <2>. QED
      BY <1>2, <1>3, FS_Surjection
  <1>5. \A t \in T : t \in 0 .. LongestSpan /\ pressure[t] \in Nat
    BY <1>1, SignalsAssumption
  <1>6. points \subseteq (0 .. LongestSpan) \X Nat
    BY <1>5
  <1>7. \A p, q \in points : p[1] = q[1] => p = q
    OBVIOUS
  <1>. QED
    BY <1>4, <1>6, <1>7 DEF OnePerTime

\* The weathers that a call has, with strong wind or rain and without.
LEMMA SevereIs ==
  ASSUME NEW weather \in Weathers
  PROVE  (OrZero(weather, "wind_speed_kph") >= 30 \/ OrZero(weather, "precip_mm") >= 2)
           = (weather \in {[wind_speed_kph |-> 30], [precip_mm |-> 2]})
  <1>1. CASE weather = << >>
    <2>1. DOMAIN weather = {}
      BY <1>1
    <2>2. OrZero(weather, "wind_speed_kph") = 0 /\ OrZero(weather, "precip_mm") = 0
      BY <2>1 DEF OrZero
    <2>3. /\ "wind_speed_kph" \in DOMAIN [wind_speed_kph |-> 30]
          /\ "precip_mm" \in DOMAIN [precip_mm |-> 2]
      OBVIOUS
    <2>. QED
      BY <2>1, <2>2, <2>3
  <1>2. CASE weather = [wind_speed_kph |-> 30]
    BY <1>2 DEF OrZero
  <1>3. CASE weather = [precip_mm |-> 2]
    BY <1>3 DEF OrZero
  <1>4. CASE weather = [wind_speed_kph |-> 29, precip_mm |-> 1]
    <2>1. DOMAIN weather = {"wind_speed_kph", "precip_mm"}
      BY <1>4
    <2>2. /\ DOMAIN [wind_speed_kph |-> 30] = {"wind_speed_kph"}
          /\ DOMAIN [precip_mm |-> 2] = {"precip_mm"}
      OBVIOUS
    <2>3. OrZero(weather, "wind_speed_kph") = 29 /\ OrZero(weather, "precip_mm") = 1
      BY <1>4 DEF OrZero
    <2>4. "wind_speed_kph" # "precip_mm"
      OBVIOUS
    <2>. QED
      BY <2>1, <2>2, <2>3, <2>4
  <1>. QED
    BY <1>1, <1>2, <1>3, <1>4 DEF Weathers

\* What the readings of a window say of the slope.
LEMMA SlopeSays ==
  ASSUME NEW points, OnePerTime(points)
  PROVE  LET pairs == {pq \in points \X points : pq[1][1] < pq[2][1]}
             falls(pq) == pq[1][2] - pq[2][2] >= pq[2][1] - pq[1][1]
             slope == Slope(points)
             steep == Rounded(10000 * slope.num, slope.den) <= -10000
         IN  /\ (slope.den = 0) = (pairs = {})
             /\ pairs # {} /\ (\A pq \in pairs : falls(pq)) => steep
             /\ pairs # {} /\ (\A pq \in pairs : ~ falls(pq)) => ~ steep
  <1> DEFINE pairs == {pq \in points \X points : pq[1][1] < pq[2][1]}
             falls(pq) == pq[1][2] - pq[2][2] >= pq[2][1] - pq[1][1]
             num == Slope(points).num
             den == Slope(points).den
             steep == Rounded(10000 * num, den) <= -10000
             n == Cardinality(points)
  <1>1. IsFiniteSet(points) /\ n \in Nat
    BY FS_CardinalityType DEF OnePerTime
  <1>2. LongestSpan = 20000
    BY DEF LongestSpan
  <1>3. \A p \in points : p[1] \in 0 .. LongestSpan /\ p[1] \in Nat /\ p[2] \in Nat
    BY OnePerTimeType
  <1>4. ASSUME NEW p \in points, NEW q \in points, p # q
        PROVE  pairs # {}
    <2>1. p[1] # q[1] /\ p[1] \in Nat /\ q[1] \in Nat
      BY <1>3, <1>4 DEF OnePerTime
    <2>2. p[1] < q[1] \/ q[1] < p[1]
      BY <2>1
    <2>3. <<p, q>> \in points \X points /\ <<q, p>> \in points \X points
      OBVIOUS
    <2>4. <<p, q>> \in pairs \/ <<q, p>> \in pairs
      BY <2>2, <2>3
    <2>. QED
      BY <2>4
  <1>5. CASE n < 2
    <2>1. den = 0
      BY <1>5, Zenon DEF Slope
    <2>2. ASSUME NEW p \in points, NEW q \in points, p # q
          PROVE  FALSE
      <3>1. Cardinality(points \ {p}) = n - 1 /\ IsFiniteSet(points \ {p})
        BY <1>1, FS_RemoveElement
      <3>2. q \in points \ {p}
        BY <2>2
      <3>3. Cardinality((points \ {p}) \ {q}) = n - 2 /\ IsFiniteSet((points \ {p}) \ {q})
        <4>. HIDE DEF n
        <4>1. Cardinality((points \ {p}) \ {q}) = Cardinality(points \ {p}) - 1
          BY <3>1, <3>2, FS_RemoveElement
        <4>. QED
          BY <1>1, <3>1, <4>1, FS_RemoveElement
      <3>4. Cardinality((points \ {p}) \ {q}) \in Nat
        BY <3>3, FS_CardinalityType
      <3>. HIDE DEF n
      <3>. QED
        BY <1>1, <1>5, <3>3, <3>4
    <2>3. pairs = {}
      <3>1. ASSUME NEW pq \in pairs
            PROVE  FALSE
        <4>1. pq[1] \in points /\ pq[2] \in points /\ pq[1][1] < pq[2][1]
          OBVIOUS
        <4>2. pq[1] # pq[2]
          <5>1. pq[1][1] \in Nat
            BY <1>3, <4>1
          <5>. QED
            BY <4>1, <5>1
        <4>. QED
          BY <2>2, <4>1, <4>2
      <3>. QED
        BY <3>1
    <2>. HIDE DEF pairs
    <2>. QED
      BY <2>1, <2>3 DEF pairs
  <1>6. CASE ~ (n < 2)
    <2>1. n >= 2
      BY <1>1, <1>6
    <2>2. /\ num \in Int /\ den \in Nat \ {0}
          /\ \A a, b \in Int :
               (\A p, q \in points : p[1] <= q[1] => a * (q[2] - p[2]) + b * (q[1] - p[1]) >= 0)
                 => a * num + b * den >= 0
      BY <2>1, TrendIs
    <2>3. pairs # {}
      <3>1. PICK p \in points : TRUE
        BY <1>1, <2>1, FS_EmptySet
      <3>2. Cardinality(points \ {p}) = n - 1 /\ IsFiniteSet(points \ {p})
        BY <1>1, FS_RemoveElement
      <3>3. n - 1 # 0
        BY <1>1, <2>1
      <3>4. points \ {p} # {}
        <4>. HIDE DEF n
        <4>. QED
          BY <3>2, <3>3, FS_EmptySet
      <3>5. PICK q \in points \ {p} : TRUE
        BY <3>4
      <3>. HIDE DEF pairs
      <3>. QED
        BY <1>4, <3>1, <3>5
    <2>4. \A p, q \in points : p[1] < q[1] => <<p, q>> \in pairs
      OBVIOUS
    <2>5. \A p, q \in points : p[1] = q[1] => p = q
      BY DEF OnePerTime
    <2>. HIDE DEF pairs, num, den
    <2>6. ASSUME \A pq \in pairs : falls(pq)
          PROVE  steep
      <3>1. ASSUME NEW p \in points, NEW q \in points, p[1] <= q[1]
            PROVE  (-1) * (q[2] - p[2]) + (-1) * (q[1] - p[1]) >= 0
        <4>1. p[1] \in Nat /\ p[2] \in Nat /\ q[1] \in Nat /\ q[2] \in Nat
          BY <1>3
        <4>2. CASE p[1] = q[1]
          BY <2>5, <4>1, <4>2
        <4>3. CASE p[1] < q[1]
          <5>1. falls(<<p, q>>)
            <6>. HIDE DEF falls
            <6>. QED
              BY <2>4, <2>6, <4>3
          <5>2. p[2] - q[2] >= q[1] - p[1]
            BY <5>1
          <5>. QED
            BY <4>1, <5>2
        <4>. QED
          BY <3>1, <4>1, <4>2, <4>3
      <3>2. (-1) * num + (-1) * den >= 0
        <4>1. -1 \in Int
          OBVIOUS
        <4>. QED
          BY <2>2, <3>1, <4>1
      <3>3. num <= - den
        BY <2>2, <3>2
      <3>. QED
        BY <2>2, <3>3, RoundedAtMinusOne
    <2>7. ASSUME \A pq \in pairs : ~ falls(pq)
          PROVE  ~ steep
      <3> DEFINE holds(p, q) == 20000 * (q[2] - p[2]) + 19999 * (q[1] - p[1]) >= 0
      <3>1. ASSUME NEW p \in points, NEW q \in points, p[1] <= q[1]
            PROVE  holds(p, q)
        <4>1. p[1] \in Nat /\ p[2] \in Nat /\ q[1] \in Nat /\ q[2] \in Nat
          BY <1>3
        <4>2. CASE p[1] = q[1]
          BY <2>5, <4>1, <4>2
        <4>3. CASE p[1] < q[1]
          <5>1. ~ falls(<<p, q>>)
            <6>. HIDE DEF falls
            <6>. QED
              BY <2>4, <2>7, <4>3
          <5>2. ~ (p[2] - q[2] >= q[1] - p[1])
            BY <5>1
          <5>3. q[1] <= 20000
            <6>0. LongestSpan \in Nat
              BY DEF LongestSpan
            <6>1. q[1] \in 0 .. LongestSpan /\ LongestSpan \in Nat
              BY <1>3, <6>0
            <6>2. q[1] <= LongestSpan
              BY <6>1
            <6>. QED
              BY <1>2, <6>2
          <5>. QED
            BY <4>1, <5>2, <5>3
        <4>. HIDE DEF holds
        <4>. QED
          BY <3>1, <4>1, <4>2, <4>3
      <3>2. 20000 * num + 19999 * den >= 0
        BY <2>2, <3>1
      <3>. QED
        BY <2>2, <3>2, RoundedAtMinusOne
    <2>. HIDE DEF steep, falls
    <2>8. den # 0
      BY <2>2
    <2>. QED
      BY <2>3, <2>6, <2>7, <2>8 DEF pairs, num, den, steep, falls
  <1>. QED
    BY <1>5, <1>6

\* Whatever readings a window has, storm_indicator raises the flag if the pressure falls
\* by 1 hPa an hour or more throughout and it blows or rains, does not if the pressure
\* nowhere falls as fast, and is silent exactly without two readings: for all pressures
\* and times, not only those of the run.
THEOREM StormTrue == Calls => []StormSignal
  <1>1. call = NoCall => StormSignal
    BY DEF NoCall, StormSignal
  <1>2. ASSUME NEW T \in SUBSET Hours, NEW weather \in Weathers, NEW pressure \in [T -> Pressures],
               CallStorm({<<t, pressure[t]>> : t \in T}, weather)
        PROVE  StormSignal'
    <2> DEFINE points == {<<t, pressure[t]>> : t \in T}
               pairs == {pq \in points \X points : pq[1][1] < pq[2][1]}
               falls(pq) == pq[1][2] - pq[2][2] >= pq[2][1] - pq[1][1]
               slope == Slope(points)
               steep == Rounded(10000 * slope.num, slope.den) <= -10000
               severe == weather \in {[wind_speed_kph |-> 30], [precip_mm |-> 2]}
               result == StormIndicator(slope, weather)
    <2>1. OnePerTime(points)
      BY CalledWith
    <2>2. /\ call'.function = "storm_indicator" /\ call'.points = points
          /\ call'.weather = weather /\ call'.result = result
      BY <1>2 DEF CallStorm
    <2>. HIDE DEF points
    <2>3. /\ (slope.den = 0) = (pairs = {})
          /\ pairs # {} /\ (\A pq \in pairs : falls(pq)) => steep
          /\ pairs # {} /\ (\A pq \in pairs : ~ falls(pq)) => ~ steep
      BY <2>1, SlopeSays
    <2>4. result = IF slope.den = 0 THEN "unknown" ELSE IF steep /\ severe THEN "storm" ELSE "calm"
      <3> DEFINE blows == OrZero(weather, "wind_speed_kph") >= 30 \/ OrZero(weather, "precip_mm") >= 2
      <3>1. blows = severe
        BY SevereIs
      <3>2. result = IF slope.den = 0 THEN "unknown" ELSE IF steep /\ blows THEN "storm" ELSE "calm"
        <4>. HIDE DEF slope
        <4>. QED
          BY DEF StormIndicator
      <3>. HIDE DEF blows, severe, steep, slope, result
      <3>. QED
        BY <3>1, <3>2
    <2>. HIDE DEF pairs, falls, steep, severe, slope, result
    <2>5. /\ (result = "unknown") = (pairs = {})
          /\ pairs # {} /\ (\A pq \in pairs : falls(pq)) => (result = "storm") = severe
          /\ pairs # {} /\ (\A pq \in pairs : ~ falls(pq)) => result = "calm"
      <3>1. CASE slope.den = 0
        BY <2>3, <2>4, <3>1
      <3>2. CASE slope.den # 0
        <4>1. result = IF steep /\ severe THEN "storm" ELSE "calm"
          BY <2>4, <3>2
        <4>2. pairs # {}
          BY <2>3, <3>2
        <4>3. severe \in BOOLEAN
          BY DEF severe
        <4>. QED
          BY <2>3, <4>1, <4>2, <4>3
      <3>. QED
        BY <3>1, <3>2
    <2>. QED
      BY <2>2, <2>5 DEF StormSignal, pairs, falls, severe
  <1>3. StormSignal /\ [Call]_call => StormSignal'
    <2>1. ASSUME NEW present, CallRisk(present)
          PROVE  StormSignal'
      BY <2>1 DEF CallRisk, StormSignal
    <2>2. ASSUME Return
          PROVE  StormSignal'
      BY <2>2 DEF Return, NoCall, StormSignal
    <2>3. ASSUME StormSignal, UNCHANGED call
          PROVE  StormSignal'
      BY <2>3 DEF StormSignal
    <2>. QED
      BY <1>2, <2>1, <2>2, <2>3 DEF Call
  <1>. QED
    BY <1>1, <1>3, PTL DEF Calls
==================================================================================
