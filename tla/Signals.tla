--------------------------------- MODULE Signals ---------------------------------
(***************************************************************************)
(* Functions of features/functions.py that combine several readings: the   *)
(* slope of the pressure with the storm flag that is raised on it, and the *)
(* weighted air-quality score with its level.                              *)
(*                                                                         *)
(* Readings are whole numbers here, a result that the code rounds is that  *)
(* many hundredths or ten-thousandths (ties go up; the code's go the way   *)
(* its floats do).  A reading that is None is left out: of the points of a *)
(* window, and of the domain of a function.  The functions have no state:  *)
(* the only variable is the call at hand with its result.                  *)
(*                                                                         *)
(* An operator whose name starts with Faulty is not part of the model: it  *)
(* is the definition after it with a bug in it, kept to show that the      *)
(* properties notice the bug.                                              *)
(***************************************************************************)
EXTENDS Integers, FiniteSets, SequencesExt

CONSTANTS
  Hours,          \* bound: when the readings of a window may be made
  Pressures,      \* bound: pressures (hPa)
  Concentrations  \* bound: concentrations (ug/m3)

\* bound: over more hours, a fall of almost 1 hPa an hour is 1 hPa to four decimal
\* places, and storm_indicator is given the rounded slope; its windows are of 3 hours.
LongestSpan == 20000

ASSUME SignalsAssumption ==
  Hours \subseteq 0 .. LongestSpan /\ Pressures \subseteq Nat /\ Concentrations \subseteq Nat

VARIABLE call

\* The sum of f over its domain.
Total(f) == FoldFunction(+, 0, f)

\* a / b to the nearest whole number.
Rounded(a, b) == (2 * a + b) \div (2 * b)

--------------------------------------------------------------------------------
(* pressure_trend and storm_indicator.                                     *)

\* The readings are taken to be an hour apart.
FaultyHoursSince(points) == [p \in points |-> Cardinality({q \in points : q[1] < p[1]})]

\* xs: hours since the first point.
HoursSince(points) ==
  LET t0 == CHOOSE t \in {p[1] : p \in points} : \A p \in points : t <= p[1]
  IN  [p \in points |-> p[1] - t0]

\* Least squares around the means, both sums times n^2; without two points of
\* different times the denominator is 0, where the code returns None.
Slope(points) ==
  LET n  == Cardinality(points)
      xs == HoursSince(points)
      dx == [p \in points |-> n * xs[p] - Total(xs)]
      dy == [p \in points |-> n * p[2] - Total([q \in points |-> q[2]])]
  IN  IF n < 2 THEN [num |-> 0, den |-> 0]
      ELSE [num |-> Total([p \in points |-> dx[p] * dy[p]]),
            den |-> Total([p \in points |-> dx[p] * dx[p]])]

OrZero(f, k) == IF k \in DOMAIN f THEN f[k] ELSE 0

\* What storm_indicator returns, None as "unknown".
StormIndicator(trend, weather) ==
  IF trend.den = 0 THEN "unknown"
  ELSE IF /\ Rounded(10000 * trend.num, trend.den) <= -10000
          /\ OrZero(weather, "wind_speed_kph") >= 30 \/ OrZero(weather, "precip_mm") >= 2
       THEN "storm" ELSE "calm"

--------------------------------------------------------------------------------
(* aqi_composite_risk.                                                     *)

Pollutants == {"pm2_5", "pm10", "o3", "no2", "so2"}

\* _AQI_WEIGHTS, in hundredths, and _AQI_REFERENCE.
Weight    == [pm2_5 |-> 35, pm10 |-> 20, o3 |-> 20, no2 |-> 15, so2 |-> 10]
Reference == [pm2_5 |-> 35, pm10 |-> 150, o3 |-> 100, no2 |-> 100, so2 |-> 75]

\* The sum of f over the pollutants.
OverAll(f) == f["pm2_5"] + f["pm10"] + f["o3"] + f["no2"] + f["so2"]

\* A pollutant that is not measured counts as clean air.
FaultyWeightOf(present) == OverAll(Weight)

\* total_weight.
WeightOf(present) ==
  OverAll([k \in Pollutants |-> IF k \in DOMAIN present THEN Weight[k] ELSE 0])

\* The weighted sum, times 2100, a common multiple of the references.
Exposure(present) ==
  OverAll([k \in Pollutants |->
             Weight[k] * OrZero(present, k) * (2100 \div Reference[k])])

\* The score in hundredths.
Score(present) == Rounded(100 * Exposure(present), 21 * WeightOf(present))

Level(score) ==
  IF score < 2500 THEN "good"
  ELSE IF score < 5000 THEN "moderate"
  ELSE IF score < 10000 THEN "unhealthy_sensitive"
  ELSE IF score < 15000 THEN "unhealthy"
  ELSE "hazardous"

\* aqi_composite_risk_score is a Numeric(6, 3).
FitsColumn(score) == score < 100000

--------------------------------------------------------------------------------
\* Calls from compute_feature_row and from enrich_observations.
NoCall == [function |-> "none"]

\* None, strong wind, rain, and neither of them.
Weathers ==
  {<< >>, [wind_speed_kph |-> 30], [precip_mm |-> 2], [wind_speed_kph |-> 29, precip_mm |-> 1]}

CallStorm(points, weather) ==
  /\ call = NoCall
  /\ call' = [function |-> "storm_indicator", points |-> points, weather |-> weather,
              result |-> StormIndicator(Slope(points), weather)]

CallRisk(present) ==
  /\ call = NoCall
  /\ call' = [function |-> "aqi_composite_risk", present |-> present,
              score |-> Score(present), level |-> Level(Score(present))]

Return == call # NoCall /\ call' = NoCall

Call ==
  \/ \E T \in SUBSET Hours, weather \in Weathers : \E pressure \in [T -> Pressures] :
       CallStorm({<<t, pressure[t]>> : t \in T}, weather)
  \/ \E P \in (SUBSET Pollutants) \ {{}} : \E present \in [P -> Concentrations] : CallRisk(present)
  \/ Return

Calls == call = NoCall /\ [][Call]_call

--------------------------------------------------------------------------------
\* "A rapidly falling pressure trend" whatever readings are missing: if the
\* pressure falls by 1 hPa an hour or more between any two readings of a window,
\* the flag is raised exactly with strong wind or rain; if between no two of
\* them, it is not; and it is unknown exactly if there are no two readings.
StormSignal ==
  call.function = "storm_indicator" =>
    LET pairs == {pq \in call.points \X call.points : pq[1][1] < pq[2][1]}
        falls(pq) == pq[1][2] - pq[2][2] >= pq[2][1] - pq[1][1]
        severe == call.weather \in {[wind_speed_kph |-> 30], [precip_mm |-> 2]}
    IN  /\ (call.result = "unknown") = (pairs = {})
        /\ pairs # {} /\ (\A pq \in pairs : falls(pq)) => (call.result = "storm") = severe
        /\ pairs # {} /\ (\A pq \in pairs : ~ falls(pq)) => call.result = "calm"

\* The score is an average of the pollutants that were measured, whichever they
\* are: between the cleanest and the dirtiest of them relative to their reference,
\* so that a missing sensor hides nothing, no level speaks of unhealthy air unless
\* a pollutant reaches its reference -- and it fits its column as long as none
\* reaches ten times its reference.
ScoreIsAverage ==
  call.function = "aqi_composite_risk" =>
    LET present == call.present
        P == DOMAIN present
        alone(k) == Rounded(10000 * present[k], Reference[k])
    IN  /\ \E k \in P : alone(k) <= call.score
        /\ \E k \in P : alone(k) >= call.score
        /\ (\A k \in P : present[k] < Reference[k])
             => call.level \in {"good", "moderate", "unhealthy_sensitive"}
        /\ (\A k \in P : present[k] >= Reference[k])
             => call.level \in {"unhealthy", "hazardous"}
        /\ (\A k \in P : present[k] < 10 * Reference[k]) => FitsColumn(call.score)
================================================================================
