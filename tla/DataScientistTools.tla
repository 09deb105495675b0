------------------------- MODULE DataScientistTools -------------------------
(***************************************************************************)
(* tools/data_scientist_tools.py for the workflow's data_scientist_series,  *)
(* with the default parameters the graph leaves in place and without the    *)
(* feature weights and model scores that no workflow supplies.              *)
(* An observation is a number of hundred thousandths, or NotFinite; what    *)
(* the tools make of it are whole ten thousandths.                          *)
(***************************************************************************)
EXTENDS Decimals

CONSTANTS
  NotFinite,      \* an observation that is infinite or not a number
  SeriesLimit,    \* the least number of more digits than Python's default, 28
  Window,         \* DEFAULT_MOVING_AVERAGE_WINDOW
  Horizon,        \* DEFAULT_FORECAST_HORIZON
  SeasonLength,   \* DEFAULT_SEASON_LENGTH
  Threshold       \* DEFAULT_ANOMALY_THRESHOLD

(* Next to some definitions stands a mutated form of it, named for the slip *)
(* it makes; the specification never uses those.                            *)

(* _series: the observations in four decimals *)
normalized(observations) == [i \in DOMAIN observations |-> Quantize(observations[i], 10)]

Valid(observations) ==
  /\ Len(observations) >= 2
  /\ \A i \in DOMAIN observations :
       observations[i] # NotFinite /\ Fits(Quantize(observations[i], 10))

(* What _quantize accepts outside a context of DECIMAL_PRECISION digits *)
FitsDefault(n) == -SeriesLimit < n /\ n < SeriesLimit

(* The statistics of a series that is normalized *)
Product(u, v) == Total([i \in DOMAIN u |-> u[i] * v[i]])

(* The sum of products of deviations from the mean, times the length *)
Codeviation(u, v) == Len(u) * Product(u, v) - Total(u) * Total(v)
Indices(series) == [i \in DOMAIN series |-> i - 1]

(* _linear_slope, as the fraction of these two *)
SlopeNumerator(series) == Codeviation(Indices(series), series)
SlopeDenominator(series) == Codeviation(Indices(series), Indices(series))

trend_detection(series) ==
  LET slope == Quantize(SlopeNumerator(series), SlopeDenominator(series))
  IN [slope |-> slope,
      direction |-> IF slope > 0 THEN "increasing" ELSE IF slope < 0 THEN "decreasing" ELSE "stable"]

moving_average(series) ==
  [k \in 1 .. Len(series) - Window + 1 |-> Quantize(Total(SubSeq(series, k, k + Window - 1)), Window)]

(* forecast_summary: the line through the mean, at the indices that follow *)
forecast_summary(series) ==
  LET n == Len(series)
      numerator == SlopeNumerator(series)
      denominator == SlopeDenominator(series)
      At(x) == Quantize(Total(series) * denominator + numerator * (n * x - Total(Indices(series))),
                        n * denominator)
      values == [k \in 1 .. Horizon |-> At(n + k - 1)]
  IN [values |-> values,
      mean |-> Quantize(Total(values), Horizon),
      minimum |-> CHOOSE v \in ToSet(values) : \A w \in ToSet(values) : v <= w,
      maximum |-> CHOOSE v \in ToSet(values) : \A w \in ToSet(values) : v >= w]

(* anomaly_count: further from the mean than Threshold standard deviations; *)
(* both sides squared, times the square of the length                       *)
anomaly_count(series) ==
  LET n == Len(series)
      variance == Codeviation(series, series)
      Far(i) == (n * series[i] - Total(series)) * (n * series[i] - Total(series))
                  > Threshold * Threshold * variance
  IN Cardinality({i \in DOMAIN series : variance # 0 /\ Far(i)})

(* seasonality_indicator: the correlation is kept as the fraction of        *)
(* numerator and the root of denominator, 0 / 0 stands for None.  Rounded   *)
(* to four places it is on the same side of one half, in series this short. *)
seasonality_of_neighbours(series) ==
  LET n == Len(series)
      leading == SubSeq(series, 1, n - 1)
      lagged == SubSeq(series, 2, n)
      numerator == Codeviation(leading, lagged)
      denominator == Codeviation(leading, leading) * Codeviation(lagged, lagged)
      known == Len(leading) >= 2 /\ denominator # 0
  IN [numerator |-> IF known THEN numerator ELSE 0,
      denominator |-> IF known THEN denominator ELSE 0,
      detected |-> known /\ numerator > 0 /\ 4 * numerator * numerator >= denominator]

seasonality_indicator(series) ==
  LET n == Len(series)
      leading == SubSeq(series, 1, n - SeasonLength)
      lagged == SubSeq(series, SeasonLength + 1, n)
      numerator == Codeviation(leading, lagged)
      denominator == Codeviation(leading, leading) * Codeviation(lagged, lagged)
      known == Len(leading) >= 2 /\ denominator # 0
  IN [numerator |-> IF known THEN numerator ELSE 0,
      denominator |-> IF known THEN denominator ELSE 0,
      detected |-> known /\ numerator > 0 /\ 4 * numerator * numerator >= denominator]

(* confidence_interval_summary: the margin of the mean is 1.96 roots of the *)
(* sample variance over the length; AtMostMargin(a) compares a with that    *)
(* margin times twice the length.                                           *)
LowerBound(series) ==
  LET n == Len(series)
      AtMostMargin(a) ==
        a <= 0 \/ 625 * a * a * (n - 1) <= 9604 * Codeviation(series, series)
      low == CHOOSE v \in ToSet(series) : \A w \in ToSet(series) : v <= w
      high == CHOOSE v \in ToSet(series) : \A w \in ToSet(series) : v >= w
  IN CHOOSE bound \in low - (high - low) - 1 .. high :
       /\ AtMostMargin(2 * Total(series) - n * (2 * bound + 1))
       /\ ~AtMostMargin(2 * Total(series) - n * (2 * bound - 1))

confidence_interval_summary(series) ==
  [mean |-> Quantize(Total(series), Len(series)),
   lower |-> LowerBound(series),
   upper |-> -LowerBound([i \in DOMAIN series |-> -series[i]])]

(* What the tools raise, in the order in which they calculate.  Only        *)
(* _series turns its errors into an InvalidDatasetError: a slope, a         *)
(* forecast or a bound of the interval that does not fit and a series too   *)
(* short for a parameter end in a ValueError.  All but trend_detection read *)
(* the series, and the bounds are rounded, in the default context; that it  *)
(* rounds what fits to its digits first is taken as exact.                  *)
Raises(observations) ==
  LET series == normalized(observations)
      bounds == confidence_interval_summary(series)
  IN IF ~Valid(observations) THEN "InvalidDatasetError"
     ELSE IF ~Fits(trend_detection(series).slope) THEN "ValueError"
     ELSE IF \E i \in DOMAIN series : ~FitsDefault(series[i]) THEN "InvalidDatasetError"
     ELSE IF Window > Len(series) THEN "ValueError"
     ELSE IF \E k \in 1 .. Horizon : ~Fits(forecast_summary(series).values[k]) THEN "ValueError"
     ELSE IF SeasonLength >= Len(series) THEN "ValueError"
     ELSE IF ~FitsDefault(bounds.lower) \/ ~FitsDefault(bounds.upper) THEN "ValueError"
     ELSE "nothing"

calculate_data_science_metrics(observations) ==
  LET series == normalized(observations)
  IN [trend_detection |-> trend_detection(series),
      moving_average |-> moving_average(series),
      forecast_summary |-> forecast_summary(series),
      anomaly_count |-> anomaly_count(series),
      seasonality_indicator |-> seasonality_indicator(series),
      confidence_interval_summary |-> confidence_interval_summary(series)]
=============================================================================
