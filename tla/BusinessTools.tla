---------------------------- MODULE BusinessTools ----------------------------
(***************************************************************************)
(* The deterministic tools behind the three specialist agents, over every   *)
(* short request.  The client puts a request together row by row; whatever  *)
(* it has put together so far could be sent.  The workflow hands the same   *)
(* two datasets to the Finance and to the Marketing tools, and the series   *)
(* to the Data Scientist's.                                                 *)
(***************************************************************************)
EXTENDS Decimals

CONSTANTS
  Missing, NotFinite,   \* values no tool can calculate with
  Text,                 \* a decimal string, which no tool calculates with either
  SegmentLimit, Window, Horizon, SeasonLength, Threshold,   \* the tools' defaults
  SeriesLimit,          \* the digits of Python's default context
  Revenues, Costs,      \* amounts of rows, in tenths of a cent
  Observations,         \* values of a series, in hundred thousandths
  Common,               \* the observations of series longer than MaxMixed
  MaxRows,              \* bound: rows of both periods together
  MaxSeries, MaxMixed   \* bounds: observations of a series

ASSUME ToolsAssumption ==
  /\ {SegmentLimit, Window, Horizon, SeasonLength, Threshold} \subseteq Nat \ {0}
  /\ Revenues \subseteq Nat /\ Costs \subseteq Nat /\ Observations \subseteq Int
  /\ MaxRows \in Nat /\ MaxSeries \in Nat
  /\ {Missing, Text, NotFinite} \cap Int = {}

(* All digits of the sum of the greatest amounts are kept, and of a growth  *)
(* from one customer to as many as there are rows; and Limit is a power of  *)
(* ten (10^50 units), of which the proofs use that it has this divisor.     *)
ASSUME PrecisionAssumption ==
  /\ Limit \in Nat \ {0} /\ Limit % Hundred = 0 /\ SeriesLimit \in Nat
  /\ MaxRows * Hundred < Limit
  /\ \A amount \in Revenues \cup Costs \cup {10} : MaxRows * Quantize(amount, 10) < Limit

VARIABLES
  dataset,            \* the rows of the current period
  previous_dataset,   \* the rows of the period before
  series              \* data_scientist_series

vars == <<dataset, previous_dataset, series>>

Finance == INSTANCE FinanceTools
Marketing == INSTANCE MarketingTools
DataScientist == INSTANCE DataScientistTools
-----------------------------------------------------------------------------
(* Inputs.  Amounts fall on both sides of half a cent and on the half.      *)
Row(customer, segment, revenue, cost) ==
  [customer |-> customer, segment |-> segment, revenue |-> revenue, cost |-> cost]

GoodRows ==
  [customer : {<<1, "">>, <<1, " ">>, <<2, "">>}, segment : {<<1, "">>, <<2, "">>},
   revenue : Revenues, cost : Costs]

(* A refund, a row without a cost, the row that docs/api.md shows, the least *)
(* amount of too many digits, and names of blanks                           *)
BadRows ==
  {Row(<<1, "">>, <<1, "">>, -4, 10), Row(<<1, "">>, <<1, "">>, 10, Missing),
   Row(<<1, "">>, <<1, "">>, Text, Text), Row(<<1, "">>, <<1, "">>, 10 * Limit - 5, 10),
   Row(<<0, " ">>, <<1, "">>, 10, 10), Row(<<1, "">>, <<0, "">>, 10, 10)}

Rows == GoodRows \cup BadRows

Init ==
  /\ dataset = <<>>
  /\ previous_dataset = <<>>
  /\ series = <<>>

(* No tool reads both the rows and the series: TLC fills in one of them. *)
AddOrder(row) ==
  /\ series = <<>>
  /\ Len(dataset) + Len(previous_dataset) < MaxRows
  /\ \/ dataset' = Append(dataset, row) /\ UNCHANGED previous_dataset
     \/ previous_dataset' = Append(previous_dataset, row) /\ UNCHANGED dataset
  /\ UNCHANGED series

Observe(x) ==
  /\ dataset = <<>> /\ previous_dataset = <<>>
  /\ Len(series) < IF ToSet(series) \cup {x} \subseteq Common THEN MaxSeries ELSE MaxMixed
  /\ NotFinite \notin ToSet(series)
  /\ series' = Append(series, x)
  /\ UNCHANGED <<dataset, previous_dataset>>

Next ==
  \/ \E row \in Rows : AddOrder(row)
  \/ \E x \in Observations \cup {NotFinite} : Observe(x)

Spec == Init /\ [][Next]_vars
-----------------------------------------------------------------------------
(* Properties *)

FinanceAnswers == Finance!Raises(dataset, previous_dataset) = "nothing"
MarketingAnswers == Marketing!Raises(dataset, previous_dataset) = "nothing"
DataScientistAnswers == DataScientist!Raises(series) = "nothing"

(* Which requests the tools answer, told from the request, and that they can *)
(* then calculate: no denominator is zero, no list they take the least or a *)
(* mean of is empty, and every figure has at most the digits that quantize  *)
(* keeps.  Finance reads no names and no costs of the previous period.  A   *)
(* request whose amounts it can read, and that earns a cent in each period, *)
(* it answers if the cost is no more than most times the revenue and the    *)
(* revenue no more than most times that before, and never beyond one more   *)
(* time; only there does it fail with quantize's InvalidOperation.          *)
(* Marketing answers just if the names and the revenues are good.           *)
AnswersExplained ==
  LET now == Marketing!orders(dataset)
      before == Marketing!orders(previous_dataset)
      raised == Finance!Raises(dataset, previous_dataset)
      f == Finance!calculate_kpis(dataset, previous_dataset)
      m == Marketing!calculate_marketing_kpis(dataset, previous_dataset)
      d == DataScientist!calculate_data_science_metrics(series)
      most == Limit \div Hundred
      RowsAre(rows, Good(_)) == rows # <<>> /\ \A i \in DOMAIN rows : Good(rows[i])
      Amount(value) == value \in Nat /\ value < 10 * Limit - 5
      Earns(row) == Amount(row.revenue)
      Counts(row) == Earns(row) /\ Amount(row.cost)
      Named(row) == Earns(row) /\ row.customer[1] # 0 /\ row.segment[1] # 0
      ReachesACent(rows) == \E i \in DOMAIN rows : rows[i].revenue > 5
      Earned == RowsAre(dataset, Counts) /\ ReachesACent(dataset)
      EarnedBefore == RowsAre(previous_dataset, Earns) /\ ReachesACent(previous_dataset)
      CostWithin(k) == Finance!total_cost(dataset) <= k * Finance!total_revenue(dataset)
      GrowthWithin(k) == Finance!total_revenue(dataset) <= k * Finance!total_revenue(previous_dataset)
  IN /\ FinanceAnswers =>
          /\ Earned /\ EarnedBefore /\ CostWithin(most + 1) /\ GrowthWithin(most + 1)
          /\ Finance!total_revenue(dataset) > 0 /\ Finance!total_revenue(previous_dataset) > 0
          /\ \A figure \in DOMAIN f : Fits(f[figure])
     /\ Earned /\ EarnedBefore /\ CostWithin(most) /\ GrowthWithin(most) => FinanceAnswers
     /\ raised = "InvalidOperation" =>
          Earned /\ (CostWithin(most) => EarnedBefore /\ ~GrowthWithin(most))
     /\ MarketingAnswers <=> RowsAre(dataset, Named) /\ RowsAre(previous_dataset, Named)
     /\ MarketingAnswers =>
          /\ Marketing!customers(now) # {} /\ Marketing!customers(before) # {}
          /\ Fits(m.average_order_value) /\ Fits(m.customer_growth)
          /\ \A s \in DOMAIN m.revenue_by_segment : Fits(m.revenue_by_segment[s])
     /\ DataScientistAnswers =>
          /\ DataScientist!SlopeDenominator(series) > 0 /\ Len(series) > SeasonLength
          /\ d.moving_average # <<>> /\ Fits(d.forecast_summary.mean)
          /\ \A k \in DOMAIN d.moving_average : DataScientist!FitsDefault(d.moving_average[k])

(* Two agents report on the same orders: their totals and averages agree to *)
(* the cent though each tool rounds and sums for itself.  Retention and     *)
(* churn make up the whole; customers cannot fall by more than the churn; a *)
(* customer with two orders shows in the rate, unless it rounds to nothing  *)
(* among twenty thousand; the margin has the sign of the profit; the        *)
(* leading segments lead; and no result depends on the order of the rows.   *)
OrdersReconcile ==
  LET f == Finance!calculate_kpis(dataset, previous_dataset)
      m == Marketing!calculate_marketing_kpis(dataset, previous_dataset)
      totals == m.revenue_by_segment
      top == m.top_segments
  IN /\ FinanceAnswers =>
          /\ f.profit_margin * f.total_profit >= 0 /\ f.profit_margin <= Hundred
          /\ f.revenue_growth_rate >= -Hundred
          /\ f = Finance!calculate_kpis(Reverse(dataset), Reverse(previous_dataset))
     /\ MarketingAnswers =>
          /\ m.retention_rate \in 0 .. Hundred /\ m.churn_rate + m.retention_rate = Hundred
          /\ m.customer_growth >= -m.churn_rate
          /\ m.repeat_customer_rate > 0 => m.customer_count < Len(dataset)
          /\ m.customer_count < Len(dataset) /\ m.customer_count < 2 * Hundred =>
               m.repeat_customer_rate > 0
          /\ \A i \in DOMAIN top : \A s \in DOMAIN totals :
               totals[s] > totals[top[i]] => \E j \in 1 .. i - 1 : top[j] = s
          /\ m = Marketing!calculate_marketing_kpis(Reverse(dataset), Reverse(previous_dataset))
     /\ FinanceAnswers /\ MarketingAnswers =>
          /\ SumFunction(totals) = f.total_revenue
          /\ m.average_order_value = f.average_order_value

(* The statistics of one series support each other: the forecasts go the    *)
(* way of the trend, and with a stable one no further than its rounding;    *)
(* averages and the mean stay within what was observed, the mean within its *)
(* interval; an outlier needs a series of more than nine, of which at most  *)
(* a ninth are outliers; what repeats for two seasons or more is seasonal   *)
(* and what never changes is neither seasonal, trending nor uncertain.      *)
(* Read backwards a series has the opposite trend and all else as it was.   *)
Opposite == [increasing |-> "decreasing", decreasing |-> "increasing", stable |-> "stable"]

SeriesReconcile == DataScientistAnswers =>
  LET d == DataScientist!calculate_data_science_metrics(series)
      back == DataScientist!calculate_data_science_metrics(Reverse(series))
      values == DataScientist!normalized(series)
      n == Len(values)
      ahead == d.forecast_summary
      interval == d.confidence_interval_summary
      Constant == \A i \in DOMAIN values : values[i] = values[1]
      Repeating == \A i \in 1 .. n - SeasonLength : values[i] = values[i + SeasonLength]
      Observed(x) == (\E i \in DOMAIN values : values[i] <= x) /\ (\E i \in DOMAIN values : x <= values[i])
  IN /\ d.trend_detection.direction = "increasing" => ahead.values[1] = ahead.minimum
     /\ d.trend_detection.direction = "decreasing" => ahead.values[1] = ahead.maximum
     /\ d.trend_detection.direction = "stable" => ahead.maximum - ahead.minimum <= (Horizon + 1) \div 2
     /\ ahead.mean \in ahead.minimum .. ahead.maximum
     /\ Len(d.moving_average) = n - Window + 1
     /\ \A k \in DOMAIN d.moving_average : Observed(d.moving_average[k])
     /\ Observed(interval.mean) /\ interval.mean \in interval.lower .. interval.upper
     /\ Threshold * Threshold * d.anomaly_count < n
     /\ Constant => /\ d.trend_detection.slope = 0 /\ ~d.seasonality_indicator.detected
                    /\ interval.lower = interval.upper /\ d.anomaly_count = 0
     /\ ~Constant /\ Repeating /\ n >= 2 * SeasonLength => d.seasonality_indicator.detected
     /\ back.trend_detection.direction = Opposite[d.trend_detection.direction]
     /\ back.anomaly_count = d.anomaly_count
     /\ back.seasonality_indicator = d.seasonality_indicator
     /\ back.confidence_interval_summary = interval
     /\ back.moving_average = Reverse(d.moving_average)

(* Whatever the deterministic tools reject, they reject with an error of    *)
(* the domain, which the API answers with a 400 (docs/api.md: "Deterministic *)
(* dataset or metric input is invalid.").                                   *)
RejectionsAreDomainErrors ==
  {Finance!Raises(dataset, previous_dataset),
   Marketing!Raises(dataset, previous_dataset),
   DataScientist!Raises(series)}
    \subseteq {"nothing", "InvalidDatasetError", "UndefinedMetricError"}
=============================================================================
