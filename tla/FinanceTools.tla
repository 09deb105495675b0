---------------------------- MODULE FinanceTools ----------------------------
(***************************************************************************)
(* tools/finance_tools.py.  A dataset is a sequence of rows; the revenue    *)
(* and the cost of a row are numbers of tenths of a cent, Text or Missing.  *)
(* calculate_kpis either raises or returns its KPIs in cents and hundredths *)
(* of a percent.                                                            *)
(***************************************************************************)
EXTENDS Decimals

CONSTANTS
  Missing,   \* a column that is absent, true, null or not finite
  Text       \* a decimal string, the form of an amount in docs/api.md

(* Next to some definitions stands a mutated form of it, named for the slip *)
(* it makes; the specification never uses those.                            *)

(* _to_money: an int, float or Decimal, so no Text, and no Missing either;  *)
(* the sign is checked before the value is rounded to cents, the number of  *)
(* digits after.                                                            *)
to_money_half_up(value) ==
  (value + 5) \div 10

to_money(value) ==
  Quantize(value, 10)

IsMoney(value) == value \notin {Missing, Text} /\ value >= 0 /\ Fits(to_money(value))

(* _total_for_column: raises for an empty dataset and for any bad row. *)
ValidColumn(dataset, column) ==
  /\ dataset # <<>>
  /\ \A i \in DOMAIN dataset : IsMoney(dataset[i][column])

total_for_column(dataset, column) ==
  Total([i \in DOMAIN dataset |-> to_money(dataset[i][column])])

total_revenue(dataset) == total_for_column(dataset, "revenue")
total_cost(dataset) == total_for_column(dataset, "cost")
total_profit(dataset) == total_revenue(dataset) - total_cost(dataset)
average_order_value(dataset) == Quantize(total_revenue(dataset), Len(dataset))

profit_margin(dataset) ==
  Quantize((total_revenue(dataset) - total_cost(dataset)) * Hundred, total_revenue(dataset))

revenue_growth_rate(current, previous) ==
  Quantize((total_revenue(current) - total_revenue(previous)) * Hundred, total_revenue(previous))

(* What calculate_kpis raises, in the order in which it calculates: the     *)
(* current period alone first, its margin, then the previous period, whose  *)
(* costs nobody reads, and the growth.  A cost or a growth that is out of   *)
(* all proportion does not fit, and nothing translates that.                *)
RaisesForTheCurrent(current, previous) ==
  IF ~ValidColumn(current, "revenue") \/ ~ValidColumn(current, "cost")
    THEN "InvalidDatasetError"
  ELSE IF total_revenue(current) = 0 THEN "UndefinedMetricError"
  ELSE IF ~Fits(profit_margin(current)) THEN "InvalidOperation"
  ELSE IF ~ValidColumn(previous, "revenue") THEN "InvalidDatasetError"
  ELSE IF total_revenue(previous) = 0 THEN "nothing"
  ELSE IF ~Fits(revenue_growth_rate(current, previous)) THEN "InvalidOperation"
  ELSE "nothing"

Raises(current, previous) ==
  IF ~ValidColumn(current, "revenue") \/ ~ValidColumn(current, "cost")
    THEN "InvalidDatasetError"
  ELSE IF total_revenue(current) = 0 THEN "UndefinedMetricError"
  ELSE IF ~Fits(profit_margin(current)) THEN "InvalidOperation"
  ELSE IF ~ValidColumn(previous, "revenue") THEN "InvalidDatasetError"
  ELSE IF total_revenue(previous) = 0 THEN "UndefinedMetricError"
  ELSE IF ~Fits(revenue_growth_rate(current, previous)) THEN "InvalidOperation"
  ELSE "nothing"

calculate_kpis(current, previous) ==
  [total_revenue |-> total_revenue(current),
   total_profit |-> total_profit(current),
   total_cost |-> total_cost(current),
   average_order_value |-> average_order_value(current),
   profit_margin |-> profit_margin(current),
   revenue_growth_rate |-> revenue_growth_rate(current, previous)]
=============================================================================
