--------------------------- MODULE MarketingTools ---------------------------
(***************************************************************************)
(* tools/marketing_tools.py, on the rows that the Finance tools read too.   *)
(* A name is a pair of a text and the blanks around it; a text is its place *)
(* in the alphabet, 0 if it is empty.                                       *)
(***************************************************************************)
EXTENDS Decimals

CONSTANTS
  Missing,       \* a column that is absent, true, null or not finite
  Text,          \* a decimal string, the form of an amount in docs/api.md
  SegmentLimit   \* DEFAULT_SEGMENT_LIMIT

strip(name) == name[1]
IsBlank(name) == strip(name) = 0

to_money(value) == Quantize(value, 10)
IsMoney(value) == value \notin {Missing, Text} /\ value >= 0 /\ Fits(to_money(value))

(* _orders: the normalized rows; raises for an empty dataset or a bad row. *)
ValidOrders(dataset) ==
  /\ dataset # <<>>
  /\ \A i \in DOMAIN dataset :
       ~IsBlank(dataset[i].customer) /\ ~IsBlank(dataset[i].segment) /\ IsMoney(dataset[i].revenue)

orders(dataset) ==
  [i \in DOMAIN dataset |->
     [customer |-> strip(dataset[i].customer),
      revenue |-> to_money(dataset[i].revenue),
      segment |-> strip(dataset[i].segment)]]

customers(rows) == {rows[i].customer : i \in DOMAIN rows}
percentage(n, d) == Quantize(n * Hundred, d)

average_order_value(rows) ==
  Quantize(Total([i \in DOMAIN rows |-> rows[i].revenue]), Len(rows))

revenue_by_segment(rows) ==
  [s \in {rows[i].segment : i \in DOMAIN rows} |->
     Total([i \in DOMAIN rows |-> IF rows[i].segment = s THEN rows[i].revenue ELSE 0])]

Repeats(rows) ==
  {c \in customers(rows) : \E i, j \in DOMAIN rows : i # j /\ rows[i].customer = c /\ rows[j].customer = c}

repeat_customer_rate(rows) == percentage(Cardinality(Repeats(rows)), Cardinality(customers(rows)))

(* top_segments: by falling revenue, equal ones by the alphabet; the k-th    *)
(* has k - 1 before it                                                      *)
top_segments(totals) ==
  LET Before(s, t) == totals[s] > totals[t] \/ (totals[s] = totals[t] /\ s < t)
      rank(s) == Cardinality({t \in DOMAIN totals : Before(t, s)}) + 1
      n == Cardinality(DOMAIN totals)
  IN [k \in 1 .. (IF n < SegmentLimit THEN n ELSE SegmentLimit) |->
        CHOOSE s \in DOMAIN totals : rank(s) = k]

customer_growth(now, before) ==
  percentage(Cardinality(customers(now)) - Cardinality(customers(before)),
             Cardinality(customers(before)))

retention_rate(now, before) ==
  percentage(Cardinality(customers(now) \cap customers(before)), Cardinality(customers(before)))

Raises(current, previous) ==
  IF ValidOrders(current) /\ ValidOrders(previous) THEN "nothing" ELSE "InvalidDatasetError"

calculate_marketing_kpis(current, previous) ==
  LET now == orders(current)
      before == orders(previous)
      retention == retention_rate(now, before)
      totals == revenue_by_segment(now)
  IN [customer_count |-> Cardinality(customers(now)),
      repeat_customer_rate |-> repeat_customer_rate(now),
      average_order_value |-> average_order_value(now),
      customer_growth |-> customer_growth(now, before),
      retention_rate |-> retention,
      churn_rate |-> Hundred - retention,
      top_segments |-> top_segments(totals),
      revenue_by_segment |-> totals]
=============================================================================
