------------------------------ MODULE Decimals ------------------------------
(***************************************************************************)
(* The decimal arithmetic of the business tools.  An amount is an integer   *)
(* number of its smallest unit (a cent, a hundredth of a percent, a ten     *)
(* thousandth); an intermediate result is a fraction n / d, d > 0, that is  *)
(* rounded once, at the end: the fifty digits of a quotient before that are *)
(* taken as exact.  That a result may need more of them is not.             *)
(***************************************************************************)
EXTENDS Integers, FiniteSets, SequencesExt

CONSTANT Limit   \* the least number of more digits than DECIMAL_PRECISION

(* Decimal.quantize with ROUND_HALF_EVEN: the nearest integer to n / d, of  *)
(* two the even one.                                                        *)
Quantize(n, d) ==
  LET below == n \div d
      twice == 2 * (n % d)
  IN IF twice > d \/ (twice = d /\ below % 2 = 1) THEN below + 1 ELSE below

(* quantize raises InvalidOperation for a result that does not fit. *)
Fits(n) == -Limit < n /\ n < Limit

(* sum, a fold; as a recursive function TLC evaluates it in linear time *)
Total(amounts) ==
  LET sum[i \in 0 .. Len(amounts)] == IF i = 0 THEN 0 ELSE sum[i - 1] + amounts[i]
  IN sum[Len(amounts)]

Hundred == 10000   \* one hundred percent, in hundredths of a percent
=============================================================================
