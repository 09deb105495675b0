------------------------ MODULE BusinessToolsProofs ------------------------
(***************************************************************************)
(* Proofs about BusinessTools for requests and series of any length, any    *)
(* amounts and any defaults of the tools: which requests are answered and   *)
(* that they can be, and what two tools report on the same orders or one on *)
(* the same series agrees.                                                  *)
(*   Decimals    how Quantize rounds and what a Total is                    *)
(*   the slope   its denominator, from the sums of indices and squares      *)
(*   Finance     the columns of a period, its margin and its growth         *)
(*   Marketing   orders, customers, ranks and the totals of the segments    *)
(*   statistics  variances, forecasts, averages, intervals and seasons      *)
(*   the tools   what each of them accepts, and that the figures agree      *)
(***************************************************************************)
EXTENDS BusinessTools, InductionLemmas, SequenceTheorems

(* A sum grows from zero by one amount after the other, and only one function *)
(* does.                                                                      *)
Grows(f, n, a) == f[0] = 0 /\ \A i \in 1 .. n : f[i] = f[i - 1] + a[i]

LEMMA GrowAlike ==
  ASSUME NEW n \in Nat, NEW a, NEW f, NEW g, Grows(f, n, a), Grows(g, n, a)
  PROVE  f[n] = g[n]
<1>1. f[0] = 0 /\ \A i \in 1 .. n : f[i] = f[i - 1] + a[i]
  BY DEF Grows
<1>2. g[0] = 0 /\ \A i \in 1 .. n : g[i] = g[i - 1] + a[i]
  BY DEF Grows
<1>3. f[0] = g[0]
  BY <1>1, <1>2
<1>4. ASSUME NEW i \in 1 .. n, f[i - 1] = g[i - 1] PROVE f[i] = g[i]
  BY <1>1, <1>2, <1>4
<1>5. Alike(f, g, n)
  BY <1>3, <1>4 DEF Alike
<1>6. \A i \in 0 .. n : f[i] = g[i]
  BY <1>5, StepwiseEqual
<1> QED
  BY <1>6

Sums(f, n, a) == f = [i \in 0 .. n |-> IF i = 0 THEN 0 ELSE f[i - 1] + a[i]]

LEMMA SumsGrow ==
  ASSUME NEW n \in Nat, NEW a, NEW f, Sums(f, n, a)
  PROVE  Grows(f, n, a)
<1>1. \A i \in 0 .. n : f[i] = IF i = 0 THEN 0 ELSE f[i - 1] + a[i]
  BY DEF Sums
<1>2. 0 \in 0 .. n /\ \A i \in 1 .. n : i \in 0 .. n /\ i # 0
  OBVIOUS
<1> QED
  BY <1>1, <1>2, Zenon DEF Grows

(* Total is the last of a function of partial sums. *)
LEMMA TotalUnfolds ==
  ASSUME NEW n \in Nat, NEW a \in [1 .. n -> Int]
  PROVE  \E f \in [0 .. n -> Int] :
            f[0] = 0 /\ (\A i \in 1 .. n : f[i] = f[i - 1] + a[i]) /\ Total(a) = f[n]
<1> DEFINE step == [p \in (1 .. n) \X Int |-> p[2] + a[p[1]]]
           sum == CHOOSE f : Sums(f, Len(a), a)
<1>1. Len(a) = n
  OBVIOUS
<1>2. step \in [(1 .. n) \X Int -> Int]
  OBVIOUS
<1>3. \A i \in 1 .. n, x \in Int : step[<<i, x>>] = x + a[i]
  OBVIOUS
<1>4. Total(a) = sum[Len(a)]
  BY DEF Total, Sums
<1> HIDE DEF step
<1>5. PICK f \in [0 .. n -> Int] : Recurrence(f, n, 0, step)
  <2>1. 0 \in Int
    OBVIOUS
  <2> QED
    BY <1>2, <2>1, RecurrenceSolved
<1>6. \A i \in 0 .. n : f[i] = IF i = 0 THEN 0 ELSE f[i - 1] + a[i]
  <2> SUFFICES ASSUME NEW i \in 0 .. n PROVE f[i] = IF i = 0 THEN 0 ELSE f[i - 1] + a[i]
    OBVIOUS
  <2>1. i # 0 => i \in 1 .. n /\ f[i - 1] \in Int
    OBVIOUS
  <2> QED
    BY <1>3, <1>5, <2>1 DEF Recurrence
<1>7. Sums(f, n, a)
  BY <1>6 DEF Sums
<1>8. Sums(sum, n, a)
  BY <1>1, <1>7, Zenon
<1> HIDE DEF sum
<1>9. Grows(f, n, a) /\ Grows(sum, n, a)
  BY <1>7, <1>8, SumsGrow
<1>10. f[n] = sum[n]
  BY <1>9, GrowAlike
<1> QED
  BY <1>1, <1>4, <1>9, <1>10 DEF Grows

(* A sum of amounts that are not negative is zero just if all of them are. *)
LEMMA TotalOfNaturals ==
  ASSUME NEW n \in Nat, NEW a \in [1 .. n -> Nat]
  PROVE  Total(a) \in Nat /\ (Total(a) = 0 <=> \A i \in 1 .. n : a[i] = 0)
<1>1. a \in [1 .. n -> Int]
  OBVIOUS
<1>2. PICK f \in [0 .. n -> Int] :
        f[0] = 0 /\ (\A i \in 1 .. n : f[i] = f[i - 1] + a[i]) /\ Total(a) = f[n]
  BY <1>1, TotalUnfolds
<1> DEFINE S == {m \in 0 .. n : f[m] \in Nat /\ (f[m] = 0 <=> \A i \in 1 .. m : a[i] = 0)}
<1>3. 0 \in S
  BY <1>2
<1>4. ASSUME NEW m \in 1 .. n, m - 1 \in S PROVE m \in S
  <2>1. f[m] = f[m - 1] + a[m] /\ a[m] \in Nat /\ f[m - 1] \in Nat
    BY <1>2, <1>4
  <2>2. \A i \in 1 .. m : i = m \/ i \in 1 .. (m - 1)
    OBVIOUS
  <2>3. \A i \in 1 .. (m - 1) : i \in 1 .. m
    OBVIOUS
  <2>4. f[m] = 0 <=> f[m - 1] = 0 /\ a[m] = 0
    BY <2>1
  <2>5. f[m - 1] = 0 <=> \A i \in 1 .. (m - 1) : a[i] = 0
    BY <1>4
  <2>6. m \in 1 .. m /\ m \in 0 .. n
    OBVIOUS
  <2>7. f[m] \in Nat
    BY <2>1
  <2>8. f[m] = 0 <=> \A i \in 1 .. m : a[i] = 0
    BY <2>2, <2>3, <2>4, <2>5, <2>6
  <2> QED
    BY <2>6, <2>7, <2>8
<1> HIDE DEF S
<1>5. 0 .. n \subseteq S
  BY <1>3, <1>4, BoundedInduction
<1>6. n \in S
  BY <1>5
<1> QED
  BY <1>2, <1>6 DEF S

(* Decimal.quantize: no integer is nearer to n / d than the result, and of   *)
(* two that are as near it is the even one.                                  *)
THEOREM RoundsToNearest ==
  ASSUME NEW n \in Int, NEW d \in Nat \ {0}
  PROVE  LET q == Quantize(n, d)
         IN /\ q \in Int
            /\ 2 * (n - d * q) <= d /\ 2 * (d * q - n) <= d
            /\ 2 * (n - d * q) = d \/ 2 * (d * q - n) = d => q % 2 = 0
<1>1. PICK below \in Int, rest \in Int :
        below = n \div d /\ rest = n % d /\ n = d * below + rest /\ 0 <= rest /\ rest < d
  OBVIOUS
<1>2. PICK q : q = Quantize(n, d)
  OBVIOUS
<1>3. q = IF 2 * rest > d \/ (2 * rest = d /\ below % 2 = 1) THEN below + 1 ELSE below
  BY <1>1, <1>2 DEF Quantize
<1>4. PICK m \in Int : m = d * below
  BY <1>1
<1>5. d * (below + 1) = m + d
  BY <1>1, <1>4
<1>6. CASE 2 * rest > d \/ (2 * rest = d /\ below % 2 = 1)
  <2>1. q = below + 1 /\ d * q = m + d
    BY <1>3, <1>5, <1>6
  <2>2. 2 * (n - d * q) = 2 * rest - 2 * d /\ 2 * (d * q - n) = 2 * d - 2 * rest
    BY <1>1, <1>4, <2>1
  <2>3. below % 2 = 1 => (below + 1) % 2 = 0
    BY <1>1
  <2> QED
    BY <1>1, <1>2, <1>6, <2>1, <2>2, <2>3
<1>7. CASE ~(2 * rest > d \/ (2 * rest = d /\ below % 2 = 1))
  <2>1. q = below /\ d * q = m
    BY <1>3, <1>4, <1>7
  <2>2. 2 * (n - d * q) = 2 * rest /\ 2 * (d * q - n) = 0 - 2 * rest
    BY <1>1, <1>4, <2>1
  <2>3. below % 2 = 0 \/ below % 2 = 1
    BY <1>1
  <2> QED
    BY <1>1, <1>2, <1>7, <2>1, <2>2, <2>3
<1> QED
  BY <1>6, <1>7

Nearest(q, n, d) ==
  /\ q \in Int
  /\ 2 * (n - d * q) <= d /\ 2 * (d * q - n) <= d
  /\ 2 * (n - d * q) = d \/ 2 * (d * q - n) = d => q % 2 = 0

(* Products keep the order of integers. *)
LEMMA Ordered ==
  ASSUME NEW d \in Nat \ {0}, NEW p \in Int, NEW q \in Int, p < q
  PROVE  d * p \in Int /\ d * q \in Int /\ d * p + d <= d * q
<1>1. PICK k \in Nat : q = p + 1 + k
  <2>1. q - p - 1 \in Nat /\ q = p + 1 + (q - p - 1)
    OBVIOUS
  <2> QED
    BY <2>1
<1>2. d * k >= 0 /\ d * k \in Int
  OBVIOUS
<1>3. d * q = d * p + d + d * k
  BY <1>1
<1> QED
  BY <1>2, <1>3

(* Of two fractions the greater is rounded no lower, and one is rounded in *)
(* one way.                                                               *)
LEMMA NearestOrdered ==
  ASSUME NEW n \in Int, NEW m \in Int, n <= m, NEW d \in Nat \ {0}, NEW p, NEW q,
         Nearest(p, n, d), Nearest(q, m, d)
  PROVE  p <= q
<1> SUFFICES ASSUME q < p PROVE FALSE
  BY DEF Nearest
<1>1. p \in Int /\ q \in Int
  BY DEF Nearest
<1>2. PICK a \in Int, b \in Int : a = d * q /\ b = d * p /\ a + d <= b
  BY <1>1, Ordered
<1>3. /\ 2 * (n - b) <= d /\ 2 * (b - n) <= d /\ 2 * (m - a) <= d /\ 2 * (a - m) <= d
      /\ 2 * (b - n) = d => p % 2 = 0
      /\ 2 * (m - a) = d => q % 2 = 0
  BY <1>2 DEF Nearest
<1>4. p % 2 = 0 /\ q % 2 = 0 /\ b = a + d
  BY <1>1, <1>2, <1>3
<1>5. p = q + 1
  <2> SUFFICES ASSUME q + 1 < p PROVE FALSE
    BY <1>1
  <2>1. d * (q + 1) + d <= d * p /\ d * (q + 1) = a + d
    BY <1>1, <1>2, Ordered
  <2> QED
    BY <1>2, <1>4, <2>1
<1> QED
  BY <1>1, <1>4, <1>5

LEMMA NearestOnly ==
  ASSUME NEW n \in Int, NEW d \in Nat \ {0}, NEW p, NEW q, Nearest(p, n, d), Nearest(q, n, d)
  PROVE  p = q
<1>1. p <= q /\ q <= p /\ p \in Int /\ q \in Int
  BY NearestOrdered DEF Nearest
<1> QED
  BY <1>1

LEMMA Rounded ==
  ASSUME NEW n \in Int, NEW d \in Nat \ {0}
  PROVE  Nearest(Quantize(n, d), n, d)
BY RoundsToNearest DEF Nearest

LEMMA RoundedOrder ==
  ASSUME NEW n \in Int, NEW m \in Int, n <= m, NEW d \in Nat \ {0}
  PROVE  Quantize(n, d) \in Int /\ Quantize(m, d) \in Int /\ Quantize(n, d) <= Quantize(m, d)
BY Rounded, NearestOrdered DEF Nearest

(* Whole numbers are kept and may be taken out, even ones without changing *)
(* which of two is even.                                                   *)
LEMMA RoundedWhole ==
  ASSUME NEW k \in Int, NEW d \in Nat \ {0}
  PROVE  k * d \in Int /\ Quantize(k * d, d) = k
<1>1. PICK m \in Int : m = k * d /\ m = d * k
  OBVIOUS
<1>2. Nearest(k, m, d)
  BY <1>1 DEF Nearest
<1> QED
  BY <1>1, <1>2, Rounded, NearestOnly

LEMMA RoundedBounds ==
  ASSUME NEW n \in Int, NEW d \in Nat \ {0}, NEW k \in Int
  PROVE  (k * d <= n => k <= Quantize(n, d)) /\ (n <= k * d => Quantize(n, d) <= k)
<1>1. PICK m \in Int : m = k * d
  BY RoundedWhole
<1>2. Quantize(m, d) = k
  BY <1>1, RoundedWhole
<1> QED
  BY <1>1, <1>2, RoundedOrder

LEMMA RoundedShift ==
  ASSUME NEW n \in Int, NEW d \in Nat \ {0}, NEW k \in Int, k % 2 = 0
  PROVE  Quantize(n + k * d, d) = Quantize(n, d) + k
<1>1. PICK q \in Int : q = Quantize(n, d) /\ Nearest(q, n, d)
  BY Rounded DEF Nearest
<1>2. PICK m \in Int, a \in Int : m = k * d /\ a = d * q
  BY <1>1, RoundedWhole
<1>3. d * (q + k) = a + m
  BY <1>2
<1>4. q % 2 = 0 => (q + k) % 2 = 0
  OBVIOUS
<1>5. /\ 2 * (n - a) <= d /\ 2 * (a - n) <= d
      /\ 2 * (n - a) = d \/ 2 * (a - n) = d => q % 2 = 0
  BY <1>1, <1>2 DEF Nearest
<1>6. Nearest(q + k, n + m, d)
  BY <1>2, <1>3, <1>4, <1>5 DEF Nearest
<1>7. n + m \in Int /\ Nearest(Quantize(n + m, d), n + m, d)
  BY Rounded
<1> QED
  BY <1>1, <1>2, <1>6, <1>7, NearestOnly

LEMMA RoundedOpposite ==
  ASSUME NEW n \in Int, NEW d \in Nat \ {0}
  PROVE  Quantize(-n, d) = -Quantize(n, d)
<1>1. PICK q \in Int : q = Quantize(n, d) /\ Nearest(q, n, d)
  BY Rounded DEF Nearest
<1>2. PICK a \in Int : a = d * q
  OBVIOUS
<1>3. d * (-q) = -a
  BY <1>2
<1>4. q % 2 = 0 => (-q) % 2 = 0
  OBVIOUS
<1>5. /\ 2 * (n - a) <= d /\ 2 * (a - n) <= d
      /\ 2 * (n - a) = d \/ 2 * (a - n) = d => q % 2 = 0
  BY <1>1, <1>2 DEF Nearest
<1>6. Nearest(-q, -n, d)
  BY <1>3, <1>4, <1>5 DEF Nearest
<1>7. -n \in Int /\ Nearest(Quantize(-n, d), -n, d)
  BY Rounded
<1> QED
  BY <1>1, <1>6, <1>7, NearestOnly

(* to_money: an amount of up to half a cent is rounded to nothing. *)
LEMMA MoneyRounds ==
  ASSUME NEW v \in Nat
  PROVE  Quantize(v, 10) \in Nat /\ (Quantize(v, 10) > 0 <=> v > 5)
BY DEF Quantize

(* Sums, by the way they grow *)
LEMMA TotalIs ==
  ASSUME NEW n \in Nat, NEW a \in [1 .. n -> Int], NEW g, g[0] = 0,
         \A i \in 1 .. n : g[i] = g[i - 1] + a[i]
  PROVE  Total(a) = g[n]
<1>1. PICK f : Grows(f, n, a) /\ Total(a) = f[n]
  BY TotalUnfolds DEF Grows
<1>2. Grows(g, n, a)
  BY DEF Grows
<1> QED
  BY <1>1, <1>2, GrowAlike

(* c is a combination of a and b. *)
Combines(c, n, j, a, k, b) == \A i \in 1 .. n : c[i] = j * a[i] + k * b[i]

LEMMA TotalLinear ==
  ASSUME NEW n \in Nat, NEW a \in [1 .. n -> Int], NEW b \in [1 .. n -> Int], NEW c \in [1 .. n -> Int],
         NEW j \in Int, NEW k \in Int, Combines(c, n, j, a, k, b)
  PROVE  Total(a) \in Int /\ Total(b) \in Int /\ Total(c) = j * Total(a) + k * Total(b)
<1>1. PICK f \in [0 .. n -> Int] :
        f[0] = 0 /\ (\A i \in 1 .. n : f[i] = f[i - 1] + a[i]) /\ Total(a) = f[n]
  BY TotalUnfolds
<1>2. PICK g \in [0 .. n -> Int] :
        g[0] = 0 /\ (\A i \in 1 .. n : g[i] = g[i - 1] + b[i]) /\ Total(b) = g[n]
  BY TotalUnfolds
<1> DEFINE h == [i \in 0 .. n |-> j * f[i] + k * g[i]]
<1>3. h[0] = 0
  BY <1>1, <1>2
<1>4. ASSUME NEW i \in 1 .. n PROVE h[i] = h[i - 1] + c[i]
  <2>1. i \in 0 .. n /\ i - 1 \in 0 .. n
    OBVIOUS
  <2>2. PICK x \in Int, y \in Int, u \in Int, v \in Int : x = f[i - 1] /\ y = g[i - 1] /\ u = a[i] /\ v = b[i]
    BY <2>1
  <2>3. f[i] = x + u /\ g[i] = y + v /\ c[i] = j * u + k * v
    BY <1>1, <1>2, <2>2 DEF Combines
  <2>4. j * (x + u) + k * (y + v) = (j * x + k * y) + (j * u + k * v)
    OBVIOUS
  <2>5. h[i] = j * f[i] + k * g[i] /\ h[i - 1] = j * f[i - 1] + k * g[i - 1]
    BY <2>1
  <2> HIDE DEF h
  <2> QED
    BY <2>2, <2>3, <2>4, <2>5
<1>5. h[n] = j * f[n] + k * g[n]
  OBVIOUS
<1> HIDE DEF h
<1>6. Total(c) = h[n]
  BY <1>3, <1>4, TotalIs
<1> QED
  BY <1>1, <1>2, <1>5, <1>6

LEMMA TotalDifference ==
  ASSUME NEW n \in Nat, NEW a \in [1 .. n -> Int], NEW b \in [1 .. n -> Int]
  PROVE  /\ Total(a) \in Int /\ Total(b) \in Int
         /\ Total([i \in 1 .. n |-> a[i] - b[i]]) = Total(a) - Total(b)
<1>1. PICK c, j, k : c = [i \in 1 .. n |-> a[i] - b[i]] /\ j = 1 /\ k = -1
  OBVIOUS
<1>2. j \in Int /\ k \in Int /\ c \in [1 .. n -> Int]
  BY <1>1
<1>3. Combines(c, n, j, a, k, b)
  BY <1>1 DEF Combines
<1>4. Total(a) \in Int /\ Total(b) \in Int
  BY TotalUnfolds
<1>5. Total(c) = j * Total(a) + k * Total(b)
  BY <1>2, <1>3, TotalLinear, SMTT(30)
<1> QED
  BY <1>1, <1>4, <1>5

LEMMA TotalOrder ==
  ASSUME NEW n \in Nat, NEW a \in [1 .. n -> Int], NEW b \in [1 .. n -> Int],
         \A i \in 1 .. n : a[i] <= b[i]
  PROVE  /\ Total(a) \in Int /\ Total(b) \in Int /\ Total(a) <= Total(b)
         /\ Total(a) = Total(b) <=> \A i \in 1 .. n : a[i] = b[i]
<1>1. PICK c : c = [i \in 1 .. n |-> b[i] - a[i]]
  OBVIOUS
<1>2. /\ c \in [1 .. n -> Nat] /\ c \in [1 .. n -> Int]
      /\ \A i \in 1 .. n : c[i] = 0 <=> a[i] = b[i]
  BY <1>1
<1>3. Total(a) \in Int /\ Total(b) \in Int /\ Total(c) = Total(b) - Total(a)
  BY <1>1, TotalDifference
<1>4. Total(c) \in Nat /\ (Total(c) = 0 <=> \A i \in 1 .. n : c[i] = 0)
  BY <1>2, TotalOfNaturals
<1> QED
  BY <1>2, <1>3, <1>4

LEMMA TotalSame ==
  ASSUME NEW n \in Nat, NEW a \in [1 .. n -> Int], NEW k \in Int, \A i \in 1 .. n : a[i] = k
  PROVE  Total(a) = n * k
<1> DEFINE g == [i \in 0 .. n |-> i * k]
<1>1. g[0] = 0 /\ g[n] = n * k
  OBVIOUS
<1>2. ASSUME NEW i \in 1 .. n PROVE g[i] = g[i - 1] + a[i]
  <2>1. i * k = (i - 1) * k + k
    OBVIOUS
  <2>2. i - 1 \in 0 .. n /\ i \in 0 .. n
    OBVIOUS
  <2> QED
    BY <2>1, <2>2
<1> HIDE DEF g
<1> QED
  BY <1>1, <1>2, TotalIs

(* The order of the amounts does not matter. *)
LEMMA TotalReversed ==
  ASSUME NEW n \in Nat, NEW a \in [1 .. n -> Int], NEW b \in [1 .. n -> Int],
         \A i \in 1 .. n : b[i] = a[(n - i) + 1]
  PROVE  Total(b) = Total(a)
<1>1. PICK f \in [0 .. n -> Int] :
        f[0] = 0 /\ (\A i \in 1 .. n : f[i] = f[i - 1] + a[i]) /\ Total(a) = f[n]
  BY TotalUnfolds
<1> DEFINE g == [i \in 0 .. n |-> f[n] - f[n - i]]
<1>2. g[0] = 0 /\ g[n] = f[n]
  BY <1>1
<1>3. ASSUME NEW i \in 1 .. n PROVE g[i] = g[i - 1] + b[i]
  <2>1. (n - i) + 1 \in 1 .. n /\ n - i \in 0 .. n /\ ((n - i) + 1) - 1 = n - i /\ n - (i - 1) = (n - i) + 1
    OBVIOUS
  <2>2. f[(n - i) + 1] = f[n - i] + b[i]
    BY <1>1, <2>1
  <2>3. g[i] = f[n] - f[n - i] /\ g[i - 1] = f[n] - f[n - (i - 1)]
    OBVIOUS
  <2>4. f[n - i] \in Int /\ f[n] \in Int /\ b[i] \in Int
    BY <2>1
  <2> HIDE DEF g
  <2> QED
    BY <2>1, <2>2, <2>3, <2>4
<1> HIDE DEF g
<1>4. Total(b) = g[n]
  BY <1>2, <1>3, TotalIs
<1> QED
  BY <1>1, <1>2, <1>4

-----------------------------------------------------------------------------
(* The sums behind the slope: of the first indices, and of their squares. *)
LEMMA IndicesTotal ==
  ASSUME NEW n \in Nat, NEW a \in [1 .. n -> Int], \A i \in 1 .. n : a[i] = i - 1
  PROVE  Total(a) \in Int /\ 2 * Total(a) = n * (n - 1)
<1>1. PICK f \in [0 .. n -> Int] :
        f[0] = 0 /\ (\A i \in 1 .. n : f[i] = f[i - 1] + a[i]) /\ Total(a) = f[n]
  BY TotalUnfolds
<1> DEFINE S == {m \in 0 .. n : 2 * f[m] = m * (m - 1)}
<1>2. 0 \in S
  BY <1>1
<1>3. ASSUME NEW m \in 1 .. n, m - 1 \in S PROVE m \in S
  <2>1. PICK before \in Int : before = f[m - 1]
    BY <1>1
  <2>2. PICK now \in Int : now = f[m]
    BY <1>1
  <2>3. now = before + (m - 1)
    BY <1>1, <2>1, <2>2
  <2>4. 2 * before = (m - 1) * ((m - 1) - 1)
    BY <1>3, <2>1
  <2>5. 2 * now = m * (m - 1)
    BY <2>3, <2>4
  <2> QED
    BY <2>2, <2>5
<1> HIDE DEF S
<1>4. 0 .. n \subseteq S
  BY <1>2, <1>3, BoundedInduction
<1>5. n \in S
  BY <1>4
<1> QED
  BY <1>1, <1>5 DEF S

(* The squares of the first n indices: n (n - 1) (2n - 1) is six times their *)
(* sum.                                                                       *)
LEMMA SquaresTotal ==
  ASSUME NEW n \in Nat, NEW a \in [1 .. n -> Int], \A i \in 1 .. n : a[i] = (i - 1) * (i - 1)
  PROVE  Total(a) \in Int /\ 6 * Total(a) = n * (n - 1) * (2 * n - 1)
<1>1. PICK f \in [0 .. n -> Int] :
        f[0] = 0 /\ (\A i \in 1 .. n : f[i] = f[i - 1] + a[i]) /\ Total(a) = f[n]
  BY TotalUnfolds
<1> DEFINE S == {m \in 0 .. n : 6 * f[m] = m * (m - 1) * (2 * m - 1)}
<1>2. 0 \in S
  BY <1>1
<1>3. ASSUME NEW m \in 1 .. n, m - 1 \in S PROVE m \in S
  <2>1. PICK before \in Int : before = f[m - 1]
    BY <1>1
  <2>2. PICK now \in Int : now = f[m]
    BY <1>1
  <2>3. now = before + (m - 1) * (m - 1)
    BY <1>1, <2>1, <2>2
  <2>4. 6 * before = (m - 1) * ((m - 1) - 1) * (2 * (m - 1) - 1)
    BY <1>3, <2>1
  <2>5. 6 * now = m * (m - 1) * (2 * m - 1)
    <3>1. 6 * ((m - 1) * (m - 1)) + (m - 1) * ((m - 1) - 1) * (2 * (m - 1) - 1) = m * (m - 1) * (2 * m - 1)
      OBVIOUS
    <3>2. 6 * now = 6 * before + 6 * ((m - 1) * (m - 1))
      BY <2>3
    <3> QED
      BY <2>4, <3>1, <3>2
  <2> QED
    BY <2>2, <2>5
<1> HIDE DEF S
<1>4. 0 .. n \subseteq S
  BY <1>2, <1>3, BoundedInduction
<1>5. n \in S
  BY <1>4
<1> QED
  BY <1>1, <1>5 DEF S

(* _linear_slope never divides by zero: n^2 (n^2 - 1) is twelve times its   *)
(* denominator.                                                             *)
LEMMA SlopeDefined ==
  ASSUME NEW s, NEW n \in Nat, n >= 2, Len(s) = n, DOMAIN s = 1 .. n
  PROVE  DataScientist!SlopeDenominator(s) > 0
<1> DEFINE x == [i \in 1 .. n |-> i - 1]
           xx == [i \in DOMAIN x |-> x[i] * x[i]]
<1>1. x \in [1 .. n -> Int] /\ xx \in [1 .. n -> Int] /\ Len(x) = n
  OBVIOUS
<1>2. DataScientist!SlopeDenominator(s) = n * Total(xx) - Total(x) * Total(x)
  <2>1. DataScientist!Indices(s) = x
    BY DEF DataScientist!Indices
  <2>2. \A a : DataScientist!Total(a) = Total(a)
    BY Zenon DEF Total, DataScientist!Total
  <2>3. DataScientist!Product(x, x) = Total(xx)
    BY <2>2, Zenon DEF DataScientist!Product
  <2> HIDE DEF x, xx
  <2>4. DataScientist!SlopeDenominator(s) = DataScientist!Codeviation(x, x)
    BY <2>1, Zenon DEF DataScientist!SlopeDenominator
  <2> QED
    BY <1>1, <2>2, <2>3, <2>4, Zenon DEF DataScientist!Codeviation
<1>3. \A i \in 1 .. n : x[i] = i - 1 /\ xx[i] = (i - 1) * (i - 1)
  OBVIOUS
<1> HIDE DEF x, xx
<1>4. Total(x) \in Int /\ 2 * Total(x) = n * (n - 1)
  BY <1>1, <1>3, IndicesTotal
<1>5. Total(xx) \in Int /\ 6 * Total(xx) = n * (n - 1) * (2 * n - 1)
  BY <1>1, <1>3, SquaresTotal
<1>6. PICK t \in Int, q \in Int : t = Total(x) /\ q = Total(xx)
  BY <1>4, <1>5
<1>7. 12 * (n * q - t * t) = (n * n) * ((n - 1) * (n + 1))
  <2>1. PICK w \in Int : w = n * (n - 1)
    OBVIOUS
  <2>2. 2 * t = w /\ 6 * q = w * (2 * n - 1)
    BY <1>4, <1>5, <1>6, <2>1
  <2>3. 12 * (n * q) = 2 * (n * (6 * q)) /\ 12 * (t * t) = 3 * ((2 * t) * (2 * t))
    BY <1>6
  <2>4. 12 * (n * q - t * t) = 2 * (n * (w * (2 * n - 1))) - 3 * (w * w)
    <3>1. 12 * (n * q - t * t) = 12 * (n * q) - 12 * (t * t)
      OBVIOUS
    <3> QED
      BY <2>2, <2>3, <3>1
  <2>5. 2 * (n * (w * (2 * n - 1))) - 3 * (w * w) = w * (n * (n + 1))
    <3>1. 2 * (n * (w * (2 * n - 1))) - 3 * (w * w) = w * (2 * (n * (2 * n - 1)) - 3 * w)
      OBVIOUS
    <3>2. 2 * (n * (2 * n - 1)) - 3 * w = n * (n + 1)
      BY <2>1
    <3> QED
      BY <3>1, <3>2
  <2>6. w * (n * (n + 1)) = (n * n) * ((n - 1) * (n + 1))
    BY <2>1
  <2> QED
    BY <2>4, <2>5, <2>6
<1>8. (n * n) * ((n - 1) * (n + 1)) > 0
  <2>1. n * n > 0 /\ (n - 1) * (n + 1) > 0
    OBVIOUS
  <2>2. \A a, b \in Int : a > 0 /\ b > 0 => a * b > 0
    OBVIOUS
  <2>3. n * n \in Int /\ (n - 1) * (n + 1) \in Int
    OBVIOUS
  <2> QED
    BY <2>1, <2>2, <2>3
<1>9. n * q - t * t > 0
  <2>1. PICK d \in Int : d = n * q - t * t
    BY <1>6
  <2> QED
    BY <1>7, <1>8, <2>1
<1> QED
  BY <1>2, <1>6, <1>9

-----------------------------------------------------------------------------
(* A row's texts are integers, an amount may be missing or a text.           *)
LEMMA RowFields ==
  ASSUME NEW row \in Rows
  PROVE  /\ row["revenue"] = row.revenue /\ row["cost"] = row.cost
         /\ row.revenue \in Revenues \cup {10, -4, 10 * Limit - 5, Text}
         /\ row.cost \in Costs \cup {10, Missing, Text}
         /\ row.customer[1] \in Int /\ row.segment[1] \in Int
<1>1. CASE row \in GoodRows
  <2> DEFINE C == {<<1, "">>, <<1, " ">>, <<2, "">>}
             S == {<<1, "">>, <<2, "">>}
  <2>1. \A u \in {1, 2} : u \in Int
    OBVIOUS
  <2>2. ASSUME NEW c \in C PROVE c[1] \in Int
    <3>1. PICK t, b : c = <<t, b>> /\ t \in {1, 2}
      BY Zenon
    <3>2. c[1] = t
      BY <3>1
    <3> QED
      BY <2>1, <3>1, <3>2, Zenon
  <2>3. ASSUME NEW c \in S PROVE c[1] \in Int
    <3>1. PICK t, b : c = <<t, b>> /\ t \in {1, 2}
      BY Zenon
    <3>2. c[1] = t
      BY <3>1
    <3> QED
      BY <2>1, <3>1, <3>2, Zenon
  <2>4. GoodRows = [customer : C, segment : S, revenue : Revenues, cost : Costs]
    BY DEF GoodRows
  <2> HIDE DEF C, S
  <2>5. row.cost \in Costs /\ row.revenue \in Revenues /\ row.customer \in C /\ row.segment \in S
    BY <1>1, <2>4
  <2> QED
    BY <2>2, <2>3, <2>5
<1>2. CASE row \in BadRows
  <2>1. PICK c, b, s, e, r, k :
          /\ row = Row(<<c, b>>, <<s, e>>, r, k) /\ c \in {0, 1} /\ s \in {0, 1}
          /\ r \in {10, -4, 10 * Limit - 5, Text} /\ k \in {10, Missing, Text}
    BY <1>2, Zenon DEF BadRows
  <2>2. row.revenue = r /\ row.cost = k /\ row.customer = <<c, b>> /\ row.segment = <<s, e>>
    BY <2>1, Zenon DEF Row
  <2>3. row.customer[1] = c /\ row.segment[1] = s
    BY <2>2
  <2> QED
    BY <2>1, <2>2, <2>3
<1> QED
  BY <1>1, <1>2 DEF Rows

(* The tools calculate with the same sums and the same rounding. *)
LEMMA SameSums ==
  /\ \A a : /\ Finance!Total(a) = Total(a) /\ Marketing!Total(a) = Total(a)
            /\ DataScientist!Total(a) = Total(a)
  /\ \A n, d : Finance!Quantize(n, d) = Quantize(n, d) /\ Marketing!Quantize(n, d) = Quantize(n, d)
  /\ \A n : /\ Finance!Fits(n) <=> Fits(n)
            /\ Marketing!Fits(n) <=> Fits(n)
            /\ DataScientist!Fits(n) <=> Fits(n)
  /\ Finance!Hundred = Hundred /\ Marketing!Hundred = Hundred
<1>1. \A a : Finance!Total(a) = Total(a)
  BY Zenon DEF Total, Finance!Total
<1>2. \A a : Marketing!Total(a) = Total(a)
  BY Zenon DEF Total, Marketing!Total
<1>3. \A a : DataScientist!Total(a) = Total(a)
  BY Zenon DEF Total, DataScientist!Total
<1>4. \A n, d : Finance!Quantize(n, d) = Quantize(n, d) /\ Marketing!Quantize(n, d) = Quantize(n, d)
  BY Zenon DEF Quantize, Finance!Quantize, Marketing!Quantize
<1>5. \A n : /\ Finance!Fits(n) <=> Fits(n)
             /\ Marketing!Fits(n) <=> Fits(n)
             /\ DataScientist!Fits(n) <=> Fits(n)
  BY Zenon DEF Fits, Finance!Fits, Marketing!Fits, DataScientist!Fits
<1>6. Finance!Hundred = Hundred /\ Marketing!Hundred = Hundred
  BY DEF Hundred, Finance!Hundred, Marketing!Hundred
<1> QED
  BY <1>1, <1>2, <1>3, <1>4, <1>5, <1>6, Zenon

(* to_money: an amount fits just if it is below half a cent less than Limit. *)
LEMMA MoneyFits ==
  ASSUME NEW v \in Nat
  PROVE  Fits(Quantize(v, 10)) <=> v < 10 * Limit - 5
<1>1. Limit \in Nat \ {0} /\ Limit % 10000 = 0
  BY PrecisionAssumption DEF Hundred
<1>2. Limit % 2 = 0
  BY <1>1
<1>3. Quantize(v, 10) \in Nat /\ (Quantize(v, 10) < Limit <=> v < 10 * Limit - 5)
  BY <1>1, <1>2 DEF Quantize
<1> QED
  BY <1>1, <1>3 DEF Fits

(* The amounts that a row may hold, and which of them the tools read: those   *)
(* whose sums over all rows fit.                                              *)
Amounts == Revenues \cup Costs \cup {10, -4, 10 * Limit - 5, Missing, Text}

LEMMA MoneyIs ==
  ASSUME NEW v \in Amounts
  PROVE  /\ Finance!IsMoney(v) <=> v \in Nat /\ v < 10 * Limit - 5
         /\ Marketing!IsMoney(v) <=> Finance!IsMoney(v)
         /\ Finance!IsMoney(v) => v \in Nat /\ MaxRows * Quantize(v, 10) < Limit
<1>1. Limit \in Nat /\ Revenues \subseteq Nat /\ Costs \subseteq Nat /\ {Missing, Text} \cap Int = {}
  BY ToolsAssumption, PrecisionAssumption
<1>2. Finance!IsMoney(v) <=> v \notin {Missing, Text} /\ v >= 0 /\ Fits(Quantize(v, 10))
  BY SameSums, Zenon DEF Finance!IsMoney, Finance!to_money
<1>3. Marketing!IsMoney(v) <=> v \notin {Missing, Text} /\ v >= 0 /\ Fits(Quantize(v, 10))
  BY SameSums, Zenon DEF Marketing!IsMoney, Marketing!to_money
<1>4. v \notin {Missing, Text} <=> v \in Int
  BY <1>1 DEF Amounts
<1>5. v \in Int => (v \in Nat <=> v >= 0)
  OBVIOUS
<1>6. Finance!IsMoney(v) <=> v \in Nat /\ v < 10 * Limit - 5
  BY <1>2, <1>4, <1>5, MoneyFits
<1>7. ASSUME v \in Nat, v < 10 * Limit - 5 PROVE MaxRows * Quantize(v, 10) < Limit
  <2>1. v \in Revenues \cup Costs \cup {10}
    BY <1>1, <1>7 DEF Amounts
  <2> QED
    BY <2>1, PrecisionAssumption
<1> QED
  BY <1>2, <1>3, <1>6, <1>7

(* total_for_column: valid revenues sum up to nothing just if none of them   *)
(* reaches a cent.                                                           *)
LEMMA RevenueCounts ==
  ASSUME NEW d \in Seq(Rows), Finance!ValidColumn(d, "revenue")
  PROVE  /\ Finance!total_revenue(d) \in Nat
         /\ Finance!total_revenue(d) = 0 <=> ~\E i \in DOMAIN d : d[i].revenue > 5
<1> DEFINE n == Len(d)
           a == [i \in DOMAIN d |-> Finance!to_money(d[i]["revenue"])]
<1>1. n \in Nat /\ DOMAIN d = 1 .. n
  OBVIOUS
<1>2. ASSUME NEW i \in 1 .. n
      PROVE  /\ a[i] \in Nat /\ (a[i] = 0 <=> ~(d[i].revenue > 5))
  <2>1. d[i] \in Rows
    OBVIOUS
  <2>2. d[i].revenue \in Nat /\ d[i]["revenue"] = d[i].revenue
    <3>1. Finance!IsMoney(d[i]["revenue"])
      BY <1>1 DEF Finance!ValidColumn
    <3>2. d[i].revenue \in Amounts /\ d[i]["revenue"] = d[i].revenue
      BY <2>1, RowFields DEF Amounts
    <3> QED
      BY <3>1, <3>2, MoneyIs
  <2>3. a[i] = Quantize(d[i].revenue, 10)
    BY <1>1, <2>2, SameSums DEF Finance!to_money
  <2> HIDE DEF a
  <2>4. Quantize(d[i].revenue, 10) \in Nat /\ (Quantize(d[i].revenue, 10) > 0 <=> d[i].revenue > 5)
    BY <2>2, MoneyRounds
  <2> QED
    BY <2>3, <2>4
<1>3. Finance!total_revenue(d) = Total(a)
  BY SameSums DEF Finance!total_revenue, Finance!total_for_column
<1>4. a = [i \in 1 .. n |-> a[i]]
  BY <1>1
<1> HIDE DEF a, n
<1>5. a \in [1 .. n -> Nat]
  BY <1>2, <1>4
<1>6. Total(a) \in Nat /\ (Total(a) = 0 <=> \A i \in 1 .. n : a[i] = 0)
  BY <1>1, <1>5, TotalOfNaturals
<1> QED
  BY <1>1, <1>2, <1>3, <1>6

-----------------------------------------------------------------------------
(* The amounts of a valid column *)
Column(d, column) == [i \in DOMAIN d |-> Finance!to_money(d[i][column])]

(* total_for_column: the sum of amounts that are natural numbers *)
LEMMA ColumnCounts ==
  ASSUME NEW d \in Seq(Rows), NEW column \in {"revenue", "cost"}, Finance!ValidColumn(d, column)
  PROVE  /\ Column(d, column) \in [1 .. Len(d) -> Nat] /\ Len(d) \in Nat \ {0}
         /\ Finance!total_for_column(d, column) = Total(Column(d, column))
         /\ Total(Column(d, column)) \in Nat
<1>1. Len(d) \in Nat \ {0} /\ DOMAIN d = 1 .. Len(d)
  BY DEF Finance!ValidColumn
<1>2. ASSUME NEW i \in DOMAIN d PROVE Finance!to_money(d[i][column]) \in Nat
  <2>1. d[i] \in Rows /\ Finance!IsMoney(d[i][column])
    BY DEF Finance!ValidColumn
  <2>2. d[i][column] \in Amounts
    BY <2>1, RowFields DEF Amounts
  <2>3. d[i][column] \in Nat
    BY <2>1, <2>2, MoneyIs
  <2>4. Quantize(d[i][column], 10) \in Nat
    BY <2>3, MoneyRounds
  <2> QED
    BY <2>4, SameSums DEF Finance!to_money
<1>3. Column(d, column) \in [1 .. Len(d) -> Nat]
  BY <1>1, <1>2 DEF Column
<1>4. Finance!total_for_column(d, column) = Total(Column(d, column))
  BY SameSums, Zenon DEF Finance!total_for_column, Column
<1> QED
  BY <1>1, <1>3, <1>4, TotalOfNaturals

(* Reverse, index by index *)
LEMMA ReverseIs ==
  ASSUME NEW S, NEW d \in Seq(S)
  PROVE  /\ Reverse(d) \in Seq(S) /\ Len(Reverse(d)) = Len(d)
         /\ DOMAIN d = 1 .. Len(d) /\ DOMAIN Reverse(d) = 1 .. Len(d) /\ Len(d) \in Nat
         /\ \A i \in 1 .. Len(d) : (Len(d) - i) + 1 \in 1 .. Len(d) /\ Reverse(d)[i] = d[(Len(d) - i) + 1]
<1> PICK n \in Nat : n = Len(d)
  OBVIOUS
<1>1. \A i \in 1 .. n : (n - i) + 1 \in 1 .. n
  OBVIOUS
<1>2. Reverse(d) = [i \in 1 .. n |-> d[(n - i) + 1]]
  BY DEF Reverse
<1> QED
  BY <1>1, <1>2

(* total_for_column reads the rows in any order. *)
LEMMA ColumnReversed ==
  ASSUME NEW d \in Seq(Rows), NEW column \in {"revenue", "cost"}, Finance!ValidColumn(d, column)
  PROVE  /\ Finance!ValidColumn(Reverse(d), column)
         /\ Finance!total_for_column(Reverse(d), column) = Finance!total_for_column(d, column)
<1> PICK n, r : n \in Nat /\ n = Len(d) /\ r = Reverse(d)
  OBVIOUS
<1>1. /\ r \in Seq(Rows) /\ Len(r) = n /\ DOMAIN d = 1 .. n /\ DOMAIN r = 1 .. n
      /\ \A i \in 1 .. n : (n - i) + 1 \in 1 .. n /\ r[i] = d[(n - i) + 1]
  BY ReverseIs
<1>2. Finance!ValidColumn(r, column)
  BY <1>1 DEF Finance!ValidColumn
<1>3. /\ Column(d, column) \in [1 .. n -> Int] /\ Column(r, column) \in [1 .. n -> Int]
      /\ Finance!total_for_column(d, column) = Total(Column(d, column))
      /\ Finance!total_for_column(r, column) = Total(Column(r, column))
  BY <1>1, <1>2, ColumnCounts
<1>4. \A i \in 1 .. n : Column(r, column)[i] = Column(d, column)[(n - i) + 1]
  BY <1>1 DEF Column
<1> HIDE DEF Column
<1>5. Total(Column(r, column)) = Total(Column(d, column))
  BY <1>3, <1>4, TotalReversed
<1> QED
  BY <1>2, <1>3, <1>5

-----------------------------------------------------------------------------
(* finance_tools: the margin has the sign of the profit and is at most the  *)
(* whole revenue; revenue falls by no more than all of it.                  *)
LEMMA MarginBounded ==
  ASSUME NEW r \in Nat \ {0}, NEW c \in Nat
  PROVE  LET margin == Quantize((r - c) * Hundred, r)
         IN margin * (r - c) >= 0 /\ margin <= Hundred
<1> DEFINE n == (r - c) * Hundred
<1>1. n \in Int /\ Hundred \in Int /\ Hundred = 10000
  BY DEF Hundred
<1>2. n <= Hundred * r /\ (r >= c => 0 * r <= n) /\ (r <= c => n <= 0 * r)
  BY DEF Hundred
<1> HIDE DEF n
<1>3. PICK q \in Int : q = Quantize(n, r)
  BY <1>1, Rounded DEF Nearest
<1>4. q <= Hundred /\ (r >= c => 0 <= q) /\ (r <= c => q <= 0)
  BY <1>1, <1>2, <1>3, RoundedBounds
<1>5. q * (r - c) >= 0
  <2>1. CASE r >= c
    <3>1. PICK k \in Nat : k = r - c
      BY <2>1
    <3>2. q \in Nat
      BY <1>4, <2>1
    <3> QED
      BY <3>1, <3>2
  <2>2. CASE r <= c
    <3>1. PICK k \in Nat, p \in Nat : k = c - r /\ p = -q
      BY <1>4, <2>2
    <3>2. q * (r - c) = p * k
      BY <3>1
    <3>3. p * k >= 0
      OBVIOUS
    <3> QED
      BY <3>2, <3>3
  <2> QED
    BY <2>1, <2>2
<1> QED
  BY <1>3, <1>4, <1>5 DEF n

(* revenue_growth_rate is at least minus the whole. *)
LEMMA GrowthBounded ==
  ASSUME NEW r \in Nat, NEW b \in Nat \ {0}
  PROVE  Quantize((r - b) * Hundred, b) >= -Hundred
<1>1. PICK n \in Int : n = (r - b) * Hundred
  BY DEF Hundred
<1>2. PICK k \in Int : k = -Hundred
  BY DEF Hundred
<1>3. k * b <= n
  BY <1>1, <1>2 DEF Hundred
<1> QED
  BY <1>1, <1>2, <1>3, Rounded, RoundedBounds DEF Nearest

(* finance_tools: margin and growth within their bounds, and the same KPIs   *)
(* from the rows in reverse                                                  *)
LEMMA FinanceReconciles ==
  ASSUME NEW d \in Seq(Rows), NEW p \in Seq(Rows), Finance!Raises(d, p) = "nothing"
  PROVE  LET f == Finance!calculate_kpis(d, p)
         IN /\ f.profit_margin * f.total_profit >= 0 /\ f.profit_margin <= Hundred
            /\ f.revenue_growth_rate >= -Hundred
            /\ f = Finance!calculate_kpis(Reverse(d), Reverse(p))
<1>1. /\ Finance!ValidColumn(d, "revenue") /\ Finance!ValidColumn(d, "cost")
      /\ Finance!ValidColumn(p, "revenue")
      /\ Finance!total_revenue(d) # 0 /\ Finance!total_revenue(p) # 0
  BY Zenon DEF Finance!Raises
<1>2. PICK r \in Nat, c \in Nat, b \in Nat :
        r = Finance!total_revenue(d) /\ c = Finance!total_cost(d) /\ b = Finance!total_revenue(p)
  BY <1>1, ColumnCounts DEF Finance!total_revenue, Finance!total_cost
<1>3. r # 0 /\ b # 0
  BY <1>1, <1>2
<1> DEFINE f == Finance!calculate_kpis(d, p)
<1>4. /\ f.profit_margin = Quantize((r - c) * Hundred, r) /\ f.total_profit = r - c
      /\ f.revenue_growth_rate = Quantize((r - b) * Hundred, b)
  <2>1. \A n, m : Finance!Quantize(n, m) = Quantize(n, m)
    BY SameSums
  <2>2. Finance!Hundred = Hundred
    BY DEF Finance!Hundred, Hundred
  <2>3. /\ f.profit_margin = Finance!profit_margin(d) /\ f.total_profit = Finance!total_profit(d)
        /\ f.revenue_growth_rate = Finance!revenue_growth_rate(d, p)
    BY DEF Finance!calculate_kpis
  <2> HIDE DEF f
  <2> QED
    BY <1>2, <2>1, <2>2, <2>3, Zenon
    DEF Finance!profit_margin, Finance!total_profit, Finance!revenue_growth_rate
<1>5. f.profit_margin * f.total_profit >= 0 /\ f.profit_margin <= Hundred /\ f.revenue_growth_rate >= -Hundred
  BY <1>3, <1>4, MarginBounded, GrowthBounded
<1>6. /\ Finance!total_revenue(Reverse(d)) = Finance!total_revenue(d)
      /\ Finance!total_cost(Reverse(d)) = Finance!total_cost(d)
      /\ Finance!total_revenue(Reverse(p)) = Finance!total_revenue(p)
      /\ Len(Reverse(d)) = Len(d)
  BY <1>1, ColumnReversed, ReverseIs DEF Finance!total_revenue, Finance!total_cost
<1>7. f = Finance!calculate_kpis(Reverse(d), Reverse(p))
  BY <1>6, Zenon DEF Finance!calculate_kpis, Finance!profit_margin, Finance!total_profit,
    Finance!revenue_growth_rate, Finance!average_order_value
<1> QED
  BY <1>5, <1>7

-----------------------------------------------------------------------------
Order == [customer : Int, revenue : Nat, segment : Int]

(* _orders: valid rows become orders of integers, with the revenue the      *)
(* Finance tools read.                                                      *)
LEMMA OrdersTyped ==
  ASSUME NEW d \in Seq(Rows), Marketing!ValidOrders(d)
  PROVE  /\ Len(d) \in Nat \ {0} /\ Marketing!orders(d) \in [1 .. Len(d) -> Order]
         /\ Finance!ValidColumn(d, "revenue")
         /\ \A i \in 1 .. Len(d) : Marketing!orders(d)[i].revenue = Column(d, "revenue")[i]
<1>1. Len(d) \in Nat \ {0} /\ DOMAIN d = 1 .. Len(d) /\ d # <<>>
  BY DEF Marketing!ValidOrders
<1>2. ASSUME NEW i \in DOMAIN d PROVE d[i]["revenue"] = d[i].revenue /\ Finance!IsMoney(d[i].revenue)
  <2>1. d[i] \in Rows /\ Marketing!IsMoney(d[i].revenue)
    BY DEF Marketing!ValidOrders
  <2>2. d[i]["revenue"] = d[i].revenue /\ d[i].revenue \in Amounts
    BY <2>1, RowFields DEF Amounts
  <2> QED
    BY <2>1, <2>2, MoneyIs
<1>3. Finance!ValidColumn(d, "revenue")
  BY <1>1, <1>2 DEF Finance!ValidColumn
<1>4. Column(d, "revenue") \in [1 .. Len(d) -> Nat]
  BY <1>3, ColumnCounts
<1>5. ASSUME NEW i \in DOMAIN d
      PROVE  /\ Marketing!orders(d)[i] \in Order
             /\ Marketing!orders(d)[i].revenue = Column(d, "revenue")[i]
  <2>1. PICK r, c, s : r = Column(d, "revenue")[i] /\ c = d[i].customer[1] /\ s = d[i].segment[1]
    OBVIOUS
  <2>2. Marketing!to_money(d[i].revenue) = r
    BY <1>2, <2>1, Zenon DEF Column, Marketing!to_money, Finance!to_money, Marketing!Quantize, Finance!Quantize
  <2>3. Marketing!orders(d)[i] = [customer |-> c, revenue |-> r, segment |-> s]
    BY <2>1, <2>2, Zenon DEF Marketing!orders, Marketing!strip
  <2>4. d[i] \in Rows
    OBVIOUS
  <2>5. c \in Int /\ s \in Int
    BY <2>1, <2>4, RowFields
  <2>6. r \in Nat
    BY <1>1, <1>4, <2>1
  <2> QED
    BY <2>1, <2>3, <2>5, <2>6 DEF Order
<1>6. Marketing!orders(d) = [i \in DOMAIN d |-> Marketing!orders(d)[i]]
  BY Zenon DEF Marketing!orders
<1>7. Marketing!orders(d) \in [1 .. Len(d) -> Order]
  <2>1. PICK o, n : o = Marketing!orders(d) /\ n = Len(d)
    OBVIOUS
  <2>2. o = [i \in 1 .. n |-> o[i]] /\ \A i \in 1 .. n : o[i] \in Order
    BY <1>1, <1>5, <1>6, <2>1
  <2> QED
    BY <2>1, <2>2
<1> QED
  BY <1>1, <1>3, <1>5, <1>7

(* The orders of a period, read from the last to the first *)
LEMMA OrdersReversed ==
  ASSUME NEW d \in Seq(Rows), Marketing!ValidOrders(d)
  PROVE  /\ Marketing!ValidOrders(Reverse(d)) /\ Len(Reverse(d)) = Len(d) /\ Reverse(d) \in Seq(Rows)
         /\ \A i \in 1 .. Len(d) :
              /\ (Len(d) - i) + 1 \in 1 .. Len(d)
              /\ Marketing!orders(Reverse(d))[i] = Marketing!orders(d)[(Len(d) - i) + 1]
<1>1. PICK n, r : n = Len(d) /\ r = Reverse(d) /\ n \in Nat
  OBVIOUS
<1>2. /\ r \in Seq(Rows) /\ Len(r) = n /\ DOMAIN d = 1 .. n /\ DOMAIN r = 1 .. n
      /\ \A i \in 1 .. n : (n - i) + 1 \in 1 .. n /\ r[i] = d[(n - i) + 1]
  BY <1>1, ReverseIs
<1>3. n # 0
  BY <1>1, OrdersTyped
<1>4. Marketing!ValidOrders(r)
  <2>1. r # <<>>
    BY <1>2, <1>3
  <2>2. \A i \in DOMAIN r : \E j \in DOMAIN d : r[i] = d[j]
    BY <1>2
  <2> QED
    BY <2>1, <2>2, Zenon DEF Marketing!ValidOrders
<1>5. ASSUME NEW i \in 1 .. n PROVE Marketing!orders(r)[i] = Marketing!orders(d)[(n - i) + 1]
  <2>1. PICK j : j = (n - i) + 1 /\ j \in DOMAIN d /\ r[i] = d[j]
    BY <1>2
  <2>2. Marketing!orders(r)[i] = Marketing!orders(d)[j]
    BY <1>2, <2>1, Zenon DEF Marketing!orders
  <2> QED
    BY <2>1, <2>2
<1> QED
  BY <1>1, <1>2, <1>4, <1>5

(* No figure of one period depends on the order of its orders. *)
Mirrors(o, r, n) == \A i \in 1 .. n : (n - i) + 1 \in 1 .. n /\ r[i] = o[(n - i) + 1]

(* A mirror image mirrors back. *)
LEMMA MirrorsBack ==
  ASSUME NEW n \in Nat, NEW o, NEW r, Mirrors(o, r, n)
  PROVE  Mirrors(r, o, n)
<1> SUFFICES ASSUME NEW i \in 1 .. n PROVE (n - i) + 1 \in 1 .. n /\ o[i] = r[(n - i) + 1]
  BY DEF Mirrors
<1>1. PICK j \in 1 .. n : j = (n - i) + 1 /\ (n - j) + 1 = i
  OBVIOUS
<1> QED
  BY <1>1 DEF Mirrors

Segments(o) == {o[i].segment : i \in DOMAIN o}
Twice(o, n, c) == \E i, j \in 1 .. n : i # j /\ o[i].customer = c /\ o[j].customer = c

(* The customers, those with two orders and the segments are sets. *)
LEMMA SameCustomers ==
  ASSUME NEW n \in Nat, NEW o \in [1 .. n -> Order], NEW r \in [1 .. n -> Order], Mirrors(o, r, n)
  PROVE  /\ Marketing!customers(r) = Marketing!customers(o)
         /\ Marketing!Repeats(r) = Marketing!Repeats(o)
         /\ Segments(r) = Segments(o)
<1>1. DOMAIN o = 1 .. n /\ DOMAIN r = 1 .. n
  OBVIOUS
<1>2. ASSUME NEW a, NEW b, Mirrors(a, b, n), DOMAIN a = 1 .. n, DOMAIN b = 1 .. n
      PROVE  Marketing!customers(b) \subseteq Marketing!customers(a) /\ Segments(b) \subseteq Segments(a)
  <2>1. ASSUME NEW i \in DOMAIN b PROVE \E j \in DOMAIN a : b[i].customer = a[j].customer /\ b[i].segment = a[j].segment
    <3>1. PICK j \in DOMAIN a : b[i] = a[j]
      BY <1>2 DEF Mirrors
    <3> QED
      BY <3>1, Zenon
  <2>2. ASSUME NEW x \in Marketing!customers(b) PROVE x \in Marketing!customers(a)
    BY <2>1, Zenon DEF Marketing!customers
  <2>3. ASSUME NEW x \in Segments(b) PROVE x \in Segments(a)
    BY <2>1, Zenon DEF Segments
  <2> QED
    BY <2>2, <2>3
<1>8. Mirrors(r, o, n)
  BY MirrorsBack
<1>3. Marketing!customers(r) = Marketing!customers(o)
  <2>1. Marketing!customers(r) \subseteq Marketing!customers(o) /\ Marketing!customers(o) \subseteq Marketing!customers(r)
    BY <1>1, <1>2, <1>8, Zenon
  <2> QED
    BY <2>1, Zenon
<1>4. ASSUME NEW a, NEW b, Mirrors(a, b, n), NEW c, Twice(a, n, c) PROVE Twice(b, n, c)
  <2>1. PICK i \in 1 .. n, j \in 1 .. n : i # j /\ a[i].customer = c /\ a[j].customer = c
    BY <1>4 DEF Twice
  <2>2. PICK k \in 1 .. n, l \in 1 .. n : k = (n - i) + 1 /\ l = (n - j) + 1
    OBVIOUS
  <2>3. k # l /\ a[i] = b[k] /\ a[j] = b[l]
    <3>1. Mirrors(b, a, n)
      BY <1>4, MirrorsBack
    <3> QED
      BY <2>1, <2>2, <3>1 DEF Mirrors
  <2>4. b[k].customer = c /\ b[l].customer = c
    BY <2>1, <2>3, Zenon
  <2> QED
    BY <2>3, <2>4 DEF Twice
<1>5. \A c : Twice(r, n, c) <=> Twice(o, n, c)
  BY <1>4, <1>8, Zenon
<1>6. Marketing!Repeats(r) = Marketing!Repeats(o)
  <2>1. ASSUME NEW a, DOMAIN a = 1 .. n
        PROVE  Marketing!Repeats(a) = {c \in Marketing!customers(a) : Twice(a, n, c)}
    BY <2>1, Zenon DEF Marketing!Repeats, Twice
  <2> QED
    BY <1>1, <1>3, <1>5, <2>1
<1>7. Segments(r) = Segments(o)
  <2>1. Segments(r) \subseteq Segments(o) /\ Segments(o) \subseteq Segments(r)
    BY <1>1, <1>2, <1>8, Zenon
  <2> QED
    BY <2>1, Zenon
<1> QED
  BY <1>3, <1>6, <1>7

(* The totals of the segments and the average are sums. *)
LEMMA SameAmounts ==
  ASSUME NEW n \in Nat, NEW o \in [1 .. n -> Order], NEW r \in [1 .. n -> Order], Mirrors(o, r, n)
  PROVE  /\ Marketing!revenue_by_segment(r) = Marketing!revenue_by_segment(o)
         /\ Marketing!average_order_value(r) = Marketing!average_order_value(o)
<1>1. DOMAIN o = 1 .. n /\ DOMAIN r = 1 .. n /\ Len(r) = n /\ Len(o) = n
  OBVIOUS
<1>2. \A a : Marketing!Total(a) = Total(a)
  BY SameSums
<1>3. \A i \in 1 .. n : o[i].revenue \in Nat /\ r[i].revenue \in Nat
  BY DEF Order
<1>4. \A i \in 1 .. n : (n - i) + 1 \in 1 .. n /\ r[i] = o[(n - i) + 1]
  BY DEF Mirrors
<1>5. Total([i \in DOMAIN r |-> r[i].revenue]) = Total([i \in DOMAIN o |-> o[i].revenue])
  <2>1. PICK a, b : a = [i \in 1 .. n |-> o[i].revenue] /\ b = [i \in 1 .. n |-> r[i].revenue]
    OBVIOUS
  <2>2. a \in [1 .. n -> Int] /\ b \in [1 .. n -> Int] /\ \A i \in 1 .. n : b[i] = a[(n - i) + 1]
    BY <1>3, <1>4, <2>1
  <2>3. Total(b) = Total(a)
    BY <2>2, TotalReversed
  <2> QED
    BY <1>1, <2>1, <2>3, Zenon
<1>6. Marketing!average_order_value(r) = Marketing!average_order_value(o)
  BY <1>1, <1>2, <1>5, Zenon DEF Marketing!average_order_value
<1>7. ASSUME NEW s
      PROVE  Total([i \in DOMAIN r |-> IF r[i].segment = s THEN r[i].revenue ELSE 0]) =
               Total([i \in DOMAIN o |-> IF o[i].segment = s THEN o[i].revenue ELSE 0])
  <2>1. PICK a, b : /\ a = [i \in 1 .. n |-> IF o[i].segment = s THEN o[i].revenue ELSE 0]
                    /\ b = [i \in 1 .. n |-> IF r[i].segment = s THEN r[i].revenue ELSE 0]
    OBVIOUS
  <2>2. a \in [1 .. n -> Int] /\ b \in [1 .. n -> Int] /\ \A i \in 1 .. n : b[i] = a[(n - i) + 1]
    BY <1>3, <1>4, <2>1
  <2>3. Total(b) = Total(a)
    BY <2>2, TotalReversed
  <2> QED
    BY <1>1, <2>1, <2>3, Zenon
<1>8. Marketing!revenue_by_segment(r) = Marketing!revenue_by_segment(o)
  <2>1. Segments(r) = Segments(o)
    BY SameCustomers
  <2> QED
    BY <1>2, <1>7, <2>1, Zenon DEF Segments, Marketing!revenue_by_segment
<1> QED
  BY <1>6, <1>8

(* A period has customers, at most as many as orders, and just as many if   *)
(* nobody ordered twice.                                                    *)
LEMMA CustomersCount ==
  ASSUME NEW n \in Nat \ {0}, NEW o \in [1 .. n -> Order]
  PROVE  /\ IsFiniteSet(Marketing!customers(o)) /\ Cardinality(Marketing!customers(o)) \in 1 .. n
         /\ Marketing!Repeats(o) \subseteq Marketing!customers(o)
         /\ Cardinality(Marketing!Repeats(o)) \in Nat
         /\ Cardinality(Marketing!Repeats(o)) <= Cardinality(Marketing!customers(o))
         /\ Cardinality(Marketing!Repeats(o)) = 0 <=> Cardinality(Marketing!customers(o)) = n
<1>1. PICK C, R, f : C = Marketing!customers(o) /\ R = Marketing!Repeats(o) /\ f = [i \in 1 .. n |-> o[i].customer]
  OBVIOUS
<1>2. \A x : x \in C <=> \E i \in 1 .. n : x = o[i].customer
  <2>1. C = {o[i].customer : i \in 1 .. n}
    <3>1. DOMAIN o = 1 .. n
      OBVIOUS
    <3> QED
      BY <1>1, <3>1, Zenon DEF Marketing!customers
  <2> QED
    BY <2>1, Zenon
<1>3. f \in Surjection(1 .. n, C)
  <2>1. f \in [1 .. n -> C] /\ \A i \in 1 .. n : f[i] = o[i].customer
    BY <1>1, <1>2
  <2>2. ASSUME NEW x \in C PROVE \E i \in 1 .. n : f[i] = x
    <3>1. PICK i \in 1 .. n : x = o[i].customer
      BY <1>2
    <3>2. f[i] = x
      BY <2>1, <3>1
    <3> QED
      BY <3>2
  <2> QED
    BY <2>1, <2>2 DEF Surjection
<1>4. IsFiniteSet(1 .. n) /\ Cardinality(1 .. n) = n
  <2>1. 1 \in Int /\ n \in Int /\ ~(1 > n) /\ n - 1 + 1 = n
    OBVIOUS
  <2> QED
    BY <2>1, FS_Interval
<1>5. IsFiniteSet(C) /\ Cardinality(C) <= n /\ (Cardinality(C) = n <=> f \in Injection(1 .. n, C))
  BY <1>3, <1>4, FS_Surjection
<1>6. Cardinality(C) \in Nat /\ Cardinality(C) # 0
  <2>1. o[1].customer \in C
    BY <1>2
  <2> QED
    BY <1>5, <2>1, FS_CardinalityType, FS_EmptySet
<1>7. R \subseteq C /\ \A x : x \in R <=> x \in C /\ \E i, j \in 1 .. n : i # j /\ o[i].customer = x /\ o[j].customer = x
  <2>1. R = {c \in C : \E i, j \in 1 .. n : i # j /\ o[i].customer = c /\ o[j].customer = c}
    <3>1. DOMAIN o = 1 .. n
      OBVIOUS
    <3> QED
      BY <1>1, <3>1, Zenon DEF Marketing!Repeats
  <2> QED
    BY <2>1
<1>8. R = {} <=> f \in Injection(1 .. n, C)
  <2>1. f \in [1 .. n -> C] /\ \A i \in 1 .. n : f[i] = o[i].customer
    BY <1>1, <1>2
  <2>2. f \in Injection(1 .. n, C) <=> \A i, j \in 1 .. n : f[i] = f[j] => i = j
    BY <2>1 DEF Injection, IsInjective
  <2>3. \A i \in 1 .. n : o[i].customer \in C
    BY <1>2
  <2> QED
    BY <1>7, <2>1, <2>2, <2>3
<1>9. IsFiniteSet(R) /\ Cardinality(R) \in Nat /\ Cardinality(R) <= Cardinality(C) /\ (Cardinality(R) = 0 <=> R = {})
  BY <1>5, <1>7, FS_Subset, FS_CardinalityType, FS_EmptySet
<1> QED
  BY <1>1, <1>5, <1>6, <1>7, <1>8, <1>9

(* percentage, of a part or of a difference *)
LEMMA RateOfPart ==
  ASSUME NEW c \in Nat, NEW b \in Nat \ {0}
  PROVE  /\ Quantize(c * Hundred, b) \in Nat /\ (c <= b => Quantize(c * Hundred, b) <= Hundred)
         /\ c = 0 => Quantize(c * Hundred, b) = 0
         /\ c # 0 /\ b < 2 * Hundred => Quantize(c * Hundred, b) > 0
<1>0. PICK n \in Nat : n = c * Hundred
  BY DEF Hundred
<1>1. n \in Nat /\ n = c * Hundred /\ (c <= b => n <= Hundred * b) /\ (c # 0 => n >= Hundred)
  BY <1>0 DEF Hundred
<1>2. PICK q \in Int : q = Quantize(n, b) /\ Nearest(q, n, b)
  <2>1. n \in Int
    BY <1>1
  <2>2. Nearest(Quantize(n, b), n, b)
    BY <2>1, Rounded
  <2> QED
    BY <2>2 DEF Nearest
<1>3. 0 * b <= n /\ Hundred \in Int /\ 0 \in Int
  BY DEF Hundred
<1>4. 0 <= q /\ (n <= Hundred * b => q <= Hundred)
  BY <1>2, <1>3, RoundedBounds
<1>5. c = 0 => q = 0
  <2>1. c = 0 => n <= 0 * b
    BY <1>1 DEF Hundred
  <2> QED
    BY <1>2, <1>3, <1>4, <2>1, RoundedBounds
<1>6. c # 0 /\ b < 2 * Hundred => q # 0
  <2>1. b * 0 = 0
    OBVIOUS
  <2>2. q = 0 => 2 * n <= b
    BY <1>2, <2>1 DEF Nearest
  <2> QED
    BY <1>1, <2>2 DEF Hundred
<1> QED
  BY <1>1, <1>2, <1>4, <1>5, <1>6

(* customer_growth and churn_rate, of a customers now, b before and c that   *)
(* stayed: both are rounded, yet customers do not fall by more than churn.   *)
LEMMA GrowthAgainstChurn ==
  ASSUME NEW a \in Nat, NEW b \in Nat \ {0}, NEW c \in Nat, c <= a
  PROVE  Quantize((a - b) * Hundred, b) >= -(Hundred - Quantize(c * Hundred, b))
<1>1. PICK n \in Int, m \in Int, k \in Int :
        n = c * Hundred /\ m = (a - b) * Hundred /\ k = -Hundred /\ k % 2 = 0 /\ n + k * b <= m
  BY DEF Hundred
<1>2. Quantize(n + k * b, b) = Quantize(n, b) + k
  BY <1>1, RoundedShift
<1>3. PICK l \in Int : l = n + k * b
  BY RoundedWhole
<1>4. Quantize(l, b) <= Quantize(m, b) /\ Quantize(m, b) \in Int /\ Quantize(n, b) \in Int
  BY <1>1, <1>3, RoundedOrder
<1> QED
  BY <1>1, <1>2, <1>3, <1>4 DEF Hundred

-----------------------------------------------------------------------------
(* The instance counts as this module does. *)
LEMMA SameCount == \A S : Marketing!Cardinality(S) = Cardinality(S)
BY Zenon DEF Cardinality, Marketing!Cardinality

(* Segments in the order of top_segments, and how many are before one *)
More(t, x, y) == t[x] > t[y] \/ (t[x] = t[y] /\ x < y)
Ahead(t, y) == {x \in DOMAIN t : More(t, x, y)}
Rank(t, y) == Marketing!Cardinality(Ahead(t, y)) + 1

(* Ranks fall with the totals, and no two segments share one. *)
LEMMA RanksInOrder ==
  ASSUME NEW t, IsFiniteSet(DOMAIN t), DOMAIN t \subseteq Int, \A x \in DOMAIN t : t[x] \in Int
  PROVE  /\ \A x \in DOMAIN t : Rank(t, x) \in 1 .. Cardinality(DOMAIN t)
         /\ \A x, y \in DOMAIN t : t[x] > t[y] => Rank(t, x) < Rank(t, y)
         /\ \A x, y \in DOMAIN t : Rank(t, x) = Rank(t, y) => x = y
<1>1. PICK S : S = DOMAIN t
  OBVIOUS
<1>2. /\ \A x \in S : ~More(t, x, x)
      /\ \A x, y \in S : x # y => More(t, x, y) \/ More(t, y, x)
      /\ \A x, y, z \in S : More(t, x, y) /\ More(t, y, z) => More(t, x, z)
  BY <1>1 DEF More
<1>3. \A y : Ahead(t, y) = {x \in S : More(t, x, y)}
  BY <1>1, Zenon DEF Ahead
<1>4. ASSUME NEW y \in S
      PROVE  IsFiniteSet(Ahead(t, y)) /\ Cardinality(Ahead(t, y)) \in Nat /\ Cardinality(Ahead(t, y)) < Cardinality(S)
  <2>1. Ahead(t, y) \subseteq S \ {y}
    BY <1>2, <1>3
  <2>2. IsFiniteSet(S \ {y}) /\ Cardinality(S \ {y}) = Cardinality(S) - 1 /\ Cardinality(S) \in Nat
    BY <1>1, FS_RemoveElement, FS_CardinalityType
  <2>3. IsFiniteSet(Ahead(t, y)) /\ Cardinality(Ahead(t, y)) <= Cardinality(S \ {y})
    BY <2>1, <2>2, FS_Subset
  <2>4. Cardinality(Ahead(t, y)) \in Nat
    BY <2>3, FS_CardinalityType
  <2> QED
    BY <2>2, <2>3, <2>4
<1>9. \A y : Rank(t, y) = Cardinality(Ahead(t, y)) + 1
  BY SameCount DEF Rank
<1>5. ASSUME NEW x \in S, NEW y \in S, More(t, x, y) PROVE Rank(t, x) < Rank(t, y)
  <2>1. Ahead(t, x) \subseteq Ahead(t, y) /\ x \in Ahead(t, y) /\ x \notin Ahead(t, x)
    BY <1>2, <1>3, <1>5
  <2>2. Cardinality(Ahead(t, x)) <= Cardinality(Ahead(t, y)) /\ Cardinality(Ahead(t, x)) # Cardinality(Ahead(t, y))
    BY <1>4, <2>1, FS_Subset
  <2> QED
    BY <1>4, <1>9, <2>2
<1>6. Cardinality(S) \in Nat
  BY <1>1, FS_CardinalityType
<1>7. \A x \in S : Rank(t, x) \in 1 .. Cardinality(S)
  BY <1>4, <1>6, <1>9
<1>8. \A x, y \in S : t[x] > t[y] => More(t, x, y)
  BY DEF More
<1> QED
  BY <1>1, <1>2, <1>5, <1>7, <1>8

(* A segment stands at every place: an injection of a finite set into as     *)
(* many places is onto.                                                       *)
LEMMA EveryRank ==
  ASSUME NEW t, IsFiniteSet(DOMAIN t), DOMAIN t \subseteq Int, \A x \in DOMAIN t : t[x] \in Int,
         NEW k \in 1 .. Cardinality(DOMAIN t)
  PROVE  \E x \in DOMAIN t : Rank(t, x) = k
<1>1. PICK S, n, r : S = DOMAIN t /\ n = Cardinality(S) /\ r = [x \in S |-> Rank(t, x)]
  OBVIOUS
<1>2. /\ \A x \in S : Rank(t, x) \in 1 .. n
      /\ \A x, y \in S : Rank(t, x) = Rank(t, y) => x = y
  BY <1>1, RanksInOrder
<1>3. r \in [S -> 1 .. n] /\ \A x \in S : r[x] = Rank(t, x)
  BY <1>1, <1>2
<1>4. r \in Injection(S, 1 .. n)
  BY <1>2, <1>3 DEF Injection, IsInjective
<1>5. n \in Nat /\ IsFiniteSet(1 .. n) /\ Cardinality(1 .. n) = n
  <2>1. n \in Nat
    BY <1>1, FS_CardinalityType
  <2>2. 1 \in Int /\ n \in Int /\ (1 > n => n = 0) /\ n - 1 + 1 = n
    BY <2>1
  <2> QED
    BY <2>1, <2>2, FS_Interval
<1>6. r \in Surjection(S, 1 .. n)
  BY <1>1, <1>4, <1>5, FS_Injection
<1> QED
  BY <1>1, <1>3, <1>6 DEF Surjection

(* top_segments is sorted: each segment stands behind all that sold for     *)
(* more.                                                                    *)
LEMMA TopLeads ==
  ASSUME NEW t, IsFiniteSet(DOMAIN t), DOMAIN t \subseteq Int, \A x \in DOMAIN t : t[x] \in Int
  PROVE  \A i \in DOMAIN Marketing!top_segments(t) : \A s \in DOMAIN t :
           t[s] > t[Marketing!top_segments(t)[i]] => \E j \in 1 .. i - 1 : Marketing!top_segments(t)[j] = s
<1>1. PICK n, m, top : /\ n = Cardinality(DOMAIN t) /\ m = (IF n < SegmentLimit THEN n ELSE SegmentLimit)
                       /\ top = [k \in 1 .. m |-> CHOOSE s \in DOMAIN t : Rank(t, s) = k]
  OBVIOUS
<1>2. Marketing!top_segments(t) = top
  <2>1. Marketing!top_segments(t) =
          [k \in 1 .. (IF Marketing!Cardinality(DOMAIN t) < SegmentLimit THEN Marketing!Cardinality(DOMAIN t)
                      ELSE SegmentLimit) |->
             CHOOSE s \in DOMAIN t : Rank(t, s) = k]
    BY Zenon DEF Marketing!top_segments, Rank, Ahead, More
  <2>2. Marketing!Cardinality(DOMAIN t) = n
    BY <1>1, SameCount
  <2> QED
    BY <1>1, <2>1, <2>2
<1>3. n \in Nat /\ m \in Nat /\ m <= n
  <2>1. n \in Nat /\ SegmentLimit \in Nat
    BY <1>1, FS_CardinalityType, ToolsAssumption
  <2> QED
    BY <1>1, <2>1
<1>4. ASSUME NEW k \in 1 .. m PROVE top[k] \in DOMAIN t /\ Rank(t, top[k]) = k
  <2>1. \E x \in DOMAIN t : Rank(t, x) = k
    <3>1. k \in 1 .. Cardinality(DOMAIN t)
      BY <1>1, <1>3
    <3> QED
      BY <3>1, EveryRank
  <2>2. top[k] = CHOOSE s \in DOMAIN t : Rank(t, s) = k
    BY <1>1
  <2> QED
    BY <2>1, <2>2
<1>5. DOMAIN top = 1 .. m
  BY <1>1
<1>6. ASSUME NEW i \in 1 .. m, NEW s \in DOMAIN t, t[s] > t[top[i]] PROVE \E j \in 1 .. i - 1 : top[j] = s
  <2>1. top[i] \in DOMAIN t /\ Rank(t, top[i]) = i
    BY <1>4
  <2>2. PICK j : j = Rank(t, s)
    OBVIOUS
  <2>3. j \in 1 .. n /\ j < i
    BY <1>1, <1>6, <2>1, <2>2, RanksInOrder
  <2>4. j \in 1 .. m /\ j \in 1 .. i - 1
    BY <1>3, <2>3
  <2>5. top[j] = s
    BY <1>4, <2>2, <2>4, RanksInOrder
  <2> QED
    BY <2>4, <2>5
<1> QED
  BY <1>2, <1>5, <1>6

-----------------------------------------------------------------------------
(* SumFunction takes one value after the other, in some order. *)
Pick(s) == CHOOSE x \in s : TRUE
Folds(f, t, S) == f = [s \in SUBSET S |-> IF s = {} THEN 0 ELSE t[Pick(s)] + f[s \ {Pick(s)}]]

(* SumFunction picks the segments one by one. *)
LEMMA SumFunctionFolds ==
  ASSUME NEW t
  PROVE  SumFunction(t) = (CHOOSE f : Folds(f, t, DOMAIN t))[DOMAIN t]
BY Zenon DEF SumFunction, SumFunctionOnSet, FoldFunctionOnSet, MapThenFoldSet, Folds, Pick

(* One function only folds so, by induction on the number of segments. *)
LEMMA FoldsAgree ==
  ASSUME NEW t, NEW S, IsFiniteSet(S), NEW f, NEW g, Folds(f, t, S), Folds(g, t, S)
  PROVE  f[S] = g[S]
<1>1. \A s \in SUBSET S : /\ f[s] = IF s = {} THEN 0 ELSE t[Pick(s)] + f[s \ {Pick(s)}]
                          /\ g[s] = IF s = {} THEN 0 ELSE t[Pick(s)] + g[s \ {Pick(s)}]
  BY Zenon DEF Folds
<1>2. \A s : s # {} => Pick(s) \in s
  BY Zenon DEF Pick
<1> DEFINE K == {k \in Nat : \A s \in SUBSET S : Cardinality(s) = k => f[s] = g[s]}
<1>3. \A s \in SUBSET S : IsFiniteSet(s) /\ Cardinality(s) \in Nat /\ (Cardinality(s) = 0 <=> s = {})
  BY FS_Subset, FS_CardinalityType, FS_EmptySet
<1>4. 0 \in K
  <2> SUFFICES ASSUME NEW s \in SUBSET S, Cardinality(s) = 0 PROVE f[s] = g[s]
    OBVIOUS
  <2>1. s = {}
    BY <1>3
  <2> QED
    BY <1>1, <2>1
<1>5. ASSUME NEW k \in K PROVE k + 1 \in K
  <2> SUFFICES ASSUME NEW s \in SUBSET S, Cardinality(s) = k + 1 PROVE f[s] = g[s]
    BY <1>5
  <2>1. k \in Nat /\ s # {}
    BY <1>3, <1>5
  <2>2. PICK x : x = Pick(s) /\ x \in s
    BY <1>2, <2>1
  <2>3. s \ {x} \in SUBSET S /\ Cardinality(s \ {x}) = k
    <3>1. Cardinality(s \ {x}) = Cardinality(s) - 1
      BY <1>3, <2>2, FS_RemoveElement
    <3> QED
      BY <2>1, <3>1
  <2>4. f[s \ {x}] = g[s \ {x}]
    BY <1>5, <2>3
  <2>5. f[s] = t[x] + f[s \ {x}] /\ g[s] = t[x] + g[s \ {x}]
    BY <1>1, <2>1, <2>2
  <2> QED
    BY <2>4, <2>5
<1> HIDE DEF K
<1>6. K = Nat
  <2>1. K \in SUBSET Nat
    BY DEF K
  <2> QED
    BY <1>4, <1>5, <2>1, SetInduction
<1>7. Cardinality(S) \in K
  BY <1>3, <1>6
<1> QED
  BY <1>7 DEF K

(* The revenue of the segments of a set *)
Within(o, n, T) == [i \in 1 .. n |-> IF o[i].segment \in T THEN o[i].revenue ELSE 0]
Only(o, n, s) == [i \in 1 .. n |-> IF o[i].segment = s THEN o[i].revenue ELSE 0]

(* The orders within a set of segments, with one segment taken out *)
LEMMA OneSegmentMore ==
  ASSUME NEW n \in Nat, NEW o \in [1 .. n -> Order], NEW T, NEW s \in T
  PROVE  /\ Total(Within(o, n, T)) = Total(Only(o, n, s)) + Total(Within(o, n, T \ {s}))
         /\ Total(Only(o, n, s)) \in Int
<1>1. PICK a, b, c : a = Within(o, n, T) /\ b = Within(o, n, T \ {s}) /\ c = Only(o, n, s)
  OBVIOUS
<1>2. \A i \in 1 .. n : o[i].revenue \in Nat
  BY DEF Order
<1>3. a \in [1 .. n -> Int] /\ b \in [1 .. n -> Int] /\ c \in [1 .. n -> Int]
  BY <1>1, <1>2 DEF Within, Only
<1>4. c = [i \in 1 .. n |-> a[i] - b[i]]
  BY <1>1, <1>2 DEF Within, Only
<1>5. Total(a) \in Int /\ Total(b) \in Int /\ Total(c) = Total(a) - Total(b)
  BY <1>3, <1>4, TotalDifference
<1> QED
  BY <1>1, <1>5

(* No order lies within no segment. *)
LEMMA NoSegment ==
  ASSUME NEW n \in Nat, NEW o \in [1 .. n -> Order]
  PROVE  Total(Within(o, n, {})) = 0
<1>1. PICK a : a = Within(o, n, {})
  OBVIOUS
<1>2. a \in [1 .. n -> Int] /\ \A i \in 1 .. n : a[i] = 0
  BY <1>1 DEF Within
<1>3. Total(a) = n * 0
  BY <1>2, TotalSame
<1> QED
  BY <1>1, <1>3

(* The segments' totals sum up to the total of the orders. *)
LEMMA SegmentsSum ==
  ASSUME NEW n \in Nat, NEW o \in [1 .. n -> Order]
  PROVE  /\ DOMAIN Marketing!revenue_by_segment(o) = Segments(o) /\ IsFiniteSet(Segments(o)) /\ Segments(o) \subseteq Int
         /\ \A s \in Segments(o) : /\ Marketing!revenue_by_segment(o)[s] = Total(Only(o, n, s))
                                  /\ Marketing!revenue_by_segment(o)[s] \in Int
         /\ SumFunction(Marketing!revenue_by_segment(o)) = Total([i \in 1 .. n |-> o[i].revenue])
<1>1. PICK S, t, g : /\ S = Segments(o) /\ t = Marketing!revenue_by_segment(o)
                     /\ g = [T \in SUBSET S |-> Total(Within(o, n, T))]
  OBVIOUS
<1>2. DOMAIN o = 1 .. n
  OBVIOUS
<1>3. t = [s \in S |-> Total(Only(o, n, s))]
  <2>1. \A a : Marketing!Total(a) = Total(a)
    BY SameSums
  <2>2. t = [s \in {o[i].segment : i \in DOMAIN o} |->
               Total([i \in DOMAIN o |-> IF o[i].segment = s THEN o[i].revenue ELSE 0])]
    BY <1>1, <2>1, Zenon DEF Marketing!revenue_by_segment
  <2> QED
    BY <1>1, <1>2, <2>2, Zenon DEF Segments, Only
<1>4. IsFiniteSet(S) /\ S \subseteq Int
  <2>1. S = {o[i].segment : i \in 1 .. n}
    BY <1>1, <1>2, Zenon DEF Segments
  <2>2. PICK f : f = [i \in 1 .. n |-> o[i].segment]
    OBVIOUS
  <2>3. f \in [1 .. n -> S] /\ \A s \in S : \E i \in 1 .. n : f[i] = s
    BY <2>1, <2>2
  <2>4. f \in Surjection(1 .. n, S)
    BY <2>3 DEF Surjection
  <2>5. IsFiniteSet(1 .. n)
    BY FS_Interval
  <2>6. \A i \in 1 .. n : o[i].segment \in Int
    BY DEF Order
  <2> QED
    BY <2>1, <2>4, <2>5, <2>6, FS_Surjection
<1>5. ASSUME NEW T \in SUBSET S
      PROVE  g[T] = IF T = {} THEN 0 ELSE t[Pick(T)] + g[T \ {Pick(T)}]
  <2>1. CASE T = {}
    BY <1>1, <2>1, NoSegment
  <2>2. CASE T # {}
    <3>1. PICK x : x = Pick(T) /\ x \in T
      BY <2>2, Zenon DEF Pick
    <3>2. Total(Within(o, n, T)) = Total(Only(o, n, x)) + Total(Within(o, n, T \ {x}))
      BY <3>1, OneSegmentMore
    <3>3. g[T] = Total(Within(o, n, T)) /\ g[T \ {x}] = Total(Within(o, n, T \ {x}))
      BY <1>1
    <3>4. t[x] = Total(Only(o, n, x))
      BY <1>3, <3>1
    <3> QED
      BY <2>2, <3>1, <3>2, <3>3, <3>4
  <2> QED
    BY <2>1, <2>2
<1>6. Folds(g, t, S)
  <2>1. g = [T \in SUBSET S |-> g[T]]
    BY <1>1
  <2> QED
    BY <1>5, <2>1 DEF Folds
<1>7. SumFunction(t) = g[S]
  <2>1. DOMAIN t = S
    BY <1>3
  <2>2. PICK f : f = (CHOOSE h : Folds(h, t, S)) /\ Folds(f, t, S)
    BY <1>6, Zenon
  <2>3. f[S] = g[S]
    BY <1>4, <1>6, <2>2, FoldsAgree
  <2> QED
    BY <2>1, <2>2, <2>3, SumFunctionFolds
<1>8. g[S] = Total([i \in 1 .. n |-> o[i].revenue])
  <2>1. g[S] = Total(Within(o, n, S))
    BY <1>1
  <2>2. \A i \in 1 .. n : o[i].segment \in S
    BY <1>1, <1>2 DEF Segments
  <2>3. Within(o, n, S) = [i \in 1 .. n |-> o[i].revenue]
    BY <2>2 DEF Within
  <2> QED
    BY <2>1, <2>3
<1>9. DOMAIN t = S /\ \A s \in S : t[s] = Total(Only(o, n, s)) /\ t[s] \in Int
  BY <1>3, OneSegmentMore
<1> QED
  BY <1>1, <1>4, <1>7, <1>8, <1>9

-----------------------------------------------------------------------------
(* calculate_marketing_kpis, from the orders of both periods *)
LEMMA MarketingReads ==
  ASSUME NEW d, NEW p
  PROVE  LET m == Marketing!calculate_marketing_kpis(d, p)
             now == Marketing!orders(d)
             before == Marketing!orders(p)
             C == Marketing!customers(now)
             B == Marketing!customers(before)
             kept == Quantize(Cardinality(C \cap B) * Hundred, Cardinality(B))
         IN /\ m.customer_count = Cardinality(C)
            /\ m.repeat_customer_rate = Quantize(Cardinality(Marketing!Repeats(now)) * Hundred, Cardinality(C))
            /\ m.average_order_value = Marketing!average_order_value(now)
            /\ m.customer_growth = Quantize((Cardinality(C) - Cardinality(B)) * Hundred, Cardinality(B))
            /\ m.retention_rate = kept
            /\ m.churn_rate = Hundred - kept
            /\ m.top_segments = Marketing!top_segments(m.revenue_by_segment)
            /\ m.revenue_by_segment = Marketing!revenue_by_segment(now)
            /\ m = [customer_count |-> m.customer_count,
                    repeat_customer_rate |-> m.repeat_customer_rate,
                    average_order_value |-> m.average_order_value,
                    customer_growth |-> m.customer_growth,
                    retention_rate |-> m.retention_rate,
                    churn_rate |-> m.churn_rate,
                    top_segments |-> m.top_segments,
                    revenue_by_segment |-> m.revenue_by_segment]
<1> PICK m, now, before : /\ m = Marketing!calculate_marketing_kpis(d, p)
                          /\ now = Marketing!orders(d) /\ before = Marketing!orders(p)
  OBVIOUS
<1>1. \A S : Marketing!Cardinality(S) = Cardinality(S)
  BY SameCount
<1>2. \A n, k : Marketing!percentage(n, k) = Quantize(n * Hundred, k)
  <2>1. Marketing!Hundred = Hundred
    BY DEF Marketing!Hundred, Hundred
  <2> QED
    BY <2>1, SameSums, Zenon DEF Marketing!percentage
<1>3. m = [customer_count |-> Marketing!Cardinality(Marketing!customers(now)),
           repeat_customer_rate |-> Marketing!repeat_customer_rate(now),
           average_order_value |-> Marketing!average_order_value(now),
           customer_growth |-> Marketing!customer_growth(now, before),
           retention_rate |-> Marketing!retention_rate(now, before),
           churn_rate |-> Marketing!Hundred - Marketing!retention_rate(now, before),
           top_segments |-> Marketing!top_segments(Marketing!revenue_by_segment(now)),
           revenue_by_segment |-> Marketing!revenue_by_segment(now)]
  BY Zenon DEF Marketing!calculate_marketing_kpis
<1>4. Marketing!Hundred = Hundred
  BY DEF Marketing!Hundred, Hundred
<1>5. /\ Marketing!repeat_customer_rate(now) =
           Quantize(Cardinality(Marketing!Repeats(now)) * Hundred, Cardinality(Marketing!customers(now)))
      /\ Marketing!customer_growth(now, before) =
           Quantize((Cardinality(Marketing!customers(now)) - Cardinality(Marketing!customers(before))) * Hundred,
                    Cardinality(Marketing!customers(before)))
      /\ Marketing!retention_rate(now, before) =
           Quantize(Cardinality(Marketing!customers(now) \cap Marketing!customers(before)) * Hundred,
                    Cardinality(Marketing!customers(before)))
  BY <1>1, <1>2, Zenon DEF Marketing!repeat_customer_rate, Marketing!customer_growth, Marketing!retention_rate
<1>6. /\ m.customer_count = Cardinality(Marketing!customers(now))
      /\ m.repeat_customer_rate = Marketing!repeat_customer_rate(now)
      /\ m.average_order_value = Marketing!average_order_value(now)
      /\ m.customer_growth = Marketing!customer_growth(now, before)
      /\ m.retention_rate = Marketing!retention_rate(now, before)
      /\ m.churn_rate = Hundred - Marketing!retention_rate(now, before)
      /\ m.revenue_by_segment = Marketing!revenue_by_segment(now)
      /\ m.top_segments = Marketing!top_segments(m.revenue_by_segment)
  BY <1>1, <1>3, <1>4
<1>7. m = [customer_count |-> m.customer_count,
           repeat_customer_rate |-> m.repeat_customer_rate,
           average_order_value |-> m.average_order_value,
           customer_growth |-> m.customer_growth,
           retention_rate |-> m.retention_rate,
           churn_rate |-> m.churn_rate,
           top_segments |-> m.top_segments,
           revenue_by_segment |-> m.revenue_by_segment]
  BY <1>3
<1> QED
  BY <1>5, <1>6, <1>7, Zenon

(* marketing_tools: retention, churn, growth and the repeat customers fit    *)
(* together, and no segment leads one that earned more.                      *)
LEMMA MarketingReconciles ==
  ASSUME NEW d \in Seq(Rows), NEW p \in Seq(Rows), Marketing!ValidOrders(d), Marketing!ValidOrders(p)
  PROVE  LET m == Marketing!calculate_marketing_kpis(d, p)
             totals == m.revenue_by_segment
             top == m.top_segments
         IN /\ m.retention_rate \in 0 .. Hundred /\ m.churn_rate + m.retention_rate = Hundred
            /\ m.customer_growth >= -m.churn_rate
            /\ m.repeat_customer_rate > 0 => m.customer_count < Len(d)
            /\ m.customer_count < Len(d) /\ m.customer_count < 2 * Hundred => m.repeat_customer_rate > 0
            /\ \A i \in DOMAIN top : \A s \in DOMAIN totals :
                 totals[s] > totals[top[i]] => \E j \in 1 .. i - 1 : top[j] = s
<1> PICK m, now, before, t, C, B, R :
      /\ m = Marketing!calculate_marketing_kpis(d, p)
      /\ now = Marketing!orders(d) /\ before = Marketing!orders(p)
      /\ t = m.revenue_by_segment
      /\ C = Marketing!customers(now) /\ B = Marketing!customers(before)
      /\ R = Marketing!Repeats(now)
  OBVIOUS
<1>1. PICK n, k : n = Len(d) /\ k = Len(p)
  OBVIOUS
<1>2. n \in Nat \ {0} /\ k \in Nat \ {0} /\ now \in [1 .. n -> Order] /\ before \in [1 .. k -> Order]
  BY <1>1, OrdersTyped
<1>3. /\ IsFiniteSet(C) /\ Cardinality(C) \in 1 .. n /\ Cardinality(R) \in Nat
      /\ Cardinality(R) <= Cardinality(C) /\ (Cardinality(R) = 0 <=> Cardinality(C) = n)
  BY <1>2, CustomersCount
<1>4. IsFiniteSet(B) /\ Cardinality(B) \in 1 .. k
  BY <1>2, CustomersCount
<1>5. PICK c, b, r, i :
        c = Cardinality(C) /\ b = Cardinality(B) /\ r = Cardinality(R) /\ i = Cardinality(C \cap B)
  OBVIOUS
<1>6. i \in Nat /\ i <= c /\ i <= b
  BY <1>3, <1>4, <1>5, FS_Intersection, FS_CardinalityType
<1>7. c \in Nat \ {0} /\ b \in Nat \ {0} /\ r \in Nat /\ c <= n /\ (r = 0 <=> c = n)
  BY <1>2, <1>3, <1>4, <1>5
<1>8. /\ m.customer_count = c /\ m.repeat_customer_rate = Quantize(r * Hundred, c)
      /\ m.customer_growth = Quantize((c - b) * Hundred, b)
      /\ m.retention_rate = Quantize(i * Hundred, b) /\ m.churn_rate = Hundred - Quantize(i * Hundred, b)
      /\ m.top_segments = Marketing!top_segments(t) /\ t = Marketing!revenue_by_segment(now)
  BY <1>5, MarketingReads, Zenon
<1>9. m.retention_rate \in 0 .. Hundred /\ m.churn_rate + m.retention_rate = Hundred
  <2>1. PICK q : q = Quantize(i * Hundred, b)
    OBVIOUS
  <2>2. q \in Nat /\ q <= Hundred
    BY <1>6, <1>7, <2>1, RateOfPart
  <2>3. q \in 0 .. Hundred /\ (Hundred - q) + q = Hundred
    BY <2>2, SMTT(30) DEF Hundred
  <2> QED
    BY <1>8, <2>1, <2>3, Zenon
<1>10. m.customer_growth >= -m.churn_rate
  <2>1. Quantize((c - b) * Hundred, b) >= -(Hundred - Quantize(i * Hundred, b))
    BY <1>6, <1>7, GrowthAgainstChurn
  <2> QED
    BY <1>8, <2>1
<1>11. /\ m.repeat_customer_rate > 0 => m.customer_count < Len(d)
       /\ m.customer_count < Len(d) /\ m.customer_count < 2 * Hundred => m.repeat_customer_rate > 0
  <2>1. PICK q : q = Quantize(r * Hundred, c)
    OBVIOUS
  <2>2. (r = 0 => q = 0) /\ (r # 0 /\ c < 2 * Hundred => q > 0)
    BY <1>7, <2>1, RateOfPart
  <2> QED
    BY <1>1, <1>2, <1>7, <1>8, <2>1, <2>2
<1>12. \A j \in DOMAIN m.top_segments : \A s \in DOMAIN t :
         t[s] > t[m.top_segments[j]] => \E l \in 1 .. j - 1 : m.top_segments[l] = s
  <2>1. IsFiniteSet(DOMAIN t) /\ DOMAIN t \subseteq Int /\ \A x \in DOMAIN t : t[x] \in Int
    BY <1>2, <1>8, SegmentsSum
  <2>2. \A j \in DOMAIN Marketing!top_segments(t) : \A s \in DOMAIN t :
          t[s] > t[Marketing!top_segments(t)[j]] => \E l \in 1 .. j - 1 : Marketing!top_segments(t)[l] = s
    BY <2>1, TopLeads
  <2>3. PICK top : top = Marketing!top_segments(t)
    OBVIOUS
  <2>4. m.top_segments = top
    BY <1>8, <2>3, Zenon
  <2> QED
    BY <2>2, <2>3, <2>4
<1> QED
  BY <1>9, <1>10, <1>11, <1>12, Zenon

(* The KPIs of both periods read from the last row to the first *)
LEMMA MarketingReversed ==
  ASSUME NEW d \in Seq(Rows), NEW p \in Seq(Rows), Marketing!ValidOrders(d), Marketing!ValidOrders(p)
  PROVE  Marketing!calculate_marketing_kpis(d, p) =
           Marketing!calculate_marketing_kpis(Reverse(d), Reverse(p))
<1>1. ASSUME NEW x \in Seq(Rows), Marketing!ValidOrders(x)
      PROVE  /\ Marketing!customers(Marketing!orders(Reverse(x))) = Marketing!customers(Marketing!orders(x))
             /\ Marketing!Repeats(Marketing!orders(Reverse(x))) = Marketing!Repeats(Marketing!orders(x))
             /\ Marketing!revenue_by_segment(Marketing!orders(Reverse(x))) =
                  Marketing!revenue_by_segment(Marketing!orders(x))
             /\ Marketing!average_order_value(Marketing!orders(Reverse(x))) =
                  Marketing!average_order_value(Marketing!orders(x))
  <2>1. PICK n, o, r : n = Len(x) /\ o = Marketing!orders(x) /\ r = Marketing!orders(Reverse(x))
    OBVIOUS
  <2>2. /\ Marketing!ValidOrders(Reverse(x)) /\ Len(Reverse(x)) = n /\ Reverse(x) \in Seq(Rows)
        /\ Mirrors(o, r, n)
    BY <1>1, <2>1, OrdersReversed DEF Mirrors
  <2>3. n \in Nat /\ o \in [1 .. n -> Order] /\ r \in [1 .. n -> Order]
    BY <1>1, <2>1, <2>2, OrdersTyped
  <2> QED
    BY <2>1, <2>2, <2>3, SameCustomers, SameAmounts
<1>2. PICK a, b, e, f : /\ a = Marketing!orders(d) /\ b = Marketing!orders(p)
                        /\ e = Marketing!orders(Reverse(d)) /\ f = Marketing!orders(Reverse(p))
  OBVIOUS
<1>3. /\ Marketing!customers(e) = Marketing!customers(a) /\ Marketing!customers(f) = Marketing!customers(b)
      /\ Marketing!Repeats(e) = Marketing!Repeats(a)
      /\ Marketing!revenue_by_segment(e) = Marketing!revenue_by_segment(a)
      /\ Marketing!average_order_value(e) = Marketing!average_order_value(a)
  BY <1>1, <1>2
<1> QED
  BY <1>2, <1>3, Zenon DEF Marketing!calculate_marketing_kpis, Marketing!customer_growth,
    Marketing!retention_rate, Marketing!repeat_customer_rate

(* Both tools sum up the same amounts. *)
LEMMA ToolsAgree ==
  ASSUME NEW d \in Seq(Rows), NEW p \in Seq(Rows), Marketing!ValidOrders(d), Marketing!ValidOrders(p)
  PROVE  LET f == Finance!calculate_kpis(d, p)
             m == Marketing!calculate_marketing_kpis(d, p)
         IN SumFunction(m.revenue_by_segment) = f.total_revenue /\ m.average_order_value = f.average_order_value
<1> PICK n, o, a, f, m : /\ n = Len(d) /\ o = Marketing!orders(d) /\ a = [i \in 1 .. n |-> o[i].revenue]
                         /\ f = Finance!calculate_kpis(d, p)
                         /\ m = Marketing!calculate_marketing_kpis(d, p)
  OBVIOUS
<1>1. /\ n \in Nat \ {0} /\ o \in [1 .. n -> Order] /\ Finance!ValidColumn(d, "revenue")
      /\ \A i \in 1 .. n : o[i].revenue = Column(d, "revenue")[i]
  BY OrdersTyped
<1>2. Column(d, "revenue") \in [1 .. n -> Nat] /\ Finance!total_revenue(d) = Total(Column(d, "revenue"))
  BY <1>1, ColumnCounts DEF Finance!total_revenue
<1>3. a = Column(d, "revenue")
  BY <1>1, <1>2
<1>4. SumFunction(m.revenue_by_segment) = Finance!total_revenue(d)
  <2>1. m.revenue_by_segment = Marketing!revenue_by_segment(o)
    BY MarketingReads, Zenon
  <2>2. SumFunction(Marketing!revenue_by_segment(o)) = Total(a)
    BY <1>1, SegmentsSum
  <2> QED
    BY <1>2, <1>3, <2>1, <2>2, Zenon
<1>5. m.average_order_value = Quantize(Total(a), n)
  <2>1. m.average_order_value = Marketing!average_order_value(o)
    BY MarketingReads, Zenon
  <2>2. DOMAIN o = 1 .. n /\ Len(o) = n
    BY <1>1
  <2>3. Marketing!average_order_value(o) = Quantize(Total(a), n)
    BY <2>2, SameSums, Zenon DEF Marketing!average_order_value
  <2> QED
    BY <2>1, <2>3
<1>6. f.total_revenue = Finance!total_revenue(d) /\ f.average_order_value = Finance!average_order_value(d)
  BY DEF Finance!calculate_kpis
<1>7. Finance!average_order_value(d) = Quantize(Total(a), n)
  BY <1>2, <1>3, SameSums, Zenon DEF Finance!average_order_value
<1> QED
  BY <1>4, <1>5, <1>6, <1>7, Zenon

-----------------------------------------------------------------------------
(* A sum of integers is one.                                                  *)
LEMMA TotalTyped ==
  ASSUME NEW n \in Nat, NEW a \in [1 .. n -> Int]
  PROVE  Total(a) \in Int
BY TotalUnfolds

(* The sum of products of n numbers, and the sum of products of deviations *)
Dot(u, v, n) == Total([i \in 1 .. n |-> u[i] * v[i]])
Codev(u, v, n) == n * Dot(u, v, n) - Total(u) * Total(v)

(* _linear_slope, the variances and the correlation are made of these. *)
LEMMA CodeviationIs ==
  ASSUME NEW n \in Nat, NEW u \in [1 .. n -> Int], NEW v \in [1 .. n -> Int]
  PROVE  /\ DataScientist!Codeviation(u, v) = Codev(u, v, n)
         /\ Dot(u, v, n) \in Int /\ Total(u) \in Int /\ Total(v) \in Int /\ Codev(u, v, n) \in Int
<1>1. DOMAIN u = 1 .. n /\ Len(u) = n
  OBVIOUS
<1>2. \A a : DataScientist!Total(a) = Total(a)
  BY SameSums
<1>3. DataScientist!Product(u, v) = Dot(u, v, n)
  BY <1>1, <1>2, Zenon DEF DataScientist!Product, Dot
<1>4. DataScientist!Codeviation(u, v) = Codev(u, v, n)
  BY <1>1, <1>2, <1>3, Zenon DEF DataScientist!Codeviation, Codev
<1>5. PICK w : w = [i \in 1 .. n |-> u[i] * v[i]]
  OBVIOUS
<1>6. w \in [1 .. n -> Int]
  BY <1>5
<1>7. Total(u) \in Int /\ Total(v) \in Int /\ Total(w) \in Int
  BY <1>6, TotalTyped
<1>8. Dot(u, v, n) \in Int
  BY <1>5, <1>7 DEF Dot
<1>9. Codev(u, v, n) \in Int
  BY <1>7, <1>8 DEF Codev
<1> QED
  BY <1>4, <1>7, <1>8, <1>9

(* Neither the order of the pairs nor that of the two matters. *)
LEMMA CodevReversed ==
  ASSUME NEW n \in Nat, NEW u \in [1 .. n -> Int], NEW v \in [1 .. n -> Int],
         NEW x \in [1 .. n -> Int], NEW y \in [1 .. n -> Int], Mirrors(u, x, n), Mirrors(v, y, n)
  PROVE  Total(x) = Total(u) /\ Total(y) = Total(v) /\ Codev(x, y, n) = Codev(u, v, n)
<1>0. PICK a : a = [i \in 1 .. n |-> u[i] * v[i]]
  OBVIOUS
<1>1. PICK b : b = [i \in 1 .. n |-> x[i] * y[i]]
  OBVIOUS
<1>2. a \in [1 .. n -> Int] /\ b \in [1 .. n -> Int]
  BY <1>0, <1>1, SMTT(30)
<1>3. \A i \in 1 .. n : /\ (n - i) + 1 \in 1 .. n
                        /\ x[i] = u[(n - i) + 1] /\ y[i] = v[(n - i) + 1]
  BY DEF Mirrors
<1>4. \A i \in 1 .. n : b[i] = a[(n - i) + 1]
  BY <1>0, <1>1, <1>3
<1>5. Total(x) = Total(u) /\ Total(y) = Total(v) /\ Total(b) = Total(a)
  BY <1>2, <1>3, <1>4, TotalReversed, ZenonT(40)
<1> QED
  BY <1>0, <1>1, <1>5, Zenon DEF Codev, Dot

(* Nor does the variance of a series depend on its order.                     *)
LEMMA VarianceReversed ==
  ASSUME NEW n \in Nat, NEW s \in [1 .. n -> Int], NEW r \in [1 .. n -> Int], Mirrors(s, r, n)
  PROVE  Total(r) = Total(s) /\ Codev(r, r, n) = Codev(s, s, n)
<1>1. Total(r) = Total(s)
  BY CodevReversed
<1>2. Codev(r, r, n) = Codev(s, s, n)
  BY CodevReversed
<1> QED
  BY <1>1, <1>2

(* Which of the two series comes first does not matter.                       *)
LEMMA CodevSwapped ==
  ASSUME NEW n \in Nat, NEW u \in [1 .. n -> Int], NEW v \in [1 .. n -> Int]
  PROVE  Codev(u, v, n) = Codev(v, u, n)
<1>1. [i \in 1 .. n |-> u[i] * v[i]] = [i \in 1 .. n |-> v[i] * u[i]]
  OBVIOUS
<1>2. Dot(u, v, n) = Dot(v, u, n)
  BY <1>1, Zenon DEF Dot
<1>3. Total(u) * Total(v) = Total(v) * Total(u)
  <2>1. Total(u) \in Int /\ Total(v) \in Int
    BY CodeviationIs
  <2> QED
    BY <2>1
<1> QED
  BY <1>2, <1>3, Zenon DEF Codev

(* Products with one number, and with the places from either end *)
LEMMA DotScaled ==
  ASSUME NEW n \in Nat, NEW u \in [1 .. n -> Int], NEW c \in Int
  PROVE  Total([i \in 1 .. n |-> u[i] * c]) = c * Total(u)
<1>1. PICK f \in [0 .. n -> Int] :
        f[0] = 0 /\ (\A i \in 1 .. n : f[i] = f[i - 1] + u[i]) /\ Total(u) = f[n]
  BY TotalUnfolds
<1>2. PICK w, g : w = [i \in 1 .. n |-> u[i] * c] /\ g = [i \in 0 .. n |-> c * f[i]]
  OBVIOUS
<1>3. w \in [1 .. n -> Int] /\ g[0] = 0 /\ g[n] = c * f[n]
  BY <1>1, <1>2
<1>4. ASSUME NEW i \in 1 .. n PROVE g[i] = g[i - 1] + w[i]
  <2>0. i \in 0 .. n /\ i - 1 \in 0 .. n /\ f[i - 1] \in Int /\ u[i] \in Int
    BY <1>1
  <2>1. PICK x \in Int, y \in Int : x = f[i - 1] /\ y = u[i] /\ f[i] = x + y
    BY <1>1, <2>0
  <2>2. g[i] = c * (x + y) /\ g[i - 1] = c * x /\ w[i] = y * c
    BY <1>2, <2>0, <2>1
  <2>3. c * (x + y) = c * x + y * c
    BY <2>1
  <2> QED
    BY <2>2, <2>3
<1>5. Total(w) = g[n]
  BY <1>3, <1>4, TotalIs
<1> QED
  BY <1>1, <1>2, <1>3, <1>5

(* Indices counted from the end, from those counted from the front            *)
LEMMA DotPlaces ==
  ASSUME NEW n \in Nat, NEW s \in [1 .. n -> Int]
  PROVE  Total([i \in 1 .. n |-> (n - i) * s[i]]) =
           (n - 1) * Total(s) - Total([i \in 1 .. n |-> (i - 1) * s[i]])
<1>1. PICK a, e, j, k : /\ a = [i \in 1 .. n |-> (i - 1) * s[i]] /\ e = [i \in 1 .. n |-> (n - i) * s[i]]
                        /\ j = n - 1 /\ k = -1
  OBVIOUS
<1>2. a \in [1 .. n -> Int] /\ e \in [1 .. n -> Int] /\ j \in Int /\ k \in Int
  BY <1>1
<1>3. Combines(e, n, j, s, k, a)
  <2> SUFFICES ASSUME NEW i \in 1 .. n PROVE e[i] = j * s[i] + k * a[i]
    BY DEF Combines
  <2>1. PICK y \in Int : y = s[i]
    OBVIOUS
  <2>2. e[i] = (n - i) * y /\ a[i] = (i - 1) * y
    BY <1>1, <2>1
  <2>3. (n - i) * y = (n - 1) * y + (-1) * ((i - 1) * y)
    OBVIOUS
  <2> QED
    BY <1>1, <2>1, <2>2, <2>3
<1>4. Total(s) \in Int /\ Total(a) \in Int
  BY <1>2, TotalTyped
<1>5. Total(e) = j * Total(s) + k * Total(a)
  BY <1>2, <1>3, TotalLinear
<1> QED
  BY <1>1, <1>4, <1>5

(* What never changes deviates from nothing. *)
Flat(v, n, c) == \A i \in 1 .. n : v[i] = c

(* Nothing varies together with a constant.                                   *)
LEMMA CodevConstant ==
  ASSUME NEW n \in Nat, NEW u \in [1 .. n -> Int], NEW v \in [1 .. n -> Int], NEW c \in Int,
         Flat(v, n, c)
  PROVE  Total(v) = n * c /\ Codev(u, v, n) = 0
<1>1. [i \in 1 .. n |-> u[i] * v[i]] = [i \in 1 .. n |-> u[i] * c]
  BY DEF Flat
<1>2. Dot(u, v, n) = c * Total(u)
  BY <1>1, DotScaled, ZenonT(40) DEF Dot
<1>3. Total(v) = n * c
  BY TotalSame DEF Flat
<1>4. PICK t \in Int : t = Total(u)
  BY TotalTyped
<1>5. n * (c * t) - t * (n * c) = 0
  OBVIOUS
<1> QED
  BY <1>2, <1>3, <1>4, <1>5 DEF Codev

(* The slope's numerator, of a series read backwards *)
Counts(x, n) == \A i \in 1 .. n : x[i] = i - 1

(* _linear_slope: the series read backwards has the opposite numerator.       *)
LEMMA SlopeReversed ==
  ASSUME NEW n \in Nat, NEW x \in [1 .. n -> Int], Counts(x, n),
         NEW s \in [1 .. n -> Int], NEW r \in [1 .. n -> Int], Mirrors(s, r, n)
  PROVE  Codev(x, r, n) = -Codev(x, s, n)
<1>1. PICK a, b, e : /\ a = [i \in 1 .. n |-> (i - 1) * s[i]] /\ b = [i \in 1 .. n |-> (i - 1) * r[i]]
                     /\ e = [i \in 1 .. n |-> (n - i) * s[i]]
  OBVIOUS
<1>2. a \in [1 .. n -> Int] /\ b \in [1 .. n -> Int] /\ e \in [1 .. n -> Int]
  BY <1>1, SMTT(30)
<1>3. \A i \in 1 .. n : (n - i) + 1 \in 1 .. n /\ r[i] = s[(n - i) + 1]
  BY DEF Mirrors
<1>4. ASSUME NEW i \in 1 .. n PROVE e[i] = b[(n - i) + 1]
  <2>1. PICK j \in 1 .. n : j = (n - i) + 1 /\ (n - j) + 1 = i
    OBVIOUS
  <2>2. r[j] = s[i] /\ j - 1 = n - i
    BY <1>3, <2>1
  <2> QED
    BY <1>1, <2>1, <2>2
<1>5. Total(e) = Total(b) /\ Total(r) = Total(s)
  BY <1>2, <1>3, <1>4, TotalReversed, ZenonT(40)
<1>6. Total(e) = (n - 1) * Total(s) - Total(a)
  BY <1>1, DotPlaces, Zenon
<1>7. Total(x) \in Int /\ 2 * Total(x) = n * (n - 1)
  BY IndicesTotal DEF Counts
<1>8. PICK t \in Int, p \in Int, h \in Int : t = Total(s) /\ p = Total(a) /\ h = Total(x)
  BY <1>2, <1>7, TotalTyped
<1>9. Dot(x, s, n) = p /\ Dot(x, r, n) = (n - 1) * t - p
  <2>1. /\ [i \in 1 .. n |-> x[i] * s[i]] = [i \in 1 .. n |-> (i - 1) * s[i]]
        /\ [i \in 1 .. n |-> x[i] * r[i]] = [i \in 1 .. n |-> (i - 1) * r[i]]
    BY DEF Counts
  <2> QED
    BY <1>1, <1>5, <1>6, <1>8, <2>1, Zenon DEF Dot
<1>10. n * ((n - 1) * t - p) - h * t = -(n * p - h * t)
  <2>1. n * ((n - 1) * t - p) = (n * (n - 1)) * t - n * p
    OBVIOUS
  <2>2. (n * (n - 1)) * t = (2 * h) * t
    BY <1>7, <1>8
  <2> QED
    BY <2>1, <2>2
<1> QED
  BY <1>5, <1>8, <1>9, <1>10, Zenon DEF Codev

(* The squares of n numbers a * x - b, from the sums of squares and of x *)
Shifted(a, b, p, q, n) == a * a * p - 2 * a * b * q + n * (b * b)

(* One number more                                                            *)
LEMMA SquareStep ==
  ASSUME NEW a \in Int, NEW b \in Int, NEW p \in Int, NEW q \in Int, NEW y \in Int, NEW i \in Int
  PROVE  Shifted(a, b, p + y * y, q + y, i) = Shifted(a, b, p, q, i - 1) + (a * y - b) * (a * y - b)
BY DEF Shifted

(* The sums of squares at a = n and b = t, the deviations from the mean       *)
LEMMA SquaresOfDeviations ==
  ASSUME NEW n \in Int, NEW q \in Int, NEW t \in Int
  PROVE  n * n * q - 2 * n * t * t + n * (t * t) = n * (n * q - t * t)
OBVIOUS

(* Twice a number of a range is no further from the two ends' sum than the    *)
(* range is wide.                                                             *)
LEMMA SquaresInRange ==
  ASSUME NEW h \in Int, NEW l \in Int, NEW m \in Int, m = l + h, NEW y \in Int, l <= y, y <= h
  PROVE  (2 * y - m) * (2 * y - m) <= (h - l) * (h - l)
<1>1. (h - y) * (y - l) >= 0
  OBVIOUS
<1>2. (h - l) * (h - l) - (2 * y - (l + h)) * (2 * y - (l + h)) = 4 * ((h - y) * (y - l))
  OBVIOUS
<1>3. PICK a \in Int, b \in Int, c \in Int :
        a = (h - l) * (h - l) /\ b = (2 * y - (l + h)) * (2 * y - (l + h)) /\ c = (h - y) * (y - l)
  OBVIOUS
<1>4. a - b = 4 * c /\ c >= 0
  BY <1>1, <1>2, <1>3
<1>5. b <= a
  BY <1>3, <1>4
<1> QED
  BY <1>3, <1>5

(* The sums of squares at a = 2 and b = m bound the variance.                 *)
LEMMA SquaresOfRange ==
  ASSUME NEW n \in Nat, NEW q \in Int, NEW t \in Int, NEW m \in Int, NEW r \in Int,
         2 * 2 * q - 2 * 2 * m * t + n * (m * m) <= n * r
  PROVE  4 * (n * q - t * t) <= (n * n) * r
<1>1. n * (2 * 2 * q - 2 * 2 * m * t + n * (m * m)) = 4 * (n * q - t * t) + (2 * t - n * m) * (2 * t - n * m)
  OBVIOUS
<1>2. PICK a \in Int, b \in Int : a = 2 * 2 * q - 2 * 2 * m * t + n * (m * m) /\ b = n * r
  OBVIOUS
<1>3. n * a <= n * b
  BY <1>2
<1>4. n * b = (n * n) * r
  BY <1>2
<1>5. PICK z : z = 2 * t - n * m
  OBVIOUS
<1>6. z \in Int
  BY <1>5
<1>7. z * z >= 0 /\ z * z \in Int
  BY <1>6
<1>8. n * a = 4 * (n * q - t * t) + z * z
  BY <1>1, <1>2, <1>5, Zenon
<1>9. PICK w, u, v : w = n * q - t * t /\ u = z * z /\ v = n * a
  OBVIOUS
<1>10. w \in Int /\ u \in Int /\ v \in Int
  BY <1>2, <1>7, <1>9
<1>11. v = 4 * w + u /\ u >= 0 /\ v <= (n * n) * r
  BY <1>3, <1>4, <1>7, <1>8, <1>9
<1>12. PICK k \in Int : k = (n * n) * r
  OBVIOUS
<1> QED
  BY <1>9, <1>10, <1>11, <1>12

(* The sum of the squares of a * x[i] - b *)
LEMMA SquaresShifted ==
  ASSUME NEW n \in Nat, NEW x \in [1 .. n -> Int], NEW a \in Int, NEW b \in Int
  PROVE  Total([i \in 1 .. n |-> (a * x[i] - b) * (a * x[i] - b)]) = Shifted(a, b, Dot(x, x, n), Total(x), n)
<1>1. PICK w : w = [i \in 1 .. n |-> x[i] * x[i]]
  OBVIOUS
<1>2. w \in [1 .. n -> Int]
  BY <1>1
<1>3. PICK f \in [0 .. n -> Int] :
        f[0] = 0 /\ (\A i \in 1 .. n : f[i] = f[i - 1] + w[i]) /\ Total(w) = f[n]
  BY <1>2, TotalUnfolds
<1>4. PICK t \in [0 .. n -> Int] :
        t[0] = 0 /\ (\A i \in 1 .. n : t[i] = t[i - 1] + x[i]) /\ Total(x) = t[n]
  BY TotalUnfolds
<1>5. PICK e, g : /\ e = [i \in 1 .. n |-> (a * x[i] - b) * (a * x[i] - b)]
                  /\ g = [i \in 0 .. n |-> Shifted(a, b, f[i], t[i], i)]
  OBVIOUS
<1>6. e \in [1 .. n -> Int]
  <2> SUFFICES ASSUME NEW i \in 1 .. n PROVE (a * x[i] - b) * (a * x[i] - b) \in Int
    BY <1>5
  <2> QED
    OBVIOUS
<1>7. \A i \in 0 .. n : g[i] = Shifted(a, b, f[i], t[i], i)
  BY <1>5
<1>8. g[0] = 0
  <2>1. 0 \in 0 .. n /\ Shifted(a, b, 0, 0, 0) = 0
    BY DEF Shifted
  <2> QED
    BY <1>3, <1>4, <1>7, <2>1
<1>9. ASSUME NEW i \in 1 .. n PROVE g[i] = g[i - 1] + e[i]
  <2>1. i \in 0 .. n /\ i - 1 \in 0 .. n
    OBVIOUS
  <2>2. f[i - 1] \in Int /\ t[i - 1] \in Int /\ x[i] \in Int
    BY <1>3, <1>4, <2>1
  <2>3. PICK p, q, y : p = f[i - 1] /\ q = t[i - 1] /\ y = x[i]
    OBVIOUS
  <2>4. f[i] = p + y * y /\ t[i] = q + y /\ e[i] = (a * y - b) * (a * y - b)
    BY <1>1, <1>3, <1>4, <1>5, <2>3
  <2>5. g[i] = Shifted(a, b, p + y * y, q + y, i) /\ g[i - 1] = Shifted(a, b, p, q, i - 1)
    BY <1>7, <2>1, <2>3, <2>4, Zenon
  <2>6. Shifted(a, b, p + y * y, q + y, i) = Shifted(a, b, p, q, i - 1) + (a * y - b) * (a * y - b)
    <3>1. p \in Int /\ q \in Int /\ y \in Int /\ i \in Int
      BY <2>2, <2>3
    <3> QED
      BY <3>1, SquareStep
  <2> QED
    BY <2>4, <2>5, <2>6, Zenon
<1>10. Total(e) = g[n]
  BY <1>6, <1>8, <1>9, TotalIs
<1>11. n \in 0 .. n /\ Dot(x, x, n) = f[n] /\ Total(x) = t[n]
  BY <1>1, <1>3, <1>4 DEF Dot
<1> QED
  BY <1>5, <1>7, <1>10, <1>11, Zenon

(* The variance: n times it is the sum of the squares of the deviations, so *)
(* it is never negative and zero just for what never changes.               *)
Deviations(x, n) == [i \in 1 .. n |-> (n * x[i] - Total(x)) * (n * x[i] - Total(x))]

(* The squares of the deviations add up to n times the variance.              *)
LEMMA DeviationsTotal ==
  ASSUME NEW n \in Nat \ {0}, NEW x \in [1 .. n -> Int]
  PROVE  /\ Deviations(x, n) \in [1 .. n -> Nat]
         /\ Total(Deviations(x, n)) = n * Codev(x, x, n)
<1>1. PICK t \in Int, q \in Int : t = Total(x) /\ q = Dot(x, x, n)
  BY CodeviationIs
<1>2. Deviations(x, n) \in [1 .. n -> Nat]
  <2>1. ASSUME NEW i \in 1 .. n PROVE (n * x[i] - t) * (n * x[i] - t) \in Nat
    <3>1. PICK y \in Int : y = n * x[i] - t
      BY <1>1
    <3>2. y * y \in Nat
      BY <3>1
    <3> QED
      BY <3>1, <3>2
  <2> QED
    BY <1>1, <2>1 DEF Deviations
<1>3. Total(Deviations(x, n)) = n * n * q - 2 * n * t * t + n * (t * t)
  <2>1. n \in Int /\ t \in Int
    BY <1>1
  <2>2. Total([i \in 1 .. n |-> (n * x[i] - t) * (n * x[i] - t)]) =
          Shifted(n, t, Dot(x, x, n), Total(x), n)
    BY <2>1, SquaresShifted
  <2> QED
    BY <1>1, <2>2, Zenon DEF Deviations, Shifted
<1>4. n * n * q - 2 * n * t * t + n * (t * t) = n * (n * q - t * t)
  <2>1. n \in Int /\ t \in Int /\ q \in Int
    BY <1>1
  <2> QED
    BY <2>1, SquaresOfDeviations
<1> QED
  BY <1>1, <1>2, <1>3, <1>4, Zenon DEF Codev

(* The variance is never negative, and zero just for what never changes.      *)
LEMMA VarianceSign ==
  ASSUME NEW n \in Nat \ {0}, NEW x \in [1 .. n -> Int]
  PROVE  /\ Codev(x, x, n) \in Nat
         /\ Codev(x, x, n) = 0 => \A i, j \in 1 .. n : x[i] = x[j]
<1>1. PICK d, v : d = Deviations(x, n) /\ v = Codev(x, x, n)
  OBVIOUS
<1>2. d \in [1 .. n -> Nat] /\ Total(d) = n * v
  BY <1>1, DeviationsTotal
<1>3. v \in Int
  BY <1>1, CodeviationIs
<1>4. Total(d) \in Nat /\ (Total(d) = 0 <=> \A i \in 1 .. n : d[i] = 0)
  BY <1>2, TotalOfNaturals
<1>5. v \in Nat
  <2>1. v < 0 => n * v < 0
    BY <1>3
  <2> QED
    BY <1>2, <1>3, <1>4, <2>1
<1>6. ASSUME v = 0, NEW i \in 1 .. n, NEW j \in 1 .. n PROVE x[i] = x[j]
  <2>1. d[i] = 0 /\ d[j] = 0
    BY <1>2, <1>3, <1>4, <1>6
  <2>2. PICK t \in Int, y \in Int, z \in Int : t = Total(x) /\ y = x[i] /\ z = x[j]
    BY TotalTyped
  <2>3. (n * y - t) * (n * y - t) = 0 /\ (n * z - t) * (n * z - t) = 0
    BY <1>1, <2>1, <2>2 DEF Deviations
  <2>4. \A a \in Int : a * a = 0 => a = 0
    OBVIOUS
  <2>5. n * y - t \in Int /\ n * z - t \in Int
    BY <2>2
  <2>6. n * y - t = 0 /\ n * z - t = 0
    BY <2>3, <2>4, <2>5
  <2>7. n * y = n * z
    BY <2>2, <2>6, SMTT(30)
  <2>8. ~(y < z) /\ ~(z < y)
    BY <2>2, <2>7, Ordered
  <2> QED
    BY <2>2, <2>8
<1> QED
  BY <1>1, <1>5, <1>6

(* Popoviciu: the variance is at most a quarter of the square of the range. *)
LEMMA VarianceBounded ==
  ASSUME NEW n \in Nat \ {0}, NEW x \in [1 .. n -> Int], NEW l \in Int, NEW h \in Int,
         \A i \in 1 .. n : l <= x[i] /\ x[i] <= h
  PROVE  4 * Codev(x, x, n) <= (n * n) * ((h - l) * (h - l))
<1>1. PICK t, q, m, r : t = Total(x) /\ q = Dot(x, x, n) /\ m = l + h /\ r = (h - l) * (h - l)
  OBVIOUS
<1>2. t \in Int /\ q \in Int /\ m \in Int /\ r \in Int
  BY <1>1, CodeviationIs
<1>3. PICK e, c : e = [i \in 1 .. n |-> (2 * x[i] - m) * (2 * x[i] - m)] /\ c = [i \in 1 .. n |-> r]
  OBVIOUS
<1>4. Total(e) = 2 * 2 * q - 2 * 2 * m * t + n * (m * m)
  <2>1. 2 \in Int
    OBVIOUS
  <2>2. Total([i \in 1 .. n |-> (2 * x[i] - m) * (2 * x[i] - m)]) =
          Shifted(2, m, Dot(x, x, n), Total(x), n)
    BY <1>2, <2>1, SquaresShifted
  <2> QED
    BY <1>1, <1>3, <2>2, Zenon DEF Shifted
<1>5. Total(c) = n * r
  <2>1. c \in [1 .. n -> Int] /\ \A i \in 1 .. n : c[i] = r
    BY <1>2, <1>3
  <2> QED
    BY <1>2, <2>1, TotalSame
<1>6. ASSUME NEW i \in 1 .. n PROVE e[i] \in Int /\ c[i] \in Int /\ e[i] <= c[i]
  <2>1. PICK y : y = x[i] /\ y \in Int /\ l <= y /\ y <= h
    OBVIOUS
  <2>2. (2 * y - m) * (2 * y - m) <= r
    BY <1>1, <1>2, <2>1, SquaresInRange
  <2>3. e[i] = (2 * y - m) * (2 * y - m) /\ c[i] = r
    BY <1>3, <2>1
  <2>4. (2 * y - m) * (2 * y - m) \in Int
    BY <1>2, <2>1
  <2> QED
    BY <1>2, <2>2, <2>3, <2>4, Zenon
<1>7. e \in [1 .. n -> Int] /\ c \in [1 .. n -> Int]
  BY <1>3, <1>6
<1>8. Total(e) <= Total(c)
  BY <1>6, <1>7, TotalOrder
<1>9. 4 * (n * q - t * t) <= (n * n) * r
  <2>1. 2 * 2 * q - 2 * 2 * m * t + n * (m * m) <= n * r
    BY <1>4, <1>5, <1>8, Zenon
  <2> QED
    BY <1>2, <2>1, SquaresOfRange
<1> QED
  BY <1>1, <1>9, Zenon DEF Codev

-----------------------------------------------------------------------------
(* The library's operators, as DataScientist takes them *)
LEMMA SameSets ==
  /\ \A S : DataScientist!Cardinality(S) = Cardinality(S)
  /\ \A s : DataScientist!ToSet(s) = {s[i] : i \in DOMAIN s}
  /\ \A s : ToSet(s) = {s[i] : i \in DOMAIN s}
  /\ \A n, d : DataScientist!Quantize(n, d) = Quantize(n, d)
<1>1. \A S : DataScientist!Cardinality(S) = Cardinality(S)
  BY Zenon DEF Cardinality, DataScientist!Cardinality, IsFiniteSet, DataScientist!IsFiniteSet
<1>2. \A s : DataScientist!ToSet(s) = {s[i] : i \in DOMAIN s} /\ ToSet(s) = {s[i] : i \in DOMAIN s}
  BY Zenon DEF ToSet, DataScientist!ToSet
<1>3. \A n, d : DataScientist!Quantize(n, d) = Quantize(n, d)
  BY Zenon DEF Quantize, DataScientist!Quantize
<1> QED
  BY <1>1, <1>2, <1>3

(* A set of places has as many elements as a sum of ones. *)
Ones(F, n) == [i \in 1 .. n |-> IF i \in F THEN 1 ELSE 0]

(* As long as the set has one more element the sum has one more one.          *)
LEMMA CountTotal ==
  ASSUME NEW n \in Nat, NEW F \in SUBSET (1 .. n)
  PROVE  IsFiniteSet(F) /\ Cardinality(F) \in Nat /\ Total(Ones(F, n)) = Cardinality(F)
<1>1. IsFiniteSet(1 .. n)
  BY FS_Interval
<1>2. \A S : S \in SUBSET F => IsFiniteSet(S) /\ Cardinality(S) \in Nat
  BY <1>1, FS_Subset, FS_CardinalityType
<1>3. PICK a, g : a = Ones(F, n) /\ g = [m \in 0 .. n |-> Cardinality(F \cap (1 .. m))]
  OBVIOUS
<1>4. a \in [1 .. n -> Int]
  BY <1>3 DEF Ones
<1>5. g[0] = 0
  <2>1. F \cap (1 .. 0) = {}
    OBVIOUS
  <2> QED
    BY <1>3, <2>1, FS_EmptySet
<1>6. ASSUME NEW m \in 1 .. n PROVE g[m] = g[m - 1] + a[m]
  <2>1. PICK S, U : S = F \cap (1 .. (m - 1)) /\ U = F \cap (1 .. m)
    OBVIOUS
  <2>2. g[m] = Cardinality(U) /\ g[m - 1] = Cardinality(S)
    BY <1>3, <2>1
  <2>3. IsFiniteSet(S) /\ Cardinality(S) \in Nat /\ m \notin S
    BY <1>2, <2>1
  <2>4. CASE m \in F
    <3>1. U = S \cup {m}
      BY <2>1, <2>4
    <3>2. Cardinality(U) = Cardinality(S) + 1
      BY <2>3, <3>1, FS_AddElement
    <3>3. a[m] = 1
      BY <1>3, <2>4 DEF Ones
    <3> QED
      BY <2>2, <3>2, <3>3
  <2>5. CASE m \notin F
    <3>1. U = S
      BY <2>1, <2>5
    <3>2. a[m] = 0
      BY <1>3, <2>5 DEF Ones
    <3> QED
      BY <2>2, <2>3, <3>1, <3>2
  <2> QED
    BY <2>4, <2>5
<1>7. Total(a) = g[n]
  BY <1>4, <1>5, <1>6, TotalIs
<1>8. g[n] = Cardinality(F)
  <2>1. F \cap (1 .. n) = F
    OBVIOUS
  <2> QED
    BY <1>3, <2>1
<1> QED
  BY <1>2, <1>3, <1>7, <1>8

(* Chebyshev: few amounts exceed a bound. *)
LEMMA FewExceed ==
  ASSUME NEW n \in Nat, NEW a \in [1 .. n -> Nat], NEW K \in Nat,
         NEW F \in SUBSET (1 .. n), \A i \in F : a[i] > K
  PROVE  Cardinality(F) \in Nat /\ (K + 1) * Cardinality(F) <= Total(a)
<1>1. PICK c, k : c = Ones(F, n) /\ k = K + 1
  OBVIOUS
<1>2. c \in [1 .. n -> Int] /\ k \in Int
  BY <1>1 DEF Ones
<1>3. Cardinality(F) \in Nat /\ Total(c) = Cardinality(F)
  BY <1>1, CountTotal
<1>4. PICK b : b = [i \in 1 .. n |-> c[i] * k]
  OBVIOUS
<1>5. Total(b) = k * Total(c)
  BY <1>2, <1>4, DotScaled
<1>6. ASSUME NEW i \in 1 .. n PROVE b[i] \in Int /\ a[i] \in Int /\ b[i] <= a[i]
  <2>1. CASE i \in F
    <3>1. c[i] = 1 /\ a[i] > K
      BY <1>1, <2>1 DEF Ones
    <3>2. b[i] = k
      BY <1>2, <1>4, <3>1
    <3> QED
      BY <1>1, <3>1, <3>2
  <2>2. CASE i \notin F
    <3>1. c[i] = 0
      BY <1>1, <2>2 DEF Ones
    <3>2. b[i] = 0
      BY <1>2, <1>4, <3>1
    <3> QED
      BY <3>2
  <2> QED
    BY <2>1, <2>2
<1>7. b \in [1 .. n -> Int] /\ a \in [1 .. n -> Int]
  BY <1>4, <1>6
<1>8. Total(b) <= Total(a)
  BY <1>6, <1>7, TotalOrder
<1> QED
  BY <1>1, <1>3, <1>5, <1>8

(* anomaly_count *)
Far(s, n) ==
  {i \in 1 .. n : Codev(s, s, n) # 0 /\ Deviations(s, n)[i] > Threshold * Threshold * Codev(s, s, n)}

(* anomaly_count counts the places that are far from the mean.                *)
LEMMA AnomaliesAre ==
  ASSUME NEW n \in Nat, NEW s \in [1 .. n -> Int]
  PROVE  DataScientist!anomaly_count(s) = Cardinality(Far(s, n))
<1>1. DOMAIN s = 1 .. n /\ Len(s) = n
  OBVIOUS
<1>2. DataScientist!Codeviation(s, s) = Codev(s, s, n)
  BY CodeviationIs
<1>3. DataScientist!Total(s) = Total(s)
  BY SameSums
<1>4. \A i \in 1 .. n : Deviations(s, n)[i] = (n * s[i] - Total(s)) * (n * s[i] - Total(s))
  BY DEF Deviations
<1>5. DataScientist!anomaly_count(s) =
        DataScientist!Cardinality({i \in 1 .. n :
          Codev(s, s, n) # 0 /\
          (n * s[i] - Total(s)) * (n * s[i] - Total(s)) > Threshold * Threshold * Codev(s, s, n)})
  BY <1>1, <1>2, <1>3, Zenon DEF DataScientist!anomaly_count
<1>6. {i \in 1 .. n :
          Codev(s, s, n) # 0 /\
          (n * s[i] - Total(s)) * (n * s[i] - Total(s)) > Threshold * Threshold * Codev(s, s, n)} = Far(s, n)
  <2>1. ASSUME NEW i \in 1 .. n
        PROVE  (n * s[i] - Total(s)) * (n * s[i] - Total(s)) = Deviations(s, n)[i]
    BY <1>4
  <2> QED
    BY <2>1, Zenon DEF Far
<1> QED
  BY <1>5, <1>6, SameSets, Zenon

(* H times what C deviations add up to bounds C.                              *)
LEMMA FewFar ==
  ASSUME NEW n \in Nat \ {0}, NEW H \in Nat, NEW V \in Nat, NEW C \in Nat, V # 0,
         (H * V + 1) * C <= n * V
  PROVE  H * C < n
<1> SUFFICES ASSUME n <= H * C PROVE FALSE
  OBVIOUS
<1>1. PICK p \in Nat : p = H * C
  OBVIOUS
<1>2. (H * V + 1) * C = V * p + C
  BY <1>1
<1>3. V * n <= V * p
  BY <1>1
<1>4. C = 0
  <2>1. PICK a \in Nat, b \in Nat : a = V * p /\ b = V * n
    BY <1>1
  <2>2. n * V = b
    BY <2>1
  <2> QED
    BY <1>2, <1>3, <2>1, <2>2
<1> QED
  BY <1>4

(* Of n observations fewer than an n / Threshold^2 part are anomalies, and of *)
(* a constant series none.                                                    *)
LEMMA AnomaliesFew ==
  ASSUME NEW n \in Nat \ {0}, NEW s \in [1 .. n -> Int]
  PROVE  /\ Threshold * Threshold * Cardinality(Far(s, n)) < n
         /\ Codev(s, s, n) = 0 => Cardinality(Far(s, n)) = 0
<1>1. PICK H, V, F, C : /\ H = Threshold * Threshold /\ V = Codev(s, s, n)
                        /\ F = Far(s, n) /\ C = Cardinality(F)
  OBVIOUS
<1>2. H \in Nat
  BY <1>1, ToolsAssumption
<1>3. V \in Nat
  BY <1>1, VarianceSign
<1>4. V = 0 => F = {}
  BY <1>1 DEF Far
<1>5. V = 0 => C = 0
  BY <1>1, <1>4, FS_EmptySet
<1>6. CASE V # 0
  <2>1. PICK K, a : K = H * V /\ a = Deviations(s, n)
    OBVIOUS
  <2>2. K \in Nat /\ a \in [1 .. n -> Nat] /\ Total(a) = n * V
    BY <1>1, <1>2, <1>3, <2>1, DeviationsTotal
  <2>3. F \in SUBSET (1 .. n) /\ \A i \in F : a[i] > K
    BY <1>1, <2>1 DEF Far
  <2>4. C \in Nat /\ (K + 1) * C <= Total(a)
    BY <1>1, <2>2, <2>3, FewExceed
  <2>5. (H * V + 1) * C <= n * V
    BY <2>1, <2>2, <2>4, Zenon
  <2>6. H * C < n
    BY <1>2, <1>3, <1>6, <2>4, <2>5, FewFar
  <2> QED
    BY <1>1, <1>6, <2>6
<1>7. CASE V = 0
  BY <1>1, <1>2, <1>5, <1>7
<1> QED
  BY <1>6, <1>7

-----------------------------------------------------------------------------
(* min and max *)
Least(v) == CHOOSE x \in {v[i] : i \in DOMAIN v} : \A w \in {v[i] : i \in DOMAIN v} : x <= w
Greatest(v) == CHOOSE x \in {v[i] : i \in DOMAIN v} : \A w \in {v[i] : i \in DOMAIN v} : x >= w

(* min of a list that is not empty is one of its elements.                    *)
LEMMA SomeLeast ==
  ASSUME NEW n \in Nat \ {0}, NEW v \in [1 .. n -> Int]
  PROVE  \E i \in 1 .. n : \A j \in 1 .. n : v[i] <= v[j]
<1> DEFINE S == {m \in 0 .. n : m = 0 \/ \E i \in 1 .. m : \A j \in 1 .. m : v[i] <= v[j]}
<1>1. 0 \in S
  OBVIOUS
<1>2. ASSUME NEW m \in 1 .. n, m - 1 \in S PROVE m \in S
  <2>1. CASE m = 1
    <3>1. \A j \in 1 .. 1 : j = 1
      OBVIOUS
    <3>2. v[1] \in Int /\ 1 \in 1 .. 1
      BY <2>1
    <3> QED
      BY <2>1, <3>1, <3>2
  <2>2. CASE m # 1
    <3>1. PICK i \in 1 .. (m - 1) : \A j \in 1 .. (m - 1) : v[i] <= v[j]
      BY <1>2, <2>2
    <3>2. i \in 1 .. n /\ v[i] \in Int /\ v[m] \in Int /\ m \in 1 .. m /\ m \in 0 .. n /\ i \in 1 .. m
      OBVIOUS
    <3>3. \A j \in 1 .. m : j = m \/ j \in 1 .. (m - 1)
      OBVIOUS
    <3>4. \A j \in 1 .. m : v[j] \in Int
      OBVIOUS
    <3>5. CASE v[i] <= v[m]
      <4>1. \A j \in 1 .. m : v[i] <= v[j]
        BY <3>1, <3>3, <3>5
      <4> QED
        BY <3>2, <4>1
    <3>6. CASE v[m] <= v[i]
      <4>1. \A j \in 1 .. m : v[m] <= v[j]
        BY <3>1, <3>2, <3>3, <3>4, <3>6
      <4> QED
        BY <3>2, <4>1
    <3> QED
      BY <3>2, <3>5, <3>6
  <2> QED
    BY <2>1, <2>2
<1> HIDE DEF S
<1>3. 0 .. n \subseteq S
  BY <1>1, <1>2, BoundedInduction
<1>4. n \in S
  BY <1>3
<1> QED
  BY <1>4 DEF S

(* min and max bound every element and are elements.                          *)
LEMMA Extremes ==
  ASSUME NEW n \in Nat \ {0}, NEW v \in [1 .. n -> Int]
  PROVE  /\ Least(v) \in Int /\ Greatest(v) \in Int
         /\ \E i \in 1 .. n : v[i] = Least(v)
         /\ \E i \in 1 .. n : v[i] = Greatest(v)
         /\ \A i \in 1 .. n : Least(v) <= v[i] /\ v[i] <= Greatest(v)
<1>1. DOMAIN v = 1 .. n
  OBVIOUS
<1>2. PICK R : R = {v[i] : i \in DOMAIN v}
  OBVIOUS
<1>3. \A x : x \in R <=> \E i \in 1 .. n : x = v[i]
  BY <1>1, <1>2, Zenon
<1>4. PICK low : low \in R /\ \A w \in R : low <= w
  <2>1. PICK i \in 1 .. n : \A j \in 1 .. n : v[i] <= v[j]
    BY SomeLeast
  <2>2. v[i] \in R /\ \A w \in R : v[i] <= w
    BY <1>3, <2>1, Zenon
  <2> QED
    BY <2>2
<1>5. PICK high : high \in R /\ \A w \in R : high >= w
  <2>1. PICK u : u = [i \in 1 .. n |-> -v[i]]
    OBVIOUS
  <2>2. u \in [1 .. n -> Int] /\ \A i \in 1 .. n : u[i] = -v[i] /\ v[i] \in Int
    BY <2>1
  <2>3. PICK i \in 1 .. n : \A j \in 1 .. n : u[i] <= u[j]
    BY <2>2, SomeLeast
  <2>4. \A j \in 1 .. n : v[i] >= v[j]
    BY <2>2, <2>3
  <2>5. v[i] \in R /\ \A w \in R : v[i] >= w
    BY <1>3, <2>4, Zenon
  <2> QED
    BY <2>5
<1>6. Least(v) \in R /\ \A w \in R : Least(v) <= w
  BY <1>2, <1>4, Zenon DEF Least
<1>7. Greatest(v) \in R /\ \A w \in R : Greatest(v) >= w
  BY <1>2, <1>5, Zenon DEF Greatest
<1>8. \A i \in 1 .. n : v[i] \in Int /\ v[i] \in R
  BY <1>3
<1>9. PICK i \in 1 .. n : v[i] = Least(v)
  BY <1>3, <1>6
<1>10. PICK j \in 1 .. n : v[j] = Greatest(v)
  BY <1>3, <1>7
<1> QED
  BY <1>6, <1>7, <1>8, <1>9, <1>10

(* A mean, rounded, lies between the least and the greatest. *)
LEMMA MeanWithin ==
  ASSUME NEW n \in Nat \ {0}, NEW v \in [1 .. n -> Int], NEW l \in Int, NEW h \in Int,
         \A i \in 1 .. n : l <= v[i] /\ v[i] <= h
  PROVE  Quantize(Total(v), n) \in Int /\ l <= Quantize(Total(v), n) /\ Quantize(Total(v), n) <= h
<1>1. PICK a, b, t : a = [i \in 1 .. n |-> l] /\ b = [i \in 1 .. n |-> h] /\ t = Total(v)
  OBVIOUS
<1>2. a \in [1 .. n -> Int] /\ b \in [1 .. n -> Int] /\ t \in Int
  BY <1>1, TotalTyped
<1>3. Total(a) = n * l /\ Total(b) = n * h
  <2>1. \A i \in 1 .. n : a[i] = l /\ b[i] = h
    BY <1>1
  <2> QED
    BY <1>2, <2>1, TotalSame
<1>4. Total(a) <= t /\ t <= Total(b)
  <2>1. \A i \in 1 .. n : a[i] <= v[i] /\ v[i] <= b[i]
    BY <1>1
  <2> QED
    BY <1>1, <1>2, <2>1, TotalOrder
<1>5. l * n <= t /\ t <= h * n
  BY <1>2, <1>3, <1>4
<1>6. Quantize(t, n) \in Int
  BY <1>2, Rounded DEF Nearest
<1> QED
  BY <1>1, <1>2, <1>5, <1>6, RoundedBounds

(* forecast_summary: the line at the k-th index after a series of n, with   *)
(* the sum T, the sum I of the indices, and the slope N / D                 *)
Line(n, T, D, N, I, k) == T * D + N * (n * (n + k - 1) - I)

Forecast(n, T, D, N, I, k) == Quantize(Line(n, T, D, N, I, k), n * D)

(* From one index to a later one the line moves by the slope times the steps. *)
LEMMA LineSteps ==
  ASSUME NEW n \in Int, NEW T \in Int, NEW D \in Int, NEW N \in Int, NEW I \in Int,
         NEW k \in Int, NEW l \in Int
  PROVE  /\ Line(n, T, D, N, I, k) \in Int
         /\ Line(n, T, D, N, I, l) = Line(n, T, D, N, I, k) + N * (n * (l - k))
<1>1. n * (n + l - 1) - I = (n * (n + k - 1) - I) + n * (l - k)
  OBVIOUS
<1>2. PICK a \in Int, b \in Int, c \in Int : a = n * (n + k - 1) - I /\ b = n * (l - k) /\ c = T * D
  OBVIOUS
<1>3. c + N * (a + b) = (c + N * a) + N * b
  BY <1>2
<1>4. c + N * a \in Int
  BY <1>2
<1>5. Line(n, T, D, N, I, k) = c + N * a
  BY <1>2, Zenon DEF Line
<1>6. Line(n, T, D, N, I, l) = c + N * (a + b)
  BY <1>1, <1>2, Zenon DEF Line
<1> QED
  BY <1>2, <1>3, <1>4, <1>5, <1>6, Zenon

(* A slope of at most one half moves by at most half a unit a step.           *)
LEMMA SlopeOfStable ==
  ASSUME NEW n \in Nat \ {0}, NEW D \in Nat \ {0}, NEW N \in Int, NEW m \in Nat, 2 * N <= D, -(2 * N) <= D
  PROVE  2 * (N * (n * m)) <= (n * D) * m /\ -(2 * (N * (n * m))) <= (n * D) * m
<1>1. PICK p \in Nat : p = n * m
  OBVIOUS
<1>2. (2 * N) * p <= D * p /\ (-(2 * N)) * p <= D * p
  OBVIOUS
<1>3. D * p = (n * D) * m
  BY <1>1
<1>4. (2 * N) * p = 2 * (N * p) /\ (-(2 * N)) * p = -(2 * (N * p))
  OBVIOUS
<1> QED
  BY <1>1, <1>2, <1>3, <1>4

(* Two roundings add at most one to the distance.                             *)
LEMMA StableStep ==
  ASSUME NEW d \in Nat \ {0}, NEW a \in Int, NEW e \in Int, NEW m \in Nat, NEW x \in Int, NEW y \in Int,
         Nearest(x, a, d), Nearest(y, a + e, d), 2 * e <= d * m, -(2 * e) <= d * m
  PROVE  2 * (y - x) <= m + 2 /\ 2 * (x - y) <= m + 2
<1>1. PICK p \in Int, q \in Int, r \in Int : p = d * x /\ q = d * y /\ r = d * m
  OBVIOUS
<1>2. 2 * (a - p) <= d /\ 2 * (p - a) <= d /\ 2 * ((a + e) - q) <= d /\ 2 * (q - (a + e)) <= d
  BY <1>1 DEF Nearest
<1>3. 2 * e <= r /\ -(2 * e) <= r
  BY <1>1
<1>4. 2 * (q - p) <= r + 2 * d /\ 2 * (p - q) <= r + 2 * d
  BY <1>1, <1>2, <1>3
<1>5. d * (2 * (y - x)) = 2 * (q - p) /\ d * (2 * (x - y)) = 2 * (p - q) /\ d * (m + 2) = r + 2 * d
  BY <1>1
<1>6. \A z \in Int : m + 2 < z => d * (m + 2) < d * z
  BY Ordered
<1>7. 2 * (y - x) \in Int /\ 2 * (x - y) \in Int /\ m + 2 \in Int
  OBVIOUS
<1>8. ~(m + 2 < 2 * (y - x))
  BY <1>1, <1>4, <1>5, <1>6, <1>7
<1>9. ~(m + 2 < 2 * (x - y))
  BY <1>1, <1>4, <1>5, <1>6, <1>7
<1> QED
  BY <1>7, <1>8, <1>9

(* The forecasts go the way of the trend, and a trend that rounds to nothing *)
(* moves them by no more than half a unit a step, and a rounding.            *)
LEMMA ForecastsFollow ==
  ASSUME NEW n \in Nat \ {0}, NEW D \in Nat \ {0}, NEW T \in Int, NEW N \in Int, NEW I \in Int,
         NEW k \in Nat, NEW l \in Nat, k <= l
  PROVE  LET x == Forecast(n, T, D, N, I, k)
             y == Forecast(n, T, D, N, I, l)
         IN /\ x \in Int /\ y \in Int
            /\ N >= 0 => x <= y
            /\ N <= 0 => y <= x
            /\ Quantize(N, D) = 0 => 2 * (y - x) <= (l - k) + 2 /\ 2 * (x - y) <= (l - k) + 2
<1>0. PICK x, y : x = Forecast(n, T, D, N, I, k) /\ y = Forecast(n, T, D, N, I, l)
  OBVIOUS
<1>1. PICK d, a, b, m, e : /\ d = n * D /\ a = Line(n, T, D, N, I, k) /\ b = Line(n, T, D, N, I, l)
                           /\ m = l - k /\ e = N * (n * m)
  OBVIOUS
<1>2. d \in Nat \ {0} /\ m \in Nat /\ e \in Int
  <2>1. n * D > 0 /\ n * D \in Int
    OBVIOUS
  <2>2. n * m \in Int /\ m \in Nat
    BY <1>1
  <2> QED
    BY <1>1, <2>1, <2>2
<1>3. a \in Int /\ b = a + e
  BY <1>1, LineSteps
<1>4. Nearest(x, a, d) /\ Nearest(y, b, d) /\ x \in Int /\ y \in Int
  <2>1. b \in Int
    BY <1>2, <1>3
  <2> QED
    BY <1>0, <1>1, <1>2, <1>3, <2>1, Rounded DEF Nearest, Forecast
<1>5. N >= 0 => x <= y
  <2> SUFFICES ASSUME N >= 0 PROVE x <= y
    OBVIOUS
  <2>1. n * m \in Nat
    BY <1>2
  <2>2. e >= 0
    BY <1>1, <2>1
  <2>3. a <= b /\ b \in Int
    BY <1>2, <1>3, <2>2
  <2> QED
    BY <1>2, <1>3, <1>4, <2>3, NearestOrdered
<1>6. N <= 0 => y <= x
  <2> SUFFICES ASSUME N <= 0 PROVE y <= x
    OBVIOUS
  <2>1. n * m \in Nat
    BY <1>2
  <2>2. e <= 0
    BY <1>1, <2>1
  <2>3. b <= a /\ b \in Int
    BY <1>2, <1>3, <2>2
  <2> QED
    BY <1>2, <1>3, <1>4, <2>3, NearestOrdered
<1>7. Quantize(N, D) = 0 => 2 * (y - x) <= m + 2 /\ 2 * (x - y) <= m + 2
  <2> SUFFICES ASSUME Quantize(N, D) = 0 PROVE 2 * (y - x) <= m + 2 /\ 2 * (x - y) <= m + 2
    OBVIOUS
  <2>1. 2 * N <= D /\ -(2 * N) <= D
    <3>1. Nearest(0, N, D)
      BY Rounded
    <3>2. D * 0 = 0
      OBVIOUS
    <3> QED
      BY <3>1, <3>2 DEF Nearest
  <2>2. 2 * e <= d * m /\ -(2 * e) <= d * m
    BY <1>1, <1>2, <2>1, SlopeOfStable
  <2> QED
    BY <1>2, <1>3, <1>4, <2>2, StableStep
<1> QED
  BY <1>0, <1>1, <1>4, <1>5, <1>6, <1>7

(* trend_detection and forecast_summary, of a series of n integers *)
LEMMA TrendIs ==
  ASSUME NEW n \in Nat, n >= 2, NEW s \in [1 .. n -> Int]
  PROVE  LET x == [i \in 1 .. n |-> i - 1]
             N == Codev(x, s, n)
             D == Codev(x, x, n)
             t == DataScientist!trend_detection(s)
             f == DataScientist!forecast_summary(s)
         IN /\ x \in [1 .. n -> Int] /\ Counts(x, n)
            /\ N \in Int /\ D \in Nat \ {0} /\ Total(x) \in Int
            /\ t.slope = Quantize(N, D) /\ t.slope \in Int
            /\ t.direction = IF t.slope > 0 THEN "increasing"
                             ELSE IF t.slope < 0 THEN "decreasing" ELSE "stable"
            /\ f.values = [k \in 1 .. Horizon |-> Forecast(n, Total(s), D, N, Total(x), k)]
            /\ f.mean = Quantize(Total(f.values), Horizon)
            /\ f.minimum = Least(f.values) /\ f.maximum = Greatest(f.values)
<1>1. PICK x : x = [i \in 1 .. n |-> i - 1]
  OBVIOUS
<1>2. x \in [1 .. n -> Int] /\ Counts(x, n) /\ DOMAIN s = 1 .. n /\ Len(s) = n
  BY <1>1 DEF Counts
<1>3. DataScientist!Indices(s) = x
  BY <1>1, <1>2, Zenon DEF DataScientist!Indices
<1>4. PICK N, D, t, f : /\ N = Codev(x, s, n) /\ D = Codev(x, x, n)
                        /\ t = DataScientist!trend_detection(s) /\ f = DataScientist!forecast_summary(s)
  OBVIOUS
<1>5. DataScientist!SlopeNumerator(s) = N /\ DataScientist!SlopeDenominator(s) = D
  <2>1. /\ DataScientist!Codeviation(x, s) = Codev(x, s, n)
        /\ DataScientist!Codeviation(x, x) = Codev(x, x, n)
    BY <1>2, CodeviationIs
  <2> QED
    BY <1>3, <1>4, <2>1, Zenon DEF DataScientist!SlopeNumerator, DataScientist!SlopeDenominator
<1>6. N \in Int /\ D \in Int /\ D > 0 /\ Total(x) \in Int
  <2>1. N \in Int /\ D \in Int /\ Total(x) \in Int
    BY <1>2, <1>4, CodeviationIs
  <2>2. D > 0
    BY <1>2, <1>5, SlopeDefined
  <2> QED
    BY <2>1, <2>2
<1>7. D \in Nat \ {0}
  BY <1>6
<1>8. t = [slope |-> Quantize(N, D),
           direction |-> IF Quantize(N, D) > 0 THEN "increasing"
                         ELSE IF Quantize(N, D) < 0 THEN "decreasing" ELSE "stable"]
  BY <1>4, <1>5, SameSets, Zenon DEF DataScientist!trend_detection
<1>9. t.slope = Quantize(N, D) /\ t.slope \in Int
  BY <1>6, <1>7, <1>8, Rounded DEF Nearest
<1>10. t.direction = IF t.slope > 0 THEN "increasing" ELSE IF t.slope < 0 THEN "decreasing" ELSE "stable"
  BY <1>8, <1>9, Zenon
<1>11. PICK v : v = [k \in 1 .. Horizon |-> Forecast(n, Total(s), D, N, Total(x), k)]
  OBVIOUS
<1>12. f = [values |-> v, mean |-> Quantize(Total(v), Horizon), minimum |-> Least(v), maximum |-> Greatest(v)]
  <2>1. \A a : DataScientist!Total(a) = Total(a)
    BY SameSums
  <2>2. \A m, d : DataScientist!Quantize(m, d) = Quantize(m, d)
    BY SameSets
  <2>3. DataScientist!ToSet(v) = {v[i] : i \in DOMAIN v}
    BY SameSets
  <2>4. v = [k \in 1 .. Horizon |->
               DataScientist!Quantize(DataScientist!Total(s) * D + N * (n * (n + k - 1) - DataScientist!Total(x)), n * D)]
    BY <1>11, <2>1, <2>2, Zenon DEF Line, Forecast
  <2>5. f = [values |-> v, mean |-> DataScientist!Quantize(DataScientist!Total(v), Horizon),
             minimum |-> CHOOSE z \in DataScientist!ToSet(v) : \A w \in DataScientist!ToSet(v) : z <= w,
             maximum |-> CHOOSE z \in DataScientist!ToSet(v) : \A w \in DataScientist!ToSet(v) : z >= w]
    BY <1>2, <1>3, <1>4, <1>5, <2>4, Zenon DEF DataScientist!forecast_summary
  <2> QED
    BY <2>1, <2>2, <2>3, <2>5, Zenon DEF Least, Greatest
<1>13. f.values = v /\ f.mean = Quantize(Total(v), Horizon) /\ f.minimum = Least(v) /\ f.maximum = Greatest(v)
  BY <1>12
<1> QED
  BY <1>1, <1>2, <1>4, <1>6, <1>7, <1>9, <1>10, <1>11, <1>13, Zenon

(* The first forecast is the least of a rising trend and the greatest of a    *)
(* falling one, a stable one hardly moves, and the mean lies in between.      *)
LEMMA ForecastReconciles ==
  ASSUME NEW n \in Nat, n >= 2, NEW s \in [1 .. n -> Int]
  PROVE  LET t == DataScientist!trend_detection(s)
             ahead == DataScientist!forecast_summary(s)
         IN /\ t.direction = "increasing" => ahead.values[1] = ahead.minimum
            /\ t.direction = "decreasing" => ahead.values[1] = ahead.maximum
            /\ t.direction = "stable" => ahead.maximum - ahead.minimum <= (Horizon + 1) \div 2
            /\ ahead.mean \in ahead.minimum .. ahead.maximum
            /\ \E a \in 1 .. Horizon, b \in 1 .. Horizon :
                 /\ ahead.values[a] = ahead.minimum /\ ahead.minimum \in Int
                 /\ ahead.values[b] = ahead.maximum /\ ahead.maximum \in Int
<1>1. PICK x, N, D, t, f, v, I, T : /\ x = [i \in 1 .. n |-> i - 1]
        /\ N = Codev(x, s, n) /\ D = Codev(x, x, n) /\ I = Total(x) /\ T = Total(s)
        /\ t = DataScientist!trend_detection(s) /\ f = DataScientist!forecast_summary(s)
        /\ v = f.values
  OBVIOUS
<1>2. /\ N \in Int /\ D \in Nat \ {0} /\ I \in Int /\ t.slope = Quantize(N, D) /\ t.slope \in Int
      /\ t.direction = IF t.slope > 0 THEN "increasing" ELSE IF t.slope < 0 THEN "decreasing" ELSE "stable"
      /\ v = [k \in 1 .. Horizon |-> Forecast(n, T, D, N, I, k)]
      /\ f.mean = Quantize(Total(v), Horizon) /\ f.minimum = Least(v) /\ f.maximum = Greatest(v)
  BY <1>1, TrendIs
<1>3. n \in Nat \ {0} /\ T \in Int /\ Horizon \in Nat \ {0}
  <2>1. Total(s) \in Int
    BY TotalTyped
  <2>2. T = Total(s)
    BY <1>1, Zenon
  <2>3. Horizon \in Nat \ {0}
    BY ToolsAssumption
  <2> QED
    BY <2>1, <2>2, <2>3
<1>4. \A k \in 1 .. Horizon : v[k] = Forecast(n, T, D, N, I, k)
  BY <1>2
<1>5. ASSUME NEW k \in 1 .. Horizon, NEW l \in 1 .. Horizon, k <= l
      PROVE  /\ v[k] \in Int /\ v[l] \in Int
             /\ N >= 0 => v[k] <= v[l]
             /\ N <= 0 => v[l] <= v[k]
             /\ Quantize(N, D) = 0 => /\ 2 * (v[l] - v[k]) <= (l - k) + 2
                                      /\ 2 * (v[k] - v[l]) <= (l - k) + 2
  <2>1. k \in Nat /\ l \in Nat
    OBVIOUS
  <2>2. n \in Nat \ {0} /\ D \in Nat \ {0} /\ T \in Int /\ N \in Int /\ I \in Int
    BY <1>2, <1>3
  <2>3. PICK y, z : y = Forecast(n, T, D, N, I, k) /\ z = Forecast(n, T, D, N, I, l)
    OBVIOUS
  <2>4. /\ y \in Int /\ z \in Int
        /\ N >= 0 => y <= z
        /\ N <= 0 => z <= y
        /\ Quantize(N, D) = 0 => 2 * (z - y) <= (l - k) + 2 /\ 2 * (y - z) <= (l - k) + 2
    BY <1>5, <2>1, <2>2, <2>3, ForecastsFollow
  <2> QED
    BY <1>4, <2>3, <2>4
<1>6. v \in [1 .. Horizon -> Int]
  <2>1. \A k \in 1 .. Horizon : v[k] \in Int
    <3> SUFFICES ASSUME NEW k \in 1 .. Horizon PROVE v[k] \in Int
      OBVIOUS
    <3>1. k <= k
      BY <1>3
    <3> QED
      BY <1>5, <3>1
  <2> QED
    BY <1>2, <2>1
<1>7. PICK low \in Int, high \in Int, a \in 1 .. Horizon, b \in 1 .. Horizon :
        /\ low = Least(v) /\ high = Greatest(v) /\ v[a] = low /\ v[b] = high
        /\ \A i \in 1 .. Horizon : low <= v[i] /\ v[i] <= high
  BY <1>3, <1>6, Extremes
<1>8. 1 \in 1 .. Horizon /\ 1 <= a /\ 1 <= b /\ v[1] \in Int
  BY <1>3, <1>6, <1>7
<1>9. t.direction = "increasing" => v[1] = low
  <2> SUFFICES ASSUME t.direction = "increasing" PROVE v[1] = low
    OBVIOUS
  <2>1. t.slope > 0
    BY <1>2
  <2>2. N >= 0
    <3>1. N <= 0 * D => Quantize(N, D) <= 0
      BY <1>2, RoundedBounds
    <3>2. 0 * D = 0
      BY <1>2
    <3> QED
      BY <1>2, <2>1, <3>1, <3>2
  <2>3. v[1] <= v[a]
    BY <1>5, <1>8, <2>2, <1>7
  <2> QED
    BY <1>7, <1>8, <2>3
<1>10. t.direction = "decreasing" => v[1] = high
  <2> SUFFICES ASSUME t.direction = "decreasing" PROVE v[1] = high
    OBVIOUS
  <2>1. t.slope < 0
    BY <1>2
  <2>2. N <= 0
    <3>1. 0 * D <= N => 0 <= Quantize(N, D)
      BY <1>2, RoundedBounds
    <3>2. 0 * D = 0
      BY <1>2
    <3> QED
      BY <1>2, <2>1, <3>1, <3>2
  <2>3. v[b] <= v[1]
    BY <1>5, <1>8, <2>2, <1>7
  <2> QED
    BY <1>7, <1>8, <2>3
<1>11. t.direction = "stable" => high - low <= (Horizon + 1) \div 2
  <2> SUFFICES ASSUME t.direction = "stable" PROVE high - low <= (Horizon + 1) \div 2
    OBVIOUS
  <2>1. Quantize(N, D) = 0
    BY <1>2
  <2>2. 2 * (high - low) <= Horizon + 1
    <3>1. CASE a <= b
      <4>1. 2 * (v[b] - v[a]) <= (b - a) + 2
        BY <1>5, <1>7, <2>1, <3>1
      <4> QED
        BY <1>3, <1>7, <4>1
    <3>2. CASE b <= a
      <4>1. 2 * (v[b] - v[a]) <= (a - b) + 2
        BY <1>5, <1>7, <2>1, <3>2
      <4> QED
        BY <1>3, <1>7, <4>1
    <3> QED
      BY <1>7, <3>1, <3>2
  <2> QED
    BY <1>3, <1>7, <2>2
<1>12. Quantize(Total(v), Horizon) \in low .. high
  <2>1. \A i \in 1 .. Horizon : low <= v[i] /\ v[i] <= high
    BY <1>7
  <2>2. low \in Int /\ high \in Int
    BY <1>7
  <2>3. PICK m : m = Quantize(Total(v), Horizon)
    OBVIOUS
  <2>4. m \in Int /\ low <= m /\ m <= high
    BY <1>3, <1>6, <2>1, <2>2, <2>3, MeanWithin
  <2> QED
    BY <2>2, <2>3, <2>4
<1>13. \E i \in 1 .. Horizon, j \in 1 .. Horizon : v[i] = low /\ low \in Int /\ v[j] = high /\ high \in Int
  BY <1>7
<1> QED
  BY <1>1, <1>2, <1>7, <1>9, <1>10, <1>11, <1>12, <1>13, Zenon

-----------------------------------------------------------------------------
(* A part of a sequence, from its k-th element on *)
LEMMA PartIs ==
  ASSUME NEW n \in Nat, NEW s \in [1 .. n -> Int], NEW k \in Nat \ {0}, NEW w \in Nat, NEW m, m = k + w - 1, m <= n
  PROVE  SubSeq(s, k, m) \in [1 .. w -> Int] /\ SubSeq(s, k, m) = [j \in 1 .. w |-> s[k + j - 1]]
<1>1. s \in Seq(Int) /\ Len(s) = n
  OBVIOUS
<1>2. k \in 1 .. (Len(s) + 1) /\ m \in (k - 1) .. Len(s)
  BY <1>1
<1>3. /\ SubSeq(s, k, m) \in Seq(Int)
      /\ Len(SubSeq(s, k, m)) = IF k <= m THEN m - k + 1 ELSE 0
      /\ \A i \in 1 .. m - k + 1 : SubSeq(s, k, m)[i] = s[k + i - 1]
  BY <1>1, <1>2, SubSeqProperties
<1>4. PICK p : p = SubSeq(s, k, m)
  OBVIOUS
<1>5. m - k + 1 = w /\ (k <= m <=> w # 0)
  OBVIOUS
<1>6. p \in Seq(Int) /\ Len(p) = w /\ \A i \in 1 .. w : p[i] = s[k + i - 1]
  BY <1>3, <1>4, <1>5
<1>7. p \in [1 .. w -> Int]
  BY <1>6
<1> QED
  BY <1>4, <1>6, <1>7

(* moving_average *)
Part(s, k) == [j \in 1 .. Window |-> s[k + j - 1]]

(* Each average is of Window observations that stand next to each other.      *)
LEMMA AveragesAre ==
  ASSUME NEW n \in Nat, NEW s \in [1 .. n -> Int], Window <= n
  PROVE  /\ DataScientist!moving_average(s) = [k \in 1 .. n - Window + 1 |-> Quantize(Total(Part(s, k)), Window)]
         /\ Window \in Nat \ {0}
         /\ \A k \in 1 .. n - Window + 1 :
              /\ Part(s, k) \in [1 .. Window -> Int]
              /\ \A j \in 1 .. Window : k + j - 1 \in 1 .. n /\ Part(s, k)[j] = s[k + j - 1]
<1>1. Window \in Nat \ {0}
  BY ToolsAssumption
<1>2. ASSUME NEW k \in 1 .. n - Window + 1
      PROVE  SubSeq(s, k, k + Window - 1) = Part(s, k) /\ Part(s, k) \in [1 .. Window -> Int]
  <2>1. PICK m : m = k + Window - 1
    OBVIOUS
  <2>2. k \in Nat \ {0} /\ Window \in Nat /\ m <= n
    BY <1>1, <2>1
  <2> QED
    BY <2>1, <2>2, PartIs DEF Part
<1>3. Len(s) = n
  OBVIOUS
<1>4. DataScientist!moving_average(s) =
        [k \in 1 .. n - Window + 1 |->
           DataScientist!Quantize(DataScientist!Total(SubSeq(s, k, k + Window - 1)), Window)]
  BY <1>3, Zenon DEF DataScientist!moving_average
<1>5. \A k \in 1 .. n - Window + 1 :
        DataScientist!Quantize(DataScientist!Total(SubSeq(s, k, k + Window - 1)), Window) =
          Quantize(Total(Part(s, k)), Window)
  BY <1>2, SameSums, SameSets, Zenon
<1>6. DataScientist!moving_average(s) = [k \in 1 .. n - Window + 1 |-> Quantize(Total(Part(s, k)), Window)]
  BY <1>4, <1>5
<1>7. ASSUME NEW k \in 1 .. n - Window + 1, NEW j \in 1 .. Window
      PROVE  k + j - 1 \in 1 .. n /\ Part(s, k)[j] = s[k + j - 1]
  BY <1>1 DEF Part
<1> QED
  BY <1>1, <1>2, <1>6, <1>7

(* There are n - Window + 1 averages, and none leaves the observed range.     *)
LEMMA AveragesWithin ==
  ASSUME NEW n \in Nat, NEW s \in [1 .. n -> Int], Window <= n
  PROVE  LET m == DataScientist!moving_average(s)
         IN /\ Len(m) = n - Window + 1
            /\ \A k \in DOMAIN m : /\ m[k] \in Int
                                   /\ Least(s) <= m[k] /\ m[k] <= Greatest(s)
<1>1. PICK m, u : m = DataScientist!moving_average(s) /\ u = n - Window + 1
  OBVIOUS
<1>2. Window \in Nat \ {0} /\ n \in Nat \ {0} /\ u \in Nat
  BY <1>1, ToolsAssumption
<1>3. m = [k \in 1 .. u |-> Quantize(Total(Part(s, k)), Window)]
  BY <1>1, AveragesAre, Zenon
<1>4. DOMAIN m = 1 .. u
  BY <1>3
<1>5. PICK l, h : l = Least(s) /\ h = Greatest(s)
  OBVIOUS
<1>6. l \in Int /\ h \in Int /\ \A i \in 1 .. n : l <= s[i] /\ s[i] <= h
  BY <1>2, <1>5, Extremes
<1>7. ASSUME NEW k \in 1 .. u PROVE m[k] \in Int /\ l <= m[k] /\ m[k] <= h
  <2>1. PICK p : p = Part(s, k)
    OBVIOUS
  <2>2. p \in [1 .. Window -> Int] /\ \A j \in 1 .. Window : k + j - 1 \in 1 .. n /\ p[j] = s[k + j - 1]
    BY <1>1, <2>1, AveragesAre
  <2>3. \A j \in 1 .. Window : l <= p[j] /\ p[j] <= h
    BY <1>6, <2>2
  <2>4. PICK q : q = Quantize(Total(p), Window)
    OBVIOUS
  <2>5. q \in Int /\ l <= q /\ q <= h
    BY <1>2, <1>6, <2>2, <2>3, <2>4, MeanWithin
  <2>6. m[k] = q
    BY <1>3, <2>1, <2>4
  <2> QED
    BY <2>5, <2>6
<1>8. Len(m) = u
  BY <1>2, <1>3
<1> QED
  BY <1>1, <1>4, <1>5, <1>7, <1>8, Zenon

(* Read backwards the same averages come in reverse.                          *)
LEMMA AveragesReversed ==
  ASSUME NEW n \in Nat, NEW s \in [1 .. n -> Int], NEW r \in [1 .. n -> Int], Mirrors(s, r, n), Window <= n
  PROVE  DataScientist!moving_average(r) = Reverse(DataScientist!moving_average(s))
<1>1. PICK m, b, u : /\ m = DataScientist!moving_average(s) /\ b = DataScientist!moving_average(r)
                     /\ u = n - Window + 1
  OBVIOUS
<1>2. Window \in Nat \ {0} /\ u \in Nat
  BY <1>1, ToolsAssumption
<1>3. /\ m = [k \in 1 .. u |-> Quantize(Total(Part(s, k)), Window)]
      /\ b = [k \in 1 .. u |-> Quantize(Total(Part(r, k)), Window)]
  BY <1>1, AveragesAre, Zenon
<1>4. \A i \in 1 .. n : (n - i) + 1 \in 1 .. n /\ r[i] = s[(n - i) + 1]
  BY DEF Mirrors
<1>5. ASSUME NEW k \in 1 .. u PROVE (u - k) + 1 \in 1 .. u /\ b[k] = m[(u - k) + 1]
  <2>1. PICK l : l = (u - k) + 1
    OBVIOUS
  <2>2. l \in 1 .. u
    BY <1>2, <2>1
  <2>3. PICK p, q : p = Part(r, k) /\ q = Part(s, l)
    OBVIOUS
  <2>4. p \in [1 .. Window -> Int] /\ \A j \in 1 .. Window : k + j - 1 \in 1 .. n /\ p[j] = r[k + j - 1]
    BY <1>1, <2>3, AveragesAre, ZenonT(40)
  <2>5. q \in [1 .. Window -> Int] /\ \A j \in 1 .. Window : l + j - 1 \in 1 .. n /\ q[j] = s[l + j - 1]
    BY <1>1, <2>2, <2>3, AveragesAre, ZenonT(40)
  <2>6. ASSUME NEW j \in 1 .. Window PROVE p[j] = q[(Window - j) + 1]
    <3>1. (Window - j) + 1 \in 1 .. Window
      BY <1>2
    <3>2. q[(Window - j) + 1] = s[l + ((Window - j) + 1) - 1]
      BY <2>5, <3>1
    <3>3. p[j] = s[(n - (k + j - 1)) + 1]
      BY <1>4, <2>4
    <3>4. l + ((Window - j) + 1) - 1 = (n - (k + j - 1)) + 1
      BY <1>1, <1>2, <2>1
    <3> QED
      BY <3>2, <3>3, <3>4
  <2>7. Total(p) = Total(q)
    BY <1>2, <2>4, <2>5, <2>6, TotalReversed
  <2>8. b[k] = Quantize(Total(p), Window) /\ m[l] = Quantize(Total(q), Window)
    BY <1>3, <2>2, <2>3
  <2> QED
    BY <2>1, <2>2, <2>7, <2>8
<1>6. Len(m) = u
  BY <1>2, <1>3
<1>7. Reverse(m) = [i \in 1 .. u |-> m[(u - i) + 1]]
  BY <1>6, Zenon DEF Reverse
<1>8. b = [k \in 1 .. u |-> m[(u - k) + 1]]
  <2>1. b = [k \in 1 .. u |-> b[k]]
    BY <1>3
  <2> QED
    BY <1>5, <2>1
<1> QED
  BY <1>1, <1>7, <1>8

-----------------------------------------------------------------------------
(* confidence_interval_summary: of n numbers with the sum T and n times the  *)
(* sum of their squared deviations V, how far below the mean 1.96 roots reach *)
AtMost(n, V, a) == a <= 0 \/ 625 * a * a * (n - 1) <= 9604 * V

Bounds(n, V, T, b) == AtMost(n, V, 2 * T - n * (2 * b + 1)) /\ ~AtMost(n, V, 2 * T - n * (2 * b - 1))

(* Squares of natural numbers grow with them.                                 *)
LEMMA SquaresGrow ==
  ASSUME NEW a \in Int, NEW c \in Nat, c <= a
  PROVE  c * c <= a * a
<1>1. PICK d \in Nat : a = c + d
  <2>1. a - c \in Nat /\ a = c + (a - c)
    OBVIOUS
  <2> QED
    BY <2>1
<1>2. a * a = c * c + (2 * (c * d) + d * d)
  BY <1>1
<1>3. c * d \in Nat /\ d * d \in Nat
  OBVIOUS
<1> QED
  BY <1>2, <1>3

(* The square of a distance beyond the range                                  *)
LEMMA RangeSquared ==
  ASSUME NEW n \in Int, NEW r \in Int
  PROVE  (n * (2 * r + 3)) * (n * (2 * r + 3)) = (n * n) * (4 * (r * r) + 12 * r + 9)
OBVIOUS

(* A root of the variance of numbers in a range r is at most half of r. *)
LEMMA BeyondRange ==
  ASSUME NEW n \in Nat, n >= 2, NEW V \in Int, NEW r \in Nat, 4 * V <= (n * n) * (r * r),
         NEW a \in Int, n * (2 * r + 3) <= a
  PROVE  ~AtMost(n, V, a)
<1>1. PICK c, p, q, w, x :
        c = n * (2 * r + 3) /\ p = n * n /\ q = p * (r * r) /\ w = a * a /\ x = p * (4 * (r * r) + 12 * r + 9)
  OBVIOUS
<1>2. p \in Nat /\ p > 0 /\ r * r \in Nat /\ c \in Nat /\ c > 0
  <2>1. n * n > 0 /\ n * n \in Nat
    OBVIOUS
  <2>2. n * (2 * r + 3) > 0 /\ n * (2 * r + 3) \in Int
    OBVIOUS
  <2>3. r * r \in Nat
    OBVIOUS
  <2> QED
    BY <1>1, <2>1, <2>2, <2>3
<1>3. x = 4 * q + p * (12 * r + 9) /\ q \in Nat
  <2>1. PICK y \in Nat : y = r * r
    BY <1>2
  <2>2. p * (4 * y + 12 * r + 9) = 4 * (p * y) + p * (12 * r + 9)
    BY <1>2
  <2>3. p * y \in Nat
    BY <1>2
  <2> QED
    BY <1>1, <2>1, <2>2, <2>3
<1>4. p * (12 * r + 9) \in Int /\ p * (12 * r + 9) > 0
  <2>1. PICK y \in Nat \ {0} : y = 12 * r + 9
    OBVIOUS
  <2>2. p * y > 0 /\ p * y \in Int
    BY <1>2
  <2> QED
    BY <2>1, <2>2
<1>5. x <= w /\ w \in Int /\ x \in Int
  <2>1. c * c = x
    <3>1. r \in Int /\ n \in Int
      OBVIOUS
    <3>2. (n * (2 * r + 3)) * (n * (2 * r + 3)) = (n * n) * (4 * (r * r) + 12 * r + 9)
      BY <3>1, RangeSquared, Zenon
    <3> QED
      BY <1>1, <3>2, Zenon
  <2>2. c * c <= w /\ w \in Int
    BY <1>1, <1>2, SquaresGrow
  <2>3. c * c \in Int
    BY <1>2
  <2> QED
    BY <2>1, <2>2, <2>3
<1>6. 4 * V <= q /\ 4 * q < w
  <2>1. 4 * V <= q
    BY <1>1
  <2>2. 4 * q < w
    BY <1>3, <1>4, <1>5
  <2> QED
    BY <2>1, <2>2
<1>7. 9604 * V < 625 * w
  BY <1>3, <1>5, <1>6
<1>8. 625 * w <= 625 * a * a * (n - 1)
  <2>1. PICK m \in Nat : n - 1 = m + 1
    <3>1. n - 2 \in Nat /\ n - 1 = (n - 2) + 1
      OBVIOUS
    <3> QED
      BY <3>1
  <2>2. w \in Nat
    BY <1>3, <1>5, <1>6
  <2>3. 625 * a * a = 625 * w
    BY <1>1
  <2>4. (625 * w) * (m + 1) = 625 * w + (625 * w) * m /\ (625 * w) * m >= 0 /\ (625 * w) * m \in Int
    BY <2>2
  <2>5. 625 * a * a * (n - 1) = (625 * w) * (m + 1)
    BY <2>1, <2>3, ZenonT(40)
  <2> QED
    BY <2>2, <2>4, <2>5
<1>9. 625 * a * a * (n - 1) \in Int
  <2>1. PICK y \in Int : y = 625 * a * a
    OBVIOUS
  <2> QED
    BY <2>1
<1>10. ~(625 * a * a * (n - 1) <= 9604 * V)
  BY <1>5, <1>7, <1>8, <1>9
<1>11. ~(a <= 0)
  BY <1>1, <1>2
<1> QED
  BY <1>10, <1>11 DEF AtMost

(* What fails below and holds above begins to hold somewhere between. *)
LEMMA Begins ==
  ASSUME NEW low \in Int, NEW K \in Nat, NEW P, low - 1 \notin P, low + K \in P
  PROVE  \E b \in low .. low + K : b \in P /\ b - 1 \notin P
<1> SUFFICES ASSUME \A b \in low .. low + K : b \in P => b - 1 \in P PROVE FALSE
  OBVIOUS
<1> DEFINE S == {m \in 0 .. K + 1 : low + K - m \in P}
<1>1. 0 \in S
  <2>1. low + K - 0 = low + K /\ 0 \in 0 .. K + 1
    OBVIOUS
  <2> QED
    BY <2>1
<1>2. ASSUME NEW m \in 1 .. K + 1, m - 1 \in S PROVE m \in S
  <2>1. PICK b \in Int : b = low + K - (m - 1)
    OBVIOUS
  <2>2. b \in P
    BY <1>2, <2>1
  <2>3. b \in low .. low + K
    BY <2>1
  <2>4. b - 1 \in P
    BY <2>2, <2>3
  <2>5. b - 1 = low + K - m
    BY <2>1
  <2> QED
    BY <2>4, <2>5
<1> HIDE DEF S
<1>3. 0 .. K + 1 \subseteq S
  <2>1. K + 1 \in Nat
    OBVIOUS
  <2> QED
    BY <1>1, <1>2, <2>1, BoundedInduction
<1>4. K + 1 \in S
  BY <1>3
<1>5. low + K - (K + 1) = low - 1
  OBVIOUS
<1> QED
  BY <1>4, <1>5 DEF S

(* So the set that LowerBound chooses from is never empty.                    *)
LEMMA BoundExists ==
  ASSUME NEW n \in Nat, n >= 2, NEW V \in Int, NEW T \in Int, NEW l \in Int, NEW h \in Int, l <= h,
         l * n <= T, T <= h * n, 4 * V <= (n * n) * ((h - l) * (h - l))
  PROVE  \E b \in l - (h - l) - 1 .. h : Bounds(n, V, T, b)
<1>1. PICK r \in Nat, low \in Int, K \in Nat : r = h - l /\ low = l - (h - l) - 1 /\ K = h - low
  <2>1. h - l \in Nat /\ l - (h - l) - 1 \in Int /\ h - (l - (h - l) - 1) \in Nat
    OBVIOUS
  <2> QED
    BY <2>1
<1>0. \A b \in Int : n * (2 * b + 1) \in Int /\ 2 * T - n * (2 * b + 1) \in Int /\ n * b \in Int
  OBVIOUS
<1> DEFINE P == {b \in Int : AtMost(n, V, 2 * T - n * (2 * b + 1))}
<1> HIDE DEF P
<1>2. low - 1 \notin P
  <2>1. PICK a \in Int, p \in Int, q \in Int : a = 2 * T - n * (2 * (low - 1) + 1) /\ p = n * l /\ q = n * r
    <3>1. low - 1 \in Int /\ r \in Int
      OBVIOUS
    <3>2. 2 * T - n * (2 * (low - 1) + 1) \in Int /\ n * l \in Int /\ n * r \in Int
      BY <1>0, <3>1
    <3> QED
      BY <3>2
  <2>2. 2 * (low - 1) + 1 = 2 * l - (2 * r + 3)
    BY <1>1
  <2>3. n * (2 * l - (2 * r + 3)) = 2 * p - n * (2 * r + 3)
    BY <2>1
  <2>4. p <= T
    BY <2>1
  <2>5. n * (2 * r + 3) \in Int
    OBVIOUS
  <2>6. n * (2 * r + 3) <= a
    BY <2>1, <2>2, <2>3, <2>4, <2>5
  <2>7. 4 * V <= (n * n) * (r * r)
    BY <1>1
  <2>8. ~AtMost(n, V, a)
    BY <2>1, <2>6, <2>7, BeyondRange
  <2> QED
    BY <2>1, <2>8 DEF P
<1>3. low + K \in P
  <2>1. PICK a \in Int, p \in Int : a = 2 * T - n * (2 * h + 1) /\ p = n * h
    BY <1>0
  <2>2. n * (2 * h + 1) = 2 * p + n
    BY <2>1
  <2>3. T <= p
    BY <2>1
  <2>4. a <= 0
    BY <2>1, <2>2, <2>3
  <2>5. AtMost(n, V, a)
    BY <2>4 DEF AtMost
  <2>6. low + K = h
    BY <1>1
  <2> QED
    BY <2>1, <2>5, <2>6 DEF P
<1>4. PICK b \in low .. low + K : b \in P /\ b - 1 \notin P
  BY <1>2, <1>3, Begins
<1>5. b \in Int /\ b - 1 \in Int /\ 2 * (b - 1) + 1 = 2 * b - 1
  OBVIOUS
<1>6. Bounds(n, V, T, b)
  <2>1. AtMost(n, V, 2 * T - n * (2 * b + 1)) /\ ~AtMost(n, V, 2 * T - n * (2 * (b - 1) + 1))
    BY <1>4, <1>5 DEF P
  <2> QED
    BY <1>5, <2>1 DEF Bounds
<1>7. b \in l - (h - l) - 1 .. h
  BY <1>1, <1>4
<1> QED
  BY <1>6, <1>7

(* LowerBound, from its parts *)
FirstBound(k, v, t, x, y) ==
  CHOOSE bound \in x - (y - x) - 1 .. y :
    /\ \/ 2 * t - k * (2 * bound + 1) <= 0
       \/ 625 * (2 * t - k * (2 * bound + 1)) * (2 * t - k * (2 * bound + 1)) * (k - 1) <= 9604 * v
    /\ ~(\/ 2 * t - k * (2 * bound - 1) <= 0
         \/ 625 * (2 * t - k * (2 * bound - 1)) * (2 * t - k * (2 * bound - 1)) * (k - 1) <= 9604 * v)

(* LowerBound chooses among the bounds, and there is one.                     *)
LEMMA BoundIs ==
  ASSUME NEW n \in Nat, n >= 2, NEW s \in [1 .. n -> Int]
  PROVE  LET l == Least(s)
             h == Greatest(s)
             b == DataScientist!LowerBound(s)
         IN /\ b = CHOOSE x \in l - (h - l) - 1 .. h : Bounds(n, Codev(s, s, n), Total(s), x)
            /\ b \in l - (h - l) - 1 .. h /\ Bounds(n, Codev(s, s, n), Total(s), b)
<1>1. PICK l, h, V, T, b : /\ l = Least(s) /\ h = Greatest(s) /\ V = Codev(s, s, n) /\ T = Total(s)
                           /\ b = DataScientist!LowerBound(s)
  OBVIOUS
<1>2. n \in Nat \ {0} /\ Len(s) = n
  OBVIOUS
<1>3. V \in Int /\ T \in Int
  BY <1>1, CodeviationIs
<1>4. l \in Int /\ h \in Int /\ \A i \in 1 .. n : l <= s[i] /\ s[i] <= h
  BY <1>1, <1>2, Extremes
<1>5. DataScientist!Codeviation(s, s) = V /\ DataScientist!Total(s) = T
  BY <1>1, CodeviationIs, SameSums
<1>6. /\ l = CHOOSE x \in DataScientist!ToSet(s) : \A w \in DataScientist!ToSet(s) : x <= w
      /\ h = CHOOSE x \in DataScientist!ToSet(s) : \A w \in DataScientist!ToSet(s) : x >= w
  BY <1>1, SameSets, Zenon DEF Least, Greatest
<1>7. b = CHOOSE x \in l - (h - l) - 1 .. h : Bounds(n, V, T, x)
  <2>1. DataScientist!LowerBound(s) =
          FirstBound(Len(s), DataScientist!Codeviation(s, s), DataScientist!Total(s),
               CHOOSE x \in DataScientist!ToSet(s) : \A w \in DataScientist!ToSet(s) : x <= w,
               CHOOSE x \in DataScientist!ToSet(s) : \A w \in DataScientist!ToSet(s) : x >= w)
    BY DEF DataScientist!LowerBound, FirstBound
  <2>2. b = FirstBound(n, V, T, l, h)
    BY <1>1, <1>2, <1>5, <1>6, <2>1, Zenon
  <2>3. FirstBound(n, V, T, l, h) = CHOOSE x \in l - (h - l) - 1 .. h : Bounds(n, V, T, x)
    BY DEF Bounds, AtMost, FirstBound
  <2> QED
    BY <2>2, <2>3, Zenon
<1>8. \E x \in l - (h - l) - 1 .. h : Bounds(n, V, T, x)
  <2>1. 1 \in 1 .. n /\ s[1] \in Int
    OBVIOUS
  <2>2. l <= h
    BY <1>4, <2>1
  <2>3. l * n <= T /\ T <= h * n
    <3>1. PICK p, q : p = [i \in 1 .. n |-> l] /\ q = [i \in 1 .. n |-> h]
      OBVIOUS
    <3>2. p \in [1 .. n -> Int] /\ q \in [1 .. n -> Int]
      BY <1>4, <3>1
    <3>3. Total(p) = n * l
      BY <1>4, <3>1, <3>2, TotalSame
    <3>4. Total(q) = n * h
      BY <1>4, <3>1, <3>2, TotalSame
    <3>5. \A i \in 1 .. n : p[i] <= s[i] /\ s[i] <= q[i]
      BY <1>4, <3>1
    <3>6. Total(p) <= T
      BY <1>1, <3>2, <3>5, TotalOrder
    <3>7. T <= Total(q)
      BY <1>1, <3>2, <3>5, TotalOrder
    <3> QED
      BY <1>4, <3>3, <3>4, <3>6, <3>7
  <2>4. 4 * V <= (n * n) * ((h - l) * (h - l))
    BY <1>1, <1>2, <1>4, VarianceBounded
  <2> QED
    BY <1>3, <1>4, <2>2, <2>3, <2>4, BoundExists
<1>9. b \in l - (h - l) - 1 .. h /\ Bounds(n, V, T, b)
  BY <1>7, <1>8, Zenon
<1> QED
  BY <1>1, <1>7, <1>9, Zenon

(* The bound is not above the mean, and is it when nothing varies. *)
LEMMA BoundBelow ==
  ASSUME NEW n \in Nat \ {0}, NEW V \in Int, NEW T \in Int, NEW b \in Int, Bounds(n, V, T, b)
  PROVE  b <= Quantize(T, n)
<1>1. PICK q : q = Quantize(T, n)
  OBVIOUS
<1>2. Nearest(q, T, n) /\ q \in Int
  BY <1>1, Rounded DEF Nearest
<1>3. PICK x \in Int, y \in Int : x = n * q /\ y = n * b
  BY <1>2
<1>4. n * (2 * b - 1) = 2 * y - n
  BY <1>3
<1>5. ~(2 * T - n * (2 * b - 1) <= 0)
  BY DEF Bounds, AtMost
<1>6. 2 * (T - x) <= n
  BY <1>2, <1>3 DEF Nearest
<1>7. y < x + n
  BY <1>3, <1>4, <1>5, <1>6
<1>8. q < b => n * q + n <= n * b
  BY <1>2, Ordered
<1> QED
  BY <1>1, <1>2, <1>3, <1>7, <1>8

(* The bound of a constant series is that constant.                           *)
LEMMA BoundOfConstant ==
  ASSUME NEW n \in Nat, n >= 2, NEW c \in Int, NEW b \in Int, Bounds(n, 0, n * c, b)
  PROVE  b = c
<1>1. PICK x \in Int, y \in Int, a \in Int : x = n * c /\ y = n * b /\ a = 2 * (n * c) - n * (2 * b + 1)
  <2>1. n * (2 * b + 1) \in Int /\ n * c \in Int /\ n * b \in Int
    OBVIOUS
  <2>2. 2 * (n * c) - n * (2 * b + 1) \in Int
    BY <2>1
  <2> QED
    BY <2>1, <2>2
<1>2. n * (2 * b + 1) = 2 * y + n /\ n * (2 * b - 1) = 2 * y - n
  BY <1>1
<1>3. AtMost(n, 0, a)
  BY <1>1, Zenon DEF Bounds
<1>4. a <= 0
  <2> SUFFICES ASSUME ~(a <= 0) PROVE FALSE
    OBVIOUS
  <2>1. a > 0 /\ a \in Int
    BY <1>1
  <2>2. PICK m \in Nat \ {0} : m = n - 1
    OBVIOUS
  <2>3. PICK w \in Nat \ {0} : w = a * a
    <3>1. a * a > 0 /\ a * a \in Int
      BY <2>1
    <3> QED
      BY <3>1
  <2>4. 625 * a * a = 625 * w
    BY <2>3
  <2>5. (625 * w) * m > 0
    BY <2>2, <2>3
  <2>6. 625 * a * a * (n - 1) = (625 * w) * m
    BY <2>2, <2>4, ZenonT(40)
  <2>7. 625 * a * a * (n - 1) <= 9604 * 0
    BY <1>3, <2>1 DEF AtMost
  <2>8. (625 * w) * m \in Int
    OBVIOUS
  <2> QED
    BY <2>5, <2>6, <2>7, <2>8
<1>5. ~(2 * (n * c) - n * (2 * b - 1) <= 0)
  BY DEF Bounds, AtMost
<1>6. 2 * x <= 2 * y + n /\ 2 * y - n < 2 * x
  BY <1>1, <1>2, <1>4, <1>5
<1>7. b < c => n * b + n <= n * c
  BY Ordered
<1>8. c < b => n * c + n <= n * b
  BY Ordered
<1> QED
  BY <1>1, <1>6, <1>7, <1>8

(* The series with all signs changed *)
Negated(s) == [i \in DOMAIN s |-> -s[i]]

(* The sum changes its sign with them.                                        *)
LEMMA NegatedTotal ==
  ASSUME NEW n \in Nat, NEW s \in [1 .. n -> Int]
  PROVE  /\ Negated(s) \in [1 .. n -> Int] /\ \A i \in 1 .. n : Negated(s)[i] = -s[i]
         /\ Total(Negated(s)) = -Total(s)
<1>1. Negated(s) \in [1 .. n -> Int] /\ \A i \in 1 .. n : Negated(s)[i] = -s[i]
  BY DEF Negated
<1>2. Negated(s) = [i \in 1 .. n |-> s[i] * (-1)]
  BY DEF Negated
<1>3. Total(Negated(s)) = (-1) * Total(s)
  <2>1. -1 \in Int
    OBVIOUS
  <2> QED
    BY <1>2, <2>1, DotScaled
<1>4. Total(s) \in Int
  BY TotalTyped
<1> QED
  BY <1>1, <1>3, <1>4

(* The upper bound is the lower one of the negated series, negated.           *)
LEMMA IntervalIs ==
  ASSUME NEW n \in Nat, NEW s \in [1 .. n -> Int]
  PROVE  DataScientist!confidence_interval_summary(s) =
           [mean |-> Quantize(Total(s), n), lower |-> DataScientist!LowerBound(s),
            upper |-> -DataScientist!LowerBound(Negated(s))]
<1>1. Len(s) = n
  OBVIOUS
<1>2. DataScientist!Quantize(DataScientist!Total(s), n) = Quantize(Total(s), n)
  BY SameSums, SameSets, Zenon
<1> QED
  BY <1>1, <1>2, Zenon DEF DataScientist!confidence_interval_summary, Negated

(* The mean lies in the interval and in the observed range, and a constant    *)
(* series leaves no room between the bounds.                                  *)
LEMMA IntervalReconciles ==
  ASSUME NEW n \in Nat, n >= 2, NEW s \in [1 .. n -> Int]
  PROVE  LET i == DataScientist!confidence_interval_summary(s)
         IN /\ i.mean \in i.lower .. i.upper
            /\ i.mean \in Int /\ Least(s) <= i.mean /\ i.mean <= Greatest(s)
            /\ \A c \in Int : Flat(s, n, c) => i.lower = i.upper
<1>1. PICK i, q, b, o, d, T, u : /\ i = DataScientist!confidence_interval_summary(s)
        /\ q = Quantize(Total(s), n) /\ T = Total(s) /\ b = DataScientist!LowerBound(s)
        /\ o = Negated(s) /\ d = DataScientist!LowerBound(o) /\ u = Total(o)
  OBVIOUS
<1>2. i.mean = q /\ i.lower = b /\ i.upper = -d
  <2>1. i = [mean |-> q, lower |-> b, upper |-> -d]
    BY <1>1, IntervalIs, Zenon
  <2> QED
    BY <2>1
<1>3. n \in Nat \ {0} /\ T \in Int /\ u = -T /\ o \in [1 .. n -> Int] /\ \A j \in 1 .. n : o[j] = -s[j]
  BY <1>1, TotalTyped, NegatedTotal
<1>4. b \in Int /\ Bounds(n, Codev(s, s, n), T, b) /\ Codev(s, s, n) \in Int
  <2>1. Least(s) \in Int /\ Greatest(s) \in Int
    BY <1>3, Extremes
  <2>2. b \in Least(s) - (Greatest(s) - Least(s)) - 1 .. Greatest(s) /\ Bounds(n, Codev(s, s, n), T, b)
    BY <1>1, BoundIs
  <2>3. Codev(s, s, n) \in Int
    BY CodeviationIs
  <2> QED
    BY <2>1, <2>2, <2>3
<1>5. d \in Int /\ Bounds(n, Codev(o, o, n), u, d) /\ Codev(o, o, n) \in Int
  <2>1. Least(o) \in Int /\ Greatest(o) \in Int
    BY <1>3, Extremes
  <2>2. d \in Least(o) - (Greatest(o) - Least(o)) - 1 .. Greatest(o) /\ Bounds(n, Codev(o, o, n), u, d)
    BY <1>1, <1>3, BoundIs
  <2>3. Codev(o, o, n) \in Int
    BY <1>3, CodeviationIs
  <2> QED
    BY <2>1, <2>2, <2>3
<1>6. q \in Int /\ b <= q
  BY <1>1, <1>3, <1>4, BoundBelow, Rounded DEF Nearest
<1>7. d <= -q
  <2>0. u \in Int
    BY <1>3
  <2>1. d <= Quantize(u, n)
    BY <1>3, <1>5, <2>0, BoundBelow
  <2>2. Quantize(u, n) = -q
    BY <1>1, <1>3, RoundedOpposite
  <2> QED
    BY <2>1, <2>2
<1>8. Least(s) <= q /\ q <= Greatest(s)
  <2>1. PICK l, h : l = Least(s) /\ h = Greatest(s)
    OBVIOUS
  <2>2. l \in Int /\ h \in Int /\ \A j \in 1 .. n : l <= s[j] /\ s[j] <= h
    BY <1>3, <2>1, Extremes
  <2>3. l <= q /\ q <= h
    BY <1>1, <1>3, <2>2, MeanWithin
  <2> QED
    BY <2>1, <2>3
<1>9. ASSUME NEW c \in Int, Flat(s, n, c) PROVE b = -d
  <2>1. T = n * c /\ Codev(s, s, n) = 0
    BY <1>1, <1>9, CodevConstant
  <2>2. b = c
    BY <1>4, <2>1, BoundOfConstant
  <2>3. Flat(o, n, -c) /\ -c \in Int
    BY <1>3, <1>9 DEF Flat
  <2>4. u = n * (-c) /\ Codev(o, o, n) = 0
    BY <1>1, <1>3, <2>3, CodevConstant
  <2>5. d = -c
    BY <1>5, <2>3, <2>4, BoundOfConstant
  <2> QED
    BY <2>2, <2>5
<1>10. q \in b .. -d
  BY <1>4, <1>5, <1>6, <1>7
<1> QED
  BY <1>1, <1>2, <1>6, <1>8, <1>9, <1>10, Zenon

(* Nothing about the interval depends on the order. *)
LEMMA BoundReversed ==
  ASSUME NEW n \in Nat, n >= 2, NEW s \in [1 .. n -> Int], NEW r \in [1 .. n -> Int], Mirrors(s, r, n)
  PROVE  DataScientist!LowerBound(r) = DataScientist!LowerBound(s)
<1>1. Total(r) = Total(s) /\ Codev(r, r, n) = Codev(s, s, n)
  BY VarianceReversed
<1>2. \A i \in 1 .. n : (n - i) + 1 \in 1 .. n /\ r[i] = s[(n - i) + 1] /\ s[i] = r[(n - i) + 1]
  BY MirrorsBack DEF Mirrors
<1>3. DOMAIN r = 1 .. n /\ DOMAIN s = 1 .. n
  OBVIOUS
<1>4. {r[i] : i \in DOMAIN r} = {s[i] : i \in DOMAIN s}
  <2>1. ASSUME NEW x PROVE (\E i \in 1 .. n : x = r[i]) <=> (\E i \in 1 .. n : x = s[i])
    BY <1>2
  <2> QED
    BY <1>3, <2>1, Zenon
<1>5. Least(r) = Least(s) /\ Greatest(r) = Greatest(s)
  BY <1>4, Zenon DEF Least, Greatest
<1>6. DataScientist!LowerBound(s) =
        CHOOSE x \in Least(s) - (Greatest(s) - Least(s)) - 1 .. Greatest(s) :
          Bounds(n, Codev(s, s, n), Total(s), x)
  BY BoundIs, Zenon
<1>7. DataScientist!LowerBound(r) =
        CHOOSE x \in Least(r) - (Greatest(r) - Least(r)) - 1 .. Greatest(r) :
          Bounds(n, Codev(r, r, n), Total(r), x)
  BY BoundIs, Zenon
<1> QED
  BY <1>1, <1>5, <1>6, <1>7, Zenon

(* confidence_interval_summary of the series read backwards is the same.      *)
LEMMA IntervalReversed ==
  ASSUME NEW n \in Nat, n >= 2, NEW s \in [1 .. n -> Int], NEW r \in [1 .. n -> Int], Mirrors(s, r, n)
  PROVE  DataScientist!confidence_interval_summary(r) = DataScientist!confidence_interval_summary(s)
<1>1. PICK o, p : o = Negated(s) /\ p = Negated(r)
  OBVIOUS
<1>2. /\ o \in [1 .. n -> Int] /\ \A i \in 1 .. n : o[i] = -s[i]
      /\ p \in [1 .. n -> Int] /\ \A i \in 1 .. n : p[i] = -r[i]
  <2>1. o \in [1 .. n -> Int] /\ \A i \in 1 .. n : o[i] = -s[i]
    BY <1>1, NegatedTotal
  <2>2. p \in [1 .. n -> Int] /\ \A i \in 1 .. n : p[i] = -r[i]
    BY <1>1, NegatedTotal
  <2> QED
    BY <2>1, <2>2
<1>3. Mirrors(o, p, n)
  BY <1>2 DEF Mirrors
<1>4. DataScientist!LowerBound(p) = DataScientist!LowerBound(o)
  BY <1>2, <1>3, BoundReversed
<1>5. DataScientist!LowerBound(r) = DataScientist!LowerBound(s)
  BY BoundReversed
<1>6. Total(r) = Total(s)
  BY VarianceReversed
<1>7. DataScientist!confidence_interval_summary(s) =
        [mean |-> Quantize(Total(s), n), lower |-> DataScientist!LowerBound(s),
         upper |-> -DataScientist!LowerBound(o)]
  BY <1>1, IntervalIs, Zenon
<1>8. DataScientist!confidence_interval_summary(r) =
        [mean |-> Quantize(Total(r), n), lower |-> DataScientist!LowerBound(r),
         upper |-> -DataScientist!LowerBound(p)]
  BY <1>1, IntervalIs, Zenon
<1> QED
  BY <1>4, <1>5, <1>6, <1>7, <1>8, Zenon

-----------------------------------------------------------------------------
(* seasonality_indicator, of n observations and the w pairs a season apart *)
Pairs(n, w) == w = n - SeasonLength

Leading(s, w) == [j \in 1 .. w |-> s[1 + j - 1]]
Lagged(s, w) == [j \in 1 .. w |-> s[SeasonLength + 1 + j - 1]]

Season(N, D, w) ==
  [numerator |-> IF w >= 2 /\ D # 0 THEN N ELSE 0, denominator |-> IF w >= 2 /\ D # 0 THEN D ELSE 0,
   detected |-> (w >= 2 /\ D # 0) /\ N > 0 /\ 4 * N * N >= D]

(* What follows the first k elements                                          *)
LEMMA PartAfter ==
  ASSUME NEW n \in Nat, NEW s \in [1 .. n -> Int], NEW k \in Nat, NEW w \in Nat, k + w <= n
  PROVE  /\ SubSeq(s, k + 1, k + w) \in [1 .. w -> Int]
         /\ SubSeq(s, k + 1, k + w) = [j \in 1 .. w |-> s[k + 1 + j - 1]]
<1>1. PICK c \in Nat \ {0}, m \in Int : c = k + 1 /\ m = k + w
  OBVIOUS
<1>2. m = c + w - 1 /\ m <= n
  BY <1>1
<1>3. SubSeq(s, c, m) \in [1 .. w -> Int]
  BY <1>2, PartIs, Zenon
<1>4. SubSeq(s, c, m) = [j \in 1 .. w |-> s[c + j - 1]]
  BY <1>2, PartIs
<1> QED
  BY <1>1, <1>3, <1>4, Zenon

(* What leads at j lags at j + SeasonLength.                                  *)
LEMMA SeasonPlaces ==
  ASSUME NEW n \in Nat, NEW s, NEW w \in Nat \ {0}, Pairs(n, w), NEW j \in 1 .. w
  PROVE  /\ Leading(s, w)[j] = s[j] /\ Lagged(s, w)[j] = s[j + SeasonLength]
         /\ j \in 1 .. n /\ j + SeasonLength \in 1 .. n
<1>1. SeasonLength \in Nat \ {0}
  BY ToolsAssumption
<1>2. 1 + j - 1 = j /\ SeasonLength + 1 + j - 1 = j + SeasonLength
  BY <1>1
<1>3. Leading(s, w)[j] = s[1 + j - 1] /\ Lagged(s, w)[j] = s[SeasonLength + 1 + j - 1]
  BY DEF Leading, Lagged
<1> QED
  BY <1>1, <1>2, <1>3 DEF Pairs

(* The indicator, from the codeviations of the two parts                      *)
LEMMA SeasonIs ==
  ASSUME NEW n \in Nat, NEW s \in [1 .. n -> Int], NEW w \in Nat \ {0}, Pairs(n, w)
  PROVE  LET a == Leading(s, w)
             z == Lagged(s, w)
         IN /\ a \in [1 .. w -> Int] /\ z \in [1 .. w -> Int]
            /\ \A j \in 1 .. w : /\ a[j] = s[j] /\ z[j] = s[j + SeasonLength]
                                 /\ j \in 1 .. n /\ j + SeasonLength \in 1 .. n
            /\ DataScientist!seasonality_indicator(s) =
                 Season(Codev(a, z, w), Codev(a, a, w) * Codev(z, z, w), w)
<1>1. PICK a, z : a = Leading(s, w) /\ z = Lagged(s, w)
  OBVIOUS
<1>2. SeasonLength \in Nat \ {0} /\ Len(s) = n
  BY ToolsAssumption
<1>3. SubSeq(s, 1, n - SeasonLength) = a /\ a \in [1 .. w -> Int]
  <2>1. PICK m : m = n - SeasonLength
    OBVIOUS
  <2>2. 1 \in Nat \ {0} /\ w \in Nat /\ m = 1 + w - 1 /\ m <= n
    BY <1>2, <2>1 DEF Pairs
  <2> QED
    BY <1>1, <2>1, <2>2, PartIs DEF Leading
<1>4. SubSeq(s, SeasonLength + 1, n) = z /\ z \in [1 .. w -> Int]
  <2>1. SeasonLength \in Nat /\ w \in Nat /\ SeasonLength + w <= n /\ SeasonLength + w = n
    BY <1>2 DEF Pairs
  <2>2. SubSeq(s, SeasonLength + 1, SeasonLength + w) \in [1 .. w -> Int]
    BY <2>1, PartAfter, Zenon
  <2>3. SubSeq(s, SeasonLength + 1, SeasonLength + w) = [j \in 1 .. w |-> s[SeasonLength + 1 + j - 1]]
    BY <2>1, PartAfter
  <2> QED
    BY <1>1, <2>1, <2>2, <2>3, Zenon DEF Lagged
<1>5. \A j \in 1 .. w : /\ a[j] = s[j] /\ z[j] = s[j + SeasonLength]
                        /\ j \in 1 .. n /\ j + SeasonLength \in 1 .. n
  BY <1>1, SeasonPlaces
<1>6. Len(a) = w
  BY <1>3
<1>7. /\ DataScientist!Codeviation(a, z) = Codev(a, z, w)
      /\ DataScientist!Codeviation(a, a) = Codev(a, a, w)
      /\ DataScientist!Codeviation(z, z) = Codev(z, z, w)
  BY <1>3, <1>4, CodeviationIs
<1>8. DataScientist!seasonality_indicator(s) =
        Season(DataScientist!Codeviation(a, z),
               DataScientist!Codeviation(a, a) * DataScientist!Codeviation(z, z), Len(a))
  BY <1>2, <1>3, <1>4, Zenon DEF DataScientist!seasonality_indicator, Season
<1> QED
  BY <1>1, <1>3, <1>4, <1>5, <1>6, <1>7, <1>8, Zenon

(* A part that varies correlates wholly with itself.                          *)
LEMMA SeasonDetected ==
  ASSUME NEW V \in Nat \ {0}, NEW w \in Nat, w >= 2
  PROVE  Season(V, V * V, w).detected
<1>1. PICK p \in Nat \ {0} : p = V * V
  <2>1. V * V > 0 /\ V * V \in Int
    OBVIOUS
  <2> QED
    BY <2>1
<1>2. 4 * V * V = 4 * p
  BY <1>1
<1>3. p # 0 /\ V > 0 /\ 4 * p >= p
  OBVIOUS
<1>4. Season(V, V * V, w).detected <=> (w >= 2 /\ V * V # 0) /\ V > 0 /\ 4 * V * V >= V * V
  BY Zenon DEF Season
<1> QED
  BY <1>1, <1>2, <1>3, <1>4

(* A constant series has no season, and one that repeats its season has.      *)
LEMMA SeasonReconciles ==
  ASSUME NEW n \in Nat, NEW s \in [1 .. n -> Int], SeasonLength < n
  PROVE  LET detected == DataScientist!seasonality_indicator(s).detected
         IN /\ \A c \in Int : Flat(s, n, c) => ~detected
            /\ ~Flat(s, n, s[1]) /\ n >= 2 * SeasonLength
                 /\ (\A i \in 1 .. n - SeasonLength : s[i] = s[i + SeasonLength]) => detected
<1>1. SeasonLength \in Nat \ {0}
  BY ToolsAssumption
<1>2. PICK w \in Nat \ {0} : Pairs(n, w)
  BY <1>1 DEF Pairs
<1>3. PICK a, z, N, D, e : /\ a = Leading(s, w) /\ z = Lagged(s, w) /\ N = Codev(a, z, w)
                           /\ D = Codev(a, a, w) * Codev(z, z, w)
                           /\ e = DataScientist!seasonality_indicator(s)
  OBVIOUS
<1>4. /\ a \in [1 .. w -> Int] /\ z \in [1 .. w -> Int]
      /\ \A j \in 1 .. w : /\ a[j] = s[j] /\ z[j] = s[j + SeasonLength]
                           /\ j \in 1 .. n /\ j + SeasonLength \in 1 .. n
      /\ e = Season(N, D, w)
  BY <1>2, <1>3, SeasonIs, ZenonT(40)
<1>5. ASSUME NEW c \in Int, Flat(s, n, c) PROVE ~e.detected
  <2>1. Flat(a, w, c)
    BY <1>4, <1>5 DEF Flat
  <2>2. Codev(a, a, w) = 0
    BY <1>4, <2>1, CodevConstant
  <2>3. Codev(z, z, w) \in Int
    BY <1>4, CodeviationIs
  <2>4. D = 0
    BY <1>3, <2>2, <2>3
  <2> QED
    BY <1>4, <2>4 DEF Season
<1>6. ASSUME ~Flat(s, n, s[1]), n >= 2 * SeasonLength,
             \A i \in 1 .. n - SeasonLength : s[i] = s[i + SeasonLength]
      PROVE  e.detected
  <2>1. a = z
    <3>1. \A j \in 1 .. w : a[j] = z[j]
      BY <1>2, <1>4, <1>6 DEF Pairs
    <3> QED
      BY <1>4, <3>1
  <2>2. PICK V : V = Codev(a, a, w)
    OBVIOUS
  <2>3. V \in Nat /\ (V = 0 => \A i, j \in 1 .. w : a[i] = a[j])
    BY <1>4, <2>2, VarianceSign
  <2>4. ASSUME \A i, j \in 1 .. w : a[i] = a[j] PROVE FALSE
    <3>1. ASSUME NEW i \in 1 .. n PROVE s[i] = s[1]
      <4>1. 1 \in 1 .. w
        OBVIOUS
      <4>2. \A j \in 1 .. w : s[j] = s[1]
        BY <1>4, <2>4, <4>1
      <4>3. CASE i <= w
        BY <4>2, <4>3
      <4>4. CASE i > w
        <5>1. PICK k \in Int : k = i - SeasonLength
          BY <1>1
        <5>2. k \in 1 .. w /\ k + SeasonLength = i
          BY <1>1, <1>2, <1>6, <4>4, <5>1 DEF Pairs
        <5>3. s[k] = s[k + SeasonLength]
          BY <1>2, <1>6, <5>2 DEF Pairs
        <5> QED
          BY <4>2, <5>2, <5>3
      <4> QED
        BY <1>2, <4>3, <4>4
    <3> QED
      BY <1>6, <3>1 DEF Flat
  <2>5. V \in Nat \ {0}
    BY <2>3, <2>4
  <2>6. w >= 2
    <3> SUFFICES ASSUME w = 1 PROVE FALSE
      OBVIOUS
    <3>1. \A i, j \in 1 .. w : i = j
      OBVIOUS
    <3> QED
      BY <2>4, <3>1
  <2>7. N = V /\ D = V * V
    BY <1>3, <2>1, <2>2
  <2> QED
    BY <1>4, <2>5, <2>6, <2>7, SeasonDetected
<1> QED
  BY <1>3, <1>5, <1>6, Zenon

(* Read backwards, what leads lags. *)
LEMMA SeasonReversed ==
  ASSUME NEW n \in Nat, NEW s \in [1 .. n -> Int], NEW r \in [1 .. n -> Int], Mirrors(s, r, n),
         SeasonLength < n
  PROVE  DataScientist!seasonality_indicator(r) = DataScientist!seasonality_indicator(s)
<1>1. SeasonLength \in Nat \ {0}
  BY ToolsAssumption
<1>2. PICK w \in Nat \ {0} : Pairs(n, w)
  BY <1>1 DEF Pairs
<1>3. PICK a, z : a = Leading(s, w) /\ z = Lagged(s, w)
  OBVIOUS
<1>4. /\ a \in [1 .. w -> Int] /\ z \in [1 .. w -> Int]
      /\ \A j \in 1 .. w : /\ a[j] = s[j] /\ z[j] = s[j + SeasonLength]
                           /\ j \in 1 .. n /\ j + SeasonLength \in 1 .. n
      /\ DataScientist!seasonality_indicator(s) = Season(Codev(a, z, w), Codev(a, a, w) * Codev(z, z, w), w)
  <2>1. PICK e, N, D : /\ e = DataScientist!seasonality_indicator(s) /\ N = Codev(a, z, w)
                       /\ D = Codev(a, a, w) * Codev(z, z, w)
    OBVIOUS
  <2>2. a \in [1 .. w -> Int] /\ z \in [1 .. w -> Int] /\ e = Season(N, D, w)
    BY <1>2, <1>3, <2>1, SeasonIs, ZenonT(40)
  <2>3. \A j \in 1 .. w : /\ a[j] = s[j] /\ z[j] = s[j + SeasonLength]
                           /\ j \in 1 .. n /\ j + SeasonLength \in 1 .. n
    <3> SUFFICES ASSUME NEW j \in 1 .. w
                 PROVE  /\ a[j] = s[j] /\ z[j] = s[j + SeasonLength]
                        /\ j \in 1 .. n /\ j + SeasonLength \in 1 .. n
      OBVIOUS
    <3>1. Leading(s, w)[j] = s[1 + j - 1] /\ Lagged(s, w)[j] = s[SeasonLength + 1 + j - 1]
      BY DEF Leading, Lagged
    <3>2. 1 + j - 1 = j /\ SeasonLength + 1 + j - 1 = j + SeasonLength
      BY <1>1
    <3>3. j \in 1 .. n /\ j + SeasonLength \in 1 .. n
      BY <1>1, <1>2 DEF Pairs
    <3> QED
      BY <1>3, <3>1, <3>2, <3>3
  <2> QED
    BY <2>1, <2>2, <2>3, Zenon
<1>0. PICK b, y : b = Leading(r, w) /\ y = Lagged(r, w)
  OBVIOUS
<1>5. /\ b \in [1 .. w -> Int] /\ y \in [1 .. w -> Int]
      /\ \A j \in 1 .. w : /\ b[j] = r[j] /\ y[j] = r[j + SeasonLength]
                           /\ j \in 1 .. n /\ j + SeasonLength \in 1 .. n
      /\ DataScientist!seasonality_indicator(r) = Season(Codev(b, y, w), Codev(b, b, w) * Codev(y, y, w), w)
  BY <1>2, <1>0, SeasonIs, ZenonT(60)
<1>6. ASSUME NEW j \in 1 .. w
      PROVE  (w - j) + 1 \in 1 .. w /\ b[j] = z[(w - j) + 1] /\ y[j] = a[(w - j) + 1]
  <2>1. (w - j) + 1 \in 1 .. w
    BY <1>2
  <2>2. r[j] = s[(n - j) + 1] /\ r[j + SeasonLength] = s[(n - (j + SeasonLength)) + 1]
    BY <1>5 DEF Mirrors
  <2>3. (n - j) + 1 = ((w - j) + 1) + SeasonLength /\ (n - (j + SeasonLength)) + 1 = (w - j) + 1
    BY <1>1, <1>2 DEF Pairs
  <2> QED
    BY <1>4, <1>5, <2>1, <2>2, <2>3
<1>7. Mirrors(z, b, w) /\ Mirrors(a, y, w)
  BY <1>6 DEF Mirrors
<1>8. Codev(b, y, w) = Codev(z, a, w)
  BY <1>4, <1>5, <1>7, CodevReversed, ZenonT(40)
<1>9. Codev(z, a, w) = Codev(a, z, w)
  BY <1>4, CodevSwapped
<1>10. Codev(b, b, w) = Codev(z, z, w)
  BY <1>4, <1>5, <1>7, CodevReversed, ZenonT(40)
<1>11. Codev(y, y, w) = Codev(a, a, w)
  BY <1>4, <1>5, <1>7, CodevReversed, ZenonT(40)
<1>12. Codev(a, a, w) * Codev(z, z, w) = Codev(z, z, w) * Codev(a, a, w)
  <2>1. Codev(a, a, w) \in Int
    BY <1>4, CodeviationIs
  <2>2. Codev(z, z, w) \in Int
    BY <1>4, CodeviationIs
  <2> QED
    BY <2>1, <2>2
<1> QED
  BY <1>4, <1>5, <1>8, <1>9, <1>10, <1>11, <1>12, Zenon

-----------------------------------------------------------------------------
(* An observation is as far from the mean wherever it stands.                 *)
LEMMA AnomaliesReversed ==
  ASSUME NEW n \in Nat, NEW s \in [1 .. n -> Int], NEW r \in [1 .. n -> Int], Mirrors(s, r, n)
  PROVE  DataScientist!anomaly_count(r) = DataScientist!anomaly_count(s)
<1>1. PICK F, G, a, b : F = Far(s, n) /\ G = Far(r, n) /\ a = Ones(F, n) /\ b = Ones(G, n)
  OBVIOUS
<1>2. F \in SUBSET (1 .. n) /\ G \in SUBSET (1 .. n)
  BY <1>1 DEF Far
<1>3. Total(r) = Total(s) /\ Codev(r, r, n) = Codev(s, s, n)
  BY VarianceReversed
<1>4. \A i \in 1 .. n : (n - i) + 1 \in 1 .. n /\ r[i] = s[(n - i) + 1]
  BY DEF Mirrors
<1>5. ASSUME NEW i \in 1 .. n PROVE i \in G <=> (n - i) + 1 \in F
  <2>1. PICK j : j = (n - i) + 1
    OBVIOUS
  <2>2. j \in 1 .. n /\ r[i] = s[j]
    BY <1>4, <2>1
  <2>3. Deviations(r, n)[i] = Deviations(s, n)[j]
    BY <1>3, <2>2 DEF Deviations
  <2>4. i \in G <=> Codev(s, s, n) # 0 /\ Deviations(s, n)[j] > Threshold * Threshold * Codev(s, s, n)
    BY <1>1, <1>3, <2>3, Zenon DEF Far
  <2>5. j \in F <=> Codev(s, s, n) # 0 /\ Deviations(s, n)[j] > Threshold * Threshold * Codev(s, s, n)
    BY <1>1, <2>2, Zenon DEF Far
  <2> QED
    BY <2>1, <2>4, <2>5
<1>6. a \in [1 .. n -> Int] /\ b \in [1 .. n -> Int]
  BY <1>1 DEF Ones
<1>7. \A i \in 1 .. n : b[i] = a[(n - i) + 1]
  BY <1>1, <1>4, <1>5 DEF Ones
<1>8. Total(b) = Total(a)
  BY <1>6, <1>7, TotalReversed
<1>9. Total(a) = Cardinality(F)
  BY <1>1, <1>2, CountTotal
<1>10. Total(b) = Cardinality(G)
  BY <1>1, <1>2, CountTotal
<1> QED
  BY <1>1, <1>8, <1>9, <1>10, AnomaliesAre

(* The slope changes its sign, and is zero for what never changes.            *)
LEMMA TrendReversed ==
  ASSUME NEW n \in Nat, n >= 2, NEW s \in [1 .. n -> Int], NEW r \in [1 .. n -> Int], Mirrors(s, r, n)
  PROVE  LET t == DataScientist!trend_detection(s)
             u == DataScientist!trend_detection(r)
         IN /\ u.direction = Opposite[t.direction]
            /\ \A c \in Int : Flat(s, n, c) => t.slope = 0
<1>1. PICK x, N, M, D, t, u : /\ x = [i \in 1 .. n |-> i - 1] /\ N = Codev(x, s, n) /\ M = Codev(x, r, n)
        /\ D = Codev(x, x, n) /\ t = DataScientist!trend_detection(s) /\ u = DataScientist!trend_detection(r)
  OBVIOUS
<1>2. /\ x \in [1 .. n -> Int] /\ Counts(x, n) /\ N \in Int /\ D \in Nat \ {0}
      /\ t.slope = Quantize(N, D) /\ t.slope \in Int
      /\ t.direction = IF t.slope > 0 THEN "increasing" ELSE IF t.slope < 0 THEN "decreasing" ELSE "stable"
  BY <1>1, TrendIs
<1>3. /\ u.slope = Quantize(M, D) /\ u.slope \in Int
      /\ u.direction = IF u.slope > 0 THEN "increasing" ELSE IF u.slope < 0 THEN "decreasing" ELSE "stable"
  BY <1>1, TrendIs
<1>4. M = -N
  BY <1>1, <1>2, SlopeReversed
<1>5. u.slope = -t.slope
  BY <1>2, <1>3, <1>4, RoundedOpposite
<1>6. u.direction = Opposite[t.direction]
  <2>1. /\ Opposite["increasing"] = "decreasing" /\ Opposite["decreasing"] = "increasing"
        /\ Opposite["stable"] = "stable"
    BY DEF Opposite
  <2>2. CASE t.slope > 0
    BY <1>2, <1>3, <1>5, <2>1, <2>2
  <2>3. CASE t.slope < 0
    BY <1>2, <1>3, <1>5, <2>1, <2>3
  <2>4. CASE t.slope = 0
    BY <1>2, <1>3, <1>5, <2>1, <2>4
  <2> QED
    BY <1>2, <2>2, <2>3, <2>4
<1>7. ASSUME NEW c \in Int, Flat(s, n, c) PROVE t.slope = 0
  <2>1. N = 0
    BY <1>1, <1>2, <1>7, CodevConstant
  <2>2. 0 * D = 0
    BY <1>2
  <2>3. Quantize(0 * D, D) = 0
    BY <1>2, RoundedWhole
  <2> QED
    BY <1>2, <2>1, <2>2, <2>3
<1> QED
  BY <1>1, <1>6, <1>7, Zenon

(* What the tools report on a series of these observations *)
LEMMA ReportIs ==
  ASSUME NEW x, NEW s, s = DataScientist!normalized(x)
  PROVE  LET d == DataScientist!calculate_data_science_metrics(x)
         IN /\ d.trend_detection = DataScientist!trend_detection(s)
            /\ d.moving_average = DataScientist!moving_average(s)
            /\ d.forecast_summary = DataScientist!forecast_summary(s)
            /\ d.anomaly_count = DataScientist!anomaly_count(s)
            /\ d.seasonality_indicator = DataScientist!seasonality_indicator(s)
            /\ d.confidence_interval_summary = DataScientist!confidence_interval_summary(s)
BY DEF DataScientist!calculate_data_science_metrics

(* Between min and max there are observations on both sides.                  *)
LEMMA WithinObserved ==
  ASSUME NEW n \in Nat \ {0}, NEW s \in [1 .. n -> Int], NEW x, Least(s) <= x, x <= Greatest(s)
  PROVE  (\E i \in DOMAIN s : s[i] <= x) /\ (\E i \in DOMAIN s : x <= s[i])
<1>1. PICK i \in 1 .. n, j \in 1 .. n : s[i] = Least(s) /\ s[j] = Greatest(s)
  BY Extremes
<1>2. DOMAIN s = 1 .. n
  OBVIOUS
<1> QED
  BY <1>1, <1>2

-----------------------------------------------------------------------------
(* The client puts together rows and observations. *)
Typed ==
  /\ dataset \in Seq(Rows) /\ previous_dataset \in Seq(Rows)
  /\ Len(dataset) + Len(previous_dataset) <= MaxRows
  /\ series \in Seq(Observations \cup {NotFinite})

(* Every request the client puts together is of rows and of observations. *)
LEMMA AlwaysTyped == Spec => []Typed
<1>1. Init => Typed
  BY ToolsAssumption DEF Init, Typed
<1>2. Typed /\ [Next]_vars => Typed'
  <2> SUFFICES ASSUME Typed, [Next]_vars PROVE Typed'
    OBVIOUS
  <2>1. ASSUME NEW row \in Rows, AddOrder(row) PROVE Typed'
    <3>1. PICK n \in Nat, k \in Nat : n = Len(dataset) /\ k = Len(previous_dataset) /\ n + k < MaxRows
      BY <2>1 DEF AddOrder, Typed
    <3>2. CASE dataset' = Append(dataset, row) /\ UNCHANGED <<previous_dataset, series>>
      <4>1. Len(dataset') = n + 1 /\ Len(previous_dataset') = k /\ (n + 1) + k <= MaxRows
        BY <3>1, <3>2, ToolsAssumption DEF Typed
      <4> QED
        BY <3>2, <4>1 DEF Typed
    <3>3. CASE previous_dataset' = Append(previous_dataset, row) /\ UNCHANGED <<dataset, series>>
      <4>1. Len(dataset') = n /\ Len(previous_dataset') = k + 1 /\ n + (k + 1) <= MaxRows
        BY <3>1, <3>3, ToolsAssumption DEF Typed
      <4> QED
        BY <3>3, <4>1 DEF Typed
    <3> QED
      BY <2>1, <3>2, <3>3 DEF AddOrder
  <2>2. ASSUME NEW x \in Observations \cup {NotFinite}, Observe(x) PROVE Typed'
    BY <2>2 DEF Observe, Typed
  <2>3. CASE UNCHANGED vars
    BY <2>3 DEF vars, Typed
  <2> QED
    BY <2>1, <2>2, <2>3 DEF Next
<1> QED
  BY <1>1, <1>2, PTL DEF Spec

(* finance_tools: the margin and the growth are of this form.  It fits if x   *)
(* is at most Limit \div Hundred times y, and then only if it is at most one  *)
(* more.                                                                      *)
LEMMA RatioFits ==
  ASSUME NEW x \in Nat, NEW y \in Nat \ {0}, Hundred < Limit
  PROVE  LET q == Quantize((x - y) * Hundred, y)
             most == Limit \div Hundred
         IN /\ q \in Int /\ Quantize((y - x) * Hundred, y) = -q
            /\ Fits(q) => x <= (most + 1) * y
            /\ x <= most * y => Fits(q)
<1>1. PICK m : m = Limit \div Hundred
  OBVIOUS
<1>2. m \in Nat /\ Limit = 10000 * m /\ Limit \in Nat /\ 10000 < Limit
  BY <1>1, PrecisionAssumption DEF Hundred
<1>3. PICK k \in Int, n \in Int : k = m * y /\ n = (x - y) * 10000
  BY <1>2
<1>4. (m + 1) * y = k + y /\ Limit * y = 10000 * k /\ (Limit - 10000) * y = 10000 * k - 10000 * y
  BY <1>2, <1>3
<1>5. PICK q : q = Quantize(n, y)
  OBVIOUS
<1>6. q \in Int /\ Quantize(-n, y) = -q
  BY <1>5, Rounded, RoundedOpposite DEF Nearest
<1>7. -10000 <= q
  <2>1. (-10000) * y <= n
    BY <1>3
  <2> QED
    BY <1>5, <2>1, RoundedBounds
<1>8. x <= k => q <= Limit - 10000
  <2>1. Limit - 10000 \in Int /\ (x <= k => n <= (Limit - 10000) * y)
    BY <1>2, <1>3, <1>4
  <2> QED
    BY <1>5, <2>1, RoundedBounds
<1>9. ~(x <= k + y) => Limit <= q
  <2>1. Limit \in Int /\ (~(x <= k + y) => Limit * y <= n)
    BY <1>2, <1>3, <1>4
  <2> QED
    BY <1>5, <2>1, RoundedBounds
<1>10. (Fits(q) => x <= (m + 1) * y) /\ (x <= m * y => Fits(q))
  BY <1>2, <1>3, <1>4, <1>6, <1>7, <1>8, <1>9 DEF Fits
<1>11. n = (x - y) * Hundred /\ -n = (y - x) * Hundred
  BY <1>3 DEF Hundred
<1> QED
  BY <1>1, <1>5, <1>6, <1>10, <1>11, Zenon

(* total_for_column: all digits of the sum of a period are kept. *)
LEMMA TotalFits ==
  ASSUME NEW d \in Seq(Rows), NEW column \in {"revenue", "cost"}, Finance!ValidColumn(d, column),
         Len(d) <= MaxRows
  PROVE  Total(Column(d, column)) \in Nat /\ Total(Column(d, column)) < Limit
<1>1. PICK a, n : a = Column(d, column) /\ n = Len(d)
  OBVIOUS
<1>2. n \in Nat \ {0} /\ a \in [1 .. n -> Nat] /\ Total(a) \in Nat /\ a \in [1 .. n -> Int]
  BY <1>1, ColumnCounts
<1>3. PICK j \in 1 .. n : \A i \in 1 .. n : a[i] <= a[j]
  <2>1. PICK j \in 1 .. n : a[j] = Greatest(a)
    BY <1>2, Extremes
  <2>2. \A i \in 1 .. n : a[i] <= Greatest(a)
    BY <1>2, Extremes
  <2> QED
    BY <2>1, <2>2
<1>4. PICK g \in Nat : g = a[j]
  BY <1>2
<1>5. MaxRows * g < Limit
  <2>1. j \in DOMAIN d /\ d[j] \in Rows
    BY <1>1
  <2>2. d[j][column] \in Amounts /\ Finance!IsMoney(d[j][column])
    BY <2>1, RowFields DEF Amounts, Finance!ValidColumn
  <2>3. g = Quantize(d[j][column], 10)
    BY <1>1, <1>4, <2>1, SameSums DEF Column, Finance!to_money
  <2> QED
    BY <2>2, <2>3, MoneyIs
<1>6. Total(a) <= n * g
  <2>1. PICK b : b = [i \in 1 .. n |-> g]
    OBVIOUS
  <2>2. b \in [1 .. n -> Int] /\ \A i \in 1 .. n : b[i] = g /\ a[i] <= b[i]
    BY <1>3, <1>4, <2>1
  <2>3. Total(a) <= Total(b)
    BY <1>2, <2>2, TotalOrder
  <2>4. Total(b) = n * g
    BY <1>2, <2>2, TotalSame
  <2> QED
    BY <2>3, <2>4
<1>7. n * g <= MaxRows * g
  <2>1. PICK k \in Nat : MaxRows = n + k
    BY <1>1, <1>2, ToolsAssumption
  <2>2. PICK y \in Int, z \in Nat : y = n * g /\ z = k * g
    BY <1>2
  <2>3. (n + k) * g = y + z
    BY <1>2, <2>2
  <2>4. MaxRows * g = y + z
    BY <2>1, <2>3
  <2> QED
    BY <2>2, <2>4
<1>8. PICK y \in Int, z \in Int : y = n * g /\ z = MaxRows * g
  BY <1>2, ToolsAssumption
<1>9. Limit \in Nat
  BY PrecisionAssumption
<1> QED
  BY <1>1, <1>2, <1>5, <1>6, <1>7, <1>8, <1>9

(* A mean of naturals is no more than their sum. *)
LEMMA MeanOfSum ==
  ASSUME NEW t \in Nat, NEW n \in Nat \ {0}
  PROVE  Quantize(t, n) \in Int /\ 0 <= Quantize(t, n) /\ Quantize(t, n) <= t
<1>1. 0 * n <= t /\ t <= t * n
  <2>1. PICK k \in Nat : n = k + 1
    BY SMT
  <2>2. t * (k + 1) = t * k + t /\ t * k >= 0
    OBVIOUS
  <2> QED
    BY <2>1, <2>2
<1> QED
  BY <1>1, Rounded, RoundedBounds DEF Nearest

-----------------------------------------------------------------------------
Amount(value) == value \in Nat /\ value < 10 * Limit - 5

(* The rows of a period are read, and come to a cent. *)
Earned(d) ==
  /\ d # <<>> /\ \A i \in DOMAIN d : Amount(d[i].revenue) /\ Amount(d[i].cost)
  /\ \E i \in DOMAIN d : d[i].revenue > 5

EarnedBefore(p) ==
  /\ p # <<>> /\ \A i \in DOMAIN p : Amount(p[i].revenue)
  /\ \E i \in DOMAIN p : p[i].revenue > 5

CostWithin(d, k) == Finance!total_cost(d) <= k * Finance!total_revenue(d)
GrowthWithin(d, p, k) == Finance!total_revenue(d) <= k * Finance!total_revenue(p)

(* total_revenue, total_cost: which columns are read and what they come to    *)
LEMMA PeriodIs ==
  ASSUME NEW d \in Seq(Rows), Len(d) <= MaxRows
  PROVE  /\ Finance!ValidColumn(d, "revenue") <=> d # <<>> /\ \A i \in DOMAIN d : Amount(d[i].revenue)
         /\ Finance!ValidColumn(d, "cost") <=> d # <<>> /\ \A i \in DOMAIN d : Amount(d[i].cost)
         /\ Finance!ValidColumn(d, "revenue") =>
              /\ Finance!total_revenue(d) \in Nat /\ Finance!total_revenue(d) < Limit
              /\ Finance!total_revenue(d) # 0 <=> \E i \in DOMAIN d : d[i].revenue > 5
              /\ Hundred < Limit
         /\ Finance!ValidColumn(d, "cost") => Finance!total_cost(d) \in Nat /\ Finance!total_cost(d) < Limit
<1>1. ASSUME NEW i \in DOMAIN d
      PROVE  /\ d[i]["revenue"] = d[i].revenue /\ d[i]["cost"] = d[i].cost
             /\ Finance!IsMoney(d[i].revenue) <=> Amount(d[i].revenue)
             /\ Finance!IsMoney(d[i].cost) <=> Amount(d[i].cost)
  <2>1. d[i] \in Rows
    OBVIOUS
  <2>2. d[i].revenue \in Amounts /\ d[i].cost \in Amounts /\ d[i]["revenue"] = d[i].revenue /\ d[i]["cost"] = d[i].cost
    BY <2>1, RowFields DEF Amounts
  <2> QED
    BY <2>2, MoneyIs DEF Amount
<1>2. /\ Finance!ValidColumn(d, "revenue") <=> d # <<>> /\ \A i \in DOMAIN d : Amount(d[i].revenue)
      /\ Finance!ValidColumn(d, "cost") <=> d # <<>> /\ \A i \in DOMAIN d : Amount(d[i].cost)
  BY <1>1 DEF Finance!ValidColumn
<1>3. ASSUME Finance!ValidColumn(d, "revenue")
      PROVE  /\ Finance!total_revenue(d) \in Nat /\ Finance!total_revenue(d) < Limit
             /\ Finance!total_revenue(d) # 0 <=> \E i \in DOMAIN d : d[i].revenue > 5
             /\ Hundred < Limit
  <2>1. Finance!total_revenue(d) = Total(Column(d, "revenue")) /\ Len(d) \in Nat \ {0}
    BY <1>3, ColumnCounts DEF Finance!total_revenue
  <2>2. Hundred < Limit
    <3>1. MaxRows \in Nat \ {0} /\ Limit \in Nat /\ MaxRows * Hundred < Limit
      BY <2>1, ToolsAssumption, PrecisionAssumption
    <3> QED
      BY <3>1 DEF Hundred
  <2> QED
    BY <1>3, <2>1, <2>2, TotalFits, RevenueCounts
<1>4. ASSUME Finance!ValidColumn(d, "cost")
      PROVE  Finance!total_cost(d) \in Nat /\ Finance!total_cost(d) < Limit
  BY <1>4, ColumnCounts, TotalFits DEF Finance!total_cost
<1> QED
  BY <1>2, <1>3, <1>4

(* finance_tools: which requests calculate_kpis answers, and for which a      *)
(* percentage does not fit.                                                   *)
LEMMA FinanceExplained ==
  ASSUME NEW d \in Seq(Rows), NEW p \in Seq(Rows), Len(d) <= MaxRows, Len(p) <= MaxRows
  PROVE  LET most == Limit \div Hundred
             raised == Finance!Raises(d, p)
         IN /\ raised = "nothing" =>
                 /\ Earned(d) /\ EarnedBefore(p) /\ CostWithin(d, most + 1) /\ GrowthWithin(d, p, most + 1)
                 /\ Finance!total_revenue(d) > 0 /\ Finance!total_revenue(p) > 0
            /\ Earned(d) /\ EarnedBefore(p) /\ CostWithin(d, most) /\ GrowthWithin(d, p, most) =>
                 raised = "nothing"
            /\ raised = "InvalidOperation" =>
                 Earned(d) /\ (CostWithin(d, most) => EarnedBefore(p) /\ ~GrowthWithin(d, p, most))
<1>1. PICK most, raised, r, c, b, margin, growth :
        /\ most = Limit \div Hundred /\ raised = Finance!Raises(d, p)
        /\ r = Finance!total_revenue(d) /\ c = Finance!total_cost(d) /\ b = Finance!total_revenue(p)
        /\ margin = Finance!profit_margin(d) /\ growth = Finance!revenue_growth_rate(d, p)
  OBVIOUS
<1>2. PICK paid \in BOOLEAN, cost \in BOOLEAN, before \in BOOLEAN :
        /\ paid <=> Finance!ValidColumn(d, "revenue")
        /\ cost <=> Finance!ValidColumn(d, "cost")
        /\ before <=> Finance!ValidColumn(p, "revenue")
  BY Zenon
<1>3. raised = IF ~paid \/ ~cost THEN "InvalidDatasetError"
               ELSE IF r = 0 THEN "UndefinedMetricError"
               ELSE IF ~Fits(margin) THEN "InvalidOperation"
               ELSE IF ~before THEN "InvalidDatasetError"
               ELSE IF b = 0 THEN "UndefinedMetricError"
               ELSE IF ~Fits(growth) THEN "InvalidOperation"
               ELSE "nothing"
  BY <1>1, <1>2, SameSums, Zenon DEF Finance!Raises
<1>4. /\ paid => r \in Nat /\ Hundred < Limit
      /\ cost => c \in Nat
      /\ before => b \in Nat
      /\ Earned(d) <=> paid /\ cost /\ r # 0
      /\ EarnedBefore(p) <=> before /\ b # 0
  <2>1. /\ paid <=> d # <<>> /\ \A i \in DOMAIN d : Amount(d[i].revenue)
        /\ cost <=> d # <<>> /\ \A i \in DOMAIN d : Amount(d[i].cost)
        /\ paid => r \in Nat /\ Hundred < Limit /\ (r # 0 <=> \E i \in DOMAIN d : d[i].revenue > 5)
        /\ cost => c \in Nat
    BY <1>1, <1>2, PeriodIs, Zenon
  <2>2. /\ before <=> p # <<>> /\ \A i \in DOMAIN p : Amount(p[i].revenue)
        /\ before => b \in Nat /\ (b # 0 <=> \E i \in DOMAIN p : p[i].revenue > 5)
    BY <1>1, <1>2, PeriodIs, Zenon
  <2>3. Earned(d) <=> paid /\ cost /\ r # 0
    BY <2>1, Zenon DEF Earned
  <2>4. EarnedBefore(p) <=> before /\ b # 0
    BY <2>2, Zenon DEF EarnedBefore
  <2> QED
    BY <2>1, <2>2, <2>3, <2>4, Zenon
<1>5. paid /\ cost /\ r # 0 => (Fits(margin) => c <= (most + 1) * r) /\ (c <= most * r => Fits(margin))
  <2> SUFFICES ASSUME paid, cost, r # 0
               PROVE  (Fits(margin) => c <= (most + 1) * r) /\ (c <= most * r => Fits(margin))
    OBVIOUS
  <2>1. margin = Quantize((r - c) * Hundred, r)
    BY <1>1, SameSums, Zenon DEF Finance!profit_margin
  <2>2. PICK q : q = Quantize((c - r) * Hundred, r)
    OBVIOUS
  <2>3. q \in Int /\ margin = -q /\ (Fits(q) => c <= (most + 1) * r) /\ (c <= most * r => Fits(q))
    BY <1>1, <1>4, <2>1, <2>2, RatioFits
  <2>4. Fits(margin) <=> Fits(q)
    BY <2>3, PrecisionAssumption DEF Fits
  <2> QED
    BY <2>3, <2>4
<1>6. paid /\ before /\ b # 0 => (Fits(growth) => r <= (most + 1) * b) /\ (r <= most * b => Fits(growth))
  <2> SUFFICES ASSUME paid, before, b # 0
               PROVE  (Fits(growth) => r <= (most + 1) * b) /\ (r <= most * b => Fits(growth))
    OBVIOUS
  <2>1. growth = Quantize((r - b) * Hundred, b)
    BY <1>1, SameSums, Zenon DEF Finance!revenue_growth_rate
  <2> QED
    BY <1>1, <1>4, <2>1, RatioFits
<1>7. /\ raised = "nothing" <=> /\ paid /\ cost /\ r # 0 /\ Fits(margin)
                               /\ before /\ b # 0 /\ Fits(growth)
      /\ raised = "InvalidOperation" =>
           /\ paid /\ cost /\ r # 0
           /\ ~Fits(margin) \/ (before /\ b # 0 /\ ~Fits(growth))
  BY <1>3
<1>8. /\ \A k : CostWithin(d, k) <=> c <= k * r
      /\ \A k : GrowthWithin(d, p, k) <=> r <= k * b
  BY <1>1, Zenon DEF CostWithin, GrowthWithin
<1>9. raised = "nothing" => /\ Earned(d) /\ EarnedBefore(p) /\ r > 0 /\ b > 0
                            /\ CostWithin(d, most + 1) /\ GrowthWithin(d, p, most + 1)
  <2>1. raised = "nothing" => r > 0 /\ b > 0
    BY <1>4, <1>7
  <2> QED
    BY <1>4, <1>5, <1>6, <1>7, <1>8, <2>1, Zenon
<1>10. Earned(d) /\ EarnedBefore(p) /\ CostWithin(d, most) /\ GrowthWithin(d, p, most) => raised = "nothing"
  BY <1>4, <1>5, <1>6, <1>7, <1>8, Zenon
<1>11. raised = "InvalidOperation" =>
         Earned(d) /\ (CostWithin(d, most) => EarnedBefore(p) /\ ~GrowthWithin(d, p, most))
  BY <1>4, <1>5, <1>6, <1>7, <1>8, Zenon
<1> QED
  BY <1>1, <1>9, <1>10, <1>11, Zenon

(* Every figure of calculate_kpis fits. *)
LEMMA FiguresFit ==
  ASSUME NEW d \in Seq(Rows), NEW p \in Seq(Rows), Len(d) <= MaxRows, Len(p) <= MaxRows,
         Finance!Raises(d, p) = "nothing"
  PROVE  LET f == Finance!calculate_kpis(d, p)
         IN \A figure \in DOMAIN f : Fits(f[figure])
<1>1. PICK r, c, f, n : /\ r = Finance!total_revenue(d) /\ c = Finance!total_cost(d) /\ n = Len(d)
                        /\ f = Finance!calculate_kpis(d, p)
  OBVIOUS
<1>2. /\ Finance!ValidColumn(d, "revenue") /\ Finance!ValidColumn(d, "cost")
      /\ Fits(Finance!profit_margin(d)) /\ Fits(Finance!revenue_growth_rate(d, p))
  BY SameSums DEF Finance!Raises
<1>3. r \in Nat /\ c \in Nat /\ r < Limit /\ c < Limit /\ Limit \in Nat /\ n \in Nat \ {0}
  <2>1. n \in Nat \ {0}
    BY <1>1, <1>2 DEF Finance!ValidColumn
  <2> QED
    BY <1>1, <1>2, <2>1, PeriodIs, PrecisionAssumption
<1>4. PICK a : a = Finance!average_order_value(d)
  OBVIOUS
<1>5. a \in Int /\ 0 <= a /\ a <= r
  <2>1. a = Quantize(r, n)
    BY <1>1, <1>4, SameSums, Zenon DEF Finance!average_order_value
  <2> QED
    BY <1>3, <2>1, MeanOfSum
<1>6. Fits(r) /\ Fits(c) /\ Fits(r - c) /\ Fits(a)
  BY <1>3, <1>5 DEF Fits
<1>7. f = [total_revenue |-> r, total_profit |-> r - c, total_cost |-> c, average_order_value |-> a,
           profit_margin |-> Finance!profit_margin(d),
           revenue_growth_rate |-> Finance!revenue_growth_rate(d, p)]
  BY <1>1, <1>4, Zenon DEF Finance!calculate_kpis, Finance!total_profit
<1>8. \A figure \in DOMAIN f : Fits(f[figure])
  BY <1>2, <1>6, <1>7
<1> QED
  BY <1>1, <1>8, Zenon

(* marketing_tools: valid orders have customers to divide by, and what it     *)
(* makes of them fits.                                                        *)
LEMMA MarketingFits ==
  ASSUME NEW d \in Seq(Rows), NEW p \in Seq(Rows), Len(d) <= MaxRows,
         Marketing!ValidOrders(d), Marketing!ValidOrders(p)
  PROVE  LET m == Marketing!calculate_marketing_kpis(d, p)
         IN /\ Marketing!customers(Marketing!orders(d)) # {}
            /\ Marketing!customers(Marketing!orders(p)) # {}
            /\ Fits(m.average_order_value) /\ Fits(m.customer_growth)
            /\ \A s \in DOMAIN m.revenue_by_segment : Fits(m.revenue_by_segment[s])
<1>1. PICK m, o, n, C, B, k, a :
        /\ m = Marketing!calculate_marketing_kpis(d, p) /\ o = Marketing!orders(d)
        /\ n = Len(d) /\ k = Len(p) /\ a = Column(d, "revenue")
        /\ C = Marketing!customers(o) /\ B = Marketing!customers(Marketing!orders(p))
  OBVIOUS
<1>2. /\ n \in Nat \ {0} /\ k \in Nat \ {0} /\ o \in [1 .. n -> Order]
      /\ Marketing!orders(p) \in [1 .. k -> Order] /\ Finance!ValidColumn(d, "revenue")
      /\ \A i \in 1 .. n : o[i].revenue = a[i]
  BY <1>1, OrdersTyped
<1>3. a \in [1 .. n -> Nat] /\ Total(a) \in Nat /\ Total(a) < Limit /\ Limit \in Nat
  BY <1>1, <1>2, ColumnCounts, TotalFits, PrecisionAssumption
<1>4. PICK x, y : x = Cardinality(C) /\ y = Cardinality(B)
  OBVIOUS
<1>5. IsFiniteSet(C) /\ x \in 1 .. n /\ IsFiniteSet(B) /\ y \in 1 .. k
  BY <1>1, <1>2, <1>4, CustomersCount
<1>6. C # {} /\ B # {}
  <2>1. x # 0 /\ y # 0
    BY <1>2, <1>5
  <2> QED
    BY <1>4, <1>5, <2>1, FS_EmptySet
<1>7. Fits(m.average_order_value)
  <2>1. m.average_order_value = Marketing!average_order_value(o)
    BY <1>1, MarketingReads, Zenon
  <2>2. DOMAIN o = 1 .. n /\ Len(o) = n /\ [i \in 1 .. n |-> o[i].revenue] = a
    BY <1>2, <1>3
  <2>3. Marketing!average_order_value(o) = Quantize(Total(a), n)
    BY <2>2, SameSums, Zenon DEF Marketing!average_order_value
  <2>4. PICK q : q = Quantize(Total(a), n)
    OBVIOUS
  <2>5. q \in Int /\ 0 <= q /\ q <= Total(a)
    BY <1>2, <1>3, <2>4, MeanOfSum
  <2>6. Fits(q)
    BY <1>3, <2>5 DEF Fits
  <2> QED
    BY <2>1, <2>3, <2>4, <2>6
<1>8. Fits(m.customer_growth)
  <2>1. m.customer_growth = Quantize((x - y) * Hundred, y)
    BY <1>1, <1>4, MarketingReads, Zenon
  <2>2. /\ x \in Nat /\ y \in Nat \ {0} /\ MaxRows \in Nat /\ x <= MaxRows /\ n <= MaxRows
        /\ MaxRows * 10000 < Limit /\ 0 < MaxRows
    BY <1>1, <1>2, <1>5, ToolsAssumption, PrecisionAssumption DEF Hundred
  <2>3. PICK l \in Int, h \in Int, z \in Int : l = -10000 /\ h = MaxRows * 10000 /\ z = (x - y) * Hundred
    BY <2>2 DEF Hundred
  <2>4. l * y <= z /\ z <= h * y
    <3>1. z = x * 10000 - y * 10000 /\ l * y = -(y * 10000)
      BY <2>2, <2>3 DEF Hundred
    <3>2. PICK j \in Nat : y = j + 1
      BY <2>2, SMT
    <3>3. h \in Nat /\ h * (j + 1) = h * j + h /\ h * j >= 0
      BY <2>2, <2>3
    <3> QED
      BY <2>2, <2>3, <3>1, <3>2, <3>3
  <2>5. PICK q : q = Quantize(z, y)
    OBVIOUS
  <2>6. q \in Int /\ l <= q /\ q <= h
    <3>1. y \in Nat \ {0}
      BY <2>2
    <3>2. q \in Int
      BY <2>5, <3>1, Rounded DEF Nearest
    <3> QED
      BY <2>4, <2>5, <3>1, <3>2, RoundedBounds
  <2>7. Fits(q)
    BY <1>3, <2>2, <2>3, <2>6 DEF Fits
  <2> QED
    BY <2>1, <2>3, <2>5, <2>7
<1>9. ASSUME NEW s \in DOMAIN m.revenue_by_segment PROVE Fits(m.revenue_by_segment[s])
  <2>1. m.revenue_by_segment = Marketing!revenue_by_segment(o)
    BY <1>1, MarketingReads, Zenon
  <2>2. PICK e : e = Only(o, n, s)
    OBVIOUS
  <2>3. m.revenue_by_segment[s] = Total(e)
    <3>1. s \in Segments(o)
      BY <1>2, <2>1, SegmentsSum, Zenon
    <3>2. Marketing!revenue_by_segment(o)[s] = Total(Only(o, n, s))
      BY <1>2, <3>1, SegmentsSum, Zenon
    <3> QED
      BY <2>1, <2>2, <3>2, Zenon
  <2>4. /\ e \in [1 .. n -> Nat] /\ e \in [1 .. n -> Int] /\ a \in [1 .. n -> Int]
        /\ \A i \in 1 .. n : e[i] <= a[i]
    BY <1>2, <1>3, <2>2 DEF Only
  <2>5. Total(e) \in Nat
    BY <1>2, <2>4, TotalOfNaturals
  <2>6. Total(e) <= Total(a)
    BY <1>2, <2>4, TotalOrder
  <2> QED
    BY <1>3, <2>3, <2>5, <2>6 DEF Fits
<1> QED
  BY <1>1, <1>6, <1>7, <1>8, <1>9, Zenon

(* What _series and the tools accept: numbers, two or more, no fewer than the *)
(* window and more than the season, none out of the default context; read     *)
(* backwards they mirror each other.                                          *)
LEMMA AcceptedSeries ==
  ASSUME Typed, DataScientistAnswers
  PROVE  LET v == DataScientist!normalized(series)
             n == Len(v)
         IN /\ n \in Nat /\ n >= 2 /\ Window <= n /\ SeasonLength < n /\ Len(series) = n
            /\ v \in [1 .. n -> Int] /\ DOMAIN v = 1 .. n
            /\ Reverse(v) \in [1 .. n -> Int] /\ Mirrors(v, Reverse(v), n)
            /\ DataScientist!normalized(Reverse(series)) = Reverse(v)
            /\ \A i \in 1 .. n : DataScientist!FitsDefault(v[i])
            /\ \A k \in 1 .. Horizon : Fits(DataScientist!forecast_summary(v).values[k])
<1>1. PICK s, n, v, r : s = series /\ n = Len(s) /\ v = DataScientist!normalized(s) /\ r = Reverse(v)
  OBVIOUS
<1>2. s \in Seq(Observations \cup {NotFinite}) /\ n \in Nat /\ DOMAIN s = 1 .. n
  BY <1>1 DEF Typed
<1>3. v = [i \in 1 .. n |-> Quantize(s[i], 10)]
  BY <1>1, <1>2, SameSets, Zenon DEF DataScientist!normalized
<1>4. Len(v) = n /\ DOMAIN v = 1 .. n
  BY <1>2, <1>3
<1>5. /\ n >= 2 /\ \A i \in DOMAIN s : s[i] # NotFinite
      /\ ~(Window > n) /\ ~(SeasonLength >= n)
      /\ \A i \in 1 .. n : DataScientist!FitsDefault(v[i])
      /\ \A k \in 1 .. Horizon : Fits(DataScientist!forecast_summary(v).values[k])
  <2>1. /\ DataScientist!Valid(s) /\ ~(Window > Len(v)) /\ ~(SeasonLength >= Len(v))
        /\ ~\E i \in DOMAIN v : ~DataScientist!FitsDefault(v[i])
        /\ ~\E k \in 1 .. Horizon : ~DataScientist!Fits(DataScientist!forecast_summary(v).values[k])
    BY <1>1 DEF DataScientistAnswers, DataScientist!Raises
  <2>2. n >= 2 /\ \A i \in DOMAIN s : s[i] # NotFinite
    BY <1>1, <2>1 DEF DataScientist!Valid
  <2> QED
    BY <1>4, <2>1, <2>2, SameSums, Zenon
<1>6. Window \in Nat /\ SeasonLength \in Nat /\ Observations \subseteq Int
  BY ToolsAssumption
<1>7. v \in [1 .. n -> Int]
  <2>1. ASSUME NEW i \in 1 .. n PROVE v[i] \in Int
    <3>1. PICK x : x = s[i]
      OBVIOUS
    <3>2. x \in Observations \cup {NotFinite} /\ x # NotFinite
      BY <1>2, <1>5, <3>1
    <3>3. x \in Int
      BY <1>6, <3>2
    <3>4. Quantize(x, 10) \in Int
      BY <3>3, Rounded DEF Nearest
    <3> QED
      BY <1>3, <3>1, <3>4
  <2> QED
    BY <1>3, <2>1
<1>8. v \in Seq(Int)
  BY <1>2, <1>7
<1>9. /\ r \in Seq(Int) /\ Len(r) = n /\ DOMAIN r = 1 .. n
      /\ \A i \in 1 .. n : (n - i) + 1 \in 1 .. n /\ r[i] = v[(n - i) + 1]
  BY <1>1, <1>4, <1>8, ReverseIs
<1>10. r \in [1 .. n -> Int] /\ Mirrors(v, r, n)
  BY <1>9 DEF Mirrors
<1>11. DataScientist!normalized(Reverse(s)) = r
  <2>1. PICK t, u : t = Reverse(s) /\ u = DataScientist!normalized(t)
    OBVIOUS
  <2>2. DOMAIN t = 1 .. n /\ \A i \in 1 .. n : (n - i) + 1 \in 1 .. n /\ t[i] = s[(n - i) + 1]
    BY <1>1, <1>2, <2>1, ReverseIs
  <2>3. u = [i \in 1 .. n |-> Quantize(t[i], 10)]
    BY <2>1, <2>2, SameSets, Zenon DEF DataScientist!normalized
  <2>4. \A i \in 1 .. n : u[i] = r[i]
    BY <1>3, <1>9, <2>2, <2>3
  <2>5. u = [i \in 1 .. n |-> r[i]]
    BY <2>3, <2>4
  <2>6. r = [i \in 1 .. n |-> r[i]]
    BY <1>10
  <2> QED
    BY <2>1, <2>5, <2>6
<1> QED
  BY <1>1, <1>2, <1>4, <1>5, <1>6, <1>7, <1>10, <1>11, SMTT(30)

(* data_scientist_tools: what it divides by, and what fits, in a series that  *)
(* is accepted.                                                               *)
LEMMA DataScientistFits ==
  ASSUME Typed, DataScientistAnswers
  PROVE  LET d == DataScientist!calculate_data_science_metrics(series)
         IN /\ DataScientist!SlopeDenominator(series) > 0 /\ Len(series) > SeasonLength
            /\ d.moving_average # <<>> /\ Fits(d.forecast_summary.mean)
            /\ \A k \in DOMAIN d.moving_average : DataScientist!FitsDefault(d.moving_average[k])
<1>1. PICK v, n, d, m, f : /\ v = DataScientist!normalized(series) /\ n = Len(v)
        /\ d = DataScientist!calculate_data_science_metrics(series)
        /\ m = DataScientist!moving_average(v) /\ f = DataScientist!forecast_summary(v)
  OBVIOUS
<1>2. /\ n \in Nat \ {0} /\ n >= 2 /\ Window <= n /\ SeasonLength < n /\ Len(series) = n
      /\ v \in [1 .. n -> Int]
      /\ \A i \in 1 .. n : DataScientist!FitsDefault(v[i])
      /\ \A k \in 1 .. Horizon : Fits(f.values[k])
  BY <1>1, AcceptedSeries
<1>3. d.moving_average = m /\ d.forecast_summary = f
  BY <1>1, ReportIs, Zenon
<1>4. DataScientist!SlopeDenominator(series) > 0
  <2>1. DOMAIN series = 1 .. n
    BY <1>2 DEF Typed
  <2> QED
    BY <1>2, <2>1, SlopeDefined
<1>5. Len(series) > SeasonLength
  BY <1>2, ToolsAssumption
<1>6. m # <<>>
  <2>1. DOMAIN m = 1 .. n - Window + 1
    BY <1>1, <1>2, AveragesAre
  <2>2. 1 \in DOMAIN m
    BY <1>2, <2>1, ToolsAssumption
  <2> QED
    BY <2>2
<1>7. ASSUME NEW k \in DOMAIN m PROVE DataScientist!FitsDefault(m[k])
  <2>1. PICK i \in 1 .. n, j \in 1 .. n : v[i] = Least(v) /\ v[j] = Greatest(v)
    BY <1>2, Extremes
  <2>2. m[k] \in Int /\ v[i] <= m[k] /\ m[k] <= v[j]
    BY <1>1, <1>2, <2>1, AveragesWithin
  <2>3. v[i] \in Int /\ v[j] \in Int /\ SeriesLimit \in Nat
    BY <1>2, PrecisionAssumption
  <2> QED
    BY <1>2, <2>2, <2>3 DEF DataScientist!FitsDefault
<1>8. Fits(f.mean)
  <2>1. PICK i \in 1 .. Horizon, j \in 1 .. Horizon :
          /\ f.values[i] = f.minimum /\ f.minimum \in Int
          /\ f.values[j] = f.maximum /\ f.maximum \in Int
    BY <1>1, <1>2, ForecastReconciles
  <2>2. f.mean \in f.minimum .. f.maximum
    BY <1>1, <1>2, ForecastReconciles
  <2>3. Fits(f.minimum) /\ Fits(f.maximum)
    BY <1>2, <2>1
  <2> QED
    BY <2>1, <2>2, <2>3, PrecisionAssumption DEF Fits
<1> QED
  BY <1>1, <1>3, <1>4, <1>5, <1>6, <1>7, <1>8, Zenon

(* Which requests the tools answer, told from the request: Finance those      *)
(* whose periods each come to a cent and whose cost and growth are in         *)
(* proportion, Marketing those with good names and revenues.  And what they   *)
(* answer they can calculate and write in their digits: no total_revenue, no  *)
(* customers of a period, no denominator of _linear_slope and no list of      *)
(* averages is zero or empty, for any amounts and observations, at any length *)
(* and for any window, season and limit.                                      *)
THEOREM AnswersAlwaysExplained == Spec => []AnswersExplained
<1>1. Typed => AnswersExplained
  <2> SUFFICES ASSUME Typed PROVE AnswersExplained
    OBVIOUS
  <2>1. PICK d, p, most : d = dataset /\ p = previous_dataset /\ most = Limit \div Hundred
    OBVIOUS
  <2>2. d \in Seq(Rows) /\ p \in Seq(Rows) /\ Len(d) <= MaxRows /\ Len(p) <= MaxRows
    BY <2>1, ToolsAssumption DEF Typed
  <2>3. /\ FinanceAnswers =>
              /\ Earned(d) /\ EarnedBefore(p) /\ CostWithin(d, most + 1) /\ GrowthWithin(d, p, most + 1)
              /\ Finance!total_revenue(d) > 0 /\ Finance!total_revenue(p) > 0
              /\ \A figure \in DOMAIN Finance!calculate_kpis(d, p) : Fits(Finance!calculate_kpis(d, p)[figure])
        /\ Earned(d) /\ EarnedBefore(p) /\ CostWithin(d, most) /\ GrowthWithin(d, p, most) => FinanceAnswers
        /\ Finance!Raises(d, p) = "InvalidOperation" =>
              Earned(d) /\ (CostWithin(d, most) => EarnedBefore(p) /\ ~GrowthWithin(d, p, most))
    BY <2>1, <2>2, FinanceExplained, FiguresFit, Zenon DEF FinanceAnswers
  <2>4. ASSUME NEW x \in Seq(Rows)
        PROVE  Marketing!ValidOrders(x) <=>
                 /\ x # <<>>
                 /\ \A i \in DOMAIN x : Amount(x[i].revenue) /\ x[i].customer[1] # 0 /\ x[i].segment[1] # 0
    <3>1. \A i \in DOMAIN x : Marketing!IsMoney(x[i].revenue) <=> Amount(x[i].revenue)
      <4> SUFFICES ASSUME NEW i \in DOMAIN x PROVE Marketing!IsMoney(x[i].revenue) <=> Amount(x[i].revenue)
        OBVIOUS
      <4>1. x[i] \in Rows
        OBVIOUS
      <4>2. x[i].revenue \in Amounts
        BY <4>1, RowFields DEF Amounts
      <4> QED
        BY <4>2, MoneyIs DEF Amount
    <3> QED
      BY <3>1, Zenon DEF Marketing!ValidOrders, Marketing!IsBlank, Marketing!strip
  <2>5. MarketingAnswers <=> Marketing!ValidOrders(d) /\ Marketing!ValidOrders(p)
    BY <2>1 DEF MarketingAnswers, Marketing!Raises
  <2>6. LET m == Marketing!calculate_marketing_kpis(d, p)
        IN MarketingAnswers =>
             /\ Marketing!customers(Marketing!orders(d)) # {} /\ Marketing!customers(Marketing!orders(p)) # {}
             /\ Fits(m.average_order_value) /\ Fits(m.customer_growth)
             /\ \A s \in DOMAIN m.revenue_by_segment : Fits(m.revenue_by_segment[s])
    BY <2>2, <2>5, MarketingFits, Zenon
  <2> QED
    BY <2>1, <2>2, <2>3, <2>4, <2>5, <2>6, DataScientistFits, Zenon
       DEF AnswersExplained, Earned, EarnedBefore, CostWithin, GrowthWithin, Amount
<1> QED
  BY <1>1, AlwaysTyped, PTL

(* The figures that two agents report on the same orders agree: the totals   *)
(* and averages of both tools to the cent, whichever amounts round up or     *)
(* down; retention, churn and growth with each other; the margin with the    *)
(* profit; the leading segments with the totals; and all of them with those  *)
(* of the rows in reverse, at any number of rows and for any segment limit.  *)
THEOREM OrdersAlwaysReconcile == Spec => []OrdersReconcile
<1>1. Typed => OrdersReconcile
  <2> SUFFICES ASSUME Typed PROVE OrdersReconcile
    OBVIOUS
  <2>1. dataset \in Seq(Rows) /\ previous_dataset \in Seq(Rows)
    BY DEF Typed
  <2>2. MarketingAnswers => Marketing!ValidOrders(dataset) /\ Marketing!ValidOrders(previous_dataset)
    BY DEF MarketingAnswers, Marketing!Raises
  <2> DEFINE f == Finance!calculate_kpis(dataset, previous_dataset)
             m == Marketing!calculate_marketing_kpis(dataset, previous_dataset)
             totals == m.revenue_by_segment
             top == m.top_segments
  <2>3. FinanceAnswers =>
          /\ f.profit_margin * f.total_profit >= 0 /\ f.profit_margin <= Hundred
          /\ f.revenue_growth_rate >= -Hundred
          /\ f = Finance!calculate_kpis(Reverse(dataset), Reverse(previous_dataset))
    BY <2>1, FinanceReconciles, Zenon DEF FinanceAnswers
  <2>4. MarketingAnswers =>
          /\ m.retention_rate \in 0 .. Hundred /\ m.churn_rate + m.retention_rate = Hundred
          /\ m.customer_growth >= -m.churn_rate
          /\ m.repeat_customer_rate > 0 => m.customer_count < Len(dataset)
          /\ m.customer_count < Len(dataset) /\ m.customer_count < 2 * Hundred =>
               m.repeat_customer_rate > 0
          /\ \A i \in DOMAIN top : \A s \in DOMAIN totals :
               totals[s] > totals[top[i]] => \E j \in 1 .. i - 1 : top[j] = s
          /\ m = Marketing!calculate_marketing_kpis(Reverse(dataset), Reverse(previous_dataset))
    BY <2>1, <2>2, MarketingReconciles, MarketingReversed, Zenon
  <2>5. FinanceAnswers /\ MarketingAnswers =>
          SumFunction(totals) = f.total_revenue /\ m.average_order_value = f.average_order_value
    BY <2>1, <2>2, ToolsAgree, Zenon
  <2> QED
    BY <2>3, <2>4, <2>5, Zenon DEF OrdersReconcile
<1> QED
  BY <1>1, AlwaysTyped, PTL

(* data_scientist_tools: the statistics of one series support each other at  *)
(* any length, for any window, horizon, season and threshold: the forecasts  *)
(* go the way of the trend, no average leaves the range of what was          *)
(* observed, the mean lies in its interval, outliers are few, and reading    *)
(* the series backwards turns the trend around and changes nothing else.     *)
THEOREM SeriesAlwaysReconcile == Spec => []SeriesReconcile
<1>1. Typed => SeriesReconcile
  <2> SUFFICES ASSUME Typed, DataScientistAnswers PROVE SeriesReconcile
    BY DEF SeriesReconcile
  <2>1. PICK s, r, n : s = DataScientist!normalized(series) /\ r = Reverse(s) /\ n = Len(s)
    OBVIOUS
  <2>2. /\ n \in Nat /\ n >= 2 /\ Window <= n /\ SeasonLength < n
        /\ s \in [1 .. n -> Int] /\ DOMAIN s = 1 .. n
        /\ r \in [1 .. n -> Int] /\ Mirrors(s, r, n) /\ r = DataScientist!normalized(Reverse(series))
    BY <2>1, AcceptedSeries
  <2>3. n \in Nat \ {0} /\ s[1] \in Int
    BY <2>2
  <2>4. PICK d, back : /\ d = DataScientist!calculate_data_science_metrics(series)
                       /\ back = DataScientist!calculate_data_science_metrics(Reverse(series))
    OBVIOUS
  <2>5. PICK t, m, f, a, e, i : /\ t = DataScientist!trend_detection(s)
          /\ m = DataScientist!moving_average(s) /\ f = DataScientist!forecast_summary(s)
          /\ a = DataScientist!anomaly_count(s) /\ e = DataScientist!seasonality_indicator(s)
          /\ i = DataScientist!confidence_interval_summary(s)
    OBVIOUS
  <2>6. /\ d.trend_detection = t /\ d.moving_average = m /\ d.forecast_summary = f
        /\ d.anomaly_count = a /\ d.seasonality_indicator = e /\ d.confidence_interval_summary = i
    BY <2>1, <2>4, <2>5, ReportIs, Zenon
  <2>7. /\ t.direction = "increasing" => f.values[1] = f.minimum
        /\ t.direction = "decreasing" => f.values[1] = f.maximum
        /\ t.direction = "stable" => f.maximum - f.minimum <= (Horizon + 1) \div 2
        /\ f.mean \in f.minimum .. f.maximum
    BY <2>2, <2>5, ForecastReconciles, Zenon
  <2>8. Len(m) = n - Window + 1 /\ \A k \in DOMAIN m : Least(s) <= m[k] /\ m[k] <= Greatest(s)
    BY <2>2, <2>5, AveragesWithin, Zenon
  <2>9. \A k \in DOMAIN m : (\E j \in DOMAIN s : s[j] <= m[k]) /\ (\E j \in DOMAIN s : m[k] <= s[j])
    BY <2>2, <2>3, <2>8, WithinObserved, Zenon
  <2>10. /\ i.mean \in i.lower .. i.upper /\ Least(s) <= i.mean /\ i.mean <= Greatest(s)
         /\ \A c \in Int : Flat(s, n, c) => i.lower = i.upper
    BY <2>2, <2>5, IntervalReconciles, Zenon
  <2>11. (\E j \in DOMAIN s : s[j] <= i.mean) /\ (\E j \in DOMAIN s : i.mean <= s[j])
    BY <2>2, <2>3, <2>10, WithinObserved, Zenon
  <2>12. a = Cardinality(Far(s, n))
    BY <2>2, <2>5, AnomaliesAre, Zenon
  <2>13. Threshold * Threshold * a < n /\ (Codev(s, s, n) = 0 => a = 0)
    BY <2>2, <2>3, <2>12, AnomaliesFew, Zenon
  <2>14. /\ \A c \in Int : Flat(s, n, c) => ~e.detected
         /\ ~Flat(s, n, s[1]) /\ n >= 2 * SeasonLength
              /\ (\A j \in 1 .. n - SeasonLength : s[j] = s[j + SeasonLength]) => e.detected
    BY <2>2, <2>5, SeasonReconciles, Zenon
  <2>15. /\ DataScientist!trend_detection(r).direction = Opposite[t.direction]
         /\ \A c \in Int : Flat(s, n, c) => t.slope = 0
    BY <2>2, <2>5, TrendReversed, Zenon
  <2>16. Flat(s, n, s[1]) => t.slope = 0 /\ ~e.detected /\ i.lower = i.upper /\ a = 0
    <3>1. Flat(s, n, s[1]) => Codev(s, s, n) = 0
      BY <2>2, <2>3, CodevConstant, Zenon
    <3> QED
      BY <2>3, <2>10, <2>13, <2>14, <2>15, <3>1, Zenon
  <2>17. Flat(s, n, s[1]) <=> \A j \in DOMAIN s : s[j] = s[1]
    BY <2>2, Zenon DEF Flat
  <2>18. /\ back.trend_detection.direction = Opposite[t.direction]
         /\ back.anomaly_count = a /\ back.seasonality_indicator = e
         /\ back.confidence_interval_summary = i /\ back.moving_average = Reverse(m)
    <3>1. DataScientist!anomaly_count(r) = a
      BY <2>2, <2>5, AnomaliesReversed, Zenon
    <3>2. DataScientist!seasonality_indicator(r) = e
      BY <2>2, <2>5, SeasonReversed, Zenon
    <3>3. DataScientist!confidence_interval_summary(r) = i
      BY <2>2, <2>5, IntervalReversed, Zenon
    <3>4. DataScientist!moving_average(r) = Reverse(m)
      BY <2>2, <2>5, AveragesReversed, Zenon
    <3> QED
      BY <2>2, <2>4, <2>15, <3>1, <3>2, <3>3, <3>4, ReportIs, Zenon
  <2> QED
    BY <2>1, <2>4, <2>6, <2>7, <2>8, <2>9, <2>10, <2>11, <2>13, <2>14, <2>16, <2>17, <2>18, Zenon
       DEF SeriesReconcile
<1> QED
  BY <1>1, AlwaysTyped, PTL
=============================================================================
