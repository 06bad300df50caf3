--------------------------- MODULE ResultsProofs ----------------------------
(***************************************************************************)
(* Proofs about Results, for any number of workers, requests and windows,  *)
(* any durations and outcomes: counts, averages, extremes and times.       *)
(***************************************************************************)
EXTENDS Results, Sums, TLAPS

(* Successes by their status, in a window or in the data of a runner.      *)
Ok(x) == x.Statuses["below 400"] + x.Statuses["from 400"]

(* What a worker holds was measured before now, and its durations are in   *)
(* order.                                                                  *)
HeldIsPast ==
  \A w \in DOMAIN worker :
    LET r == worker[w] IN
    /\ r.at = "fetching" => r.Time \in 1 .. clock
    /\ r.at = "fetched" =>
         /\ r.Time \in 1 .. clock
         /\ r.Time + r.Elapsed <= clock
         /\ ~Failed(r) /\ r.outcome # "redirect" =>
              /\ r.ElapsedLastByte = r.Elapsed
              /\ r.ElapsedFirstByte \in 1 .. r.Elapsed
         /\ r.outcome = "redirect" => r.ElapsedLastByte = 0

(* Every request is counted in one way, in a window and in the data.       *)
CountedOnce(m) == m.RequestCount = m.TimedOut + m.ConnectionErrors + Ok(m)

EachCountedOnce ==
  /\ CountedOnce(metric)
  /\ data.TotalReqs
       = data.TotalTimedOut + data.TotalConnectionError + Ok(data)

(* The averages of a window are those of its totals.                       *)
Averaged(m) ==
  LET k == Ok(m) IN
  /\ k = 0 => /\ m.requestTimeTotal = 0 /\ m.timeToFirstTotal = 0
              /\ m.AveTimeForReq = 0 /\ m.AveTimeToFirst = 0
              /\ m.Fastest = MaxInt64 /\ m.Slowest = 0
  /\ k > 0 => /\ m.AveTimeForReq = m.requestTimeTotal \div k
              /\ m.AveTimeToFirst = m.timeToFirstTotal \div k

WindowIsAveraged == Averaged(metric)

(* All successes are measured, and those not in the window are reported.   *)
(* The average of n reported ones that took R together is near R by n.     *)
Reported == SumMeasured - metric.requestTimeTotal

Near(d, w, R) ==
  LET n == Ok(d) IN
  /\ n = 0 => /\ R = 0
              /\ d.AveTimeForReq = 0 /\ d.AveTimeToFirst = 0
              /\ d.Fastest \in {0, MaxInt64} /\ d.Slowest = 0
  /\ n > 0 => /\ w > 0
              /\ d.AveTimeForReq * n <= R
              /\ R < (d.AveTimeForReq + w) * n

AveragesAreNear ==
  /\ NumMeasured = Ok(data) + Ok(metric)
  /\ Near(data, windows, Reported)

(* Without redirects the extremes of window and data are taken on by a     *)
(* measurement each and bound all of them, and the averages between.       *)
Bounds(m, d, t) ==
  /\ \/ m.Fastest <= t
     \/ d.Fastest # 0 /\ d.Fastest <= t
  /\ t <= m.Slowest \/ t <= d.Slowest

Taken(x, M) ==
  x.Fastest \in M \cup {0, MaxInt64} /\ x.Slowest \in M \cup {0}

WindowBetween(m) ==
  /\ m.Fastest # 0
  /\ Ok(m) > 0 => /\ m.Fastest # MaxInt64
                  /\ m.Fastest * Ok(m) <= m.requestTimeTotal
                  /\ m.requestTimeTotal <= m.Slowest * Ok(m)
                  /\ m.timeToFirstTotal <= m.requestTimeTotal

DataBetween(d) ==
  Ok(d) > 0 => /\ d.Fastest \notin {0, MaxInt64}
               /\ d.Fastest <= d.AveTimeForReq
               /\ d.AveTimeForReq <= d.Slowest
               /\ d.AveTimeToFirst <= d.AveTimeForReq

ExtremesAreMeasured ==
  NoRedirects =>
    /\ \A t \in Measured : Bounds(metric, data, t)
    /\ Taken(metric, Measured) /\ Taken(data, Measured)
    /\ WindowBetween(metric) /\ DataBetween(data)

(* With one worker and no failures, requests and so windows follow each    *)
(* other.                                                                  *)
Failures(m, d) ==
  d.TotalTimedOut + d.TotalConnectionError + m.TimedOut + m.ConnectionErrors

Follows(m, d, t) ==
  IF m.RequestCount = 0 THEN d.TimeDelta <= t - 1 ELSE m.lastRequestTime <= t

Sequential(m, d, R) ==
  /\ R <= d.TimeDelta
  /\ m.RequestCount = 0 => m.firstRequestTime = 0 /\ m.TimeDelta = 0
  /\ m.RequestCount > 0 =>
       /\ m.firstRequestTime > 0
       /\ m.TimeDelta = m.lastRequestTime - m.firstRequestTime
       /\ m.requestTimeTotal <= m.TimeDelta
       /\ d.TimeDelta <= m.firstRequestTime - 1

WindowsFollow ==
  Cardinality(DOMAIN worker) = 1 /\ Failures(metric, data) = 0 =>
    /\ Sequential(metric, data, Reported)
    /\ \A w \in DOMAIN worker :
         Follows(metric, data,
                 IF worker[w] = Idle THEN clock ELSE worker[w].Time)

(* The inductive invariant.                                                *)
ResultsInv ==
  /\ TypeOK
  /\ HeldIsPast
  /\ EachCountedOnce
  /\ WindowIsAveraged
  /\ AveragesAreNear
  /\ ExtremesAreMeasured
  /\ WindowsFollow

(* t is s with one more at o; c is m with one more failure; or success.    *)
OneAdded(s, o, t) == t = [s EXCEPT ![o] = @ + 1]

FailureCounted(m, c) ==
  /\ c.TimedOut + c.ConnectionErrors = m.TimedOut + m.ConnectionErrors + 1
  /\ Ok(c) = Ok(m)
  /\ c.requestTimeTotal = m.requestTimeTotal
  /\ c.timeToFirstTotal = m.timeToFirstTotal
  /\ c.Fastest = m.Fastest /\ c.Slowest = m.Slowest

SuccessCounted(m, r, c) ==
  /\ c.TimedOut = m.TimedOut /\ c.ConnectionErrors = m.ConnectionErrors
  /\ Ok(c) = Ok(m) + 1
  /\ c.requestTimeTotal = m.requestTimeTotal + r.ElapsedLastByte
  /\ c.timeToFirstTotal = m.timeToFirstTotal + r.ElapsedFirstByte
  /\ c.Fastest = SmallerOf(r.ElapsedLastByte, m.Fastest)
  /\ c.Slowest = LargerOf(r.ElapsedLastByte, m.Slowest)

-----------------------------------------------------------------------------
(* Multiplying keeps an order.                                             *)
LEMMA Products ==
  ASSUME NEW x \in Int, NEW y \in Int, NEW c \in Nat, x <= y
  PROVE  x * c <= y * c
OBVIOUS

(* Go's division of natural numbers rounds down, by less than the divisor. *)
LEMMA Divided ==
  ASSUME NEW a \in Nat, NEW b \in Nat \ {0}
  PROVE  /\ a \div b \in Nat
         /\ (a \div b) * b <= a
         /\ a < (a \div b) * b + b
OBVIOUS

(* One more success under either status is one more success.               *)
LEMMA OneStatusMore ==
  ASSUME NEW s \in [StatusCodes -> Nat], NEW o \in StatusCodes, NEW t,
         OneAdded(s, o, t)
  PROVE  /\ t \in [StatusCodes -> Nat]
         /\ t["below 400"] + t["from 400"] = s["below 400"] + s["from 400"] + 1
<1>1. \A c \in StatusCodes : s[c] \in Nat
  OBVIOUS
<1>2. t \in [StatusCodes -> Nat]
  BY <1>1 DEF OneAdded
<1>3. PICK a \in Nat, b \in Nat : a = s["below 400"] /\ b = s["from 400"]
  BY <1>1 DEF StatusCodes
<1>4. PICK x \in Nat, y \in Nat : x = t["below 400"] /\ y = t["from 400"]
  BY <1>2 DEF StatusCodes
<1>5. CASE o = "below 400"
  <2>1. x = a + 1 /\ y = b
    BY <1>3, <1>4, <1>5 DEF StatusCodes, OneAdded
  <2>2. x + y = a + b + 1
    BY <2>1
  <2> QED
    BY <1>2, <1>3, <1>4, <2>2
<1>6. CASE o = "from 400"
  <2>1. x = a /\ y = b + 1
    BY <1>3, <1>4, <1>6 DEF StatusCodes, OneAdded
  <2>2. x + y = a + b + 1
    BY <2>1
  <2> QED
    BY <1>2, <1>3, <1>4, <2>2
<1> QED BY <1>5, <1>6 DEF StatusCodes

(* What addRequest() does to each field of a window, before it aggregates: *)
(* every request moves the times, a failure only its own count, a success  *)
(* the totals, the extremes and its status.                                *)
LEMMA CountedFields ==
  ASSUME NEW m \in Metrics, NEW r \in Held, NEW c, c = Count(m, r)
  PROVE  /\ c \in Metrics
         /\ c.RequestCount = m.RequestCount + 1
         /\ c.firstRequestTime = IF m.firstRequestTime = 0 THEN r.Time
                                 ELSE m.firstRequestTime
         /\ c.lastRequestTime = r.Time + r.Elapsed
         /\ Failed(r) => FailureCounted(m, c)
         /\ ~Failed(r) => SuccessCounted(m, r, c)
         /\ c.AveTimeForReq = m.AveTimeForReq
         /\ c.AveTimeToFirst = m.AveTimeToFirst
<1>1. PICK t : t = Timed([m EXCEPT !.RequestCount = @ + 1], r)
  OBVIOUS
<1>2. /\ r.Time \in Nat /\ r.Time + r.Elapsed \in Nat 
      /\ r.ElapsedLastByte \in Nat  /\ r.ElapsedFirstByte \in Nat
      /\ r.ElapsedLastByte \in Times
  BY ResultsAssumption DEF Held, Times
<1>3. t.firstRequestTime = IF m.firstRequestTime = 0 THEN r.Time
                           ELSE m.firstRequestTime
  BY <1>1, <1>2 DEF Timed, Metrics
<1>4. t = [m EXCEPT !.RequestCount = m.RequestCount + 1,
                    !.firstRequestTime = t.firstRequestTime,
                    !.lastRequestTime = r.Time + r.Elapsed]
  BY <1>1, <1>2 DEF Timed, Metrics
<1>5. t \in Metrics
  <2>1. m.RequestCount + 1 \in Nat /\ t.firstRequestTime \in Nat
    BY <1>2, <1>3 DEF Metrics
  <2> QED
    BY <1>2, <1>4, <2>1 DEF Metrics
<1>6. /\ t.RequestCount = m.RequestCount + 1
      /\ t.lastRequestTime = r.Time + r.Elapsed
      /\ t.TimedOut = m.TimedOut /\ t.ConnectionErrors = m.ConnectionErrors
      /\ t.requestTimeTotal = m.requestTimeTotal
      /\ t.timeToFirstTotal = m.timeToFirstTotal
      /\ t.Fastest = m.Fastest /\ t.Slowest = m.Slowest
      /\ t.Statuses = m.Statuses
      /\ t.AveTimeForReq = m.AveTimeForReq
      /\ t.AveTimeToFirst = m.AveTimeToFirst
  BY <1>4 DEF Metrics
<1>7. CASE Failed(r)
  <2>1. CASE r.outcome = "timeout"
    <3>1. c = [t EXCEPT !.TimedOut = @ + 1]
      BY <1>1, <1>7, <2>1 DEF Count, CountFailure
    <3>2. c \in Metrics
      BY <1>5, <3>1 DEF Metrics
    <3>3. /\ c.TimedOut = m.TimedOut + 1 /\ c.ConnectionErrors = m.ConnectionErrors
      BY <1>5, <1>6, <3>1 DEF Metrics
    <3>4. c.TimedOut + c.ConnectionErrors = m.TimedOut + m.ConnectionErrors + 1
      BY <3>3 DEF Metrics
    <3> QED
      BY <1>3, <1>5, <1>6, <1>7, <3>1, <3>2, <3>4 DEF Metrics, Ok, FailureCounted
  <2>2. CASE r.outcome # "timeout"
    <3>1. c = [t EXCEPT !.ConnectionErrors = @ + 1]
      BY <1>1, <1>7, <2>2 DEF Count, CountFailure
    <3>2. c \in Metrics
      BY <1>5, <3>1 DEF Metrics
    <3>3. /\ c.TimedOut = m.TimedOut /\ c.ConnectionErrors = m.ConnectionErrors + 1
      BY <1>5, <1>6, <3>1 DEF Metrics
    <3>4. c.TimedOut + c.ConnectionErrors = m.TimedOut + m.ConnectionErrors + 1
      BY <3>3 DEF Metrics
    <3> QED
      BY <1>3, <1>5, <1>6, <1>7, <3>1, <3>2, <3>4 DEF Metrics, Ok, FailureCounted
  <2> QED
    BY <2>1, <2>2
<1>8. CASE ~Failed(r)
  <2>1. c = CountSuccess(t, r)
    BY <1>1, <1>8 DEF Count
  <2>2. PICK o \in StatusCodes : o = StatusOf(r)
    BY <1>8 DEF Held, Outcomes, StatusOf, StatusCodes, Failed
  <2>3. PICK s : OneAdded(t.Statuses, o, s)
    BY DEF OneAdded
  <2>4. /\ s \in [StatusCodes -> Nat]
        /\ s["below 400"] + s["from 400"] = Ok(t) + 1
    <3>1. t.Statuses \in [StatusCodes -> Nat]
      BY <1>5 DEF Metrics
    <3> QED
      BY <2>3, <3>1, OneStatusMore DEF Ok
  <2>5. PICK T \in Nat, F \in Nat, f \in Times \cup {MaxInt64}, l \in Times :
          /\ T = m.requestTimeTotal + r.ElapsedLastByte
          /\ F = m.timeToFirstTotal + r.ElapsedFirstByte
          /\ f = SmallerOf(r.ElapsedLastByte, m.Fastest)
          /\ l = LargerOf(r.ElapsedLastByte, m.Slowest)
    <3>1. /\ m.requestTimeTotal + r.ElapsedLastByte \in Nat
          /\ m.timeToFirstTotal + r.ElapsedFirstByte \in Nat
      BY <1>2 DEF Metrics
    <3>2. /\ SmallerOf(r.ElapsedLastByte, m.Fastest) \in Times \cup {MaxInt64}
          /\ LargerOf(r.ElapsedLastByte, m.Slowest) \in Times
      BY <1>2 DEF Metrics, SmallerOf, LargerOf
    <3> QED
      BY <3>1, <3>2
  <2>6. c = [t EXCEPT !.requestTimeTotal = T, !.timeToFirstTotal = F,
                      !.Fastest = f, !.Slowest = l, !.Statuses = s]
    BY <1>5, <1>6, <2>1, <2>2, <2>3, <2>5 DEF CountSuccess, Metrics, OneAdded
  <2>7. c \in Metrics
    BY <1>5, <2>4, <2>6 DEF Metrics
  <2>8. /\ c.Statuses = s /\ c.requestTimeTotal = T /\ c.timeToFirstTotal = F
        /\ c.Fastest = f /\ c.Slowest = l
        /\ c.RequestCount = t.RequestCount /\ c.TimedOut = t.TimedOut
        /\ c.ConnectionErrors = t.ConnectionErrors
        /\ c.firstRequestTime = t.firstRequestTime
        /\ c.lastRequestTime = t.lastRequestTime
        /\ c.AveTimeForReq = t.AveTimeForReq
        /\ c.AveTimeToFirst = t.AveTimeToFirst
    BY <1>5, <2>6 DEF Metrics
  <2>9. Ok(c) = Ok(m) + 1
    BY <1>6, <2>4, <2>8 DEF Ok
  <2> QED
    BY <1>3, <1>6, <1>8, <2>5, <2>7, <2>8, <2>9 DEF SuccessCounted
<1> QED
  BY <1>7, <1>8

(* aggregate() sets the time of the window and, if it has a success, its   *)
(* averages, and nothing else.                                             *)
LEMMA AggregateFields ==
  ASSUME NEW m \in Metrics, NEW a, a = Aggregate(m)
  PROVE  /\ a \in Metrics
         /\ a = [m EXCEPT !.TimeDelta = m.lastRequestTime - m.firstRequestTime,
                          !.AveTimeForReq = a.AveTimeForReq,
                          !.AveTimeToFirst = a.AveTimeToFirst]
         /\ Successes(m) > 0 =>
              /\ a.AveTimeForReq = m.requestTimeTotal \div Successes(m)
              /\ a.AveTimeToFirst = m.timeToFirstTotal \div Successes(m)
         /\ Successes(m) <= 0 =>
              /\ a.AveTimeForReq = m.AveTimeForReq
              /\ a.AveTimeToFirst = m.AveTimeToFirst
<1>1. Successes(m) \in Int
  BY DEF Successes, Metrics
<1>2. PICK d \in Int : d = m.lastRequestTime - m.firstRequestTime
  BY DEF Metrics
<1>3. CASE Successes(m) > 0
  <2>1. PICK x \in Nat, y \in Nat :
           /\ x = m.requestTimeTotal \div Successes(m)
           /\ y = m.timeToFirstTotal \div Successes(m)
    <3>1. /\ m.requestTimeTotal \div Successes(m) \in Nat
          /\ m.timeToFirstTotal \div Successes(m) \in Nat
      BY <1>1, <1>3, Divided DEF Metrics
    <3> QED BY <3>1
  <2>2. a = [m EXCEPT !.TimeDelta = d, !.AveTimeForReq = x, !.AveTimeToFirst = y]
    BY <1>2, <1>3, <2>1 DEF Aggregate, Metrics
  <2>3. a \in Metrics /\ a.AveTimeForReq = x /\ a.AveTimeToFirst = y
    BY <2>2 DEF Metrics
  <2>4. a = [m EXCEPT !.TimeDelta = m.lastRequestTime - m.firstRequestTime,
                      !.AveTimeForReq = a.AveTimeForReq,
                      !.AveTimeToFirst = a.AveTimeToFirst]
    BY <1>2, <2>2, <2>3
  <2> QED
    BY <1>1, <1>3, <2>1, <2>3, <2>4
<1>4. CASE ~(Successes(m) > 0)
  <2>1. a = [m EXCEPT !.TimeDelta = d]
    BY <1>2, <1>4 DEF Aggregate, Metrics
  <2> QED
    BY <1>2, <1>4, <2>1 DEF Metrics
<1> QED
  BY <1>1, <1>3, <1>4

(* Division keeps an order.                                                *)
LEMMA DividedMore ==
  ASSUME NEW a \in Nat, NEW c \in Nat, NEW b \in Nat \ {0}, a <= c
  PROVE  a \div b <= c \div b
OBVIOUS

(* Division undoes a product.                                              *)
LEMMA DividedProduct ==
  ASSUME NEW a \in Nat, NEW b \in Nat \ {0}
  PROVE  (a * b) \div b = a
OBVIOUS

(* A quotient is between the bounds of its mean.                           *)
LEMMA DividedBetween ==
  ASSUME NEW a \in Nat, NEW b \in Nat \ {0}, NEW l \in Nat, NEW u \in Nat,
        l * b <= a, a <= u * b
  PROVE  l <= a \div b /\ a \div b <= u
OBVIOUS

(* An average of averages is rounded down once more.                       *)
LEMMA AverageOfTwo ==
  ASSUME NEW a \in Nat, NEW n \in Nat, NEW b \in Nat, NEW k \in Nat, n + k > 0,
         NEW q, q = AddToTotalAverage(a, n, b, k)
  PROVE  q \in Nat /\ q * (n + k) <= a * n + b * k /\ a * n + b * k < q * (n + k) + (n + k)
<1>1. a * n + b * k \in Nat /\ n + k \in Nat \ {0}
  OBVIOUS
<1> QED
  BY <1>1, Divided DEF AddToTotalAverage

(* The arithmetic of AverageIsNear: if the average of n reported successes *)
(* is below their mean by less than w, then with the rounded average of k  *)
(* more it is below the new mean by less than w + 1.                       *)
LEMMA NearMoves ==
  ASSUME NEW a \in Nat, NEW n \in Nat, NEW b \in Nat, NEW k \in Nat \ {0},
         NEW q, NEW w \in Nat, NEW R \in Nat, NEW T \in Nat,
         q = AddToTotalAverage(a, n, b, k),
         n = 0 => R = 0,
         n > 0 => w > 0 /\ a * n <= R /\ R < (a + w) * n,
         b = T \div k
  PROVE  q * (n + k) <= R + T /\ R + T < (q + (w + 1)) * (n + k)
<1>1. /\ q \in Nat /\ q * (n + k) <= a * n + b * k
      /\ a * n + b * k < q * (n + k) + (n + k)
  <2>1. n + k > 0
    OBVIOUS
  <2> QED
    BY Zenon, <2>1, AverageOfTwo
<1>2. b * k <= T /\ T < b * k + k
  <2>1. (T \div k) * k <= T /\ T < (T \div k) * k + k
    BY Divided
  <2> QED
    BY Zenon, <2>1
<1>3. /\ a * n \in Int /\ b * k \in Int /\ q * (n + k) \in Int
      /\ w * k \in Nat /\ w * n \in Nat
  BY <1>1
<1>4. (q + (w + 1)) * (n + k) = q * (n + k) + (n + k) + w * n + w * k
  BY <1>1
<1>5. CASE n = 0
  <2>1. /\ a * n = 0 /\ w * n = 0 /\ n + k = k
        /\ q = b
    <3>1. a * n + b * k = b * k /\ n + k = k /\ w * n = 0 /\ a * n = 0
      BY <1>5
    <3> QED
      BY <3>1, DividedProduct DEF AddToTotalAverage
  <2> QED
    BY <1>1, <1>5, <1>2, <1>3, <1>4, <2>1
<1>6. CASE n > 0
  <2>1. (a + w) * n = a * n + w * n
    OBVIOUS
  <2>2. k <= w * k
    BY <1>6
  <2> QED
    BY <1>1, <1>6, <1>2, <1>3, <1>4, <2>1, <2>2
<1> QED
  BY <1>5, <1>6

(* An average of averages is between bounds of both.                       *)
LEMMA AverageBetween ==
  ASSUME NEW a \in Nat, NEW n \in Nat, NEW b \in Nat, NEW k \in Nat, n + k > 0,
         NEW l \in Nat, NEW u \in Nat,
         n > 0 => l <= a /\ a <= u,
         k > 0 => l <= b /\ b <= u
  PROVE  /\ l <= AddToTotalAverage(a, n, b, k)
         /\ AddToTotalAverage(a, n, b, k) <= u
<1>1. l * n <= a * n /\ a * n <= u * n
  BY Products
<1>2. l * k <= b * k /\ b * k <= u * k
  BY Products
<1>3. /\ a * n + b * k \in Nat /\ n + k \in Nat \ {0}
      /\ l * (n + k) = l * n + l * k /\ u * (n + k) = u * n + u * k
      /\ l * n \in Int /\ l * k \in Int /\ u * n \in Int /\ u * k \in Int
      /\ a * n \in Int /\ b * k \in Int
  OBVIOUS
<1>4. l * (n + k) <= a * n + b * k /\ a * n + b * k <= u * (n + k)
  BY <1>1, <1>2, <1>3
<1> QED
  BY <1>3, <1>4, DividedBetween DEF AddToTotalAverage

(* Smaller averages have a smaller average.                                *)
LEMMA AverageBelow ==
  ASSUME NEW a \in Nat, NEW n \in Nat, NEW b \in Nat, NEW k \in Nat, n + k > 0,
         NEW c \in Nat, NEW d \in Nat,
         n > 0 => c <= a, k > 0 => d <= b
  PROVE  AddToTotalAverage(c, n, d, k) <= AddToTotalAverage(a, n, b, k)
<1>1. c * n <= a * n /\ d * k <= b * k
  BY Products
<1>2. /\ a * n + b * k \in Nat /\ c * n + d * k \in Nat /\ n + k \in Nat \ {0}
      /\ a * n \in Int /\ b * k \in Int /\ c * n \in Int /\ d * k \in Int
  OBVIOUS
<1>3. c * n + d * k <= a * n + b * k
  BY <1>1, <1>2
<1> QED
  BY <1>2, <1>3, DividedMore DEF AddToTotalAverage

(* A report without success leaves an average as it is.                    *)
LEMMA AverageKept ==
  ASSUME NEW a \in Nat, NEW n \in Nat \ {0}
  PROVE  AddToTotalAverage(a, n, 0, 0) = a
<1>1. a * n + 0 * 0 = a * n /\ n + 0 = n
  OBVIOUS
<1> QED
  BY <1>1, DividedProduct DEF AddToTotalAverage

(* What AddResult() does to each field that the properties are about.      *)
LEMMA AddedFields ==
  ASSUME NEW d \in AggDatas, NEW m \in Metrics, NEW fin \in BOOLEAN,
         NEW region \in RegionNames, NEW n \in Nat, n = CountOk(d), NEW k \in Nat, k = Successes(m),
         NEW a, a = AddResult(d, m, fin, region)
  PROVE  /\ a \in AggDatas
         /\ a.TotalReqs = d.TotalReqs + m.RequestCount
         /\ a.TotalTimedOut = d.TotalTimedOut + m.TimedOut
         /\ a.TotalConnectionError = d.TotalConnectionError + m.ConnectionErrors
         /\ a.TimeDelta = d.TimeDelta + m.TimeDelta
         /\ Ok(a) = Ok(d) + Ok(m)
         /\ a.Slowest = LargerOf(m.Slowest, d.Slowest)
         /\ a.Fastest = FasterOf(d.Fastest, m.Fastest)
         /\ a.AveTimeForReq =
              IF n + k > 0 THEN AddToTotalAverage(d.AveTimeForReq, n, m.AveTimeForReq, k)
                           ELSE d.AveTimeForReq
         /\ a.AveTimeToFirst =
              IF n + k > 0 THEN AddToTotalAverage(d.AveTimeToFirst, n, m.AveTimeToFirst, k)
                           ELSE d.AveTimeToFirst
<1>1. PICK v \in Nat, f \in Nat :
        /\ v = IF n + k > 0 THEN AddToTotalAverage(d.AveTimeForReq, n, m.AveTimeForReq, k)
                           ELSE d.AveTimeForReq
        /\ f = IF n + k > 0 THEN AddToTotalAverage(d.AveTimeToFirst, n, m.AveTimeToFirst, k)
                           ELSE d.AveTimeToFirst
  <2>1. /\ d.AveTimeForReq \in Nat /\ m.AveTimeForReq \in Nat
        /\ d.AveTimeToFirst \in Nat /\ m.AveTimeToFirst \in Nat
    BY DEF AggDatas, Metrics
  <2>2. n + k > 0 => /\ AddToTotalAverage(d.AveTimeForReq, n, m.AveTimeForReq, k) \in Nat
                     /\ AddToTotalAverage(d.AveTimeToFirst, n, m.AveTimeToFirst, k) \in Nat
    BY <2>1, AverageOfTwo
  <2> QED
    BY <2>1, <2>2
<1>2. PICK s \in [StatusCodes -> Nat] :
        /\ s = [x \in StatusCodes |-> d.Statuses[x] + m.Statuses[x]]
        /\ s["below 400"] + s["from 400"] = Ok(d) + Ok(m)
  <2>1. PICK e \in [StatusCodes -> Nat], g \in [StatusCodes -> Nat] :
          e = d.Statuses /\ g = m.Statuses
    BY DEF AggDatas, Metrics
  <2>2. PICK s : s = [x \in StatusCodes |-> e[x] + g[x]]
    OBVIOUS
  <2>3. s \in [StatusCodes -> Nat]
    BY <2>2
  <2>4. PICK x \in Nat, y \in Nat, z \in Nat, u \in Nat :
          /\ x = e["below 400"] /\ y = e["from 400"]
          /\ z = g["below 400"] /\ u = g["from 400"]
    BY DEF StatusCodes
  <2>5. s["below 400"] = x + z /\ s["from 400"] = y + u
    BY <2>2, <2>4 DEF StatusCodes
  <2>6. (x + z) + (y + u) = (x + y) + (z + u)
    OBVIOUS
  <2>7. s["below 400"] + s["from 400"] = Ok(d) + Ok(m)
    BY <2>1, <2>4, <2>5, <2>6 DEF Ok
  <2> QED
    BY <2>1, <2>2, <2>3, <2>7
<1>3. PICK r \in Nat, t \in Nat, c \in Nat, x \in Int :
        /\ r = d.TotalReqs + m.RequestCount
        /\ t = d.TotalTimedOut + m.TimedOut
        /\ c = d.TotalConnectionError + m.ConnectionErrors
        /\ x = d.TimeDelta + m.TimeDelta
  <2>1. /\ d.TotalReqs + m.RequestCount \in Nat
        /\ d.TotalTimedOut + m.TimedOut \in Nat
        /\ d.TotalConnectionError + m.ConnectionErrors \in Nat
        /\ d.TimeDelta + m.TimeDelta \in Int
    BY DEF AggDatas, Metrics
  <2> QED
    BY Zenon, <2>1
<1>4. PICK l \in Times, w \in Times \cup {MaxInt64} :
        /\ l = LargerOf(m.Slowest, d.Slowest)
        /\ w = FasterOf(d.Fastest, m.Fastest)
  <2>1. m.Slowest \in Times /\ d.Slowest \in Times
    BY DEF AggDatas, Metrics
  <2>2. m.Fastest \in Times \cup {MaxInt64} /\ d.Fastest \in Times \cup {MaxInt64}
    BY DEF AggDatas, Metrics
  <2> QED
    BY <2>1, <2>2 DEF LargerOf, FasterOf
<1>5. a = [d EXCEPT !.TotalReqs = r, !.TotalTimedOut = t,
                    !.TotalConnectionError = c, !.TimeDelta = x, !.Statuses = s,
                    !.Slowest = l, !.Fastest = w, !.Finished = fin,
                    !.Region = region, !.AveTimeForReq = v, !.AveTimeToFirst = f]
  <2>1. CASE n + k > 0
    BY <1>1, <1>2, <1>3, <1>4, <2>1 DEF AddResult, AggDatas
  <2>2. CASE ~(n + k > 0)
    BY <1>1, <1>2, <1>3, <1>4, <2>2 DEF AddResult, AggDatas
  <2> QED
    BY <2>1, <2>2
<1>6. a = [TotalReqs |-> r, TotalTimedOut |-> t, TotalConnectionError |-> c,
           AveTimeForReq |-> v, AveTimeToFirst |-> f, TimeDelta |-> x,
           Fastest |-> w, Slowest |-> l, Statuses |-> s, Finished |-> fin,
           Region |-> region]
  <2>1. DOMAIN d = {"TotalReqs", "TotalTimedOut", "TotalConnectionError",
            "AveTimeForReq", "AveTimeToFirst", "TimeDelta", "Fastest", "Slowest",
            "Statuses", "Finished", "Region"}
    BY DEF AggDatas
  <2> QED
    BY <1>5, <2>1
<1>7. a \in AggDatas
  BY <1>6 DEF AggDatas
<1>8. /\ a.TotalReqs = r /\ a.TotalTimedOut = t /\ a.TotalConnectionError = c
      /\ a.TimeDelta = x /\ a.Statuses = s /\ a.Slowest = l /\ a.Fastest = w
      /\ a.AveTimeForReq = v /\ a.AveTimeToFirst = f
  BY <1>6
<1> QED
  BY <1>1, <1>2, <1>3, <1>4, <1>7, <1>8 DEF Ok

(* The successes by status are a number.                                   *)
LEMMA OkIsCount ==
  ASSUME NEW x, x.Statuses \in [StatusCodes -> Nat]
  PROVE  Ok(x) \in Nat
<1>1. PICK a \in Nat, b \in Nat :
         a = x.Statuses["below 400"] /\ b = x.Statuses["from 400"]
  BY DEF StatusCodes
<1>2. a + b \in Nat
  OBVIOUS
<1> QED
  BY Zenon, <1>1, <1>2 DEF Ok

(* addRequest() with its aggregate(): the window stays one that counts     *)
(* every request once and whose averages are those of its totals.          *)
LEMMA AddedToWindow ==
  ASSUME NEW m \in Metrics, NEW r \in Held, CountedOnce(m), Averaged(m),
         NEW a, a = Aggregate(Count(m, r))
  PROVE  /\ a \in Metrics
         /\ CountedOnce(a) /\ Averaged(a)
         /\ a.RequestCount = m.RequestCount + 1
         /\ a.firstRequestTime = IF m.firstRequestTime = 0 THEN r.Time
                                 ELSE m.firstRequestTime
         /\ a.lastRequestTime = r.Time + r.Elapsed
         /\ a.TimeDelta = a.lastRequestTime - a.firstRequestTime
         /\ Failed(r) => FailureCounted(m, a)
         /\ ~Failed(r) => SuccessCounted(m, r, a)
<1>1. PICK c : c = Count(m, r)
  OBVIOUS
<1>2. /\ c \in Metrics
      /\ c.RequestCount = m.RequestCount + 1
      /\ c.firstRequestTime = IF m.firstRequestTime = 0 THEN r.Time
                              ELSE m.firstRequestTime
      /\ c.lastRequestTime = r.Time + r.Elapsed
      /\ Failed(r) => FailureCounted(m, c)
      /\ ~Failed(r) => SuccessCounted(m, r, c)
      /\ c.AveTimeForReq = m.AveTimeForReq
      /\ c.AveTimeToFirst = m.AveTimeToFirst
  BY <1>1, CountedFields
<1>3. /\ a \in Metrics
      /\ a = [c EXCEPT !.TimeDelta = c.lastRequestTime - c.firstRequestTime,
                       !.AveTimeForReq = a.AveTimeForReq,
                       !.AveTimeToFirst = a.AveTimeToFirst]
      /\ Successes(c) > 0 =>
           /\ a.AveTimeForReq = c.requestTimeTotal \div Successes(c)
           /\ a.AveTimeToFirst = c.timeToFirstTotal \div Successes(c)
      /\ Successes(c) <= 0 =>
           /\ a.AveTimeForReq = c.AveTimeForReq
           /\ a.AveTimeToFirst = c.AveTimeToFirst
  BY <1>1, <1>2, AggregateFields
<1>4. /\ a.RequestCount = c.RequestCount /\ a.TimedOut = c.TimedOut
      /\ a.ConnectionErrors = c.ConnectionErrors
      /\ a.firstRequestTime = c.firstRequestTime
      /\ a.lastRequestTime = c.lastRequestTime
      /\ a.TimeDelta = c.lastRequestTime - c.firstRequestTime
      /\ a.requestTimeTotal = c.requestTimeTotal
      /\ a.timeToFirstTotal = c.timeToFirstTotal
      /\ a.Fastest = c.Fastest /\ a.Slowest = c.Slowest
      /\ a.Statuses = c.Statuses
  BY <1>2, <1>3 DEF Metrics
<1>5. Ok(a) = Ok(c)
  BY <1>4 DEF Ok
<1>6. Ok(m) \in Nat /\ Ok(c) \in Nat
  BY <1>2, OkIsCount DEF Metrics
<1>7. /\ m.TimedOut + m.ConnectionErrors \in Nat /\ m.RequestCount \in Nat
      /\ c.TimedOut + c.ConnectionErrors \in Nat /\ c.RequestCount \in Nat
  BY <1>2 DEF Metrics
<1>8. CASE Failed(r)
  <2>1. FailureCounted(m, c)
    BY <1>2, <1>8
  <2>2. FailureCounted(m, a)
    BY <1>4, <1>5, <2>1 DEF FailureCounted
  <2>3. CountedOnce(c)
    BY <1>2, <1>6, <1>7, <2>1 DEF CountedOnce, FailureCounted
  <2>4. Successes(c) = Ok(m)
    BY <1>2, <1>6, <1>7, <2>1, <2>3 DEF Successes, FailureCounted, CountedOnce
  <2>5. CountedOnce(a)
    BY <1>4, <1>5, <2>3 DEF CountedOnce
  <2>6. Averaged(a)
    <3>1. CASE Ok(m) = 0
      BY <1>2, <1>3, <2>2, <2>4, <3>1 DEF Averaged, FailureCounted
    <3>2. CASE Ok(m) > 0
      BY <1>2, <1>3, <1>4, <2>2, <2>4, <3>2 DEF Averaged, FailureCounted
    <3> QED
      BY <1>6, <3>1, <3>2
  <2> QED
    BY <1>2, <1>3, <1>4, <1>8, <2>2, <2>5, <2>6
<1>9. CASE ~Failed(r)
  <2>1. SuccessCounted(m, r, c)
    BY <1>2, <1>9
  <2>2. SuccessCounted(m, r, a)
    BY <1>4, <1>5, <2>1 DEF SuccessCounted
  <2>3. CountedOnce(c)
    BY <1>2, <1>6, <1>7, <2>1 DEF CountedOnce, SuccessCounted
  <2>4. Successes(c) = Ok(c) /\ Ok(c) > 0
    BY <1>6, <1>7, <2>1, <2>3 DEF Successes, SuccessCounted, CountedOnce
  <2>5. CountedOnce(a)
    BY <1>4, <1>5, <2>3 DEF CountedOnce
  <2>6. Averaged(a)
    BY <1>3, <1>4, <1>5, <2>4 DEF Averaged
  <2> QED
    BY <1>2, <1>3, <1>4, <1>9, <2>2, <2>5, <2>6
<1> QED
  BY <1>8, <1>9

(* One more success of duration e: the sums over all measured.             *)
LEMMA MeasuredMore ==
  ASSUME NEW f \in [Times -> Nat], NEW e \in Times, NEW g, OneAdded(f, e, g)
  PROVE  /\ g \in [Times -> Nat]
         /\ SumFunction(g) = SumFunction(f) + 1
         /\ SumFunction([t \in Times |-> t * g[t]])
              = SumFunction([t \in Times |-> t * f[t]]) + e
<1>1. /\ g \in [Times -> Nat] /\ g[e] = f[e] + 1
      /\ \A x \in Times \ {e} : g[x] = f[x]
  BY DEF OneAdded
<1>2. IsFiniteSet(Times)
  BY FS_Interval, ResultsAssumption DEF Times
<1>3. /\ SumFunctionOnSet(f, Times) \in Int
      /\ SumFunctionOnSet(g, Times) = SumFunctionOnSet(f, Times) - f[e] + g[e]
  <2>1. /\ \A x \in Times : f[x] \in Int
        /\ g[e] \in Int
    BY <1>1
  <2> QED
    BY <1>1, <1>2, <2>1, SumType, SumChanges
<1>4. DEFINE F == [t \in Times |-> t * f[t]]
             G == [t \in Times |-> t * g[t]]
<1>5. /\ SumFunctionOnSet(F, Times) \in Int
      /\ SumFunctionOnSet(G, Times) = SumFunctionOnSet(F, Times) - F[e] + G[e]
  <2>1. \A x \in Times : x \in Nat
    BY ResultsAssumption DEF Times
  <2>2. \A x \in Times : F[x] \in Int /\ G[x] \in Int
    BY <1>1, <2>1
  <2>3. \A x \in Times \ {e} : G[x] = F[x]
    BY <1>1
  <2> HIDE DEF F, G
  <2> QED
    BY <1>2, <2>2, <2>3, SumType, SumChanges
<1>6. F[e] \in Int /\ G[e] = F[e] + e
  <2>1. e \in Nat /\ f[e] \in Nat
    BY ResultsAssumption DEF Times
  <2>2. F[e] = e * f[e] /\ G[e] = e * (f[e] + 1)
    BY <1>1
  <2>3. e * f[e] \in Int /\ e * (f[e] + 1) = e * f[e] + e
    BY <2>1
  <2> QED
    BY <2>2, <2>3
<1>7. /\ SumFunction(f) = SumFunctionOnSet(f, Times)
      /\ SumFunction(g) = SumFunctionOnSet(g, Times)
      /\ SumFunction(F) = SumFunctionOnSet(F, Times)
      /\ SumFunction(G) = SumFunctionOnSet(G, Times)
  BY <1>1, Zenon DEF SumFunction
<1>8. f[e] \in Int /\ e \in Int
  BY ResultsAssumption DEF Times
<1>9. SumFunction(g) = SumFunction(f) + 1
  BY <1>1, <1>3, <1>7, <1>8
<1>10. SumFunction(G) = SumFunction(F) + e
  <2> HIDE DEF F, G
  <2> QED
    BY <1>5, <1>6, <1>7, <1>8
<1> QED
  BY <1>1, <1>9, <1>10

(* The sums over all measured are numbers.                                 *)
LEMMA SumsAreCounts ==
  ASSUME NEW f \in [Times -> Nat]
  PROVE  /\ SumFunction(f) \in Nat
         /\ SumFunction([t \in Times |-> t * f[t]]) \in Nat
<1>1. IsFiniteSet(Times)
  BY FS_Interval, ResultsAssumption DEF Times
<1>2. SumFunctionOnSet(f, Times) \in Nat
  BY <1>1, SumNat
<1>3. DEFINE F == [t \in Times |-> t * f[t]]
<1>4. \A x \in Times : F[x] \in Nat
  <2>1. \A x \in Times : x \in Nat
    BY ResultsAssumption DEF Times
  <2> QED
    BY <2>1
<1>5. SumFunctionOnSet(F, Times) \in Nat
  <2> HIDE DEF F
  <2> QED
    BY <1>1, <1>4, SumNat
<1>6. SumFunction(F) = SumFunctionOnSet(F, Times)
  BY Zenon DEF SumFunction
<1>7. SumFunction(f) = SumFunctionOnSet(f, Times)
  BY Zenon DEF SumFunction
<1> QED
  BY <1>2, <1>5, <1>6, <1>7

(* Before a success is measured both sums are 0.                           *)
LEMMA NothingMeasured ==
  ASSUME NEW f \in [Times -> Nat], \A t \in Times : f[t] = 0
  PROVE  /\ SumFunction(f) = 0
         /\ SumFunction([t \in Times |-> t * f[t]]) = 0
<1>1. IsFiniteSet(Times)
  BY FS_Interval, ResultsAssumption DEF Times
<1>2. \A g : DOMAIN g = Times /\ (\A t \in Times : g[t] = 0) => SumFunction(g) = 0
  <2> SUFFICES ASSUME NEW g, DOMAIN g = Times, \A t \in Times : g[t] = 0
               PROVE  SumFunction(g) = 0
    OBVIOUS
  <2>1. SumFunctionOnSet(g, Times) \in {0}
    <3>1. 0 \in {0} /\ \A x, y \in {0} : x + y \in {0}
      OBVIOUS
    <3>2. \A t \in Times : g[t] \in {0}
      OBVIOUS
    <3> QED
      BY ONLY <1>1, <3>1, <3>2, SumClosed, Zenon
  <2> QED
    BY <2>1, Zenon DEF SumFunction
<1>3. /\ DOMAIN [t \in Times |-> t * f[t]] = Times
      /\ \A t \in Times : [s \in Times |-> s * f[s]][t] = 0
  BY ResultsAssumption DEF Times
<1> QED
  BY <1>2, <1>3

(* When every request is counted once, what AddResult() takes for the      *)
(* successes on either side are the successes.                             *)
LEMMA CountsOfData ==
  ASSUME NEW d \in AggDatas, NEW m \in Metrics, CountedOnce(m),
         d.TotalReqs = d.TotalTimedOut + d.TotalConnectionError + Ok(d)
  PROVE  /\ Ok(d) \in Nat /\ Ok(m) \in Nat
         /\ CountOk(d) = Ok(d) /\ Successes(m) = Ok(m)
<1>1. Ok(d) \in Nat /\ Ok(m) \in Nat
  BY OkIsCount DEF AggDatas, Metrics
<1>2. PICK x \in Nat, y \in Nat, n \in Nat :
        /\ x = d.TotalTimedOut /\ y = d.TotalConnectionError /\ n = Ok(d)
  BY <1>1 DEF AggDatas
<1>3. PICK u \in Nat, v \in Nat, k \in Nat :
        /\ u = m.TimedOut /\ v = m.ConnectionErrors /\ k = Ok(m)
  BY <1>1 DEF Metrics
<1>4. d.TotalReqs = x + y + n /\ m.RequestCount = u + v + k
  BY Zenon, <1>2, <1>3 DEF CountedOnce
<1>5. x + y + n - x - y = n /\ u + v + k - (u + v) = k
  OBVIOUS
<1>6. CountOk(d) = n
  <2>1. CountOk(d) = x + y + n - x - y
    BY <1>2, <1>4 DEF CountOk
  <2> QED
    BY <1>5, <2>1
<1>7. Successes(m) = k
  <2>1. Successes(m) = u + v + k - (u + v)
    BY <1>3, <1>4 DEF Successes
  <2> QED
    BY <1>5, <2>1
<1> QED
  BY <1>1, <1>2, <1>3, <1>6, <1>7

(* A report keeps the average near: a window with a success costs at most  *)
(* one more unit, another none.                                            *)
LEMMA NearSent ==
  ASSUME NEW d \in AggDatas, NEW m \in Metrics, CountedOnce(m), Averaged(m),
         d.TotalReqs = d.TotalTimedOut + d.TotalConnectionError + Ok(d),
         NEW w \in Nat, NEW R \in Int, Near(d, w, R),
         NEW fin \in BOOLEAN, NEW region \in RegionNames,
         NEW a, a = AddResult(d, m, fin, region)
  PROVE  Near(a, w + (IF Successes(m) > 0 THEN 1 ELSE 0), R + m.requestTimeTotal)
<1>1. /\ Ok(d) \in Nat /\ Ok(m) \in Nat
      /\ CountOk(d) = Ok(d) /\ Successes(m) = Ok(m)
  BY CountsOfData
<1>2. PICK n \in Nat, k \in Nat : n = Ok(d) /\ k = Ok(m)
  BY <1>1
<1>3. /\ a \in AggDatas
      /\ Ok(a) = n + k
      /\ a.Slowest = LargerOf(m.Slowest, d.Slowest)
      /\ a.Fastest = FasterOf(d.Fastest, m.Fastest)
      /\ a.AveTimeForReq =
           IF n + k > 0 THEN AddToTotalAverage(d.AveTimeForReq, n, m.AveTimeForReq, k)
                        ELSE d.AveTimeForReq
      /\ a.AveTimeToFirst =
           IF n + k > 0 THEN AddToTotalAverage(d.AveTimeToFirst, n, m.AveTimeToFirst, k)
                        ELSE d.AveTimeToFirst
  BY <1>1, <1>2, AddedFields
<1>4. PICK T \in Nat, x \in Nat, y \in Nat, z \in Nat :
        /\ T = m.requestTimeTotal /\ x = d.AveTimeForReq
        /\ y = m.AveTimeForReq /\ z = a.AveTimeForReq
  BY <1>3 DEF AggDatas, Metrics
<1>5. CASE n + k = 0
  <2>1. n = 0 /\ k = 0
    BY <1>5
  <2>2. /\ R = 0 /\ T = 0
        /\ a.AveTimeForReq = 0 /\ a.AveTimeToFirst = 0
        /\ d.Fastest \in {0, MaxInt64} /\ m.Fastest = MaxInt64
        /\ d.Slowest = 0 /\ m.Slowest = 0
    BY <1>2, <1>3, <1>4, <1>5, <2>1 DEF Near, Averaged
  <2>3. a.Fastest \in {0, MaxInt64} /\ a.Slowest = 0
    BY <1>3, <2>2 DEF FasterOf, LargerOf
  <2>4. R + T = 0
    BY <2>2
  <2> QED
    BY <1>3, <1>4, <1>5, <2>2, <2>3, <2>4 DEF Near
<1>6. CASE n + k > 0 /\ k = 0
  <2>1. y = 0 /\ T = 0 /\ n \in Nat \ {0} /\ n + k = n
    BY <1>2, <1>4, <1>6 DEF Averaged
  <2>2. z = x
    <3>1. AddToTotalAverage(x, n, 0, 0) = x
      BY <2>1, AverageKept
    <3> QED
      BY <1>3, <1>4, <1>6, <2>1, <3>1
  <2>3. w > 0 /\ x * n <= R /\ R < (x + w) * n
    BY <1>2, <1>4, <2>1 DEF Near
  <2>4. Ok(a) = n /\ R + T = R /\ w + 0 = w /\ ~(Successes(m) > 0)
    BY <1>1, <1>2, <1>3, <1>6, <2>1
  <2> QED
    BY <1>4, <2>1, <2>2, <2>3, <2>4 DEF Near
<1>7. CASE k > 0
  <2>1. y = T \div k /\ k \in Nat \ {0} /\ n + k > 0
    BY <1>2, <1>4, <1>7 DEF Averaged
  <2>2. z = AddToTotalAverage(x, n, y, k)
    BY <1>3, <1>4, <2>1
  <2>3. /\ n = 0 => R = 0
        /\ n > 0 => w > 0 /\ x * n <= R /\ R < (x + w) * n
    BY <1>2, <1>4 DEF Near
  <2>4. R \in Nat
    <3>1. CASE n = 0
      BY <2>3, <3>1
    <3>2. CASE n > 0
      <4>1. x * n \in Nat
        OBVIOUS
      <4> QED
        BY <2>3, <3>2, <4>1
    <3> QED
      BY <3>1, <3>2
  <2>5. z * (n + k) <= R + T /\ R + T < (z + (w + 1)) * (n + k)
    BY ONLY <2>1, <2>2, <2>3, <2>4, n \in Nat, x \in Nat, y \in Nat, w \in Nat,
            T \in Nat, NearMoves, Zenon
  <2>6. Ok(a) = n + k /\ Successes(m) > 0 /\ ~(n + k = 0) /\ w + 1 > 0
    BY <1>1, <1>2, <1>3, <1>7, <2>1
  <2> QED
    BY <1>4, <2>5, <2>6 DEF Near
<1> QED
  BY <1>5, <1>6, <1>7

(* No duration is mistaken for the sentinel MaxInt64.                      *)
LEMMA TimesAreBelowMax ==
  /\ Times \subseteq Nat /\ MaxInt64 \in Nat /\ 0 \in Times
  /\ \A t \in Times : t < MaxInt64
BY ResultsAssumption DEF Times

(* A window begins, and a test, with nothing counted.                      *)
LEMMA NothingCounted ==
  /\ NoMetric \in Metrics /\ Ok(NoMetric) = 0
  /\ Silent \in AggDatas /\ Ok(Silent) = 0
<1>1. /\ NoStatuses \in [StatusCodes -> Nat]
      /\ NoStatuses["below 400"] = 0 /\ NoStatuses["from 400"] = 0
  BY DEF NoStatuses, StatusCodes
<1>2. 0 \in Times
  BY TimesAreBelowMax
<1>3. PICK s \in [StatusCodes -> Nat] : s = NoStatuses
  BY <1>1
<1>4. NoMetric \in Metrics /\ NoMetric.Statuses = NoStatuses
  <2>1. NoMetric.Statuses = NoStatuses
    BY DEF NoMetric
  <2>2. [NoMetric EXCEPT !.Statuses = s] \in Metrics
    BY ONLY <1>2, s \in [StatusCodes -> Nat] DEF NoMetric, Metrics
  <2>3. [NoMetric EXCEPT !.Statuses = s] = NoMetric
    <3>1. s = NoStatuses
      BY <1>3
    <3> QED
      BY ONLY <3>1 DEF NoMetric
  <2> QED
    BY <2>1, <2>2, <2>3
<1>5. Silent \in AggDatas /\ Silent.Statuses = NoStatuses
  <2>1. Silent =
          [TotalReqs |-> 0, TotalTimedOut |-> 0, TotalConnectionError |-> 0,
           AveTimeForReq |-> 0, AveTimeToFirst |-> 0, TimeDelta |-> 0,
           Fastest |-> 0, Slowest |-> 0, Statuses |-> s,
           Finished |-> FALSE, Region |-> NoRegion]
    BY Zenon, <1>3 DEF Silent
  <2>2. Silent \in AggDatas
    BY <1>2, <2>1 DEF AggDatas, RegionNames
  <2> QED
    BY <1>3, <2>1, <2>2
<1>6. Ok(NoMetric) = 0 + 0 /\ Ok(Silent) = 0 + 0
  BY Zenon, <1>1, <1>4, <1>5 DEF Ok
<1> QED
  BY <1>4, <1>5, <1>6

(* A success of a duration e that is not 0 widens the extremes to e.       *)
LEMMA ExtremesAdded ==
  ASSUME NEW d \in AggDatas, NEW m \in Metrics, NEW r \in Held, Averaged(m),
         NEW a \in Metrics, SuccessCounted(m, r, a),
         NEW M, M \subseteq Times \ {0},
         NEW e, e = r.ElapsedLastByte, e > 0, r.ElapsedFirstByte <= e,
         \A t \in M : Bounds(m, d, t), Taken(m, M), Taken(d, M), WindowBetween(m)
  PROVE  /\ \A t \in M \cup {e} : Bounds(a, d, t)
         /\ Taken(a, M \cup {e}) /\ Taken(d, M \cup {e})
         /\ WindowBetween(a)
<1>1. e \in Times /\ e \in Nat /\ e < MaxInt64
  BY TimesAreBelowMax DEF Held
<1>2. /\ a.Fastest = SmallerOf(e, m.Fastest)
      /\ a.Slowest = LargerOf(e, m.Slowest)
      /\ Ok(a) = Ok(m) + 1
      /\ a.requestTimeTotal = m.requestTimeTotal + e
      /\ a.timeToFirstTotal = m.timeToFirstTotal + r.ElapsedFirstByte
  BY DEF SuccessCounted
<1>3. /\ m.Fastest \in Nat /\ m.Slowest \in Nat
      /\ a.Fastest \in Nat /\ a.Slowest \in Nat
      /\ d.Fastest \in Nat /\ d.Slowest \in Nat
  BY TimesAreBelowMax DEF AggDatas, Metrics
<1>4. /\ a.Fastest <= e /\ a.Fastest <= m.Fastest
      /\ e <= a.Slowest /\ m.Slowest <= a.Slowest
      /\ a.Fastest \in {e, m.Fastest} /\ a.Slowest \in {e, m.Slowest}
  BY <1>1, <1>2, <1>3 DEF SmallerOf, LargerOf
<1>5. \A t \in M \cup {e} : Bounds(a, d, t)
  <2> SUFFICES ASSUME NEW t \in M \cup {e} PROVE Bounds(a, d, t)
    OBVIOUS
  <2>1. t \in Nat
    BY <1>1, TimesAreBelowMax
  <2>2. CASE t = e
    BY <1>4, <2>2 DEF Bounds
  <2>3. CASE t \in M
    BY <1>3, <1>4, <2>1, <2>3 DEF Bounds
  <2> QED
    BY <2>2, <2>3
<1>6. Taken(a, M \cup {e}) /\ Taken(d, M \cup {e})
  BY <1>4 DEF Taken
<1>7. WindowBetween(a)
  <2>1. Ok(m) \in Nat
    BY OkIsCount DEF Metrics
  <2>2. PICK k \in Nat, T \in Nat, F \in Nat, g \in Nat :
          /\ k = Ok(m) /\ T = m.requestTimeTotal
          /\ F = m.timeToFirstTotal /\ g = r.ElapsedFirstByte
    BY <2>1, TimesAreBelowMax DEF Metrics, Held
  <2>3. PICK f \in Nat, s \in Nat, u \in Nat, v \in Nat :
          /\ f = m.Fastest /\ s = m.Slowest /\ u = a.Fastest /\ v = a.Slowest
    BY <1>3
  <2>4. /\ f # 0
        /\ k > 0 => f * k <= T /\ T <= s * k /\ F <= T
        /\ k = 0 => T = 0 /\ F = 0
    BY <2>2, <2>3 DEF WindowBetween, Averaged
  <2>5. /\ u <= e /\ u <= f /\ e <= v /\ s <= v
        /\ u \in {e, f}
    BY <1>4, <2>3
  <2>6. /\ u * k <= f * k /\ s * k <= v * k
    BY <2>5, Products
  <2>7. u * k <= T /\ T <= v * k /\ F <= T
    <3>1. CASE k = 0
      BY <2>4, <3>1
    <3>2. CASE k > 0
      <4>1. u * k \in Int /\ f * k \in Int /\ s * k \in Int /\ v * k \in Int
        OBVIOUS
      <4> QED
        BY <2>4, <2>6, <3>2, <4>1
    <3> QED
      BY <3>1, <3>2
  <2>8. /\ u * (k + 1) <= T + e /\ T + e <= v * (k + 1) /\ F + g <= T + e
    <3>1. /\ u * (k + 1) = u * k + u /\ v * (k + 1) = v * k + v
          /\ u * k \in Int /\ v * k \in Int
      OBVIOUS
    <3>2. g <= e
      BY <2>2
    <3> QED
      BY <1>1, <2>5, <2>7, <3>1, <3>2
  <2>9. u # 0 /\ u # MaxInt64
    BY <1>1, <2>4, <2>5, TimesAreBelowMax
  <2>10. /\ Ok(a) = k + 1 /\ a.requestTimeTotal = T + e
         /\ a.timeToFirstTotal = F + g
    BY <1>2, <2>2
  <2> QED
    BY Zenon, <2>3, <2>8, <2>9, <2>10 DEF WindowBetween
<1> QED
  BY <1>5, <1>6, <1>7

(* Of two fastest times the smaller one is taken, unless it is the         *)
(* sentinel 0 of a runner that has not reported.                           *)
LEMMA FasterOfTwo ==
  ASSUME NEW x \in Times \cup {MaxInt64}, NEW y \in Times \cup {MaxInt64}, y # 0,
         NEW z, z = FasterOf(x, y)
  PROVE  /\ z \in Nat /\ z # 0 /\ z <= y
         /\ x # 0 => z <= x
         /\ z \in {x, y}
BY TimesAreBelowMax DEF FasterOf

(* A report hands the extremes of its window over.                         *)
LEMMA ExtremesSent ==
  ASSUME NEW d \in AggDatas, NEW m \in Metrics, CountedOnce(m), Averaged(m),
         d.TotalReqs = d.TotalTimedOut + d.TotalConnectionError + Ok(d),
         NEW fin \in BOOLEAN, NEW region \in RegionNames,
         NEW a, a = AddResult(d, m, fin, region),
         NEW M, M \subseteq Times,
         \A t \in M : Bounds(m, d, t), Taken(m, M), Taken(d, M),
         WindowBetween(m), DataBetween(d)
  PROVE  /\ \A t \in M : Bounds(NoMetric, a, t)
         /\ Taken(NoMetric, M) /\ Taken(a, M)
         /\ WindowBetween(NoMetric) /\ DataBetween(a)
<1>1. /\ Ok(d) \in Nat /\ Ok(m) \in Nat
      /\ CountOk(d) = Ok(d) /\ Successes(m) = Ok(m)
  BY CountsOfData
<1>2. PICK n \in Nat, k \in Nat : n = Ok(d) /\ k = Ok(m)
  BY <1>1
<1>3. /\ a \in AggDatas
      /\ Ok(a) = n + k
      /\ a.Slowest = LargerOf(m.Slowest, d.Slowest)
      /\ a.Fastest = FasterOf(d.Fastest, m.Fastest)
      /\ n + k > 0 =>
           /\ a.AveTimeForReq = AddToTotalAverage(d.AveTimeForReq, n, m.AveTimeForReq, k)
           /\ a.AveTimeToFirst = AddToTotalAverage(d.AveTimeToFirst, n, m.AveTimeToFirst, k)
  BY <1>1, <1>2, AddedFields
<1>4. /\ a.Fastest \in Nat /\ a.Fastest # 0 /\ a.Fastest <= m.Fastest
      /\ d.Fastest # 0 => a.Fastest <= d.Fastest
      /\ a.Fastest \in {d.Fastest, m.Fastest}
  <2>1. /\ d.Fastest \in Times \cup {MaxInt64} /\ m.Fastest \in Times \cup {MaxInt64}
        /\ m.Fastest # 0
    BY DEF AggDatas, Metrics, WindowBetween
  <2> QED
    BY <1>3, <2>1, FasterOfTwo
<1>5. /\ m.Fastest \in Nat /\ d.Fastest \in Nat /\ m.Slowest \in Nat
      /\ d.Slowest \in Nat /\ a.Slowest \in Nat
  BY <1>3, TimesAreBelowMax DEF AggDatas, Metrics
<1>6. /\ m.Slowest <= a.Slowest /\ d.Slowest <= a.Slowest
      /\ a.Slowest \in {m.Slowest, d.Slowest}
  BY <1>3, <1>5 DEF LargerOf
<1>7. \A t \in M : Bounds(NoMetric, a, t)
  <2> SUFFICES ASSUME NEW t \in M PROVE Bounds(NoMetric, a, t)
    OBVIOUS
  <2>1. t \in Nat /\ Bounds(m, d, t)
    BY TimesAreBelowMax
  <2> QED
    BY <1>4, <1>5, <1>6, <2>1 DEF Bounds
<1>8. Taken(NoMetric, M) /\ Taken(a, M)
  <2>1. Taken(NoMetric, M)
    BY DEF Taken, NoMetric
  <2> QED
    BY <1>4, <1>6, <2>1 DEF Taken
<1>9. WindowBetween(NoMetric)
  <2>1. NoMetric.Fastest = MaxInt64 /\ Ok(NoMetric) = 0
    BY NothingCounted DEF NoMetric
  <2> QED
    BY <2>1, ResultsAssumption DEF WindowBetween
<1>10. ASSUME n + k > 0
       PROVE  /\ a.Fastest \notin {0, MaxInt64}
              /\ a.Fastest <= a.AveTimeForReq
              /\ a.AveTimeForReq <= a.Slowest
              /\ a.AveTimeToFirst <= a.AveTimeForReq
  <2>1. PICK x \in Nat, y \in Nat, v \in Nat, w \in Nat :
          /\ x = d.AveTimeForReq /\ y = m.AveTimeForReq
          /\ v = d.AveTimeToFirst /\ w = m.AveTimeToFirst
    BY DEF AggDatas, Metrics
  <2>2. PICK l \in Nat, u \in Nat, f \in Nat, s \in Nat, g \in Nat, h \in Nat :
          /\ l = a.Fastest /\ u = a.Slowest /\ f = m.Fastest /\ s = m.Slowest
          /\ g = d.Fastest /\ h = d.Slowest
    BY <1>4, <1>5
  <2>3. n > 0 => /\ g \notin {0, MaxInt64} /\ g <= x /\ x <= h /\ v <= x
    BY <1>2, <2>1, <2>2 DEF DataBetween
  <2>4. k > 0 => f \notin {0, MaxInt64} /\ f <= y /\ y <= s /\ w <= y
    <3> SUFFICES ASSUME k > 0
                 PROVE  f \notin {0, MaxInt64} /\ f <= y /\ y <= s /\ w <= y
      OBVIOUS
    <3>1. PICK T \in Nat, F \in Nat : T = m.requestTimeTotal /\ F = m.timeToFirstTotal
      BY DEF Metrics
    <3>2. y = T \div k /\ w = F \div k
      BY <1>2, <2>1, <3>1 DEF Averaged
    <3>3. f \notin {0, MaxInt64} /\ f * k <= T /\ T <= s * k /\ F <= T
      BY <1>2, <2>2, <3>1 DEF WindowBetween
    <3>4. k \in Nat \ {0}
      OBVIOUS
    <3>5. f <= T \div k /\ T \div k <= s
      BY ONLY <3>3, <3>4, f \in Nat, s \in Nat, T \in Nat, DividedBetween, Zenon
    <3>6. F \div k <= T \div k
      BY ONLY <3>3, <3>4, F \in Nat, T \in Nat, DividedMore, Zenon
    <3> QED
      BY Zenon, <3>2, <3>3, <3>5, <3>6
  <2>5. /\ l # 0 /\ l <= f /\ (g # 0 => l <= g)
        /\ s <= u /\ h <= u
    BY <1>4, <1>6, <2>2
  <2>6. /\ n > 0 => l <= x /\ x <= u
        /\ k > 0 => l <= y /\ y <= u
    BY <2>3, <2>4, <2>5
  <2>7. l # MaxInt64
    <3>1. f <= MaxInt64 /\ g <= MaxInt64
      <4>1. \A c \in Times \cup {MaxInt64} : c <= MaxInt64
        BY TimesAreBelowMax
      <4> QED
        BY <2>2, <4>1 DEF AggDatas, Metrics
    <3>2. n > 0 \/ k > 0
      BY <1>10
    <3> QED
      BY <2>3, <2>4, <2>5, <3>1, <3>2, TimesAreBelowMax
  <2>8. PICK p, q : /\ p = AddToTotalAverage(x, n, y, k)
                    /\ q = AddToTotalAverage(v, n, w, k)
    OBVIOUS
  <2>9. l <= p /\ p <= u
    BY ONLY <1>10, <2>6, <2>8, n \in Nat, k \in Nat, x \in Nat, y \in Nat,
            l \in Nat, u \in Nat, AverageBetween, Zenon
  <2>10. q <= p
    <3>1. (n > 0 => v <= x) /\ (k > 0 => w <= y)
      BY <2>3, <2>4
    <3> QED
      BY ONLY <1>10, <2>8, <3>1, n \in Nat, k \in Nat, x \in Nat, y \in Nat,
              v \in Nat, w \in Nat, AverageBelow, Zenon
  <2>11. a.AveTimeForReq = p /\ a.AveTimeToFirst = q
    BY Zenon, <1>3, <1>10, <2>1, <2>8
  <2> QED
    BY Zenon, <2>2, <2>5, <2>7, <2>9, <2>10, <2>11
<1>11. DataBetween(a)
  BY <1>3, <1>10 DEF DataBetween
<1> QED
  BY <1>7, <1>8, <1>9, <1>11

(* One request after the other: its time is added to the window.           *)
LEMMA SequentialAdded ==
  ASSUME NEW d \in AggDatas, NEW m \in Metrics, NEW r \in Held,
         CountedOnce(m), Averaged(m),
         NEW a \in Metrics, a = Aggregate(Count(m, r)),
         r.Time > 0, r.ElapsedLastByte \in {0, r.Elapsed}, ~Failed(r),
         NEW R \in Int, Sequential(m, d, R), Follows(m, d, r.Time)
  PROVE  Sequential(a, d, R) /\ Follows(a, d, r.Time + r.Elapsed)
<1>1. /\ a.RequestCount = m.RequestCount + 1
      /\ a.firstRequestTime = IF m.firstRequestTime = 0 THEN r.Time
                              ELSE m.firstRequestTime
      /\ a.lastRequestTime = r.Time + r.Elapsed
      /\ a.TimeDelta = a.lastRequestTime - a.firstRequestTime
      /\ SuccessCounted(m, r, a)
  BY AddedToWindow
<1>2. PICK t \in Nat, l \in Nat, e \in Nat, T \in Nat, x \in Int :
        /\ t = r.Time /\ l = r.Elapsed /\ e = r.ElapsedLastByte
        /\ T = m.requestTimeTotal /\ x = d.TimeDelta
  BY TimesAreBelowMax DEF Held, Metrics, AggDatas
<1>3. PICK c \in Nat, f \in Nat, y \in Nat, z \in Int, g \in Nat :
        /\ c = m.RequestCount /\ f = m.firstRequestTime /\ y = m.lastRequestTime
        /\ z = m.TimeDelta /\ g = a.firstRequestTime
  BY DEF Metrics
<1>4. /\ t > 0 /\ e <= l
      /\ R <= x
      /\ c = 0 => f = 0 /\ z = 0 /\ x <= t - 1
      /\ c > 0 => f > 0 /\ z = y - f /\ T <= z /\ x <= f - 1 /\ y <= t
  <2>1. t > 0 /\ e <= l
    BY <1>2
  <2>2. /\ R <= x
        /\ c = 0 => f = 0 /\ z = 0
        /\ c > 0 => f > 0 /\ z = y - f /\ T <= z /\ x <= f - 1
    BY <1>2, <1>3 DEF Sequential
  <2>3. IF c = 0 THEN x <= t - 1 ELSE y <= t
    BY <1>2, <1>3 DEF Follows
  <2> QED
    BY <2>1, <2>2, <2>3
<1>5. c = 0 => T = 0
  <2>1. Ok(m) \in Nat
    BY OkIsCount DEF Metrics
  <2>2. c = 0 => Ok(m) = 0
    BY <1>3, <2>1 DEF CountedOnce, Metrics
  <2> QED
    BY <1>2, <2>2 DEF Averaged
<1>6. g = IF f = 0 THEN t ELSE f
  BY <1>1, <1>2, <1>3
<1>7. /\ g > 0 /\ T + e <= t + l - g /\ x <= g - 1
  <2>1. CASE c = 0
    BY <1>4, <1>5, <1>6, <2>1
  <2>2. CASE c > 0
    BY <1>4, <1>6, <2>2
  <2> QED
    BY <2>1, <2>2
<1>8. /\ a.RequestCount = c + 1 /\ a.lastRequestTime = t + l
      /\ a.TimeDelta = t + l - g /\ a.requestTimeTotal = T + e
      /\ a.firstRequestTime = g /\ d.TimeDelta = x
  BY <1>1, <1>2, <1>3 DEF SuccessCounted
<1>9. c + 1 > 0 /\ ~(c + 1 = 0)
  BY <1>3
<1>10. Sequential(a, d, R)
  BY <1>4, <1>7, <1>8, <1>9 DEF Sequential
<1>11. Follows(a, d, r.Time + r.Elapsed)
  BY <1>2, <1>8, <1>9 DEF Follows
<1> QED
  BY <1>10, <1>11

(* The time of a window is added to that of the runner.                    *)
LEMMA SequentialSent ==
  ASSUME NEW d \in AggDatas, NEW m \in Metrics, CountedOnce(m), Averaged(m),
         NEW a \in AggDatas, a.TimeDelta = d.TimeDelta + m.TimeDelta,
         NEW R \in Int, Sequential(m, d, R)
  PROVE  /\ Sequential(NoMetric, a, R + m.requestTimeTotal)
         /\ \A t \in Int : Follows(m, d, t) => Follows(NoMetric, a, t)
<1>1. PICK T \in Nat, x \in Int, c \in Nat, f \in Nat, y \in Nat, z \in Int :
        /\ T = m.requestTimeTotal /\ x = d.TimeDelta
        /\ c = m.RequestCount /\ f = m.firstRequestTime /\ y = m.lastRequestTime
        /\ z = m.TimeDelta
  BY DEF Metrics, AggDatas
<1>2. /\ R <= x
      /\ c = 0 => f = 0 /\ z = 0
      /\ c > 0 => f > 0 /\ z = y - f /\ T <= z /\ x <= f - 1
  BY <1>1 DEF Sequential
<1>3. c = 0 => T = 0
  <2>1. Ok(m) \in Nat
    BY OkIsCount DEF Metrics
  <2>2. c = 0 => Ok(m) = 0
    BY <1>1, <2>1 DEF CountedOnce, Metrics
  <2> QED
    BY <1>1, <2>2 DEF Averaged
<1>4. R + T <= x + z
  BY <1>2, <1>3
<1>5. /\ NoMetric.RequestCount = 0 /\ NoMetric.firstRequestTime = 0
      /\ NoMetric.TimeDelta = 0 /\ ~(0 > 0)
      /\ a.TimeDelta = x + z
  BY <1>1 DEF NoMetric
<1>6. Sequential(NoMetric, a, R + m.requestTimeTotal)
  BY Zenon, <1>1, <1>4, <1>5 DEF Sequential
<1>7. ASSUME NEW t \in Int, Follows(m, d, t)
      PROVE  Follows(NoMetric, a, t)
  <2>1. IF c = 0 THEN x <= t - 1 ELSE y <= t
    BY <1>1, <1>7 DEF Follows
  <2>2. x + z <= t - 1
    BY <1>2, <2>1
  <2> QED
    BY <1>5, <2>2 DEF Follows
<1> QED
  BY <1>6, <1>7

(* A body that was begun.                                                  *)
LEMMA FetchedFully ==
  ASSUME NEW start, NEW o, o \notin {"timeout", "no connection", "redirect"},
         NEW r \in Fetched(start, o)
  PROVE  \E first \in 1 .. clock - start :
           r = [at |-> "fetched", outcome |-> o, Time |-> start, Elapsed |-> clock - start,
                ElapsedFirstByte |-> first, ElapsedLastByte |-> clock - start]
<1>1. o # "redirect" /\ o \notin {"timeout", "no connection"}
  OBVIOUS
<1> QED
  BY <1>1 DEF Fetched

(* What fetch() measures is past, in order, and 0 where it says so.        *)
LEMMA FetchedIsPast ==
  ASSUME NEW start \in 1 .. clock, clock \in 1 .. TimeBound, start < clock,
         NEW o \in Outcomes, NEW r \in Fetched(start, o)
  PROVE  /\ r \in Held /\ r.at = "fetched" /\ r.Time = start
         /\ start + r.Elapsed <= clock
         /\ ~Failed(r) /\ r.outcome # "redirect" =>
              /\ r.ElapsedLastByte = r.Elapsed
              /\ r.ElapsedFirstByte \in 1 .. r.Elapsed
         /\ r.outcome = "redirect" => r.ElapsedLastByte = 0
<1>1. PICK all \in Times : all = clock - start /\ all > 0 /\ start + all = clock
  BY ResultsAssumption DEF Times
<1>2. start \in Times /\ \A n \in 1 .. all : n \in Times
  BY ResultsAssumption DEF Times
<1>3. 0 \in Times /\ start + 0 <= clock
  BY ResultsAssumption DEF Times
<1>4. CASE o \in {"timeout", "no connection"}
  <2>1. r = [at |-> "fetched", outcome |-> o, Time |-> start, Elapsed |-> 0,
             ElapsedFirstByte |-> 0, ElapsedLastByte |-> 0]
    BY <1>4 DEF Fetched
  <2>2. Failed(r) /\ r.outcome # "redirect"
    BY <1>4, <2>1 DEF Failed
  <2> QED
    BY <1>2, <1>3, <2>1, <2>2 DEF Held
<1>5. CASE o = "redirect"
  <2>1. r = [at |-> "fetched", outcome |-> o, Time |-> start, Elapsed |-> all,
             ElapsedFirstByte |-> all, ElapsedLastByte |-> 0]
    BY <1>1, <1>5 DEF Fetched
  <2> QED
    BY <1>1, <1>2, <1>3, <1>5, <2>1 DEF Held
<1>6. CASE o \notin {"timeout", "no connection", "redirect"}
  <2>1. PICK first \in 1 .. all :
          r = [at |-> "fetched", outcome |-> o, Time |-> start, Elapsed |-> all,
               ElapsedFirstByte |-> first, ElapsedLastByte |-> all]
    <3>1. \E first \in 1 .. clock - start :
            r = [at |-> "fetched", outcome |-> o, Time |-> start,
                 Elapsed |-> clock - start, ElapsedFirstByte |-> first,
                 ElapsedLastByte |-> clock - start]
      BY Zenon, <1>6, FetchedFully
    <3>2. clock - start = all
      BY <1>1
    <3> QED
      BY ONLY <3>1, <3>2
  <2>2. first \in Times /\ all \in Times /\ start \in Times
    BY <1>2
  <2>3. /\ r.at = "fetched" /\ r.outcome = o /\ r.Time = start /\ r.Elapsed = all
        /\ r.ElapsedFirstByte = first /\ r.ElapsedLastByte = all
    BY <2>1
  <2>4. r \in Held
    BY <2>1, <2>2 DEF Held
  <2>5. o # "redirect"
    BY <1>6
  <2> QED
    BY <1>1, <2>3, <2>4, <2>5
<1> QED
  BY <1>4, <1>5, <1>6

-----------------------------------------------------------------------------

(* A worker that has ended its fetch holds a result.                       *)
LEMMA HeldWhenFetched ==
  ASSUME NEW x \in WorkerStates, x.at = "fetched"
  PROVE  x \in Held
<1>1. CASE x = Idle
  BY <1>1 DEF Idle
<1>2. CASE x \in [at : {"fetching"}, Time : Times]
  BY <1>2
<1> QED
  BY <1>1, <1>2 DEF WorkerStates

(* The invariant holds when the first request may start.                   *)
LEMMA ResultsInit == Init => ResultsInv
<1> SUFFICES ASSUME Init PROVE ResultsInv
  OBVIOUS
<1> USE DEF Init
<1>1. /\ \A t \in Times : measured[t] = 0
      /\ measured \in [Times -> Nat]
  OBVIOUS
<1>2. NumMeasured = 0 /\ SumMeasured = 0 /\ Measured = {}
  BY <1>1, NothingMeasured DEF NumMeasured, SumMeasured, Measured
<1>3. PICK spawned \in SUBSET Workers : worker = [w \in spawned |-> Idle]
  BY Zenon
<1>4. DOMAIN worker = spawned /\ \A w \in spawned : worker[w] = Idle
  BY <1>3
<1>5. TypeOK
  <2>1. worker \in [DOMAIN worker -> WorkerStates]
    BY <1>3 DEF WorkerStates
  <2>2. 1 \in 1 .. TimeBound /\ 0 \in 0 .. RequestBound
    BY ResultsAssumption
  <2> QED
    BY <1>1, <1>4, <2>1, <2>2, NothingCounted DEF TypeOK
<1>6. Idle.at = "idle"
  BY DEF Idle
<1>7. HeldIsPast
  BY <1>4, <1>6 DEF HeldIsPast
<1>8. /\ NoMetric.RequestCount = 0 /\ NoMetric.TimedOut = 0
      /\ NoMetric.ConnectionErrors = 0 /\ NoMetric.requestTimeTotal = 0
      /\ NoMetric.timeToFirstTotal = 0 /\ NoMetric.AveTimeForReq = 0
      /\ NoMetric.AveTimeToFirst = 0 /\ NoMetric.firstRequestTime = 0
      /\ NoMetric.TimeDelta = 0
      /\ NoMetric.Fastest = MaxInt64 /\ NoMetric.Slowest = 0
  BY DEF NoMetric
<1>9. /\ Silent.TotalReqs = 0 /\ Silent.TotalTimedOut = 0
      /\ Silent.TotalConnectionError = 0 /\ Silent.AveTimeForReq = 0
      /\ Silent.AveTimeToFirst = 0 /\ Silent.TimeDelta = 0
      /\ Silent.Fastest = 0 /\ Silent.Slowest = 0
  BY Zenon DEF Silent
<1>10. EachCountedOnce
  BY <1>8, <1>9, NothingCounted DEF EachCountedOnce, CountedOnce
<1>11. WindowIsAveraged
  BY <1>8, NothingCounted DEF WindowIsAveraged, Averaged
<1>12. Reported = 0
  BY <1>2, <1>8 DEF Reported
<1>13. AveragesAreNear
  BY <1>2, <1>9, <1>12, NothingCounted DEF AveragesAreNear, Near
<1>14. ExtremesAreMeasured
  BY <1>2, <1>8, <1>9, NothingCounted, TimesAreBelowMax
     DEF ExtremesAreMeasured, Taken, WindowBetween, DataBetween
<1>15. WindowsFollow
  BY <1>4, <1>8, <1>9, <1>12 DEF WindowsFollow, Sequential, Follows
<1> QED
  BY <1>5, <1>7, <1>10, <1>11, <1>13, <1>14, <1>15 DEF ResultsInv

(* Time alone moves only the bounds.                                       *)
LEMMA TimeStep == ResultsInv /\ TimePasses => ResultsInv'
<1> SUFFICES ASSUME ResultsInv, TimePasses PROVE ResultsInv'
  OBVIOUS
<1> USE DEF ResultsInv
<1>1. /\ clock' = clock + 1 /\ clock' \in 1 .. TimeBound /\ clock \in Nat
      /\ UNCHANGED <<started, worker, metric, data, neighbour, measured, windows>>
  BY ResultsAssumption DEF TimePasses, TypeOK
<1>2. TypeOK'
  BY <1>1 DEF TypeOK
<1>3. HeldIsPast'
  <2> SUFFICES ASSUME NEW w \in DOMAIN worker
               PROVE  LET r == worker[w] IN
                      /\ r.at = "fetching" => r.Time \in 1 .. clock'
                      /\ r.at = "fetched" =>
                           r.Time \in 1 .. clock' /\ r.Time + r.Elapsed <= clock'
    BY <1>1 DEF HeldIsPast
  <2>1. worker[w] \in WorkerStates
    BY DEF TypeOK
  <2>2. CASE worker[w].at = "fetching"
    BY <1>1, <2>2 DEF HeldIsPast
  <2>3. CASE worker[w].at = "fetched"
    <3>1. worker[w] \in Held
      BY <2>1, <2>3, HeldWhenFetched
    <3>2. worker[w].Time + worker[w].Elapsed \in Nat
      <4>1. worker[w].Time \in Times /\ worker[w].Elapsed \in Times
        BY <3>1 DEF Held
      <4>2. worker[w].Time \in Nat /\ worker[w].Elapsed \in Nat
        BY <4>1, TimesAreBelowMax
      <4> QED
        BY <4>2
    <3> QED
      BY <1>1, <2>3, <3>2 DEF HeldIsPast
  <2> QED
    BY <2>2, <2>3
<1>4. EachCountedOnce' /\ WindowIsAveraged'
  BY <1>1 DEF EachCountedOnce, WindowIsAveraged
<1>5. /\ NumMeasured' = NumMeasured /\ Reported' = Reported
      /\ Measured' = Measured /\ NoRedirects' = NoRedirects
  BY <1>1 DEF NumMeasured, Reported, SumMeasured, Measured, NoRedirects
<1>6. AveragesAreNear' /\ ExtremesAreMeasured'
  BY <1>1, <1>5 DEF AveragesAreNear, ExtremesAreMeasured
<1>7. WindowsFollow'
  <2>1. \A w \in DOMAIN worker :
          Follows(metric, data, IF worker[w] = Idle THEN clock ELSE worker[w].Time)
          => Follows(metric, data, IF worker[w] = Idle THEN clock' ELSE worker[w].Time)
    <3>1. Follows(metric, data, clock) => Follows(metric, data, clock')
      BY <1>1 DEF Follows, TypeOK, Metrics, AggDatas
    <3> QED
      BY <3>1
  <2> QED
    BY <1>1, <1>5, <2>1 DEF WindowsFollow
<1> QED
  BY <1>2, <1>3, <1>4, <1>6, <1>7

(* A worker that starts or ends a request changes nothing but its state.   *)
LEMMA FetchStep ==
  ASSUME ResultsInv, NEW w \in DOMAIN worker, StartFetch(w) \/ EndFetch(w)
  PROVE  ResultsInv'
<1> USE DEF ResultsInv
<1>1. /\ UNCHANGED <<clock, metric, data, neighbour, measured, windows>>
      /\ DOMAIN worker' = DOMAIN worker
      /\ \A v \in DOMAIN worker \ {w} : worker'[v] = worker[v]
  BY DEF StartFetch, EndFetch, TypeOK
<1>2. clock \in 1 .. TimeBound /\ clock \in Nat /\ clock \in Times
  BY ResultsAssumption DEF TypeOK, Times
<1>3. /\ worker'[w] \in WorkerStates
      /\ worker'[w] # Idle
      /\ worker'[w].Time = IF worker[w] = Idle THEN clock ELSE worker[w].Time
      /\ worker'[w].at = "fetching" => worker'[w].Time \in 1 .. clock
      /\ worker'[w].at = "fetched" =>
           /\ worker'[w].Time \in 1 .. clock
           /\ worker'[w].Time + worker'[w].Elapsed <= clock
           /\ ~Failed(worker'[w]) /\ worker'[w].outcome # "redirect" =>
                /\ worker'[w].ElapsedLastByte = worker'[w].Elapsed
                /\ worker'[w].ElapsedFirstByte \in 1 .. worker'[w].Elapsed
           /\ worker'[w].outcome = "redirect" => worker'[w].ElapsedLastByte = 0
  <2>1. CASE StartFetch(w)
    <3>1. worker'[w] = Fetching(clock) /\ worker[w] = Idle
      BY <2>1 DEF StartFetch
    <3>2. /\ Fetching(clock).at = "fetching" /\ Fetching(clock).Time = clock
          /\ Fetching(clock) \in WorkerStates /\ Idle.at = "idle"
      BY <1>2 DEF Fetching, Idle, WorkerStates
    <3> QED
      BY <1>2, <3>1, <3>2
  <2>2. CASE EndFetch(w)
    <3>1. worker[w].at = "fetching" /\ clock > worker[w].Time
      BY <2>2 DEF EndFetch
    <3>2. PICK start : start = worker[w].Time
      OBVIOUS
    <3>3. start \in 1 .. clock /\ start < clock
      <4>1. start \in 1 .. clock
        BY <3>1, <3>2 DEF HeldIsPast
      <4> QED
        BY <1>2, <3>1, <3>2, <4>1
    <3>4. PICK o \in Outcomes :
            \E r \in Fetched(start, o) : worker' = [worker EXCEPT ![w] = r]
      BY <2>2, <3>2, Zenon DEF EndFetch
    <3>5. PICK r \in Fetched(start, o) : worker' = [worker EXCEPT ![w] = r]
      BY <3>4
    <3>6. worker'[w] = r
      BY <3>5
    <3>7. /\ r \in Held /\ r.at = "fetched" /\ r.Time = start
          /\ start + r.Elapsed <= clock
          /\ ~Failed(r) /\ r.outcome # "redirect" =>
               /\ r.ElapsedLastByte = r.Elapsed
               /\ r.ElapsedFirstByte \in 1 .. r.Elapsed
          /\ r.outcome = "redirect" => r.ElapsedLastByte = 0
      BY ONLY <1>2, <3>3, o \in Outcomes, r \in Fetched(start, o), FetchedIsPast
    <3>8. Idle.at = "idle" /\ r \in WorkerStates
      BY <3>7 DEF Idle, WorkerStates
    <3>9. worker[w] # Idle /\ r # Idle
      BY <3>1, <3>7, <3>8
    <3> QED
      BY ONLY <3>2, <3>3, <3>6, <3>7, <3>8, <3>9
  <2> QED
    BY <2>1, <2>2
<1>4. TypeOK'
  <2>1. worker' \in [DOMAIN worker' -> WorkerStates]
    <3>1. \A v \in DOMAIN worker : worker'[v] \in WorkerStates
      BY <1>1, <1>3 DEF TypeOK
    <3>2. worker' = [v \in DOMAIN worker |-> worker'[v]]
      BY DEF StartFetch, EndFetch, TypeOK
    <3> QED
      BY ONLY <1>1, <3>1, <3>2
  <2>2. started' \in 0 .. RequestBound
    BY ResultsAssumption DEF TypeOK, StartFetch, EndFetch
  <2> QED
    BY <1>1, <2>1, <2>2 DEF TypeOK
<1>5. HeldIsPast'
  BY <1>1, <1>3 DEF HeldIsPast
<1>6. EachCountedOnce' /\ WindowIsAveraged'
  BY <1>1 DEF EachCountedOnce, WindowIsAveraged
<1>7. /\ NumMeasured' = NumMeasured /\ Reported' = Reported
      /\ Measured' = Measured /\ NoRedirects' = NoRedirects
  BY <1>1 DEF NumMeasured, Reported, SumMeasured, Measured, NoRedirects
<1>8. AveragesAreNear' /\ ExtremesAreMeasured'
  BY <1>1, <1>7 DEF AveragesAreNear, ExtremesAreMeasured
<1>9. WindowsFollow'
  BY <1>1, <1>3, <1>7 DEF WindowsFollow
<1> QED
  BY <1>4, <1>5, <1>6, <1>8, <1>9

(* There is no other worker than the one.                                  *)
LEMMA SingleWorker ==
  ASSUME Cardinality(DOMAIN worker) = 1, DOMAIN worker \subseteq Workers,
         NEW w \in DOMAIN worker, NEW v \in DOMAIN worker
  PROVE  v = w
<1>1. IsFiniteSet(DOMAIN worker)
  BY FS_Subset, ResultsAssumption
<1> QED
  BY <1>1, FS_Singleton

(* A worker that is not idle knows when its request began.                 *)
LEMMA StatesHaveTimes ==
  ASSUME NEW x \in WorkerStates, x # Idle
  PROVE  x.Time \in Times
<1>1. CASE x \in [at : {"fetching"}, Time : Times]
  BY <1>1
<1>2. CASE x \in Held
  BY <1>2 DEF Held
<1> QED
  BY <1>1, <1>2 DEF WorkerStates

(* A result moves one request from its worker to the window.               *)
LEMMA AddStep ==
  ASSUME ResultsInv, NEW w \in DOMAIN worker, AddRequest(w)
  PROVE  ResultsInv'
<1> USE DEF ResultsInv
<1>1. PICK r \in Held : /\ r = worker[w] /\ r.at = "fetched"
                        /\ metric' = Aggregate(Count(metric, r))
  <2>1. worker[w] \in WorkerStates /\ worker[w].at = "fetched"
    BY DEF TypeOK, AddRequest
  <2> QED
    BY <2>1, HeldWhenFetched DEF AddRequest
<1>2. /\ UNCHANGED <<clock, started, data, neighbour, windows>>
      /\ DOMAIN worker' = DOMAIN worker
      /\ worker'[w] = Idle
      /\ \A v \in DOMAIN worker \ {w} : worker'[v] = worker[v]
  BY DEF AddRequest, TypeOK
<1>3. /\ r.Time \in 1 .. clock /\ r.Time + r.Elapsed <= clock
      /\ ~Failed(r) /\ r.outcome # "redirect" =>
           /\ r.ElapsedLastByte = r.Elapsed
           /\ r.ElapsedFirstByte \in 1 .. r.Elapsed
      /\ r.outcome = "redirect" => r.ElapsedLastByte = 0
  BY <1>1 DEF HeldIsPast
<1>4. /\ metric \in Metrics /\ CountedOnce(metric) /\ Averaged(metric)
      /\ data \in AggDatas /\ measured \in [Times -> Nat] /\ clock \in 1 .. TimeBound
  BY DEF TypeOK, EachCountedOnce, WindowIsAveraged
<1>5. PICK e \in Times : e = r.ElapsedLastByte
  BY DEF Held
<1>6. /\ metric' \in Metrics
      /\ CountedOnce(metric') /\ Averaged(metric')
      /\ Failed(r) => FailureCounted(metric, metric')
      /\ ~Failed(r) => SuccessCounted(metric, r, metric')
  BY <1>1, <1>4, AddedToWindow
<1>7. Failed(r) => measured' = measured
  BY <1>1 DEF AddRequest
<1>8. ~Failed(r) => OneAdded(measured, e, measured')
  BY <1>1, <1>5 DEF AddRequest, OneAdded
<1>9. /\ Failed(r) => measured' \in [Times -> Nat]
      /\ ~Failed(r) => /\ measured' \in [Times -> Nat]
                       /\ NumMeasured' = NumMeasured + 1
                       /\ SumMeasured' = SumMeasured + e
  BY <1>4, <1>7, <1>8, MeasuredMore DEF NumMeasured, SumMeasured
<1>10. TypeOK'
  <2>1. worker' \in [DOMAIN worker' -> WorkerStates]
    BY DEF AddRequest, TypeOK, WorkerStates
  <2> QED
    BY <1>2, <1>6, <1>9, <2>1 DEF TypeOK
<1>11. HeldIsPast'
  <2>1. Idle.at = "idle"
    BY DEF Idle
  <2> QED
    BY <1>2, <2>1 DEF HeldIsPast
<1>12. EachCountedOnce' /\ WindowIsAveraged'
  BY <1>2, <1>6 DEF EachCountedOnce, WindowIsAveraged
<1>13. /\ NumMeasured \in Nat /\ SumMeasured \in Nat
       /\ Ok(data) \in Nat /\ Ok(metric) \in Nat
       /\ metric.requestTimeTotal \in Nat /\ e \in Nat
       /\ Reported \in Int
  <2>1. NumMeasured \in Nat /\ SumMeasured \in Nat
    BY <1>4, SumsAreCounts DEF NumMeasured, SumMeasured
  <2>2. Ok(data) \in Nat /\ Ok(metric) \in Nat
    BY <1>4, OkIsCount DEF AggDatas, Metrics
  <2>3. metric.requestTimeTotal \in Nat /\ e \in Nat
    BY <1>4, TimesAreBelowMax DEF Metrics
  <2> QED
    BY <2>1, <2>2, <2>3 DEF Reported
<1>14. Reported' = Reported
  <2>1. CASE Failed(r)
    <3>1. metric'.requestTimeTotal = metric.requestTimeTotal
      BY <1>6, <2>1 DEF FailureCounted
    <3> QED
      BY <1>7, <2>1, <3>1 DEF Reported, SumMeasured
  <2>2. CASE ~Failed(r)
    <3>1. metric'.requestTimeTotal = metric.requestTimeTotal + e
      BY <1>5, <1>6, <2>2 DEF SuccessCounted
    <3>2. SumMeasured' = SumMeasured + e
      BY <1>9, <2>2
    <3> QED
      BY <1>13, <3>1, <3>2 DEF Reported
  <2> QED
    BY <2>1, <2>2
<1>15. AveragesAreNear'
  <2>1. NumMeasured' = Ok(data) + Ok(metric')
    <3>1. NumMeasured = Ok(data) + Ok(metric)
      BY DEF AveragesAreNear
    <3>2. CASE Failed(r)
      BY <1>6, <1>7, <3>1, <3>2 DEF FailureCounted, NumMeasured
    <3>3. CASE ~Failed(r)
      <4>1. Ok(metric') = Ok(metric) + 1 /\ NumMeasured' = NumMeasured + 1
        BY <1>6, <1>9, <3>3 DEF SuccessCounted
      <4> QED
        BY <1>13, <3>1, <4>1
    <3> QED
      BY <3>2, <3>3
  <2> QED
    BY <1>2, <1>14, <2>1 DEF AveragesAreNear
<1>16. ExtremesAreMeasured'
  <2> SUFFICES ASSUME NoRedirects'
               PROVE  /\ \A t \in Measured' : Bounds(metric', data, t)
                      /\ Taken(metric', Measured') /\ Taken(data, Measured')
                      /\ WindowBetween(metric') /\ DataBetween(data)
    BY <1>2 DEF ExtremesAreMeasured
  <2>1. CASE Failed(r)
    <3>1. Measured' = Measured /\ NoRedirects
      BY <1>7, <2>1 DEF Measured, NoRedirects
    <3>2. FailureCounted(metric, metric')
      BY <1>6, <2>1
    <3>3. /\ \A t \in Measured : Bounds(metric, data, t)
          /\ Taken(metric, Measured) /\ Taken(data, Measured)
          /\ WindowBetween(metric) /\ DataBetween(data)
      BY <3>1 DEF ExtremesAreMeasured
    <3>4. \A t \in Measured : Bounds(metric', data, t)
      BY <3>2, <3>3 DEF FailureCounted, Bounds
    <3>5. Taken(metric', Measured) /\ WindowBetween(metric')
      BY <3>2, <3>3 DEF FailureCounted, Taken, WindowBetween
    <3> QED
      BY <3>1, <3>3, <3>4, <3>5
  <2>2. CASE ~Failed(r)
    <3>1. /\ measured'[e] = measured[e] + 1
          /\ \A t \in Times \ {e} : measured'[t] = measured[t]
          /\ measured' \in [Times -> Nat]
      BY <1>4, <1>8, <1>9, <2>2 DEF OneAdded
    <3>2. \A t \in Times : measured[t] \in Nat
      BY <1>4
    <3>3. e # 0 /\ NoRedirects
      BY <3>1, <3>2, TimesAreBelowMax DEF NoRedirects
    <3>4. Measured' = Measured \cup {e} /\ Measured \subseteq Times \ {0}
      BY <3>1, <3>2, <3>3 DEF Measured, NoRedirects
    <3>5. e > 0 /\ r.ElapsedFirstByte <= e
      <4>1. r.outcome # "redirect"
        BY <1>3, <1>5, <3>3
      <4>2. r.ElapsedLastByte = r.Elapsed /\ r.ElapsedFirstByte \in 1 .. r.Elapsed
        BY <1>3, <2>2, <4>1
      <4>3. e \in Nat
        BY <1>13
      <4> QED
        BY <1>5, <3>3, <4>2, <4>3
    <3>6. /\ \A t \in Measured : Bounds(metric, data, t)
          /\ Taken(metric, Measured) /\ Taken(data, Measured)
          /\ WindowBetween(metric) /\ DataBetween(data)
      BY <3>3 DEF ExtremesAreMeasured
    <3>7. SuccessCounted(metric, r, metric')
      BY <1>6, <2>2
    <3>8. /\ \A t \in Measured \cup {e} : Bounds(metric', data, t)
          /\ Taken(metric', Measured \cup {e}) /\ Taken(data, Measured \cup {e})
          /\ WindowBetween(metric')
      BY ONLY <1>4, <1>5, <1>6, r \in Held, <3>4, <3>5, <3>6, <3>7, ExtremesAdded, Zenon
    <3> QED
      BY <3>4, <3>6, <3>8
  <2> QED
    BY <2>1, <2>2
<1>17. WindowsFollow'
  <2> SUFFICES ASSUME Cardinality(DOMAIN worker) = 1, Failures(metric', data) = 0
               PROVE  /\ Sequential(metric', data, Reported)
                      /\ \A v \in DOMAIN worker :
                           Follows(metric', data, IF worker'[v] = Idle THEN clock
                                                  ELSE worker'[v].Time)
    BY <1>2, <1>14 DEF WindowsFollow
  <2>1. ~Failed(r) /\ Failures(metric, data) = 0
    <3>1. PICK x \in Nat, y \in Nat, p \in Nat, q \in Nat, c \in Nat, g \in Nat :
            /\ x = data.TotalTimedOut /\ y = data.TotalConnectionError
            /\ p = metric.TimedOut /\ q = metric.ConnectionErrors
            /\ c = metric'.TimedOut /\ g = metric'.ConnectionErrors
      BY <1>4, <1>6 DEF AggDatas, Metrics
    <3>2. x + y + c + g = 0
      BY <3>1 DEF Failures
    <3>3. Failed(r) => c + g = p + q + 1
      BY <1>6, <3>1 DEF FailureCounted
    <3>4. ~Failed(r) => c = p /\ g = q
      BY <1>6, <3>1 DEF SuccessCounted
    <3>5. ~Failed(r) /\ x + y + p + q = 0
      BY <3>2, <3>3, <3>4
    <3> QED
      BY <3>1, <3>5 DEF Failures
  <2>2. Sequential(metric, data, Reported) /\ Follows(metric, data, r.Time)
    <3>1. worker[w] # Idle
      <4>1. Idle.at = "idle"
        BY DEF Idle
      <4> QED
        BY <1>1, <4>1
    <3> QED
      BY <1>1, <2>1, <3>1 DEF WindowsFollow
  <2>3. r.Time > 0 /\ r.ElapsedLastByte \in {0, r.Elapsed}
    BY <1>3, <2>1
  <2>4. Sequential(metric', data, Reported)
        /\ Follows(metric', data, r.Time + r.Elapsed)
    BY <1>1, <1>4, <1>6, <1>13, <2>1, <2>2, <2>3, SequentialAdded
  <2>5. Follows(metric', data, clock)
    <3>1. metric'.RequestCount # 0 /\ metric'.lastRequestTime \in Nat
      <4>1. metric'.RequestCount = metric.RequestCount + 1
        BY <1>1, <1>4, AddedToWindow
      <4> QED
        BY <1>4, <1>6, <4>1 DEF Metrics
    <3>2. metric'.lastRequestTime = r.Time + r.Elapsed
      BY <1>1, <1>4, AddedToWindow
    <3> QED
      BY <1>3, <3>1, <3>2 DEF Follows
  <2>6. \A v \in DOMAIN worker : v = w
    BY SingleWorker DEF TypeOK
  <2> QED
    BY <1>2, <2>4, <2>5, <2>6
<1> QED
  BY <1>10, <1>11, <1>12, <1>15, <1>16, <1>17

(* A report moves the window to the data of the runner.                    *)
LEMMA SendStep ==
  ASSUME ResultsInv, SendAggregatedResults
  PROVE  ResultsInv'
<1> USE DEF ResultsInv
<1>1. PICK fin \in BOOLEAN : data' = AddResult(data, metric, fin, "here")
  BY DEF SendAggregatedResults
<1>2. /\ metric' = NoMetric
      /\ windows' = windows + (IF Successes(metric) > 0 THEN 1 ELSE 0)
      /\ UNCHANGED <<clock, started, worker, neighbour, measured>>
  BY DEF SendAggregatedResults
<1>3. /\ metric \in Metrics /\ CountedOnce(metric) /\ Averaged(metric)
      /\ data \in AggDatas /\ measured \in [Times -> Nat] /\ clock \in 1 .. TimeBound
      /\ data.TotalReqs
           = data.TotalTimedOut + data.TotalConnectionError + Ok(data)
      /\ windows \in Nat
  BY DEF TypeOK, EachCountedOnce, WindowIsAveraged
<1>4. PICK n \in Nat, k \in Nat :
        /\ n = Ok(data) /\ k = Ok(metric)
        /\ CountOk(data) = n /\ Successes(metric) = k
  BY <1>3, CountsOfData
<1>5. "here" \in RegionNames
  BY DEF RegionNames
<1>6. /\ data' \in AggDatas
      /\ data'.TotalReqs = data.TotalReqs + metric.RequestCount
      /\ data'.TotalTimedOut = data.TotalTimedOut + metric.TimedOut
      /\ data'.TotalConnectionError
           = data.TotalConnectionError + metric.ConnectionErrors
      /\ data'.TimeDelta = data.TimeDelta + metric.TimeDelta
      /\ Ok(data') = n + k
  BY <1>1, <1>3, <1>4, <1>5, AddedFields
<1>7. TypeOK'
  <2>1. windows' \in Nat
    BY <1>2, <1>3
  <2> QED
    BY <1>2, <1>6, <2>1, NothingCounted DEF TypeOK
<1>8. HeldIsPast'
  BY <1>2 DEF HeldIsPast
<1>9. EachCountedOnce' /\ WindowIsAveraged'
  <2>1. PICK c \in Nat, x \in Nat, y \in Nat, f \in Nat, p \in Nat, q \in Nat :
          /\ c = data.TotalReqs /\ x = data.TotalTimedOut
          /\ y = data.TotalConnectionError
          /\ f = metric.RequestCount /\ p = metric.TimedOut
          /\ q = metric.ConnectionErrors
    BY <1>3 DEF AggDatas, Metrics
  <2>2. c = x + y + n /\ f = p + q + k
    BY <1>3, <1>4, <2>1 DEF CountedOnce
  <2>3. c + f = (x + p) + (y + q) + (n + k)
    BY <2>2
  <2>4. data'.TotalReqs
          = data'.TotalTimedOut + data'.TotalConnectionError + Ok(data')
    BY <1>6, <2>1, <2>3
  <2>5. CountedOnce(NoMetric) /\ Averaged(NoMetric)
    <3>1. /\ NoMetric.RequestCount = 0 /\ NoMetric.TimedOut = 0
          /\ NoMetric.ConnectionErrors = 0 /\ NoMetric.requestTimeTotal = 0
          /\ NoMetric.timeToFirstTotal = 0 /\ NoMetric.AveTimeForReq = 0
          /\ NoMetric.AveTimeToFirst = 0
          /\ NoMetric.Fastest = MaxInt64 /\ NoMetric.Slowest = 0
      BY DEF NoMetric
    <3> QED
      BY <3>1, NothingCounted DEF CountedOnce, Averaged
  <2> QED
    BY <1>2, <2>4, <2>5 DEF EachCountedOnce, WindowIsAveraged
<1>10. /\ NumMeasured' = NumMeasured /\ SumMeasured' = SumMeasured
       /\ Measured' = Measured /\ NoRedirects' = NoRedirects
  BY <1>2 DEF NumMeasured, SumMeasured, Measured, NoRedirects
<1>11. /\ SumMeasured \in Nat /\ metric.requestTimeTotal \in Nat
       /\ NumMeasured \in Nat
  <2>1. NumMeasured \in Nat /\ SumMeasured \in Nat
    BY <1>3, SumsAreCounts DEF NumMeasured, SumMeasured
  <2> QED
    BY <1>3, <2>1 DEF Metrics
<1>12. Reported \in Int /\ Reported' = Reported + metric.requestTimeTotal
  <2>1. metric'.requestTimeTotal = 0
    BY <1>2 DEF NoMetric
  <2> QED
    BY <1>10, <1>11, <2>1 DEF Reported
<1>13. AveragesAreNear'
  <2>1. NumMeasured = n + k /\ Near(data, windows, Reported)
    BY <1>4 DEF AveragesAreNear
  <2>2. NumMeasured' = Ok(data') + Ok(metric')
    BY <1>2, <1>4, <1>6, <1>10, <2>1, NothingCounted
  <2>3. Near(data', windows', Reported')
    BY <1>1, <1>2, <1>3, <1>5, <1>12, <2>1, NearSent
  <2> QED
    BY <2>2, <2>3 DEF AveragesAreNear
<1>14. ExtremesAreMeasured'
  <2> SUFFICES ASSUME NoRedirects
               PROVE  /\ \A t \in Measured : Bounds(NoMetric, data', t)
                      /\ Taken(NoMetric, Measured) /\ Taken(data', Measured)
                      /\ WindowBetween(NoMetric) /\ DataBetween(data')
    BY <1>2, <1>10 DEF ExtremesAreMeasured
  <2>1. /\ \A t \in Measured : Bounds(metric, data, t)
        /\ Taken(metric, Measured) /\ Taken(data, Measured)
        /\ WindowBetween(metric) /\ DataBetween(data)
    BY DEF ExtremesAreMeasured
  <2>2. Measured \subseteq Times
    BY DEF Measured
  <2> QED
    BY ONLY <1>1, <1>3, <1>5, fin \in BOOLEAN, <2>1, <2>2, ExtremesSent
<1>15. WindowsFollow'
  <2> SUFFICES ASSUME Cardinality(DOMAIN worker) = 1, Failures(NoMetric, data') = 0
               PROVE  /\ Sequential(NoMetric, data', Reported')
                      /\ \A v \in DOMAIN worker :
                           Follows(NoMetric, data', IF worker[v] = Idle THEN clock
                                                    ELSE worker[v].Time)
    BY <1>2 DEF WindowsFollow
  <2>1. Failures(metric, data) = 0
    <3>1. PICK x \in Nat, y \in Nat, p \in Nat, q \in Nat :
            /\ x = data.TotalTimedOut /\ y = data.TotalConnectionError
            /\ p = metric.TimedOut /\ q = metric.ConnectionErrors
      BY <1>3 DEF AggDatas, Metrics
    <3>2. /\ data'.TotalTimedOut = x + p /\ data'.TotalConnectionError = y + q
          /\ NoMetric.TimedOut = 0 /\ NoMetric.ConnectionErrors = 0
      BY <1>6, <3>1 DEF NoMetric
    <3>3. (x + p) + (y + q) + 0 + 0 = 0
      BY <3>2 DEF Failures
    <3>4. x + y + p + q = 0
      BY <3>3
    <3> QED
      BY <3>1, <3>4 DEF Failures
  <2>2. /\ Sequential(metric, data, Reported)
        /\ \A v \in DOMAIN worker :
             Follows(metric, data, IF worker[v] = Idle THEN clock
                                   ELSE worker[v].Time)
    BY <2>1 DEF WindowsFollow
  <2>3. /\ Sequential(NoMetric, data', Reported')
        /\ \A t \in Int : Follows(metric, data, t) => Follows(NoMetric, data', t)
    BY <1>3, <1>6, <1>12, <2>2, SequentialSent
  <2>4. \A v \in DOMAIN worker :
          (IF worker[v] = Idle THEN clock ELSE worker[v].Time) \in Int
    <3> SUFFICES ASSUME NEW v \in DOMAIN worker, worker[v] # Idle
                 PROVE  worker[v].Time \in Int
      BY <1>3
    <3>1. worker[v] \in WorkerStates
      BY DEF TypeOK
    <3>2. worker[v].Time \in Times
      BY <3>1, StatesHaveTimes
    <3>3. worker[v].Time \in Nat
      BY <3>2, TimesAreBelowMax
    <3> QED
      BY ONLY <3>3
  <2> QED
    BY <2>2, <2>3, <2>4
<1> QED
  BY <1>7, <1>8, <1>9, <1>13, <1>14, <1>15

-----------------------------------------------------------------------------

(* Every step keeps the invariant.                                         *)
LEMMA ResultsNext == ResultsInv /\ [Next]_vars => ResultsInv'
<1> SUFFICES ASSUME ResultsInv, [Next]_vars PROVE ResultsInv'
  OBVIOUS
<1>1. CASE TimePasses
  BY <1>1, TimeStep
<1>2. ASSUME NEW w \in DOMAIN worker, StartFetch(w) \/ EndFetch(w) \/ AddRequest(w)
      PROVE  ResultsInv'
  BY <1>2, FetchStep, AddStep
<1>3. CASE SendAggregatedResults
  BY <1>3, SendStep
<1>4. CASE UNCHANGED vars
  <2>1. /\ UNCHANGED <<clock, started, worker, metric, data, neighbour, measured,
                       windows>>
    BY <1>4 DEF vars
  <2>2. TypeOK' /\ HeldIsPast' /\ EachCountedOnce' /\ WindowIsAveraged'
    BY <2>1 DEF ResultsInv, TypeOK, HeldIsPast, EachCountedOnce, WindowIsAveraged
  <2>3. /\ NumMeasured' = NumMeasured /\ Reported' = Reported
        /\ Measured' = Measured /\ NoRedirects' = NoRedirects
    BY <2>1 DEF NumMeasured, Reported, SumMeasured, Measured, NoRedirects
  <2>4. AveragesAreNear' /\ ExtremesAreMeasured' /\ WindowsFollow'
    BY <2>1, <2>3
       DEF ResultsInv, AveragesAreNear, ExtremesAreMeasured, WindowsFollow
  <2> QED
    BY <2>2, <2>4 DEF ResultsInv
<1> QED
  BY <1>1, <1>2, <1>3, <1>4 DEF Next

(* In every reachable state, however requests overlap and wherever windows *)
(* are closed, the parts of ResultsInv hold together.                      *)
THEOREM ResultsInvariant == Spec => []ResultsInv
BY ResultsInit, ResultsNext, PTL DEF Spec

(* Counts, times and averages stay in their ranges: none becomes negative, *)
(* and extremes are durations or the sentinel.                             *)
THEOREM ResultsTypes == Spec => []TypeOK
<1>1. ResultsInv => TypeOK
  BY DEF ResultsInv
<1> QED
  BY <1>1, ResultsInvariant, PTL

(* The sum over two runners.                                               *)
LEMMA SumOfTwo ==
  ASSUME NEW f, DOMAIN f = 1 .. 2, f[1] \in Int, f[2] \in Int
  PROVE  SumFunction(f) = f[1] + f[2]
<1>1. /\ 0 \in Nat /\ 1 \in Nat /\ 0 + 1 = 1 /\ 1 + 1 = 2
      /\ 1 .. 0 = {}
      /\ \A i \in 1 .. 1 : f[i] \in Int
      /\ \A i \in 1 .. 2 : f[i] \in Int
  OBVIOUS
<1>2. SumFunctionOnSet(f, 1 .. 2) = SumFunctionOnSet(f, 1 .. 1) + f[2]
  BY <1>1, SumLast
<1>3. SumFunctionOnSet(f, 1 .. 1) = SumFunctionOnSet(f, 1 .. 0) + f[1]
  BY <1>1, SumLast
<1>4. SumFunctionOnSet(f, 1 .. 0) = 0
  BY <1>1, SumOfEmpty
<1>5. SumFunction(f) = SumFunctionOnSet(f, 1 .. 2)
  BY Zenon DEF SumFunction
<1> QED
  BY <1>2, <1>3, <1>4, <1>5

(* sumAggData() adds the counts of the two runners up.                     *)
LEMMA SummaryAddsUp ==
  ASSUME data \in AggDatas, neighbour \in AggDatas
  PROVE  /\ SumAllLambdas.TotalReqs = data.TotalReqs + neighbour.TotalReqs
         /\ SumAllLambdas.TotalTimedOut
              = data.TotalTimedOut + neighbour.TotalTimedOut
         /\ SumAllLambdas.TotalConnectionError
              = data.TotalConnectionError + neighbour.TotalConnectionError
         /\ \A s \in StatusCodes :
              SumAllLambdas.Statuses[s] = data.Statuses[s] + neighbour.Statuses[s]
<1>1. DOMAIN Lambdas = 1 .. 2 /\ Lambdas[1] = data /\ Lambdas[2] = neighbour
  BY DEF Lambdas
<1>2. /\ SumAllLambdas.TotalReqs
           = SumFunction([k \in DOMAIN Lambdas |-> Lambdas[k].TotalReqs])
      /\ SumAllLambdas.TotalTimedOut
           = SumFunction([k \in DOMAIN Lambdas |-> Lambdas[k].TotalTimedOut])
      /\ SumAllLambdas.TotalConnectionError
           = SumFunction([k \in DOMAIN Lambdas |-> Lambdas[k].TotalConnectionError])
      /\ SumAllLambdas.Statuses
           = [s \in StatusCodes |->
                SumFunction([k \in DOMAIN Lambdas |-> Lambdas[k].Statuses[s]])]
  BY DEF SumAllLambdas, SumAggData
<1>3. ASSUME NEW f, DOMAIN f = DOMAIN Lambdas, f[1] \in Int, f[2] \in Int
      PROVE  SumFunction(f) = f[1] + f[2]
  BY <1>1, <1>3, SumOfTwo
<1>4. SumFunction([k \in DOMAIN Lambdas |-> Lambdas[k].TotalReqs])
        = data.TotalReqs + neighbour.TotalReqs
  BY <1>1, <1>3 DEF AggDatas
<1>5. SumFunction([k \in DOMAIN Lambdas |-> Lambdas[k].TotalTimedOut])
        = data.TotalTimedOut + neighbour.TotalTimedOut
  BY <1>1, <1>3 DEF AggDatas
<1>6. SumFunction([k \in DOMAIN Lambdas |-> Lambdas[k].TotalConnectionError])
        = data.TotalConnectionError + neighbour.TotalConnectionError
  BY <1>1, <1>3 DEF AggDatas
<1>7. ASSUME NEW s \in StatusCodes
      PROVE  SumFunction([k \in DOMAIN Lambdas |-> Lambdas[k].Statuses[s]])
               = data.Statuses[s] + neighbour.Statuses[s]
  <2>1. data.Statuses[s] \in Int /\ neighbour.Statuses[s] \in Int
    BY DEF AggDatas
  <2> QED
    BY <1>1, <1>3, <2>1
<1> QED
  BY <1>2, <1>4, <1>5, <1>6, <1>7

(* totErrors() takes the statuses below 400 off.                           *)
LEMMA ErrorsOf ==
  ASSUME NEW d, NEW x \in Nat, NEW y \in Nat, NEW a \in Nat, NEW b \in Nat,
         d.TotalReqs = x + y + (a + b),
         d.TotalTimedOut = x, d.TotalConnectionError = y,
         d.Statuses["below 400"] = a, d.Statuses["from 400"] = b
  PROVE  TotErrors(d)
           = d.TotalTimedOut + d.TotalConnectionError + d.Statuses["from 400"]
<1>1. (x + y + (a + b)) - a = x + y + b
  BY ONLY x \in Nat, y \in Nat, a \in Nat, b \in Nat
<1>2. TotErrors(d) = (x + y + (a + b)) - a
  BY Zenon DEF TotErrors
<1> QED
  BY Zenon, <1>1, <1>2

(* The errors shown, for a runner and for the whole test, are exactly its  *)
(* timeouts, connection errors and bad statuses: no request is left out or *)
(* counted twice on the way through windows and reports.                   *)
THEOREM ErrorsAddUp == Spec => []CountsAddUp
<1>1. ResultsInv => CountsAddUp
  <2> SUFFICES ASSUME ResultsInv PROVE CountsAddUp
    OBVIOUS
  <2>1. /\ data \in AggDatas /\ neighbour \in AggDatas
        /\ data.TotalReqs
             = data.TotalTimedOut + data.TotalConnectionError + Ok(data)
        /\ neighbour.TotalReqs
             = neighbour.TotalTimedOut + neighbour.TotalConnectionError
                 + neighbour.Statuses["below 400"] + neighbour.Statuses["from 400"]
    BY NeighbourAssumption DEF ResultsInv, TypeOK, EachCountedOnce
  <2>2. PICK x \in Nat, y \in Nat, a \in Nat, b \in Nat :
          /\ x = data.TotalTimedOut /\ y = data.TotalConnectionError
          /\ a = data.Statuses["below 400"] /\ b = data.Statuses["from 400"]
    BY <2>1 DEF AggDatas, StatusCodes
  <2>3. PICK p \in Nat, q \in Nat, c \in Nat, d \in Nat :
          /\ p = neighbour.TotalTimedOut /\ q = neighbour.TotalConnectionError
          /\ c = neighbour.Statuses["below 400"]
          /\ d = neighbour.Statuses["from 400"]
    BY <2>1 DEF AggDatas, StatusCodes
  <2>4. data.TotalReqs = x + y + (a + b) /\ neighbour.TotalReqs = p + q + c + d
    BY <2>1, <2>2, <2>3 DEF Ok
  <2>5. TotErrors(data)
          = data.TotalTimedOut + data.TotalConnectionError
              + data.Statuses["from 400"]
    BY <2>2, <2>4, ErrorsOf
  <2>6. /\ SumAllLambdas.TotalReqs = (x + p) + (y + q) + ((a + c) + (b + d))
        /\ SumAllLambdas.TotalTimedOut = x + p
        /\ SumAllLambdas.TotalConnectionError = y + q
        /\ SumAllLambdas.Statuses["below 400"] = a + c
        /\ SumAllLambdas.Statuses["from 400"] = b + d
    <3>1. (x + y + (a + b)) + (p + q + c + d)
            = (x + p) + (y + q) + ((a + c) + (b + d))
      OBVIOUS
    <3>2. SumAllLambdas.TotalReqs = (x + y + (a + b)) + (p + q + c + d)
      BY Zenon, <2>1, <2>4, SummaryAddsUp
    <3> QED
      BY <2>1, <2>2, <2>3, <3>1, <3>2, SummaryAddsUp DEF StatusCodes
  <2>7. TotErrors(SumAllLambdas)
          = SumAllLambdas.TotalTimedOut + SumAllLambdas.TotalConnectionError
              + SumAllLambdas.Statuses["from 400"]
    <3>1. /\ x + p \in Nat /\ y + q \in Nat /\ a + c \in Nat /\ b + d \in Nat
      OBVIOUS
    <3> QED
      BY <2>6, <3>1, ErrorsOf
  <2> QED
    BY <2>5, <2>7 DEF CountsAddUp
<1> QED
  BY <1>1, ResultsInvariant, PTL

(* When everything received is reported, the window is empty.              *)
LEMMA WindowIsEmpty ==
  ASSUME ResultsInv, AllReported
  PROVE  /\ Ok(metric) = 0 /\ metric.TimedOut = 0 /\ metric.ConnectionErrors = 0
         /\ metric.RequestCount = 0 /\ Reported = SumMeasured
         /\ metric.Fastest = MaxInt64 /\ metric.Slowest = 0
         /\ NumMeasured = Ok(data) /\ Ok(data) \in Nat
         /\ SumMeasured \in Nat
<1>1. /\ metric \in Metrics /\ CountedOnce(metric) /\ Averaged(metric)
      /\ data \in AggDatas /\ measured \in [Times -> Nat]
      /\ NumMeasured = Ok(data) + Ok(metric)
  BY DEF ResultsInv, TypeOK, EachCountedOnce, WindowIsAveraged, AveragesAreNear
<1>2. Ok(metric) \in Nat /\ Ok(data) \in Nat
  BY <1>1, OkIsCount DEF Metrics, AggDatas
<1>3. /\ metric.RequestCount = 0
      /\ Ok(metric) = 0 /\ metric.TimedOut = 0 /\ metric.ConnectionErrors = 0
  <2>1. PICK p \in Nat, q \in Nat, k \in Nat :
          /\ p = metric.TimedOut /\ q = metric.ConnectionErrors /\ k = Ok(metric)
    BY <1>1, <1>2 DEF Metrics
  <2>2. metric.RequestCount = p + q + k /\ metric.RequestCount = 0
    BY <1>1, <2>1 DEF CountedOnce, AllReported
  <2>3. p = 0 /\ q = 0 /\ k = 0
    <3>1. p + q + k = 0
      BY <2>2
    <3> QED
      BY ONLY <3>1, p \in Nat, q \in Nat, k \in Nat
  <2> QED
    BY <2>1, <2>2, <2>3
<1>4. /\ metric.requestTimeTotal = 0
      /\ metric.Fastest = MaxInt64 /\ metric.Slowest = 0
  BY <1>1, <1>3 DEF Averaged
<1>5. SumMeasured \in Nat
  BY <1>1, SumsAreCounts DEF SumMeasured
<1>6. Reported = SumMeasured
  BY <1>4, <1>5 DEF Reported
<1> QED
  BY <1>1, <1>2, <1>3, <1>4, <1>5, <1>6

(* The average shown is never above the true mean of all successes and     *)
(* below it by less than the number of reports with a success.             *)
THEOREM AverageStaysNear == Spec => []AverageIsNear
<1>1. ResultsInv => AverageIsNear
  <2> SUFFICES ASSUME ResultsInv, AllReported, NumMeasured > 0
               PROVE  /\ data.AveTimeForReq * NumMeasured <= SumMeasured
                      /\ SumMeasured < (data.AveTimeForReq + windows) * NumMeasured
    BY DEF AverageIsNear
  <2>1. NumMeasured = Ok(data) /\ Reported = SumMeasured
    BY WindowIsEmpty
  <2>2. Near(data, windows, Reported)
    BY DEF ResultsInv, AveragesAreNear
  <2> QED
    BY <2>1, <2>2 DEF Near
<1> QED
  BY <1>1, ResultsInvariant, PTL

(* Bounds that are taken on are minimum and maximum.                       *)
LEMMA SmallestAndLargest ==
  ASSUME NEW S, S \subseteq Nat, NEW l \in S, NEW u \in S,
         \A t \in S : l <= t /\ t <= u
  PROVE  Min(S) = l /\ Max(S) = u
<1>1. \A t \in S : t \in Nat
  OBVIOUS
<1>2. /\ Min(S) \in S /\ \A y \in S : Min(S) <= y
      /\ Max(S) \in S /\ \A y \in S : Max(S) >= y
  <2>1. /\ \E x \in S : \A y \in S : x <= y
        /\ \E x \in S : \A y \in S : x >= y
    BY <1>1
  <2> QED
    BY Zenon, <2>1 DEF Min, Max
<1>3. /\ Min(S) \in Nat /\ Max(S) \in Nat
      /\ l <= Min(S) /\ Max(S) <= u /\ Min(S) <= l /\ Max(S) >= u
  BY <1>1, <1>2
<1> QED
  BY <1>3

(* Without redirects fastest and slowest are exact and the averages        *)
(* between them, whatever the order of the reports and the sentinels.      *)
THEOREM ExtremesStayExact == Spec => []ExtremesAreExact
<1>1. ResultsInv => ExtremesAreExact
  <2> SUFFICES ASSUME ResultsInv, AllReported, NumMeasured > 0, NoRedirects
               PROVE  /\ data.Fastest = Min(Measured)
                      /\ data.Slowest = Max(Measured)
                      /\ data.Fastest <= data.AveTimeForReq
                      /\ data.AveTimeForReq <= data.Slowest
                      /\ data.AveTimeToFirst <= data.AveTimeForReq
    BY DEF ExtremesAreExact
  <2>1. /\ \A t \in Measured : Bounds(metric, data, t)
        /\ Taken(data, Measured) /\ DataBetween(data)
    BY DEF ResultsInv, ExtremesAreMeasured
  <2>2. /\ Ok(data) > 0 /\ metric.Fastest = MaxInt64 /\ metric.Slowest = 0
    BY WindowIsEmpty
  <2>3. /\ data.Fastest \notin {0, MaxInt64}
        /\ data.Fastest <= data.AveTimeForReq
        /\ data.AveTimeForReq <= data.Slowest
        /\ data.AveTimeToFirst <= data.AveTimeForReq
    BY <2>1, <2>2 DEF DataBetween
  <2>4. PICK f \in Nat, s \in Nat, v \in Nat :
          f = data.Fastest /\ s = data.Slowest /\ v = data.AveTimeForReq
    BY TimesAreBelowMax DEF ResultsInv, TypeOK, AggDatas
  <2>5. f \in Measured /\ s \in Measured
    <3>1. f \in Measured
      BY <2>1, <2>3, <2>4 DEF Taken
    <3>2. s # 0
      BY <2>3, <2>4
    <3> QED
      BY <2>1, <2>4, <3>1, <3>2 DEF Taken
  <2>6. \A t \in Measured : t \in Nat /\ t # 0 /\ t < MaxInt64
    <3>1. 0 \notin Measured
      BY TimesAreBelowMax DEF Measured, NoRedirects, ResultsInv, TypeOK
    <3> QED
      BY <3>1, TimesAreBelowMax DEF Measured
  <2>7. \A t \in Measured : f <= t /\ t <= s
    BY <2>1, <2>2, <2>4, <2>6, ResultsAssumption DEF Bounds
  <2>8. Min(Measured) = f /\ Max(Measured) = s
    BY <2>5, <2>6, <2>7, SmallestAndLargest
  <2> QED
    BY <2>3, <2>4, <2>8
<1> QED
  BY <1>1, ResultsInvariant, PTL

(* With one worker and every request answered, the time shown is at least  *)
(* that of the requests and no more than has passed.                       *)
THEOREM SequentialTimeStaysReal == Spec => []SequentialTimeIsReal
<1>1. ResultsInv => SequentialTimeIsReal
  <2> SUFFICES ASSUME ResultsInv, AllReported, Cardinality(DOMAIN worker) = 1,
                      data.TotalTimedOut + data.TotalConnectionError = 0
               PROVE  data.TimeDelta \in SumMeasured .. clock - 1
    BY DEF SequentialTimeIsReal
  <2>1. /\ metric.TimedOut = 0 /\ metric.ConnectionErrors = 0
        /\ metric.RequestCount = 0 /\ Reported = SumMeasured /\ SumMeasured \in Nat
    BY WindowIsEmpty
  <2>2. data \in AggDatas /\ clock \in Nat
    BY ResultsAssumption DEF ResultsInv, TypeOK
  <2>3. Failures(metric, data) = 0
    BY <2>1, <2>2 DEF Failures
  <2>4. /\ Sequential(metric, data, Reported)
        /\ \A w \in DOMAIN worker :
             Follows(metric, data,
                     IF worker[w] = Idle THEN clock ELSE worker[w].Time)
    BY <2>3 DEF ResultsInv, WindowsFollow
  <2>5. PICK w : w \in DOMAIN worker
    <3>1. DOMAIN worker # {}
      BY FS_EmptySet
    <3> QED
      BY <3>1
  <2>6. PICK t \in Nat : /\ t <= clock
                         /\ t = IF worker[w] = Idle THEN clock ELSE worker[w].Time
    <3>1. CASE worker[w] = Idle
      BY <2>2, <3>1
    <3>2. CASE worker[w] # Idle
      <4>1. worker[w] \in WorkerStates
        BY <2>5 DEF ResultsInv, TypeOK
      <4>2. worker[w].at \in {"fetching", "fetched"}
        BY <3>2, <4>1 DEF WorkerStates, Held
      <4>3. worker[w].Time \in 1 .. clock
        BY <2>5, <4>2 DEF ResultsInv, HeldIsPast
      <4> QED
        BY <2>2, <3>2, <4>3
    <3> QED
      BY <3>1, <3>2
  <2>7. data.TimeDelta <= t - 1
    BY <2>1, <2>4, <2>5, <2>6 DEF Follows
  <2>8. SumMeasured <= data.TimeDelta
    BY <2>1, <2>4 DEF Sequential
  <2>9. data.TimeDelta \in Int
    BY <2>2 DEF AggDatas
  <2> QED
    BY <2>1, <2>2, <2>6, <2>7, <2>8, <2>9
<1> QED
  BY <1>1, ResultsInvariant, PTL

-----------------------------------------------------------------------------
(* A runner without a region has reported nothing.                         *)
RegionIsSaid == data.Region = NoRegion => data.TotalReqs = 0

LEMMA RegionsAreSaid == Spec => []RegionIsSaid
<1>1. Init => RegionIsSaid
  BY DEF Init, RegionIsSaid, Silent
<1>2. ResultsInv /\ RegionIsSaid /\ [Next]_vars => RegionIsSaid'
  <2> SUFFICES ASSUME ResultsInv, RegionIsSaid, [Next]_vars PROVE RegionIsSaid'
    OBVIOUS
  <2>1. CASE UNCHANGED data
    BY <2>1 DEF RegionIsSaid
  <2>2. CASE SendAggregatedResults
    <3>1. PICK fin \in BOOLEAN : data' = AddResult(data, metric, fin, "here")
      BY <2>2 DEF SendAggregatedResults
    <3>2. data'.Region = "here"
      BY <3>1 DEF AddResult, AggDatas, ResultsInv, TypeOK
    <3>3. "here" # NoRegion
      BY DEF NoRegion
    <3> QED
      BY <3>2, <3>3 DEF RegionIsSaid
  <2> QED
    BY <2>1, <2>2 DEF Next, vars, TimePasses, StartFetch, EndFetch, AddRequest
<1> QED
  BY <1>1, <1>2, ResultsInvariant, PTL DEF Spec

(* Sums over one and over two.                                             *)
LEMMA SumOfSingle ==
  ASSUME NEW f, NEW x, f[x] \in Int
  PROVE  SumFunctionOnSet(f, {x}) = f[x]
<1>1. IsFiniteSet({x}) /\ {x} \ {x} = {} /\ \A y \in {x} : f[y] \in Int
  BY FS_Singleton
<1>2. SumFunctionOnSet(f, {x}) = f[x] + SumFunctionOnSet(f, {x} \ {x})
  BY ONLY <1>1, SumTakes
<1> QED
  BY <1>1, <1>2, SumOfEmpty

LEMMA SumOfPair ==
  ASSUME NEW f, NEW x, NEW y, x # y, f[x] \in Int, f[y] \in Int
  PROVE  SumFunctionOnSet(f, {x, y}) = f[x] + f[y]
<1>1. /\ IsFiniteSet({x, y}) /\ {x, y} \ {x} = {y}
      /\ \A z \in {x, y} : f[z] \in Int
  <2>1. IsFiniteSet({y}) /\ {x, y} = {y} \cup {x}
    BY FS_Singleton
  <2> QED
    BY <2>1, FS_AddElement
<1>2. SumFunctionOnSet(f, {x, y}) = f[x] + SumFunctionOnSet(f, {x, y} \ {x})
  BY ONLY <1>1, SumTakes
<1> QED
  BY <1>1, <1>2, SumOfSingle

(* What a summary is made of.                                              *)
LEMMA SummaryFields ==
  ASSUME NEW runners
  PROVE  /\ SumAggData(runners).TotalReqs
              = SumFunction([k \in DOMAIN runners |-> runners[k].TotalReqs])
         /\ SumAggData(runners).AveTimeForReq
              = SumFunction([k \in DOMAIN runners |-> runners[k].AveTimeForReq])
                  \div Cardinality(DOMAIN runners)
         /\ SumAggData(runners).Fastest
              = Min({MaxInt64} \cup
                      {runners[k].Fastest : k \in DOMAIN runners})
         /\ SumAggData(runners).Slowest
              = Max({runners[k].Slowest : k \in DOMAIN runners})
         /\ SumAggData(runners).Finished
              = \A k \in DOMAIN runners : runners[k].Finished
BY DEF SumAggData, Mean

(* The runners of a region.                                                *)
Of(r) == {k \in 1 .. 2 : Lambdas[k].Region = r}

LEMMA RegionFields ==
  ASSUME NEW r
  PROVE  /\ DOMAIN ResultsForRegion(r) = Of(r)
         /\ \A k \in Of(r) : ResultsForRegion(r)[k] = Lambdas[k]
BY DEF ResultsForRegion, Restrict, Of, Lambdas

LEMMA LambdasAre ==
  DOMAIN Lambdas = 1 .. 2 /\ Lambdas[1] = data /\ Lambdas[2] = neighbour
BY DEF Lambdas

(* Minimum and maximum of some of two.                                     *)
LEMMA SmallestOf ==
  ASSUME NEW S, S \subseteq Nat, S # {}
  PROVE  Min(S) \in S /\ \A y \in S : Min(S) <= y
<1>1. \E x \in S : \A y \in S : x <= y
  BY SmallestNumber
<1> QED
  BY Zenon, <1>1 DEF Min

LEMMA LargestOf ==
  ASSUME NEW K, K \subseteq 1 .. 2, K # {}, NEW f, \A k \in K : f[k] \in Nat
  PROVE  /\ \E k \in K : Max({f[l] : l \in K}) = f[k]
         /\ \A k \in K : Max({f[l] : l \in K}) >= f[k]
<1> DEFINE S == {f[l] : l \in K}
<1>1. \E k \in K : \A l \in K : f[k] >= f[l]
  <2>1. \A k \in K : k = 1 \/ k = 2
    OBVIOUS
  <2>2. CASE 1 \in K /\ 2 \in K
    <3>1. f[1] >= f[2] \/ f[2] >= f[1]
      BY <2>2
    <3>2. f[1] >= f[1] /\ f[2] >= f[2]
      BY <2>2
    <3> QED
      BY <2>1, <2>2, <3>1, <3>2
  <2>3. CASE ~ (1 \in K /\ 2 \in K)
    <3>1. PICK k \in K : \A l \in K : l = k
      BY <2>1, <2>3
    <3> QED
      BY <3>1
  <2> QED
    BY <2>2, <2>3
<1>2. \E x \in S : \A y \in S : x >= y
  BY <1>1
<1>3. Max(S) \in S /\ \A y \in S : Max(S) >= y
  BY Zenon, <1>2 DEF Max
<1> QED
  BY <1>3

(* The requests of a region are those of its runners.                      *)
LEMMA RegionRequests ==
  ASSUME data \in AggDatas, neighbour \in AggDatas, NEW r
  PROVE  SumAggData(ResultsForRegion(r)).TotalReqs
           = (IF data.Region = r THEN data.TotalReqs ELSE 0)
               + (IF neighbour.Region = r THEN neighbour.TotalReqs ELSE 0)
<1> DEFINE f == [k \in Of(r) |-> Lambdas[k].TotalReqs]
<1>1. [k \in DOMAIN ResultsForRegion(r) |-> ResultsForRegion(r)[k].TotalReqs] = f
  BY RegionFields
<1>2. SumAggData(ResultsForRegion(r)).TotalReqs = SumFunctionOnSet(f, Of(r))
  <2>1. SumAggData(ResultsForRegion(r)).TotalReqs = SumFunction(f)
    BY <1>1, SummaryFields
  <2>2. DOMAIN f = Of(r)
    OBVIOUS
  <2> HIDE DEF f
  <2> QED
    BY <2>1, <2>2, Zenon DEF SumFunction
<1>3. data.TotalReqs \in Nat /\ neighbour.TotalReqs \in Nat
  BY DEF AggDatas
<1>4. \A k \in Of(r) : f[k] = IF k = 1 THEN data.TotalReqs ELSE neighbour.TotalReqs
  BY LambdasAre DEF Of
<1>5. Of(r) = {k \in {1, 2} : IF k = 1 THEN data.Region = r ELSE neighbour.Region = r}
  BY LambdasAre DEF Of
<1> HIDE DEF f
<1>6. CASE data.Region = r /\ neighbour.Region = r
  <2>1. Of(r) = {1, 2}
    BY <1>5, <1>6
  <2>2. f[1] = data.TotalReqs /\ f[2] = neighbour.TotalReqs
    BY <1>4, <2>1
  <2>3. SumFunctionOnSet(f, {1, 2}) = f[1] + f[2]
    <3>1. 1 # 2 /\ f[1] \in Int /\ f[2] \in Int
      BY <1>3, <2>2
    <3> QED
      BY ONLY <3>1, SumOfPair
  <2> QED
    BY <1>2, <1>6, <2>1, <2>2, <2>3
<1>7. CASE data.Region = r /\ neighbour.Region # r
  <2>1. Of(r) = {1}
    BY <1>5, <1>7
  <2>2. f[1] = data.TotalReqs
    BY <1>4, <2>1
  <2>3. SumFunctionOnSet(f, {1}) = f[1]
    <3>1. f[1] \in Int
      BY <1>3, <2>2
    <3> QED
      BY ONLY <3>1, SumOfSingle
  <2> QED
    BY <1>2, <1>3, <1>7, <2>1, <2>2, <2>3
<1>8. CASE data.Region # r /\ neighbour.Region = r
  <2>1. Of(r) = {2}
    BY <1>5, <1>8
  <2>2. f[2] = neighbour.TotalReqs
    BY <1>4, <2>1
  <2>3. SumFunctionOnSet(f, {2}) = f[2]
    <3>1. f[2] \in Int
      BY <1>3, <2>2
    <3> QED
      BY ONLY <3>1, SumOfSingle
  <2> QED
    BY <1>2, <1>3, <1>8, <2>1, <2>2, <2>3
<1>9. CASE data.Region # r /\ neighbour.Region # r
  <2>1. Of(r) = {}
    BY <1>5, <1>9
  <2> QED
    BY <1>2, <1>9, <2>1, SumOfEmpty
<1> QED
  BY <1>6, <1>7, <1>8, <1>9

LEMMA RegionsAre ==
  /\ Regions = {data.Region, neighbour.Region} \ {NoRegion}
  /\ \A r \in Regions : RegionsData[r] = SumAggData(ResultsForRegion(r))
  /\ \A r \in Regions : Of(r) # {}
<1>1. Regions = {data.Region, neighbour.Region} \ {NoRegion}
  BY LambdasAre DEF Regions
<1> QED
  BY <1>1, LambdasAre DEF RegionsData, Of

(* Regions add up to the overall number of requests.                       *)
LEMMA RegionsAddUp ==
  ASSUME data \in AggDatas, neighbour \in AggDatas, RegionIsSaid,
         neighbour.Region = NoRegion => neighbour.TotalReqs = 0
  PROVE  SumAllLambdas.TotalReqs
           = SumFunction([r \in Regions |-> RegionsData[r].TotalReqs])
<1> DEFINE a == data.TotalReqs
           b == neighbour.TotalReqs
           g == data.Region
           h == neighbour.Region
           f == [r \in Regions |-> RegionsData[r].TotalReqs]
<1>1. a \in Nat /\ b \in Nat
  BY DEF AggDatas
<1>2. SumAllLambdas.TotalReqs = a + b
  BY SummaryAddsUp
<1>3. SumFunction(f) = SumFunctionOnSet(f, Regions)
  <2>1. DOMAIN f = Regions
    OBVIOUS
  <2> HIDE DEF f
  <2> QED
    BY <2>1, Zenon DEF SumFunction
<1>4. \A r \in Regions : f[r] = (IF g = r THEN a ELSE 0) + (IF h = r THEN b ELSE 0)
  <2> TAKE r \in Regions
  <2>1. f[r] = SumAggData(ResultsForRegion(r)).TotalReqs
    BY RegionsAre
  <2> QED
    BY <2>1, RegionRequests
<1>5. Regions = {g, h} \ {NoRegion}
  BY RegionsAre
<1>6. (g = NoRegion => a = 0) /\ (h = NoRegion => b = 0)
  BY DEF RegionIsSaid
<1> SUFFICES SumFunctionOnSet(f, Regions) = a + b
  BY <1>2, <1>3
<1> HIDE DEF a, b, g, h, f
<1>7. CASE g = NoRegion /\ h = NoRegion
  <2>1. Regions = {}
    BY <1>5, <1>7
  <2> QED
    BY <1>6, <1>7, <2>1, SumOfEmpty
<1>8. CASE g = NoRegion /\ h # NoRegion
  <2>1. Regions = {h} /\ g # h
    BY <1>5, <1>8
  <2>2. f[h] = b
    BY <1>1, <1>4, <2>1
  <2> QED
    BY <1>1, <1>6, <1>8, <2>1, <2>2, SumOfSingle
<1>9. CASE g # NoRegion /\ h = NoRegion
  <2>1. Regions = {g} /\ g # h
    BY <1>5, <1>9
  <2>2. f[g] = a
    BY <1>1, <1>4, <2>1
  <2> QED
    BY <1>1, <1>6, <1>9, <2>1, <2>2, SumOfSingle
<1>10. CASE g # NoRegion /\ h = g
  <2>1. Regions = {g}
    BY <1>5, <1>10
  <2>2. f[g] = a + b
    BY <1>1, <1>4, <1>10, <2>1
  <2> QED
    BY <1>1, <2>1, <2>2, SumOfSingle
<1>11. CASE g # NoRegion /\ h # NoRegion /\ h # g
  <2>1. Regions = {g, h}
    BY <1>5, <1>11
  <2>2. f[g] = a /\ f[h] = b
    BY <1>1, <1>4, <1>11, <2>1
  <2> QED
    BY <1>1, <1>11, <2>1, <2>2, SumOfPair
<1> QED
  BY <1>7, <1>8, <1>9, <1>10, <1>11

(* No region is slower or faster than the whole, or unfinished when all is *)
(* finished.                                                               *)
LEMMA RegionsAreWithin ==
  ASSUME data \in AggDatas, neighbour \in AggDatas, NEW r \in Regions
  PROVE  /\ RegionsData[r].Slowest <= SumAllLambdas.Slowest
         /\ RegionsData[r].Fastest >= SumAllLambdas.Fastest
         /\ SumAllLambdas.Finished => RegionsData[r].Finished
<1> DEFINE R == ResultsForRegion(r)
           slow == [k \in 1 .. 2 |-> Lambdas[k].Slowest]
           fast == [k \in 1 .. 2 |-> Lambdas[k].Fastest]
<1>1. /\ Of(r) \subseteq 1 .. 2 /\ Of(r) # {} /\ DOMAIN R = Of(r)
      /\ \A k \in Of(r) : R[k] = Lambdas[k]
      /\ RegionsData[r] = SumAggData(R) /\ SumAllLambdas = SumAggData(Lambdas)
  BY RegionsAre, RegionFields DEF Of, SumAllLambdas
<1>2. \A k \in 1 .. 2 : Lambdas[k] \in AggDatas
  BY LambdasAre
<1>3. \A k \in 1 .. 2 : slow[k] \in Nat /\ fast[k] \in Nat
  BY <1>2, ResultsAssumption DEF AggDatas, Times
<1>4. /\ RegionsData[r].Slowest = Max({slow[k] : k \in Of(r)})
      /\ SumAllLambdas.Slowest = Max({slow[k] : k \in 1 .. 2})
  <2>1. {R[k].Slowest : k \in DOMAIN R} = {slow[k] : k \in Of(r)}
    BY <1>1
  <2>2. {Lambdas[k].Slowest : k \in DOMAIN Lambdas} = {slow[k] : k \in 1 .. 2}
    BY LambdasAre
  <2> QED
    BY ONLY <1>1, <2>1, <2>2, SummaryFields
<1>5. /\ RegionsData[r].Fastest = Min({MaxInt64} \cup {fast[k] : k \in Of(r)})
      /\ SumAllLambdas.Fastest = Min({MaxInt64} \cup {fast[k] : k \in 1 .. 2})
  <2>1. {R[k].Fastest : k \in DOMAIN R} = {fast[k] : k \in Of(r)}
    BY <1>1
  <2>2. {Lambdas[k].Fastest : k \in DOMAIN Lambdas} = {fast[k] : k \in 1 .. 2}
    BY LambdasAre
  <2> QED
    BY ONLY <1>1, <2>1, <2>2, SummaryFields
<1>6. SumAllLambdas.Finished => RegionsData[r].Finished
  <2>1. /\ RegionsData[r].Finished = \A k \in DOMAIN R : R[k].Finished
        /\ SumAllLambdas.Finished = \A k \in DOMAIN Lambdas : Lambdas[k].Finished
    BY ONLY <1>1, SummaryFields
  <2> QED
    BY <1>1, <2>1, LambdasAre
<1> HIDE DEF R, slow, fast
<1>7. RegionsData[r].Slowest <= SumAllLambdas.Slowest
  <2>1. PICK k \in Of(r) : Max({slow[l] : l \in Of(r)}) = slow[k]
    BY <1>1, <1>3, LargestOf
  <2>2. \A l \in 1 .. 2 : Max({slow[m] : m \in 1 .. 2}) >= slow[l]
    <3>1. 1 .. 2 # {} /\ 1 .. 2 \subseteq 1 .. 2
      OBVIOUS
    <3> QED
      BY <1>3, <3>1, LargestOf
  <2>3. slow[k] <= Max({slow[m] : m \in 1 .. 2})
    <3>1. \E l \in 1 .. 2 : Max({slow[m] : m \in 1 .. 2}) = slow[l]
      <4>1. 1 .. 2 # {} /\ 1 .. 2 \subseteq 1 .. 2
        OBVIOUS
      <4> QED
        BY <1>3, <4>1, LargestOf
    <3> QED
      BY <1>1, <1>3, <2>2, <3>1
  <2> QED
    BY <1>4, <2>1, <2>3
<1>8. RegionsData[r].Fastest >= SumAllLambdas.Fastest
  <2> DEFINE S == {MaxInt64} \cup {fast[k] : k \in Of(r)}
             T == {MaxInt64} \cup {fast[k] : k \in 1 .. 2}
  <2>1. S \subseteq T /\ T \subseteq Nat /\ S # {} /\ T # {}
    BY <1>1, <1>3, ResultsAssumption
  <2> HIDE DEF S, T
  <2>2. Min(S) \in S /\ \A y \in T : Min(T) <= y
    BY <2>1, SmallestOf
  <2>3. Min(S) \in Nat /\ Min(T) \in Nat /\ Min(T) <= Min(S)
    BY <2>1, <2>2, SmallestOf
  <2> QED
    BY <1>5, <2>3 DEF S, T
<1> QED
  BY <1>6, <1>7, <1>8

(* The mean of two numbers, rounded down, is between them.               *)
LEMMA MeanOfTwo ==
  ASSUME NEW a \in Nat, NEW b \in Nat, a <= b
  PROVE  (a + b) \div 2 \in Min({a, b}) .. Max({a, b})
<1> DEFINE S == {a, b}
<1>1. S \subseteq Nat /\ a \in S /\ b \in S
  OBVIOUS
<1>2. \A t \in S : a <= t /\ t <= b
  OBVIOUS
<1>3. (a + b) \div 2 \in a .. b
  OBVIOUS
<1> HIDE DEF S
<1>4. Min(S) = a /\ Max(S) = b
  BY ONLY <1>1, <1>2, SmallestAndLargest
<1> QED
  BY <1>3, <1>4 DEF S

(* The overall average is between those of the runners.                    *)
LEMMA MeanIsBetween ==
  ASSUME data \in AggDatas, neighbour \in AggDatas
  PROVE  LET averages == {Lambdas[k].AveTimeForReq : k \in DOMAIN Lambdas}
         IN  SumAllLambdas.AveTimeForReq \in Min(averages) .. Max(averages)
<1> DEFINE a == data.AveTimeForReq
           b == neighbour.AveTimeForReq
           f == [k \in DOMAIN Lambdas |-> Lambdas[k].AveTimeForReq]
<1>1. a \in Nat /\ b \in Nat
  BY DEF AggDatas
<1>2. DOMAIN f = 1 .. 2 /\ f[1] = a /\ f[2] = b
  BY LambdasAre
<1>3. {Lambdas[k].AveTimeForReq : k \in DOMAIN Lambdas} = {a, b}
  BY LambdasAre
<1>4. SumAllLambdas.AveTimeForReq = SumFunction(f) \div Cardinality(1 .. 2)
  BY LambdasAre, SummaryFields DEF SumAllLambdas
<1> HIDE DEF a, b, f
<1>5. SumFunction(f) = a + b
  BY <1>1, <1>2, SumOfTwo
<1>6. Cardinality(1 .. 2) = 2
  <2>1. 1 \in Int /\ 2 \in Int
    OBVIOUS
  <2>2. Cardinality(1 .. 2) = IF 1 > 2 THEN 0 ELSE 2 - 1 + 1
    BY ONLY <2>1, FS_Interval
  <2> QED
    BY ONLY <2>2
<1>7. SumAllLambdas.AveTimeForReq = (a + b) \div 2
  BY <1>4, <1>5, <1>6
<1>8. (a + b) \div 2 \in Min({a, b}) .. Max({a, b})
  <2>1. CASE a <= b
    BY ONLY <1>1, <2>1, MeanOfTwo
  <2>2. CASE b <= a
    <3>1. {a, b} = {b, a} /\ a + b = b + a
      BY <1>1
    <3>2. (b + a) \div 2 \in Min({b, a}) .. Max({b, a})
      BY ONLY <1>1, <2>2, MeanOfTwo
    <3> QED
      BY <3>1, <3>2
  <2> QED
    BY <1>1, <2>1, <2>2
<1> QED
  BY <1>3, <1>7, <1>8

(* Summaries never contradict each other, whatever has been reported and   *)
(* whether or not the runners share a region.                              *)
THEOREM SummariesAlwaysAgree == Spec => []SummariesAgree
<1>1. ResultsInv /\ RegionIsSaid => SummariesAgree
  <2> SUFFICES ASSUME ResultsInv, RegionIsSaid PROVE SummariesAgree
    OBVIOUS
  <2>1. /\ data \in AggDatas /\ neighbour \in AggDatas
        /\ neighbour.Region = NoRegion => neighbour.TotalReqs = 0
    BY NeighbourAssumption DEF ResultsInv, TypeOK
  <2>2. SumAllLambdas.TotalReqs
          = SumFunction([r \in Regions |-> RegionsData[r].TotalReqs])
    BY <2>1, RegionsAddUp
  <2>3. \A r \in Regions :
          /\ RegionsData[r].Slowest <= SumAllLambdas.Slowest
          /\ RegionsData[r].Fastest >= SumAllLambdas.Fastest
          /\ SumAllLambdas.Finished => RegionsData[r].Finished
    BY <2>1, RegionsAreWithin
  <2>4. SumAllLambdas.AveTimeForReq
          \in Min({Lambdas[k].AveTimeForReq : k \in DOMAIN Lambdas})
             .. Max({Lambdas[k].AveTimeForReq : k \in DOMAIN Lambdas})
    BY ONLY <2>1, MeanIsBetween
  <2> QED
    BY ONLY <2>2, <2>3, <2>4, SMT DEF SummariesAgree
<1> QED
  BY <1>1, ResultsInvariant, RegionsAreSaid, PTL
=============================================================================
