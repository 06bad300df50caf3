------------------------------ MODULE Results -------------------------------
(***************************************************************************)
(* What the numbers of a test mean: requestMetric of the runner            *)
(* (lambda/lambda.go), which turns the results of a window into a report,  *)
(* and package result, which adds the reports of a runner up and the       *)
(* runners to regions and an overall summary.                              *)
(*                                                                         *)
(* Requests of several workers overlap, their results reach the main loop  *)
(* in any order, and a tick may close a window between any two of them.    *)
(* Bytes are left out: they are added up like the counts.                  *)
(***************************************************************************)
EXTENDS Integers, Sequences, FiniteSets, FiniteSetsExt, Functions

CONSTANTS
  Workers,
  MaxInt64,     \* what Fastest starts with
  Neighbours,   \* AggData that the other runner of the test may have
  TimeBound,    \* exploration bound: the clock
  RequestBound  \* exploration bound: requests that are started

ASSUME ResultsAssumption ==
  /\ IsFiniteSet(Workers)
  /\ TimeBound \in Nat \ {0}
  /\ RequestBound \in Nat
  /\ MaxInt64 \in Nat /\ MaxInt64 > TimeBound

VARIABLES
  clock,     \* time since StartTime
  started,   \* number of requests started
  worker,    \* per worker: idle, fetching since, or holding its result
  metric,    \* l.Metrics
  data,      \* AggData of this runner
  neighbour, \* AggData of the other runner
  measured,  \* history: successes by ElapsedLastByte (redirects have 0)
  windows    \* history: reports with at least one success

vars == <<clock, started, worker, metric, data, neighbour, measured, windows>>

-----------------------------------------------------------------------------
Idle == [at |-> "idle"]
Fetching(start) == [at |-> "fetching", Time |-> start]

(* Status codes: what totErrors() tells apart.                             *)
StatusCodes == {"below 400", "from 400"}
Outcomes == StatusCodes \cup {"redirect", "timeout", "no connection",
                              "broken body"}
Failed(r) == r.outcome \in {"timeout", "no connection", "broken body"}

SmallerOf(x, y) == IF x < y THEN x ELSE y
LargerOf(x, y) == IF x > y THEN x ELSE y

(* fetch(): without a response all durations stay 0, on one redirect too   *)
(* many that of the last byte does, and a body that breaks counts as a     *)
(* connection error that has taken its time.                               *)
Fetched(start, outcome) ==
  LET all == clock - start
      result(elapsed, first, last) ==
        [at |-> "fetched", outcome |-> outcome, Time |-> start,
         Elapsed |-> elapsed, ElapsedFirstByte |-> first,
         ElapsedLastByte |-> last]
  IN  CASE outcome \in {"timeout", "no connection"} -> {result(0, 0, 0)}
        [] outcome = "redirect" -> {result(all, all, 0)}
        [] OTHER -> {result(all, first, all) : first \in 1 .. all}

NoStatuses == [s \in StatusCodes |-> 0]

(* The status a success is counted under; redirects have codes below 400.  *)
StatusOf(r) == IF r.outcome = "redirect" THEN "below 400" ELSE r.outcome

NoMetric_SlowestUnset ==
  [RequestCount |-> 0, TimedOut |-> 0, ConnectionErrors |-> 0,
   firstRequestTime |-> 0, lastRequestTime |-> 0, TimeDelta |-> 0,
   requestTimeTotal |-> 0, timeToFirstTotal |-> 0,
   AveTimeForReq |-> 0, AveTimeToFirst |-> 0,
   Fastest |-> MaxInt64, Slowest |-> MaxInt64, Statuses |-> NoStatuses]

(* resetAndKeepTotalReqs(), and NewRequestMetric().                        *)
NoMetric ==
  [RequestCount |-> 0, TimedOut |-> 0, ConnectionErrors |-> 0,
   firstRequestTime |-> 0, lastRequestTime |-> 0, TimeDelta |-> 0,
   requestTimeTotal |-> 0, timeToFirstTotal |-> 0,
   AveTimeForReq |-> 0, AveTimeToFirst |-> 0,
   Fastest |-> MaxInt64, Slowest |-> 0, Statuses |-> NoStatuses]

(* addRequest(), up to its call of aggregate(): the times of the window,   *)
(* which every request moves, and the counts of failures and successes.    *)
Timed_WithoutElapsed(m, r) ==
  [m EXCEPT !.firstRequestTime = IF @ = 0 THEN r.Time ELSE @,
            !.lastRequestTime = r.Time]

Timed(m, r) ==
  [m EXCEPT !.firstRequestTime = IF @ = 0 THEN r.Time ELSE @,
            !.lastRequestTime = r.Time + r.Elapsed]

CountFailure_WithStatus(m, r) ==
  [m EXCEPT !.TimedOut = @ + (IF r.outcome = "timeout" THEN 1 ELSE 0),
            !.ConnectionErrors = @ + (IF r.outcome = "timeout" THEN 0 ELSE 1),
            !.Statuses["below 400"] = @ + 1]

CountFailure(m, r) ==
  IF r.outcome = "timeout" THEN [m EXCEPT !.TimedOut = @ + 1]
                           ELSE [m EXCEPT !.ConnectionErrors = @ + 1]

CountSuccess(m, r) ==
  [m EXCEPT !.requestTimeTotal = @ + r.ElapsedLastByte,
            !.timeToFirstTotal = @ + r.ElapsedFirstByte,
            !.Fastest = SmallerOf(r.ElapsedLastByte, @),
            !.Slowest = LargerOf(r.ElapsedLastByte, @),
            !.Statuses[StatusOf(r)] = @ + 1]

Count(m, r) ==
  LET counted == Timed([m EXCEPT !.RequestCount = @ + 1], r)
  IN  IF Failed(r) THEN CountFailure(counted, r) ELSE CountSuccess(counted, r)

(* aggregate(): integer averages over the successes of the window.         *)
Successes(m) == m.RequestCount - (m.TimedOut + m.ConnectionErrors)

Aggregate(m) ==
  LET n == Successes(m)
      timed == [m EXCEPT !.TimeDelta = m.lastRequestTime - m.firstRequestTime]
  IN  IF n > 0
      THEN [timed EXCEPT !.AveTimeForReq = m.requestTimeTotal \div n,
                         !.AveTimeToFirst = m.timeToFirstTotal \div n]
      ELSE timed

-----------------------------------------------------------------------------
(* AggData of a runner that has not reported.  The rates are left out:     *)
(* they are TotalReqs and TotBytesRead divided by TimeDelta.               *)
NoRegion == ""
RegionNames == {NoRegion, "here", "there"}

Silent ==
  [TotalReqs |-> 0, TotalTimedOut |-> 0, TotalConnectionError |-> 0,
   AveTimeForReq |-> 0, AveTimeToFirst |-> 0, TimeDelta |-> 0,
   Fastest |-> 0, Slowest |-> 0, Statuses |-> NoStatuses,
   Finished |-> FALSE, Region |-> NoRegion]

Times == 0 .. TimeBound

AggDatas ==
  [TotalReqs : Nat, TotalTimedOut : Nat, TotalConnectionError : Nat,
   AveTimeForReq : Nat, AveTimeToFirst : Nat, TimeDelta : Int,
   Fastest : Times \cup {MaxInt64}, Slowest : Times,
   Statuses : [StatusCodes -> Nat], Finished : BOOLEAN, Region : RegionNames]

(* The other runner has counted each of its requests in one way, and with  *)
(* its first report told its region, as this one is shown to do.           *)
ASSUME NeighbourAssumption ==
  \A d \in Neighbours :
    /\ d \in AggDatas
    /\ d.TotalReqs = d.TotalTimedOut + d.TotalConnectionError
                      + d.Statuses["below 400"] + d.Statuses["from 400"]
    /\ d.Region = NoRegion => d.TotalReqs = 0

CountOk(d) == d.TotalReqs - d.TotalTimedOut - d.TotalConnectionError

AddToTotalAverage_Unweighted(currentAvg, currentCount, addAvg, addCount) ==
  (currentAvg + addAvg) \div 2

(* addToTotalAverage()                                                     *)
AddToTotalAverage(currentAvg, currentCount, addAvg, addCount) ==
  (currentAvg * currentCount + addAvg * addCount)
    \div (currentCount + addCount)

(* A Fastest of 0 is no measurement, on either side.                       *)
FasterOf_IgnoresFirst(fastest, added) ==
  IF added > 0 /\ added < fastest THEN added ELSE fastest

FasterOf(fastest, added) ==
  IF added > 0 /\ (fastest = 0 \/ added < fastest) THEN added ELSE fastest

(* AddResult()                                                             *)
AddResult(d, m, fin, region) ==
  LET n == CountOk(d)
      k == Successes(m)
      sums == [d EXCEPT
        !.TotalReqs = @ + m.RequestCount,
        !.TotalTimedOut = @ + m.TimedOut,
        !.TotalConnectionError = @ + m.ConnectionErrors,
        !.TimeDelta = @ + m.TimeDelta,
        !.Statuses = [s \in StatusCodes |-> @[s] + m.Statuses[s]],
        !.Slowest = LargerOf(m.Slowest, @),
        !.Fastest = FasterOf(@, m.Fastest),
        !.Finished = fin,
        !.Region = region]
  IN  IF n + k > 0
      THEN [sums EXCEPT
              !.AveTimeForReq = AddToTotalAverage(@, n, m.AveTimeForReq, k),
              !.AveTimeToFirst = AddToTotalAverage(@, n, m.AveTimeToFirst, k)]
      ELSE sums

-----------------------------------------------------------------------------
(* The plain mean of the runners' averages, silent runners included.       *)
Mean_Undivided(total, runners) == total

Mean(total, runners) == total \div Cardinality(DOMAIN runners)

(* sumAggData()                                                            *)
SumAggData(runners) ==
  LET sum(f(_)) == SumFunction([k \in DOMAIN runners |-> f(runners[k])])
  IN  [TotalReqs |-> sum(LAMBDA d : d.TotalReqs),
       TotalTimedOut |-> sum(LAMBDA d : d.TotalTimedOut),
       TotalConnectionError |-> sum(LAMBDA d : d.TotalConnectionError),
       AveTimeForReq |-> Mean(sum(LAMBDA d : d.AveTimeForReq), runners),
       AveTimeToFirst |-> Mean(sum(LAMBDA d : d.AveTimeToFirst), runners),
       Fastest |-> Min({MaxInt64} \cup
                         {runners[k].Fastest : k \in DOMAIN runners}),
       Slowest |-> Max({runners[k].Slowest : k \in DOMAIN runners}),
       Statuses |-> [s \in StatusCodes |-> sum(LAMBDA d : d.Statuses[s])],
       Finished |-> \A k \in DOMAIN runners : runners[k].Finished]

(* data.Lambdas, by runner id                                              *)
Lambdas == <<data, neighbour>>

(* Regions(), ResultsForRegion(), RegionsData(), SumAllLambdas()           *)
Regions == {Lambdas[k].Region : k \in DOMAIN Lambdas} \ {NoRegion}
ResultsForRegion(region) ==
  Restrict(Lambdas, {k \in DOMAIN Lambdas : Lambdas[k].Region = region})
RegionsData == [r \in Regions |-> SumAggData(ResultsForRegion(r))]
SumAllLambdas == SumAggData(Lambdas)

(* totErrors()                                                             *)
TotErrors(d) == d.TotalReqs - d.Statuses["below 400"]

-----------------------------------------------------------------------------
(* The first request starts after StartTime, in any number of workers.     *)
Init ==
  /\ clock = 1
  /\ started = 0
  /\ \E spawned \in SUBSET Workers : worker = [w \in spawned |-> Idle]
  /\ metric = NoMetric
  /\ data = Silent
  /\ neighbour \in Neighbours
  /\ measured = [t \in Times |-> 0]
  /\ windows = 0

Running == ~data.Finished

TimePasses ==
  /\ Running
  /\ clock < TimeBound
  /\ clock' = clock + 1
  /\ UNCHANGED <<started, worker, metric, data, neighbour, measured, windows>>

StartFetch(w) ==
  /\ Running
  /\ worker[w] = Idle
  /\ started < RequestBound
  /\ started' = started + 1
  /\ worker' = [worker EXCEPT ![w] = Fetching(clock)]
  /\ UNCHANGED <<clock, metric, data, neighbour, measured, windows>>

EndFetch(w) ==
  /\ Running
  /\ worker[w].at = "fetching"
  /\ clock > worker[w].Time
  /\ \E outcome \in Outcomes : \E r \in Fetched(worker[w].Time, outcome) :
       worker' = [worker EXCEPT ![w] = r]
  /\ UNCHANGED <<clock, started, metric, data, neighbour, measured, windows>>

(* case r := <-l.results                                                   *)
AddRequest(w) ==
  /\ Running
  /\ worker[w].at = "fetched"
  /\ metric' = Aggregate(Count(metric, worker[w]))
  /\ measured' =
       IF Failed(worker[w]) THEN measured
       ELSE [measured EXCEPT ![worker[w].ElapsedLastByte] = @ + 1]
  /\ worker' = [worker EXCEPT ![w] = Idle]
  /\ UNCHANGED <<clock, started, data, neighbour, windows>>

(* sendAggregatedResults(), at a tick or at the end, and AddResult().      *)
SendAggregatedResults ==
  /\ Running
  /\ \E fin \in BOOLEAN :
       /\ fin \/ metric.RequestCount > 0
       /\ data' = AddResult(data, metric, fin, "here")
  /\ metric' = NoMetric
  /\ windows' = windows + (IF Successes(metric) > 0 THEN 1 ELSE 0)
  /\ UNCHANGED <<clock, started, worker, neighbour, measured>>

Next ==
  \/ TimePasses
  \/ \E w \in DOMAIN worker : StartFetch(w) \/ EndFetch(w) \/ AddRequest(w)
  \/ SendAggregatedResults

Spec == Init /\ [][Next]_vars

-----------------------------------------------------------------------------
Metrics ==
  [RequestCount : Nat, TimedOut : Nat, ConnectionErrors : Nat,
   firstRequestTime : Nat, lastRequestTime : Nat, TimeDelta : Int,
   requestTimeTotal : Nat, timeToFirstTotal : Nat,
   AveTimeForReq : Nat, AveTimeToFirst : Nat,
   Fastest : Times \cup {MaxInt64}, Slowest : Times,
   Statuses : [StatusCodes -> Nat]]

(* The results a worker may hold, and all it may do.                       *)
Held ==
  [at : {"fetched"}, outcome : Outcomes, Time : Times,
   Elapsed : Times, ElapsedFirstByte : Times, ElapsedLastByte : Times]

WorkerStates == {Idle} \cup [at : {"fetching"}, Time : Times] \cup Held

TypeOK ==
  /\ clock \in 1 .. TimeBound
  /\ started \in 0 .. RequestBound
  /\ DOMAIN worker \subseteq Workers
  /\ worker \in [DOMAIN worker -> WorkerStates]
  /\ metric \in Metrics
  /\ data \in AggDatas
  /\ neighbour \in Neighbours
  /\ measured \in [Times -> Nat]
  /\ windows \in Nat

(* Everything received has been reported: what the properties of data are  *)
(* about, since an open window is not in it.                               *)
AllReported == metric.RequestCount = 0

Measured == {t \in Times : measured[t] > 0}
NumMeasured == SumFunction(measured)
SumMeasured == SumFunction([t \in Times |-> t * measured[t]])
NoRedirects == measured[0] = 0

(* Every request is counted in one way: by its status, as timed out or as  *)
(* a connection error; so the errors shown are these and the bad statuses. *)
CountsAddUp ==
  \A d \in {data, SumAllLambdas} :
    TotErrors(d) =
      d.TotalTimedOut + d.TotalConnectionError + d.Statuses["from 400"]

(* The average of averages: rounded down with every report, it is never    *)
(* above the true mean of all successes, and below it by less than the     *)
(* number of reports that had a success.                                   *)
AverageIsNear ==
  AllReported /\ NumMeasured > 0 =>
    /\ data.AveTimeForReq * NumMeasured <= SumMeasured
    /\ SumMeasured < (data.AveTimeForReq + windows) * NumMeasured

(* Without redirects the numbers shown for a runner are those of its       *)
(* successes: the extremes are exact, whatever the order of the reports    *)
(* and the sentinels 0 and MaxInt64, and the averages are in between.      *)
ExtremesAreExact ==
  AllReported /\ NumMeasured > 0 /\ NoRedirects =>
    /\ data.Fastest = Min(Measured)
    /\ data.Slowest = Max(Measured)
    /\ data.Fastest <= data.AveTimeForReq
    /\ data.AveTimeForReq <= data.Slowest
    /\ data.AveTimeToFirst <= data.AveTimeForReq

(* With one worker, and every request answered, the time a runner reports  *)
(* is real: at least that of its requests, and no more than has passed.    *)
(* Requests start after StartTime, so that no Time is the 0 of "none yet". *)
SequentialTimeIsReal ==
  /\ AllReported
  /\ Cardinality(DOMAIN worker) = 1
  /\ data.TotalTimedOut + data.TotalConnectionError = 0
  => data.TimeDelta \in SumMeasured .. clock - 1

(* The summaries agree: every request is shown under one region, though a  *)
(* runner that has not reported belongs to none; no region is beyond the   *)
(* extremes of the whole; a test that is finished is so in every region;   *)
(* and the overall average is between those of the runners.                *)
SummariesAgree ==
  LET overall == SumAllLambdas
      averages == {Lambdas[k].AveTimeForReq : k \in DOMAIN Lambdas}
  IN
  /\ overall.TotalReqs =
       SumFunction([r \in Regions |-> RegionsData[r].TotalReqs])
  /\ \A r \in Regions :
       /\ RegionsData[r].Slowest <= overall.Slowest
       /\ RegionsData[r].Fastest >= overall.Fastest
       /\ overall.Finished => RegionsData[r].Finished
  /\ overall.AveTimeForReq \in Min(averages) .. Max(averages)
=============================================================================
