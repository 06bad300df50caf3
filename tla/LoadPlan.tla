------------------------------ MODULE LoadPlan ------------------------------
(***************************************************************************)
(* From a test configuration to the runners' command lines: Check() of     *)
(* goad/types/types.go, Start() and numberOfLambdas() of goad/goad.go, and *)
(* the loop of InvokeLambdas() in infrastructure/infrastructure.go, which  *)
(* divides requests and concurrency among the runners and deals them out   *)
(* to the regions.                                                         *)
(***************************************************************************)
EXTENDS Integers, Sequences, FiniteSets

CONSTANTS Configs,           \* test configurations a user may ask for
          SupportedRegions,  \* supportedRegions of types.go
          WellFormedHeaders  \* header lines that contain a colon

(* TestConfig, as far as the plan goes by it.                              *)
ConfigTypeOK(c) ==
  /\ c.Concurrency \in Int /\ c.Requests \in Int
  /\ c.Timelimit \in Int /\ c.Timeout \in Int
  /\ c.Regions \in Seq(STRING)

ASSUME ConfigAssumption == \A c \in Configs : ConfigTypeOK(c)

VARIABLES
  config,    \* t, the configuration
  phase,     \* checking, setup, invoking; rejected, panicked, invoked
  lambdas,   \* t.Lambdas
  i,         \* InvokeLambdas' loop counter, also currentID
  invoked,   \* command lines handed to inf.Run, by runner id
  assigned   \* what they add up to (a history variable)

vars == <<config, phase, lambdas, i, invoked, assigned>>

-----------------------------------------------------------------------------
MAX_REQUEST_COUNT == 2147483647

(* TestConfig.Check(): TRUE when it returns nil.                           *)
Check_AnyConcurrency(c) ==
  /\ c.Requests >= 1 \/ c.Timelimit > 0
  /\ c.Requests <= MAX_REQUEST_COUNT
  /\ c.Timelimit <= 3600
  /\ c.Timeout \in 1 .. 100
  /\ \A k \in DOMAIN c.Regions : c.Regions[k] \in SupportedRegions
  /\ c.Headers \subseteq WellFormedHeaders

Check(c) ==
  /\ c.Concurrency \in 1 .. 25000 * Len(c.Regions)
  /\ c.Requests >= 1 \/ c.Timelimit > 0
  /\ c.Requests <= MAX_REQUEST_COUNT
  /\ c.Timelimit <= 3600
  /\ c.Timeout \in 1 .. 100
  /\ \A k \in DOMAIN c.Regions : c.Regions[k] \in SupportedRegions
  /\ c.Headers \subseteq WellFormedHeaders

NumberOfLambdas_TenEach(concurrency, numRegions) ==
  IF numRegions > concurrency THEN concurrency
  ELSE IF concurrency \div 200 > 350 THEN 500
  ELSE IF concurrency \div 100 > 100 THEN 300
  ELSE IF concurrency \div 10 > 100 THEN 100
  ELSE (concurrency - 1) \div 10 + 1

NumberOfLambdas_NoCap(concurrency, numRegions) ==
  IF concurrency \div 200 > 350 THEN 500
  ELSE IF concurrency \div 100 > 100 THEN 300
  ELSE IF concurrency \div 10 > 100 THEN 100
  ELSE IF concurrency < 10 * numRegions THEN numRegions
  ELSE (concurrency - 1) \div 10 + 1

(* numberOfLambdas()                                                       *)
NumberOfLambdas(concurrency, numRegions) ==
  IF numRegions > concurrency THEN concurrency
  ELSE IF concurrency \div 200 > 350 THEN 500
  ELSE IF concurrency \div 100 > 100 THEN 300
  ELSE IF concurrency \div 10 > 100 THEN 100
  ELSE IF concurrency < 10 * numRegions THEN numRegions
  ELSE (concurrency - 1) \div 10 + 1

(* divide(): Go's / truncates towards zero, and % goes with it.            *)
Quotient(dividend, divisor) ==
  IF dividend >= 0 THEN dividend \div divisor ELSE -((-dividend) \div divisor)
Remainder(dividend, divisor) == dividend - Quotient(dividend, divisor) * divisor

IsLast(id) == id = lambdas - 1

(* The shares of runner id: the last one also takes the requests that are  *)
(* left over, while left-over concurrency is dropped.                      *)
RequestShare_NoRemainder(id) == Quotient(config.Requests, lambdas)

RequestShare(id) ==
  LET remainder == Remainder(config.Requests, lambdas)
  IN  Quotient(config.Requests, lambdas)
        + (IF remainder > 0 /\ IsLast(id) THEN remainder ELSE 0)

ConcurrencyShare_WithRemainder(id) ==
  Quotient(config.Concurrency, lambdas) + Remainder(config.Concurrency, lambdas)

ConcurrencyShare(id) == Quotient(config.Concurrency, lambdas)

(* t.Regions[i % len(t.Regions)], with TLA+ sequences starting at 1.       *)
RegionIndex(id) == (id % Len(config.Regions)) + 1

-----------------------------------------------------------------------------
NothingInvoked ==
  /\ phase = "checking"
  /\ lambdas = 0
  /\ i = 0
  /\ invoked = <<>>
  /\ assigned = [requests |-> 0, concurrency |-> 0]

Init == config \in Configs /\ NothingInvoked

(* The CLI and the web API check a configuration before they start it.     *)
CheckConfig ==
  /\ phase = "checking"
  /\ phase' = IF Check(config) THEN "setup" ELSE "rejected"
  /\ UNCHANGED <<config, lambdas, i, invoked, assigned>>

(* goad.Start(): Setup of the infrastructure, an error of which panics.    *)
Setup ==
  /\ phase = "setup"
  /\ \/ /\ phase' = "invoking"
        /\ lambdas' = NumberOfLambdas(config.Concurrency, Len(config.Regions))
     \/ /\ phase' = "panicked"
        /\ UNCHANGED lambdas
  /\ UNCHANGED <<config, i, invoked, assigned>>

(* One iteration of InvokeLambdas: the command line, and go inf.Run.       *)
Invoke ==
  /\ phase = "invoking"
  /\ i < lambdas
  /\ invoked' = Append(invoked, [requests      |-> RequestShare(i),
                                 concurrency   |-> ConcurrencyShare(i),
                                 executionTime |-> config.Timelimit,
                                 region        |-> RegionIndex(i)])
  /\ assigned' = [requests    |-> assigned.requests + RequestShare(i),
                  concurrency |-> assigned.concurrency + ConcurrencyShare(i)]
  /\ i' = i + 1
  /\ UNCHANGED <<config, phase, lambdas>>

InvokeLambdasReturns ==
  /\ phase = "invoking"
  /\ i = lambdas
  /\ phase' = "invoked"
  /\ UNCHANGED <<config, lambdas, i, invoked, assigned>>

Next == CheckConfig \/ Setup \/ Invoke \/ InvokeLambdasReturns

Spec == Init /\ [][Next]_vars

-----------------------------------------------------------------------------
TypeOK ==
  /\ ConfigTypeOK(config)
  /\ phase \in {"checking", "rejected", "setup", "panicked", "invoking",
                "invoked"}
  /\ lambdas \in Nat
  /\ i \in Nat
  /\ invoked \in Seq([requests : Int, concurrency : Int,
                      executionTime : Int, region : Nat])
  /\ assigned \in [requests : Int, concurrency : Int]

(* A configuration that passes the check is started on at least one runner *)
(* and never on more runners than it asks for concurrent requests: nothing *)
(* is divided by zero, and no runner gets zero workers, which it would     *)
(* turn into one and exceed the concurrency asked for.                     *)
LambdasInRange ==
  phase \in {"invoking", "invoked"} => lambdas \in 1 .. config.Concurrency

(* The limits of the runners add up to the number of requests asked for,   *)
(* whatever is left over by the division.                                  *)
RequestsAddUp ==
  phase = "invoked" /\ config.Requests >= 0 =>
    assigned.requests = config.Requests

(* All runners together never have more workers than the concurrency asked *)
(* for, and they fall short of it by less than one per runner.             *)
ConcurrencyIsRespected ==
  phase = "invoked" =>
    /\ assigned.concurrency <= config.Concurrency
    /\ config.Concurrency < assigned.concurrency + lambdas

(* Why: in the loop, what has been handed out is i shares, and the leftover *)
(* requests come with the last one; regions take turns.                    *)
PlanInv ==
  /\ TypeOK
  /\ phase \in {"setup", "invoking", "invoked"} => Check(config)
  /\ phase \notin {"invoking", "invoked"} => i = 0
  /\ phase \in {"invoking", "invoked"} =>
       lambdas = NumberOfLambdas(config.Concurrency, Len(config.Regions))
  /\ phase = "invoking" => i <= lambdas
  /\ phase = "invoked" => i = lambdas
  /\ i > 0 => lambdas > 0
  /\ assigned.concurrency =
       IF i = 0 THEN 0 ELSE i * Quotient(config.Concurrency, lambdas)
  /\ config.Requests >= 0 =>
       assigned.requests =
         IF i = 0 THEN 0
         ELSE i * Quotient(config.Requests, lambdas)
                + (IF i = lambdas THEN Remainder(config.Requests, lambdas) ELSE 0)
  /\ Len(invoked) = i
  /\ \A k \in 1 .. i : /\ invoked[k].region = RegionIndex(k - 1)
                        /\ invoked[k].executionTime = config.Timelimit

(* The runners are dealt out evenly: no region gets two more than another. *)
(* Every region gets one unless there are more regions than requests at a  *)
(* time (or than 100, the number of runners at a concurrency of 1010).     *)
RunnersIn(r) == {k \in DOMAIN invoked : invoked[k].region = r}

EveryRegionServed ==
  phase = "invoked" =>
    \A r \in DOMAIN config.Regions :
      /\ \A s \in DOMAIN config.Regions :
           Cardinality(RunnersIn(r)) <= Cardinality(RunnersIn(s)) + 1
      /\ Len(config.Regions) <= config.Concurrency /\ Len(config.Regions) <= 100
           => RunnersIn(r) # {}

(* A test with a number of requests stays one on every runner: no share of *)
(* it is 0, which a runner takes for "unlimited".                          *)
LimitReachesEveryRunner ==
  config.Requests > 0 =>
    \A k \in DOMAIN invoked : invoked[k].requests > 0
=============================================================================
