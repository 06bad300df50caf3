--------------------------- MODULE LoadPlanProofs ---------------------------
(***************************************************************************)
(* Proofs about LoadPlan for every set of configurations: the number of    *)
(* runners that numberOfLambdas() picks, and what the shares add up to.    *)
(***************************************************************************)
EXTENDS LoadPlan, FiniteSetTheorems, TLAPS

(* Dividing a natural number: what is left over is less than a share per   *)
(* runner.                                                                 *)
LEMMA Division ==
  ASSUME NEW a \in Nat, NEW b \in Nat \ {0}
  PROVE  /\ Quotient(a, b) \in Nat
         /\ Remainder(a, b) \in 0 .. b - 1
         /\ a = Quotient(a, b) * b + Remainder(a, b)
<1>1. Quotient(a, b) = a \div b
  BY DEF Quotient
<1>2. a \div b \in Nat
  OBVIOUS
<1>3. a = b * (a \div b) + (a % b) /\ (a % b) \in 0 .. b - 1
  OBVIOUS
<1>4. b * (a \div b) = (a \div b) * b
  BY <1>2
<1> QED
  BY <1>1, <1>2, <1>3, <1>4 DEF Remainder

(* Dealing out in turn stays within the list.                              *)
LEMMA Modulo ==
  ASSUME NEW a \in Nat, NEW b \in Nat \ {0}
  PROVE  a % b \in 0 .. b - 1
OBVIOUS

(* Dividing any number gives a number.                                     *)
LEMMA DivisionType ==
  ASSUME NEW a \in Int, NEW b \in Nat \ {0}
  PROVE  Quotient(a, b) \in Int /\ Remainder(a, b) \in Int
BY DEF Quotient, Remainder

(* Whatever the concurrency and the number of regions: at least one runner *)
(* and at most one per concurrent request.                                 *)
THEOREM NumberOfLambdasBounds ==
  ASSUME NEW c \in Nat \ {0}, NEW r \in Nat \ {0}
  PROVE  NumberOfLambdas(c, r) \in 1 .. c
<1>1. (c - 1) \div 10 \in Nat /\ (c - 1) \div 10 + 1 <= c
  OBVIOUS
<1>2. /\ c \div 200 > 350 => c >= 500
      /\ c \div 100 > 100 => c >= 300
      /\ c \div 10 > 100 => c >= 100
  OBVIOUS
<1>3. c >= 10 * r => r <= c
  OBVIOUS
<1>4. CASE r > c
  BY <1>4 DEF NumberOfLambdas
<1>5. CASE r <= c
  BY <1>1, <1>2, <1>5 DEF NumberOfLambdas
<1> QED
  BY <1>4, <1>5

-----------------------------------------------------------------------------
(* What a configuration that passes the check looks like.                  *)
LEMMA CheckedConfig ==
  ASSUME ConfigTypeOK(config), Check(config)
  PROVE  /\ config.Concurrency \in Nat \ {0}
         /\ config.Requests \in Int
         /\ Len(config.Regions) \in Nat \ {0}
         /\ NumberOfLambdas(config.Concurrency, Len(config.Regions))
              \in 1 .. config.Concurrency
<1>1. /\ config.Concurrency \in Int /\ config.Requests \in Int
      /\ config.Regions \in Seq(STRING)
  BY DEF ConfigTypeOK
<1>2. Len(config.Regions) \in Nat
  BY <1>1
<1>3. config.Concurrency \in 1 .. 25000 * Len(config.Regions)
  BY DEF Check
<1>4. config.Concurrency \in Nat \ {0} /\ Len(config.Regions) # 0
  BY <1>1, <1>2, <1>3
<1> QED
  BY <1>1, <1>2, <1>4, NumberOfLambdasBounds

LEMMA PlanInit ==
  ASSUME NothingInvoked, ConfigTypeOK(config)
  PROVE  PlanInv
BY DEF NothingInvoked, PlanInv, TypeOK

(* One iteration hands out one share more; the last one what is left over. *)
LEMMA InvokeStep ==
  ASSUME PlanInv, Invoke
  PROVE  PlanInv'
<1> DEFINE q == Quotient(config.Concurrency, lambdas)
           p == Quotient(config.Requests, lambdas)
           m == Remainder(config.Requests, lambdas)
<1>1. /\ phase = "invoking" /\ i < lambdas /\ i' = i + 1
      /\ UNCHANGED <<config, phase, lambdas>>
  BY DEF Invoke
<1>2. /\ Check(config) /\ ConfigTypeOK(config) /\ TypeOK
      /\ lambdas = NumberOfLambdas(config.Concurrency, Len(config.Regions))
      /\ i \in Nat
  BY <1>1 DEF PlanInv, TypeOK
<1>3. /\ lambdas \in Nat \ {0} /\ config.Concurrency \in Nat \ {0}
      /\ config.Requests \in Int
      /\ Len(config.Regions) \in Nat \ {0}
  BY <1>2, CheckedConfig
<1>4. q \in Int /\ p \in Int /\ m \in Int
  <2>1. config.Concurrency \in Int
    BY <1>3
  <2>2. Quotient(config.Concurrency, lambdas) \in Int
    BY <1>3, <2>1, DivisionType
  <2>3. /\ Quotient(config.Requests, lambdas) \in Int
        /\ Remainder(config.Requests, lambdas) \in Int
    BY <1>3, DivisionType
  <2> QED
    BY <2>2, <2>3
<1>5. /\ RequestShare(i) = p + (IF m > 0 /\ i + 1 = lambdas THEN m ELSE 0)
      /\ ConcurrencyShare(i) = q
  <2>1. IsLast(i) <=> i + 1 = lambdas
    BY <1>2, <1>3 DEF IsLast
  <2> QED
    BY <2>1 DEF RequestShare, ConcurrencyShare
<1>6. /\ RequestShare(i) \in Int /\ ConcurrencyShare(i) \in Int
  BY <1>4, <1>5
<1>7. TypeOK'
  <2>1. RegionIndex(i) \in Nat
    <3>1. i % Len(config.Regions) \in 0 .. Len(config.Regions) - 1
      BY <1>2, <1>3, Modulo
    <3> QED
      BY <3>1 DEF RegionIndex
  <2>2. config.Timelimit \in Int
    BY <1>2 DEF ConfigTypeOK
  <2> DEFINE Lines == [requests : Int, concurrency : Int,
                       executionTime : Int, region : Nat]
             line == [requests      |-> RequestShare(i),
                      concurrency   |-> ConcurrencyShare(i),
                      executionTime |-> config.Timelimit,
                      region        |-> RegionIndex(i)]
  <2>a. line \in Lines
    BY <1>6, <2>1, <2>2
  <2>b. invoked \in Seq(Lines) /\ invoked' = Append(invoked, line)
    BY <1>2 DEF Invoke, TypeOK
  <2>3. invoked' \in Seq(Lines)
    <3> HIDE DEF Lines, line
    <3> QED
      BY <2>a, <2>b
  <2>4. assigned' \in [requests : Int, concurrency : Int]
    BY <1>2, <1>6 DEF Invoke, TypeOK
  <2> QED
    BY <1>1, <1>2, <2>3, <2>4 DEF TypeOK
<1>8. /\ assigned.concurrency \in Int /\ assigned.requests \in Int
      /\ assigned'.concurrency = assigned.concurrency + q
      /\ assigned'.requests = assigned.requests + RequestShare(i)
  BY <1>2, <1>5 DEF Invoke, TypeOK
<1> HIDE DEF q, p, m
<1>9. (i + 1) * q = i * q + q /\ (i + 1) * p = i * p + p
      /\ 1 * q = q /\ 1 * p = p
  BY <1>2, <1>4
<1>10. assigned'.concurrency = (i + 1) * q
  <2>1. assigned.concurrency = IF i = 0 THEN 0 ELSE i * q
    BY DEF PlanInv, q
  <2> QED
    BY <1>2, <1>4, <1>8, <1>9, <2>1
<1>11. config.Requests >= 0 =>
         assigned'.requests = (i + 1) * p + (IF i + 1 = lambdas THEN m ELSE 0)
  <2> SUFFICES ASSUME config.Requests >= 0
               PROVE  assigned'.requests
                        = (i + 1) * p + (IF i + 1 = lambdas THEN m ELSE 0)
    OBVIOUS
  <2>1. m >= 0
    <3>1. config.Requests \in Nat
      BY <1>3
    <3>2. m \in 0 .. lambdas - 1
      BY <1>3, <3>1, Division DEF m
    <3> QED
      BY <1>3, <3>2
  <2>2. assigned.requests = IF i = 0 THEN 0 ELSE i * p
    <3>1. i # lambdas
      BY <1>1, <1>2, <1>3
    <3>2. assigned.requests =
            IF i = 0 THEN 0 ELSE i * p + (IF i = lambdas THEN m ELSE 0)
      BY DEF PlanInv, p, m
    <3>3. i * p \in Int
      BY <1>2, <1>4
    <3> QED
      BY <3>1, <3>2, <3>3
  <2>3. RequestShare(i) = p + (IF i + 1 = lambdas THEN m ELSE 0)
    BY <1>4, <1>5, <2>1
  <2>4. assigned.requests + p = (i + 1) * p
    BY <1>2, <1>4, <1>9, <2>2
  <2> QED
    BY <1>4, <1>8, <2>3, <2>4
<1>12. /\ Len(invoked') = i + 1
       /\ \A k \in 1 .. i + 1 :
            /\ invoked'[k].region = RegionIndex(k - 1)
            /\ invoked'[k].executionTime = config.Timelimit
  <2> DEFINE line == [requests      |-> RequestShare(i),
                      concurrency   |-> ConcurrencyShare(i),
                      executionTime |-> config.Timelimit,
                      region        |-> RegionIndex(i)]
  <2>1. /\ line.region = RegionIndex(i) /\ line.executionTime = config.Timelimit
        /\ invoked' = Append(invoked, line)
    BY DEF Invoke
  <2>2. /\ Len(invoked) = i /\ \E S : invoked \in Seq(S)
        /\ \A k \in 1 .. i : /\ invoked[k].region = RegionIndex(k - 1)
                              /\ invoked[k].executionTime = config.Timelimit
    BY <1>2 DEF PlanInv, TypeOK
  <2> HIDE DEF line
  <2>3. /\ Len(invoked') = i + 1 /\ invoked'[i + 1] = line
        /\ \A k \in 1 .. i : invoked'[k] = invoked[k]
    BY <2>1, <2>2, <1>2
  <2>4. \A k \in 1 .. i + 1 : k \in 1 .. i \/ (k = i + 1 /\ k - 1 = i)
    BY <1>2
  <2> QED
    BY <2>1, <2>2, <2>3, <2>4
<1>13. /\ Len(invoked') = i'
       /\ \A k \in 1 .. i' : /\ invoked'[k].region = RegionIndex(k - 1)'
                             /\ invoked'[k].executionTime = config'.Timelimit
  BY <1>1, <1>12 DEF RegionIndex
<1> QED
  BY <1>1, <1>2, <1>3, <1>7, <1>10, <1>11, <1>13 DEF PlanInv, q, p, m

LEMMA PlanNext == PlanInv /\ [Next]_vars => PlanInv'
<1> SUFFICES ASSUME PlanInv, [Next]_vars PROVE PlanInv'
  OBVIOUS
<1>1. CASE UNCHANGED vars
  BY <1>1 DEF vars, PlanInv, TypeOK, RegionIndex
<1>2. CASE CheckConfig
  BY <1>2 DEF CheckConfig, PlanInv, TypeOK, RegionIndex
<1>3. CASE Setup
  <2>1. ConfigTypeOK(config) /\ Check(config) /\ i = 0
    BY <1>3 DEF Setup, PlanInv, TypeOK
  <2>2. NumberOfLambdas(config.Concurrency, Len(config.Regions)) \in Nat \ {0}
    BY <2>1, CheckedConfig
  <2> QED
    BY <1>3, <2>1, <2>2 DEF Setup, PlanInv, TypeOK, RegionIndex
<1>4. CASE Invoke
  BY <1>4, InvokeStep
<1>5. CASE InvokeLambdasReturns
  BY <1>5 DEF InvokeLambdasReturns, PlanInv, TypeOK, RegionIndex
<1> QED
  BY <1>1, <1>2, <1>3, <1>4, <1>5 DEF Next

(* In every reachable state the shares handed out so far are i shares.     *)
THEOREM PlanInvariant == Spec => []PlanInv
<1>1. Init => PlanInv
  BY PlanInit, ConfigAssumption DEF Init
<1> QED
  BY <1>1, PlanNext, PTL DEF Spec

-----------------------------------------------------------------------------
(* What the finished plan adds up to.                                      *)
LEMMA FinishedPlan ==
  ASSUME PlanInv, phase = "invoked"
  PROVE  /\ lambdas \in 1 .. config.Concurrency
         /\ lambdas \in Nat \ {0} /\ config.Concurrency \in Nat
         /\ config.Requests \in Int
         /\ assigned.concurrency = lambdas * Quotient(config.Concurrency, lambdas)
         /\ config.Requests >= 0 =>
              assigned.requests = lambdas * Quotient(config.Requests, lambdas)
                                    + Remainder(config.Requests, lambdas)
<1>1. /\ ConfigTypeOK(config) /\ Check(config) /\ i = lambdas
      /\ lambdas = NumberOfLambdas(config.Concurrency, Len(config.Regions))
  BY DEF PlanInv, TypeOK
<1>2. /\ lambdas \in 1 .. config.Concurrency
      /\ config.Concurrency \in Nat \ {0} /\ config.Requests \in Int
  BY <1>1, CheckedConfig
<1>3. lambdas \in Nat \ {0}
  BY <1>2
<1> QED
  BY <1>1, <1>2, <1>3 DEF PlanInv

(* What the invariant says of the number of runners.                       *)
LEMMA RunnersAreInRange == PlanInv => LambdasInRange
BY CheckedConfig DEF PlanInv, TypeOK, LambdasInRange

(* No configuration that passes the check is started on no runner, or on   *)
(* more runners than it asks for concurrent requests.                      *)
THEOREM LambdasAlwaysInRange == Spec => []LambdasInRange
BY RunnersAreInRange, PlanInvariant, PTL

(* With the remainder the shares are the number of requests.               *)
LEMMA SharesAddUp == PlanInv => RequestsAddUp
<1> SUFFICES ASSUME PlanInv, phase = "invoked", config.Requests >= 0
             PROVE  assigned.requests = config.Requests
  BY DEF RequestsAddUp
<1> DEFINE p == Quotient(config.Requests, lambdas)
           m == Remainder(config.Requests, lambdas)
<1>1. /\ lambdas \in Nat \ {0} /\ config.Requests \in Nat
      /\ assigned.requests = lambdas * p + m
  BY FinishedPlan
<1>2. p \in Nat /\ m \in Int /\ config.Requests = p * lambdas + m
  BY <1>1, Division
<1> HIDE DEF p, m
<1> QED
  BY <1>1, <1>2

(* Every request of the configuration is given to exactly one runner.      *)
THEOREM RequestsAlwaysAddUp == Spec => []RequestsAddUp
BY SharesAddUp, PlanInvariant, PTL

(* Without it they are at most the concurrency.                            *)
LEMMA SharesAreWithin == PlanInv => ConcurrencyIsRespected
<1> SUFFICES ASSUME PlanInv, phase = "invoked"
             PROVE  /\ assigned.concurrency <= config.Concurrency
                    /\ config.Concurrency < assigned.concurrency + lambdas
  BY DEF ConcurrencyIsRespected
<1> DEFINE q == Quotient(config.Concurrency, lambdas)
           m == Remainder(config.Concurrency, lambdas)
<1>1. /\ lambdas \in Nat \ {0} /\ config.Concurrency \in Nat
      /\ assigned.concurrency = lambdas * q
  BY FinishedPlan
<1>2. q \in Nat /\ m \in 0 .. lambdas - 1
      /\ config.Concurrency = q * lambdas + m
  BY <1>1, Division
<1> HIDE DEF q, m
<1>3. q * lambdas = lambdas * q /\ lambdas * q \in Nat
  BY <1>1, <1>2
<1> QED
  BY <1>1, <1>2, <1>3

(* The runners together never exceed the concurrency asked for, and what   *)
(* the division drops is less than one request at a time per runner.       *)
THEOREM ConcurrencyAlwaysRespected == Spec => []ConcurrencyIsRespected
BY SharesAreWithin, PlanInvariant, PTL
-----------------------------------------------------------------------------
(* There is one way to write a number as turns and a place.                *)
LEMMA OneRemainder ==
  ASSUME NEW q \in Nat, NEW b \in Nat \ {0}, NEW m \in 0 .. b - 1
  PROVE  (q * b + m) % b = m
<1> DEFINE a == q * b + m
           p == a \div b
           n == a % b
<1>1. a \in Nat /\ q * b \in Nat
  OBVIOUS
<1>2. a = b * p + n /\ n \in 0 .. b - 1 /\ p \in Nat
  <2> HIDE DEF a
  <2> QED
    BY <1>1
<1>3. a = b * q + m
  OBVIOUS
<1> HIDE DEF a, p, n
<1>4. b * p \in Nat /\ b * q \in Nat
  BY <1>2
<1>5. CASE p >= q + 1
  <2>1. b * p >= b * (q + 1) /\ b * (q + 1) = b * q + b
    BY <1>2, <1>5
  <2> QED
    BY <1>2, <1>3, <1>4, <2>1
<1>6. CASE q >= p + 1
  <2>1. b * q >= b * (p + 1) /\ b * (p + 1) = b * p + b
    BY <1>2, <1>6
  <2> QED
    BY <1>2, <1>3, <1>4, <2>1
<1>7. CASE p = q
  BY <1>2, <1>3, <1>4, <1>7 DEF a, n
<1> QED
  BY <1>2, <1>5, <1>6, <1>7

(* Places of a round of b that a runner's number stands for.               *)
Turns(n, b, r) == {k \in 1 .. n : ((k - 1) % b) + 1 = r}

LEMMA RoundOfTurn ==
  ASSUME NEW n \in Nat, NEW b \in Nat \ {0}, NEW r \in 1 .. b,
         NEW k \in Turns(n, b, r)
  PROVE  k \in 1 .. n /\ \E q \in Nat : k = q * b + r
<1> DEFINE a == k - 1
<1>1. a \in Nat /\ a % b = r - 1 /\ k \in 1 .. n
  BY DEF Turns
<1>2. k = a + 1
  BY <1>1
<1> HIDE DEF a
<1>3. a = b * (a \div b) + (a % b) /\ a \div b \in Nat
  BY <1>1
<1>4. b * (a \div b) = (a \div b) * b
  BY <1>3
<1>5. k = (a \div b) * b + r
  BY <1>1, <1>2, <1>3, <1>4
<1> QED
  BY <1>1, <1>3, <1>5

LEMMA TurnOfRound ==
  ASSUME NEW n \in Nat, NEW b \in Nat \ {0}, NEW r \in 1 .. b,
         NEW q \in Nat, q * b + r \in 1 .. n
  PROVE  q * b + r \in Turns(n, b, r)
<1>1. r - 1 \in 0 .. b - 1 /\ q * b \in Nat
  OBVIOUS
<1>2. (q * b + (r - 1)) % b = r - 1
  BY <1>1, OneRemainder
<1>3. (q * b + r) - 1 = q * b + (r - 1)
  BY <1>1
<1> QED
  BY <1>1, <1>2, <1>3 DEF Turns

(* A set of numbers that fits into another when it is shifted is no larger.*)
LEMMA ShiftedIsNoLarger ==
  ASSUME NEW A, A \subseteq Int, NEW B, IsFiniteSet(B), NEW d \in Int,
         \A k \in A : k - d \in B
  PROVE  IsFiniteSet(A) /\ Cardinality(A) <= Cardinality(B)
<1> DEFINE f == [k \in A |-> k - d]
<1>1. f \in [A -> B] /\ \A k, l \in A : f[k] = f[l] => k = l
  OBVIOUS
<1>2. f \in Injection(A, B)
  BY <1>1 DEF Injection, IsInjective
<1> QED
  BY <1>2, FS_Injection

(* In n turns no place gets two more than another.                         *)
LEMMA TurnsAreEven ==
  ASSUME NEW n \in Nat, NEW b \in Nat \ {0}, NEW r \in 1 .. b, NEW s \in 1 .. b
  PROVE  /\ Cardinality(Turns(n, b, r)) \in Nat
         /\ Cardinality(Turns(n, b, r)) <= Cardinality(Turns(n, b, s)) + 1
<1> DEFINE R == Turns(n, b, r)
           S == Turns(n, b, s)
<1>1. IsFiniteSet(R) /\ IsFiniteSet(S) /\ R \subseteq Int
  <2>1. IsFiniteSet(1 .. n) /\ R \in SUBSET (1 .. n) /\ S \in SUBSET (1 .. n)
    BY FS_Interval DEF Turns
  <2> QED
    BY <2>1, FS_Subset
<1>2. Cardinality(R) \in Nat /\ Cardinality(S) \in Nat
  BY <1>1, FS_CardinalityType
<1>3. ASSUME s <= r, NEW k \in Turns(n, b, r)
      PROVE  k - (r - s) \in Turns(n, b, s)
  <2>1. k \in 1 .. n /\ \E q \in Nat : k = q * b + r
    BY ONLY <1>3, n \in Nat, b \in Nat \ {0}, r \in 1 .. b, RoundOfTurn
  <2>2. PICK q \in Nat : k = q * b + r
    BY <2>1
  <2>3. q * b \in Nat
    OBVIOUS
  <2>4. k - (r - s) = q * b + s /\ q * b + s \in 1 .. n
    BY <1>3, <2>1, <2>2, <2>3
  <2>5. q * b + s \in Turns(n, b, s)
    BY <2>4, TurnOfRound
  <2> QED
    BY <2>4, <2>5
<1>4. ASSUME r < s, NEW k \in Turns(n, b, r), k # r
      PROVE  k - (b + r - s) \in Turns(n, b, s)
  <2>1. k \in 1 .. n /\ \E q \in Nat : k = q * b + r
    BY ONLY <1>4, n \in Nat, b \in Nat \ {0}, r \in 1 .. b, RoundOfTurn
  <2>2. PICK q \in Nat : k = q * b + r
    BY <2>1
  <2>3. q # 0
    BY <1>4, <2>2
  <2> DEFINE p == q - 1
  <2>4. p \in Nat /\ q = p + 1
    BY <2>3
  <2> HIDE DEF p
  <2>5. q * b = p * b + b /\ p * b \in Nat
    BY <2>4
  <2>6. k - (b + r - s) = p * b + s /\ p * b + s \in 1 .. n
    BY <1>4, <2>1, <2>2, <2>5
  <2>7. p * b + s \in Turns(n, b, s)
    BY <2>4, <2>6, TurnOfRound
  <2> QED
    BY <2>6, <2>7
<1>5. CASE s <= r
  <2>1. r - s \in Int /\ \A k \in R : k - (r - s) \in S
    BY <1>3, <1>5
  <2> HIDE DEF R, S
  <2>2. Cardinality(R) <= Cardinality(S)
    BY ONLY <1>1, <2>1, ShiftedIsNoLarger
  <2>3. Cardinality(R) <= Cardinality(S) + 1
    BY <1>2, <2>2
  <2> QED
    BY <1>2, <2>3 DEF R, S
<1>6. CASE r < s
  <2>1. b + r - s \in Int /\ \A k \in R \ {r} : k - (b + r - s) \in S
    BY <1>4, <1>6
  <2> HIDE DEF R, S
  <2>2. R \ {r} \subseteq Int
    BY <1>1
  <2>3. Cardinality(R \ {r}) <= Cardinality(S)
    BY ONLY <1>1, <2>1, <2>2, ShiftedIsNoLarger
  <2>4. Cardinality(R \ {r})
          = IF r \in R THEN Cardinality(R) - 1 ELSE Cardinality(R)
    BY <1>1, FS_RemoveElement
  <2>5. Cardinality(R) <= Cardinality(S) + 1
    BY <1>2, <2>3, <2>4
  <2> QED
    BY <1>2, <2>5 DEF R, S
<1> QED
  BY <1>5, <1>6

(* As many regions as there are runners at the least have one each.        *)
LEMMA EnoughRunners ==
  ASSUME NEW c \in Nat \ {0}, NEW r \in Nat \ {0}, r <= c, r <= 100
  PROVE  r <= NumberOfLambdas(c, r)
<1>1. c >= 10 * r => r <= (c - 1) \div 10 + 1
  OBVIOUS
<1> QED
  BY <1>1 DEF NumberOfLambdas

(* Runners that take the regions in turn serve them evenly.                *)
LEMMA TurnsServeRegions == PlanInv => EveryRegionServed
<1> SUFFICES ASSUME PlanInv, phase = "invoked", NEW r \in DOMAIN config.Regions
             PROVE  /\ \A s \in DOMAIN config.Regions :
                         Cardinality(RunnersIn(r))
                           <= Cardinality(RunnersIn(s)) + 1
                    /\ /\ Len(config.Regions) <= config.Concurrency
                       /\ Len(config.Regions) <= 100
                       => RunnersIn(r) # {}
  BY DEF EveryRegionServed
<1> DEFINE b == Len(config.Regions)
<1>1. /\ ConfigTypeOK(config) /\ Check(config) /\ i = lambdas /\ i \in Nat
      /\ lambdas = NumberOfLambdas(config.Concurrency, b)
      /\ Len(invoked) = i /\ \E S : invoked \in Seq(S)
      /\ \A k \in 1 .. i : invoked[k].region = RegionIndex(k - 1)
  BY DEF PlanInv, TypeOK
<1>2. b \in Nat \ {0} /\ config.Concurrency \in Nat \ {0}
  BY <1>1, CheckedConfig
<1>3. DOMAIN config.Regions = 1 .. b
  BY <1>1 DEF ConfigTypeOK
<1>4. ASSUME NEW s \in 1 .. b PROVE RunnersIn(s) = Turns(i, b, s)
  <2>1. DOMAIN invoked = 1 .. i
    BY <1>1
  <2>2. \A k \in 1 .. i : invoked[k].region = ((k - 1) % b) + 1
    BY <1>1 DEF RegionIndex
  <2> HIDE DEF b
  <2> QED
    BY <2>1, <2>2 DEF RunnersIn, Turns
<1> HIDE DEF b
<1>5. \A s \in 1 .. b : Cardinality(RunnersIn(r)) <= Cardinality(RunnersIn(s)) + 1
  BY <1>1, <1>2, <1>3, <1>4, TurnsAreEven
<1>6. ASSUME b <= config.Concurrency, b <= 100 PROVE RunnersIn(r) # {}
  <2>1. b <= i
    BY <1>1, <1>2, <1>6, EnoughRunners
  <2>2. r \in 1 .. b /\ 0 * b + r = r /\ r \in 1 .. i
    BY <1>1, <1>2, <1>3, <2>1
  <2>3. r \in Turns(i, b, r)
    BY <1>1, <1>2, <2>2, TurnOfRound
  <2> QED
    BY <1>3, <1>4, <2>3
<1> QED
  BY <1>3, <1>5, <1>6 DEF b

(* Runners take the regions in turn, for any number of both.               *)
THEOREM RegionsAlwaysServed == Spec => []EveryRegionServed
BY TurnsServeRegions, PlanInvariant, PTL
=============================================================================
