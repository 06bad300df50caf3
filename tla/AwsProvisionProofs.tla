------------------------- MODULE AwsProvisionProofs -------------------------
(***************************************************************************)
(* Proofs about the provisioning on AWS, for any number of clients,        *)
(* builds, regions and starts, and beside any sessions on docker: types,   *)
(* the inductive invariant, and the four safety properties.                *)
(***************************************************************************)
EXTENDS Platforms, Sums, TLAPS

(* Steps of a setup after which the role is known to exist, ...            *)
BeforeRole == {"getRole", "createRole", "putPolicy"}
PastRole == (InSetup \ BeforeRole) \cup {"testing"}

(* ... those in which the region at hand has the client's function, ...    *)
PastInstall == {"getAlias", "createAlias", "updateAlias"}

(* ... and those in which all its regions have.                            *)
PastRegions == {"createQueue", "testing"}

Served(c) ==
  {k \in DOMAIN Regions[c] :
     \/ setup[c] \in PastRegions
     \/ setup[c] \in PastRole /\ k < position[c]
     \/ setup[c] \in PastInstall /\ k = position[c]}

(* A client that has left its first state is one of this platform.         *)
OnAws == \A c \in Clients : setup[c] # "off" => platform[c] = "aws"

(* Setup comes to the regions in their order, and after the role.          *)
FirstRegionFirst ==
  \A c \in Clients : setup[c] \in BeforeRole => position[c] = 1

(* One client at most is about to put the policy, and none once somebody   *)
(* has given up; before there is a role, there is none to give it to.      *)
OnePolicyMaker ==
  /\ role = "absent" => ~policy
  /\ \A c \in Clients : setup[c] = "putPolicy" => ~policy /\ ~givenUp
  /\ \A c, d \in Clients :
       setup[c] = "putPolicy" /\ setup[d] = "putPolicy" => c = d

(* What a setup has found or done is still there: role, functions, queue.  *)
WorkRemains ==
  \A c \in Clients :
    /\ setup[c] \in PastRole \cup {"putPolicy"} => role # "absent"
    /\ \A k \in Served(c) : function[Regions[c][k]] # NoCode
    /\ setup[c] = "testing" => <<c, starts[c]>> \in queues

(* The functions it has installed are its own until it is overtaken.       *)
OwnFunctions ==
  \A c \in Clients : ~overtaken[c] =>
    \A k \in Served(c) : function[Regions[c][k]] = Build[c]

(* Runners are called during a test only, and there is code to run.        *)
CallsAreAnswered ==
  \A c \in Clients : called[c] # NoRunner =>
    /\ setup[c] = "testing"
    /\ called[c].build \in Builds
    /\ \E k \in DOMAIN Regions[c] : called[c].told = Regions[c][k]

(* Setups under way at the same time know, in the history, of each other;  *)
(* the others create what is still missing.                                *)
SeenIsTrue ==
  \A c \in Clients :
    /\ setup[c] \in InSetup =>
         \A d \in Clients \ {c} : setup[d] \in InSetup => overlapped[c]
    /\ ~overlapped[c] =>
         /\ setup[c] = "createRole" => role = "absent"
         /\ setup[c] = "createFunction" => function[Region(c)] = NoCode
         /\ setup[c] = "createAlias" =>
              Build[c] \notin alias[Region(c)] \/ blind[c]

AwsInv ==
  /\ StartTypeOK
  /\ AwsTypeOK
  /\ OnAws
  /\ FirstRegionFirst
  /\ OnePolicyMaker
  /\ PolicyGapIsForGood
  /\ WorkRemains
  /\ OwnFunctions
  /\ CallsAreAnswered
  /\ OwnBuildUnlessOvertaken
  /\ SeenIsTrue
  /\ RefusedOnlyByRace

-----------------------------------------------------------------------------
(* The programs of one client are at most those of all.                    *)
LEMMA StartsAreBounded ==
  ASSUME StartTypeOK, NEW c \in Clients, NEW infra, StartOn(c, infra)
  PROVE  StartTypeOK'
<1>1. FoldFunction(+, 0, starts) = SumFunctionOnSet(starts, Clients)
  BY Zenon DEF StartTypeOK, FoldFunction, SumFunctionOnSet
<1>2. IsFiniteSet(Clients) /\ IsFiniteSet(Clients \ {c})
  BY ClientAssumption, FS_Subset
<1>3. \A d \in Clients : starts[d] \in Nat
  BY ClientAssumption DEF StartTypeOK
<1>4. SumFunctionOnSet(starts, Clients)
        = starts[c] + SumFunctionOnSet(starts, Clients \ {c})
  BY <1>2, <1>3, SumTakes
<1>5. SumFunctionOnSet(starts, Clients \ {c}) \in Nat
  BY <1>2, <1>3, SumNat
<1>6. FoldFunction(+, 0, starts) < MaxStarts
  BY Zenon DEF StartOn
<1>7. SumFunctionOnSet(starts, Clients) < MaxStarts
  BY Zenon, <1>1, <1>6
<1>8. starts[c] + 1 \in 0 .. MaxStarts
  BY <1>3, <1>4, <1>5, <1>7, ClientAssumption
<1>9. starts' = [starts EXCEPT ![c] = @ + 1] /\ UNCHANGED platform
  BY Zenon DEF StartOn
<1> QED
  BY <1>8, <1>9 DEF StartTypeOK

(* Regions of a client are regions.                                        *)
LEMMA RegionsAreRegions ==
  ASSUME NEW c \in Clients
  PROVE  /\ Len(Regions[c]) \in Nat \ {0}
         /\ DOMAIN Regions[c] = 1 .. Len(Regions[c])
         /\ \A k \in DOMAIN Regions[c] : Regions[c][k] \in AllRegions
<1>1. Regions[c] \in Seq(AllRegions) /\ Regions[c] # <<>>
  BY ProvisionAssumption
<1> HIDE DEF AllRegions
<1> QED
  BY <1>1

(* The next region, or the queue, is a place to be in.                     *)
LEMMA NextRegionType ==
  ASSUME AwsTypeOK, NEW c \in Clients, NextRegion(c)
  PROVE  /\ setup' = [setup EXCEPT ![c] = IF position[c] < Len(Regions[c])
                                          THEN "lambdaExists" ELSE "createQueue"]
         /\ position' \in [Clients -> Nat]
         /\ \A d \in Clients : position'[d] \in DOMAIN Regions[d]
         /\ \A d \in Clients : d # c => position'[d] = position[d]
         /\ IF position[c] < Len(Regions[c])
            THEN position'[c] = position[c] + 1
            ELSE position'[c] = position[c] /\ position[c] = Len(Regions[c])
<1>1. /\ DOMAIN Regions[c] = 1 .. Len(Regions[c])
      /\ Len(Regions[c]) \in Nat /\ position[c] \in DOMAIN Regions[c]
  BY RegionsAreRegions DEF AwsTypeOK
<1>2. CASE position[c] < Len(Regions[c])
  <2>1. /\ position' = [position EXCEPT ![c] = @ + 1]
        /\ setup' = [setup EXCEPT ![c] = "lambdaExists"]
    BY <1>2 DEF NextRegion, Proceed
  <2>2. position[c] + 1 \in DOMAIN Regions[c] /\ position[c] + 1 \in Nat
    BY <1>1, <1>2
  <2>3. /\ position' \in [Clients -> Nat]
        /\ \A d \in Clients : position'[d] \in DOMAIN Regions[d]
    BY <2>1, <2>2 DEF AwsTypeOK
  <2> QED
    BY <1>2, <2>1, <2>3 DEF AwsTypeOK
<1>3. CASE ~(position[c] < Len(Regions[c]))
  BY <1>1, <1>3 DEF AwsTypeOK, NextRegion, Proceed
<1> QED
  BY <1>2, <1>3

(* Every step on the account keeps the types.                              *)
LEMMA AwsTypeStep ==
  ASSUME StartTypeOK, AwsTypeOK, NEW c \in Clients, AwsStep(c)
  PROVE  StartTypeOK' /\ AwsTypeOK'
<1> USE RegionsAreRegions DEF AwsTypeOK, account, history
<1>1. /\ position[c] \in DOMAIN Regions[c] /\ Region(c) \in AllRegions
      /\ 1 \in DOMAIN Regions[c] /\ Build[c] \in Builds
  BY ProvisionAssumption DEF Region
<1>2. CASE StartAws(c)
  <2>1. StartTypeOK'
    BY <1>2, StartsAreBounded DEF StartAws
  <2> QED
    BY <1>1, <1>2, <2>1 DEF StartAws, Proceed, InSetup
<1>3. CASE UNCHANGED startVars /\ (SetupStep(c) \/ Fails(c))
  <2>1. StartTypeOK'
    BY <1>3 DEF startVars, StartTypeOK
  <2>2. CASE GetRole(c)
    BY <2>1, <2>2 DEF GetRole, Proceed, InSetup
  <2>3. CASE CreateRole(c)
    BY <2>1, <2>3 DEF CreateRole, Proceed, InSetup, Refuse
  <2>4. CASE PutRolePolicy(c)
    BY <2>1, <2>4 DEF PutRolePolicy, Proceed, InSetup
  <2>5. CASE LambdaExists(c)
    BY <2>1, <2>5 DEF LambdaExists, Proceed, InSetup
  <2>6. CASE LambdaUpToDate(c)
    <3>1. CASE function[Region(c)] = Build[c]
      BY <2>1, <2>6, <3>1, NextRegionType DEF LambdaUpToDate, InSetup
    <3> QED
      BY <2>1, <2>6, <3>1 DEF LambdaUpToDate, Proceed, InSetup
  <2>7. CASE CreateFunction(c)
    BY <1>1, <2>1, <2>7, ProvisionAssumption DEF CreateFunction, Proceed, InSetup, Refuse, Install
  <2>8. CASE UpdateFunction(c)
    BY <1>1, <2>1, <2>8, ProvisionAssumption DEF UpdateFunction, Proceed, InSetup, Install
  <2>9. CASE GetAlias(c)
    BY <2>1, <2>9 DEF GetAlias, Proceed, InSetup
  <2>10. CASE CreateAlias(c)
    <3>1. CASE Build[c] \notin alias[Region(c)]
      <4>1. alias' \in [AllRegions -> SUBSET Builds]
        <5>1. alias' = [alias EXCEPT ![Region(c)] = @ \cup {Build[c]}]
          BY <2>10, <3>1 DEF CreateAlias
        <5> QED
          BY <1>1, <5>1
      <4> QED
        BY <2>1, <2>10, <3>1, <4>1, NextRegionType DEF CreateAlias, InSetup
    <3> QED
      BY <2>1, <2>10, <3>1 DEF CreateAlias, Refuse, Proceed, InSetup
  <2>11. CASE UpdateAlias(c)
    BY <2>1, <2>11, NextRegionType DEF UpdateAlias, InSetup
  <2>12. CASE CreateQueue(c)
    BY <2>1, <2>12, ClientAssumption DEF CreateQueue, Proceed, InSetup, StartTypeOK
  <2>13. CASE Fails(c)
    BY <2>1, <2>13 DEF Fails, Proceed, InSetup
  <2> QED
    BY <1>3, <2>2, <2>3, <2>4, <2>5, <2>6, <2>7, <2>8, <2>9, <2>10, <2>11,
       <2>12, <2>13 DEF SetupStep
<1>4. CASE UNCHANGED startVars /\ (InvokeLambda(c) \/ ForkLambda(c) \/ EndTest(c))
  <2>1. StartTypeOK'
    BY <1>4 DEF startVars, StartTypeOK
  <2>2. CASE InvokeLambda(c)
    BY <2>1, <2>2 DEF InvokeLambda, Runner, Calls
  <2>3. CASE ForkLambda(c)
    BY <2>1, <2>3 DEF ForkLambda, Runner, Calls, NoRunner
  <2>4. CASE EndTest(c)
    BY <2>1, <2>4 DEF EndTest, Proceed
  <2> QED
    BY <1>4, <2>2, <2>3, <2>4
<1> QED
  BY <1>2, <1>3, <1>4 DEF AwsStep

(* A setup that fails, or is asked about something, is one that has begun. *)
LEMMA OnAwsStep ==
  ASSUME AwsInv, NEW c \in Clients, AwsStep(c)
  PROVE  OnAws'
<1>1. CASE StartAws(c)
  <2>1. StartOn(c, "aws") /\ setup' = [setup EXCEPT ![c] = "getRole"]
    BY <1>1 DEF StartAws, Proceed
  <2>2. platform[c] = "aws" /\ platform' = platform
    BY Zenon, <2>1 DEF StartOn
  <2> QED
    BY <2>1, <2>2 DEF AwsInv, AwsTypeOK, OnAws
<1>2. CASE UNCHANGED startVars /\ setup[c] # "off"
           /\ \A d \in Clients \ {c} : setup'[d] = setup[d]
  BY <1>2 DEF AwsInv, OnAws, startVars
<1>3. CASE UNCHANGED startVars /\ SetupStep(c)
  BY <1>2, <1>3, NextRegionType
     DEF AwsInv, AwsTypeOK, SetupStep, GetRole, CreateRole, PutRolePolicy,
         LambdaExists, LambdaUpToDate, CreateFunction, UpdateFunction, GetAlias,
         CreateAlias, UpdateAlias, CreateQueue, Proceed, Refuse
<1>4. CASE UNCHANGED startVars
           /\ (Fails(c) \/ InvokeLambda(c) \/ ForkLambda(c) \/ EndTest(c))
  BY <1>2, <1>4
     DEF AwsInv, AwsTypeOK, Fails, InvokeLambda, ForkLambda, EndTest, InSetup,
         Proceed
<1> QED
  BY <1>1, <1>3, <1>4 DEF AwsStep

(* A step of a client is none of another's, which may only be overtaken.   *)
LEMMA OthersStay ==
  ASSUME AwsTypeOK, NEW c \in Clients, AwsStep(c),
         NEW d \in Clients, d # c
  PROVE  /\ setup'[d] = setup[d] /\ position'[d] = position[d]
         /\ called'[d] = called[d] /\ blind'[d] = blind[d]
         /\ refused'[d] = refused[d]
         /\ overtaken[d] => overtaken'[d]
         /\ overlapped[d] => overlapped'[d]
<1> USE DEF AwsTypeOK, account, history, Proceed
<1>1. CASE StartAws(c)
  BY <1>1 DEF StartAws
<1>2. CASE GetRole(c) \/ CreateRole(c) \/ PutRolePolicy(c) \/ LambdaExists(c)
  BY <1>2 DEF GetRole, CreateRole, PutRolePolicy, LambdaExists, Refuse
<1>3. CASE CreateFunction(c) \/ UpdateFunction(c) \/ GetAlias(c)
  BY <1>3 DEF CreateFunction, UpdateFunction, Install, GetAlias, Refuse
<1>4. CASE LambdaUpToDate(c)
  BY <1>4, NextRegionType DEF LambdaUpToDate
<1>5. CASE CreateAlias(c)
  BY <1>5, NextRegionType DEF CreateAlias, Refuse
<1>6. CASE UpdateAlias(c)
  BY <1>6, NextRegionType DEF UpdateAlias
<1>7. CASE CreateQueue(c) \/ Fails(c)
  BY <1>7 DEF CreateQueue, Fails
<1>8. CASE InvokeLambda(c) \/ ForkLambda(c) \/ EndTest(c)
  BY <1>8 DEF InvokeLambda, ForkLambda, EndTest
<1> QED
  BY <1>1, <1>2, <1>3, <1>4, <1>5, <1>6, <1>7, <1>8 DEF AwsStep, SetupStep

(* Nothing is ever removed from the account, and a function is replaced    *)
(* only by a client that overtakes those of other builds.                  *)
LEMMA AccountRemains ==
  ASSUME AwsTypeOK, NEW c \in Clients, AwsStep(c)
  PROVE  /\ role # "absent" => role' # "absent"
         /\ queues \subseteq queues'
         /\ \A r \in AllRegions :
              /\ function[r] # NoCode => function'[r] # NoCode
              /\ \A d \in Clients : function[r] = Build[d] =>
                   function'[r] = Build[d] \/ overtaken'[d]
<1> USE DEF account, history
<1>1. CASE StartAws(c) \/ GetRole(c) \/ LambdaExists(c) \/ GetAlias(c) \/ Fails(c)
  BY <1>1 DEF StartAws, GetRole, LambdaExists, GetAlias, Fails
<1>2. CASE LambdaUpToDate(c) \/ CreateAlias(c) \/ UpdateAlias(c)
  BY <1>2 DEF LambdaUpToDate, CreateAlias, UpdateAlias, Refuse
<1>3. CASE InvokeLambda(c) \/ ForkLambda(c) \/ EndTest(c)
  BY <1>3 DEF InvokeLambda, ForkLambda, EndTest
<1>4. CASE CreateRole(c) \/ PutRolePolicy(c) \/ CreateQueue(c)
  BY <1>4 DEF CreateRole, PutRolePolicy, CreateQueue, Refuse
<1>5. ASSUME Install(c), NEW r \in AllRegions
      PROVE  /\ function[r] # NoCode => function'[r] # NoCode
             /\ \A d \in Clients : function[r] = Build[d] =>
                  function'[r] = Build[d] \/ overtaken'[d]
  <2>1. Build[c] # NoCode
    BY ProvisionAssumption
  <2> QED
    BY <1>5, <2>1 DEF Install, AwsTypeOK
<1>6. CASE CreateFunction(c) \/ UpdateFunction(c)
  BY <1>5, <1>6 DEF CreateFunction, UpdateFunction, Refuse
<1> QED
  BY <1>1, <1>2, <1>3, <1>4, <1>6 DEF AwsStep, SetupStep

(* What a client comes to rely on in a step, it has installed or found.    *)
LEMMA ServedStep ==
  ASSUME AwsTypeOK, FirstRegionFirst, NEW c \in Clients, AwsStep(c), NEW k \in Served(c)'
  PROVE  k \in DOMAIN Regions[c]
         /\ (k \in Served(c) \/ function'[Regions[c][k]] = Build[c])
<1> USE DEF AwsTypeOK, Served, BeforeRole, PastRole, PastRegions, PastInstall,
            InSetup
<1>1. /\ DOMAIN Regions[c] = 1 .. Len(Regions[c]) /\ Len(Regions[c]) \in Nat
      /\ position[c] \in DOMAIN Regions[c] /\ Region(c) \in AllRegions
  BY RegionsAreRegions DEF Region
<1>2. CASE StartAws(c)
  BY <1>2 DEF StartAws, Proceed
<1>3. CASE GetRole(c) \/ CreateRole(c) \/ PutRolePolicy(c) \/ LambdaExists(c)
  BY <1>1, <1>3
     DEF FirstRegionFirst, GetRole, CreateRole, PutRolePolicy, LambdaExists,
         Proceed, Refuse
<1>4. CASE CreateFunction(c) \/ UpdateFunction(c) \/ GetAlias(c)
  BY <1>1, <1>4
     DEF CreateFunction, UpdateFunction, Install, GetAlias, Proceed, Refuse, Region
<1>5. CASE LambdaUpToDate(c) /\ NextRegion(c)
  BY <1>1, <1>5, NextRegionType DEF LambdaUpToDate, Region, account, Proceed
<1>6. CASE LambdaUpToDate(c) /\ ~NextRegion(c)
  BY <1>1, <1>6 DEF LambdaUpToDate, Proceed
<1>7. CASE CreateAlias(c) /\ NextRegion(c)
  BY <1>1, <1>7, NextRegionType DEF CreateAlias
<1>8. CASE CreateAlias(c) /\ ~NextRegion(c)
  BY <1>1, <1>8 DEF CreateAlias, Refuse, Proceed
<1>9. CASE UpdateAlias(c)
  BY <1>1, <1>9, NextRegionType DEF UpdateAlias
<1>10. CASE CreateQueue(c) \/ Fails(c)
  BY <1>1, <1>10 DEF CreateQueue, Fails, Proceed
<1>11. CASE InvokeLambda(c) \/ ForkLambda(c) \/ EndTest(c)
  BY <1>1, <1>11 DEF InvokeLambda, ForkLambda, EndTest, Proceed
<1> QED
  BY <1>2, <1>3, <1>4, <1>5, <1>6, <1>7, <1>8, <1>9, <1>10, <1>11
     DEF AwsStep, SetupStep

(* A setup begins with the role, at the first region.                      *)
LEMMA FirstRegionStep ==
  ASSUME AwsTypeOK, FirstRegionFirst, NEW c \in Clients, AwsStep(c)
  PROVE  FirstRegionFirst'
<1> USE DEF AwsTypeOK, FirstRegionFirst, BeforeRole, Proceed
<1>1. CASE StartAws(c)
  BY <1>1 DEF StartAws
<1>2. CASE GetRole(c) \/ CreateRole(c) \/ PutRolePolicy(c) \/ LambdaExists(c)
  BY <1>2 DEF GetRole, CreateRole, PutRolePolicy, LambdaExists, Refuse
<1>3. CASE CreateFunction(c) \/ UpdateFunction(c) \/ GetAlias(c)
  BY <1>3 DEF CreateFunction, UpdateFunction, GetAlias, Refuse
<1>4. CASE LambdaUpToDate(c) /\ ~NextRegion(c)
  BY <1>4 DEF LambdaUpToDate
<1>5. CASE NextRegion(c)
  BY <1>5, NextRegionType
<1>6. CASE CreateAlias(c) /\ ~NextRegion(c)
  BY <1>6 DEF CreateAlias, Refuse
<1>7. CASE CreateQueue(c) \/ Fails(c)
  BY <1>7 DEF CreateQueue, Fails
<1>8. CASE InvokeLambda(c) \/ ForkLambda(c) \/ EndTest(c)
  BY <1>8 DEF InvokeLambda, ForkLambda, EndTest
<1>9. UpdateAlias(c) => NextRegion(c)
  BY DEF UpdateAlias
<1> QED
  BY <1>1, <1>2, <1>3, <1>4, <1>5, <1>6, <1>7, <1>8, <1>9 DEF AwsStep, SetupStep

(* The policy is put by the creator of the role, or never.                 *)
LEMMA PolicyStep ==
  ASSUME AwsTypeOK, OnePolicyMaker, PolicyGapIsForGood,
         NEW c \in Clients, AwsStep(c)
  PROVE  OnePolicyMaker' /\ PolicyGapIsForGood'
<1> USE DEF AwsTypeOK, OnePolicyMaker, PolicyGapIsForGood, account, history
<1>1. ASSUME UNCHANGED <<role, policy, givenUp>>,
             setup[c] # "putPolicy", setup'[c] # "putPolicy"
      PROVE  OnePolicyMaker' /\ PolicyGapIsForGood'
  BY <1>1, OthersStay
<1>2. CASE CreateRole(c)
  BY <1>2, OthersStay DEF CreateRole, Refuse, Proceed
<1>3. CASE PutRolePolicy(c)
  BY <1>3, OthersStay DEF PutRolePolicy, Proceed
<1>4. CASE Fails(c)
  <2>1. /\ UNCHANGED <<role, policy>> /\ setup'[c] = "failed"
        /\ givenUp' = (givenUp \/ setup[c] = "putPolicy")
    BY <1>4 DEF Fails, Proceed
  <2>2. CASE setup[c] = "putPolicy"
    <3>1. givenUp' = TRUE
      BY <2>1, <2>2
    <3>2. role' # "absent" /\ ~policy'
      BY <2>1, <2>2
    <3>3. \A d \in Clients : setup'[d] # "putPolicy"
      BY <2>1, <2>2, OthersStay
    <3> QED
      BY <3>1, <3>2, <3>3
  <2>3. CASE setup[c] # "putPolicy"
    <3>1. givenUp' = givenUp
      BY <2>1, <2>3
    <3> QED
      BY <1>1, <2>1, <2>3, <3>1
  <2> QED
    BY <2>2, <2>3
<1>5. CASE StartAws(c) \/ GetRole(c) \/ LambdaExists(c)
  BY <1>1, <1>5 DEF StartAws, GetRole, LambdaExists, Proceed
<1>6. CASE CreateFunction(c) \/ UpdateFunction(c) \/ GetAlias(c)
  BY <1>1, <1>6 DEF CreateFunction, UpdateFunction, GetAlias, Refuse, Proceed
<1>7. CASE LambdaUpToDate(c) \/ CreateAlias(c) \/ UpdateAlias(c)
  BY <1>1, <1>7, NextRegionType
     DEF LambdaUpToDate, CreateAlias, UpdateAlias, Refuse, Proceed
<1>8. CASE CreateQueue(c) \/ InvokeLambda(c) \/ ForkLambda(c) \/ EndTest(c)
  BY <1>1, <1>8 DEF CreateQueue, InvokeLambda, ForkLambda, EndTest, Proceed
<1> QED
  BY <1>2, <1>3, <1>4, <1>5, <1>6, <1>7, <1>8 DEF AwsStep, SetupStep

(* Who overtakes another one knows it; a setup that starts serves nothing. *)
LEMMA OvertakenStays ==
  ASSUME AwsTypeOK, NEW c \in Clients, AwsStep(c), Served(c)' # {}
  PROVE  overtaken[c] => overtaken'[c]
<1> USE DEF AwsTypeOK, account, history
<1>1. ~StartAws(c)
  BY DEF Served, PastRole, BeforeRole, PastRegions, PastInstall, StartAws, Proceed
<1>2. CASE GetRole(c) \/ CreateRole(c) \/ PutRolePolicy(c) \/ LambdaExists(c)
  BY <1>2 DEF GetRole, CreateRole, PutRolePolicy, LambdaExists, Refuse
<1>3. CASE CreateFunction(c) \/ UpdateFunction(c) \/ GetAlias(c)
  BY <1>3 DEF CreateFunction, UpdateFunction, Install, GetAlias, Refuse
<1>4. CASE LambdaUpToDate(c) \/ CreateAlias(c) \/ UpdateAlias(c)
  BY <1>4 DEF LambdaUpToDate, CreateAlias, UpdateAlias, Refuse
<1>5. CASE CreateQueue(c) \/ Fails(c)
  BY <1>5 DEF CreateQueue, Fails
<1>6. CASE InvokeLambda(c) \/ ForkLambda(c) \/ EndTest(c)
  BY <1>6 DEF InvokeLambda, ForkLambda, EndTest
<1> QED
  BY <1>1, <1>2, <1>3, <1>4, <1>5, <1>6 DEF AwsStep, SetupStep

(* What a client serves stays, since nothing is removed.                   *)
LEMMA FunctionsStep ==
  ASSUME AwsTypeOK, FirstRegionFirst, OwnFunctions,
         \A d \in Clients : \A k \in Served(d) : function[Regions[d][k]] # NoCode,
         NEW c \in Clients, AwsStep(c),
         NEW d \in Clients, NEW k \in Served(d)'
  PROVE  /\ function'[Regions[d][k]] # NoCode
         /\ ~overtaken'[d] => function'[Regions[d][k]] = Build[d]
<1>1. Build[d] # NoCode
  BY ProvisionAssumption
<1>2. k \in DOMAIN Regions[d]
  BY DEF Served
<1>3. Regions[d][k] \in AllRegions
  BY <1>2, RegionsAreRegions
<1>4. k \in Served(d) \/ function'[Regions[d][k]] = Build[d]
  BY ServedStep, OthersStay DEF Served
<1>5. overtaken[d] => overtaken'[d]
  BY OvertakenStays, OthersStay
<1> QED
  BY <1>1, <1>3, <1>4, <1>5, AccountRemains DEF OwnFunctions

(* The role stays, and so does the queue of the program under way.         *)
LEMMA WorkStep ==
  ASSUME StartTypeOK, AwsTypeOK, FirstRegionFirst, OnAws, WorkRemains, OwnFunctions,
         NEW c \in Clients, AwsStep(c)
  PROVE  WorkRemains' /\ OwnFunctions'
<1>1. \A d \in Clients : \A k \in Served(d)' :
        /\ function'[Regions[d][k]] # NoCode
        /\ ~overtaken'[d] => function'[Regions[d][k]] = Build[d]
  BY FunctionsStep DEF WorkRemains
<1>2. ASSUME NEW d \in Clients, setup'[d] \in PastRole \cup {"putPolicy"}
      PROVE  role' # "absent"
  <2>1. CASE setup[d] \in PastRole \cup {"putPolicy"}
    BY <2>1, AccountRemains DEF WorkRemains
  <2>2. CASE d = c /\ setup[c] \notin PastRole \cup {"putPolicy"}
    BY <1>2, <2>2
       DEF AwsTypeOK, PastRole, BeforeRole, InSetup, Proceed, AwsStep, SetupStep,
           StartAws, GetRole, CreateRole, PutRolePolicy, LambdaExists,
           LambdaUpToDate, CreateFunction, UpdateFunction, GetAlias,
           CreateAlias, UpdateAlias, CreateQueue, Fails, InvokeLambda,
           ForkLambda, EndTest, Refuse, account
  <2> QED
    BY <1>2, <2>1, <2>2, OthersStay
<1>3. ASSUME NEW d \in Clients, setup'[d] = "testing"
      PROVE  <<d, starts'[d]>> \in queues'
  <2>1. CASE setup[d] = "testing"
    <3>1. starts'[d] = starts[d]
      BY <2>1 DEF AwsStep, startVars, StartAws, StartOn, StartTypeOK
    <3> QED
      BY <2>1, <3>1, AccountRemains DEF WorkRemains
  <2>2. CASE CreateQueue(c) /\ UNCHANGED startVars /\ d = c
    BY <2>2 DEF CreateQueue, startVars
  <2>3. ASSUME setup[d] # "testing"
        PROVE  CreateQueue(c) /\ UNCHANGED startVars /\ d = c
    <3>1. d = c
      BY <1>3, <2>3, OthersStay
    <3> QED
      BY <1>3, <2>3, <3>1, NextRegionType
         DEF AwsTypeOK, AwsStep, SetupStep, StartAws, GetRole, CreateRole,
             PutRolePolicy, LambdaExists, LambdaUpToDate, CreateFunction,
             UpdateFunction, GetAlias, CreateAlias, UpdateAlias, Fails,
             InvokeLambda, ForkLambda, EndTest, Refuse, Proceed, account
  <2> QED
    BY <2>1, <2>2, <2>3
<1> QED
  BY <1>1, <1>2, <1>3 DEF WorkRemains, OwnFunctions

(* Runners are called by a client whose setup is done.                     *)
LEMMA CallsStep ==
  ASSUME AwsTypeOK, WorkRemains, OwnFunctions, CallsAreAnswered,
         OwnBuildUnlessOvertaken, NEW c \in Clients, AwsStep(c)
  PROVE  CallsAreAnswered' /\ OwnBuildUnlessOvertaken'
<1> USE DEF CallsAreAnswered, OwnBuildUnlessOvertaken
<1>1. ASSUME UNCHANGED called, setup'[c] = setup[c] \/ called[c] = NoRunner,
             overtaken[c] => overtaken'[c] \/ called[c] = NoRunner
      PROVE  CallsAreAnswered' /\ OwnBuildUnlessOvertaken'
  BY <1>1, OthersStay
<1>2. ASSUME called' = [called EXCEPT ![c] = NoRunner]
      PROVE  CallsAreAnswered' /\ OwnBuildUnlessOvertaken'
  BY <1>2, OthersStay DEF AwsTypeOK
<1>3. ASSUME setup[c] = "testing", NEW told \in DOMAIN Regions[c],
             NEW in \in DOMAIN Regions[c], UNCHANGED <<account, setup, history>>,
             called' = [called EXCEPT ![c] = Runner(Regions[c][told], Regions[c][in])]
      PROVE  CallsAreAnswered' /\ OwnBuildUnlessOvertaken'
  <2>1. /\ Regions[c][in] \in AllRegions
        /\ called'[c] = Runner(Regions[c][told], Regions[c][in])
        /\ \A d \in Clients : d # c => called'[d] = called[d]
    BY <1>3, RegionsAreRegions DEF AwsTypeOK
  <2>2. /\ function[Regions[c][in]] # NoCode
        /\ ~overtaken[c] => function[Regions[c][in]] = Build[c]
    <3>1. in \in Served(c)
      BY <1>3 DEF Served, PastRegions
    <3> QED
      BY <3>1 DEF WorkRemains, OwnFunctions
  <2>3. /\ called'[c].build = function[Regions[c][in]]
        /\ called'[c].told = Regions[c][told]
    BY <2>1 DEF Runner
  <2>4. function[Regions[c][in]] \in Builds
    BY <2>1, <2>2 DEF AwsTypeOK
  <2>5. /\ setup' = setup /\ overtaken' = overtaken
    BY <1>3 DEF history
  <2>6. CallsAreAnswered'
    BY <1>3, <2>1, <2>3, <2>4, <2>5, <2>2
  <2>7. OwnBuildUnlessOvertaken'
    BY <2>1, <2>2, <2>3, <2>5, <2>2
  <2> QED
    BY <2>6, <2>7
<1>4. CASE InvokeLambda(c)
  <2>1. 1 \in DOMAIN Regions[c]
    BY RegionsAreRegions
  <2> QED
    BY <1>3, <1>4, <2>1 DEF InvokeLambda
<1>5. CASE ForkLambda(c)
  BY <1>3, <1>5 DEF ForkLambda
<1>6. CASE Fails(c) \/ EndTest(c)
  BY <1>2, <1>6 DEF Fails, EndTest
<1>7. setup[c] # "testing" => called[c] = NoRunner
  OBVIOUS
<1>8. CASE StartAws(c) \/ SetupStep(c)
  BY <1>1, <1>7, <1>8
     DEF StartAws, SetupStep, GetRole, CreateRole, PutRolePolicy, LambdaExists,
         LambdaUpToDate, CreateFunction, UpdateFunction, GetAlias, CreateAlias,
         UpdateAlias, CreateQueue, Refuse, history, InSetup
<1> QED
  BY <1>4, <1>5, <1>6, <1>8 DEF AwsStep

(* Only a client that knows of another one is refused what it asks for.    *)
LEMMA RefusedStep ==
  ASSUME AwsTypeOK, SeenIsTrue, RefusedOnlyByRace, NEW c \in Clients, AwsStep(c)
  PROVE  RefusedOnlyByRace'
<1> USE DEF AwsTypeOK, RefusedOnlyByRace, SeenIsTrue
<1>1. ASSUME refused'[c] = "nothing" PROVE RefusedOnlyByRace'
  BY <1>1, OthersStay
<1>2. ASSUME UNCHANGED <<refused, overlapped>>, blind[c] => blind'[c]
      PROVE  RefusedOnlyByRace'
  BY <1>2, OthersStay
<1>3. ASSUME NEW what, refused' = [refused EXCEPT ![c] = what],
             UNCHANGED <<overlapped, blind>>,
             overlapped[c] \/ (what = "alias" /\ blind[c])
      PROVE  RefusedOnlyByRace'
  BY <1>3, OthersStay
<1>4. CASE StartAws(c)
  BY <1>1, <1>4 DEF StartAws
<1>5. CASE CreateRole(c)
  BY <1>2, <1>3, <1>5 DEF CreateRole, Refuse, history
<1>6. CASE CreateFunction(c)
  BY <1>2, <1>3, <1>6 DEF CreateFunction, Refuse, history
<1>7. CASE CreateAlias(c)
  BY <1>2, <1>3, <1>7 DEF CreateAlias, Refuse, history
<1>8. CASE GetRole(c) \/ PutRolePolicy(c) \/ LambdaExists(c) \/ GetAlias(c)
  BY <1>2, <1>8 DEF GetRole, PutRolePolicy, LambdaExists, GetAlias, history
<1>9. CASE LambdaUpToDate(c) \/ UpdateFunction(c) \/ UpdateAlias(c)
  BY <1>2, <1>9 DEF LambdaUpToDate, UpdateFunction, UpdateAlias, history
<1>10. CASE CreateQueue(c) \/ Fails(c) \/ InvokeLambda(c) \/ ForkLambda(c)
            \/ EndTest(c)
  BY <1>2, <1>10 DEF CreateQueue, Fails, InvokeLambda, ForkLambda, EndTest, history
<1> QED
  BY <1>4, <1>5, <1>6, <1>7, <1>8, <1>9, <1>10 DEF AwsStep, SetupStep

(* Setups that are under way at the same time know it.                     *)
LEMMA SeenStep ==
  ASSUME AwsTypeOK, SeenIsTrue, NEW c \in Clients, AwsStep(c)
  PROVE  SeenIsTrue'
<1> USE DEF AwsTypeOK, account, history, Proceed
<1>1. CASE StartAws(c)
  <2>1. /\ setup[c] \notin InSetup /\ setup'[c] = "getRole"
        /\ overlapped'[c] <=> \E d \in Clients \ {c} : setup[d] \in InSetup
        /\ \A d \in Clients \ {c} : overlapped'[d] <=>
             overlapped[d] \/ setup[d] \in InSetup
    BY <1>1 DEF StartAws, InSetup
  <2>2. "getRole" \in InSetup
    BY DEF InSetup
  <2>3. ASSUME NEW d \in Clients, setup'[d] \in InSetup,
               NEW e \in Clients \ {d}, setup'[e] \in InSetup
        PROVE  overlapped'[d]
    BY <2>1, <2>2, <2>3, OthersStay DEF SeenIsTrue
  <2>4. ASSUME NEW d \in Clients, ~overlapped'[d]
        PROVE  setup'[d] \notin {"createRole", "createFunction", "createAlias"}
    BY <2>1, <2>4, OthersStay DEF InSetup
  <2> QED
    BY <2>3, <2>4 DEF SeenIsTrue
<1>2. ASSUME ~StartAws(c)
      PROVE  /\ overlapped' = overlapped
             /\ setup'[c] \in InSetup => setup[c] \in InSetup
  BY <1>2, NextRegionType
     DEF AwsStep, SetupStep, GetRole, CreateRole, PutRolePolicy, LambdaExists,
         LambdaUpToDate, CreateFunction, UpdateFunction, GetAlias, CreateAlias,
         UpdateAlias, CreateQueue, Fails, InvokeLambda, ForkLambda, EndTest,
         Refuse, InSetup
<1>3. ASSUME ~StartAws(c)
      PROVE  \A d \in Clients : setup'[d] \in InSetup =>
               \A e \in Clients \ {d} : setup'[e] \in InSetup => overlapped'[d]
  BY <1>2, <1>3, OthersStay DEF SeenIsTrue
<1>4. CASE setup[c] \in InSetup /\ ~StartAws(c)
  <2>1. ASSUME NEW d \in Clients, d # c, ~overlapped'[d]
        PROVE  setup'[d] \notin InSetup
    BY <1>2, <1>4, <2>1, OthersStay DEF SeenIsTrue
  <2>2. /\ setup'[c] = "createRole" => role' = "absent"
        /\ setup'[c] = "createFunction" => function'[Region(c)'] = NoCode
        /\ setup'[c] = "createAlias" =>
             Build[c] \notin alias'[Region(c)'] \/ blind'[c]
    BY <1>4, NextRegionType
       DEF AwsStep, SetupStep, GetRole, CreateRole, PutRolePolicy, LambdaExists,
           LambdaUpToDate, CreateFunction, UpdateFunction, GetAlias, CreateAlias,
           UpdateAlias, CreateQueue, Fails, InvokeLambda, ForkLambda, EndTest,
           Refuse, InSetup, Region
  <2> QED
    BY <1>3, <1>4, <2>1, <2>2 DEF SeenIsTrue, InSetup
<1>5. CASE setup[c] \notin InSetup /\ ~StartAws(c)
  <2>1. /\ UNCHANGED <<account, position>> /\ setup'[c] \notin InSetup
    BY <1>2, <1>5
       DEF AwsStep, SetupStep, GetRole, CreateRole, PutRolePolicy, LambdaExists,
           LambdaUpToDate, CreateFunction, UpdateFunction, GetAlias, CreateAlias,
           UpdateAlias, CreateQueue, Fails, InvokeLambda, ForkLambda, EndTest,
           InSetup
  <2> QED
    BY <1>2, <1>3, <1>5, <2>1, OthersStay DEF SeenIsTrue, Region, InSetup
<1> QED
  BY <1>1, <1>4, <1>5

-----------------------------------------------------------------------------
(* An account that was used before, or never, is a good one to start with. *)
LEMMA AwsInitially ==
  ASSUME StartInit, AwsInit
  PROVE  AwsInv
<1>1. StartTypeOK
  BY ClientAssumption DEF StartInit, StartTypeOK
<1>2. AwsTypeOK
  <2>1. \A c \in Clients : 1 \in DOMAIN Regions[c]
    BY RegionsAreRegions
  <2>2. alias \in [AllRegions -> SUBSET Builds]
    BY DEF AwsInit
  <2> QED
    BY <2>1, <2>2 DEF AwsInit, AwsTypeOK
<1>3. \A c \in Clients : setup[c] = "off" /\ Served(c) = {}
  BY DEF AwsInit, Served, PastRole, PastRegions, PastInstall, BeforeRole, InSetup
<1>4. PolicyGapIsForGood /\ OnePolicyMaker
  BY <1>3 DEF AwsInit, PolicyGapIsForGood, OnePolicyMaker
<1>5. WorkRemains /\ OwnFunctions
  BY <1>3 DEF WorkRemains, OwnFunctions, PastRole, BeforeRole, InSetup
<1>6. CallsAreAnswered /\ OwnBuildUnlessOvertaken /\ RefusedOnlyByRace
  BY DEF AwsInit, CallsAreAnswered, OwnBuildUnlessOvertaken, RefusedOnlyByRace
<1> QED
  BY <1>1, <1>2, <1>3, <1>4, <1>5, <1>6
     DEF AwsInv, OnAws, FirstRegionFirst, SeenIsTrue, BeforeRole, InSetup

(* A step of a client on AWS.                                              *)
LEMMA AwsInvStep ==
  ASSUME AwsInv, NEW c \in Clients, AwsStep(c)
  PROVE  AwsInv'
BY AwsTypeStep, OnAwsStep, FirstRegionStep, PolicyStep, WorkStep, CallsStep,
   SeenStep, RefusedStep DEF AwsInv

(* A client on docker may start beside them.                               *)
LEMMA AwsInvElsewhere ==
  ASSUME AwsInv, UNCHANGED awsVars,
         UNCHANGED startVars \/ \E c \in Clients : StartOn(c, "docker")
  PROVE  AwsInv'
<1> USE DEF awsVars
<1>1. StartTypeOK' /\ platform' = platform
  BY StartsAreBounded DEF AwsInv, StartTypeOK, startVars, StartOn
<1>2. \A c \in Clients : platform[c] = "aws" => starts'[c] = starts[c]
  BY DEF AwsInv, StartTypeOK, startVars, StartOn
<1>3. AwsTypeOK' /\ OnAws' /\ FirstRegionFirst'
  BY <1>1 DEF AwsInv, AwsTypeOK, OnAws, FirstRegionFirst
<1>4. OnePolicyMaker' /\ PolicyGapIsForGood'
  BY DEF AwsInv, OnePolicyMaker, PolicyGapIsForGood
<1>5. OwnFunctions' /\ CallsAreAnswered' /\ OwnBuildUnlessOvertaken'
  BY DEF AwsInv, OwnFunctions, Served, CallsAreAnswered, OwnBuildUnlessOvertaken
<1>6. SeenIsTrue' /\ RefusedOnlyByRace'
  BY DEF AwsInv, SeenIsTrue, RefusedOnlyByRace, Region
<1>7. WorkRemains'
  BY <1>2 DEF AwsInv, OnAws, WorkRemains, Served
<1> QED
  BY <1>1, <1>3, <1>4, <1>5, <1>6, <1>7 DEF AwsInv

(* The inductive invariant holds in every state of clients that share an   *)
(* account, beside any number of clients that share a machine.             *)
THEOREM AwsInvariant == Spec => []AwsInv
<1>1. Init => AwsInv
  BY AwsInitially DEF Init
<1>2. AwsInv /\ [Next]_vars => AwsInv'
  <2> SUFFICES ASSUME AwsInv, [Next]_vars PROVE AwsInv'
    OBVIOUS
  <2>1. CASE AwsNext /\ UNCHANGED dockerVars
    BY <2>1, AwsInvStep DEF AwsNext
  <2>2. CASE DockerNext /\ UNCHANGED awsVars
    BY <2>2, AwsInvElsewhere DEF DockerNext, DockerStep, StartDocker
  <2>3. CASE UNCHANGED vars
    BY <2>3, AwsInvElsewhere DEF vars
  <2> QED
    BY <2>1, <2>2, <2>3 DEF Next
<1> QED
  BY <1>1, <1>2, PTL DEF Spec

(* A Setup that returns has got all a test needs, whatever other clients   *)
(* did meanwhile.                                                          *)
THEOREM SetupDelivers == Spec => []ReadyIsProvisioned
<1>1. AwsInv => ReadyIsProvisioned
  <2> SUFFICES ASSUME AwsInv, NEW c \in Clients, setup[c] = "testing"
               PROVE  /\ role # "absent" /\ <<c, starts[c]>> \in queues
                      /\ \A k \in DOMAIN Regions[c] :
                           function[Regions[c][k]] # NoCode
                      /\ called[c] # NoRunner => called[c].build # NoCode
    BY Zenon DEF ReadyIsProvisioned
  <2>1. DOMAIN Regions[c] = Served(c) /\ setup[c] \in PastRole
    BY DEF Served, PastRegions, PastRole
  <2> QED
    BY <2>1, ProvisionAssumption DEF AwsInv, WorkRemains, CallsAreAnswered
<1> QED
  BY <1>1, AwsInvariant, PTL

(* A role without its policy is one whose creator is about to put it, or   *)
(* has given up for good.                                                  *)
THEOREM PolicyGapsRemain == Spec => []PolicyGapIsForGood
<1>1. AwsInv => PolicyGapIsForGood
  BY DEF AwsInv
<1> QED
  BY <1>1, AwsInvariant, PTL

(* All runners of a test are of the client's build, unless it was          *)
(* overtaken by one of another build.                                      *)
THEOREM RunnersAreOfOwnBuild == Spec => []OwnBuildUnlessOvertaken
<1>1. AwsInv => OwnBuildUnlessOvertaken
  BY DEF AwsInv
<1> QED
  BY <1>1, AwsInvariant, PTL

(* What earlier clients left, wherever they stopped, is never in the way.  *)
THEOREM LeftoversAreHarmless == Spec => []RefusedOnlyByRace
<1>1. AwsInv => RefusedOnlyByRace
  BY DEF AwsInv
<1> QED
  BY <1>1, AwsInvariant, PTL
=============================================================================
