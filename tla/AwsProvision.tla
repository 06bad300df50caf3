---------------------------- MODULE AwsProvision ----------------------------
(***************************************************************************)
(* AwsInfrastructure.Setup() of infrastructure/aws/aws.go: the IAM role    *)
(* and its policy, the function "goad" of every region with an alias, and  *)
(* a queue for the test; then the calls that run the function.             *)
(*                                                                         *)
(* The account is shared.  Everything but the queue is looked up before it *)
(* is created, one call after the other, so a client may meet another one  *)
(* between any two calls, and a call that fails, or a client that is       *)
(* killed, leaves what was done before.  Calls of the AWS SDK are atomic   *)
(* here; one whose answer is lost is one that worked, followed by Fails.   *)
(***************************************************************************)
EXTENDS Start

CONSTANTS
  Builds,     \* versions of goad: the runner's zip and the name of its alias
  Build,      \* the build of each client
  Regions,    \* config.Regions of each client
  NoCode      \* a region that has no function "goad"

NoRunner == [none |-> TRUE]

AllRegions == UNION {{Regions[c][k] : k \in DOMAIN Regions[c]} : c \in Clients}

ASSUME ProvisionAssumption ==
  /\ Build \in [Clients -> Builds]
  /\ NoCode \notin Builds
  /\ \A c \in Clients : Regions[c] \in Seq(AllRegions) /\ Regions[c] # <<>>

VARIABLES
  role,        \* goad-lambda-role: absent, outdated (see roleDate), current
  policy,      \* does the role have its policy?
  function,    \* build of the function "goad", by region
  alias,       \* builds whose alias exists, by region
  queues,      \* queues of the account: client and number of its program
  setup,       \* where each client is
  position,    \* its place in config.Regions
  called,      \* the runner called last: region told, region run in, build
  overlapped,  \* history: another Setup was under way during it
  overtaken,   \* history: another build was installed since the start
  blind,       \* history: GetAlias failed though there was an alias
  refused,     \* history: what could not be created since it existed
  givenUp      \* history: the creator of the role did not put its policy

awsVars == <<role, policy, function, alias, queues, setup, position, called,
             overlapped, overtaken, blind, refused, givenUp>>

account == <<role, policy, function, alias, queues>>
history == <<overlapped, overtaken, blind, refused, givenUp>>

-----------------------------------------------------------------------------
InSetup ==
  {"getRole", "createRole", "putPolicy", "lambdaExists", "lambdaUpToDate",
   "createFunction", "updateFunction", "getAlias", "createAlias",
   "updateAlias", "createQueue"}

Region(c) == Regions[c][position[c]]

Proceed(c, step) == setup' = [setup EXCEPT ![c] = step]

NextRegion_OnlyFirst(c) ==
  /\ Proceed(c, "createQueue")
  /\ UNCHANGED position

NextRegion_TooFar(c) ==
  IF position[c] <= Len(Regions[c])
  THEN /\ Proceed(c, "lambdaExists")
       /\ position' = [position EXCEPT ![c] = @ + 1]
  ELSE /\ Proceed(c, "createQueue")
       /\ UNCHANGED position

NextRegion_NeverDone(c) ==
  /\ Proceed(c, "lambdaExists")
  /\ position' = [position EXCEPT ![c] = (@ % Len(Regions[c])) + 1]

(* The next region of Setup's loop, or the queue.                          *)
NextRegion(c) ==
  IF position[c] < Len(Regions[c])
  THEN /\ Proceed(c, "lambdaExists")
       /\ position' = [position EXCEPT ![c] = @ + 1]
  ELSE /\ Proceed(c, "createQueue")
       /\ UNCHANGED position

(* The account may have been used before, by any build.                    *)
AwsInit ==
  /\ \/ role = "absent" /\ policy = FALSE
     \/ role \in {"outdated", "current"} /\ policy = TRUE
  /\ function \in [AllRegions -> Builds \cup {NoCode}]
  /\ alias = [r \in AllRegions |-> {function[r]} \ {NoCode}]
  /\ queues = {}
  /\ setup = [c \in Clients |-> "off"]
  /\ position = [c \in Clients |-> 1]
  /\ called = [c \in Clients |-> NoRunner]
  /\ overlapped = [c \in Clients |-> FALSE]
  /\ overtaken = [c \in Clients |-> FALSE]
  /\ blind = [c \in Clients |-> FALSE]
  /\ refused = [c \in Clients |-> "nothing"]
  /\ givenUp = FALSE

(* A client starts, with whoever is in Setup at that time.                 *)
StartAws(c) ==
  LET others == {d \in Clients \ {c} : setup[d] \in InSetup} IN
  /\ setup[c] \in {"off", "failed", "quit", "over"}
  /\ StartOn(c, "aws")
  /\ Proceed(c, "getRole")
  /\ position' = [position EXCEPT ![c] = 1]
  /\ overlapped' = [d \in Clients |-> IF d = c THEN others # {}
                                      ELSE overlapped[d] \/ d \in others]
  /\ overtaken' = [overtaken EXCEPT ![c] = FALSE]
  /\ blind' = [blind EXCEPT ![c] = FALSE]
  /\ refused' = [refused EXCEPT ![c] = "nothing"]
  /\ UNCHANGED <<account, called, givenUp>>

(* The call asks for something to be created that exists already.          *)
Refuse(c, what) ==
  /\ Proceed(c, "failed")
  /\ refused' = [refused EXCEPT ![c] = what]
  /\ UNCHANGED <<account, position, called, overlapped, overtaken, blind,
                 givenUp>>

-----------------------------------------------------------------------------
(* createIAMLambdaRole(): a role that exists is used as it is.  Of an      *)
(* outdated one the user is asked whether to go on; "no" ends the program. *)
GetRole(c) ==
  /\ setup[c] = "getRole"
  /\ \/ role = "absent" /\ Proceed(c, "createRole")
     \/ role # "absent" /\ Proceed(c, "lambdaExists")
     \/ role = "outdated" /\ Proceed(c, "quit")
  /\ UNCHANGED <<account, position, called, history>>

CreateRole_WithoutPolicy(c) ==
  /\ setup[c] = "createRole"
  /\ \/ /\ role = "absent"
        /\ role' = "current"
        /\ Proceed(c, "lambdaExists")
        /\ UNCHANGED <<policy, function, alias, queues, position, called,
                       history>>
     \/ role # "absent" /\ Refuse(c, "role")

CreateRole(c) ==
  /\ setup[c] = "createRole"
  /\ \/ /\ role = "absent"
        /\ role' = "current"
        /\ Proceed(c, "putPolicy")
        /\ UNCHANGED <<policy, function, alias, queues, position, called,
                       history>>
     \/ role # "absent" /\ Refuse(c, "role")

(* createIAMLambdaRolePolicy()                                             *)
PutRolePolicy(c) ==
  /\ setup[c] = "putPolicy"
  /\ policy' = TRUE
  /\ Proceed(c, "lambdaExists")
  /\ UNCHANGED <<role, function, alias, queues, position, called, history>>

LambdaExists_AlwaysCreates(c) ==
  /\ setup[c] = "lambdaExists"
  /\ Proceed(c, "createFunction")
  /\ UNCHANGED <<account, position, called, history>>

(* createOrUpdateLambdaFunction(): the function is looked up ...           *)
LambdaExists(c) ==
  /\ setup[c] = "lambdaExists"
  /\ Proceed(c, IF function[Region(c)] = NoCode THEN "createFunction"
                                             ELSE "lambdaUpToDate")
  /\ UNCHANGED <<account, position, called, history>>

LambdaUpToDate_AnyBuild(c) ==
  /\ setup[c] = "lambdaUpToDate"
  /\ NextRegion(c)
  /\ UNCHANGED <<account, called, history>>

(* ... and left as it is, alias or not, when its hash is that of the zip.  *)
LambdaUpToDate(c) ==
  /\ setup[c] = "lambdaUpToDate"
  /\ IF function[Region(c)] = Build[c]
     THEN NextRegion(c)
     ELSE Proceed(c, "updateFunction") /\ UNCHANGED position
  /\ UNCHANGED <<account, called, history>>

(* The zip of client c becomes the function of the region.                 *)
Install(c) ==
  /\ function' = [function EXCEPT ![Region(c)] = Build[c]]
  /\ overtaken' = [d \in Clients |-> overtaken[d] \/ Build[d] # Build[c]]

CreateFunction(c) ==
  /\ setup[c] = "createFunction"
  /\ \/ /\ function[Region(c)] = NoCode
        /\ Install(c)
        /\ Proceed(c, "getAlias")
        /\ UNCHANGED <<role, policy, alias, queues, position, called,
                       overlapped, blind, refused, givenUp>>
     \/ function[Region(c)] # NoCode /\ Refuse(c, "function")

UpdateFunction(c) ==
  /\ setup[c] = "updateFunction"
  /\ Install(c)
  /\ Proceed(c, "getAlias")
  /\ UNCHANGED <<role, policy, alias, queues, position, called, overlapped,
                 blind, refused, givenUp>>

(* createOrUpdateLambdaAlias(): any error is taken for "no such alias".    *)
GetAlias(c) ==
  /\ setup[c] = "getAlias"
  /\ \/ /\ Build[c] \in alias[Region(c)]
        /\ Proceed(c, "updateAlias")
        /\ UNCHANGED blind
     \/ /\ Proceed(c, "createAlias")
        /\ blind' = [blind EXCEPT ![c] = @ \/ Build[c] \in alias[Region(c)]]
  /\ UNCHANGED <<account, position, called, overlapped, overtaken, refused,
                 givenUp>>

CreateAlias(c) ==
  /\ setup[c] = "createAlias"
  /\ \/ /\ Build[c] \notin alias[Region(c)]
        /\ alias' = [alias EXCEPT ![Region(c)] = @ \cup {Build[c]}]
        /\ NextRegion(c)
        /\ UNCHANGED <<role, policy, function, queues, called, history>>
     \/ Build[c] \in alias[Region(c)] /\ Refuse(c, "alias")

(* Both alias calls name the version $LATEST.                              *)
UpdateAlias(c) ==
  /\ setup[c] = "updateAlias"
  /\ NextRegion(c)
  /\ UNCHANGED <<account, called, history>>

(* createSQSQueue(): the name has a fresh UUID, so this is never refused.  *)
CreateQueue(c) ==
  /\ setup[c] = "createQueue"
  /\ queues' = queues \cup {<<c, starts[c]>>}
  /\ Proceed(c, "testing")
  /\ UNCHANGED <<role, policy, function, alias, position, called, history>>

(* Any call but GetAlias may return an error, which Setup returns and      *)
(* Start() panics with; the zip may be unreadable; and the program may be  *)
(* killed, during the test too.                                            *)
Fails(c) ==
  /\ setup[c] \in InSetup \cup {"testing"}
  /\ Proceed(c, "failed")
  /\ givenUp' = (givenUp \/ setup[c] = "putPolicy")
  /\ called' = [called EXCEPT ![c] = NoRunner]
  /\ UNCHANGED <<account, position, overlapped, overtaken, blind, refused>>

-----------------------------------------------------------------------------
Runner(told, in) == [told |-> told, in |-> in, build |-> function[in]]

(* invokeLambda(): each runner is told a region, but all are called        *)
(* through the client of the first one.                                    *)
InvokeLambda(c) ==
  /\ setup[c] = "testing"
  /\ \E k \in DOMAIN Regions[c] :
       called' = [called EXCEPT ![c] = Runner(Regions[c][k], Regions[c][1])]
  /\ UNCHANGED <<account, setup, position, history>>

(* forkNewLambda() of a runner: its successor is called in the region it   *)
(* was told.                                                               *)
ForkLambda(c) ==
  /\ setup[c] = "testing"
  /\ called[c] # NoRunner
  /\ called' = [called EXCEPT ![c] = Runner(@.told, @.told)]
  /\ UNCHANGED <<account, setup, position, history>>

(* The test ends; the teardown that Setup returned does nothing.           *)
EndTest(c) ==
  /\ setup[c] = "testing"
  /\ Proceed(c, "over")
  /\ called' = [called EXCEPT ![c] = NoRunner]
  /\ UNCHANGED <<account, position, history>>

SetupStep(c) ==
  \/ GetRole(c) \/ CreateRole(c) \/ PutRolePolicy(c)
  \/ LambdaExists(c) \/ LambdaUpToDate(c) \/ CreateFunction(c)
  \/ UpdateFunction(c) \/ GetAlias(c) \/ CreateAlias(c) \/ UpdateAlias(c)
  \/ CreateQueue(c)

AwsStep(c) ==
  \/ StartAws(c)
  \/ /\ \/ SetupStep(c) \/ Fails(c)
        \/ InvokeLambda(c) \/ ForkLambda(c) \/ EndTest(c)
     /\ UNCHANGED startVars

AwsNext == \E c \in Clients : AwsStep(c)

AwsSpec == StartInit /\ AwsInit /\ [][AwsNext]_<<startVars, awsVars>>

(* Every call returns at some time, with what was asked for or an error.   *)
AwsFairness == WF_awsVars(\E c \in Clients : SetupStep(c))

-----------------------------------------------------------------------------
Calls == [told : AllRegions, in : AllRegions, build : Builds \cup {NoCode}]

AwsTypeOK ==
  /\ role \in {"absent", "outdated", "current"}
  /\ policy \in BOOLEAN
  /\ function \in [AllRegions -> Builds \cup {NoCode}]
  /\ alias \in [AllRegions -> SUBSET Builds]
  /\ queues \subseteq Clients \X Nat
  /\ setup \in [Clients -> InSetup \cup {"off", "failed", "quit", "testing",
                                           "over"}]
  /\ position \in [Clients -> Nat]
  /\ \A c \in Clients : position[c] \in DOMAIN Regions[c]
  /\ called \in [Clients -> Calls \cup {NoRunner}]
  /\ overlapped \in [Clients -> BOOLEAN]
  /\ overtaken \in [Clients -> BOOLEAN]
  /\ blind \in [Clients -> BOOLEAN]
  /\ refused \in [Clients -> {"nothing", "role", "function", "alias"}]
  /\ givenUp \in BOOLEAN

(* A Setup that returns has got all a test needs, whatever other clients   *)
(* did meanwhile: a role, a queue of its own, and in every region, where   *)
(* runners may fork to, the function; so no runner is called in vain.      *)
ReadyIsProvisioned ==
  \A c \in Clients : setup[c] = "testing" =>
    /\ role # "absent"
    /\ <<c, starts[c]>> \in queues
    /\ \A k \in DOMAIN Regions[c] : function[Regions[c][k]] # NoCode
    /\ called[c] # NoRunner => called[c].build # NoCode

(* Without its policy the role lets no runner report.  It lacks it exactly *)
(* while its creator is about to put it, or for good when the creator did  *)
(* not get that far: every later Setup takes the role as it is.            *)
PolicyGapIsForGood ==
  role # "absent" /\ ~policy <=>
    givenUp \/ \E c \in Clients : setup[c] = "putPolicy"

(* All runners of a test, the successors that are called long after Setup  *)
(* too, are those of the client's build, unless a client of another build  *)
(* installed its own since this one started.                               *)
OwnBuildUnlessOvertaken ==
  \A c \in Clients : called[c] # NoRunner =>
    called[c].build = Build[c] \/ overtaken[c]

(* What an earlier client left, wherever it was stopped, is never in the   *)
(* way: a creation is refused only when two clients set up at once (or the *)
(* lookup of an alias failed, which is taken for its absence).             *)
RefusedOnlyByRace ==
  \A c \in Clients : refused[c] # "nothing" =>
    overlapped[c] \/ (refused[c] = "alias" /\ blind[c])

(* Setup comes to an end, whatever other clients do.                       *)
SetupEnds == []<>(\A c \in Clients : setup[c] \notin InSetup)

(* A runner runs in the region it is told, and reports about.              *)
RunnersStayInRegion ==
  \A c \in Clients : called[c] # NoRunner => called[c].in = called[c].told
=============================================================================
