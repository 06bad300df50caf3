---------------------------- MODULE DockerInfra -----------------------------
(***************************************************************************)
(* infrastructure/docker/docker.go and the RabbitMQ side of                *)
(* lambda/lambda.go: tests whose runners are containers on one machine.    *)
(*                                                                         *)
(* The machine has one network "goad-bridge", one broker, found by its     *)
(* image, and one queue "goad" in it.  Each client looks for network and   *)
(* broker before it creates them, and removes both in its teardown; two    *)
(* clients on one machine share them without knowing of each other.        *)
(*                                                                         *)
(* Calls of the docker API are atomic; any of them may also fail by itself *)
(* (Killed).                                                               *)
(* No other container on the machine has a RabbitMQ image.  A client runs  *)
(* one program: who starts goad again is another client.                   *)
(***************************************************************************)
EXTENDS Start

CONSTANTS
  Lambdas,        \* number of runners of each client
  Long,           \* clients whose test is longer than one runner may take
  Impatient,      \* exploration bound: clients whose user may interrupt
  Absent          \* no network, no container

ASSUME DockerAssumption ==
  /\ Lambdas \in [Clients -> Nat \ {0}]
  /\ Long \subseteq Clients
  /\ Impatient \subseteq Clients
  /\ Absent \notin Clients

VARIABLES
  network,      \* the network, by the client that created it, or Absent
  broker,       \* its container: created by whom, and its state
  channel,      \* messages of the broker's queue while nobody consumes it
  session,      \* where each client is
  netID,        \* NetworkID of each client
  brokerID,     \* RabbitMQContainerID of each client
  consumer,     \* Receive's connection: none, open, lost, closed
  inbox,        \* messages delivered to it, which the broker has forgotten
  data,         \* data.Lambdas of each client
  runner,       \* state of each runner container
  sent,         \* messages each runner has sent
  overlap,      \* history: another client ran at the same time
  disturbed,    \* history: or one that ran before had not cleaned up
  misled,       \* history: a result of another client was added
  interrupted,  \* history: the user interrupted the test
  cause         \* history: what a program died of

machine == <<network, broker, channel>>
handles == <<netID, brokerID>>
receive == <<consumer, inbox, data>>
tests == <<runner, sent>>
past == <<overlap, disturbed, misled, interrupted, cause>>

dockerVars == <<machine, session, handles, receive, tests, past>>

-----------------------------------------------------------------------------
RunnerIDs(c) == 0 .. Lambdas[c] - 1

SettingUp == {"listNetworks", "createNetwork", "listContainers",
              "createBroker", "startBroker", "waitForBroker"}
TearingDown == {"stopBroker", "stopRunners", "removeNetwork"}
Alive(c) == session[c] \in SettingUp \cup TearingDown \cup {"testing"}

NoBroker == [by |-> Absent, state |-> "absent"]

Listening == broker.state = "listening"

Goto(c, step) == session' = [session EXCEPT ![c] = step]

NoResults(c) == [id \in RunnerIDs(c) |-> [count |-> 0, fin |-> FALSE]]

DockerInit ==
  /\ network = Absent
  /\ broker = NoBroker
  /\ channel = <<>>
  /\ session = [c \in Clients |-> "off"]
  /\ netID = [c \in Clients |-> Absent]
  /\ brokerID = [c \in Clients |-> Absent]
  /\ consumer = [c \in Clients |-> "none"]
  /\ inbox = [c \in Clients |-> <<>>]
  /\ data = [c \in Clients |-> NoResults(c)]
  /\ runner = [c \in Clients |-> [id \in RunnerIDs(c) |-> "none"]]
  /\ sent = [c \in Clients |-> [id \in RunnerIDs(c) |-> 0]]
  /\ overlap = [c \in Clients |-> FALSE]
  /\ disturbed = [c \in Clients |-> FALSE]
  /\ misled = [c \in Clients |-> FALSE]
  /\ interrupted = [c \in Clients |-> FALSE]
  /\ cause = [c \in Clients |-> "none"]

(* The end of a program other than by its teardown: a panic, log.Fatalf or *)
(* a signal.  Its connection is closed; what was delivered, its results    *)
(* and its variables are lost.                                             *)
Dies(c, why) ==
  /\ Goto(c, "dead")
  /\ cause' = [cause EXCEPT ![c] = why]
  /\ consumer' = [consumer EXCEPT ![c] = "none"]
  /\ inbox' = [inbox EXCEPT ![c] = <<>>]
  /\ data' = [data EXCEPT ![c] = NoResults(c)]
  /\ netID' = [netID EXCEPT ![c] = Absent]
  /\ brokerID' = [brokerID EXCEPT ![c] = Absent]

UnchangedByDying ==
  UNCHANGED <<machine, tests, overlap, disturbed, misled, interrupted>>

Panic(c, why) == Dies(c, why) /\ UnchangedByDying

-----------------------------------------------------------------------------
(* New(): both images are pulled.                                          *)
StartDocker(c) ==
  LET others == {d \in Clients \ {c} : Alive(d)}
      leftOver == \E d \in Clients : cause[d] # "none"
  IN
  /\ session[c] = "off"
  /\ StartOn(c, "docker")
  /\ Goto(c, "listNetworks")
  /\ overlap' = [d \in Clients |-> IF d = c THEN others # {}
                                   ELSE overlap[d] \/ d \in others]
  /\ disturbed' = [d \in Clients |-> IF d = c THEN others # {} \/ leftOver
                                     ELSE disturbed[d] \/ d \in others]
  /\ UNCHANGED <<machine, handles, receive, tests, misled, interrupted, cause>>

ListNetworks_FindsNone(c) ==
  /\ session[c] = "listNetworks"
  /\ Goto(c, "createNetwork")
  /\ UNCHANGED <<machine, handles, receive, tests, past>>

(* Setup(): the network is looked up by its name, and created if absent.   *)
ListNetworks(c) ==
  /\ session[c] = "listNetworks"
  /\ netID' = [netID EXCEPT ![c] = network]
  /\ Goto(c, IF network = Absent THEN "createNetwork" ELSE "listContainers")
  /\ UNCHANGED <<machine, brokerID, receive, tests, past>>

CreateNetwork(c) ==
  /\ session[c] = "createNetwork"
  /\ \/ /\ network = Absent
        /\ network' = c
        /\ netID' = [netID EXCEPT ![c] = c]
        /\ Goto(c, "listContainers")
        /\ UNCHANGED <<broker, channel, brokerID, receive, tests, past>>
     \/ network # Absent /\ Panic(c, "conflict")

(* A broker that runs is used as it is, listening or not; one that was     *)
(* created only will be started.                                           *)
ListContainers(c) ==
  /\ session[c] = "listContainers"
  /\ IF broker = NoBroker
     THEN Goto(c, "createBroker") /\ UNCHANGED brokerID
     ELSE /\ brokerID' = [brokerID EXCEPT ![c] = broker.by]
          /\ Goto(c, IF broker.state = "created" THEN "startBroker"
                                                 ELSE "testing")
  /\ UNCHANGED <<machine, netID, receive, tests, past>>

CreateBroker(c) ==
  /\ session[c] = "createBroker"
  /\ \/ /\ broker = NoBroker /\ network # Absent
        /\ broker' = [by |-> c, state |-> "created"]
        /\ brokerID' = [brokerID EXCEPT ![c] = c]
        /\ Goto(c, "startBroker")
        /\ UNCHANGED <<network, channel, netID, receive, tests, past>>
     \/ (broker # NoBroker \/ network = Absent) /\ Panic(c, "conflict")

IsBroker(c) == broker # NoBroker /\ broker.by = brokerID[c]

(* Starting a container that runs already is no error.                     *)
StartBroker(c) ==
  /\ session[c] = "startBroker"
  /\ \/ /\ IsBroker(c) /\ network # Absent
        /\ broker' = IF broker.state = "created"
                     THEN [broker EXCEPT !.state = "booting"] ELSE broker
        /\ Goto(c, "waitForBroker")
        /\ UNCHANGED <<network, channel, handles, receive, tests, past>>
     \/ ~(IsBroker(c) /\ network # Absent) /\ Panic(c, "conflict")

(* It is dialled once a second until it listens, at most 30 times: in vain *)
(* if it has been stopped, or needs longer.                                *)
WaitForBroker(c) ==
  /\ session[c] = "waitForBroker"
  /\ \/ /\ Listening
        /\ Goto(c, "testing")
        /\ UNCHANGED <<machine, handles, receive, tests, past>>
     \/ ~IsBroker(c) /\ Panic(c, "conflict")
     \/ IsBroker(c) /\ ~Listening /\ Panic(c, "killed")

BrokerBoots ==
  /\ broker.state = "booting"
  /\ broker' = [broker EXCEPT !.state = "listening"]
  /\ UNCHANGED <<network, channel, session, handles, receive, tests, past>>

-----------------------------------------------------------------------------
(* After Setup, and until the program ends, some goroutines are under way: *)
(* one per runner, and Receive().                                          *)
Started(c) == session[c] \in TearingDown \cup {"testing"}

(* runAsDockerContainer(): an error panics in its goroutine, and that ends *)
(* the whole program without a teardown.                                   *)
RunAsDockerContainer(c, id) ==
  /\ Started(c)
  /\ runner[c][id] = "none"
  /\ \/ /\ network # Absent
        /\ runner' = [runner EXCEPT ![c][id] = "starting"]
        /\ UNCHANGED <<machine, session, handles, receive, sent, past>>
     \/ network = Absent /\ Panic(c, "conflict")

(* An address may have been given to a new broker since: a connection can  *)
(* then be made or fail.                                                   *)
MayMiss(c) == ~(Listening /\ IsBroker(c))

(* newRabbitMQAdapter() of a runner                                        *)
RunnerConnects(c, id) ==
  /\ runner[c][id] = "starting"
  /\ \/ Listening /\ runner' = [runner EXCEPT ![c][id] = "running"]
     \/ MayMiss(c) /\ runner' = [runner EXCEPT ![c][id] = "dead"]
  /\ UNCHANGED <<machine, session, handles, receive, sent, past>>

(* The broker deals the messages of its one queue out to all consumers,    *)
(* at once and without waiting for an acknowledgement.                     *)
Publish(m) ==
  LET open == {d \in Clients : consumer[d] = "open"} IN
  \/ /\ open = {}
     /\ channel' = Append(channel, m)
     /\ UNCHANGED inbox
  \/ /\ \E d \in open :
          inbox' = IF session[d] = "testing"
                   THEN [inbox EXCEPT ![d] = Append(@, m)] ELSE inbox
     /\ UNCHANGED channel

(* A runner ends with a report, which stands for all it sends, and which   *)
(* says "finished" unless its time was over before the test's: on this     *)
(* platform no successor is started.                                       *)
RunnerEnds(c, id, fin) ==
  /\ runner[c][id] = "running"
  /\ fin \/ c \in Long
  /\ Publish([from |-> c, id |-> id, fin |-> fin])
  /\ sent' = [sent EXCEPT ![c][id] = @ + 1]
  /\ runner' = [runner EXCEPT ![c][id] = IF fin THEN "ended" ELSE "unfinished"]
  /\ UNCHANGED <<network, broker, session, handles, consumer, data, past>>

(* A runner is killed.                                                     *)
RunnerDies(c, id) ==
  /\ runner[c][id] \in {"starting", "running"}
  /\ runner' = [runner EXCEPT ![c][id] = "dead"]
  /\ UNCHANGED <<machine, session, handles, receive, sent, past>>

(* Receive() dials once, and is given what is in the queue; log.Fatalf     *)
(* ends the program, during a teardown too.                                *)
Dial(c) ==
  /\ Started(c)
  /\ consumer[c] = "none"
  /\ \/ /\ Listening
        /\ consumer' = [consumer EXCEPT ![c] = "open"]
        /\ inbox' = [inbox EXCEPT ![c] = channel]
        /\ channel' = <<>>
        /\ UNCHANGED <<network, broker, session, handles, data, tests, past>>
     \/ MayMiss(c) /\ Panic(c, "unreachable")

AllLambdasFinished(results) == \A id \in DOMAIN results : results[id].fin

AddResult_IgnoresUnfinished(d, m) ==
  IF m.fin THEN [count |-> d.count + 1, fin |-> TRUE] ELSE d

AddResult_KeepsFinished(d, m) == [d EXCEPT !.count = @ + 1]

AddResult(d, m) == [count |-> d.count + 1, fin |-> m.fin]

(* A result is added, whoever sent it, unless its runner id is out of      *)
(* range.  When all runners are finished the reader gets to the end of the *)
(* results, and start() to its teardown.  Adding writes maps and strings    *)
(* that the reader has been given with the result before, and may be       *)
(* reading: unless the runtime misses it the program ends with a fatal     *)
(* error.  As a message stands for all its runner has sent, any may do so. *)
AddNext(c) ==
  LET m == Head(inbox[c])
      added == [data[c] EXCEPT ![m.id] = AddResult(@, m)]
  IN
  /\ session[c] = "testing"
  /\ inbox[c] # <<>>
  /\ \/ /\ m.id \in RunnerIDs(c)
        /\ data' = [data EXCEPT ![c] = added]
        /\ IF AllLambdasFinished(added)
           THEN /\ Goto(c, "stopBroker")
                /\ consumer' = [consumer EXCEPT ![c] = "closed"]
                /\ inbox' = [inbox EXCEPT ![c] = <<>>]
           ELSE /\ inbox' = [inbox EXCEPT ![c] = Tail(@)]
                /\ UNCHANGED <<session, consumer>>
        /\ misled' = [misled EXCEPT ![c] = @ \/ m.from # c]
        /\ UNCHANGED <<machine, handles, tests, overlap, disturbed, interrupted,
                       cause>>
     \/ m.id \notin RunnerIDs(c) /\ Panic(c, "index")
     \/ m.id \in RunnerIDs(c) /\ Panic(c, "race")

(* Without its broker Receive() adds empty results of runner 0 for ever.   *)
AddEmpty(c) ==
  /\ session[c] = "testing"
  /\ consumer[c] = "lost"
  /\ inbox[c] = <<>>
  /\ \/ /\ data' = [data EXCEPT ![c][0].fin = FALSE]
        /\ UNCHANGED <<machine, session, handles, consumer, inbox, tests, past>>
     \/ Panic(c, "race")

(* The reader goes over to the teardown.  Receive() is without a reader    *)
(* after one or two more results, which at most the summary shows; what    *)
(* they may do to the program in its teardown Killed does as well.         *)
Interrupt(c) ==
  /\ session[c] = "testing"
  /\ c \in Impatient
  /\ Goto(c, "stopBroker")
  /\ interrupted' = [interrupted EXCEPT ![c] = TRUE]
  /\ inbox' = [inbox EXCEPT ![c] = <<>>]
  /\ UNCHANGED <<machine, handles, consumer, data, tests, overlap, disturbed,
                 misled, cause>>

-----------------------------------------------------------------------------
Running == {"starting", "running"}

(* Runners in the given states go over to another one.                     *)
Runners(from, to) ==
  [d \in Clients |-> [id \in RunnerIDs(d) |->
     IF runner[d][id] \in from THEN to ELSE runner[d][id]]]

(* Teardown(): a container that is stopped is removed, and its messages    *)
(* and connections are gone; a runner that cannot send ends by log.Fatalf. *)
StopBroker(c) ==
  /\ session[c] = "stopBroker"
  /\ \/ /\ IsBroker(c)
        /\ broker' = NoBroker
        /\ channel' = <<>>
        /\ consumer' = [d \in Clients |->
                          IF consumer[d] = "open" THEN "lost" ELSE consumer[d]]
        /\ runner' = Runners({"running"}, "dead")
        /\ Goto(c, "stopRunners")
        /\ UNCHANGED <<network, handles, inbox, data, sent, past>>
     \/ ~IsBroker(c) /\ Panic(c, "conflict")

(* The containers of all clients are stopped.                              *)
StopRunners(c) ==
  /\ session[c] = "stopRunners"
  /\ runner' = Runners(Running, "dead")
  /\ Goto(c, "removeNetwork")
  /\ UNCHANGED <<machine, handles, receive, sent, past>>

InUse ==
  \/ broker.state \in {"booting", "listening"}
  \/ \E d \in Clients : \E id \in RunnerIDs(d) : runner[d][id] \in Running

RemoveNetwork_IgnoresError(c) ==
  /\ session[c] = "removeNetwork"
  /\ network' = IF network = netID[c] /\ ~InUse THEN Absent ELSE network
  /\ Goto(c, "over")
  /\ UNCHANGED <<broker, channel, handles, receive, tests, past>>

(* It must be the same network still, and not in use.  An error panics     *)
(* before the summary is printed.                                          *)
RemoveNetwork(c) ==
  /\ session[c] = "removeNetwork"
  /\ \/ /\ network = netID[c] /\ network # Absent /\ ~InUse
        /\ network' = Absent
        /\ Goto(c, "over")
        /\ UNCHANGED <<broker, channel, handles, receive, tests, past>>
     \/ /\ network # netID[c] \/ network = Absent \/ InUse
        /\ Panic(c, "conflict")

(* Another call fails, or the program is killed.                           *)
Killed(c) == Alive(c) /\ Panic(c, "killed")

ClientStep(c) ==
  \/ ListNetworks(c) \/ CreateNetwork(c) \/ ListContainers(c)
  \/ CreateBroker(c) \/ StartBroker(c) \/ WaitForBroker(c)
  \/ StopBroker(c) \/ StopRunners(c) \/ RemoveNetwork(c)

ReceiveStep(c) == Dial(c) \/ AddNext(c)

RunnerStep(c, id) ==
  \/ RunAsDockerContainer(c, id) \/ RunnerConnects(c, id)
  \/ \E fin \in BOOLEAN : RunnerEnds(c, id, fin)

DockerStep(c) ==
  \/ StartDocker(c)
  \/ /\ \/ ClientStep(c) \/ ReceiveStep(c) \/ AddEmpty(c)
        \/ Interrupt(c) \/ Killed(c)
        \/ \E id \in RunnerIDs(c) : RunnerStep(c, id) \/ RunnerDies(c, id)
     /\ UNCHANGED startVars

DockerNext ==
  \/ \E c \in Clients : DockerStep(c)
  \/ BrokerBoots /\ UNCHANGED startVars

DockerSpec ==
  StartInit /\ DockerInit /\ [][DockerNext]_<<startVars, dockerVars>>

(* While goroutines can go on, the broker boots or a container runs, one   *)
(* of them does; and a runner that is not killed comes to its end.         *)
Progress ==
  \/ BrokerBoots
  \/ \E c \in Clients :
       \/ ClientStep(c) \/ ReceiveStep(c)
       \/ \E id \in RunnerIDs(c) : RunnerStep(c, id)

DockerFairness == WF_dockerVars(Progress)

-----------------------------------------------------------------------------
Messages == [from : Clients, id : Nat, fin : BOOLEAN]
Owners == Clients \cup {Absent}

DockerTypeOK ==
  /\ network \in Owners
  /\ broker \in [by : Clients, state : {"created", "booting", "listening"}]
                  \cup {NoBroker}
  /\ channel \in Seq(Messages)
  /\ session \in [Clients -> SettingUp \cup TearingDown
                               \cup {"off", "testing", "over", "dead"}]
  /\ netID \in [Clients -> Owners]
  /\ brokerID \in [Clients -> Owners]
  /\ consumer \in [Clients -> {"none", "open", "lost", "closed"}]
  /\ inbox \in [Clients -> Seq(Messages)]
  /\ \A c \in Clients :
       /\ data[c] \in [RunnerIDs(c) -> [count : Nat, fin : BOOLEAN]]
       /\ runner[c] \in [RunnerIDs(c) -> Running \cup {"none", "ended",
                                                      "unfinished", "dead"}]
       /\ sent[c] \in [RunnerIDs(c) -> Nat]
  /\ overlap \in [Clients -> BOOLEAN]
  /\ disturbed \in [Clients -> BOOLEAN]
  /\ misled \in [Clients -> BOOLEAN]
  /\ interrupted \in [Clients -> BOOLEAN]
  /\ cause \in [Clients -> {"none", "killed", "conflict", "unreachable",
                           "index", "race"}]

From(c, id, messages) ==
  Cardinality({k \in DOMAIN messages :
                 messages[k].from = c /\ messages[k].id = id})

(* A client that has the machine to itself, and is not interrupted, gets   *)
(* every report of its runners and no other: what they sent is in its      *)
(* results or on the way there.  An earlier client, even an interrupted    *)
(* one, leaves nothing in the broker as long as it came to the end of its  *)
(* teardown.                                                               *)
AloneResultsAreOwn ==
  \A c \in Clients :
    session[c] # "dead" /\ ~disturbed[c] /\ ~interrupted[c] =>
      \A id \in RunnerIDs(c) :
        sent[c][id] = data[c][id].count + From(c, id, inbox[c])
                        + From(c, id, channel)

(* What ends a program early, other than a signal or a call that fails by  *)
(* itself.  A broker that is not reached or a result of an unknown runner  *)
(* needs an interrupt, another client or what a killed one has left.  The  *)
(* data race needs no other, but a report of an own runner.  And a call of *)
(* the docker API meets what it cannot work with only if another client    *)
(* runs at the same time, if the program is interrupted, or if it took     *)
(* results for its own that were not.                                      *)
FailureHasCause ==
  \A c \in Clients :
    /\ cause[c] \in {"unreachable", "index"} => disturbed[c] \/ interrupted[c]
    /\ cause[c] = "race" =>
         disturbed[c] \/ \E id \in RunnerIDs(c) : sent[c][id] > 0
    /\ cause[c] = "conflict" => overlap[c] \/ interrupted[c] \/ misled[c]

(* When all clients have come to their regular end, be it interrupted or   *)
(* one during the other, the machine is as clean as before.                *)
CleanWhenAllOver ==
  (\A c \in Clients : session[c] \in {"off", "over"}) =>
    network = Absent /\ broker = NoBroker /\ ~InUse

(* A client that has the machine to itself ends: no wait in Setup, for the *)
(* messages of its runners, also those sent before Receive() has dialled,  *)
(* or in the teardown is for nothing.  Not so when one of its runners dies *)
(* or stops unfinished: Receive() has no time limit.                       *)
LoneSessionEnds ==
  []<>(\A c \in Clients :
         \/ ~Alive(c)
         \/ disturbed[c]
         \/ \E id \in RunnerIDs(c) : runner[c][id] \in {"dead", "unfinished"})
=============================================================================
