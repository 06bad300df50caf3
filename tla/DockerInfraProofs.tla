------------------------- MODULE DockerInfraProofs --------------------------
(***************************************************************************)
(* Proofs about the sessions on docker, for any number of clients and      *)
(* runners, and beside any setups on AWS: types, the inductive invariant,  *)
(* and the three safety properties.                                        *)
(***************************************************************************)
EXTENDS AwsProvisionProofs, FunctionTheorems

(* Steps of a client after which it has found or made its network, ...     *)
HasNetwork == {"listContainers", "createBroker", "startBroker",
               "waitForBroker", "testing"} \cup TearingDown

(* ... those in which it has its broker, ...                               *)
HasBroker == {"startBroker", "waitForBroker", "testing", "stopBroker"}

(* ... and those that come after its Setup.                                *)
AfterSetup == TearingDown \cup {"testing", "over", "dead"}

(* Functions that have for each client a value of its own kind.            *)
Tables(kinds) ==
  {t \in [Clients -> UNION {kinds[c] : c \in Clients}] :
     \A c \in Clients : t[c] \in kinds[c]}

Results == [c \in Clients |-> [RunnerIDs(c) -> [count : Nat, fin : BOOLEAN]]]
RunnerStates == {"none", "starting", "running", "ended", "unfinished", "dead"}
Runs == [c \in Clients |-> [RunnerIDs(c) -> RunnerStates]]
Counts == [c \in Clients |-> [RunnerIDs(c) -> Nat]]

PlainTypes ==
  /\ network \in Owners
  /\ broker \in [by : Clients, state : {"created", "booting", "listening"}]
                  \cup {NoBroker}
  /\ channel \in Seq(Messages)
  /\ session \in [Clients -> SettingUp \cup TearingDown
                               \cup {"off", "testing", "over", "dead"}]
  /\ netID \in [Clients -> Owners]
  /\ brokerID \in [Clients -> Owners]
  /\ consumer \in [Clients -> {"none", "open", "lost", "closed"}]
  /\ inbox \in [Clients -> Seq(Messages)]
  /\ overlap \in [Clients -> BOOLEAN]
  /\ disturbed \in [Clients -> BOOLEAN]
  /\ misled \in [Clients -> BOOLEAN]
  /\ interrupted \in [Clients -> BOOLEAN]
  /\ cause \in [Clients -> {"none", "killed", "conflict", "unreachable",
                           "index", "race"}]

TableTypes ==
  /\ data \in Tables(Results)
  /\ runner \in Tables(Runs)
  /\ sent \in Tables(Counts)

DockerTypes == PlainTypes /\ TableTypes

(* Only what died has died of something.                                   *)
DeathHasCause ==
  \A c \in Clients : session[c] = "dead" <=> cause[c] # "none"

(* Network and broker are there while the client that made them still      *)
(* knows of them and will remove them, or after it has died.               *)
MakerRemains(maker, steps, known) ==
  \/ session[maker] = "dead"
  \/ session[maker] \in steps /\ known[maker] = maker

NetworkHasMaker ==
  network # Absent => MakerRemains(network, HasNetwork, netID)

BrokerHasMaker ==
  broker # NoBroker => MakerRemains(broker.by, HasBroker, brokerID)

(* Before its start a client has met no other and was not interrupted.     *)
NewIsUndisturbed ==
  \A c \in Clients : session[c] = "off" => ~disturbed[c] /\ ~interrupted[c]

(* Runners are started after Setup, and none is left by a client that has  *)
(* come to the regular end; each reports once.                             *)
RunnersEndBefore ==
  \A c \in Clients : \A id \in RunnerIDs(c) :
    /\ runner[c][id] # "none" => session[c] \in AfterSetup
    /\ runner[c][id] \in Running => session[c] # "over"
    /\ sent[c][id] = IF runner[c][id] \in {"ended", "unfinished"} THEN 1 ELSE 0

(* No messages, connections or connected runners without a broker.         *)
NothingWithoutBroker ==
  ~Listening =>
    /\ channel = <<>>
    /\ \A c \in Clients :
         /\ consumer[c] # "open"
         /\ \A id \in RunnerIDs(c) : runner[c][id] # "running"

ReceivesAfterSetup ==
  \A c \in Clients :
    /\ consumer[c] = "none" => inbox[c] = <<>>
    /\ consumer[c] # "none" => session[c] \in AfterSetup \ {"dead"}
    /\ consumer[c] = "open" => session[c] # "over"

(* Messages are those that runners have sent; one says "finished" only if  *)
(* its runner has ended so.                                                *)
Reported == {"ended", "unfinished"}

Said ==
  {m \in Messages : /\ m.id \in RunnerIDs(m.from)
                    /\ runner[m.from][m.id] \in Reported
                    /\ m.fin => runner[m.from][m.id] = "ended"}

MessagesAreSaid ==
  /\ channel \in Seq(Said)
  /\ \A c \in Clients : inbox[c] \in Seq(Said)

(* A result that is finished has got a report, of the same client's runner *)
(* unless a message of another client was taken for one of it.             *)
FinishedWasReported ==
  \A c \in Clients : \A id \in RunnerIDs(c) : data[c][id].fin =>
    /\ data[c][id].count >= 1
    /\ misled[c] \/ runner[c][id] = "ended"

(* Without an interrupt the teardown comes after the last result.          *)
TeardownComesLast ==
  \A c \in Clients :
    session[c] \in TearingDown \cup {"over"} /\ ~interrupted[c] =>
      /\ consumer[c] = "closed"
      /\ inbox[c] = <<>>
      /\ \A id \in RunnerIDs(c) : data[c][id].fin

(* A client beside which no other is running finds network and broker as   *)
(* it left them, and removes them when nothing uses them.                  *)
FindsItsMachine(c) ==
  /\ session[c] = "createNetwork" => network = Absent
  /\ session[c] \in HasNetwork => network # Absent /\ network = netID[c]
  /\ session[c] = "createBroker" => broker = NoBroker
  /\ session[c] \in HasBroker => IsBroker(c)
  /\ session[c] \in {"stopRunners", "removeNetwork"} => broker = NoBroker

RunsByItself(c) ==
  /\ \A d \in Clients \ {c} : ~Alive(d)
  /\ FindsItsMachine(c)
  /\ session[c] = "removeNetwork" =>
       \A d \in Clients \ {c} : \A id \in RunnerIDs(d) :
         runner[d][id] \notin Running

OneKeepsOrder ==
  \A c \in Clients : Alive(c) /\ ~overlap[c] => RunsByItself(c)

(* If no other has left anything either, all messages are its own, the     *)
(* broker listens as long as it wants, and its connection to it lasts.     *)
FromOnly(c) == {m \in Messages : m.from = c}

HasMachineAlone(c) ==
  /\ \A d \in Clients \ {c} : session[d] \in {"off", "over"}
  /\ channel \in Seq(FromOnly(c))
  /\ inbox[c] \in Seq(FromOnly(c))
  /\ session[c] = "testing" => Listening /\ consumer[c] # "lost"

AloneHasAll ==
  \A c \in Clients : Alive(c) /\ ~disturbed[c] => HasMachineAlone(c)

DockerInv ==
  /\ DockerTypes
  /\ DeathHasCause
  /\ NewIsUndisturbed
  /\ NetworkHasMaker
  /\ BrokerHasMaker
  /\ RunnersEndBefore
  /\ NothingWithoutBroker
  /\ ReceivesAfterSetup
  /\ MessagesAreSaid
  /\ FinishedWasReported
  /\ TeardownComesLast
  /\ OneKeepsOrder
  /\ AloneHasAll
  /\ AloneResultsAreOwn
  /\ FailureHasCause

-----------------------------------------------------------------------------
(* Every runner id of a client is a number below its number of runners.    *)
LEMMA IdsAreNumbers ==
  ASSUME NEW c \in Clients
  PROVE  RunnerIDs(c) \subseteq Nat /\ 0 \in RunnerIDs(c)
  BY DockerAssumption DEF RunnerIDs

(* A table keeps its kind when a value is replaced by one of the kind.     *)
LEMMA TableChanges ==
  ASSUME NEW kinds, NEW t \in Tables(kinds), NEW c \in Clients,
         NEW x \in kinds[c]
  PROVE  [t EXCEPT ![c] = x] \in Tables(kinds)
  BY DEF Tables

(* Its values are of their kinds.                                          *)
LEMMA TableEntries ==
  ASSUME NEW kinds, NEW t \in Tables(kinds)
  PROVE  DOMAIN t = Clients /\ \A c \in Clients : t[c] \in kinds[c]
  BY DEF Tables

(* A table of values of the kind.                                          *)
LEMMA TableOf ==
  ASSUME NEW kinds, NEW t, t = [c \in Clients |-> t[c]],
         \A c \in Clients : t[c] \in kinds[c]
  PROVE  t \in Tables(kinds)
  BY DEF Tables

(* Results, runners and counts of each client are by runner id.            *)
LEMMA TypesOfTables ==
  ASSUME DockerTypes
  PROVE  /\ DOMAIN data = Clients /\ DOMAIN runner = Clients
         /\ DOMAIN sent = Clients
         /\ \A c \in Clients :
              /\ data[c] \in [RunnerIDs(c) -> [count : Nat, fin : BOOLEAN]]
              /\ runner[c] \in [RunnerIDs(c) -> RunnerStates]
              /\ sent[c] \in [RunnerIDs(c) -> Nat]
  BY TableEntries DEF DockerTypes, TableTypes, Results, Runs, Counts

(* The types as the module DockerInfra states them.                        *)
LEMMA DockerTypesAreTypes ==
  ASSUME DockerTypes
  PROVE  DockerTypeOK
  BY TypesOfTables
     DEF DockerTypes, PlainTypes, DockerTypeOK, RunnerStates, Running

(* A message goes to the queue or to one client.                           *)
LEMMA PublishAdds ==
  ASSUME NEW S, channel \in Seq(S), inbox \in [Clients -> Seq(S)],
         NEW m \in S, Publish(m)
  PROVE  channel' \in Seq(S) /\ inbox' \in [Clients -> Seq(S)]
<1>1. Append(channel, m) \in Seq(S)
  OBVIOUS
<1>2. \A d \in Clients : Append(inbox[d], m) \in Seq(S)
  OBVIOUS
<1>3. channel' = channel \/ channel' = Append(channel, m)
  BY DEF Publish
<1>4. \/ UNCHANGED inbox
      \/ \E d \in Clients : inbox' = [inbox EXCEPT ![d] = Append(inbox[d], m)]
  BY DEF Publish
<1> QED
  BY <1>1, <1>2, <1>3, <1>4

(* The client does not die in this step.                                   *)
Survives(c) ==
  \A why \in {"killed", "conflict", "unreachable", "index", "race"} :
    ~Panic(c, why)

(* Every step of a client keeps the types: first of what is plain, ...      *)
LEMMA PlainTypesStep ==
  ASSUME PlainTypes, NEW c \in Clients, DockerStep(c)
  PROVE  PlainTypes'
<1> USE DEF PlainTypes, Goto, machine, handles, receive, tests, past, Owners,
            SettingUp, TearingDown
<1>0. ASSUME NEW why \in {"killed", "conflict", "unreachable", "index",
                          "race"},
             Panic(c, why)
      PROVE  PlainTypes'
  BY <1>0 DEF Panic, Dies, UnchangedByDying
<1> SUFFICES ASSUME Survives(c) PROVE PlainTypes'
  BY <1>0 DEF Survives
<1>1. CASE StartDocker(c)
  BY <1>1 DEF StartDocker
<1>2. CASE ListNetworks(c)
  BY <1>2 DEF ListNetworks
<1>3. CASE CreateNetwork(c)
  BY <1>3 DEF CreateNetwork, Survives
<1>4. CASE ListContainers(c)
  BY <1>4 DEF ListContainers
<1>5. CASE CreateBroker(c)
  <2>1. [by |-> c, state |-> "created"]
          \in [by : Clients, state : {"created", "booting", "listening"}]
    OBVIOUS
  <2> QED
    BY <1>5, <2>1 DEF CreateBroker, Survives
<1>6. CASE StartBroker(c)
  <2>1. IsBroker(c) => [broker EXCEPT !.state = "booting"]
          \in [by : Clients, state : {"created", "booting", "listening"}]
    BY DEF IsBroker
  <2>2. broker' \in [by : Clients, state : {"created", "booting", "listening"}]
                   \cup {NoBroker}
    BY <1>6, <2>1 DEF StartBroker, Survives
  <2> QED
    BY <1>6, <2>2 DEF StartBroker, Survives
<1>7. CASE WaitForBroker(c)
  BY <1>7 DEF WaitForBroker, Survives
<1>8. CASE StopBroker(c)
  <2>1. consumer' \in [Clients -> {"none", "open", "lost", "closed"}]
    BY <1>8 DEF StopBroker, Survives
  <2>2. broker' = NoBroker /\ channel' = <<>> /\ <<>> \in Seq(Messages)
    BY <1>8 DEF StopBroker, Survives
  <2> QED
    BY <1>8, <2>1, <2>2 DEF StopBroker, Survives
<1>9. CASE StopRunners(c)
  BY <1>9 DEF StopRunners
<1>10. CASE RemoveNetwork(c)
  BY <1>10 DEF RemoveNetwork, Survives
<1>11. CASE Dial(c)
  <2>1. <<>> \in Seq(Messages)
    OBVIOUS
  <2> QED
    BY <1>11, <2>1 DEF Dial, Survives
<1>12. CASE AddNext(c)
  <2>1. session[c] = "testing" /\ inbox[c] # <<>>
    BY <1>12 DEF AddNext, Survives
  <2>2. <<>> \in Seq(Messages) /\ Tail(inbox[c]) \in Seq(Messages)
    BY <2>1
  <2>3. \/ inbox' = [inbox EXCEPT ![c] = <<>>]
        \/ inbox' = [inbox EXCEPT ![c] = Tail(inbox[c])]
    BY <1>12 DEF AddNext, Survives
  <2>4. inbox' \in [Clients -> Seq(Messages)]
    BY <2>2, <2>3
  <2>5. misled' \in [Clients -> BOOLEAN]
    BY <1>12 DEF AddNext, Survives
  <2>6. session' \in [Clients -> SettingUp \cup TearingDown
                                 \cup {"off", "testing", "over", "dead"}]
    BY <1>12 DEF AddNext, Survives
  <2>7. consumer' \in [Clients -> {"none", "open", "lost", "closed"}]
    BY <1>12 DEF AddNext, Survives
  <2>8. UNCHANGED <<machine, handles, overlap, disturbed, interrupted, cause>>
    BY <1>12 DEF AddNext, Survives
  <2> QED
    BY <2>4, <2>5, <2>6, <2>7, <2>8
<1>13. CASE AddEmpty(c)
  BY <1>13 DEF AddEmpty, Survives
<1>14. CASE Interrupt(c)
  BY <1>14 DEF Interrupt
<1>15. CASE Killed(c)
  BY <1>15 DEF Killed, Survives
<1>16. CASE \E id \in RunnerIDs(c) : RunAsDockerContainer(c, id)
  BY <1>16 DEF RunAsDockerContainer, Survives
<1>17. CASE \E id \in RunnerIDs(c) : RunnerConnects(c, id)
  BY <1>17 DEF RunnerConnects
<1>18. CASE \E id \in RunnerIDs(c) : RunnerDies(c, id)
  BY <1>18 DEF RunnerDies
<1>19. CASE \E id \in RunnerIDs(c), fin \in BOOLEAN : RunnerEnds(c, id, fin)
  <2>1. PICK id \in RunnerIDs(c), fin \in BOOLEAN : RunnerEnds(c, id, fin)
    BY <1>19
  <2>2. [from |-> c, id |-> id, fin |-> fin] \in Messages
    BY IdsAreNumbers DEF Messages
  <2>3. channel' \in Seq(Messages) /\ inbox' \in [Clients -> Seq(Messages)]
    BY <2>1, <2>2, PublishAdds DEF RunnerEnds
  <2> QED
    BY <2>1, <2>3 DEF RunnerEnds
<1> QED
  BY <1>1, <1>2, <1>3, <1>4, <1>5, <1>6, <1>7, <1>8, <1>9, <1>10, <1>11,
     <1>12, <1>13, <1>14, <1>15, <1>16, <1>17, <1>18, <1>19
     DEF DockerStep, ClientStep, ReceiveStep, RunnerStep

(* What the entries of the tables are after a step.                        *)
LEMMA ResultsChange ==
  ASSUME DockerTypes, NEW c \in Clients, NEW id \in RunnerIDs(c),
         NEW r \in [count : Nat, fin : BOOLEAN]
  PROVE  [data EXCEPT ![c] = [data[c] EXCEPT ![id] = r]] \in Tables(Results)
<1>1. [data[c] EXCEPT ![id] = r] \in Results[c]
  BY TypesOfTables DEF Results
<1> QED
  BY <1>1, TableChanges DEF DockerTypes, TableTypes

(* A runner changes its state, ...                                         *)
LEMMA RunnerChanges ==
  ASSUME DockerTypes, NEW c \in Clients, NEW id \in RunnerIDs(c),
         NEW state \in RunnerStates
  PROVE  [runner EXCEPT ![c] = [runner[c] EXCEPT ![id] = state]]
           \in Tables(Runs)
<1>1. [runner[c] EXCEPT ![id] = state] \in Runs[c]
  BY TypesOfTables DEF Runs
<1> QED
  BY <1>1, TableChanges DEF DockerTypes, TableTypes

(* ... or many die at once.                                                *)
LEMMA RunnersDie ==
  ASSUME DockerTypes, NEW from
  PROVE  Runners(from, "dead") \in Tables(Runs)
<1> DEFINE R == Runners(from, "dead")
<1>1. \A c \in Clients : R[c] \in Runs[c]
  BY TypesOfTables DEF Runners, Runs, RunnerStates
<1>2. R = [c \in Clients |-> R[c]]
  BY DEF Runners
<1> QED
  BY ONLY <1>1, <1>2, TableOf

(* ... then of the tables.                                                 *)
LEMMA TableTypesStep ==
  ASSUME DockerTypes, NEW c \in Clients, DockerStep(c)
  PROVE  TableTypes'
<1> USE DEF receive, tests
<1>1. TableTypes
  BY DEF DockerTypes
<1>2. CASE UNCHANGED <<data, runner, sent>>
  BY <1>1, <1>2 DEF TableTypes
<1>3. CASE ~Survives(c)
  <2>1. NoResults(c) \in Results[c]
    BY DEF NoResults, Results
  <2>2. UNCHANGED <<runner, sent>> /\ data' = [data EXCEPT ![c] = NoResults(c)]
    BY <1>3 DEF Survives, Panic, Dies, UnchangedByDying
  <2> QED
    BY <1>1, <2>1, <2>2, TableChanges DEF TableTypes
<1>4. CASE AddNext(c) /\ Survives(c)
  <2> DEFINE m == Head(inbox[c])
             r == AddResult(data[c][m.id], m)
  <2>1. inbox[c] # <<>> /\ m.id \in RunnerIDs(c)
    BY <1>4 DEF AddNext, Survives
  <2>2. m \in Messages
    BY <2>1 DEF DockerTypes, PlainTypes
  <2>3. r \in [count : Nat, fin : BOOLEAN]
    BY <2>1, <2>2, TypesOfTables DEF AddResult, Messages
  <2>4. /\ data' = [data EXCEPT ![c] = [data[c] EXCEPT ![m.id] = r]]
        /\ UNCHANGED <<runner, sent>>
    BY <1>4, <2>1, TypesOfTables DEF AddNext, Survives
  <2> HIDE DEF r, m
  <2> QED
    BY <1>1, <2>1, <2>3, <2>4, ResultsChange DEF TableTypes
<1>5. CASE AddEmpty(c) /\ Survives(c)
  <2> DEFINE r == [data[c][0] EXCEPT !.fin = FALSE]
  <2>1. \A d \in [count : Nat, fin : BOOLEAN] :
          [d EXCEPT !.fin = FALSE] \in [count : Nat, fin : BOOLEAN]
    OBVIOUS
  <2>2. 0 \in RunnerIDs(c) /\ data[c][0] \in [count : Nat, fin : BOOLEAN]
    BY IdsAreNumbers, TypesOfTables
  <2>3. r \in [count : Nat, fin : BOOLEAN]
    BY ONLY <2>1, <2>2
  <2>4. /\ data' = [data EXCEPT ![c] = [data[c] EXCEPT ![0] = r]]
        /\ UNCHANGED <<runner, sent>>
    BY <1>5, TypesOfTables DEF AddEmpty, Survives
  <2> HIDE DEF r
  <2> QED
    BY <1>1, <2>2, <2>3, <2>4, ResultsChange DEF TableTypes
<1>6. CASE StopBroker(c) /\ Survives(c)
  BY <1>1, <1>6, RunnersDie DEF StopBroker, Survives, TableTypes
<1>7. CASE StopRunners(c)
  BY <1>1, <1>7, RunnersDie DEF StopRunners, TableTypes
<1>8. ASSUME NEW id \in RunnerIDs(c), NEW state \in RunnerStates,
             runner' = [runner EXCEPT ![c][id] = state]
      PROVE  runner' \in Tables(Runs)
  <2>1. runner' = [runner EXCEPT ![c] = [runner[c] EXCEPT ![id] = state]]
    BY <1>8, TypesOfTables
  <2> QED
    BY <2>1, RunnerChanges
<1>9. CASE /\ \E id \in RunnerIDs(c) : \/ RunAsDockerContainer(c, id)
                                       \/ RunnerConnects(c, id)
                                       \/ RunnerDies(c, id)
           /\ Survives(c)
  <2>1. /\ UNCHANGED <<data, sent>>
        /\ \E id \in RunnerIDs(c), state \in RunnerStates :
             runner' = [runner EXCEPT ![c][id] = state]
    BY <1>9 DEF RunAsDockerContainer, RunnerConnects, RunnerDies, Survives,
       RunnerStates
  <2> QED
    BY <1>1, <1>8, <2>1 DEF TableTypes
<1>10. CASE \E id \in RunnerIDs(c), fin \in BOOLEAN : RunnerEnds(c, id, fin)
  <2>1. PICK id \in RunnerIDs(c), fin \in BOOLEAN : RunnerEnds(c, id, fin)
    BY <1>10
  <2>2. /\ sent' = [sent EXCEPT ![c][id] = @ + 1] /\ UNCHANGED data
        /\ \E state \in RunnerStates :
             runner' = [runner EXCEPT ![c][id] = state]
    BY <2>1 DEF RunnerEnds, RunnerStates
  <2>3. [sent[c] EXCEPT ![id] = @ + 1] \in Counts[c]
    BY TypesOfTables DEF Counts
  <2>4. sent' = [sent EXCEPT ![c] = [sent[c] EXCEPT ![id] = @ + 1]]
    BY <2>2, TypesOfTables
  <2>5. sent' \in Tables(Counts)
    BY <1>1, <2>3, <2>4, TableChanges DEF TableTypes
  <2> QED
    BY <1>1, <1>8, <2>2, <2>5 DEF TableTypes
<1> QED
  <2>1. CASE StartDocker(c) \/ AddEmpty(c) \/ Interrupt(c) \/ Killed(c)
    BY <1>2, <1>3, <1>5, <2>1 DEF StartDocker, Interrupt, Killed, Survives
  <2>2. CASE ClientStep(c)
    BY <1>2, <1>3, <1>6, <1>7, <2>2
       DEF ClientStep, ListNetworks, CreateNetwork,
       ListContainers, CreateBroker, StartBroker, WaitForBroker, RemoveNetwork,
       Survives
  <2>3. CASE ReceiveStep(c)
    BY <1>2, <1>3, <1>4, <2>3 DEF ReceiveStep, Dial, Survives
  <2> QED
    BY <1>3, <1>9, <1>10, <2>1, <2>2, <2>3 DEF DockerStep, RunnerStep

-----------------------------------------------------------------------------
(* A program that dies says of what.                                       *)
LEMMA DeathStep ==
  ASSUME DockerTypes, DeathHasCause, NEW c \in Clients, DockerStep(c)
  PROVE  DeathHasCause'
<1> USE DEF DockerTypes, PlainTypes, DeathHasCause, Goto, past
<1>0. CASE ~Survives(c)
  BY <1>0 DEF Survives, Panic, Dies, UnchangedByDying
<1> SUFFICES ASSUME Survives(c) PROVE DeathHasCause'
  BY <1>0
<1>1. CASE StartDocker(c) \/ AddEmpty(c) \/ Interrupt(c) \/ Killed(c)
  BY <1>1 DEF StartDocker, AddEmpty, Interrupt, Killed, Survives
<1>2. CASE ListNetworks(c) \/ CreateNetwork(c) \/ ListContainers(c)
  BY <1>2 DEF ListNetworks, CreateNetwork, ListContainers, Survives
<1>3. CASE CreateBroker(c) \/ StartBroker(c) \/ WaitForBroker(c)
  BY <1>3 DEF CreateBroker, StartBroker, WaitForBroker, Survives
<1>4. CASE StopBroker(c) \/ StopRunners(c) \/ RemoveNetwork(c)
  BY <1>4 DEF StopBroker, StopRunners, RemoveNetwork, Survives
<1>5. CASE ReceiveStep(c)
  BY <1>5 DEF ReceiveStep, Dial, AddNext, Survives
<1>6. CASE \E id \in RunnerIDs(c) : RunnerStep(c, id) \/ RunnerDies(c, id)
  BY <1>6 DEF RunnerStep, RunAsDockerContainer, RunnerConnects, RunnerEnds,
     RunnerDies, Survives
<1> QED
  BY <1>1, <1>2, <1>3, <1>4, <1>5, <1>6 DEF DockerStep, ClientStep

(* Who makes a network or a broker remembers it until it is removed, ...   *)
LEMMA NetworkStep ==
  ASSUME DockerTypes, NetworkHasMaker, NEW c \in Clients, DockerStep(c)
  PROVE  NetworkHasMaker'
<1> USE DEF DockerTypes, PlainTypes, NetworkHasMaker, MakerRemains, HasNetwork,
            TearingDown, Goto, machine, handles, Owners
<1>0. CASE ~Survives(c)
  BY <1>0 DEF Survives, Panic, Dies, UnchangedByDying, Alive
<1> SUFFICES ASSUME Survives(c) PROVE NetworkHasMaker'
  BY <1>0
<1>1. CASE StartDocker(c) \/ AddEmpty(c) \/ Interrupt(c) \/ Killed(c)
  BY <1>1 DEF StartDocker, AddEmpty, Interrupt, Killed, Survives
<1>2. CASE ListNetworks(c) \/ CreateNetwork(c) \/ ListContainers(c)
  BY <1>2, DockerAssumption
     DEF ListNetworks, CreateNetwork, ListContainers, Survives
<1>3. CASE CreateBroker(c) \/ StartBroker(c) \/ WaitForBroker(c)
  BY <1>3 DEF CreateBroker, StartBroker, WaitForBroker, Survives
<1>4. CASE StopBroker(c) \/ StopRunners(c) \/ RemoveNetwork(c)
  BY <1>4 DEF StopBroker, StopRunners, RemoveNetwork, Survives
<1>5. CASE ReceiveStep(c)
  BY <1>5 DEF ReceiveStep, Dial, AddNext, Survives
<1>6. CASE \E id \in RunnerIDs(c) : RunnerStep(c, id) \/ RunnerDies(c, id)
  BY <1>6 DEF RunnerStep, RunAsDockerContainer, RunnerConnects, RunnerEnds,
     RunnerDies, Survives
<1> QED
  BY <1>1, <1>2, <1>3, <1>4, <1>5, <1>6 DEF DockerStep, ClientStep

(* ... and so does who makes a broker.                                     *)
LEMMA BrokerStep ==
  ASSUME DockerTypes, BrokerHasMaker, NEW c \in Clients, DockerStep(c)
  PROVE  BrokerHasMaker'
<1> USE DEF DockerTypes, PlainTypes, BrokerHasMaker, MakerRemains, HasBroker,
            TearingDown, Goto, machine, handles, Owners
<1>0. CASE ~Survives(c)
  BY <1>0 DEF Survives, Panic, Dies, UnchangedByDying, Alive
<1> SUFFICES ASSUME Survives(c) PROVE BrokerHasMaker'
  BY <1>0
<1>1. CASE StartDocker(c) \/ AddEmpty(c) \/ Interrupt(c) \/ Killed(c)
  BY <1>1 DEF StartDocker, AddEmpty, Interrupt, Killed, Survives
<1>2. CASE ListNetworks(c) \/ CreateNetwork(c) \/ ListContainers(c)
  BY <1>2 DEF ListNetworks, CreateNetwork, ListContainers, Survives
<1>3. CASE CreateBroker(c) \/ StartBroker(c) \/ WaitForBroker(c)
  <2>1. CASE CreateBroker(c)
    <3>1. broker' = [by |-> c, state |-> "created"]
      BY <2>1 DEF CreateBroker, Survives
    <3>2. broker'.by = c /\ brokerID' = [brokerID EXCEPT ![c] = c]
      BY <2>1, <3>1 DEF CreateBroker, Survives
    <3>3. session' = [session EXCEPT ![c] = "startBroker"]
      BY <2>1 DEF CreateBroker, Survives
    <3> QED
      BY <3>2, <3>3
  <2>2. CASE StartBroker(c)
    <3>1. IsBroker(c) /\ broker'.by = broker.by /\ UNCHANGED brokerID
      BY <2>2 DEF StartBroker, IsBroker, Survives
    <3>2. session' = [session EXCEPT ![c] = "waitForBroker"]
      BY <2>2 DEF StartBroker, Survives
    <3> QED
      BY <3>1, <3>2 DEF IsBroker
  <2>3. CASE WaitForBroker(c)
    BY <2>3 DEF WaitForBroker, Survives
  <2> QED
    BY <1>3, <2>1, <2>2, <2>3
<1>4. CASE StopBroker(c) \/ StopRunners(c) \/ RemoveNetwork(c)
  BY <1>4 DEF StopBroker, StopRunners, RemoveNetwork, IsBroker, Survives
<1>5. CASE ReceiveStep(c)
  BY <1>5 DEF ReceiveStep, Dial, AddNext, Survives
<1>6. CASE \E id \in RunnerIDs(c) : RunnerStep(c, id) \/ RunnerDies(c, id)
  BY <1>6 DEF RunnerStep, RunAsDockerContainer, RunnerConnects, RunnerEnds,
     RunnerDies, Survives
<1> QED
  BY <1>1, <1>2, <1>3, <1>4, <1>5, <1>6 DEF DockerStep, ClientStep

-----------------------------------------------------------------------------
(* A step moves one client, and never back.                                *)
ClientMoves(c) ==
  /\ \A d \in Clients \ {c} : session'[d] = session[d]
  /\ session[c] \in AfterSetup => session'[c] \in AfterSetup
  /\ session[c] \in {"over", "dead"} => session'[c] = session[c]
  /\ session'[c] = "over" => session[c] = "over" \/ RemoveNetwork(c)
  /\ session'[c] = "removeNetwork" =>
       session[c] = "removeNetwork" \/ StopRunners(c)
  /\ session'[c] = "off" => session[c] = "off"
  /\ session'[c] = "testing" =>
       session[c] = "testing" \/ session[c] \in SettingUp

(* Only a program that runs can die.                                       *)
LEMMA OnlyAliveDie ==
  ASSUME DockerTypes, NEW c \in Clients, DockerStep(c), ~Survives(c)
  PROVE  Alive(c) \/ session[c] = "dead"
<1> USE DEF DockerTypes, PlainTypes, Alive, TearingDown, SettingUp
<1>1. session'[c] = "dead"
  BY DEF Survives, Panic, Dies, Goto
<1>2. CASE session' = session
  BY <1>1, <1>2
<1>3. CASE StartDocker(c) \/ AddEmpty(c) \/ Interrupt(c) \/ Killed(c)
  BY <1>1, <1>3 DEF StartDocker, AddEmpty, Interrupt, Killed, Goto
<1>4. CASE ClientStep(c)
  BY <1>4 DEF ClientStep, ListNetworks, CreateNetwork, ListContainers,
     CreateBroker, StartBroker, WaitForBroker, StopBroker, StopRunners,
     RemoveNetwork
<1>5. CASE ReceiveStep(c)
  BY <1>5 DEF ReceiveStep, Dial, AddNext, Started
<1>6. CASE \E id \in RunnerIDs(c) : RunnerStep(c, id) \/ RunnerDies(c, id)
  BY <1>2, <1>6
     DEF RunnerStep, RunAsDockerContainer, RunnerConnects, RunnerEnds,
     RunnerDies, Started
<1> QED
  BY <1>3, <1>4, <1>5, <1>6 DEF DockerStep

(* Every step of a client moves it so.                                     *)
LEMMA SessionMoves ==
  ASSUME DockerTypes, NEW c \in Clients, DockerStep(c)
  PROVE  ClientMoves(c)
<1> USE DEF DockerTypes, PlainTypes, ClientMoves, AfterSetup, TearingDown,
            SettingUp, Goto, Alive, Started
<1>0. CASE ~Survives(c)
  BY <1>0, OnlyAliveDie DEF Survives, Panic, Dies, UnchangedByDying
<1> SUFFICES ASSUME Survives(c) PROVE ClientMoves(c)
  BY <1>0
<1>1. CASE StartDocker(c) \/ AddEmpty(c) \/ Interrupt(c) \/ Killed(c)
  BY <1>1 DEF StartDocker, AddEmpty, Interrupt, Killed, Survives
<1>2. CASE ListNetworks(c) \/ CreateNetwork(c) \/ ListContainers(c)
  BY <1>2 DEF ListNetworks, CreateNetwork, ListContainers, Survives
<1>3. CASE CreateBroker(c) \/ StartBroker(c) \/ WaitForBroker(c)
  BY <1>3 DEF CreateBroker, StartBroker, WaitForBroker, Survives
<1>4. CASE StopBroker(c) \/ StopRunners(c) \/ RemoveNetwork(c)
  BY <1>4 DEF StopBroker, StopRunners, RemoveNetwork, Survives
<1>5. CASE ReceiveStep(c)
  BY <1>5 DEF ReceiveStep, Dial, AddNext, Survives
<1>6. CASE \E id \in RunnerIDs(c) : RunnerStep(c, id) \/ RunnerDies(c, id)
  BY <1>6 DEF RunnerStep, RunAsDockerContainer, RunnerConnects, RunnerEnds,
     RunnerDies, Survives
<1> QED
  BY <1>1, <1>2, <1>3, <1>4, <1>5, <1>6 DEF DockerStep, ClientStep

(* A runner goes on, ends with a report, or is stopped.                    *)
RunnerMoves(c, d, id) ==
  \/ UNCHANGED <<runner[d][id], sent[d][id]>>
  \/ /\ runner[d][id] \in Running /\ runner'[d][id] = "dead"
     /\ UNCHANGED sent[d][id]
  \/ /\ d = c /\ session[c] \in AfterSetup \ {"over", "dead"}
     /\ runner[d][id] = "none" /\ runner'[d][id] = "starting"
     /\ UNCHANGED <<sent[d][id], session>>
  \/ /\ d = c /\ runner[d][id] = "starting" /\ runner'[d][id] = "running"
     /\ Listening /\ UNCHANGED <<broker, sent[d][id]>>
  \/ /\ d = c /\ runner[d][id] = "running" /\ runner'[d][id] \in Reported
     /\ sent'[d][id] = sent[d][id] + 1 /\ UNCHANGED broker

(* Every step moves every runner so.                                       *)
LEMMA RunnersMove ==
  ASSUME DockerTypes, NEW c \in Clients, DockerStep(c),
         NEW d \in Clients, NEW id \in RunnerIDs(d)
  PROVE  RunnerMoves(c, d, id)
<1> USE DEF tests, RunnerMoves
<1>0. CASE UNCHANGED <<runner, sent>>
  BY <1>0
<1>1. CASE ~Survives(c)
  BY <1>0, <1>1 DEF Survives, Panic, Dies, UnchangedByDying
<1> SUFFICES ASSUME Survives(c) PROVE RunnerMoves(c, d, id)
  BY <1>1
<1>2. CASE StartDocker(c) \/ AddEmpty(c) \/ Interrupt(c) \/ Killed(c)
  BY <1>0, <1>2 DEF StartDocker, AddEmpty, Interrupt, Killed, Survives
<1>3. CASE ClientStep(c) /\ ~StopBroker(c) /\ ~StopRunners(c)
  BY <1>0, <1>3 DEF ClientStep, ListNetworks, CreateNetwork, ListContainers,
     CreateBroker, StartBroker, WaitForBroker, RemoveNetwork, Survives
<1>4. CASE StopBroker(c)
  BY <1>4 DEF StopBroker, Runners, Running, Survives
<1>5. CASE StopRunners(c)
  BY <1>5 DEF StopRunners, Runners, Running
<1>6. CASE ReceiveStep(c)
  BY <1>0, <1>6 DEF ReceiveStep, Dial, AddNext, Survives
<1>7. ASSUME NEW k \in RunnerIDs(c), RunAsDockerContainer(c, k)
      PROVE  RunnerMoves(c, d, id)
  BY <1>7, TypesOfTables
     DEF RunAsDockerContainer, Survives, Started, AfterSetup,
     TearingDown
<1>8. ASSUME NEW k \in RunnerIDs(c), RunnerConnects(c, k)
      PROVE  RunnerMoves(c, d, id)
  BY <1>8, TypesOfTables DEF RunnerConnects, machine, Running
<1>9. ASSUME NEW k \in RunnerIDs(c), RunnerDies(c, k)
      PROVE  RunnerMoves(c, d, id)
  BY <1>9, TypesOfTables DEF RunnerDies, Running
<1>10. ASSUME NEW k \in RunnerIDs(c), NEW fin \in BOOLEAN,
              RunnerEnds(c, k, fin)
       PROVE  RunnerMoves(c, d, id)
  BY <1>10, TypesOfTables DEF RunnerEnds, Reported
<1> QED
  BY <1>2, <1>3, <1>4, <1>5, <1>6, <1>7, <1>8, <1>9, <1>10
     DEF DockerStep, ClientStep, RunnerStep

(* A client that removes its network leaves no runner behind, and starts   *)
(* none before its Setup has returned.                                     *)
LEMMA RunnersEndStep ==
  ASSUME DockerTypes, RunnersEndBefore, NEW c \in Clients, DockerStep(c)
  PROVE  RunnersEndBefore'
<1> SUFFICES ASSUME NEW d \in Clients, NEW id \in RunnerIDs(d)
             PROVE  /\ runner'[d][id] # "none" => session'[d] \in AfterSetup
                    /\ runner'[d][id] \in Running => session'[d] # "over"
                    /\ sent'[d][id] =
                         IF runner'[d][id] \in {"ended", "unfinished"} THEN 1 ELSE 0
  BY DEF RunnersEndBefore
<1>1. RunnerMoves(c, d, id) /\ ClientMoves(c)
  BY RunnersMove, SessionMoves
<1>2. RemoveNetwork(c) /\ session'[c] = "over" =>
        runner[d][id] \notin Running /\ UNCHANGED <<runner, sent>>
  BY DEF RemoveNetwork, InUse, tests, Panic, Dies, Goto, DockerTypes,
     PlainTypes
<1>3. /\ runner[d][id] # "none" => session[d] \in AfterSetup
      /\ runner[d][id] \in Running => session[d] # "over"
      /\ sent[d][id] = IF runner[d][id] \in {"ended", "unfinished"} THEN 1 ELSE 0
  BY DEF RunnersEndBefore
<1> QED
  BY <1>1, <1>2, <1>3
     DEF RunnerMoves, ClientMoves, Running, Reported, AfterSetup

-----------------------------------------------------------------------------
(* What a runner sends, once.                                              *)
Report(c, id, fin) == [from |-> c, id |-> id, fin |-> fin]

(* The reader is at the end of the results.                                *)
AllFinished(c) == \A id \in RunnerIDs(c) : data[c][id].fin

(* A client takes the next message, and may have come to that end.         *)
LEMMA NextResult ==
  ASSUME DockerTypes, NEW c \in Clients, AddNext(c), Survives(c)
  PROVE  /\ session[c] = "testing" /\ inbox[c] # <<>>
         /\ UNCHANGED <<machine, tests, overlap, disturbed, interrupted,
                        cause>>
         /\ \/ /\ UNCHANGED <<session, consumer>>
               /\ inbox' = [inbox EXCEPT ![c] = Tail(inbox[c])]
            \/ /\ session' = [session EXCEPT ![c] = "stopBroker"]
               /\ consumer' = [consumer EXCEPT ![c] = "closed"]
               /\ inbox' = [inbox EXCEPT ![c] = <<>>]
               /\ AllFinished(c)'
<1> DEFINE m == Head(inbox[c])
           added == [data[c] EXCEPT ![m.id] = AddResult(@, m)]
<1>1. DOMAIN added = RunnerIDs(c)
  BY TypesOfTables
<1>2. data' = [data EXCEPT ![c] = added]
  BY DEF AddNext, Survives
<1>3. data'[c] = added
  BY <1>2, TypesOfTables
<1>4. AllLambdasFinished(added) => AllFinished(c)'
  BY <1>1, <1>3 DEF AllLambdasFinished, AllFinished
<1>5. \/ /\ UNCHANGED <<session, consumer>>
         /\ inbox' = [inbox EXCEPT ![c] = Tail(inbox[c])]
      \/ /\ session' = [session EXCEPT ![c] = "stopBroker"]
         /\ consumer' = [consumer EXCEPT ![c] = "closed"]
         /\ inbox' = [inbox EXCEPT ![c] = <<>>]
         /\ AllLambdasFinished(added)
  BY DEF AddNext, Survives, Goto
<1>6. /\ session[c] = "testing" /\ inbox[c] # <<>>
      /\ UNCHANGED <<machine, tests, overlap, disturbed, interrupted, cause>>
  BY DEF AddNext, Survives
<1> QED
  BY <1>4, <1>5, <1>6

(* A client receives what the broker deals out to it, or has kept; reads   *)
(* the next; or stops receiving.                                           *)
ReceiveMoves(c, d) ==
  \/ /\ \/ UNCHANGED consumer[d]
        \/ consumer[d] = "open" /\ consumer'[d] = "lost" /\ StopBroker(c)
     /\ UNCHANGED inbox[d]
     /\ session'[d] = "dead" => session[d] = "dead"
  \/ /\ consumer[d] = "open" /\ session[d] = "testing" /\ UNCHANGED session[d]
     /\ UNCHANGED consumer[d]
     /\ \E id \in RunnerIDs(c), fin \in BOOLEAN :
          /\ RunnerEnds(c, id, fin)
          /\ inbox'[d] = Append(inbox[d], Report(c, id, fin))
  \/ /\ d = c /\ Started(c) /\ UNCHANGED session
     /\ consumer[c] = "none" /\ consumer'[c] = "open"
     /\ Listening /\ UNCHANGED broker
     /\ inbox'[c] = channel /\ channel' = <<>>
  \/ /\ d = c /\ session'[c] = "dead"
     /\ consumer'[c] = "none" /\ inbox'[c] = <<>>
  \/ /\ d = c /\ session[c] = "testing" /\ UNCHANGED <<session, consumer[c]>>
     /\ inbox[c] # <<>> /\ inbox'[c] = Tail(inbox[c])
  \/ /\ d = c /\ session[c] = "testing" /\ session'[c] = "stopBroker"
     /\ inbox'[c] = <<>>
     /\ \/ interrupted'[c] /\ UNCHANGED consumer[c]
        \/ AllFinished(c)' /\ consumer'[c] = "closed"

(* Every step moves every receiver so.                                     *)
LEMMA ReceiversMove ==
  ASSUME DockerTypes, NEW c \in Clients, DockerStep(c), NEW d \in Clients
  PROVE  ReceiveMoves(c, d)
<1> USE DEF DockerTypes, PlainTypes, receive, tests, machine, Goto
<1>0. CASE UNCHANGED <<consumer, inbox>> /\ session'[c] # "dead"
  BY <1>0, SessionMoves DEF ReceiveMoves, ClientMoves
<1>1. CASE UNCHANGED <<consumer, inbox, session>>
  BY <1>1 DEF ReceiveMoves
<1>2. CASE ~Survives(c)
  BY <1>2, SessionMoves DEF Survives, Panic, Dies, ReceiveMoves, ClientMoves
<1> SUFFICES ASSUME Survives(c) PROVE ReceiveMoves(c, d)
  BY <1>2
<1>3. CASE StartDocker(c) \/ AddEmpty(c) \/ Killed(c)
  BY <1>0, <1>1, <1>3 DEF StartDocker, AddEmpty, Killed, Survives
<1>4. CASE ClientStep(c) /\ ~StopBroker(c)
  BY <1>0, <1>4 DEF ClientStep, ListNetworks, CreateNetwork, ListContainers,
     CreateBroker, StartBroker, WaitForBroker, RemoveNetwork, StopRunners,
     Survives
<1>5. CASE StopBroker(c)
  <2>1. /\ consumer' = [e \in Clients |->
                         IF consumer[e] = "open" THEN "lost" ELSE consumer[e]]
        /\ session' = [session EXCEPT ![c] = "stopRunners"] /\ UNCHANGED inbox
    BY <1>5 DEF StopBroker, Survives
  <2>2. session'[d] = "dead" => session[d] = "dead"
    BY <2>1
  <2>3. consumer'[d] = IF consumer[d] = "open" THEN "lost" ELSE consumer[d]
    BY <2>1
  <2> QED
    BY <1>5, <2>1, <2>2, <2>3 DEF ReceiveMoves
<1>6. CASE Interrupt(c)
  BY <1>0, <1>6 DEF Interrupt, ReceiveMoves
<1>7. CASE Dial(c)
  BY <1>7 DEF Dial, ReceiveMoves, Survives
<1>8. CASE AddNext(c)
  <2>1. CASE d = c
    BY <1>8, <2>1, NextResult DEF ReceiveMoves
  <2>2. CASE d # c
    <3>1. /\ \/ UNCHANGED <<session, consumer>>
             \/ /\ session' = [session EXCEPT ![c] = "stopBroker"]
                /\ consumer' = [consumer EXCEPT ![c] = "closed"]
          /\ \/ inbox' = [inbox EXCEPT ![c] = Tail(inbox[c])]
             \/ inbox' = [inbox EXCEPT ![c] = <<>>]
      BY <1>8, NextResult
    <3>2. UNCHANGED <<consumer[d], inbox[d], session[d]>>
      BY <2>2, <3>1
    <3> QED
      BY <3>2 DEF ReceiveMoves
  <2> QED
    BY <2>1, <2>2
<1>9. CASE \E id \in RunnerIDs(c) : \/ RunAsDockerContainer(c, id)
                                    \/ RunnerConnects(c, id)
                                    \/ RunnerDies(c, id)
  BY <1>1, <1>9 DEF RunAsDockerContainer, RunnerConnects, RunnerDies, Survives
<1>10. ASSUME NEW id \in RunnerIDs(c), NEW fin \in BOOLEAN,
              RunnerEnds(c, id, fin)
       PROVE  ReceiveMoves(c, d)
  <2>1. /\ UNCHANGED <<session, consumer>>
        /\ Publish(Report(c, id, fin))
    BY <1>10 DEF RunnerEnds, Report
  <2>3. CASE UNCHANGED inbox
    BY <1>1, <2>1, <2>3
  <2>4. ASSUME NEW e \in Clients, consumer[e] = "open", session[e] = "testing",
               inbox' = [inbox EXCEPT ![e] =
                           Append(inbox[e], Report(c, id, fin))]
        PROVE  ReceiveMoves(c, d)
    <3>1. CASE d = e
      BY <1>10, <2>1, <2>4, <3>1 DEF ReceiveMoves
    <3>2. CASE d # e
      BY <2>1, <2>4, <3>2 DEF ReceiveMoves
    <3> QED
      BY <3>1, <3>2
  <2> QED
    BY <2>1, <2>3, <2>4 DEF Publish
<1> QED
  BY <1>3, <1>4, <1>5, <1>6, <1>7, <1>8, <1>9, <1>10
     DEF DockerStep, ClientStep, ReceiveStep, RunnerStep

(* The queue of the broker is emptied at once, or a report is added.       *)
LEMMA ChannelMoves ==
  ASSUME DockerTypes, NEW c \in Clients, DockerStep(c)
  PROVE  \/ channel' \in {channel, <<>>}
         \/ \E id \in RunnerIDs(c), fin \in BOOLEAN : RunnerEnds(c, id, fin)
<1> USE DEF machine
<1>1. CASE ~Survives(c)
  BY <1>1 DEF Survives, Panic, UnchangedByDying
<1>2. CASE StartDocker(c) \/ AddEmpty(c) \/ Interrupt(c) \/ Killed(c)
  BY <1>1, <1>2 DEF StartDocker, AddEmpty, Interrupt, Killed, Survives
<1>3. CASE ClientStep(c)
  BY <1>1, <1>3 DEF ClientStep, ListNetworks, CreateNetwork, ListContainers,
     CreateBroker, StartBroker, WaitForBroker, StopBroker, StopRunners,
     RemoveNetwork, Survives
<1>4. CASE ReceiveStep(c)
  BY <1>1, <1>4 DEF ReceiveStep, Dial, AddNext, Survives
<1>5. CASE \E id \in RunnerIDs(c) : RunnerStep(c, id) \/ RunnerDies(c, id)
  BY <1>1, <1>5 DEF RunnerStep, RunAsDockerContainer, RunnerConnects,
     RunnerDies, Survives
<1> QED
  BY <1>2, <1>3, <1>4, <1>5 DEF DockerStep

(* The broker stops listening only when it is stopped.                     *)
LEMMA BrokerMoves ==
  ASSUME DockerTypes, NEW c \in Clients, DockerStep(c), Listening, ~Listening'
  PROVE  StopBroker(c) /\ Survives(c)
<1> USE DEF Listening
<1>1. CASE UNCHANGED broker
  BY <1>1
<1>2. CASE ~Survives(c)
  BY <1>2 DEF Survives, Panic, Dies, UnchangedByDying, machine
<1>3. CASE Survives(c)
  <2> USE <1>3 DEF machine
  <2>1. CASE StartDocker(c) \/ AddEmpty(c) \/ Interrupt(c) \/ Killed(c)
    BY <1>1, <2>1 DEF StartDocker, AddEmpty, Interrupt, Killed, Survives
  <2>2. CASE /\ ClientStep(c)
             /\ ~CreateBroker(c) /\ ~StartBroker(c) /\ ~StopBroker(c)
    BY <1>1, <2>2 DEF ClientStep, ListNetworks, CreateNetwork, ListContainers,
       WaitForBroker, StopRunners, RemoveNetwork, Survives
  <2>3. CASE CreateBroker(c) \/ StartBroker(c)
    BY <2>3 DEF CreateBroker, StartBroker, NoBroker, Survives
  <2>4. CASE ReceiveStep(c)
    BY <1>1, <2>4 DEF ReceiveStep, Dial, AddNext, Survives
  <2>5. CASE \E id \in RunnerIDs(c) : RunnerStep(c, id) \/ RunnerDies(c, id)
    BY <1>1, <2>5 DEF RunnerStep, RunAsDockerContainer, RunnerConnects,
       RunnerEnds, RunnerDies, Survives
  <2> QED
    BY <2>1, <2>2, <2>3, <2>4, <2>5 DEF DockerStep, ClientStep
<1> QED
  BY <1>2, <1>3

(* Messages, connections and connected runners vanish with the broker.     *)
LEMMA BrokerGoesWithAll ==
  ASSUME DockerTypes, NothingWithoutBroker, NEW c \in Clients, DockerStep(c)
  PROVE  NothingWithoutBroker'
<1> SUFFICES ASSUME ~Listening'
             PROVE  /\ channel' = <<>>
                    /\ \A d \in Clients :
                         /\ consumer'[d] # "open"
                         /\ \A id \in RunnerIDs(d) : runner'[d][id] # "running"
  BY DEF NothingWithoutBroker
<1>1. CASE Listening
  <2>1. StopBroker(c) /\ Survives(c)
    BY <1>1, BrokerMoves
  <2>2. /\ channel' = <<>>
        /\ consumer' = [d \in Clients |->
                         IF consumer[d] = "open" THEN "lost" ELSE consumer[d]]
        /\ runner' = Runners({"running"}, "dead")
    BY <2>1 DEF StopBroker, Survives
  <2> QED
    BY <2>2 DEF Runners
<1>2. CASE ~Listening
  <2>1. /\ channel = <<>>
        /\ \A d \in Clients :
             /\ consumer[d] # "open"
             /\ \A id \in RunnerIDs(d) : runner[d][id] # "running"
    BY <1>2 DEF NothingWithoutBroker
  <2>2. ASSUME NEW d \in Clients PROVE consumer'[d] # "open"
    BY <1>2, <2>1, ReceiversMove DEF ReceiveMoves
  <2>3. ASSUME NEW d \in Clients, NEW id \in RunnerIDs(d)
        PROVE  runner'[d][id] # "running"
    BY <1>2, <2>1, RunnersMove DEF RunnerMoves, Running, Reported
  <2>4. channel' = <<>>
    BY <2>1, ChannelMoves DEF RunnerEnds
  <2> QED
    BY <2>2, <2>3, <2>4
<1> QED
  BY <1>1, <1>2

(* No connection before Setup has returned, or after the regular end.      *)
LEMMA ReceivesStep ==
  ASSUME DockerTypes, ReceivesAfterSetup, NothingWithoutBroker,
         NEW c \in Clients, DockerStep(c)
  PROVE  ReceivesAfterSetup'
<1> SUFFICES ASSUME NEW d \in Clients
             PROVE  /\ consumer'[d] = "none" => inbox'[d] = <<>>
                    /\ consumer'[d] # "none" =>
                         session'[d] \in AfterSetup \ {"dead"}
                    /\ consumer'[d] = "open" => session'[d] # "over"
  BY DEF ReceivesAfterSetup
<1>1. ReceiveMoves(c, d) /\ ClientMoves(c)
  BY ReceiversMove, SessionMoves
<1>2. /\ consumer[d] = "none" => inbox[d] = <<>>
      /\ consumer[d] # "none" => session[d] \in AfterSetup \ {"dead"}
      /\ consumer[d] = "open" => session[d] # "over"
  BY DEF ReceivesAfterSetup
<1>3. session'[c] = "over" /\ RemoveNetwork(c) =>
        consumer[d] # "open" /\ UNCHANGED consumer
  BY DEF RemoveNetwork, InUse, Panic, Dies, Goto, DockerTypes, PlainTypes,
     NothingWithoutBroker, Listening, receive
<1> QED
  BY <1>1, <1>2, <1>3
     DEF ReceiveMoves, ClientMoves, AfterSetup, Started, TearingDown

-----------------------------------------------------------------------------
(* A sequence over a set is one over any larger set.                       *)
LEMMA SeqGrows ==
  ASSUME NEW S, NEW T, S \subseteq T, NEW s \in Seq(S)
  PROVE  s \in Seq(T)
  OBVIOUS

(* A report that says "finished" is that of a runner that has ended.       *)
LEMMA ReportIsSaid ==
  ASSUME DockerTypes, NEW c \in Clients, NEW id \in RunnerIDs(c),
         NEW fin \in BOOLEAN, RunnerEnds(c, id, fin)
  PROVE  Report(c, id, fin) \in Said'
<1>1. runner'[c][id] = IF fin THEN "ended" ELSE "unfinished"
  BY TypesOfTables DEF RunnerEnds
<1>2. Report(c, id, fin) \in Messages
  BY IdsAreNumbers DEF Messages, Report
<1> QED
  BY <1>1, <1>2 DEF Said, Report, Reported

(* Messages that were said remain said, and what is added was said.        *)
LEMMA SaidStep ==
  ASSUME DockerTypes, MessagesAreSaid, NEW c \in Clients, DockerStep(c)
  PROVE  MessagesAreSaid'
<1>1. Said \subseteq Said'
  <2> SUFFICES ASSUME NEW m \in Said PROVE m \in Said'
    OBVIOUS
  <2>1. m \in Messages /\ m.from \in Clients /\ m.id \in RunnerIDs(m.from)
    BY DEF Said, Messages
  <2>2. RunnerMoves(c, m.from, m.id)
    BY <2>1, RunnersMove
  <2> QED
    BY <2>1, <2>2 DEF Said, RunnerMoves, Running, Reported
<1>2. /\ channel \in Seq(Said') /\ <<>> \in Seq(Said')
      /\ \A d \in Clients : inbox[d] \in Seq(Said')
  <2>1. \A S : <<>> \in Seq(S)
    OBVIOUS
  <2> QED
    BY <1>1, <2>1, SeqGrows DEF MessagesAreSaid
<1>3. channel' \in Seq(Said')
  <2>1. CASE channel' \in {channel, <<>>}
    BY <1>2, <2>1
  <2>2. ASSUME NEW id \in RunnerIDs(c), NEW fin \in BOOLEAN,
               RunnerEnds(c, id, fin)
        PROVE  channel' \in Seq(Said')
    <3>1. channel' = channel \/ channel' = Append(channel, Report(c, id, fin))
      BY <2>2 DEF RunnerEnds, Publish, Report
    <3> QED
      BY <1>2, <2>2, <3>1, ReportIsSaid
  <2> QED
    BY <2>1, <2>2, ChannelMoves
<1>4. ASSUME NEW d \in Clients PROVE inbox'[d] \in Seq(Said')
  <2>1. CASE inbox'[d] \in {inbox[d], <<>>, channel}
    BY <1>2, <2>1
  <2>2. CASE inbox[d] # <<>> /\ inbox'[d] = Tail(inbox[d])
    BY <1>2, <2>2
  <2>3. ASSUME NEW id \in RunnerIDs(c), NEW fin \in BOOLEAN,
               RunnerEnds(c, id, fin),
               inbox'[d] = Append(inbox[d], Report(c, id, fin))
        PROVE  inbox'[d] \in Seq(Said')
    BY <1>2, <2>3, ReportIsSaid
  <2> QED
    BY <2>1, <2>2, <2>3, ReceiversMove DEF ReceiveMoves
<1> QED
  BY <1>3, <1>4 DEF MessagesAreSaid

-----------------------------------------------------------------------------
(* What the history says of a client stays said.                           *)
HistoryGrows ==
  \A d \in Clients :
    /\ overlap[d] /\ session[d] # "off" => overlap'[d]
    /\ disturbed[d] /\ session[d] # "off" => disturbed'[d]
    /\ misled[d] => misled'[d]
    /\ interrupted[d] => interrupted'[d]

(* No step makes the history forget.                                       *)
LEMMA HistoryStep ==
  ASSUME DockerTypes, NEW c \in Clients, DockerStep(c)
  PROVE  HistoryGrows
<1> USE DEF DockerTypes, PlainTypes, HistoryGrows, past
<1>0. CASE ~Survives(c)
  BY <1>0 DEF Survives, Panic, UnchangedByDying
<1>1. CASE StartDocker(c) \/ AddEmpty(c) \/ Interrupt(c) \/ Killed(c)
  <2>1. CASE StartDocker(c)
    <3>1. /\ \A d \in Clients \ {c} : overlap[d] => overlap'[d]
          /\ \A d \in Clients \ {c} : disturbed[d] => disturbed'[d]
          /\ UNCHANGED <<misled, interrupted>> /\ session[c] = "off"
      BY <2>1 DEF StartDocker
    <3> QED
      BY <3>1
  <2> QED
    BY <1>0, <1>1, <2>1 DEF AddEmpty, Interrupt, Killed, Survives
<1>2. CASE ClientStep(c)
  BY <1>0, <1>2 DEF ClientStep, ListNetworks, CreateNetwork, ListContainers,
     CreateBroker, StartBroker, WaitForBroker, StopBroker, StopRunners,
     RemoveNetwork, Survives
<1>3. CASE ReceiveStep(c)
  BY <1>0, <1>3 DEF ReceiveStep, Dial, AddNext, Survives
<1>4. CASE \E id \in RunnerIDs(c) : RunnerStep(c, id) \/ RunnerDies(c, id)
  BY <1>0, <1>4 DEF RunnerStep, RunAsDockerContainer, RunnerConnects,
     RunnerEnds, RunnerDies, Survives
<1> QED
  BY <1>1, <1>2, <1>3, <1>4 DEF DockerStep

(* A result is lost with its client, loses its "finished" without the      *)
(* broker, or takes the next message.                                      *)
ResultMoves(c, d, id) ==
  \/ UNCHANGED data[d][id]
  \/ d = c /\ session'[c] = "dead" /\ ~data'[d][id].fin
  \/ /\ d = c /\ session[c] = "testing"
     /\ UNCHANGED <<session, inbox, channel, sent>>
     /\ ~data'[d][id].fin /\ data'[d][id].count = data[d][id].count
  \/ /\ d = c /\ AddNext(c) /\ Survives(c)
     /\ Head(inbox[c]).id = id
     /\ data'[d][id] = AddResult(data[d][id], Head(inbox[c]))

(* Every step moves every result so.                                       *)
LEMMA ResultsMove ==
  ASSUME DockerTypes, NEW c \in Clients, DockerStep(c),
         NEW d \in Clients, NEW id \in RunnerIDs(d)
  PROVE  ResultMoves(c, d, id)
<1> USE DEF receive, machine, tests
<1>0. CASE UNCHANGED data
  BY <1>0 DEF ResultMoves
<1>1. CASE ~Survives(c)
  <2>1. /\ data' = [data EXCEPT ![c] = NoResults(c)]
        /\ session' = [session EXCEPT ![c] = "dead"]
    BY <1>1 DEF Survives, Panic, Dies, Goto
  <2> QED
    BY <2>1, TypesOfTables DEF NoResults, ResultMoves, DockerTypes, PlainTypes
<1> SUFFICES ASSUME Survives(c) PROVE ResultMoves(c, d, id)
  BY <1>1
<1>2. CASE StartDocker(c) \/ Interrupt(c) \/ Killed(c)
  BY <1>0, <1>2 DEF StartDocker, Interrupt, Killed, Survives
<1>3. CASE ClientStep(c)
  BY <1>0, <1>3 DEF ClientStep, ListNetworks, CreateNetwork, ListContainers,
     CreateBroker, StartBroker, WaitForBroker, StopBroker, StopRunners,
     RemoveNetwork, Survives
<1>4. CASE AddEmpty(c)
  <2>1. /\ session[c] = "testing" /\ UNCHANGED <<session, inbox, channel, sent>>
        /\ data' = [data EXCEPT ![c] =
                      [data[c] EXCEPT ![0] = [data[c][0] EXCEPT !.fin = FALSE]]]
    BY <1>4, TypesOfTables DEF AddEmpty, Survives
  <2>2. 0 \in RunnerIDs(c) /\ data[c][0] \in [count : Nat, fin : BOOLEAN]
    BY IdsAreNumbers, TypesOfTables
  <2>3. \A r \in [count : Nat, fin : BOOLEAN] :
          /\ ~[r EXCEPT !.fin = FALSE].fin
          /\ [r EXCEPT !.fin = FALSE].count = r.count
    OBVIOUS
  <2> QED
    BY <2>1, <2>2, <2>3, TypesOfTables DEF ResultMoves
<1>5. CASE Dial(c)
  BY <1>0, <1>5 DEF Dial, Survives
<1>6. CASE AddNext(c)
  <2> DEFINE m == Head(inbox[c])
  <2>1. /\ m.id \in RunnerIDs(c)
        /\ data' = [data EXCEPT ![c] =
                      [data[c] EXCEPT ![m.id] = AddResult(data[c][m.id], m)]]
    BY <1>6, TypesOfTables DEF AddNext, Survives
  <2> QED
    BY <1>6, <2>1, TypesOfTables DEF ResultMoves
<1>7. CASE \E k \in RunnerIDs(c) : RunnerStep(c, k) \/ RunnerDies(c, k)
  BY <1>0, <1>7 DEF RunnerStep, RunAsDockerContainer, RunnerConnects,
     RunnerEnds, RunnerDies, Survives
<1> QED
  BY <1>2, <1>3, <1>4, <1>5, <1>6, <1>7 DEF DockerStep, ReceiveStep

(* A finished result comes of a report.                                    *)
LEMMA FinishedStep ==
  ASSUME DockerTypes, MessagesAreSaid, FinishedWasReported,
         NEW c \in Clients, DockerStep(c)
  PROVE  FinishedWasReported'
<1> SUFFICES ASSUME NEW d \in Clients, NEW id \in RunnerIDs(d),
                    data'[d][id].fin
             PROVE  /\ data'[d][id].count >= 1
                    /\ misled'[d] \/ runner'[d][id] = "ended"
  BY DEF FinishedWasReported
<1>1. ResultMoves(c, d, id) /\ RunnerMoves(c, d, id) /\ HistoryGrows
  BY ResultsMove, RunnersMove, HistoryStep
<1>2. CASE data[d][id].fin /\ UNCHANGED data[d][id]
  BY <1>1, <1>2 DEF FinishedWasReported, RunnerMoves, Running, HistoryGrows
<1>3. CASE /\ d = c /\ AddNext(c) /\ Survives(c)
           /\ Head(inbox[c]).id = id
           /\ data'[d][id] = AddResult(data[d][id], Head(inbox[c]))
  <2> DEFINE m == Head(inbox[c])
  <2>1. inbox[c] # <<>> /\ misled' = [misled EXCEPT ![c] = @ \/ m.from # c]
        /\ UNCHANGED runner
    BY <1>3 DEF AddNext, Survives, tests
  <2>2. m \in Said
    BY <2>1 DEF MessagesAreSaid
  <2>3. data'[d][id].count = data[d][id].count + 1 /\ m.fin
    BY <1>3 DEF AddResult
  <2>4. data'[d][id].count >= 1
    BY <2>3, TypesOfTables
  <2>5. misled'[d] \/ m.from = c
    BY <1>3, <2>1 DEF DockerTypes, PlainTypes
  <2> QED
    BY <1>3, <2>1, <2>2, <2>3, <2>4, <2>5 DEF Said
<1> QED
  BY <1>1, <1>2, <1>3, TypesOfTables DEF ResultMoves

(* A teardown that comes of the last result.                               *)
EndsTest(c) ==
  /\ session[c] = "testing" /\ session'[c] = "stopBroker"
  /\ inbox'[c] = <<>>
  /\ interrupted'[c] \/ (consumer'[c] = "closed" /\ AllFinished(c)')

(* No other step begins a teardown.                                        *)
LEMMA TeardownBegins ==
  ASSUME DockerTypes, NEW c \in Clients, DockerStep(c),
         session'[c] \in TearingDown \cup {"over"},
         session[c] \notin TearingDown \cup {"over"}
  PROVE  EndsTest(c)
<1> USE DEF TearingDown, Goto, EndsTest, DockerTypes, PlainTypes
<1>1. CASE ~Survives(c)
  BY <1>1 DEF Survives, Panic, Dies
<1> SUFFICES ASSUME Survives(c) PROVE EndsTest(c)
  BY <1>1
<1>2. CASE StartDocker(c) \/ AddEmpty(c) \/ Killed(c)
  BY <1>2 DEF StartDocker, AddEmpty, Killed, Survives
<1>3. CASE Interrupt(c)
  <2>1. /\ session' = [session EXCEPT ![c] = "stopBroker"]
        /\ session[c] = "testing"
    BY <1>3 DEF Interrupt
  <2>2. /\ interrupted' = [interrupted EXCEPT ![c] = TRUE]
        /\ inbox' = [inbox EXCEPT ![c] = <<>>]
    BY <1>3 DEF Interrupt
  <2>3. interrupted'[c] /\ inbox'[c] = <<>>
    BY <2>2
  <2>4. session'[c] = "stopBroker"
    BY <2>1
  <2> QED
    BY <2>1, <2>3, <2>4
<1>4. CASE ClientStep(c)
  BY <1>4 DEF ClientStep, ListNetworks, CreateNetwork, ListContainers,
     CreateBroker, StartBroker, WaitForBroker, StopBroker, StopRunners,
     RemoveNetwork, Survives
<1>5. CASE Dial(c)
  BY <1>5 DEF Dial, Survives
<1>6. CASE AddNext(c)
  BY <1>6, NextResult
<1>7. CASE \E id \in RunnerIDs(c) : RunnerStep(c, id) \/ RunnerDies(c, id)
  BY <1>7 DEF RunnerStep, RunAsDockerContainer, RunnerConnects,
     RunnerEnds, RunnerDies, Survives
<1> QED
  BY <1>2, <1>3, <1>4, <1>5, <1>6, <1>7 DEF DockerStep, ReceiveStep

(* During the teardown nothing is received or added any more.              *)
LEMMA TeardownStep ==
  ASSUME DockerTypes, TeardownComesLast, NEW c \in Clients, DockerStep(c)
  PROVE  TeardownComesLast'
<1> SUFFICES ASSUME NEW d \in Clients, ~interrupted'[d],
                    session'[d] \in TearingDown \cup {"over"}
             PROVE  /\ consumer'[d] = "closed"
                    /\ inbox'[d] = <<>>
                    /\ \A id \in RunnerIDs(d) : data'[d][id].fin
  BY DEF TeardownComesLast
<1>1. ClientMoves(c) /\ ReceiveMoves(c, d) /\ HistoryGrows
  BY SessionMoves, ReceiversMove, HistoryStep
<1>2. CASE session[d] \in TearingDown \cup {"over"}
  <2>1. /\ consumer[d] = "closed" /\ inbox[d] = <<>>
        /\ \A id \in RunnerIDs(d) : data[d][id].fin
    BY <1>1, <1>2 DEF TeardownComesLast, HistoryGrows
  <2>2. ASSUME NEW id \in RunnerIDs(d) PROVE data'[d][id].fin
    BY <1>2, <2>1, ResultsMove DEF ResultMoves, AddNext, TearingDown
  <2> QED
    BY <1>1, <1>2, <2>1, <2>2 DEF ReceiveMoves, TearingDown
<1>3. CASE session[d] \notin TearingDown \cup {"over"}
  <2>1. d = c /\ EndsTest(c)
    BY <1>1, <1>3, TeardownBegins DEF ClientMoves
  <2> QED
    BY <2>1 DEF EndsTest, AllFinished
<1> QED
  BY <1>2, <1>3

-----------------------------------------------------------------------------
(* Of a program that does not run, only runners can go on.                 *)
LEMMA OnlyRunnersGoOn ==
  ASSUME DockerTypes, NEW c \in Clients, DockerStep(c),
         ~Alive(c), ~StartDocker(c)
  PROVE  /\ UNCHANGED <<network, broker, session, handles, consumer, data,
                        past>>
         /\ \E id \in RunnerIDs(c) : \/ RunnerConnects(c, id)
                                     \/ \E fin \in BOOLEAN : RunnerEnds(c, id, fin)
                                     \/ RunnerDies(c, id)
<1> USE DEF Alive, SettingUp, TearingDown
<1>1. ~ClientStep(c)
  BY DEF ClientStep, ListNetworks, CreateNetwork, ListContainers,
     CreateBroker, StartBroker, WaitForBroker, StopBroker, StopRunners,
     RemoveNetwork
<1>2. ~ReceiveStep(c) /\ ~AddEmpty(c) /\ ~Interrupt(c) /\ ~Killed(c)
  BY DEF ReceiveStep, Dial, AddNext, AddEmpty, Interrupt, Killed, Started
<1>3. PICK id \in RunnerIDs(c) : RunnerStep(c, id) \/ RunnerDies(c, id)
  BY <1>1, <1>2 DEF DockerStep
<1>4. ~RunAsDockerContainer(c, id)
  BY DEF RunAsDockerContainer, Started
<1> QED
  BY <1>3, <1>4
     DEF RunnerStep, RunnerConnects, RunnerEnds, RunnerDies, machine,
     receive

(* A client that runs has been running, or is just started.                *)
LEMMA AliveWas ==
  ASSUME DockerTypes, NEW c \in Clients, DockerStep(c), Alive(c)', ~Alive(c)
  PROVE  StartDocker(c)
<1>1. ~StartDocker(c) => UNCHANGED session
  BY OnlyRunnersGoOn
<1> QED
  BY <1>1 DEF Alive

(* A client finds network and broker as it has left them.                  *)
LEMMA MachineStep ==
  ASSUME DockerTypes, NEW c \in Clients, DockerStep(c), Alive(c)', Survives(c),
         FindsItsMachine(c), ~StartDocker(c)
  PROVE  FindsItsMachine(c)'
<1> USE DEF DockerTypes, PlainTypes, FindsItsMachine, HasNetwork, HasBroker,
            TearingDown, Goto, machine, handles
<1>1. CASE AddEmpty(c) \/ Interrupt(c) \/ Killed(c)
  BY <1>1 DEF AddEmpty, Interrupt, Killed, IsBroker, Survives
<1>2. CASE ListNetworks(c) \/ CreateNetwork(c)
  BY <1>2, DockerAssumption DEF ListNetworks, CreateNetwork, Survives
<1>3. CASE ListContainers(c)
  BY <1>3 DEF ListContainers, IsBroker
<1>4. CASE CreateBroker(c)
  <2>1. /\ broker' = [by |-> c, state |-> "created"]
        /\ brokerID' = [brokerID EXCEPT ![c] = c]
    BY <1>4 DEF CreateBroker, Survives
  <2>2. broker'.by = c /\ broker' # NoBroker
    BY <2>1, DockerAssumption DEF NoBroker
  <2> QED
    BY <1>4, <2>1, <2>2 DEF CreateBroker, IsBroker, Survives
<1>5. CASE StartBroker(c) \/ WaitForBroker(c)
  <2>1. CASE StartBroker(c)
    <3>1. /\ IsBroker(c)
          /\ broker' \in {broker, [broker EXCEPT !.state = "booting"]}
      BY <2>1 DEF StartBroker, Survives
    <3>2. broker'.by = broker.by /\ broker.by # Absent /\ NoBroker.by = Absent
      BY <3>1, DockerAssumption DEF IsBroker, NoBroker
    <3> QED
      BY <2>1, <3>1, <3>2 DEF StartBroker, IsBroker, Survives
  <2>2. CASE WaitForBroker(c)
    BY <2>2 DEF WaitForBroker, IsBroker, Survives
  <2> QED
    BY <1>5, <2>1, <2>2
<1>6. CASE StopBroker(c) \/ StopRunners(c)
  BY <1>6 DEF StopBroker, StopRunners, Survives
<1>7. CASE RemoveNetwork(c)
  BY <1>7 DEF RemoveNetwork, Alive, SettingUp, Survives
<1>8. CASE Dial(c)
  BY <1>8 DEF Dial, IsBroker, Survives
<1>9. CASE AddNext(c)
  <2>1. UNCHANGED handles
    BY <1>9 DEF AddNext, Survives
  <2> QED
    BY <1>9, <2>1, NextResult DEF IsBroker
<1>10. CASE \E id \in RunnerIDs(c) : RunnerStep(c, id) \/ RunnerDies(c, id)
  BY <1>10 DEF RunnerStep, RunAsDockerContainer, RunnerConnects, RunnerEnds,
     RunnerDies, IsBroker, Survives
<1> QED
  BY <1>1, <1>2, <1>3, <1>4, <1>5, <1>6, <1>7, <1>8, <1>9, <1>10
     DEF DockerStep, ClientStep, ReceiveStep

(* Nor does the step of another undo what it has found.                    *)
LEMMA OrderStep ==
  ASSUME DockerTypes, OneKeepsOrder, NEW c \in Clients, DockerStep(c)
  PROVE  OneKeepsOrder'
<1> SUFFICES ASSUME NEW e \in Clients, Alive(e)', ~overlap'[e]
             PROVE  RunsByItself(e)'
  BY DEF OneKeepsOrder
<1>1. ClientMoves(c) /\ HistoryGrows
  BY SessionMoves, HistoryStep
<1>2. CASE StartDocker(c)
  <2>1. /\ \A d \in Clients \ {c} : Alive(d) => overlap'[d]
        /\ overlap'[c] \/ \A d \in Clients \ {c} : ~Alive(d)
        /\ session' = [session EXCEPT ![c] = "listNetworks"]
    BY <1>2 DEF StartDocker, Goto
  <2>2. e = c
    BY <1>1, <2>1 DEF ClientMoves, Alive
  <2>3. \A d \in Clients \ {c} : ~Alive(d)
    BY <2>1, <2>2
  <2>4. session'[c] = "listNetworks"
    BY <2>1 DEF DockerTypes, PlainTypes
  <2> QED
    BY <1>1, <2>2, <2>3, <2>4
       DEF RunsByItself, ClientMoves, Alive, FindsItsMachine,
       HasNetwork, HasBroker, TearingDown
<1>3. CASE ~StartDocker(c)
  <2>1. Alive(e) /\ ~overlap[e]
    <3>1. Alive(e)
      BY <1>1, <1>3, AliveWas DEF Alive, ClientMoves
    <3> QED
      BY <1>1, <3>1 DEF HistoryGrows, Alive, SettingUp, TearingDown
  <2>2. RunsByItself(e)
    BY <2>1 DEF OneKeepsOrder
  <2>3. ASSUME NEW d \in Clients \ {e} PROVE ~Alive(d)'
    <3>1. ~Alive(d)
      BY <2>2 DEF RunsByItself
    <3> QED
      BY <1>1, <1>3, <3>1, AliveWas DEF Alive, ClientMoves
  <2>4. FindsItsMachine(e)'
    <3>1. CASE e = c
      <4>1. Survives(c)
        BY <3>1 DEF Survives, Panic, Dies, Goto, Alive, SettingUp, TearingDown,
           DockerTypes, PlainTypes
      <4> QED
        BY <1>3, <2>2, <3>1, <4>1, MachineStep DEF RunsByItself
    <3>2. CASE e # c
      <4>1. ~Alive(c)
        BY <2>2, <3>2 DEF RunsByItself
      <4>2. UNCHANGED <<network, broker, session, netID, brokerID>>
        BY <1>3, <4>1, OnlyRunnersGoOn DEF handles
      <4> QED
        BY <2>2, <4>2 DEF RunsByItself, FindsItsMachine, IsBroker
    <3> QED
      BY <3>1, <3>2
  <2>5. ASSUME session'[e] = "removeNetwork",
               NEW d \in Clients \ {e}, NEW id \in RunnerIDs(d)
        PROVE  runner'[d][id] \notin Running
    <3>1. RunnerMoves(c, d, id) /\ ~Alive(d)
      BY <2>2, RunnersMove DEF RunsByItself
    <3>2. CASE session[e] = "removeNetwork"
      BY <2>2, <2>5, <3>1, <3>2
         DEF RunsByItself, RunnerMoves, Running, AfterSetup,
         Alive, TearingDown, Reported
    <3>3. CASE session[e] # "removeNetwork"
      <4>1. StopRunners(c)
        BY <1>1, <2>5, <3>3 DEF ClientMoves
      <4> QED
        BY <4>1 DEF StopRunners, Runners, Running
    <3> QED
      BY <3>2, <3>3
  <2> QED
    BY <2>3, <2>4, <2>5 DEF RunsByItself
<1> QED
  BY <1>2, <1>3

-----------------------------------------------------------------------------
(* A test begins with a broker that listens, or one that was found.        *)
LEMMA TestBegins ==
  ASSUME DockerTypes, NEW c \in Clients, DockerStep(c), session'[c] = "testing"
  PROVE  \/ session[c] = "testing"
         \/ session[c] = "listContainers" /\ broker # NoBroker
         \/ Listening /\ UNCHANGED broker
<1> USE DEF DockerTypes, PlainTypes, Goto
<1>0. Survives(c)
  BY DEF Survives, Panic, Dies
<1>1. CASE StartDocker(c) \/ AddEmpty(c) \/ Interrupt(c) \/ Killed(c)
  BY <1>0, <1>1 DEF StartDocker, AddEmpty, Interrupt, Killed, Survives
<1>2. CASE ClientStep(c)
  BY <1>0, <1>2 DEF ClientStep, ListNetworks, CreateNetwork, ListContainers,
     CreateBroker, StartBroker, WaitForBroker, StopBroker, StopRunners,
     RemoveNetwork, Survives, machine
<1>3. CASE ReceiveStep(c)
  BY <1>0, <1>3 DEF ReceiveStep, Dial, AddNext, Survives
<1>4. CASE \E id \in RunnerIDs(c) : RunnerStep(c, id) \/ RunnerDies(c, id)
  BY <1>0, <1>4 DEF RunnerStep, RunAsDockerContainer, RunnerConnects,
     RunnerEnds, RunnerDies, Survives
<1> QED
  BY <1>1, <1>2, <1>3, <1>4 DEF DockerStep

(* Where no other runs or has left a broker, none listens before one's own.*)
LEMMA NoBrokerLeft ==
  ASSUME DockerTypes, BrokerHasMaker, NEW c \in Clients,
         session[c] \notin HasBroker \cup {"dead"},
         \A d \in Clients \ {c} : session[d] \in {"off", "over"}
  PROVE  broker = NoBroker /\ ~Listening
<1>1. broker = NoBroker
  BY DEF BrokerHasMaker, MakerRemains, DockerTypes, PlainTypes, HasBroker
<1> QED
  BY <1>1 DEF Listening, NoBroker

(* What no runner is left for, nobody does in place of a client.           *)
LEMMA OthersAreStill ==
  ASSUME DockerTypes, RunnersEndBefore, NEW c \in Clients, DockerStep(c),
         session[c] \in {"off", "over"}
  PROVE  StartDocker(c)
<1>1. ASSUME NEW id \in RunnerIDs(c) PROVE runner[c][id] \notin Running
  BY DEF RunnersEndBefore, AfterSetup, TearingDown, Running
<1>2. ~Alive(c)
  BY DEF Alive, SettingUp, TearingDown
<1>3. CASE ~StartDocker(c)
  BY <1>1, <1>2, <1>3, OnlyRunnersGoOn
     DEF RunnerConnects, RunnerEnds, RunnerDies,
     Running
<1> QED
  BY <1>3

(* A client starts alone.                                                  *)
LEMMA StartsAlone ==
  ASSUME DockerTypes, DeathHasCause, BrokerHasMaker, NothingWithoutBroker,
         ReceivesAfterSetup, NEW c \in Clients, StartDocker(c), ~disturbed'[c]
  PROVE  HasMachineAlone(c)'
<1>1. /\ session[c] = "off" /\ session' = [session EXCEPT ![c] = "listNetworks"]
      /\ disturbed'[c] \/ ((\A d \in Clients \ {c} : ~Alive(d))
                            /\ \A d \in Clients : cause[d] = "none")
      /\ UNCHANGED <<channel, inbox>>
  BY DEF StartDocker, Goto, machine, receive, DockerTypes, PlainTypes
<1>2. \A d \in Clients \ {c} : session[d] \in {"off", "over"}
  BY <1>1 DEF Alive, DeathHasCause, DockerTypes, PlainTypes
<1>3. channel = <<>>
  BY <1>1, <1>2, NoBrokerLeft DEF NothingWithoutBroker, HasBroker
<1>4. inbox[c] = <<>>
  BY <1>1
     DEF ReceivesAfterSetup, AfterSetup, TearingDown, DockerTypes, PlainTypes
<1>5. \A S : <<>> \in Seq(S)
  OBVIOUS
<1>6. /\ session'[c] = "listNetworks"
      /\ \A d \in Clients \ {c} : session'[d] = session[d]
  BY <1>1 DEF DockerTypes, PlainTypes
<1> QED
  BY <1>1, <1>2, <1>3, <1>4, <1>5, <1>6 DEF HasMachineAlone, FromOnly

(* And it stays so until another starts.                                   *)
LEMMA StaysAlone ==
  ASSUME DockerTypes, BrokerHasMaker, NEW c \in Clients, DockerStep(c),
         ReceivesAfterSetup, ~StartDocker(c), HasMachineAlone(c), Alive(c),
         Alive(c)'
  PROVE  HasMachineAlone(c)'
<1>1. /\ \A d \in Clients \ {c} : session[d] \in {"off", "over"}
      /\ channel \in Seq(FromOnly(c)) /\ inbox[c] \in Seq(FromOnly(c))
      /\ session[c] = "testing" => Listening /\ consumer[c] # "lost"
  BY DEF HasMachineAlone
<1>2. \A d \in Clients \ {c} : session'[d] \in {"off", "over"}
  BY <1>1, SessionMoves DEF ClientMoves
<1>3. \A id \in RunnerIDs(c), fin \in BOOLEAN :
        Report(c, id, fin) \in FromOnly(c)
  BY IdsAreNumbers DEF Report, FromOnly, Messages
<1>4. \A S : <<>> \in Seq(S)
  OBVIOUS
<1>5. channel' \in Seq(FromOnly(c))
  <2>1. CASE channel' \in {channel, <<>>}
    BY <1>1, <1>4, <2>1
  <2>2. ASSUME NEW id \in RunnerIDs(c), NEW fin \in BOOLEAN,
               RunnerEnds(c, id, fin)
        PROVE  channel' \in Seq(FromOnly(c))
    <3>1. channel' = channel \/ channel' = Append(channel, Report(c, id, fin))
      BY <2>2 DEF RunnerEnds, Publish, Report
    <3> QED
      BY <1>1, <1>3, <3>1
  <2> QED
    BY <2>1, <2>2, ChannelMoves
<1>6. inbox'[c] \in Seq(FromOnly(c))
  <2>1. CASE inbox'[c] \in {inbox[c], <<>>, channel}
    BY <1>1, <1>4, <2>1
  <2>2. CASE inbox[c] # <<>> /\ inbox'[c] = Tail(inbox[c])
    BY <1>1, <2>2
  <2>3. ASSUME NEW id \in RunnerIDs(c), NEW fin \in BOOLEAN,
               inbox'[c] = Append(inbox[c], Report(c, id, fin))
        PROVE  inbox'[c] \in Seq(FromOnly(c))
    BY <1>1, <1>3, <2>3
  <2> QED
    BY <2>1, <2>2, <2>3, ReceiversMove DEF ReceiveMoves
<1>7. ASSUME session'[c] = "testing" PROVE Listening'
  <2>1. CASE session[c] = "testing"
    BY <1>1, <2>1, BrokerMoves DEF StopBroker
  <2>2. CASE session[c] # "testing"
    <3>1. ~(session[c] = "listContainers" /\ broker # NoBroker)
      BY <1>1, NoBrokerLeft DEF HasBroker
    <3> QED
      BY <1>7, <2>2, <3>1, TestBegins DEF Listening
  <2> QED
    BY <2>1, <2>2
<1>8. ASSUME session'[c] = "testing" PROVE consumer'[c] # "lost"
  <2>1. consumer[c] # "lost"
    <3>1. session[c] = "testing" \/ session[c] \in SettingUp
      BY <1>8, SessionMoves DEF ClientMoves
    <3>2. session[c] \in SettingUp => consumer[c] = "none"
      BY DEF ReceivesAfterSetup, SettingUp, AfterSetup, TearingDown
    <3> QED
      BY <1>1, <3>1, <3>2
  <2>2. ~StopBroker(c)
    BY <1>8 DEF StopBroker, Panic, Dies, Goto, DockerTypes, PlainTypes
  <2> QED
    BY <2>1, <2>2, ReceiversMove DEF ReceiveMoves
<1> QED
  BY <1>2, <1>5, <1>6, <1>7, <1>8 DEF HasMachineAlone, FromOnly

(* Who has the machine alone keeps it, or is not alone any more.           *)
LEMMA AloneStep ==
  ASSUME DockerInv, NEW c \in Clients, DockerStep(c)
  PROVE  AloneHasAll'
<1> SUFFICES ASSUME NEW e \in Clients, Alive(e)', ~disturbed'[e]
             PROVE  HasMachineAlone(e)'
  BY DEF AloneHasAll
<1>1. ClientMoves(c) /\ HistoryGrows
  BY SessionMoves, HistoryStep DEF DockerInv
<1>2. CASE StartDocker(c)
  <2>1. /\ \A d \in Clients \ {c} : Alive(d) => disturbed'[d]
        /\ \A d \in Clients \ {c} : session'[d] = session[d]
    BY <1>1, <1>2 DEF StartDocker, ClientMoves
  <2>2. e = c
    BY <2>1 DEF Alive
  <2> QED
    BY <1>2, <2>2, StartsAlone DEF DockerInv
<1>3. CASE ~StartDocker(c)
  <2>1. Alive(e)
    BY <1>1, <1>3, AliveWas DEF Alive, ClientMoves, DockerInv
  <2>2. HasMachineAlone(e)
    BY <1>1, <2>1
       DEF HistoryGrows, Alive, SettingUp, TearingDown, DockerInv, AloneHasAll
  <2>3. e = c
    BY <1>3, <2>2, OthersAreStill DEF DockerInv, HasMachineAlone
  <2> QED
    BY <1>3, <2>1, <2>2, <2>3, StaysAlone DEF DockerInv
<1> QED
  BY <1>2, <1>3

-----------------------------------------------------------------------------
(* Messages of a runner in a sequence that grows or shrinks by one.        *)
Places(c, id, s) == {k \in DOMAIN s : s[k].from = c /\ s[k].id = id}

Counted(c, id, m) == IF m.from = c /\ m.id = id THEN 1 ELSE 0

(* There are finitely many, so that they can be counted.                   *)
LEMMA PlacesAreFinite ==
  ASSUME NEW c, NEW id, NEW s \in Seq(Messages)
  PROVE  /\ IsFiniteSet(Places(c, id, s))
         /\ From(c, id, s) = Cardinality(Places(c, id, s))
         /\ From(c, id, s) \in Nat
<1>1. IsFiniteSet(1 .. Len(s)) /\ Places(c, id, s) \in SUBSET (1 .. Len(s))
  BY FS_Interval DEF Places
<1>2. IsFiniteSet(Places(c, id, s))
  BY <1>1, FS_Subset
<1>3. From(c, id, s) = Cardinality(Places(c, id, s))
  BY DEF From, Places
<1> QED
  BY <1>2, <1>3, FS_CardinalityType

(* None are in the empty sequence, ...                                     *)
LEMMA FromEmpty ==
  ASSUME NEW c, NEW id
  PROVE  From(c, id, <<>>) = 0
<1>1. {k \in DOMAIN <<>> : <<>>[k].from = c /\ <<>>[k].id = id} = {}
  OBVIOUS
<1> QED
  BY <1>1, FS_EmptySet DEF From

(* ... one more after it was appended, ...                                 *)
LEMMA FromAppend ==
  ASSUME NEW c, NEW id, NEW s \in Seq(Messages), NEW m \in Messages
  PROVE  From(c, id, Append(s, m)) = From(c, id, s) + Counted(c, id, m)
<1> DEFINE n == Len(s) + 1
<1>1. Append(s, m) \in Seq(Messages)
  OBVIOUS
<1>2. n \notin Places(c, id, s)
  BY DEF Places
<1>3. Places(c, id, Append(s, m))
        = IF m.from = c /\ m.id = id THEN Places(c, id, s) \cup {n}
                                    ELSE Places(c, id, s)
  BY DEF Places
<1>4. /\ IsFiniteSet(Places(c, id, s))
      /\ From(c, id, s) = Cardinality(Places(c, id, s))
      /\ From(c, id, s) \in Nat
      /\ From(c, id, Append(s, m)) = Cardinality(Places(c, id, Append(s, m)))
  BY <1>1, PlacesAreFinite
<1>5. Cardinality(Places(c, id, s) \cup {n}) = Cardinality(Places(c, id, s)) + 1
  BY <1>2, <1>4, FS_AddElement
<1>6. CASE m.from = c /\ m.id = id
  BY <1>3, <1>4, <1>5, <1>6 DEF Counted
<1>7. CASE ~(m.from = c /\ m.id = id)
  BY <1>3, <1>4, <1>7 DEF Counted
<1> QED
  BY <1>6, <1>7

(* ... and one less after it was taken.                                    *)
LEMMA FromTail ==
  ASSUME NEW c, NEW id, NEW s \in Seq(Messages), s # <<>>
  PROVE  From(c, id, s) = From(c, id, Tail(s)) + Counted(c, id, Head(s))
<1> DEFINE S == Places(c, id, Tail(s))
           T == Places(c, id, s) \ {1}
           F == [k \in S |-> k + 1]
<1>1. Tail(s) \in Seq(Messages) /\ Len(Tail(s)) = Len(s) - 1
      /\ \A k \in 1 .. Len(s) - 1 : Tail(s)[k] = s[k + 1]
  OBVIOUS
<1>2. F \in Bijection(S, T)
  <2>1. F \in [S -> T]
    BY <1>1 DEF Places
  <2>2. \A a, b \in S : F[a] = F[b] => a = b
    BY <1>1 DEF Places
  <2>3. ASSUME NEW t \in T PROVE \E k \in S : F[k] = t
    <3>1. t \in 2 .. Len(s) /\ t - 1 \in 1 .. Len(s) - 1 /\ t - 1 + 1 = t
      BY DEF Places
    <3>2. t - 1 \in S
      BY <1>1, <3>1 DEF Places
    <3> QED
      BY <3>1, <3>2
  <2> HIDE DEF F, S, T
  <2> QED
    BY <2>1, <2>2, <2>3, Fun_IsBij
<1>3. /\ IsFiniteSet(S) /\ From(c, id, Tail(s)) = Cardinality(S)
      /\ From(c, id, Tail(s)) \in Nat
      /\ IsFiniteSet(Places(c, id, s))
      /\ From(c, id, s) = Cardinality(Places(c, id, s))
      /\ From(c, id, s) \in Nat
  BY <1>1, PlacesAreFinite
<1>4. Cardinality(T) = Cardinality(S)
  <2> HIDE DEF F, S, T
  <2> QED
    BY <1>2, <1>3, FS_Bijection DEF ExistsBijection
<1>5. 1 \in Places(c, id, s) <=> Head(s).from = c /\ Head(s).id = id
  BY DEF Places
<1>6. Cardinality(T) = IF 1 \in Places(c, id, s)
                       THEN Cardinality(Places(c, id, s)) - 1
                       ELSE Cardinality(Places(c, id, s))
  BY <1>3, FS_RemoveElement
<1> QED
  BY <1>3, <1>4, <1>5, <1>6 DEF Counted

-----------------------------------------------------------------------------
(* A client is undisturbed before its start.                               *)
LEMMA NewStep ==
  ASSUME DockerTypes, NewIsUndisturbed, NEW c \in Clients, DockerStep(c)
  PROVE  NewIsUndisturbed'
<1> SUFFICES ASSUME NEW d \in Clients, session'[d] = "off"
             PROVE  ~disturbed'[d] /\ ~interrupted'[d]
  BY DEF NewIsUndisturbed
<1>1. session[d] = "off" /\ ~disturbed[d] /\ ~interrupted[d]
  BY SessionMoves DEF ClientMoves, NewIsUndisturbed
<1> USE DEF DockerTypes, PlainTypes, past, Goto
<1>2. CASE StartDocker(c)
  <2>1. /\ session' = [session EXCEPT ![c] = "listNetworks"]
        /\ UNCHANGED interrupted
        /\ d # c => disturbed'[d] = (disturbed[d] \/ Alive(d))
    BY <1>2 DEF StartDocker
  <2>2. d # c
    BY <2>1
  <2> QED
    BY <1>1, <2>1, <2>2 DEF Alive, SettingUp, TearingDown
<1>3. CASE AddEmpty(c) \/ Interrupt(c) \/ Killed(c)
  BY <1>1, <1>3 DEF AddEmpty, Interrupt, Killed, Panic, UnchangedByDying
<1>4. CASE ClientStep(c)
  BY <1>1, <1>4 DEF ClientStep, ListNetworks, CreateNetwork, ListContainers,
     CreateBroker, StartBroker, WaitForBroker, StopBroker, StopRunners,
     RemoveNetwork, Panic, UnchangedByDying
<1>5. CASE ReceiveStep(c)
  BY <1>1, <1>5 DEF ReceiveStep, Dial, AddNext, Panic, UnchangedByDying
<1>6. CASE \E id \in RunnerIDs(c) : RunnerStep(c, id) \/ RunnerDies(c, id)
  BY <1>1, <1>6 DEF RunnerStep, RunAsDockerContainer, RunnerConnects,
     RunnerEnds, RunnerDies, Panic, UnchangedByDying
<1> QED
  BY <1>2, <1>3, <1>4, <1>5, <1>6 DEF DockerStep

(* What a runner has sent is in the results, or on the way.                *)
Accounted(c, id) ==
  sent[c][id] = data[c][id].count + From(c, id, inbox[c]) + From(c, id, channel)

(* All of these are natural numbers.                                       *)
LEMMA NumbersAreNumbers ==
  ASSUME DockerTypes, NEW c \in Clients, NEW id \in RunnerIDs(c)
  PROVE  /\ data[c][id].count \in Nat /\ sent[c][id] \in Nat
         /\ From(c, id, inbox[c]) \in Nat /\ From(c, id, channel) \in Nat
  BY TypesOfTables, PlacesAreFinite DEF DockerTypes, PlainTypes

(* Nothing is on the way to a client that has not started, or is finished. *)
LEMMA NothingOnTheWay ==
  ASSUME DockerTypes, RunnersEndBefore, FinishedWasReported, TeardownComesLast,
         NEW c \in Clients, NEW id \in RunnerIDs(c), Accounted(c, id),
         ~interrupted[c], session[c] \in TearingDown \cup {"off", "over"}
  PROVE  From(c, id, channel) = 0
<1>1. sent[c][id] \in {0, 1}
  BY DEF RunnersEndBefore
<1>2. session[c] = "off" => sent[c][id] = 0
  BY DEF RunnersEndBefore, AfterSetup, TearingDown
<1>3. session[c] # "off" => data[c][id].count >= 1
  BY DEF TeardownComesLast, FinishedWasReported
<1> QED
  BY <1>1, <1>2, <1>3, NumbersAreNumbers DEF Accounted

(* The step of another adds nothing to it and takes nothing from it.       *)
LEMMA AccountedByOthers ==
  ASSUME DockerInv, NEW c \in Clients, DockerStep(c),
         NEW e \in Clients \ {c}, NEW id \in RunnerIDs(e), Accounted(e, id),
         ~interrupted[e], ~disturbed[e], session[e] # "dead"
  PROVE  Accounted(e, id)'
<1> USE DEF DockerInv
<1>1. CASE Alive(e)
  <2>1. StartDocker(c)
    BY <1>1, OthersAreStill DEF AloneHasAll, HasMachineAlone
  <2> QED
    BY <2>1 DEF StartDocker, machine, receive, tests, Accounted
<1>2. CASE session[e] \in {"off", "over"}
  <2>1. UNCHANGED <<sent[e][id], data[e][id], inbox[e]>>
    BY <1>2, RunnersMove, ResultsMove, ReceiversMove
       DEF RunnerMoves, ResultMoves, ReceiveMoves
  <2>2. From(e, id, channel') = From(e, id, channel)
    <3>1. CASE channel' = channel
      BY <3>1
    <3>2. CASE channel' = <<>>
      BY <1>2, <3>2, NothingOnTheWay, FromEmpty
    <3>3. ASSUME NEW k \in RunnerIDs(c), NEW fin \in BOOLEAN,
                 RunnerEnds(c, k, fin),
                 channel' = Append(channel, Report(c, k, fin))
          PROVE  From(e, id, channel') = From(e, id, channel)
      <4>1. /\ Report(c, k, fin) \in Messages
            /\ Counted(e, id, Report(c, k, fin)) = 0
        BY IdsAreNumbers DEF Messages, Report, Counted
      <4>2. channel \in Seq(Messages)
        BY DEF DockerTypes, PlainTypes
      <4> QED
        BY <3>3, <4>1, <4>2, FromAppend, PlacesAreFinite
    <3> QED
      BY <3>1, <3>2, <3>3, ChannelMoves DEF RunnerEnds, Publish, Report
  <2> QED
    BY <2>1, <2>2 DEF Accounted
<1> QED
  BY <1>1, <1>2 DEF Alive, DockerTypes, PlainTypes

(* A result that is added was in the inbox before, and is its own.         *)
LEMMA AccountedWhenAdded ==
  ASSUME DockerInv, NEW c \in Clients, AddNext(c), Survives(c), DockerStep(c),
         NEW id \in RunnerIDs(c), Accounted(c, id), HasMachineAlone(c),
         ~interrupted[c]
  PROVE  Accounted(c, id)'
<1> USE DEF DockerInv
<1> DEFINE m == Head(inbox[c])
<1>1. /\ session[c] = "testing" /\ inbox[c] # <<>> /\ UNCHANGED <<channel, sent>>
      /\ \/ inbox' = [inbox EXCEPT ![c] = Tail(inbox[c])]
         \/ inbox' = [inbox EXCEPT ![c] = <<>>] /\ AllFinished(c)'
  BY NextResult DEF machine, tests
<1>2. /\ inbox[c] \in Seq(Messages) /\ m \in Messages /\ m.from = c
      /\ Tail(inbox[c]) \in Seq(Messages)
  BY <1>1 DEF HasMachineAlone, FromOnly, DockerTypes, PlainTypes
<1>3. From(c, id, inbox[c]) = From(c, id, Tail(inbox[c])) + Counted(c, id, m)
  BY <1>1, <1>2, FromTail
<1>4. From(c, id, Tail(inbox[c])) \in Nat
  BY <1>2, PlacesAreFinite
<1>5. data'[c][id].count = data[c][id].count + Counted(c, id, m)
  <2>1. CASE m.id = id
    <3>1. data'[c] = [data[c] EXCEPT ![id] = AddResult(data[c][id], m)]
      BY <2>1, TypesOfTables DEF AddNext, Survives
    <3> QED
      BY <1>2, <2>1, <3>1, TypesOfTables DEF AddResult, Counted
  <2>2. CASE m.id # id
    <3>1. data'[c] = [data[c] EXCEPT ![m.id] = AddResult(data[c][m.id], m)]
      BY TypesOfTables DEF AddNext, Survives
    <3> QED
      BY <2>2, <3>1, TypesOfTables DEF Counted
  <2> QED
    BY <2>1, <2>2
<1>6. CASE inbox' = [inbox EXCEPT ![c] = Tail(inbox[c])]
  <2>1. inbox'[c] = Tail(inbox[c])
    BY <1>6 DEF DockerTypes, PlainTypes
  <2> QED
    BY <1>1, <1>3, <1>4, <1>5, <2>1, NumbersAreNumbers DEF Accounted, Counted
<1>7. CASE inbox' = [inbox EXCEPT ![c] = <<>>] /\ AllFinished(c)'
  <2>1. inbox'[c] = <<>>
    BY <1>7 DEF DockerTypes, PlainTypes
  <2>2. FinishedWasReported'
    BY FinishedStep
  <2>3. data'[c][id].count >= 1
    BY <1>7, <2>2 DEF AllFinished, FinishedWasReported
  <2>4. sent[c][id] \in {0, 1}
    BY DEF RunnersEndBefore
  <2>5. From(c, id, inbox'[c]) = 0
    BY <2>1, FromEmpty
  <2> QED
    BY <1>1, <1>3, <1>4, <1>5, <2>3, <2>4, <2>5, NumbersAreNumbers
       DEF Accounted, Counted
<1> QED
  BY <1>1, <1>6, <1>7

(* A report of a client that has the machine alone goes to its own inbox,  *)
(* or to the queue.                                                        *)
LEMMA AccountedWhenSent ==
  ASSUME DockerInv, NEW c \in Clients, NEW id \in RunnerIDs(c),
         Accounted(c, id),
         NEW k \in RunnerIDs(c), NEW fin \in BOOLEAN, RunnerEnds(c, k, fin),
         Alive(c), HasMachineAlone(c), ~interrupted[c]
  PROVE  Accounted(c, id)'
<1> USE DEF DockerInv
<1> DEFINE m == Report(c, k, fin)
<1>1. m \in Messages /\ channel \in Seq(Messages) /\ inbox[c] \in Seq(Messages)
  BY IdsAreNumbers DEF Messages, Report, DockerTypes, PlainTypes
<1>2. Publish(m) /\ UNCHANGED data /\ sent' = [sent EXCEPT ![c][k] = @ + 1]
  BY DEF RunnerEnds, Report
<1>3. sent'[c][id] = sent[c][id] + Counted(c, id, m)
  BY <1>2, TypesOfTables DEF Counted, Report
<1>4. ASSUME NEW d \in Clients, consumer[d] = "open"
      PROVE  d = c /\ session[c] = "testing"
  BY <1>4
     DEF ReceivesAfterSetup, HasMachineAlone, TeardownComesLast, AfterSetup,
     Alive, SettingUp, TearingDown
<1>7. Counted(c, id, m) \in Nat
  BY DEF Counted
<1>8. /\ sent[c][id] = data[c][id].count + From(c, id, inbox[c])
                          + From(c, id, channel)
      /\ data[c][id].count \in Nat /\ sent[c][id] \in Nat
      /\ From(c, id, inbox[c]) \in Nat /\ From(c, id, channel) \in Nat
  BY NumbersAreNumbers DEF Accounted
<1> HIDE DEF m
<1>5. CASE channel' = Append(channel, m) /\ UNCHANGED inbox
  <2>1. From(c, id, channel') = From(c, id, channel) + Counted(c, id, m)
    BY <1>1, <1>5, FromAppend
  <2>2. /\ From(c, id, inbox'[c]) = From(c, id, inbox[c])
        /\ data'[c][id].count = data[c][id].count
    BY <1>2, <1>5
  <2>3. sent'[c][id] = data'[c][id].count + From(c, id, inbox'[c])
                         + From(c, id, channel')
    BY ONLY <1>3, <1>7, <1>8, <2>1, <2>2
  <2> QED
    BY <2>3 DEF Accounted
<1>6. CASE /\ inbox' = [inbox EXCEPT ![c] = Append(inbox[c], m)]
           /\ UNCHANGED channel
  <2>1. inbox'[c] = Append(inbox[c], m)
    BY <1>6 DEF DockerTypes, PlainTypes
  <2>2. From(c, id, inbox'[c]) = From(c, id, inbox[c]) + Counted(c, id, m)
    BY <1>1, <2>1, FromAppend
  <2>3. /\ From(c, id, channel') = From(c, id, channel)
        /\ data'[c][id].count = data[c][id].count
    BY <1>2, <1>6
  <2>4. sent'[c][id] = data'[c][id].count + From(c, id, inbox'[c])
                         + From(c, id, channel')
    BY ONLY <1>3, <1>7, <1>8, <2>2, <2>3
  <2> QED
    BY <2>4 DEF Accounted
<1> QED
  BY <1>2, <1>4, <1>5, <1>6 DEF Publish, m

(* Its own steps account for what its runners send.                        *)
LEMMA AccountedByItself ==
  ASSUME DockerInv, NEW c \in Clients, DockerStep(c),
         NEW id \in RunnerIDs(c), Accounted(c, id),
         ~interrupted[c], ~interrupted'[c], ~disturbed[c], session'[c] # "dead"
  PROVE  Accounted(c, id)'
<1> USE DEF DockerInv, machine, receive, tests
<1>1. CASE UNCHANGED <<channel, inbox, data, sent>>
  BY <1>1 DEF Accounted
<1>2. CASE StartDocker(c)
  BY <1>1, <1>2 DEF StartDocker
<1>3. CASE ~StartDocker(c)
  <2>1. Survives(c) /\ session[c] # "dead"
    BY SessionMoves DEF Survives, Panic, Dies, Goto, DockerTypes, PlainTypes,
       ClientMoves
  <2>2. session[c] \notin {"off", "over"}
    BY <1>3, OthersAreStill
  <2>3. Alive(c) /\ HasMachineAlone(c)
    BY <2>1, <2>2 DEF Alive, DockerTypes, PlainTypes, AloneHasAll
  <2>4. CASE ClientStep(c) /\ ~StopBroker(c)
    BY <1>1, <2>1, <2>4 DEF ClientStep, ListNetworks, CreateNetwork,
       ListContainers, CreateBroker, StartBroker, WaitForBroker, StopRunners,
       RemoveNetwork, Survives
  <2>5. CASE StopBroker(c)
    <3>1. /\ channel' = <<>> /\ UNCHANGED <<inbox, data, sent>>
          /\ session[c] = "stopBroker"
      BY <2>1, <2>5 DEF StopBroker, Survives
    <3>2. From(c, id, channel) = 0 /\ From(c, id, channel') = 0
      BY <3>1, NothingOnTheWay, FromEmpty DEF TearingDown
    <3> QED
      BY <3>1, <3>2 DEF Accounted
  <2>6. CASE Dial(c)
    <3>1. /\ consumer[c] = "none" /\ channel' = <<>> /\ UNCHANGED <<data, sent>>
          /\ inbox' = [inbox EXCEPT ![c] = channel]
      BY <2>1, <2>6 DEF Dial, Survives
    <3>2. inbox[c] = <<>> /\ inbox'[c] = channel
      BY <3>1 DEF ReceivesAfterSetup, DockerTypes, PlainTypes
    <3> QED
      BY <3>1, <3>2, FromEmpty, NumbersAreNumbers DEF Accounted
  <2>7. CASE AddNext(c)
    BY <2>1, <2>3, <2>7, AccountedWhenAdded
  <2>8. CASE AddEmpty(c)
    <3>1. UNCHANGED <<channel, inbox, sent>> /\ ~AddNext(c)
      BY <2>1, <2>8 DEF AddEmpty, AddNext, Survives
    <3>2. data'[c][id].count = data[c][id].count
      BY <3>1, ResultsMove DEF ResultMoves
    <3> QED
      BY <3>1, <3>2 DEF Accounted
  <2>9. CASE Interrupt(c) \/ Killed(c)
    BY <2>1, <2>9 DEF Interrupt, Killed, Survives, DockerTypes, PlainTypes
  <2>10. CASE \E k \in RunnerIDs(c) : \/ RunAsDockerContainer(c, k)
                                      \/ RunnerConnects(c, k)
                                      \/ RunnerDies(c, k)
    BY <1>1, <2>1, <2>10 DEF RunAsDockerContainer, RunnerConnects, RunnerDies,
       Survives
  <2>11. ASSUME NEW k \in RunnerIDs(c), NEW fin \in BOOLEAN,
                RunnerEnds(c, k, fin)
         PROVE  Accounted(c, id)'
    BY <2>3, <2>11, AccountedWhenSent
  <2> QED
    BY <1>3, <2>4, <2>5, <2>6, <2>7, <2>8, <2>9, <2>10, <2>11
       DEF DockerStep, ClientStep, ReceiveStep, RunnerStep
<1> QED
  BY <1>2, <1>3

(* Nothing is lost or added by any step.                                   *)
LEMMA OwnStep ==
  ASSUME DockerInv, NEW c \in Clients, DockerStep(c)
  PROVE  AloneResultsAreOwn'
<1> SUFFICES ASSUME NEW e \in Clients, session'[e] # "dead",
                    ~disturbed'[e], ~interrupted'[e], NEW id \in RunnerIDs(e)
             PROVE  Accounted(e, id)'
  BY DEF AloneResultsAreOwn, Accounted
<1>1. session[e] # "dead" /\ ~disturbed[e] /\ ~interrupted[e]
  BY SessionMoves, HistoryStep DEF ClientMoves, HistoryGrows, DockerInv,
     NewIsUndisturbed
<1>2. Accounted(e, id)
  BY <1>1 DEF DockerInv, AloneResultsAreOwn, Accounted
<1> QED
  BY <1>1, <1>2, AccountedByItself, AccountedByOthers

-----------------------------------------------------------------------------
(* What makes a call of the docker API fail, when no other client runs.    *)
MeetsConflict(c) ==
  \/ session[c] = "createNetwork" /\ network # Absent
  \/ session[c] = "createBroker" /\ (broker # NoBroker \/ network = Absent)
  \/ session[c] = "startBroker" /\ ~(IsBroker(c) /\ network # Absent)
  \/ session[c] \in {"waitForBroker", "stopBroker"} /\ ~IsBroker(c)
  \/ Started(c) /\ network = Absent
  \/ /\ session[c] = "removeNetwork"
     /\ network # netID[c] \/ network = Absent \/ InUse

MeetsCause(c, why) ==
  \/ why = "killed"
  \/ why = "conflict" /\ MeetsConflict(c)
  \/ /\ why = "unreachable"
     /\ Started(c) /\ consumer[c] = "none" /\ MayMiss(c)
  \/ /\ why = "index"
     /\ session[c] = "testing" /\ inbox[c] # <<>>
     /\ Head(inbox[c]).id \notin RunnerIDs(c)
  \/ /\ why = "race" /\ session[c] = "testing"
     /\ \/ consumer[c] = "lost"
        \/ inbox[c] # <<>> /\ Head(inbox[c]).id \in RunnerIDs(c)

(* A program dies of what it meets.                                        *)
LEMMA DiesOfWhatItMeets ==
  ASSUME DockerTypes, NEW c \in Clients, DockerStep(c), Alive(c),
         NEW why \in {"killed", "conflict", "unreachable", "index", "race"},
         Panic(c, why)
  PROVE  MeetsCause(c, why)
<1>1. session'[c] = "dead" /\ session[c] # "dead" /\ cause'[c] = why
  BY DEF Panic, Dies, Goto, DockerTypes, PlainTypes, Alive, SettingUp,
     TearingDown
<1> USE DEF DockerTypes, PlainTypes, Goto, MeetsCause, MeetsConflict
<1>2. ASSUME NEW other \in {"killed", "conflict", "unreachable", "index",
                            "race"},
             Panic(c, other)
      PROVE  other = why
  BY <1>1, <1>2 DEF Panic, Dies
<1>3. CASE StartDocker(c) \/ Interrupt(c)
  BY <1>1, <1>3 DEF StartDocker, Interrupt
<1>16. CASE AddEmpty(c)
  BY <1>1, <1>2, <1>16 DEF AddEmpty
<1>4. CASE Killed(c)
  BY <1>2, <1>4 DEF Killed
<1>5. CASE ListNetworks(c) \/ ListContainers(c) \/ StopRunners(c)
  BY <1>1, <1>5 DEF ListNetworks, ListContainers, StopRunners
<1>6. CASE CreateNetwork(c)
  BY <1>1, <1>2, <1>6 DEF CreateNetwork
<1>7. CASE CreateBroker(c)
  BY <1>1, <1>2, <1>7 DEF CreateBroker
<1>8. CASE StartBroker(c)
  BY <1>1, <1>2, <1>8 DEF StartBroker
<1>9. CASE WaitForBroker(c)
  BY <1>1, <1>2, <1>9 DEF WaitForBroker
<1>10. CASE StopBroker(c)
  BY <1>1, <1>2, <1>10 DEF StopBroker
<1>11. CASE RemoveNetwork(c)
  BY <1>1, <1>2, <1>11 DEF RemoveNetwork
<1>12. CASE Dial(c)
  BY <1>1, <1>2, <1>12 DEF Dial
<1>13. CASE AddNext(c)
  BY <1>1, <1>2, <1>13 DEF AddNext
<1>14. CASE \E id \in RunnerIDs(c) : RunAsDockerContainer(c, id)
  BY <1>1, <1>2, <1>14 DEF RunAsDockerContainer
<1>15. CASE \E id \in RunnerIDs(c) :
              \/ RunnerConnects(c, id) \/ RunnerDies(c, id)
              \/ \E fin \in BOOLEAN : RunnerEnds(c, id, fin)
  BY <1>1, <1>15 DEF RunnerConnects, RunnerDies, RunnerEnds
<1> QED
  BY <1>3, <1>4, <1>5, <1>6, <1>7, <1>8, <1>9, <1>10, <1>11, <1>12, <1>13,
     <1>14, <1>15, <1>16 DEF DockerStep, ClientStep, ReceiveStep, RunnerStep

(* A client that lives has no new cause.                                   *)
LEMMA CauseStays ==
  ASSUME DockerTypes, NEW c \in Clients, DockerStep(c), Survives(c)
  PROVE  UNCHANGED cause
<1> USE DEF past
<1>1. CASE StartDocker(c) \/ AddEmpty(c) \/ Interrupt(c) \/ Killed(c)
  BY <1>1 DEF StartDocker, AddEmpty, Interrupt, Killed, Survives
<1>2. CASE ClientStep(c)
  BY <1>2 DEF ClientStep, ListNetworks, CreateNetwork, ListContainers,
     CreateBroker, StartBroker, WaitForBroker, StopBroker, StopRunners,
     RemoveNetwork, Survives
<1>3. CASE ReceiveStep(c)
  BY <1>3 DEF ReceiveStep, Dial, AddNext, Survives
<1>4. CASE \E id \in RunnerIDs(c) : RunnerStep(c, id) \/ RunnerDies(c, id)
  BY <1>4 DEF RunnerStep, RunAsDockerContainer, RunnerConnects, RunnerEnds,
     RunnerDies, Survives
<1> QED
  BY <1>1, <1>2, <1>3, <1>4 DEF DockerStep

(* A client beside which none runs meets no conflict before the end of its *)
(* teardown, and there only if it took another's messages for its own.     *)
LEMMA ConflictNeedsOther ==
  ASSUME DockerInv, NEW c \in Clients, Alive(c), MeetsConflict(c),
         ~overlap[c], ~interrupted[c]
  PROVE  misled[c]
<1> USE DEF DockerInv
<1>1. RunsByItself(c)
  BY DEF OneKeepsOrder
<1>2. session[c] = "removeNetwork" /\ InUse
  BY <1>1
     DEF RunsByItself, FindsItsMachine, MeetsConflict, HasNetwork, HasBroker,
     TearingDown, Started
<1>3. broker = NoBroker
  BY <1>1, <1>2 DEF RunsByItself, FindsItsMachine
<1>4. PICK d \in Clients : \E k \in RunnerIDs(d) : runner[d][k] \in Running
  BY <1>2, <1>3 DEF InUse, NoBroker
<1>5. PICK id \in RunnerIDs(d) : runner[d][id] \in Running
  BY <1>4
<1>6. d = c
  BY <1>1, <1>2, <1>5 DEF RunsByItself
<1>7. data[c][id].fin
  BY <1>2, <1>5, <1>6 DEF TeardownComesLast, TearingDown
<1> QED
  BY <1>5, <1>6, <1>7 DEF FinishedWasReported, Running

(* A client that has the machine alone reaches its broker, and keeps the   *)
(* connection; the ids it gets are of its own runners, ...                 *)
LEMMA AloneMeetsNothing ==
  ASSUME DockerInv, NEW c \in Clients, Alive(c), ~disturbed[c], ~interrupted[c]
  PROVE  ~MeetsCause(c, "unreachable") /\ ~MeetsCause(c, "index")
<1> USE DEF DockerInv
<1>1. HasMachineAlone(c)
  BY DEF AloneHasAll
<1>2. ASSUME Started(c), consumer[c] = "none" PROVE ~MayMiss(c)
  <2>1. session[c] = "testing"
    BY <1>2 DEF TeardownComesLast, Started
  <2>2. Listening /\ broker # NoBroker
    BY <1>1, <2>1 DEF HasMachineAlone, Listening, NoBroker
  <2>3. broker.by \in Clients
    BY <2>2 DEF DockerTypes, PlainTypes
  <2>4. \/ session[broker.by] = "dead"
        \/ session[broker.by] \in HasBroker /\ brokerID[broker.by] = broker.by
    BY <2>2 DEF BrokerHasMaker, MakerRemains
  <2>5. broker.by = c
    BY <1>1, <2>3, <2>4 DEF HasMachineAlone, HasBroker
  <2> QED
    BY <2>1, <2>2, <2>4, <2>5 DEF MayMiss, IsBroker
<1>3. ASSUME inbox[c] # <<>> PROVE Head(inbox[c]).id \in RunnerIDs(c)
  <2>1. Head(inbox[c]) \in Said /\ Head(inbox[c]) \in FromOnly(c)
    BY <1>1, <1>3 DEF HasMachineAlone, MessagesAreSaid
  <2> QED
    BY <2>1 DEF Said, FromOnly
<1> QED
  BY <1>2, <1>3 DEF MeetsCause

(* ... who have reported.                                                  *)
HasReport(c) == \E id \in RunnerIDs(c) : sent[c][id] > 0

LEMMA RaceNeedsReport ==
  ASSUME DockerInv, NEW c \in Clients, Alive(c), MeetsCause(c, "race"),
         ~disturbed[c]
  PROVE  HasReport(c)
<1> USE DEF DockerInv
<1> DEFINE m == Head(inbox[c])
<1>1. HasMachineAlone(c)
  BY DEF AloneHasAll
<1>2. session[c] = "testing" /\ inbox[c] # <<>>
  BY <1>1 DEF MeetsCause, HasMachineAlone
<1>3. m \in Said /\ m \in FromOnly(c)
  BY <1>1, <1>2 DEF HasMachineAlone, MessagesAreSaid
<1>4. m.id \in RunnerIDs(c) /\ runner[c][m.id] \in Reported
  BY <1>3 DEF Said, FromOnly
<1>5. sent[c][m.id] = 1
  BY <1>4 DEF RunnersEndBefore, Reported
<1> QED
  BY <1>4, <1>5 DEF HasReport

(* A runner has not sent less after a step.                                *)
LEMMA SentStays ==
  ASSUME DockerTypes, NEW c \in Clients, DockerStep(c),
         NEW d \in Clients, HasReport(d)
  PROVE  HasReport(d)'
<1>1. PICK id \in RunnerIDs(d) : sent[d][id] > 0
  BY DEF HasReport
<1>2. sent'[d][id] \in {sent[d][id], sent[d][id] + 1} /\ sent[d][id] \in Nat
  BY RunnersMove, TypesOfTables DEF RunnerMoves
<1> QED
  BY <1>1, <1>2 DEF HasReport

(* A client that fails has met its cause.                                  *)
LEMMA FailureStep ==
  ASSUME DockerInv, NEW c \in Clients, DockerStep(c)
  PROVE  FailureHasCause'
<1> USE DEF DockerInv
<1> SUFFICES ASSUME NEW d \in Clients
             PROVE  /\ cause'[d] \in {"unreachable", "index"} =>
                         disturbed'[d] \/ interrupted'[d]
                    /\ cause'[d] = "race" => disturbed'[d] \/ HasReport(d)'
                    /\ cause'[d] = "conflict" =>
                         overlap'[d] \/ interrupted'[d] \/ misled'[d]
  BY DEF FailureHasCause, HasReport
<1>1. CASE cause'[d] = cause[d]
  <2>1. HistoryGrows
    BY HistoryStep
  <2>2. cause[d] # "none" => session[d] = "dead"
    BY DEF DeathHasCause
  <2>3. HasReport(d) => HasReport(d)'
    BY SentStays
  <2>4. cause[d] = "race" => disturbed[d] \/ HasReport(d)
    BY DEF FailureHasCause, HasReport
  <2> QED
    BY <1>1, <2>1, <2>2, <2>3, <2>4 DEF HistoryGrows, FailureHasCause
<1>2. CASE cause'[d] # cause[d]
  <2>1. ~Survives(c)
    BY <1>2, CauseStays
  <2>2. PICK why \in {"killed", "conflict", "unreachable", "index", "race"} :
          Panic(c, why)
    BY <2>1 DEF Survives
  <2>3. /\ cause' = [cause EXCEPT ![c] = why]
        /\ UNCHANGED <<overlap, disturbed, misled, interrupted>>
    BY <2>2 DEF Panic, Dies, UnchangedByDying
  <2>4. d = c /\ cause'[c] = why
    BY <1>2, <2>3 DEF DockerTypes, PlainTypes
  <2>5. Alive(c)
    <3>1. CASE session[c] = "dead"
      <4>1. ~Alive(c) /\ ~StartDocker(c)
        BY <3>1 DEF Alive, SettingUp, TearingDown, StartDocker
      <4>2. UNCHANGED cause
        BY <4>1, OnlyRunnersGoOn DEF past
      <4> QED
        BY <1>2, <4>2
    <3> QED
      BY <2>1, <3>1, OnlyAliveDie
  <2>6. MeetsCause(c, why)
    BY <2>2, <2>5, DiesOfWhatItMeets
  <2>7. why = "race" => disturbed[c] \/ HasReport(c)'
    <3>1. why = "race" => disturbed[c] \/ HasReport(c)
      BY <2>5, <2>6, RaceNeedsReport
    <3> QED
      BY <3>1, SentStays
  <2> QED
    BY <2>3, <2>4, <2>5, <2>6, <2>7, ConflictNeedsOther, AloneMeetsNothing
       DEF MeetsCause
<1> QED
  BY <1>1, <1>2

-----------------------------------------------------------------------------
(* The invariant holds of a machine on which nothing has run, ...          *)
LEMMA DockerInvInit ==
  ASSUME DockerInit
  PROVE  DockerInv
<1> USE DEF DockerInit
<1>1. \A S : <<>> \in Seq(S)
  OBVIOUS
<1>2. PlainTypes
  BY <1>1 DEF PlainTypes, Owners
<1>3. TableTypes
  <2>1. data \in Tables(Results)
    BY TableOf DEF NoResults, Results
  <2>2. runner \in Tables(Runs)
    BY TableOf DEF Runs, RunnerStates
  <2>3. sent \in Tables(Counts)
    BY TableOf DEF Counts
  <2> QED
    BY <2>1, <2>2, <2>3 DEF TableTypes
<1>4. DeathHasCause /\ NewIsUndisturbed /\ NetworkHasMaker /\ BrokerHasMaker
  BY DEF DeathHasCause, NewIsUndisturbed, NetworkHasMaker, BrokerHasMaker
<1>5. RunnersEndBefore /\ NothingWithoutBroker /\ ReceivesAfterSetup
  BY DEF RunnersEndBefore, NothingWithoutBroker, ReceivesAfterSetup, Running
<1>6. MessagesAreSaid
  BY <1>1 DEF MessagesAreSaid
<1>7. FinishedWasReported /\ TeardownComesLast
  BY DEF FinishedWasReported, TeardownComesLast, NoResults, TearingDown
<1>8. OneKeepsOrder /\ AloneHasAll
  BY DEF OneKeepsOrder, AloneHasAll, Alive, SettingUp, TearingDown
<1>9. AloneResultsAreOwn
  BY FromEmpty DEF AloneResultsAreOwn, NoResults
<1>10. FailureHasCause
  BY DEF FailureHasCause
<1> QED
  BY <1>2, <1>3, <1>4, <1>5, <1>6, <1>7, <1>8, <1>9, <1>10
     DEF DockerInv, DockerTypes

(* ... after a step of a client, ...                                       *)
LEMMA DockerInvStep ==
  ASSUME DockerInv, NEW c \in Clients, DockerStep(c)
  PROVE  DockerInv'
<1> USE DEF DockerInv
<1>1. DockerTypes'
  BY PlainTypesStep, TableTypesStep DEF DockerTypes
<1>2. DeathHasCause' /\ NewIsUndisturbed'
  BY DeathStep, NewStep
<1>3. NetworkHasMaker' /\ BrokerHasMaker'
  BY NetworkStep, BrokerStep
<1>4. RunnersEndBefore' /\ NothingWithoutBroker' /\ ReceivesAfterSetup'
  BY RunnersEndStep, BrokerGoesWithAll, ReceivesStep
<1>5. MessagesAreSaid' /\ FinishedWasReported' /\ TeardownComesLast'
  BY SaidStep, FinishedStep, TeardownStep
<1>6. OneKeepsOrder' /\ AloneHasAll'
  BY OrderStep, AloneStep
<1>7. AloneResultsAreOwn' /\ FailureHasCause'
  BY OwnStep, FailureStep
<1> QED
  BY <1>1, <1>2, <1>3, <1>4, <1>5, <1>6, <1>7

(* ... when the broker begins to listen, ...                               *)
LEMMA DockerInvBoots ==
  ASSUME DockerInv, BrokerBoots
  PROVE  DockerInv'
<1> USE DEF DockerInv, BrokerBoots, handles, receive, tests, past
<1>1. broker \in [by : Clients, state : {"created", "booting", "listening"}]
  BY DEF DockerTypes, PlainTypes, NoBroker
<1>2. /\ broker' \in [by : Clients, state : {"created", "booting", "listening"}]
      /\ broker'.by = broker.by /\ broker'.state = "listening"
  BY <1>1
<1>3. broker' # NoBroker /\ broker # NoBroker /\ Listening' /\ ~Listening
  BY <1>2 DEF NoBroker, Listening
<1>4. \A c \in Clients : IsBroker(c)' <=> IsBroker(c)
  BY <1>2, <1>3 DEF IsBroker
<1>5. DockerTypes'
  <2>1. PlainTypes'
    BY <1>2 DEF DockerTypes, PlainTypes, Owners
  <2>2. TableTypes'
    BY DEF DockerTypes, TableTypes
  <2> QED
    BY <2>1, <2>2 DEF DockerTypes
<1>6. DeathHasCause' /\ NewIsUndisturbed'
  BY DEF DeathHasCause, NewIsUndisturbed
<1>7. NetworkHasMaker' /\ BrokerHasMaker'
  BY <1>2, <1>3 DEF NetworkHasMaker, BrokerHasMaker, MakerRemains
<1>8. RunnersEndBefore' /\ NothingWithoutBroker' /\ ReceivesAfterSetup'
  BY <1>3 DEF RunnersEndBefore, NothingWithoutBroker, ReceivesAfterSetup
<1>9. MessagesAreSaid' /\ FinishedWasReported' /\ TeardownComesLast'
  <2>1. Said' = Said
    BY DEF Said
  <2> QED
    BY <2>1 DEF MessagesAreSaid, FinishedWasReported, TeardownComesLast
<1>10. OneKeepsOrder'
  <2> SUFFICES ASSUME NEW c \in Clients, Alive(c)', ~overlap'[c]
               PROVE  RunsByItself(c)'
    BY DEF OneKeepsOrder
  <2>1. RunsByItself(c)
    BY DEF OneKeepsOrder, Alive
  <2>2. session[c] \notin {"createBroker", "stopRunners", "removeNetwork"}
    BY <1>3, <2>1 DEF RunsByItself, FindsItsMachine
  <2> QED
    BY <1>4, <2>1, <2>2 DEF RunsByItself, FindsItsMachine, Alive
<1>11. AloneHasAll'
  <2> SUFFICES ASSUME NEW c \in Clients, Alive(c)', ~disturbed'[c]
               PROVE  HasMachineAlone(c)'
    BY DEF AloneHasAll
  <2>1. HasMachineAlone(c)
    BY DEF AloneHasAll, Alive
  <2> QED
    BY <1>3, <2>1 DEF HasMachineAlone, FromOnly
<1>12. AloneResultsAreOwn' /\ FailureHasCause'
  BY DEF AloneResultsAreOwn, FailureHasCause
<1> QED
  BY <1>5, <1>6, <1>7, <1>8, <1>9, <1>10, <1>11, <1>12

(* ... and while clients on AWS take steps.                                *)
LEMMA DockerInvStutter ==
  ASSUME DockerInv, UNCHANGED dockerVars
  PROVE  DockerInv'
<1> USE DEF DockerInv, dockerVars, machine, handles, receive, tests, past
<1>1. DockerTypes'
  BY DEF DockerTypes, PlainTypes, TableTypes
<1>2. DeathHasCause' /\ NewIsUndisturbed'
  BY DEF DeathHasCause, NewIsUndisturbed
<1>3. NetworkHasMaker' /\ BrokerHasMaker'
  BY DEF NetworkHasMaker, BrokerHasMaker, MakerRemains
<1>4. RunnersEndBefore' /\ NothingWithoutBroker' /\ ReceivesAfterSetup'
  BY DEF RunnersEndBefore, NothingWithoutBroker, ReceivesAfterSetup, Listening
<1>5. MessagesAreSaid' /\ FinishedWasReported' /\ TeardownComesLast'
  BY DEF MessagesAreSaid, Said, FinishedWasReported, TeardownComesLast
<1>6. OneKeepsOrder' /\ AloneHasAll'
  BY DEF OneKeepsOrder, RunsByItself, FindsItsMachine, AloneHasAll,
     HasMachineAlone, Alive, IsBroker, Listening
<1>7. AloneResultsAreOwn' /\ FailureHasCause'
  BY DEF AloneResultsAreOwn, FailureHasCause
<1> QED
  BY <1>1, <1>2, <1>3, <1>4, <1>5, <1>6, <1>7

-----------------------------------------------------------------------------
(* The inductive invariant holds of all clients that share a machine, for  *)
(* any number of runners, beside any clients that share an account.        *)
THEOREM DockerInvariant == Spec => []DockerInv
<1>1. Init => DockerInv
  BY DockerInvInit DEF Init
<1>2. DockerInv /\ [Next]_vars => DockerInv'
  <2> SUFFICES ASSUME DockerInv, [Next]_vars PROVE DockerInv'
    OBVIOUS
  <2>1. CASE AwsNext /\ UNCHANGED dockerVars
    BY <2>1, DockerInvStutter
  <2>2. CASE DockerNext /\ UNCHANGED awsVars
    BY <2>2, DockerInvStep, DockerInvBoots DEF DockerNext
  <2>3. CASE UNCHANGED vars
    BY <2>3, DockerInvStutter DEF vars
  <2> QED
    BY <2>1, <2>2, <2>3 DEF Next
<1> QED
  BY <1>1, <1>2, PTL DEF Spec

(* Every value of account and machine has its type, and no client starts   *)
(* more programs than all together may.                                    *)
THEOREM PlatformTypes == Spec => []TypeOK
<1>1. AwsInv /\ DockerInv => TypeOK
  BY DockerTypesAreTypes DEF AwsInv, DockerInv, TypeOK
<1> QED
  BY <1>1, AwsInvariant, DockerInvariant, PTL

(* What the runners of a client that has the machine alone have sent is in *)
(* its results or on the way there, whoever used the machine before.       *)
THEOREM LoneResultsAreComplete == Spec => []AloneResultsAreOwn
<1>1. DockerInv => AloneResultsAreOwn
  BY DEF DockerInv
<1> QED
  BY <1>1, DockerInvariant, PTL

(* What ends a program early, other than a signal or a call that fails by  *)
(* itself, is another client, what one has left, its user's interrupt, or  *)
(* the data race of docker.go:266-268 over a report of an own runner.      *)
THEOREM FailuresHaveCause == Spec => []FailureHasCause
<1>1. DockerInv => FailureHasCause
  BY DEF DockerInv
<1> QED
  BY <1>1, DockerInvariant, PTL

(* Clients that all come to their regular end leave no network, no broker  *)
(* and no runner, in whatever order their steps came.                      *)
THEOREM MachineIsLeftClean == Spec => []CleanWhenAllOver
<1>1. DockerInv => CleanWhenAllOver
  <2> SUFFICES ASSUME DockerInv,
                      \A c \in Clients : session[c] \in {"off", "over"}
               PROVE  network = Absent /\ broker = NoBroker /\ ~InUse
    BY DEF CleanWhenAllOver
  <2> USE DEF DockerInv
  <2>1. network = Absent
    BY DEF NetworkHasMaker, MakerRemains, HasNetwork, TearingDown, DockerTypes,
       PlainTypes, Owners
  <2>2. broker = NoBroker
    BY DEF BrokerHasMaker, MakerRemains, HasBroker, DockerTypes, PlainTypes
  <2>3. \A c \in Clients : \A id \in RunnerIDs(c) : runner[c][id] \notin Running
    BY DEF RunnersEndBefore, AfterSetup, TearingDown, Running
  <2> QED
    BY <2>1, <2>2, <2>3 DEF InUse, NoBroker
<1> QED
  BY <1>1, DockerInvariant, PTL
=============================================================================
