------------------------------ MODULE Session -------------------------------
(***************************************************************************)
(* A whole test on AWS: for every runner id a chain of runner processes,   *)
(* each started by the one before it, all reporting through one queue to   *)
(* one collector.                                                          *)
(*                                                                         *)
(* A process does here what RunnerContract allows (which Runner is shown   *)
(* to implement); the collector is that of module Collector.  What is new  *)
(* is how they meet: the client starts the first process and ignores       *)
(* errors, a process waits for its successor before it sends its last      *)
(* report, and the platform may end any process at any time.               *)
(***************************************************************************)
EXTENDS RunnerArgs, Collector

CONSTANTS
  Plan,       \* command line of the first process of each runner
  CountBound  \* exploration bound: requests of a runner without limit

NoChild == [none |-> TRUE]

ASSUME SessionAssumption ==
  /\ Plan \in [RunnerIDs -> Args({})]
  /\ CountBound \in Nat

VARIABLES
  client, \* per runner: is the client's Invoke still to come?
  chain   \* per runner: its processes, in the order they were started

vars == <<client, chain, collectorVars>>

-----------------------------------------------------------------------------
Process(args) ==
  [given |-> args, state |-> "running", counted |-> 0, sent |-> 0,
   verdict |-> FALSE, finished |-> FALSE, child |-> NoChild]

Init ==
  /\ CollectorInit
  /\ client = [id \in RunnerIDs |-> "invoking"]
  /\ chain = [id \in RunnerIDs |-> <<>>]

(* The client's Invoke: it starts the first process, or an error is lost.  *)
InvokeLambda(id) ==
  /\ client[id] = "invoking"
  /\ client' = [client EXCEPT ![id] = "invoked"]
  /\ chain' \in {chain, [chain EXCEPT ![id] = <<Process(Plan[id])>>]}
  /\ UNCHANGED collectorVars

Index(id) == DOMAIN chain[id]

TotalCounted(id) == SumFunction([k \in Index(id) |-> chain[id][k].counted])
TotalSent(id) == SumFunction([k \in Index(id) |-> chain[id][k].sent])

Report(id, k, fin) ==
  SendResult([id    |-> id,
              count |-> chain[id][k].counted - chain[id][k].sent,
              fin   |-> fin])

Count(id, k) ==
  LET p == chain[id][k] IN
  /\ p.state = "running"
  /\ IF Limited(p.given) THEN p.counted < Remaining(p.given)
                         ELSE TotalCounted(id) < CountBound
  /\ chain' = [chain EXCEPT ![id][k].counted = @ + 1]
  /\ UNCHANGED <<client, collectorVars>>

SendReport(id, k) ==
  LET p == chain[id][k] IN
  /\ p.state = "running"
  /\ p.sent < p.counted
  /\ Report(id, k, FALSE)
  /\ chain' = [chain EXCEPT ![id][k].sent = p.counted]
  /\ UNCHANGED client

LeaveLoop_SkipsLastResult(id, k) ==
  LET p == chain[id][k] IN
  /\ p.state = "running"
  /\ \/ /\ \/ Limited(p.given) /\ p.counted >= Remaining(p.given) - 1
           \/ TimeIsOver(p.given)
        /\ chain' = [chain EXCEPT ![id][k].state = "closing",
                                  ![id][k].verdict = TRUE]
     \/ /\ ~TimeIsOver(p.given)
        /\ chain' = [chain EXCEPT ![id][k].state = "forking"]
  /\ UNCHANGED <<client, collectorVars>>

(* The loop ends: everything is done, the test's time is over, or only the *)
(* process's.                                                              *)
LeaveLoop(id, k) ==
  LET p == chain[id][k] IN
  /\ p.state = "running"
  /\ \/ /\ \/ Limited(p.given) /\ p.counted = Remaining(p.given)
           \/ TimeIsOver(p.given)
        /\ chain' = [chain EXCEPT ![id][k].state = "closing",
                                  ![id][k].verdict = TRUE]
     \/ /\ ~TimeIsOver(p.given)
        /\ chain' = [chain EXCEPT ![id][k].state = "forking"]
  /\ UNCHANGED <<client, collectorVars>>

Successor_Restarts(p) ==
  [p.given EXCEPT !.StresstestTimeout = TimeLeft(p.given),
                  !.RequestHeaders = {}]

Successor(p) ==
  [p.given EXCEPT !.CompletedRequestCount = @ + p.counted,
                  !.StresstestTimeout = TimeLeft(p.given),
                  !.RequestHeaders = {}]

HandOver(id, k) ==
  LET p == chain[id][k]
      parent == [p EXCEPT !.state = "closing", !.child = Successor(p)]
  IN
  /\ p.state = "forking"
  /\ chain' \in {[chain EXCEPT ![id] = Append([@ EXCEPT ![k] = parent],
                                              Process(Successor(p)))],
                 [chain EXCEPT ![id][k].state = "closing"]}
  /\ UNCHANGED <<client, collectorVars>>

(* Invoke returns to a parent when its successor has ended.                *)
SendLast(id, k) ==
  LET p == chain[id][k] IN
  /\ p.state = "closing"
  /\ k + 1 \in Index(id) => chain[id][k + 1].state = "ended"
  /\ Report(id, k, p.verdict)
  /\ chain' = [chain EXCEPT ![id][k].sent = p.counted,
                            ![id][k].finished = p.verdict,
                            ![id][k].state = "ended"]
  /\ UNCHANGED client

Die(id, k) ==
  /\ chain[id][k].state # "ended"
  /\ chain' = [chain EXCEPT ![id][k].state = "ended"]
  /\ UNCHANGED <<client, collectorVars>>

ProcessStep(id, k) ==
  Count(id, k) \/ SendReport(id, k) \/ LeaveLoop(id, k) \/ HandOver(id, k)
  \/ SendLast(id, k) \/ Die(id, k)

Next ==
  \/ \E id \in RunnerIDs :
       InvokeLambda(id) \/ \E k \in Index(id) : ProcessStep(id, k)
  \/ CollectorNext /\ UNCHANGED <<client, chain>>

Spec == Init /\ [][Next]_vars

FairSpec == Spec /\ CollectorFairness

-----------------------------------------------------------------------------
Processes ==
  [given : Args({}), state : {"running", "forking", "closing", "ended"},
   counted : Nat, sent : Nat, verdict : BOOLEAN, finished : BOOLEAN,
   child : Args({}) \cup {NoChild}]

TypeOK ==
  /\ CollectorTypeOK
  /\ client \in [RunnerIDs -> {"invoking", "invoked"}]
  /\ chain \in [RunnerIDs -> Seq(Processes)]

(* Every request a process reports is accounted for at all times: added to *)
(* the results, in the adapter's hands, in the queue, or in a batch whose  *)
(* deletion failed; what is beyond that was kept by a partial deletion and *)
(* is added twice.                                                         *)
InHand(id) == IF pc = "delete" THEN 0 ELSE Carried(id, batch)

ReportsAccountedFor ==
  \A id \in RunnerIDs :
    data[id].TotalReqs + InHand(id) + Carried(id, queue) + dropped[id]
      = TotalSent(id) + repeats.requests[id]

(* The processes of a chain together never count more requests than the    *)
(* runner was given, however often the work changes hands.                 *)
ChainStaysWithinLimit ==
  \A id \in RunnerIDs :
    Limited(Plan[id]) => TotalCounted(id) <= Remaining(Plan[id])

(* A runner that needed no successor and is shown as finished is complete: *)
(* all it has counted is in the results, unless the queue lost or repeated *)
(* a message; and it has either reached its limit or used up its time.     *)
FinishedRunnerIsComplete ==
  \A id \in RunnerIDs :
    data[id].Finished /\ Len(chain[id]) = 1 =>
      LET p == chain[id][1] IN
      /\ data[id].TotalReqs + dropped[id] + InHand(id) + Carried(id, queue)
           = p.counted + repeats.requests[id]
      /\ \/ Limited(Plan[id]) /\ p.counted = Remaining(Plan[id])
         \/ TimeIsOver(Plan[id])

(* A finished runner turns unfinished again only through the late last     *)
(* report of a process that has a successor, or a repeated message.        *)
UnfinishedOnlyByParent ==
  [][\A id \in RunnerIDs :
       data[id].Finished /\ ~data'[id].Finished =>
         Len(chain[id]) > 1 \/ repeats.messages > 0]_vars

(* Each process of a chain keeps to the contract of a runner, from its     *)
(* start on.                                                               *)
Contract(id, k) == INSTANCE RunnerContract
  WITH StartArgs <- Args({}),
       given <- chain[id][k].given,
       state <- chain[id][k].state,
       counted <- chain[id][k].counted,
       sent <- chain[id][k].sent,
       verdict <- chain[id][k].verdict,
       finished <- chain[id][k].finished,
       child <- chain[id][k].child

ProcessesKeepContract ==
  [][\A id \in RunnerIDs : \A k \in DOMAIN chain'[id] :
       IF k \in Index(id)
       THEN Contract(id, k)!Next \/ UNCHANGED chain[id][k]
       ELSE Contract(id, k)!Init']_vars

(* What the client shows in the end, once every runner is finished, is the *)
(* sum of what all processes have counted.                                 *)
AllRequestsCollected ==
  cause = "finished" =>
    \A id \in RunnerIDs : data[id].TotalReqs = TotalCounted(id)

(* Whatever happens to the processes and to the queue, the client stops    *)
(* waiting: its reader gets to the end of the results, unless it left or   *)
(* the program crashed.                                                    *)
SessionEnds == <>(reader \in {"done", "left"} \/ pc = "crashed")
=============================================================================
