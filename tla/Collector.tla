----------------------------- MODULE Collector ------------------------------
(***************************************************************************)
(* The receiving side of a test on AWS: the FIFO queue, the adapter's      *)
(* Receive() (sqsadapter.go), the loop of AwsInfrastructure.Receive()      *)
(* (infrastructure/aws/aws.go), the goroutine of goad.Start() that relays  *)
(* its results, and the reader of the relay (cli.go, webapi.go).           *)
(*                                                                         *)
(* All results are sent in one message group, so the queue is one          *)
(* sequence.  A batch is received, deleted from the queue, and only then   *)
(* added result by result; an adapter call that fails anywhere returns nil *)
(* like one that found nothing.                                            *)
(***************************************************************************)
EXTENDS Integers, Sequences, Functions

CONSTANTS
  RunnerIDs,   \* 0 .. Lambdas - 1
  BatchSize,   \* MaxNumberOfMessages, 10
  IdleLimit,   \* empty calls in a row that add up to 20 seconds
  Faults,      \* what deletes may do: "delete-error", "delete-partial"
  MaxRepeats   \* exploration bound: messages kept by partial deletes

ASSUME CollectorAssumption ==
  /\ RunnerIDs \subseteq Nat
  /\ BatchSize \in Nat \ {0}
  /\ IdleLimit \in Nat
  /\ Faults \subseteq {"delete-error", "delete-partial"}
  /\ MaxRepeats \in Nat

VARIABLES
  queue,     \* messages of the SQS queue, [id, count, fin]
  pc,        \* where AwsInfrastructure.Receive() is
  batch,     \* received results that are not added yet
  idle,      \* empty calls since timeoutStart was set
  cause,     \* why Receive() ended: finished or idle
  data,      \* data.Lambdas
  relay,     \* the relaying goroutine: empty, holding, closed
  reader,    \* its reader: waiting, rendering, done, left
  dropped,   \* history: counts in results that were deleted but not added
  repeats    \* history: results added and yet kept in the queue, and counts

collectorVars ==
  <<queue, pc, batch, idle, cause, data, relay, reader, dropped, repeats>>

-----------------------------------------------------------------------------
Messages(counts) == [id : RunnerIDs, count : counts, fin : BOOLEAN]

(* Requests of runner id that a sequence of results carries.               *)
Carried(id, results) ==
  SumFunction([k \in DOMAIN results |->
                 IF results[k].id = id THEN results[k].count ELSE 0])

AllLambdasFinished == \A id \in RunnerIDs : data[id].Finished

(* A call of the adapter that returns nil.                                 *)
Nothing == pc' = "nil"

AddResult_Overwrites(d, m) == [TotalReqs |-> m.count, Finished |-> m.fin]

(* AddResult() of package result, as far as counts and Finished go; both   *)
(* averages and statuses are sums of the same kind.                        *)
AddResult(d, m) ==
  [TotalReqs |-> d.TotalReqs + m.count, Finished |-> m.fin]

Rest == SubSeq(queue, Len(batch) + 1, Len(queue))

(* Some of the messages of the batch, by their positions in it.            *)
Kept(positions) == [i \in DOMAIN positions |-> batch[positions[i]]]

Increasing(positions) ==
  \A i, j \in DOMAIN positions : i < j => positions[i] < positions[j]

-----------------------------------------------------------------------------
CollectorInit ==
  /\ queue = <<>>
  /\ pc = "receive"
  /\ batch = <<>>
  /\ idle = 0
  /\ cause = "none"
  /\ data = [id \in RunnerIDs |-> [TotalReqs |-> 0, Finished |-> FALSE]]
  /\ relay = "empty"
  /\ reader = "waiting"
  /\ dropped = [id \in RunnerIDs |-> 0]
  /\ repeats = [messages |-> 0, requests |-> [id \in RunnerIDs |-> 0]]

SendResult_Unordered(m) ==
  /\ queue' = <<m>> \o queue
  /\ UNCHANGED <<pc, batch, idle, cause, data, relay, reader, dropped, repeats>>

(* SendResult(): each message has a deduplication id of its own, which a   *)
(* retry of the same call keeps, so it enters the queue once.              *)
SendResult(m) ==
  /\ queue' = Append(queue, m)
  /\ UNCHANGED <<pc, batch, idle, cause, data, relay, reader, dropped, repeats>>

(* ReceiveMessage: an error, nothing within a second, or a first part of   *)
(* the queue, which stays there, invisible, until it is deleted.           *)
ReceiveMessage ==
  /\ pc = "receive"
  /\ \/ Nothing /\ UNCHANGED batch
     \/ \E n \in 1 .. BatchSize :
          /\ n <= Len(queue)
          /\ batch' = SubSeq(queue, 1, n)
          /\ pc' = "delete"
  /\ UNCHANGED <<queue, idle, cause, data, relay, reader, dropped, repeats>>

(* DeleteMessageBatch: done; an error, with or without effect on the       *)
(* queue; or done in part, which the adapter does not look at.             *)
DeleteBatch ==
  /\ pc = "delete"
  /\ queue' = Rest
  /\ pc' = "add"
  /\ UNCHANGED <<batch, idle, cause, data, relay, reader, dropped, repeats>>

DeleteFails_KeepsBatch ==
  /\ "delete-error" \in Faults
  /\ pc = "delete"
  /\ pc' = "add"
  /\ UNCHANGED <<queue, batch, idle, cause, data, relay, reader, dropped,
                 repeats>>

DeleteFails ==
  /\ "delete-error" \in Faults
  /\ pc = "delete"
  /\ Nothing
  /\ batch' = <<>>
  /\ \/ UNCHANGED <<queue, dropped>>
     \/ /\ queue' = Rest
        /\ dropped' = [id \in RunnerIDs |-> dropped[id] + Carried(id, batch)]
  /\ UNCHANGED <<idle, cause, data, relay, reader, repeats>>

DeletePartly ==
  /\ "delete-partial" \in Faults
  /\ pc = "delete"
  /\ \E n \in 1 .. Len(batch) : \E positions \in [1 .. n -> 1 .. Len(batch)] :
       /\ Increasing(positions)
       /\ repeats.messages + n <= MaxRepeats
       /\ queue' = Kept(positions) \o Rest
       /\ repeats' =
            [messages |-> repeats.messages + n,
             requests |-> [id \in RunnerIDs |->
                             repeats.requests[id] + Carried(id, Kept(positions))]]
  /\ pc' = "add"
  /\ UNCHANGED <<batch, idle, cause, data, relay, reader, dropped>>

(* One result is added, and the shared data offered to the relay.          *)
AddNext ==
  /\ pc = "add"
  /\ batch # <<>>
  /\ data' = [data EXCEPT ![Head(batch).id] = AddResult(@, Head(batch))]
  /\ batch' = Tail(batch)
  /\ pc' = "offer"
  /\ UNCHANGED <<queue, idle, cause, relay, reader, dropped, repeats>>

(* Adding writes the maps a reader ranges over, be it for its display or,  *)
(* interrupted, for its summary: unless the runtime misses it, the program *)
(* ends with a fatal error.                                                *)
RaceCrash ==
  /\ pc = "add"
  /\ batch # <<>>
  /\ reader \in {"rendering", "left"}
  /\ pc' = "crashed"
  /\ UNCHANGED <<queue, batch, idle, cause, data, relay, reader, dropped,
                 repeats>>

Offer ==
  /\ pc = "offer"
  /\ relay = "empty"
  /\ relay' = "holding"
  /\ pc' = "add"
  /\ UNCHANGED <<queue, batch, idle, cause, data, reader, dropped, repeats>>

(* The batch is added: all finished, or timeoutStart is set anew.          *)
EndBatch ==
  /\ pc = "add"
  /\ batch = <<>>
  /\ \/ /\ AllLambdasFinished
        /\ pc' = "closed"
        /\ cause' = "finished"
        /\ UNCHANGED idle
     \/ /\ ~AllLambdasFinished
        /\ pc' = "receive"
        /\ idle' = 0
        /\ UNCHANGED cause
  /\ UNCHANGED <<queue, batch, data, relay, reader, dropped, repeats>>

(* The call returned nil: give up after 20 seconds of this.                *)
WaitOrGiveUp_NeverGivesUp ==
  /\ pc = "nil"
  /\ pc' = "receive"
  /\ UNCHANGED <<queue, batch, idle, cause, data, relay, reader, dropped,
                 repeats>>

WaitOrGiveUp_Overruns ==
  /\ pc = "nil"
  /\ \/ /\ idle <= IdleLimit
        /\ idle' = idle + 1
        /\ pc' = "receive"
        /\ UNCHANGED cause
     \/ /\ idle = IdleLimit
        /\ pc' = "closed"
        /\ cause' = "idle"
        /\ UNCHANGED idle
  /\ UNCHANGED <<queue, batch, data, relay, reader, dropped, repeats>>

WaitOrGiveUp ==
  /\ pc = "nil"
  /\ \/ /\ idle < IdleLimit
        /\ idle' = idle + 1
        /\ pc' = "receive"
        /\ UNCHANGED cause
     \/ /\ idle = IdleLimit
        /\ pc' = "closed"
        /\ cause' = "idle"
        /\ UNCHANGED idle
  /\ UNCHANGED <<queue, batch, data, relay, reader, dropped, repeats>>

-----------------------------------------------------------------------------
(* The relay hands one pointer after the other to the reader.              *)
Take ==
  /\ pc # "crashed"
  /\ relay = "holding"
  /\ reader = "waiting"
  /\ relay' = "empty"
  /\ reader' = "rendering"
  /\ UNCHANGED <<queue, pc, batch, idle, cause, data, dropped, repeats>>

Rendered ==
  /\ pc # "crashed"
  /\ reader = "rendering"
  /\ reader' = "waiting"
  /\ UNCHANGED <<queue, pc, batch, idle, cause, data, relay, dropped, repeats>>

RelayCloses ==
  /\ pc = "closed"
  /\ relay = "empty"
  /\ relay' = "closed"
  /\ UNCHANGED <<queue, pc, batch, idle, cause, data, reader, dropped, repeats>>

ReaderEnds ==
  /\ relay = "closed"
  /\ reader = "waiting"
  /\ reader' = "done"
  /\ UNCHANGED <<queue, pc, batch, idle, cause, data, relay, dropped, repeats>>

(* The reader is interrupted, or its web socket fails.  Nobody tells the   *)
(* relay.                                                                  *)
ReaderLeaves ==
  /\ pc # "crashed"
  /\ reader \in {"waiting", "rendering"}
  /\ reader' = "left"
  /\ UNCHANGED <<queue, pc, batch, idle, cause, data, relay, dropped, repeats>>

Receive ==
  \/ ReceiveMessage \/ DeleteBatch \/ DeleteFails \/ DeletePartly
  \/ AddNext \/ Offer \/ EndBatch \/ WaitOrGiveUp

Reader == Take \/ Rendered \/ RelayCloses \/ ReaderEnds

CollectorNext == Receive \/ Reader \/ ReaderLeaves \/ RaceCrash

(* Goroutines that can run do run; nothing is assumed of the queue.        *)
CollectorFairness == WF_collectorVars(Receive) /\ WF_collectorVars(Reader)

CollectorTypeOK ==
  /\ queue \in Seq(Messages(Nat))
  /\ pc \in {"receive", "delete", "add", "offer", "nil", "closed", "crashed"}
  /\ batch \in Seq(Messages(Nat))
  /\ idle \in 0 .. IdleLimit
  /\ cause \in {"none", "finished", "idle"}
  /\ data \in [RunnerIDs -> [TotalReqs : Nat, Finished : BOOLEAN]]
  /\ relay \in {"empty", "holding", "closed"}
  /\ reader \in {"waiting", "rendering", "done", "left"}
  /\ dropped \in [RunnerIDs -> Nat]
  /\ repeats \in [messages : 0 .. MaxRepeats, requests : [RunnerIDs -> Nat]]
=============================================================================
