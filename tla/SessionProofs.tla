--------------------------- MODULE SessionProofs ----------------------------
(***************************************************************************)
(* Proofs about Session, for any number of runners and processes, any      *)
(* command lines, batch size and bounds: types, the inductive invariant,   *)
(* the safety properties that follow from it, and that every process of a  *)
(* chain keeps to RunnerContract.                                          *)
(***************************************************************************)
EXTENDS Session, Sums, SequenceTheorems, TLAPS

(* All messages that are still to be added, in the order in which they     *)
(* will be: a batch stays in the queue until it is deleted.                *)
Pending == IF pc = "delete" THEN queue ELSE batch \o queue

Prefix(b, q) == Len(b) <= Len(q) /\ b = SubSeq(q, 1, Len(b))

(* The adapter holds results only from their receipt until they are added. *)
BatchInHand ==
  /\ pc \in {"receive", "nil", "closed"} => batch = <<>>
  /\ pc = "delete" => Prefix(batch, queue)

(* One process of a chain at most is running, the last; the first one has  *)
(* the client's command line.                                              *)
OneRuns ==
  \A id \in RunnerIDs :
    /\ client[id] = "invoking" => chain[id] = <<>>
    /\ chain[id] # <<>> => chain[id][1].given = Plan[id]
    /\ \A k \in Index(id) :
         k < Len(chain[id]) => chain[id][k].state \in {"closing", "ended"}

(* No process reports what it has not counted, or an end without reason;   *)
(* and none has a successor before it has stopped.                         *)
ReportsAreTrue ==
  \A id \in RunnerIDs : \A k \in Index(id) :
    LET p == chain[id][k] IN
    /\ p.sent <= p.counted
    /\ p.verdict => /\ p.state \in {"closing", "ended"}
                    /\ \/ Limited(p.given) /\ p.counted = Remaining(p.given)
                       \/ TimeIsOver(p.given)
    /\ p.finished => p.verdict /\ p.sent = p.counted /\ p.state = "ended"
    /\ p.state \in {"running", "forking"} => p.child = NoChild

(* Each process starts to count where the one before it stopped.           *)
CountsAreHandedOn ==
  \A id \in RunnerIDs :
    /\ \A k \in Index(id) :
         chain[id][k].given.MaxRequestCount = Plan[id].MaxRequestCount
    /\ chain[id] # <<>> =>
         LET p == chain[id][Len(chain[id])] IN
         p.given.CompletedRequestCount + p.counted
           = Plan[id].CompletedRequestCount + TotalCounted(id)

(* That a runner is finished, one of its processes has said.               *)
FinishedWasSaid ==
  \A id \in RunnerIDs :
    data[id].Finished
      \/ (\E j \in DOMAIN Pending : Pending[j].id = id /\ Pending[j].fin) =>
    \E k \in Index(id) : chain[id][k].finished

(* Without successors and repeated messages it is the last message.        *)
SaidLast ==
  \A id \in RunnerIDs : Len(chain[id]) <= 1 /\ repeats.messages = 0 =>
    /\ data[id].Finished => \A j \in DOMAIN Pending : Pending[j].id # id
    /\ \A i, j \in DOMAIN Pending :
         Pending[i].id = id /\ Pending[i].fin /\ i < j => Pending[j].id # id

SessionInv ==
  /\ TypeOK
  /\ BatchInHand
  /\ OneRuns
  /\ ReportsAreTrue
  /\ CountsAreHandedOn
  /\ ChainStaysWithinLimit
  /\ ReportsAccountedFor
  /\ FinishedWasSaid
  /\ SaidLast

-----------------------------------------------------------------------------
(* What results carry: sums over sequences of messages.                    *)
Requests(id, results) ==
  [k \in DOMAIN results |->
     IF results[k].id = id THEN results[k].count ELSE 0]

Sent == Messages(Nat)

(* What a sequence of messages carries for a runner is a sum over its      *)
(* positions.                                                              *)
LEMMA CarriedIsSum ==
  ASSUME NEW id, NEW s \in Seq(Sent)
  PROVE  /\ Carried(id, s) = SumFunctionOnSet(Requests(id, s), 1 .. Len(s))
         /\ \A k \in 1 .. Len(s) :
              /\ Requests(id, s)[k] \in Nat
              /\ Requests(id, s)[k] = IF s[k].id = id THEN s[k].count ELSE 0
         /\ Len(s) \in Nat /\ DOMAIN s = 1 .. Len(s)
<1>1. DOMAIN s = 1 .. Len(s) /\ Len(s) \in Nat
  OBVIOUS
<1>2. DOMAIN Requests(id, s) = 1 .. Len(s)
  BY <1>1 DEF Requests
<1>3. Carried(id, s) = SumFunctionOnSet(Requests(id, s), DOMAIN Requests(id, s))
  BY Zenon DEF Carried, SumFunction, Requests
<1>4. \A k \in 1 .. Len(s) : s[k] \in Sent
  OBVIOUS
<1> QED
  BY <1>1, <1>2, <1>3, <1>4 DEF Requests, Sent, Messages

(* It is a natural number,                                                 *)
LEMMA CarriedType ==
  ASSUME NEW id, NEW s \in Seq(Sent)
  PROVE  Carried(id, s) \in Nat
<1>1. IsFiniteSet(1 .. Len(s))
  BY FS_Interval
<1> QED
  BY <1>1, CarriedIsSum, SumNat

(* 0 for no messages,                                                      *)
LEMMA CarriedNone ==
  ASSUME NEW id, NEW s \in Seq(Sent), Len(s) = 0
  PROVE  Carried(id, s) = 0
<1>1. 1 .. Len(s) = {}
  OBVIOUS
<1>2. Carried(id, s) = SumFunctionOnSet(Requests(id, s), 1 .. Len(s))
  BY CarriedIsSum
<1> QED
  BY Zenon, <1>1, <1>2, SumOfEmpty

(* the count of a single message if that is of the runner,                 *)
LEMMA CarriedOne ==
  ASSUME NEW id, NEW s \in Seq(Sent), Len(s) = 1
  PROVE  Carried(id, s) = IF s[1].id = id THEN s[1].count ELSE 0
<1>1. /\ \A i \in 1 .. 0 + 1 : Requests(id, s)[i] \in Nat
      /\ Requests(id, s)[0 + 1] = IF s[1].id = id THEN s[1].count ELSE 0
  BY CarriedIsSum
<1>2. SumFunctionOnSet(Requests(id, s), 1 .. 0 + 1)
        = SumFunctionOnSet(Requests(id, s), 1 .. 0) + Requests(id, s)[0 + 1]
  BY <1>1, SumLast
<1>3. SumFunctionOnSet(Requests(id, s), 1 .. 0) = 0
  <2>1. 1 .. 0 = {}
    OBVIOUS
  <2> QED
    BY <2>1, SumOfEmpty
<1>4. 0 + 1 = Len(s) /\ Requests(id, s)[0 + 1] \in Nat
  BY <1>1
<1> QED
  BY <1>1, <1>2, <1>3, <1>4, CarriedIsSum

(* and the sum of two parts, wherever a sequence is cut.                   *)
LEMMA CarriedParts ==
  ASSUME NEW id, NEW s \in Seq(Sent), NEW t \in Seq(Sent), NEW u \in Seq(Sent)
  PROVE  /\ Len(u) = Len(s) + Len(t)
         /\ \A i \in 1 .. Len(s) : u[i] = s[i]
         /\ \A j \in 1 .. Len(t) : u[Len(s) + j] = t[j]
         => Carried(id, u) = Carried(id, s) + Carried(id, t)
<1>1. SUFFICES ASSUME Len(u) = Len(s) + Len(t),
                      \A i \in 1 .. Len(s) : u[i] = s[i],
                      \A j \in 1 .. Len(t) : u[Len(s) + j] = t[j]
               PROVE  Carried(id, u) = Carried(id, s) + Carried(id, t)
  OBVIOUS
<1>2. PICK m \in Nat, n \in Nat, mn \in Nat :
        m = Len(s) /\ n = Len(t) /\ mn = Len(u)
  OBVIOUS
<1>3. PICK f, g, h : /\ f = Requests(id, s) /\ g = Requests(id, t)
                     /\ h = Requests(id, u)
  OBVIOUS
<1>4. /\ \A k \in 1 .. m : f[k] = IF s[k].id = id THEN s[k].count ELSE 0
      /\ \A k \in 1 .. n : g[k] = IF t[k].id = id THEN t[k].count ELSE 0
      /\ \A k \in 1 .. mn : h[k] = IF u[k].id = id THEN u[k].count ELSE 0
  BY <1>2, <1>3 DEF Requests
<1>5. /\ \A k \in 1 .. m : f[k] \in Int
      /\ \A k \in 1 .. n : g[k] \in Int
  BY <1>2, <1>3, CarriedIsSum
<1>6. mn = m + n
  BY <1>1, <1>2
<1>7. /\ \A i \in 1 .. m : h[i] = f[i]
      /\ \A j \in 1 .. n : h[m + j] = g[j]
  <2>1. \A i \in 1 .. m : i \in 1 .. mn /\ u[i] = s[i]
    BY <1>1, <1>2, <1>6
  <2>2. \A j \in 1 .. n : m + j \in 1 .. mn /\ u[m + j] = t[j]
    BY <1>1, <1>2, <1>6
  <2> QED
    BY <1>4, <2>1, <2>2
<1>8. SumFunctionOnSet(h, 1 .. mn)
        = SumFunctionOnSet(f, 1 .. m) + SumFunctionOnSet(g, 1 .. n)
  <2>1. Joins(h, f, m, g, n)
    BY <1>5, <1>7 DEF Joins
  <2> QED
    BY <1>6, <2>1, SumConcat
<1>9. /\ Carried(id, s) = SumFunctionOnSet(f, 1 .. m)
      /\ Carried(id, t) = SumFunctionOnSet(g, 1 .. n)
      /\ Carried(id, u) = SumFunctionOnSet(h, 1 .. mn)
  BY <1>2, <1>3, CarriedIsSum
<1> QED
  BY <1>8, <1>9

(* The empty queue carries nothing.                                        *)
LEMMA CarriedEmpty ==
  ASSUME NEW id
  PROVE  Carried(id, <<>>) = 0
<1> DEFINE u == <<>>
<1>1. u \in Seq(Sent) /\ Len(u) = 0
  OBVIOUS
<1> HIDE DEF u
<1>2. Carried(id, u) = 0
  BY <1>1, CarriedNone
<1> QED
  BY <1>2 DEF u

(* The batch in front of the queue.                                        *)
LEMMA CarriedConcat ==
  ASSUME NEW id, NEW s \in Seq(Sent), NEW t \in Seq(Sent)
  PROVE  Carried(id, s \o t) = Carried(id, s) + Carried(id, t)
<1> DEFINE u == s \o t
<1>1. /\ u \in Seq(Sent) /\ Len(u) = Len(s) + Len(t)
      /\ \A i \in 1 .. Len(s) : u[i] = s[i]
      /\ \A j \in 1 .. Len(t) : u[Len(s) + j] = t[j]
  BY ConcatProperties
<1> HIDE DEF u
<1>2. Carried(id, u) = Carried(id, s) + Carried(id, t)
  BY <1>1, CarriedParts
<1> QED
  BY <1>2 DEF u

(* A message sent.                                                         *)
LEMMA CarriedAppend ==
  ASSUME NEW id, NEW s \in Seq(Sent), NEW m \in Sent
  PROVE  Carried(id, Append(s, m))
           = Carried(id, s) + (IF m.id = id THEN m.count ELSE 0)
<1> DEFINE t == <<m>>
           u == Append(s, m)
<1>1. t \in Seq(Sent) /\ Len(t) = 1 /\ t[1] = m
  OBVIOUS
<1>2. /\ u \in Seq(Sent) /\ Len(u) = Len(s) + Len(t)
      /\ \A i \in 1 .. Len(s) : u[i] = s[i]
      /\ \A j \in 1 .. Len(t) : u[Len(s) + j] = t[j]
  BY AppendProperties
<1> HIDE DEF t, u
<1>3. Carried(id, u) = Carried(id, s) + Carried(id, t)
  BY <1>1, <1>2, CarriedParts
<1>4. Carried(id, t) = IF m.id = id THEN m.count ELSE 0
  BY <1>1, CarriedOne
<1> QED
  BY <1>3, <1>4 DEF u

(* The first message, which is added next, and those after it.             *)
LEMMA CarriedHead ==
  ASSUME NEW id, NEW s \in Seq(Sent), s # <<>>
  PROVE  Carried(id, s)
           = (IF Head(s).id = id THEN Head(s).count ELSE 0) + Carried(id, Tail(s))
<1> DEFINE h == <<Head(s)>>
           t == Tail(s)
<1>1. h \in Seq(Sent) /\ Len(h) = 1 /\ h[1] = Head(s)
  OBVIOUS
<1>2. /\ t \in Seq(Sent) /\ Len(s) = Len(h) + Len(t)
      /\ \A i \in 1 .. Len(h) : s[i] = h[i]
      /\ \A j \in 1 .. Len(t) : s[Len(h) + j] = t[j]
  BY HeadTailProperties
<1> HIDE DEF h, t
<1>3. Carried(id, s) = Carried(id, h) + Carried(id, t)
  BY <1>1, <1>2, CarriedParts
<1>4. Carried(id, h) = IF Head(s).id = id THEN Head(s).count ELSE 0
  BY <1>1, CarriedOne
<1> QED
  BY <1>3, <1>4 DEF t

-----------------------------------------------------------------------------
(* What the processes of a chain have counted and sent.                    *)
Counts(c) == [k \in DOMAIN c |-> c[k].counted]
Sends(c) == [k \in DOMAIN c |-> c[k].sent]

(* A chain's totals are the sums over these functions.                     *)
LEMMA TotalsAreSums ==
  ASSUME NEW id
  PROVE  /\ TotalCounted(id) = SumFunction(Counts(chain[id]))
         /\ TotalSent(id) = SumFunction(Sends(chain[id]))
BY Zenon DEF TotalCounted, TotalSent, Index, Counts, Sends

(* What is known of the two sums over any sequence of processes.           *)
LEMMA ChainSums ==
  ASSUME NEW c \in Seq(Processes)
  PROVE  /\ Len(c) \in Nat /\ DOMAIN c = 1 .. Len(c)
         /\ DOMAIN Counts(c) = 1 .. Len(c) /\ DOMAIN Sends(c) = 1 .. Len(c)
         /\ SumFunction(Counts(c)) = SumFunctionOnSet(Counts(c), 1 .. Len(c))
         /\ SumFunction(Sends(c)) = SumFunctionOnSet(Sends(c), 1 .. Len(c))
         /\ \A k \in 1 .. Len(c) :
              /\ c[k] \in Processes
              /\ Counts(c)[k] = c[k].counted /\ c[k].counted \in Nat
              /\ Sends(c)[k] = c[k].sent /\ c[k].sent \in Nat
         /\ SumFunction(Counts(c)) \in Nat /\ SumFunction(Sends(c)) \in Nat
<1>1. Len(c) \in Nat /\ DOMAIN c = 1 .. Len(c) /\ IsFiniteSet(1 .. Len(c))
  BY FS_Interval
<1>2. \A k \in 1 .. Len(c) : c[k] \in Processes
  OBVIOUS
<1>3. DOMAIN Counts(c) = 1 .. Len(c) /\ DOMAIN Sends(c) = 1 .. Len(c)
  BY <1>1 DEF Counts, Sends
<1>4. /\ SumFunction(Counts(c)) = SumFunctionOnSet(Counts(c), 1 .. Len(c))
      /\ SumFunction(Sends(c)) = SumFunctionOnSet(Sends(c), 1 .. Len(c))
  BY Zenon, <1>3 DEF SumFunction
<1>5. \A k \in 1 .. Len(c) :
        /\ Counts(c)[k] = c[k].counted /\ c[k].counted \in Nat
        /\ Sends(c)[k] = c[k].sent /\ c[k].sent \in Nat
  BY <1>1, <1>2 DEF Counts, Sends, Processes
<1>6. SumFunctionOnSet(Counts(c), 1 .. Len(c)) \in Nat
  BY <1>1, <1>5, SumNat
<1>7. SumFunctionOnSet(Sends(c), 1 .. Len(c)) \in Nat
  BY <1>1, <1>5, SumNat
<1> QED
  BY <1>1, <1>2, <1>3, <1>4, <1>5, <1>6, <1>7

(* Sums over equal summands.                                               *)
LEMMA SameSum ==
  ASSUME NEW f, NEW g, NEW n \in Nat, \A k \in 1 .. n : f[k] = g[k]
  PROVE  SumFunctionOnSet(f, 1 .. n) = SumFunctionOnSet(g, 1 .. n)
<1>1. IsFiniteSet(1 .. n)
  BY FS_Interval
<1> QED
  BY <1>1, SumCongruence

(* One process of a chain changes.                                         *)
LEMMA OneChanges ==
  ASSUME NEW c \in Seq(Processes), NEW q \in Processes, NEW k \in DOMAIN c
  PROVE  /\ [c EXCEPT ![k] = q] \in Seq(Processes)
         /\ Len([c EXCEPT ![k] = q]) = Len(c)
         /\ SumFunction(Counts([c EXCEPT ![k] = q]))
              = SumFunction(Counts(c)) - c[k].counted + q.counted
         /\ SumFunction(Sends([c EXCEPT ![k] = q]))
              = SumFunction(Sends(c)) - c[k].sent + q.sent
<1>1. PICK d : d = [c EXCEPT ![k] = q]
  OBVIOUS
<1>2. /\ d \in Seq(Processes) /\ Len(d) = Len(c) /\ d[k] = q
      /\ \A j \in 1 .. Len(c) : j # k => d[j] = c[j]
      /\ k \in 1 .. Len(c)
  BY <1>1, ExceptSeq
<1>3. PICK A : A = 1 .. Len(c)
  OBVIOUS
<1>4. IsFiniteSet(A) /\ k \in A
  BY <1>2, <1>3, FS_Interval
<1>5. PICK f, g : f = Counts(c) /\ g = Counts(d)
  OBVIOUS
<1>6. /\ \A x \in A : f[x] \in Int /\ f[x] = c[x].counted
      /\ \A x \in A : g[x] \in Int /\ g[x] = d[x].counted
  BY <1>2, <1>3, <1>5, ChainSums
<1>7. SumFunctionOnSet(g, A) = SumFunctionOnSet(f, A) - f[k] + g[k]
  <2>1. \A x \in A \ {k} : g[x] = f[x]
    BY <1>2, <1>3, <1>6
  <2> QED
    BY <1>4, <1>6, <2>1, SumChanges
<1>8. PICK r, s : r = Sends(c) /\ s = Sends(d)
  OBVIOUS
<1>9. /\ \A x \in A : r[x] \in Int /\ r[x] = c[x].sent
      /\ \A x \in A : s[x] \in Int /\ s[x] = d[x].sent
  BY <1>2, <1>3, <1>8, ChainSums
<1>10. SumFunctionOnSet(s, A) = SumFunctionOnSet(r, A) - r[k] + s[k]
  <2>1. \A x \in A \ {k} : s[x] = r[x]
    BY <1>2, <1>3, <1>9
  <2> QED
    BY <1>4, <1>9, <2>1, SumChanges
<1>11. /\ SumFunction(f) = SumFunctionOnSet(f, A)
       /\ SumFunction(g) = SumFunctionOnSet(g, A)
       /\ SumFunction(r) = SumFunctionOnSet(r, A)
       /\ SumFunction(s) = SumFunctionOnSet(s, A)
  BY <1>2, <1>3, <1>5, <1>8, ChainSums
<1>12. /\ SumFunction(g) = SumFunction(f) - c[k].counted + q.counted
       /\ SumFunction(s) = SumFunction(r) - c[k].sent + q.sent
  BY <1>2, <1>4, <1>6, <1>7, <1>9, <1>10, <1>11
<1> QED
  BY <1>1, <1>2, <1>5, <1>8, <1>12

(* A process that has done nothing yet is appended.                        *)
LEMMA OneMore ==
  ASSUME NEW c \in Seq(Processes), NEW q \in Processes,
         q.counted = 0, q.sent = 0
  PROVE  /\ Append(c, q) \in Seq(Processes)
         /\ SumFunction(Counts(Append(c, q))) = SumFunction(Counts(c))
         /\ SumFunction(Sends(Append(c, q))) = SumFunction(Sends(c))
<1>1. PICK d : d = Append(c, q)
  OBVIOUS
<1>2. PICK n \in Nat : n = Len(c)
  OBVIOUS
<1>3. /\ d \in Seq(Processes) /\ Len(d) = n + 1 /\ d[n + 1] = q
      /\ \A j \in 1 .. n : d[j] = c[j]
  BY <1>1, <1>2, AppendProperties
<1>4. PICK f, g, r, s : /\ f = Counts(c) /\ g = Counts(d)
                        /\ r = Sends(c) /\ s = Sends(d)
  OBVIOUS
<1>5. /\ \A x \in 1 .. n : f[x] = c[x].counted /\ r[x] = c[x].sent
      /\ \A x \in 1 .. n + 1 : /\ g[x] \in Int /\ g[x] = d[x].counted
                               /\ s[x] \in Int /\ s[x] = d[x].sent
      /\ n + 1 \in 1 .. n + 1 /\ \A x \in 1 .. n : x \in 1 .. n + 1
  <2>1. \A x \in 1 .. n : f[x] = c[x].counted /\ r[x] = c[x].sent
    BY <1>2, <1>4, ChainSums
  <2>2. \A x \in 1 .. n + 1 : /\ g[x] \in Nat /\ g[x] = d[x].counted
                              /\ s[x] \in Nat /\ s[x] = d[x].sent
    BY <1>3, <1>4, ChainSums
  <2> QED
    BY <2>1, <2>2
<1>6. /\ SumFunctionOnSet(g, 1 .. n + 1) = SumFunctionOnSet(g, 1 .. n) + g[n + 1]
      /\ SumFunctionOnSet(s, 1 .. n + 1) = SumFunctionOnSet(s, 1 .. n) + s[n + 1]
  BY <1>5, SumLast
<1>7. /\ SumFunctionOnSet(g, 1 .. n) = SumFunctionOnSet(f, 1 .. n)
      /\ SumFunctionOnSet(s, 1 .. n) = SumFunctionOnSet(r, 1 .. n)
  <2>1. \A x \in 1 .. n : g[x] = f[x] /\ s[x] = r[x]
    BY <1>3, <1>5
  <2> QED
    BY <2>1, SameSum
<1>8. g[n + 1] = 0 /\ s[n + 1] = 0
  BY <1>3, <1>5
<1>9. /\ SumFunction(f) = SumFunctionOnSet(f, 1 .. n)
      /\ SumFunction(r) = SumFunctionOnSet(r, 1 .. n)
      /\ SumFunction(f) \in Nat /\ SumFunction(r) \in Nat
  BY <1>2, <1>4, ChainSums
<1>10. /\ SumFunction(g) = SumFunctionOnSet(g, 1 .. n + 1)
       /\ SumFunction(s) = SumFunctionOnSet(s, 1 .. n + 1)
  BY <1>3, <1>4, ChainSums
<1>11. SumFunction(g) = SumFunction(f) /\ SumFunction(s) = SumFunction(r)
  BY <1>6, <1>7, <1>8, <1>9, <1>10
<1> QED
  BY <1>1, <1>3, <1>4, <1>11

-----------------------------------------------------------------------------
(* What a step makes of a process: p becomes q.                            *)
Counted(p, q) ==
  /\ p.state = "running"
  /\ Limited(p.given) => p.counted < Remaining(p.given)
  /\ q = [p EXCEPT !.counted = @ + 1]

Reported(p, q) ==
  /\ p.state = "running"
  /\ p.sent < p.counted
  /\ q = [p EXCEPT !.sent = p.counted]

Done(p, q) ==
  /\ p.state = "running"
  /\ \/ Limited(p.given) /\ p.counted = Remaining(p.given)
     \/ TimeIsOver(p.given)
  /\ q = [p EXCEPT !.state = "closing", !.verdict = TRUE]

Stopped(p, q) ==
  /\ p.state = "running"
  /\ ~TimeIsOver(p.given)
  /\ q = [p EXCEPT !.state = "forking"]

HandedOver(p, q) ==
  /\ p.state = "forking"
  /\ q = [p EXCEPT !.state = "closing", !.child = Successor(p)]

Alone(p, q) ==
  /\ p.state = "forking"
  /\ q = [p EXCEPT !.state = "closing"]

Closed(p, q) ==
  /\ p.state = "closing"
  /\ q = [p EXCEPT !.sent = p.counted, !.finished = p.verdict, !.state = "ended"]

Died(p, q) ==
  /\ p.state # "ended"
  /\ q = [p EXCEPT !.state = "ended"]

Moved(p, q) ==
  \/ Counted(p, q) \/ Reported(p, q) \/ Done(p, q) \/ Stopped(p, q)
  \/ Alone(p, q) \/ Closed(p, q) \/ Died(p, q)

(* A process's flags give natural numbers of requests, and its successor   *)
(* gets flags of the same kind, with the count moved on.                   *)
LEMMA ArgsOfSuccessor ==
  ASSUME NEW p \in Processes
  PROVE  /\ Remaining(p.given) \in Nat
         /\ Limited(p.given) \in BOOLEAN /\ TimeIsOver(p.given) \in BOOLEAN
         /\ Successor(p) \in Args({})
         /\ Successor(p).MaxRequestCount = p.given.MaxRequestCount
         /\ Successor(p).CompletedRequestCount
              = p.given.CompletedRequestCount + p.counted
<1>1. p.given \in Args({}) /\ p.counted \in Nat
  BY DEF Processes
<1>2. Remaining(p.given) \in Nat
  BY <1>1 DEF Args, Remaining
<1>3. TimeLeft(p.given) \in Int
  BY <1>1, TimeoutAssumption DEF Args, TimeLeft, LambdaExecTimeoutSeconds
<1>4. Limited(p.given) \in BOOLEAN /\ TimeIsOver(p.given) \in BOOLEAN
  BY <1>1, <1>3 DEF Args, Limited, TimeIsOver
<1>5. PICK g, c, t : g = p.given /\ c = p.counted /\ t = TimeLeft(p.given)
  OBVIOUS
<1> DEFINE s == [g EXCEPT !.CompletedRequestCount = @ + c,
                            !.StresstestTimeout = t, !.RequestHeaders = {}]
<1>6. Successor(p) = s
  BY <1>5 DEF Successor
<1>7. /\ s \in Args({}) /\ s.MaxRequestCount = g.MaxRequestCount
      /\ s.CompletedRequestCount = g.CompletedRequestCount + c
  <2>1. g \in Args({}) /\ c \in Nat /\ t \in Int
    BY <1>1, <1>3, <1>5
  <2>2. g.CompletedRequestCount + c \in Nat
    BY <2>1 DEF Args
  <2>3. s.RequestHeaders \in SUBSET {} /\ s.StresstestTimeout \in Int
        /\ s.MaxRequestCount = g.MaxRequestCount
    BY <2>1 DEF Args
  <2>4. s.CompletedRequestCount = g.CompletedRequestCount + c
    BY <2>1 DEF Args
  <2> QED
    BY <2>1, <2>2, <2>3, <2>4 DEF Args
<1> QED
  BY <1>2, <1>4, <1>5, <1>6, <1>7

(* Every step leaves a process a process.                                  *)
LEMMA MovedType ==
  ASSUME NEW p \in Processes, NEW q
  PROVE  /\ Moved(p, q) => q \in Processes
         /\ HandedOver(p, q) => q \in Processes
         /\ Process(Successor(p)) \in Processes
<1>1. Successor(p) \in Args({})
  BY ArgsOfSuccessor
<1> HIDE DEF Args
<1>2. ASSUME Moved(p, q) PROVE q \in Processes
  <2>1. CASE Counted(p, q)
    BY <2>1 DEF Processes, Counted
  <2>2. CASE Reported(p, q)
    BY <2>2 DEF Processes, Reported
  <2>3. CASE Done(p, q)
    BY <2>3 DEF Processes, Done
  <2>4. CASE Stopped(p, q)
    BY <2>4 DEF Processes, Stopped
  <2>5. CASE Alone(p, q)
    BY <2>5 DEF Processes, Alone
  <2>6. CASE Closed(p, q)
    BY <2>6 DEF Processes, Closed
  <2>7. CASE Died(p, q)
    BY <2>7 DEF Processes, Died
  <2> QED
    BY <1>2, <2>1, <2>2, <2>3, <2>4, <2>5, <2>6, <2>7 DEF Moved
<1>3. HandedOver(p, q) => q \in Processes
  BY <1>1 DEF Processes, HandedOver
<1>4. Process(Successor(p)) \in Processes
  BY <1>1 DEF Processes, Process
<1> QED
  BY <1>2, <1>3, <1>4

(* The steps of processes in these terms, and with what they send.         *)
Silent(p, q) == q.sent = p.sent /\ q.finished = p.finished /\ UNCHANGED collectorVars

Sends1(id, p, q) ==
  \E fin \in BOOLEAN :
    /\ SendResult([id |-> id, count |-> q.sent - p.sent, fin |-> fin])
    /\ p.state \in {"running", "closing"} /\ q.sent = p.counted
    /\ fin => q.finished

ChainIs(id, c) == chain' = [chain EXCEPT ![id] = c]

(* Each step of a process makes p one of these q, alone or with a          *)
(* successor appended, and sends nothing or exactly what q has sent more   *)
(* than p.                                                                 *)
LEMMA ProcessMoves ==
  ASSUME TypeOK, NEW id \in RunnerIDs, NEW k \in Index(id), ProcessStep(id, k),
         NEW p, p = chain[id][k]
  PROVE  /\ UNCHANGED client
         /\ \E q \in Processes :
              \/ /\ Moved(p, q)
                 /\ ChainIs(id, [chain[id] EXCEPT ![k] = q])
                 /\ Silent(p, q) \/ Sends1(id, p, q)
              \/ /\ HandedOver(p, q)
                 /\ ChainIs(id, Append([chain[id] EXCEPT ![k] = q],
                                       Process(Successor(p))))
                 /\ Silent(p, q)
<1>1. /\ chain[id] \in Seq(Processes) /\ p \in Processes
      /\ chain \in [RunnerIDs -> Seq(Processes)] /\ k \in DOMAIN chain[id]
  BY DEF TypeOK, Index
<1>2. /\ p.counted \in Nat /\ p.sent \in Nat /\ p.verdict \in BOOLEAN
      /\ p = [p EXCEPT !.sent = p.sent] /\ p.finished \in BOOLEAN
  BY <1>1 DEF Processes
<1> USE DEF ChainIs
<1>3. CASE Count(id, k)
  <2> DEFINE q == [p EXCEPT !.counted = @ + 1]
  <2>1. chain' = [chain EXCEPT ![id] = [chain[id] EXCEPT ![k] = q]]
    BY <1>1, <1>3 DEF Count
  <2>2. Moved(p, q)
    BY <1>3 DEF Count, Moved, Counted
  <2>3. q \in Processes
    BY <1>1, <2>2, MovedType
  <2>4. Silent(p, q) /\ UNCHANGED client
    BY <1>1, <1>3 DEF Count, Silent, Processes
  <2> QED
    BY <2>1, <2>2, <2>3, <2>4
<1>4. CASE SendReport(id, k)
  <2> DEFINE q == [p EXCEPT !.sent = p.counted]
  <2>1. chain' = [chain EXCEPT ![id] = [chain[id] EXCEPT ![k] = q]]
    BY <1>1, <1>4 DEF SendReport
  <2>2. Moved(p, q)
    BY <1>4 DEF SendReport, Moved, Reported
  <2>3. q \in Processes
    BY <1>1, <2>2, MovedType
  <2>4. Sends1(id, p, q) /\ UNCHANGED client
    BY <1>1, <1>4 DEF SendReport, Report, Sends1, Processes
  <2> QED
    BY <2>1, <2>2, <2>3, <2>4
<1>5. CASE LeaveLoop(id, k)
  <2>1. PICK q : /\ Done(p, q) \/ Stopped(p, q)
                 /\ chain' = [chain EXCEPT ![id] = [chain[id] EXCEPT ![k] = q]]
    BY <1>1, <1>5 DEF LeaveLoop, Done, Stopped
  <2>2. Moved(p, q)
    BY <2>1 DEF Moved
  <2>3. q \in Processes
    BY <1>1, <2>2, MovedType
  <2>4. Silent(p, q) /\ UNCHANGED client
    BY <1>1, <1>5, <2>1 DEF LeaveLoop, Silent, Processes, Done, Stopped
  <2> QED
    BY <2>1, <2>2, <2>3, <2>4
<1>6. CASE HandOver(id, k)
  <2> DEFINE q == [p EXCEPT !.state = "closing", !.child = Successor(p)]
             r == [p EXCEPT !.state = "closing"]
  <2>1. \/ chain' = [chain EXCEPT ![id] = Append([chain[id] EXCEPT ![k] = q],
                                                Process(Successor(p)))]
        \/ chain' = [chain EXCEPT ![id] = [chain[id] EXCEPT ![k] = r]]
    BY <1>1, <1>6 DEF HandOver
  <2>2. HandedOver(p, q) /\ Moved(p, r)
    BY <1>6 DEF HandOver, HandedOver, Moved, Alone
  <2>3. q \in Processes /\ r \in Processes
    BY <1>1, <2>2, MovedType
  <2>4. Silent(p, q) /\ Silent(p, r) /\ UNCHANGED client
    BY <1>1, <1>6 DEF HandOver, Silent, Processes
  <2> QED
    BY <2>1, <2>2, <2>3, <2>4
<1>7. CASE SendLast(id, k)
  <2> DEFINE q == [p EXCEPT !.sent = p.counted, !.finished = p.verdict,
                            !.state = "ended"]
  <2>1. chain' = [chain EXCEPT ![id] = [chain[id] EXCEPT ![k] = q]]
    BY <1>1, <1>7 DEF SendLast
  <2>2. Moved(p, q)
    BY <1>7 DEF SendLast, Moved, Closed
  <2>3. q \in Processes
    BY <1>1, <2>2, MovedType
  <2>4. Sends1(id, p, q) /\ UNCHANGED client
    BY <1>1, <1>2, <1>7 DEF SendLast, Report, Sends1, Processes
  <2> QED
    BY <2>1, <2>2, <2>3, <2>4
<1>8. CASE Die(id, k)
  <2> DEFINE q == [p EXCEPT !.state = "ended"]
  <2>1. chain' = [chain EXCEPT ![id] = [chain[id] EXCEPT ![k] = q]]
    BY <1>1, <1>8 DEF Die
  <2>2. Moved(p, q)
    BY <1>8 DEF Die, Moved, Died
  <2>3. q \in Processes
    BY <1>1, <2>2, MovedType
  <2>4. Silent(p, q) /\ UNCHANGED client
    BY <1>1, <1>8 DEF Die, Silent, Processes
  <2> QED
    BY <2>1, <2>2, <2>3, <2>4
<1> QED
  BY <1>3, <1>4, <1>5, <1>6, <1>7, <1>8 DEF ProcessStep
-----------------------------------------------------------------------------
(* Sequences: a prefix and the rest, and concatenation with one element    *)
(* added or taken away.                                                    *)
LEMMA PrefixAndRest ==
  ASSUME NEW S, NEW b \in Seq(S), NEW q \in Seq(S), Prefix(b, q)
  PROVE  /\ SubSeq(q, Len(b) + 1, Len(q)) \in Seq(S)
         /\ b \o SubSeq(q, Len(b) + 1, Len(q)) = q
<1>1. PICK m \in Nat, n \in Nat : m = Len(b) /\ n = Len(q)
  OBVIOUS
<1>2. m <= n
  BY <1>1 DEF Prefix
<1>3. \A i \in 1 .. n : q[i] \in S
  BY <1>1
<1>4. PICK c : c = SubSeq(q, 1, m)
  OBVIOUS
<1>5. \A i \in 1 .. m : c[i] = q[i]
  BY <1>2, <1>3, <1>4, SubSeqProperties
<1>6. \A i \in 1 .. m : b[i] = q[i]
  BY <1>1, <1>4, <1>5 DEF Prefix
<1>7. PICK r : r = SubSeq(q, m + 1, n)
  OBVIOUS
<1>8. /\ r \in Seq(S) /\ Len(r) = n - m
      /\ \A i \in 1 .. n - m : r[i] = q[m + i]
  <2>1. m + 1 \in Int /\ n \in Int /\ \A i \in m + 1 .. n : q[i] \in S
    BY <1>2, <1>3
  <2>2. /\ SubSeq(q, m + 1, n) \in Seq(S)
        /\ Len(SubSeq(q, m + 1, n)) = IF m + 1 <= n THEN n - (m + 1) + 1 ELSE 0
        /\ \A i \in 1 .. n - (m + 1) + 1 :
             SubSeq(q, m + 1, n)[i] = q[m + 1 + i - 1]
    BY <2>1, SubSeqProperties
  <2>3. n - (m + 1) + 1 = n - m /\ \A i \in 1 .. n - m : m + 1 + i - 1 = m + i
    OBVIOUS
  <2> QED
    BY <1>2, <1>7, <2>2, <2>3
<1>9. /\ b \o r \in Seq(S) /\ Len(b \o r) = n
      /\ \A i \in 1 .. n : (b \o r)[i] = IF i <= m THEN b[i] ELSE r[i - m]
  <2>1. Len(b) + Len(r) = n
    BY <1>1, <1>2, <1>8
  <2>2. /\ b \o r \in Seq(S) /\ Len(b \o r) = Len(b) + Len(r)
        /\ \A i \in 1 .. Len(b) + Len(r) :
             (b \o r)[i] = IF i <= Len(b) THEN b[i] ELSE r[i - Len(b)]
    BY <1>8, ConcatProperties
  <2> QED
    BY <1>1, <2>1, <2>2
<1>10. \A i \in 1 .. n : (b \o r)[i] = q[i]
  <2> TAKE i \in 1 .. n
  <2>1. CASE i <= m
    BY <1>6, <1>9, <2>1
  <2>2. CASE ~(i <= m)
    <3>1. i - m \in 1 .. n - m /\ m + (i - m) = i
      BY <2>2
    <3> QED
      BY <1>8, <1>9, <2>2, <3>1
  <2> QED
    BY <2>1, <2>2
<1>11. b \o r = q
  BY <1>1, <1>9, <1>10, SeqEqual
<1> QED
  BY <1>1, <1>7, <1>8, <1>11

(* Appending to the second of two sequences appends to both.               *)
LEMMA AddedAtTheEnd ==
  ASSUME NEW S, NEW s \in Seq(S), NEW t \in Seq(S), NEW m \in S
  PROVE  s \o Append(t, m) = Append(s \o t, m)
<1>1. <<m>> \in Seq(S) /\ s \o t \in Seq(S)
  OBVIOUS
<1>2. Append(t, m) = t \o <<m>> /\ Append(s \o t, m) = (s \o t) \o <<m>>
  BY <1>1, AppendIsConcat
<1> QED
  BY <1>1, <1>2, ConcatAssociative

(* Taking from the first of two sequences takes from both.                 *)
LEMMA TakenFromTheFront ==
  ASSUME NEW S, NEW s \in Seq(S), NEW t \in Seq(S), s # <<>>
  PROVE  /\ s \o t # <<>>
         /\ Head(s \o t) = Head(s)
         /\ Tail(s \o t) = Tail(s) \o t
<1>1. PICK u : u = s \o t
  OBVIOUS
<1>2. PICK m \in Nat, n \in Nat : m = Len(s) /\ n = Len(t) /\ m > 0
  BY EmptySeq
<1>3. /\ u \in Seq(S) /\ Len(u) = m + n
      /\ \A i \in 1 .. m + n : u[i] = IF i <= m THEN s[i] ELSE t[i - m]
  BY <1>1, <1>2, ConcatProperties
<1>4. u # <<>>
  BY <1>2, <1>3
<1>5. Head(u) = u[1] /\ Head(s) = s[1] /\ u[1] = s[1]
  BY <1>2, <1>3, <1>4
<1>6. PICK a, b : a = Tail(u) /\ b = Tail(s)
  OBVIOUS
<1>7. /\ a \in Seq(S) /\ Len(a) = m + n - 1
      /\ \A i \in 1 .. m + n - 1 : a[i] = u[i + 1]
  BY <1>2, <1>3, <1>4, <1>6, HeadTailProperties
<1>8. /\ b \in Seq(S) /\ Len(b) = m - 1
      /\ \A i \in 1 .. m - 1 : b[i] = s[i + 1]
  BY <1>2, <1>6, HeadTailProperties
<1>9. PICK c : c = b \o t
  OBVIOUS
<1>10. /\ c \in Seq(S) /\ Len(c) = m + n - 1
       /\ \A i \in 1 .. m + n - 1 :
            c[i] = IF i <= m - 1 THEN b[i] ELSE t[i - (m - 1)]
  BY <1>2, <1>8, <1>9, ConcatProperties
<1>11. \A i \in 1 .. m + n - 1 : a[i] = c[i]
  <2> TAKE i \in 1 .. m + n - 1
  <2>1. /\ a[i] = u[i + 1] /\ i + 1 \in 1 .. m + n
        /\ c[i] = IF i <= m - 1 THEN b[i] ELSE t[i - (m - 1)]
    <3>1. i + 1 \in 1 .. m + n
      BY <1>2
    <3>2. a[i] = u[i + 1]
      BY <1>7
    <3>3. c[i] = IF i <= m - 1 THEN b[i] ELSE t[i - (m - 1)]
      BY <1>10
    <3> QED
      BY <3>1, <3>2, <3>3
  <2>2. u[i + 1] = IF i + 1 <= m THEN s[i + 1] ELSE t[i + 1 - m]
    BY <1>3, <2>1
  <2>3. i <= m - 1 => b[i] = s[i + 1]
    BY <1>8
  <2>4. i + 1 <= m <=> i <= m - 1
    BY <1>2
  <2>5. i + 1 - m = i - (m - 1)
    BY <1>2
  <2> QED
    BY <2>1, <2>2, <2>3, <2>4, <2>5
<1>12. a = c
  <2>1. Len(a) = Len(c) /\ \A i \in 1 .. Len(a) : a[i] = c[i]
    BY <1>7, <1>10, <1>11
  <2> QED
    BY <1>7, <1>10, <2>1, SeqEqual
<1> QED
  BY <1>1, <1>4, <1>5, <1>6, <1>9, <1>12

-----------------------------------------------------------------------------
(* What a step of the collector makes of the messages still to be added:   *)
(* nothing, the first one is added, a first part of them is lost, or some  *)
(* of a first part are there twice.                                        *)
Quiet ==
  Pending' = Pending /\ UNCHANGED <<data, dropped, repeats>>

Adds ==
  /\ Pending # <<>>
  /\ Pending' = Tail(Pending)
  /\ data' = [data EXCEPT ![Head(Pending).id] = AddResult(@, Head(Pending))]
  /\ UNCHANGED <<dropped, repeats>>

Loses ==
  /\ \E s \in Seq(Sent) :
       /\ Pending = s \o Pending'
       /\ dropped' = [id \in RunnerIDs |-> dropped[id] + Carried(id, s)]
  /\ UNCHANGED <<data, repeats>>

Repeats ==
  /\ \E s, kept, rest \in Seq(Sent) :
       /\ Pending = s \o rest
       /\ Pending' = s \o (kept \o rest)
       /\ \A i \in DOMAIN kept : \E j \in DOMAIN s : kept[i] = s[j]
       /\ repeats'.requests =
            [id \in RunnerIDs |-> repeats.requests[id] + Carried(id, kept)]
       /\ repeats'.messages > 0
  /\ UNCHANGED <<data, dropped>>

(* Whether the batch counts by itself or as a part of the queue: the two   *)
(* shares are what all pending messages carry.                             *)
LEMMA HandAndQueue ==
  ASSUME NEW q \in Seq(Sent), NEW b \in Seq(Sent), NEW inQueue \in BOOLEAN
  PROVE  /\ (IF inQueue THEN q ELSE b \o q) \in Seq(Sent)
         /\ \A id :
              /\ (IF inQueue THEN 0 ELSE Carried(id, b)) + Carried(id, q)
                   = Carried(id, IF inQueue THEN q ELSE b \o q)
              /\ (IF inQueue THEN 0 ELSE Carried(id, b)) \in Nat
              /\ Carried(id, q) \in Nat
<1>1. b \o q \in Seq(Sent)
  BY ConcatProperties
<1>2. ASSUME NEW id
      PROVE  /\ (IF inQueue THEN 0 ELSE Carried(id, b)) + Carried(id, q)
                  = Carried(id, IF inQueue THEN q ELSE b \o q)
             /\ (IF inQueue THEN 0 ELSE Carried(id, b)) \in Nat
             /\ Carried(id, q) \in Nat
  <2>1. Carried(id, q) \in Nat /\ Carried(id, b) \in Nat
    BY CarriedType
  <2>2. Carried(id, b \o q) = Carried(id, b) + Carried(id, q)
    BY CarriedConcat
  <2> QED
    BY <2>1, <2>2
<1> QED
  BY <1>1, <1>2

Shares(id) ==
  /\ InHand(id) \in Nat /\ Carried(id, queue) \in Nat
  /\ InHand(id) + Carried(id, queue) = Carried(id, Pending)

(* So it is in a state,                                                    *)
LEMMA PendingType ==
  ASSUME CollectorTypeOK
  PROVE  Pending \in Seq(Sent) /\ \A id : Shares(id)
<1>1. queue \in Seq(Sent) /\ batch \in Seq(Sent)
  BY DEF CollectorTypeOK, Sent
<1> DEFINE x == pc = "delete"
<1>2. x \in BOOLEAN
  OBVIOUS
<1> HIDE DEF x
<1>3. /\ (IF x THEN queue ELSE batch \o queue) \in Seq(Sent)
      /\ \A id :
           /\ (IF x THEN 0 ELSE Carried(id, batch)) + Carried(id, queue)
                = Carried(id, IF x THEN queue ELSE batch \o queue)
           /\ (IF x THEN 0 ELSE Carried(id, batch)) \in Nat
           /\ Carried(id, queue) \in Nat
  BY <1>1, <1>2, HandAndQueue
<1> QED
  BY Zenon, <1>3 DEF Shares, InHand, Pending, x

(* and in the next one.                                                    *)
LEMMA PendingTypeNext ==
  ASSUME CollectorTypeOK'
  PROVE  Pending' \in Seq(Sent) /\ \A id : Shares(id)'
<1>1. queue' \in Seq(Sent) /\ batch' \in Seq(Sent)
  BY DEF CollectorTypeOK, Sent
<1> DEFINE x == pc' = "delete"
<1>2. x \in BOOLEAN
  OBVIOUS
<1> HIDE DEF x
<1>3. /\ (IF x THEN queue' ELSE batch' \o queue') \in Seq(Sent)
      /\ \A id :
           /\ (IF x THEN 0 ELSE Carried(id, batch')) + Carried(id, queue')
                = Carried(id, IF x THEN queue' ELSE batch' \o queue')
           /\ (IF x THEN 0 ELSE Carried(id, batch')) \in Nat
           /\ Carried(id, queue') \in Nat
  BY <1>1, <1>2, HandAndQueue
<1> QED
  BY Zenon, <1>3 DEF Shares, InHand, Pending, x

(* The messages a partial deletion keeps are messages of the batch.        *)
LEMMA KeptType ==
  ASSUME CollectorTypeOK, NEW n \in 1 .. Len(batch),
         NEW positions \in [1 .. n -> 1 .. Len(batch)]
  PROVE  /\ Kept(positions) \in Seq(Sent)
         /\ \A i \in DOMAIN Kept(positions) :
              \E j \in DOMAIN batch : Kept(positions)[i] = batch[j]
<1>1. batch \in Seq(Sent)
  BY DEF CollectorTypeOK, Sent
<1>2. /\ n \in Nat /\ DOMAIN batch = 1 .. Len(batch)
      /\ \A j \in 1 .. Len(batch) : batch[j] \in Sent
  BY <1>1
<1>3. Kept(positions) = [i \in 1 .. n |-> batch[positions[i]]]
  BY DEF Kept
<1>4. Kept(positions) \in [1 .. n -> Sent]
  BY <1>2, <1>3
<1>5. Kept(positions) \in Seq(Sent)
  BY <1>2, <1>4
<1> QED
  BY <1>2, <1>3, <1>5

(* The adapter's batch while it is in the queue: Rest is what follows it.  *)
LEMMA BatchAndRest ==
  ASSUME CollectorTypeOK, BatchInHand, pc = "delete"
  PROVE  /\ queue \in Seq(Sent) /\ batch \in Seq(Sent) /\ Rest \in Seq(Sent)
         /\ batch \o Rest = queue /\ Pending = queue
<1>1. queue \in Seq(Sent) /\ batch \in Seq(Sent)
  BY DEF CollectorTypeOK, Sent
<1>2. Prefix(batch, queue)
  BY DEF BatchInHand
<1> QED
  BY <1>1, <1>2, PrefixAndRest DEF Rest, Pending

(* What the steps that touch queue and batch leave true.                   *)
LEMMA ReceiveMessageStep ==
  ASSUME CollectorTypeOK, BatchInHand, ReceiveMessage
  PROVE  CollectorTypeOK' /\ BatchInHand' /\ Quiet
<1>1. queue \in Seq(Sent) /\ batch = <<>> /\ pc = "receive"
  BY DEF CollectorTypeOK, BatchInHand, ReceiveMessage, Sent
<1>2. Pending = queue
  <2>1. <<>> \o queue = queue
    BY <1>1, ConcatEmptySeq
  <2> QED
    BY <1>1, <2>1 DEF Pending
<1>3. CASE Nothing /\ UNCHANGED batch
  <2>1. pc' = "nil" /\ batch' = batch /\ queue' = queue
    BY <1>3 DEF ReceiveMessage, Nothing
  <2>2. Pending' = Pending
    BY <1>1, <2>1 DEF Pending
  <2>3. CollectorTypeOK'
    BY <2>1 DEF ReceiveMessage, CollectorTypeOK
  <2> QED
    BY <1>1, <2>1, <2>2, <2>3 DEF ReceiveMessage, Quiet, BatchInHand
<1>4. CASE \E n \in 1 .. BatchSize :
             n <= Len(queue) /\ batch' = SubSeq(queue, 1, n) /\ pc' = "delete"
  <2>1. PICK n \in 1 .. BatchSize : n <= Len(queue) /\ batch' = SubSeq(queue, 1, n)
    BY <1>4
  <2>2. PICK m \in Nat : m = Len(queue)
    BY <1>1
  <2>3. n \in Nat /\ n >= 1 /\ n <= m
    BY <2>1, <2>2, CollectorAssumption
  <2>4. \A i \in 1 .. n : queue[i] \in Sent
    BY <1>1, <2>2, <2>3
  <2>5. batch' \in Seq(Sent) /\ Len(batch') = n
    <3>1. /\ SubSeq(queue, 1, n) \in Seq(Sent)
          /\ Len(SubSeq(queue, 1, n)) = IF 1 <= n THEN n - 1 + 1 ELSE 0
      BY <2>3, <2>4, SubSeqProperties
    <3>2. n - 1 + 1 = n
      BY <2>3
    <3> QED
      BY <2>1, <2>3, <3>1, <3>2
  <2>6. pc' = "delete" /\ queue' = queue
    BY <1>4 DEF ReceiveMessage
  <2>7. Pending' = Pending
    BY <1>2, <2>6 DEF Pending
  <2>8. CollectorTypeOK'
    BY <2>5, <2>6 DEF ReceiveMessage, CollectorTypeOK, Sent
  <2>9. BatchInHand'
    <3>1. Len(batch') <= Len(queue') /\ batch' = SubSeq(queue', 1, Len(batch'))
      BY <2>1, <2>5, <2>6
    <3> QED
      BY <2>6, <3>1 DEF BatchInHand, Prefix
  <2> QED
    BY <2>7, <2>8, <2>9 DEF ReceiveMessage, Quiet
<1> QED
  BY <1>3, <1>4 DEF ReceiveMessage

(* A deletion moves the batch from the queue to the hand.                  *)
LEMMA DeleteBatchStep ==
  ASSUME CollectorTypeOK, BatchInHand, DeleteBatch
  PROVE  CollectorTypeOK' /\ BatchInHand' /\ Quiet
<1>1. pc = "delete" /\ pc' = "add" /\ queue' = Rest /\ batch' = batch
  BY DEF DeleteBatch
<1>2. Rest \in Seq(Sent) /\ batch \o Rest = queue /\ Pending = queue
  BY <1>1, BatchAndRest
<1>3. Pending' = Pending
  BY <1>1, <1>2 DEF Pending
<1>4. CollectorTypeOK'
  BY <1>1, <1>2 DEF DeleteBatch, CollectorTypeOK, Sent
<1> QED
  BY <1>1, <1>3, <1>4 DEF DeleteBatch, Quiet, BatchInHand

(* A failed deletion leaves the messages in the queue, or loses the batch. *)
LEMMA DeleteFailsStep ==
  ASSUME CollectorTypeOK, BatchInHand, DeleteFails
  PROVE  CollectorTypeOK' /\ BatchInHand' /\ (Quiet \/ Loses)
<1>1. pc = "delete" /\ pc' = "nil" /\ batch' = <<>>
  BY DEF DeleteFails, Nothing
<1>2. /\ queue \in Seq(Sent) /\ batch \in Seq(Sent) /\ Rest \in Seq(Sent)
      /\ batch \o Rest = queue /\ Pending = queue
  BY <1>1, BatchAndRest
<1>3. BatchInHand'
  BY <1>1 DEF BatchInHand
<1>4. CASE UNCHANGED <<queue, dropped>>
  <2>1. Pending' = Pending
    <3>1. <<>> \o queue = queue
      BY <1>2, ConcatEmptySeq
    <3> QED
      BY <1>1, <1>2, <1>4, <3>1 DEF Pending
  <2>2. CollectorTypeOK'
    BY <1>1, <1>4 DEF DeleteFails, CollectorTypeOK
  <2> QED
    BY <1>3, <1>4, <2>1, <2>2 DEF DeleteFails, Quiet
<1>5. CASE /\ queue' = Rest
           /\ dropped' = [id \in RunnerIDs |-> dropped[id] + Carried(id, batch)]
  <2>1. Pending' = Rest
    <3>1. <<>> \o Rest = Rest
      BY <1>2, ConcatEmptySeq
    <3> QED
      BY <1>1, <1>5, <3>1 DEF Pending
  <2>2. Loses
    BY <1>2, <1>5, <2>1 DEF DeleteFails, Loses
  <2>3. dropped' \in [RunnerIDs -> Nat]
    <3>1. \A id \in RunnerIDs : Carried(id, batch) \in Nat /\ dropped[id] \in Nat
      BY <1>2, CarriedType DEF CollectorTypeOK
    <3> QED
      BY <1>5, <3>1
  <2>4. CollectorTypeOK'
    BY <1>1, <1>2, <1>5, <2>3 DEF DeleteFails, CollectorTypeOK, Sent
  <2> QED
    BY <1>3, <2>2, <2>4
<1> QED
  BY <1>4, <1>5 DEF DeleteFails

PartDeleted(n, positions) ==
  /\ repeats.messages + n <= MaxRepeats
  /\ queue' = Kept(positions) \o Rest
  /\ repeats' =
       [messages |-> repeats.messages + n,
        requests |-> [id \in RunnerIDs |->
                        repeats.requests[id] + Carried(id, Kept(positions))]]

(* A partial deletion makes the messages it leaves come twice.             *)
LEMMA DeletePartlyStep ==
  ASSUME CollectorTypeOK, BatchInHand, DeletePartly
  PROVE  CollectorTypeOK' /\ BatchInHand' /\ Repeats
<1>1. pc = "delete" /\ pc' = "add" /\ batch' = batch
  BY DEF DeletePartly
<1>2. /\ queue \in Seq(Sent) /\ batch \in Seq(Sent) /\ Rest \in Seq(Sent)
      /\ batch \o Rest = queue /\ Pending = queue
  BY <1>1, BatchAndRest
<1>3. PICK n \in 1 .. Len(batch) :
         \E positions \in [1 .. n -> 1 .. Len(batch)] : PartDeleted(n, positions)
  BY DEF DeletePartly, PartDeleted
<1>4. PICK positions \in [1 .. n -> 1 .. Len(batch)] : PartDeleted(n, positions)
  BY <1>3
<1>5. /\ repeats.messages + n <= MaxRepeats
      /\ queue' = Kept(positions) \o Rest
      /\ repeats' =
           [messages |-> repeats.messages + n,
            requests |-> [id \in RunnerIDs |->
                            repeats.requests[id] + Carried(id, Kept(positions))]]
  BY <1>4 DEF PartDeleted
<1>6. PICK kept : kept = Kept(positions)
  OBVIOUS
<1>7. /\ kept \in Seq(Sent)
      /\ \A i \in DOMAIN kept : \E j \in DOMAIN batch : kept[i] = batch[j]
  BY <1>6, KeptType
<1>8. queue' \in Seq(Sent) /\ Pending' = batch \o (kept \o Rest)
  <2>1. kept \o Rest \in Seq(Sent)
    BY <1>2, <1>7, ConcatProperties
  <2> QED
    BY <1>1, <1>5, <1>6, <2>1 DEF Pending
<1>9. repeats.messages \in 0 .. MaxRepeats /\ n \in Nat /\ n > 0
  <2>1. Len(batch) \in Nat
    BY <1>2
  <2> QED
    BY <2>1 DEF CollectorTypeOK
<1>10. repeats'.messages \in 0 .. MaxRepeats /\ repeats'.messages > 0
  BY <1>5, <1>9, CollectorAssumption
<1>11. repeats'.requests =
        [id \in RunnerIDs |-> repeats.requests[id] + Carried(id, kept)]
  BY <1>5, <1>6
<1>12. repeats' \in [messages : 0 .. MaxRepeats, requests : [RunnerIDs -> Nat]]
  <2>1. \A id \in RunnerIDs :
          Carried(id, kept) \in Nat /\ repeats.requests[id] \in Nat
    BY <1>7, CarriedType DEF CollectorTypeOK
  <2>2. repeats'.requests \in [RunnerIDs -> Nat]
    BY <1>11, <2>1
  <2> QED
    BY <1>5, <1>10, <2>2
<1>13. Repeats
  BY <1>2, <1>7, <1>8, <1>10, <1>11 DEF DeletePartly, Repeats
<1>14. CollectorTypeOK'
  BY <1>1, <1>8, <1>12 DEF DeletePartly, CollectorTypeOK, Sent
<1> QED
  BY <1>1, <1>13, <1>14 DEF BatchInHand

(* The first of the pending messages is added.                             *)
LEMMA AddNextStep ==
  ASSUME CollectorTypeOK, BatchInHand, AddNext
  PROVE  CollectorTypeOK' /\ BatchInHand' /\ Adds
<1>1. /\ pc = "add" /\ pc' = "offer" /\ batch # <<>> /\ batch' = Tail(batch)
      /\ queue' = queue
      /\ data' = [data EXCEPT ![Head(batch).id] = AddResult(@, Head(batch))]
  BY DEF AddNext
<1>2. queue \in Seq(Sent) /\ batch \in Seq(Sent)
  BY DEF CollectorTypeOK, Sent
<1>3. Head(batch) \in Sent /\ Tail(batch) \in Seq(Sent)
  BY <1>1, <1>2, HeadTailProperties
<1>4. /\ Pending # <<>> /\ Head(Pending) = Head(batch)
      /\ Pending' = Tail(Pending)
  BY <1>1, <1>2, TakenFromTheFront DEF Pending
<1>5. Adds
  BY <1>1, <1>4 DEF AddNext, Adds
<1>6. data' \in [RunnerIDs -> [TotalReqs : Nat, Finished : BOOLEAN]]
  <2>1. PICK m : m = Head(batch)
    OBVIOUS
  <2>2. m.id \in RunnerIDs /\ m.count \in Nat /\ m.fin \in BOOLEAN
    BY <1>3, <2>1 DEF Sent, Messages
  <2>3. data[m.id].TotalReqs + m.count \in Nat
    BY <2>2 DEF CollectorTypeOK
  <2>4. AddResult(data[m.id], m) \in [TotalReqs : Nat, Finished : BOOLEAN]
    BY <2>2, <2>3 DEF AddResult
  <2> QED
    BY <1>1, <2>1, <2>2, <2>4 DEF CollectorTypeOK
<1>7. CollectorTypeOK'
  BY <1>1, <1>2, <1>3, <1>6 DEF AddNext, CollectorTypeOK, Sent
<1> QED
  BY <1>1, <1>5, <1>7 DEF BatchInHand

(* Every step of the collector is one of the four.                         *)
LEMMA CollectorStep ==
  ASSUME CollectorTypeOK, BatchInHand, CollectorNext
  PROVE  /\ CollectorTypeOK' /\ BatchInHand'
         /\ Quiet \/ Adds \/ Loses \/ Repeats
<1>1. CASE ReceiveMessage
  BY <1>1, ReceiveMessageStep
<1>2. CASE DeleteBatch
  BY <1>2, DeleteBatchStep
<1>3. CASE DeleteFails
  BY <1>3, DeleteFailsStep
<1>4. CASE DeletePartly
  BY <1>4, DeletePartlyStep
<1>5. CASE AddNext
  BY <1>5, AddNextStep
<1>6. CASE Offer \/ EndBatch \/ WaitOrGiveUp \/ Reader \/ ReaderLeaves \/ RaceCrash
  <2>1. /\ UNCHANGED <<queue, batch, data, dropped, repeats>>
        /\ pc # "delete" \/ pc' = "delete"
        /\ pc' # "delete" \/ pc = "delete"
        /\ pc' \in {"receive", "nil", "closed"} => batch = <<>>
    BY <1>6 DEF Offer, EndBatch, WaitOrGiveUp, Reader, Take, Rendered, RelayCloses,
                ReaderEnds, ReaderLeaves, RaceCrash, BatchInHand
  <2>2. Pending' = Pending
    BY <2>1 DEF Pending
  <2>3. BatchInHand'
    BY <2>1 DEF BatchInHand
  <2>4. CollectorTypeOK'
    BY <1>6, CollectorAssumption
    DEF Offer, EndBatch, WaitOrGiveUp, Reader, Take, Rendered, RelayCloses,
        ReaderEnds, ReaderLeaves, RaceCrash, CollectorTypeOK
  <2> QED
    BY <2>1, <2>2, <2>3, <2>4 DEF Quiet
<1> QED
  BY <1>1, <1>2, <1>3, <1>4, <1>5, <1>6 DEF CollectorNext, Receive

(* A report enters behind everything that is still to be added.            *)
LEMMA SendResultStep ==
  ASSUME CollectorTypeOK, BatchInHand, NEW m \in Sent, SendResult(m)
  PROVE  /\ CollectorTypeOK' /\ BatchInHand'
         /\ Pending' = Append(Pending, m)
         /\ UNCHANGED <<data, dropped, repeats>>
<1>1. queue \in Seq(Sent) /\ batch \in Seq(Sent)
  BY DEF CollectorTypeOK, Sent
<1>2. queue' = Append(queue, m) /\ pc' = pc /\ batch' = batch
  BY DEF SendResult
<1>3. Append(queue, m) \in Seq(Sent)
  BY <1>1, AppendProperties
<1>4. CollectorTypeOK'
  BY <1>2, <1>3 DEF SendResult, CollectorTypeOK, Sent
<1>5. Pending' = Append(Pending, m)
  BY <1>1, <1>2, AddedAtTheEnd DEF Pending
<1>6. ASSUME Prefix(batch, queue) PROVE Prefix(batch', queue')
  <2>1. PICK b \in Nat, n \in Nat : b = Len(batch) /\ n = Len(queue)
    BY <1>1
  <2>2. PICK c, e : c = SubSeq(queue, 1, b) /\ e = SubSeq(queue', 1, b)
    OBVIOUS
  <2>3. b <= n /\ batch = c
    BY <1>6, <2>1, <2>2 DEF Prefix
  <2>4. /\ Len(queue') = n + 1
        /\ \A i \in 1 .. n : queue'[i] = queue[i] /\ queue[i] \in Sent
    BY <1>1, <1>2, <2>1, AppendProperties
  <2>5. \A i \in 1 .. b : queue'[i] = queue[i] /\ queue[i] \in Sent
    BY <2>3, <2>4
  <2>6. /\ c \in Seq(Sent) /\ e \in Seq(Sent)
        /\ Len(c) = (IF 1 <= b THEN b - 1 + 1 ELSE 0) /\ Len(e) = Len(c)
        /\ \A i \in 1 .. b - 1 + 1 : c[i] = queue[1 + i - 1] /\ e[i] = queue'[1 + i - 1]
    <3>1. \A i \in 1 .. b : queue[i] \in Sent /\ queue'[i] \in Sent
      BY <2>5
    <3>2. /\ SubSeq(queue, 1, b) \in Seq(Sent)
          /\ Len(SubSeq(queue, 1, b)) = (IF 1 <= b THEN b - 1 + 1 ELSE 0)
          /\ \A i \in 1 .. b - 1 + 1 : SubSeq(queue, 1, b)[i] = queue[1 + i - 1]
      BY <3>1, SubSeqProperties
    <3>3. /\ SubSeq(queue', 1, b) \in Seq(Sent)
          /\ Len(SubSeq(queue', 1, b)) = (IF 1 <= b THEN b - 1 + 1 ELSE 0)
          /\ \A i \in 1 .. b - 1 + 1 : SubSeq(queue', 1, b)[i] = queue'[1 + i - 1]
      BY <3>1, SubSeqProperties
    <3> QED
      BY <2>2, <3>2, <3>3
  <2>7. b - 1 + 1 = b /\ Len(c) = b /\ \A i \in 1 .. b : 1 + i - 1 = i
    BY <2>6
  <2>8. \A i \in 1 .. b : c[i] = e[i]
    BY <2>5, <2>6, <2>7
  <2>9. c = e
    BY <2>6, <2>7, <2>8, SeqEqual
  <2>10. b <= n + 1
    BY <2>3
  <2> QED
    BY <1>2, <2>1, <2>2, <2>3, <2>4, <2>9, <2>10 DEF Prefix
<1> QED
  BY <1>2, <1>4, <1>5, <1>6 DEF BatchInHand, SendResult

-----------------------------------------------------------------------------
(* What a step of process k makes of its chain: p becomes q, and possibly  *)
(* a successor follows.                                                    *)
Sized(p, q, d, n, l) ==
  \/ Moved(p, q) /\ l = n
  \/ HandedOver(p, q) /\ l = n + 1 /\ d[n + 1] = Process(Successor(p))

Change(id, k, p, q, d) ==
  /\ ChainIs(id, d)
  /\ \A j \in 1 .. Len(chain[id]) : d[j] = IF j = k THEN q ELSE chain[id][j]
  /\ Sized(p, q, d, Len(chain[id]), Len(d))
  /\ SumFunction(Counts(d)) = TotalCounted(id) - p.counted + q.counted
  /\ SumFunction(Sends(d)) = TotalSent(id) - p.sent + q.sent

(* Every step of a process is such a change of its chain.                  *)
LEMMA ProcessChange ==
  ASSUME TypeOK, NEW id \in RunnerIDs, NEW k \in Index(id), ProcessStep(id, k),
         NEW p, p = chain[id][k]
  PROVE  /\ UNCHANGED client
         /\ \E q \in Processes, d \in Seq(Processes) :
              /\ Change(id, k, p, q, d)
              /\ Silent(p, q) \/ Sends1(id, p, q)
<1>1. UNCHANGED client
  BY ProcessMoves
<1>2. PICK c : c = chain[id]
  OBVIOUS
<1>3. c \in Seq(Processes) /\ k \in DOMAIN c /\ p = c[k] /\ p \in Processes
  BY <1>2 DEF TypeOK, Index
<1>4. PICK q \in Processes :
        \/ /\ Moved(p, q)
           /\ ChainIs(id, [c EXCEPT ![k] = q])
           /\ Silent(p, q) \/ Sends1(id, p, q)
        \/ /\ HandedOver(p, q)
           /\ ChainIs(id, Append([c EXCEPT ![k] = q], Process(Successor(p))))
           /\ Silent(p, q)
  BY <1>2, ProcessMoves
<1>5. PICK e : e = [c EXCEPT ![k] = q]
  OBVIOUS
<1>6. /\ e \in Seq(Processes) /\ Len(e) = Len(c)
      /\ SumFunction(Counts(e)) = SumFunction(Counts(c)) - p.counted + q.counted
      /\ SumFunction(Sends(e)) = SumFunction(Sends(c)) - p.sent + q.sent
  BY <1>3, <1>5, OneChanges
<1>7. \A j \in 1 .. Len(c) : e[j] = IF j = k THEN q ELSE c[j]
  BY <1>3, <1>5, ExceptSeq
<1>8. /\ TotalCounted(id) = SumFunction(Counts(c))
      /\ TotalSent(id) = SumFunction(Sends(c))
  BY <1>2, TotalsAreSums
<1>9. CASE Moved(p, q) /\ ChainIs(id, e) /\ (Silent(p, q) \/ Sends1(id, p, q))
  <2>1. Change(id, k, p, q, e)
    BY <1>2, <1>6, <1>7, <1>8, <1>9 DEF Change, Sized
  <2> QED
    BY <1>1, <1>6, <1>9, <2>1
<1>10. CASE /\ HandedOver(p, q) /\ Silent(p, q)
            /\ ChainIs(id, Append(e, Process(Successor(p))))
  <2>1. PICK s : s = Process(Successor(p))
    OBVIOUS
  <2>2. s \in Processes /\ s.counted = 0 /\ s.sent = 0
    BY <1>3, <2>1, MovedType DEF Process
  <2>3. PICK d : d = Append(e, s)
    OBVIOUS
  <2>4. /\ d \in Seq(Processes)
        /\ SumFunction(Counts(d)) = SumFunction(Counts(e))
        /\ SumFunction(Sends(d)) = SumFunction(Sends(e))
    BY <1>6, <2>2, <2>3, OneMore
  <2>5. /\ Len(d) = Len(e) + 1 /\ d[Len(e) + 1] = s
        /\ \A j \in 1 .. Len(e) : d[j] = e[j]
    BY <1>6, <2>2, <2>3, AppendProperties
  <2>6. \A j \in 1 .. Len(c) : d[j] = IF j = k THEN q ELSE c[j]
    BY <1>6, <1>7, <2>5
  <2>7. Change(id, k, p, q, d)
    BY <1>2, <1>6, <1>8, <1>10, <2>1, <2>3, <2>4, <2>5, <2>6 DEF Change, Sized
  <2> QED
    BY <1>1, <1>10, <2>4, <2>7
<1> QED
  BY <1>4, <1>5, <1>9, <1>10

(* What such a change makes of all chains and of their totals.             *)
LEMMA ChangedChains ==
  ASSUME TypeOK, NEW id \in RunnerIDs, NEW k \in Index(id),
         NEW p, p = chain[id][k], NEW q \in Processes, NEW d \in Seq(Processes),
         Change(id, k, p, q, d)
  PROVE  /\ chain' \in [RunnerIDs -> Seq(Processes)] /\ chain'[id] = d
         /\ p \in Processes
         /\ \A i \in RunnerIDs : i # id => chain'[i] = chain[i]
         /\ \A i \in RunnerIDs : i # id =>
              /\ TotalCounted(i)' = TotalCounted(i)
              /\ TotalSent(i)' = TotalSent(i)
         /\ TotalCounted(id)' = TotalCounted(id) - p.counted + q.counted
         /\ TotalSent(id)' = TotalSent(id) - p.sent + q.sent
         /\ \A i \in RunnerIDs : TotalCounted(i) \in Nat /\ TotalSent(i) \in Nat
<1>1. chain \in [RunnerIDs -> Seq(Processes)] /\ p \in Processes
  BY DEF TypeOK, Index
<1>2. chain' = [chain EXCEPT ![id] = d]
  BY DEF Change, ChainIs
<1>3. /\ chain' \in [RunnerIDs -> Seq(Processes)] /\ chain'[id] = d
      /\ \A i \in RunnerIDs : i # id => chain'[i] = chain[i]
  BY <1>1, <1>2
<1>4. /\ TotalCounted(id)' = SumFunction(Counts(d))
      /\ TotalSent(id)' = SumFunction(Sends(d))
  BY Zenon, <1>3 DEF TotalCounted, TotalSent, Index, Counts, Sends
<1>5. ASSUME NEW i \in RunnerIDs, i # id
      PROVE  /\ TotalCounted(i)' = TotalCounted(i)
             /\ TotalSent(i)' = TotalSent(i)
  <2>1. chain'[i] = chain[i]
    BY <1>3, <1>5
  <2> QED
    BY Zenon, <2>1 DEF TotalCounted, TotalSent, Index
<1>6. ASSUME NEW i \in RunnerIDs
      PROVE  TotalCounted(i) \in Nat /\ TotalSent(i) \in Nat
  <2>1. chain[i] \in Seq(Processes)
    BY <1>1
  <2> QED
    BY <2>1, ChainSums, TotalsAreSums
<1> QED
  BY <1>1, <1>3, <1>4, <1>5, <1>6 DEF Change

(* Each part of the invariant under a change of a chain.                   *)
LEMMA OneRunsKept ==
  ASSUME TypeOK, OneRuns, NEW id \in RunnerIDs, NEW k \in Index(id),
         NEW p, p = chain[id][k], NEW q \in Processes, NEW d \in Seq(Processes),
         Change(id, k, p, q, d), UNCHANGED client
  PROVE  OneRuns'
<1>1. /\ chain'[id] = d /\ p \in Processes
      /\ \A i \in RunnerIDs : i # id => chain'[i] = chain[i]
  BY ChangedChains
<1>2. chain[id] \in Seq(Processes) /\ client \in [RunnerIDs -> {"invoking", "invoked"}]
  BY DEF TypeOK
<1>3. PICK n \in Nat : n = Len(chain[id])
  BY <1>2
<1>4. k \in 1 .. n /\ DOMAIN d = 1 .. Len(d) /\ Len(d) \in Nat
  BY <1>2, <1>3 DEF Index
<1>5. \A j \in 1 .. n : d[j] = IF j = k THEN q ELSE chain[id][j]
  BY <1>3 DEF Change
<1>len. PICK l \in Nat : l = Len(d)
  BY <1>4
<1>sized. Sized(p, q, d, n, l)
  BY <1>3, <1>len DEF Change
<1>6. client[id] # "invoking"
  <2>1. chain[id] # <<>>
    BY <1>3, <1>4
  <2> QED
    BY <2>1 DEF OneRuns
<1>7. q.given = p.given
  BY <1>1, <1>sized DEF Sized, Moved, HandedOver, Counted, Reported, Done, Stopped, Alone,
                    Closed, Died, Processes
<1>8. d[1].given = Plan[id]
  <2>1. chain[id][1].given = Plan[id]
    <3>1. chain[id] # <<>>
      BY <1>3, <1>4
    <3> QED
      BY <3>1 DEF OneRuns
  <2>2. d[1] = IF 1 = k THEN q ELSE chain[id][1]
    <3>1. 1 \in 1 .. n
      BY <1>4
    <3> QED
      BY <1>5, <3>1
  <2> QED
    BY <1>7, <2>1, <2>2
<1>9. \A j \in 1 .. n : j < n => chain[id][j].state \in {"closing", "ended"}
  BY <1>2, <1>3 DEF OneRuns, Index
<1>10. ASSUME NEW j \in 1 .. l, j < l
       PROVE  d[j].state \in {"closing", "ended"}
  <2>1. j \in 1 .. n
    BY <1>sized, <1>10 DEF Sized
  <2>2. CASE j # k /\ j < n
    BY <1>5, <1>9, <2>1, <2>2
  <2>3. CASE j # k /\ ~(j < n)
    <3>1. HandedOver(p, q) /\ k < n
      BY <1>4, <1>sized, <1>10, <2>1, <2>3 DEF Sized
    <3>2. p.state = "forking"
      BY <3>1 DEF HandedOver
    <3> QED
      BY <1>4, <1>9, <3>1, <3>2
  <2>4. CASE j = k
    <3>1. d[j] = q
      BY <1>5, <2>1, <2>4
    <3>2. CASE HandedOver(p, q)
      BY <1>1, <3>1, <3>2 DEF HandedOver, Processes
    <3>3. CASE Moved(p, q) /\ l = n
      <4>1. p.state \in {"closing", "ended"}
        BY <1>9, <1>10, <2>1, <2>4, <3>3
      <4>2. q.state \in {"closing", "ended"}
        BY <1>1, <3>3, <4>1
        DEF Moved, Counted, Reported, Done, Stopped, Alone, Closed, Died, Processes
      <4> QED
        BY <3>1, <4>2
    <3> QED
      BY <1>sized, <3>2, <3>3 DEF Sized
  <2> QED
    BY <2>2, <2>3, <2>4
<1>11. ASSUME NEW i \in RunnerIDs
       PROVE  /\ client'[i] = "invoking" => chain'[i] = <<>>
              /\ chain'[i] # <<>> => chain'[i][1].given = Plan[i]
              /\ \A j \in DOMAIN chain'[i] :
                   j < Len(chain'[i]) => chain'[i][j].state \in {"closing", "ended"}
  <2>1. CASE i = id
    BY <1>1, <1>4, <1>len, <1>6, <1>8, <1>10, <2>1
  <2>2. CASE i # id
    BY <1>1, <2>2 DEF OneRuns, Index
  <2> QED
    BY <2>1, <2>2
<1> QED
  BY <1>11 DEF OneRuns, Index

(* Such a change keeps reports within counts and verdicts justified.       *)
LEMMA ReportsAreTrueKept ==
  ASSUME TypeOK, ReportsAreTrue, NEW id \in RunnerIDs, NEW k \in Index(id),
         NEW p, p = chain[id][k], NEW q \in Processes, NEW d \in Seq(Processes),
         Change(id, k, p, q, d)
  PROVE  ReportsAreTrue'
<1> DEFINE True(r) ==
      /\ r.sent <= r.counted
      /\ r.verdict => /\ r.state \in {"closing", "ended"}
                      /\ \/ Limited(r.given) /\ r.counted = Remaining(r.given)
                         \/ TimeIsOver(r.given)
      /\ r.finished => r.verdict /\ r.sent = r.counted /\ r.state = "ended"
      /\ r.state \in {"running", "forking"} => r.child = NoChild
<1>1. /\ chain'[id] = d /\ p \in Processes
      /\ \A i \in RunnerIDs : i # id => chain'[i] = chain[i]
  BY ChangedChains
<1>2. chain[id] \in Seq(Processes)
  BY DEF TypeOK
<1>3. PICK n \in Nat : n = Len(chain[id])
  BY <1>2
<1>4. k \in 1 .. n /\ DOMAIN d = 1 .. Len(d) /\ Len(d) \in Nat
  BY <1>2, <1>3 DEF Index
<1>5. \A j \in 1 .. n : d[j] = IF j = k THEN q ELSE chain[id][j]
  BY <1>3 DEF Change
<1>len. PICK l \in Nat : l = Len(d)
  BY <1>4
<1>sized. Sized(p, q, d, n, l)
  BY <1>3, <1>len DEF Change
<1>6. \A i \in RunnerIDs : \A j \in DOMAIN chain[i] : True(chain[i][j])
  BY DEF ReportsAreTrue, Index
<1>7. True(p)
  BY <1>6 DEF Index
<1>8. p.counted \in Nat /\ p.sent \in Nat
  BY <1>1 DEF Processes
<1>9. True(q)
  <2>1. CASE Counted(p, q)
    BY <1>1, <1>7, <1>8, <2>1 DEF Counted, Processes
  <2>2. CASE Reported(p, q)
    BY <1>1, <1>7, <1>8, <2>2 DEF Reported, Processes
  <2>3. CASE Done(p, q)
    BY <1>1, <1>7, <1>8, <2>3 DEF Done, Processes
  <2>4. CASE Stopped(p, q)
    BY <1>1, <1>7, <1>8, <2>4 DEF Stopped, Processes
  <2>5. CASE Alone(p, q)
    BY <1>1, <1>7, <1>8, <2>5 DEF Alone, Processes
  <2>6. CASE Closed(p, q)
    BY <1>1, <1>7, <1>8, <2>6 DEF Closed, Processes
  <2>7. CASE Died(p, q)
    BY <1>1, <1>7, <1>8, <2>7 DEF Died, Processes
  <2>8. CASE HandedOver(p, q)
    BY <1>1, <1>7, <1>8, <2>8 DEF HandedOver, Processes
  <2> QED
    BY <1>sized, <2>1, <2>2, <2>3, <2>4, <2>5, <2>6, <2>7, <2>8 DEF Sized, Moved
<1>10. True(Process(Successor(p)))
  BY DEF Process
<1> HIDE DEF True
<1>11. \A j \in 1 .. n : True(chain[id][j])
  BY <1>2, <1>3, <1>6
<1>12. ASSUME NEW j \in 1 .. l PROVE True(d[j])
  <2>1. CASE j \in 1 .. n
    BY <1>5, <1>9, <1>11, <2>1
  <2>2. CASE j \notin 1 .. n
    <3>1. j = n + 1 /\ d[n + 1] = Process(Successor(p))
      BY <1>sized, <2>2 DEF Sized
    <3> QED
      BY <1>10, <3>1
  <2> QED
    BY <2>1, <2>2
<1>13. \A i \in RunnerIDs : \A j \in DOMAIN chain'[i] : True(chain'[i][j])
  <2> TAKE i \in RunnerIDs
  <2>1. CASE i = id
    BY <1>1, <1>4, <1>len, <1>12, <2>1
  <2>2. CASE i # id
    BY <1>1, <1>6, <2>2
  <2> QED
    BY <2>1, <2>2
<1> QED
  BY <1>13 DEF ReportsAreTrue, Index, True

(* The two equations between numbers that steps keep.                      *)
HandedOn(g, c, f, t) == g + c = f + t

Balanced(x, y, z, t, r) == x + y + z = t + r

(* What is counted newly moves the total, or what a successor starts from. *)
LEMMA CountMoves ==
  ASSUME NEW g \in Int, NEW c \in Int, NEW f \in Int, NEW t \in Int, NEW r \in Int,
         HandedOn(g, c, f, t)
  PROVE  HandedOn(g, r, f, t - c + r)
BY DEF HandedOn

(* What is reported newly is pending newly.                                *)
LEMMA ReportMoves ==
  ASSUME NEW x \in Int, NEW y \in Int, NEW z \in Int, NEW t \in Int, NEW r \in Int,
         NEW b \in Int, NEW c \in Int, Balanced(x, y, z, t, r)
  PROVE  Balanced(x, y + (c - b), z, t - b + c, r)
BY DEF Balanced

(* Such a change hands counts on, and so keeps a chain within its limit.   *)
LEMMA CountsKept ==
  ASSUME TypeOK, OneRuns, CountsAreHandedOn, ChainStaysWithinLimit,
         NEW id \in RunnerIDs, NEW k \in Index(id),
         NEW p, p = chain[id][k], NEW q \in Processes, NEW d \in Seq(Processes),
         Change(id, k, p, q, d)
  PROVE  CountsAreHandedOn' /\ ChainStaysWithinLimit'
<1>1. /\ chain'[id] = d /\ p \in Processes
      /\ \A i \in RunnerIDs : i # id => chain'[i] = chain[i]
      /\ \A i \in RunnerIDs : i # id => TotalCounted(i)' = TotalCounted(i)
      /\ TotalCounted(id)' = TotalCounted(id) - p.counted + q.counted
      /\ TotalCounted(id) \in Nat
  BY ChangedChains
<1>2. chain[id] \in Seq(Processes)
  BY DEF TypeOK
<1>3. PICK n \in Nat : n = Len(chain[id])
  BY <1>2
<1>4. k \in 1 .. n /\ DOMAIN d = 1 .. Len(d) /\ Len(d) \in Nat
  BY <1>2, <1>3 DEF Index
<1>5. \A j \in 1 .. n : d[j] = IF j = k THEN q ELSE chain[id][j]
  BY <1>3 DEF Change
<1>len. PICK l \in Nat : l = Len(d)
  BY <1>4
<1>sized. Sized(p, q, d, n, l)
  BY <1>3, <1>len DEF Change
<1>6. PICK M, C0 : M = Plan[id].MaxRequestCount /\ C0 = Plan[id].CompletedRequestCount
  OBVIOUS
<1>7. /\ M \in Int /\ C0 \in Nat
      /\ Limited(Plan[id]) <=> M > 0
      /\ Remaining(Plan[id]) = IF M - C0 < 0 THEN 0 ELSE M - C0
  BY <1>6, SessionAssumption DEF Args, Limited, Remaining
<1>8. /\ p.counted \in Nat /\ q.counted \in Nat
      /\ p.given \in Args({}) /\ q.given \in Args({})
  BY <1>1 DEF Processes
<1>9. /\ q.given = p.given
      /\ q.counted = p.counted
           \/ /\ q.counted = p.counted + 1 /\ p.state = "running" /\ l = n
              /\ Limited(p.given) => p.counted < Remaining(p.given)
  <2>1. CASE Counted(p, q) /\ l = n
    BY <1>1, <2>1 DEF Counted, Processes
  <2>2. CASE Reported(p, q) \/ Done(p, q) \/ Stopped(p, q) \/ Alone(p, q)
             \/ Closed(p, q) \/ Died(p, q) \/ HandedOver(p, q)
    BY <1>1, <2>2 DEF Reported, Done, Stopped, Alone, Closed, Died, HandedOver,
                      Processes
  <2> QED
    BY <1>sized, <2>1, <2>2 DEF Sized, Moved
<1>10. \A j \in 1 .. n : chain[id][j].given.MaxRequestCount = M
  BY <1>2, <1>3, <1>6 DEF CountsAreHandedOn, Index
<1>11. p.given.MaxRequestCount = M
  BY <1>3, <1>4, <1>10
<1>12. k < n => p.state \in {"closing", "ended"}
  BY <1>2, <1>3, <1>4 DEF OneRuns, Index
<1>13. chain[id] # <<>>
  BY <1>3, <1>4
<1>14. PICK g, cc : g = chain[id][n].given.CompletedRequestCount
                    /\ cc = chain[id][n].counted
  OBVIOUS
<1>15. g + cc = C0 + TotalCounted(id) /\ g \in Nat /\ cc \in Nat
  <2>1. g + cc = C0 + TotalCounted(id)
    BY <1>3, <1>6, <1>13, <1>14 DEF CountsAreHandedOn
  <2>2. chain[id][n] \in Processes
    BY <1>2, <1>3, <1>4
  <2> QED
    BY <1>14, <2>1, <2>2 DEF Processes, Args
<1>16. \A j \in 1 .. l : d[j].given.MaxRequestCount = M
  <2> TAKE j \in 1 .. l
  <2>1. CASE j \in 1 .. n
    BY <1>5, <1>9, <1>10, <1>11, <2>1
  <2>2. CASE j \notin 1 .. n
    <3>1. j = n + 1 /\ d[n + 1] = Process(Successor(p))
      BY <1>sized, <2>2 DEF Sized
    <3>2. Process(Successor(p)).given = Successor(p)
      BY DEF Process
    <3>3. Successor(p).MaxRequestCount = p.given.MaxRequestCount
      BY <1>1, ArgsOfSuccessor
    <3> QED
      BY <1>11, <3>1, <3>2, <3>3
  <2> QED
    BY <2>1, <2>2
<1>17. d[l].given.CompletedRequestCount + d[l].counted = C0 + TotalCounted(id)'
  <2>1. CASE Moved(p, q) /\ l = n
    <3>1. d[n] = IF n = k THEN q ELSE chain[id][n]
      BY <1>4, <1>5
    <3>2. CASE k = n
      <4>1. g = p.given.CompletedRequestCount /\ cc = p.counted
        BY <1>14, <3>2
      <4>2. d[l] = q
        BY <2>1, <3>1, <3>2
      <4>3. d[l].given.CompletedRequestCount = g /\ d[l].counted = q.counted
        BY <1>9, <4>1, <4>2
      <4>4. TotalCounted(id)' = TotalCounted(id) - cc + q.counted
        BY <1>1, <4>1
      <4>5. PICK t \in Int, r \in Int : t = TotalCounted(id) /\ r = q.counted
        BY <1>1, <1>8
      <4>6. HandedOn(g, r, C0, t - cc + r)
        <5>1. HandedOn(g, cc, C0, t) /\ C0 \in Int /\ g \in Int /\ cc \in Int
          BY <1>7, <1>15, <4>5 DEF HandedOn
        <5> QED
          BY Zenon, <5>1, CountMoves
      <4> QED
        BY <4>3, <4>4, <4>5, <4>6 DEF HandedOn
    <3>3. CASE k # n
      <4>1. q.counted = p.counted
        BY <1>4, <1>9, <1>12, <3>3
      <4>2. TotalCounted(id)' = TotalCounted(id)
        BY <1>1, <1>8, <4>1
      <4> QED
        BY <1>14, <1>15, <2>1, <3>1, <3>3, <4>2
    <3> QED
      BY <3>2, <3>3
  <2>2. CASE HandedOver(p, q) /\ l = n + 1 /\ d[n + 1] = Process(Successor(p))
    <3>1. p.state = "forking" /\ q.counted = p.counted
      BY <1>1, <2>2 DEF HandedOver, Processes
    <3>2. k = n
      BY <1>4, <1>12, <3>1
    <3>3. g = p.given.CompletedRequestCount /\ cc = p.counted
      BY <1>14, <3>2
    <3>4. d[l].given = Successor(p) /\ d[l].counted = 0
      BY <2>2 DEF Process
    <3>5. Successor(p).CompletedRequestCount = g + cc
      BY <1>1, <3>3, ArgsOfSuccessor
    <3>6. TotalCounted(id)' = TotalCounted(id)
      BY <1>1, <1>8, <3>1
    <3> QED
      BY <1>15, <3>4, <3>5, <3>6
  <2> QED
    BY <1>sized, <2>1, <2>2 DEF Sized
<1>18. Limited(Plan[id]) => TotalCounted(id)' <= Remaining(Plan[id])
  <2>1. CASE q.counted = p.counted
    <3>1. TotalCounted(id)' = TotalCounted(id)
      BY <1>1, <1>8, <2>1
    <3> QED
      BY <3>1 DEF ChainStaysWithinLimit
  <2>2. CASE /\ q.counted = p.counted + 1 /\ p.state = "running" /\ l = n
             /\ Limited(p.given) => p.counted < Remaining(p.given)
    <3>1. k = n
      BY <1>4, <1>12, <2>2
    <3>2. g = p.given.CompletedRequestCount /\ cc = p.counted
      BY <1>14, <3>1
    <3>3. TotalCounted(id)' = TotalCounted(id) + 1
      BY <1>1, <1>8, <2>2
    <3>4. Limited(p.given) <=> M > 0
      BY <1>11 DEF Limited
    <3>5. Remaining(p.given) = IF M - g < 0 THEN 0 ELSE M - g
      BY <1>11, <3>2 DEF Remaining
    <3>6. M > 0 => cc < M - g
      BY <1>7, <1>15, <2>2, <3>2, <3>4, <3>5
    <3>7. M > 0 => TotalCounted(id) + 1 <= M - C0
      BY <1>1, <1>7, <1>15, <3>6
    <3> QED
      BY <1>1, <1>7, <3>3, <3>7
  <2> QED
    BY <1>9, <2>1, <2>2
<1>19. CountsAreHandedOn'
  <2>1. ASSUME NEW i \in RunnerIDs
        PROVE  /\ \A j \in DOMAIN chain'[i] :
                    chain'[i][j].given.MaxRequestCount = Plan[i].MaxRequestCount
               /\ chain'[i] # <<>> =>
                    chain'[i][Len(chain'[i])].given.CompletedRequestCount
                      + chain'[i][Len(chain'[i])].counted
                      = Plan[i].CompletedRequestCount + TotalCounted(i)'
    <3>1. CASE i = id
      BY <1>1, <1>4, <1>len, <1>6, <1>16, <1>17, <3>1
    <3>2. CASE i # id
      BY <1>1, <3>2 DEF CountsAreHandedOn, Index
    <3> QED
      BY <3>1, <3>2
  <2> QED
    BY <2>1 DEF CountsAreHandedOn, Index
<1>20. ChainStaysWithinLimit'
  <2>1. ASSUME NEW i \in RunnerIDs, Limited(Plan[i])
        PROVE  TotalCounted(i)' <= Remaining(Plan[i])
    BY <1>1, <1>18, <2>1 DEF ChainStaysWithinLimit
  <2> QED
    BY <2>1 DEF ChainStaysWithinLimit
<1> QED
  BY <1>19, <1>20

(* What a process reports is appended to the pending messages: the account *)
(* stays balanced.                                                         *)
LEMMA AccountKept ==
  ASSUME TypeOK, BatchInHand, ReportsAccountedFor,
         NEW id \in RunnerIDs, NEW k \in Index(id),
         NEW p, p = chain[id][k], NEW q \in Processes, NEW d \in Seq(Processes),
         Change(id, k, p, q, d), Silent(p, q) \/ Sends1(id, p, q),
         p.sent <= p.counted
  PROVE  /\ CollectorTypeOK' /\ BatchInHand' /\ ReportsAccountedFor'
         /\ UNCHANGED <<data, dropped, repeats>>
         /\ \/ Pending' = Pending /\ q.finished = p.finished
            \/ \E m \in Sent : /\ Pending' = Append(Pending, m)
                               /\ m.id = id /\ (m.fin => q.finished)
                               /\ p.state \in {"running", "closing"}
<1>1. /\ p \in Processes
      /\ \A i \in RunnerIDs : i # id => TotalSent(i)' = TotalSent(i)
      /\ TotalSent(id)' = TotalSent(id) - p.sent + q.sent
      /\ \A i \in RunnerIDs : TotalSent(i) \in Nat
  BY ChangedChains
<1>2. p.counted \in Nat /\ p.sent \in Nat /\ q.sent \in Nat
  BY <1>1 DEF Processes
<1>3. CollectorTypeOK /\ Pending \in Seq(Sent)
  BY PendingType DEF TypeOK
<1>4. \A i \in RunnerIDs :
        /\ data[i].TotalReqs \in Nat /\ dropped[i] \in Nat
        /\ repeats.requests[i] \in Nat /\ Carried(i, Pending) \in Nat
        /\ Carried(i, queue) \in Nat /\ InHand(i) \in Nat
        /\ InHand(i) + Carried(i, queue) = Carried(i, Pending)
  <2> TAKE i \in RunnerIDs
  <2>1. Shares(i) /\ Carried(i, Pending) \in Nat
    BY <1>3, PendingType, CarriedType
  <2>2. /\ data[i].TotalReqs \in Nat /\ dropped[i] \in Nat
        /\ repeats.requests[i] \in Nat
    BY <1>3 DEF CollectorTypeOK
  <2> QED
    BY <2>1, <2>2 DEF Shares
<1>5. \A i \in RunnerIDs :
        data[i].TotalReqs + Carried(i, Pending) + dropped[i]
          = TotalSent(i) + repeats.requests[i]
  BY <1>1, <1>4 DEF ReportsAccountedFor
<1>6. CASE Silent(p, q)
  <2>1. UNCHANGED collectorVars /\ q.sent = p.sent /\ q.finished = p.finished
    BY <1>6 DEF Silent
  <2>2. CollectorTypeOK' /\ BatchInHand' /\ Pending' = Pending
    BY <1>3, <2>1 DEF collectorVars, CollectorTypeOK, BatchInHand, Pending
  <2>3. \A i \in RunnerIDs : TotalSent(i)' = TotalSent(i)
    BY <1>1, <1>2, <2>1
  <2>4. \A i \in RunnerIDs : InHand(i)' = InHand(i)
    BY <2>1 DEF InHand, collectorVars
  <2>5. ReportsAccountedFor'
    BY <2>1, <2>3, <2>4 DEF ReportsAccountedFor, collectorVars
  <2> QED
    BY <2>1, <2>2, <2>5 DEF collectorVars
<1>7. CASE Sends1(id, p, q)
  <2>1. PICK fin \in BOOLEAN :
          /\ SendResult([id |-> id, count |-> q.sent - p.sent, fin |-> fin])
          /\ p.state \in {"running", "closing"} /\ q.sent = p.counted
          /\ fin => q.finished
    BY <1>7 DEF Sends1
  <2>2. PICK m : m = [id |-> id, count |-> q.sent - p.sent, fin |-> fin]
    OBVIOUS
  <2>3. /\ m \in Sent /\ m.id = id /\ m.count = q.sent - p.sent
        /\ m.fin => q.finished
    BY <1>2, <2>1, <2>2 DEF Sent, Messages
  <2>4. /\ CollectorTypeOK' /\ BatchInHand'
        /\ Pending' = Append(Pending, m)
        /\ UNCHANGED <<data, dropped, repeats>>
    <3>1. SendResult(m)
      BY <2>1, <2>2
    <3> QED
      BY <1>3, <2>3, <3>1, SendResultStep
  <2>5. \A i \in RunnerIDs : Shares(i)'
    BY <2>4, PendingTypeNext
  <2>6. \A i \in RunnerIDs :
          Carried(i, Pending')
            = Carried(i, Pending) + (IF m.id = i THEN m.count ELSE 0)
    BY <1>3, <2>3, <2>4, CarriedAppend
  <2>7. \A i \in RunnerIDs :
          data[i].TotalReqs + Carried(i, Pending') + dropped[i]
            = TotalSent(i)' + repeats.requests[i]
    <3> TAKE i \in RunnerIDs
    <3>1. PICK x \in Int, y \in Int, z \in Int, t \in Int, r \in Int :
            /\ x = data[i].TotalReqs /\ y = Carried(i, Pending) /\ z = dropped[i]
            /\ t = TotalSent(i) /\ r = repeats.requests[i]
      <4>1. /\ data[i].TotalReqs \in Int /\ Carried(i, Pending) \in Int
            /\ dropped[i] \in Int /\ TotalSent(i) \in Int
            /\ repeats.requests[i] \in Int
        BY <1>1, <1>4
      <4> QED
        BY <4>1
    <3>2. Balanced(x, y, z, t, r)
      BY <1>5, <3>1 DEF Balanced
    <3>3. CASE i = id
      <4>1. PICK b \in Int, c \in Int : b = p.sent /\ c = q.sent
        BY <1>2
      <4>2. Carried(i, Pending') = y + (c - b) /\ TotalSent(i)' = t - b + c
        BY <1>1, <2>3, <2>6, <3>1, <3>3, <4>1
      <4>3. Balanced(x, y + (c - b), z, t - b + c, r)
        BY Zenon, <3>2, ReportMoves
      <4> QED
        BY <3>1, <4>2, <4>3 DEF Balanced
    <3>4. CASE i # id
      <4>1. Carried(i, Pending') = y /\ TotalSent(i)' = t
        BY <1>1, <2>3, <2>6, <3>1, <3>4
      <4> QED
        BY <3>1, <3>2, <4>1 DEF Balanced
    <3> QED
      BY <3>3, <3>4
  <2>8. ReportsAccountedFor'
    <3>1. ASSUME NEW i \in RunnerIDs
          PROVE  data'[i].TotalReqs + InHand(i)' + Carried(i, queue') + dropped'[i]
                   = TotalSent(i)' + repeats'.requests[i]
      <4>1. /\ InHand(i)' \in Nat /\ Carried(i, queue') \in Nat
            /\ InHand(i)' + Carried(i, queue') = Carried(i, Pending')
        BY <2>5 DEF Shares
      <4>2. /\ data[i].TotalReqs \in Nat /\ dropped[i] \in Nat
            /\ data' = data /\ dropped' = dropped /\ repeats' = repeats
        BY <1>4, <2>4
      <4> QED
        BY <2>7, <4>1, <4>2
    <3> QED
      BY <3>1 DEF ReportsAccountedFor
  <2> QED
    BY <2>1, <2>3, <2>4, <2>8
<1> QED
  BY <1>6, <1>7

(* Finished is still only pending or shown when a process has said so, and *)
(* is its last word.                                                       *)
LEMMA WordsKept ==
  ASSUME TypeOK, ReportsAreTrue, FinishedWasSaid, SaidLast,
         NEW id \in RunnerIDs, NEW k \in Index(id),
         NEW p, p = chain[id][k], NEW q \in Processes, NEW d \in Seq(Processes),
         Change(id, k, p, q, d),
         Pending \in Seq(Sent),
         UNCHANGED <<data, repeats>>,
         \/ Pending' = Pending /\ q.finished = p.finished
         \/ \E m \in Sent : /\ Pending' = Append(Pending, m)
                            /\ m.id = id /\ (m.fin => q.finished)
                            /\ p.state \in {"running", "closing"}
  PROVE  FinishedWasSaid' /\ SaidLast'
<1>1. /\ chain'[id] = d /\ p \in Processes
      /\ \A i \in RunnerIDs : i # id => chain'[i] = chain[i]
  BY ChangedChains
<1>2. chain[id] \in Seq(Processes)
  BY DEF TypeOK
<1>3. PICK n \in Nat : n = Len(chain[id])
  BY <1>2
<1>4. k \in 1 .. n /\ DOMAIN d = 1 .. Len(d) /\ Len(d) \in Nat
      /\ DOMAIN chain[id] = 1 .. n
  BY <1>2, <1>3 DEF Index
<1>5. \A j \in 1 .. n : d[j] = IF j = k THEN q ELSE chain[id][j]
  BY <1>3 DEF Change
<1>len. PICK l \in Nat : l = Len(d)
  BY <1>4
<1>sized. n <= l
  <2>1. Sized(p, q, d, n, l)
    BY <1>3, <1>len DEF Change
  <2> QED
    BY <2>1 DEF Sized
<1>6. PICK P : P = Pending
  OBVIOUS
<1>7. PICK h \in Nat : h = Len(P) /\ DOMAIN P = 1 .. h /\ P \in Seq(Sent)
  BY <1>6
<1> DEFINE Said(i) == \/ data[i].Finished
                      \/ \E j \in 1 .. h : P[j].id = i /\ P[j].fin
<1>8. \A i \in RunnerIDs : Said(i) => \E j \in DOMAIN chain[i] : chain[i][j].finished
  BY <1>6, <1>7 DEF FinishedWasSaid, Index
<1>9. \A i \in RunnerIDs : Len(chain[i]) <= 1 /\ repeats.messages = 0 =>
        /\ data[i].Finished => \A j \in 1 .. h : P[j].id # i
        /\ \A a, b \in 1 .. h : P[a].id = i /\ P[a].fin /\ a < b => P[b].id # i
  BY <1>6, <1>7 DEF SaidLast
<1>10. CASE Pending' = Pending /\ q.finished = p.finished
  <2>1. Pending' = P /\ data' = data /\ repeats' = repeats
    BY <1>6, <1>10
  <2>2. ASSUME NEW i \in RunnerIDs, Said(i)
        PROVE  \E j \in DOMAIN chain'[i] : chain'[i][j].finished
    <3>1. PICK j \in DOMAIN chain[i] : chain[i][j].finished
      BY <1>8, <2>2
    <3>2. CASE i = id
      <4>1. j \in 1 .. n /\ j \in 1 .. l
        BY <1>4, <1>sized, <3>1, <3>2
      <4>2. d[j].finished
        BY <1>5, <1>10, <3>1, <3>2, <4>1
      <4> QED
        BY <1>1, <1>4, <1>len, <3>2, <4>1, <4>2
    <3>3. CASE i # id
      BY <1>1, <3>1, <3>3
    <3> QED
      BY <3>2, <3>3
  <2>3. FinishedWasSaid'
    BY <1>7, <2>1, <2>2 DEF FinishedWasSaid, Index
  <2>4. \A i \in RunnerIDs : Len(chain'[i]) <= 1 => Len(chain[i]) <= 1
    BY <1>1, <1>3, <1>len, <1>sized
  <2>5. SaidLast'
    BY <1>7, <1>9, <2>1, <2>4 DEF SaidLast
  <2> QED
    BY <2>3, <2>5
<1>11. ASSUME NEW m \in Sent, Pending' = Append(Pending, m), m.id = id,
              m.fin => q.finished, p.state \in {"running", "closing"}
       PROVE  FinishedWasSaid' /\ SaidLast'
  <2>1. data' = data /\ repeats' = repeats
    OBVIOUS
  <2>2. PICK R : R = Pending'
    OBVIOUS
  <2>3. /\ R \in Seq(Sent) /\ Len(R) = h + 1 /\ R[h + 1] = m
        /\ \A j \in 1 .. h : R[j] = P[j]
    BY <1>6, <1>7, <1>11, <2>2, AppendProperties
  <2>4. DOMAIN R = 1 .. h + 1
    BY <2>3
  <2>5. ~p.finished
    BY <1>11 DEF ReportsAreTrue
  <2>6. ASSUME NEW i \in RunnerIDs,
               \/ data[i].Finished
               \/ \E j \in 1 .. h + 1 : R[j].id = i /\ R[j].fin
        PROVE  \E j \in DOMAIN chain'[i] : chain'[i][j].finished
    <3>1. CASE Said(i)
      <4>1. PICK j \in DOMAIN chain[i] : chain[i][j].finished
        BY <1>8, <3>1
      <4>2. CASE i = id
        <5>1. j \in 1 .. n /\ j \in 1 .. l /\ j # k
          BY <1>4, <1>sized, <2>5, <4>1, <4>2
        <5>2. d[j].finished
          BY <1>5, <4>1, <4>2, <5>1
        <5> QED
          BY <1>1, <1>4, <1>len, <4>2, <5>1, <5>2
      <4>3. CASE i # id
        BY <1>1, <4>1, <4>3
      <4> QED
        BY <4>2, <4>3
    <3>2. CASE ~Said(i)
      <4>1. PICK j \in 1 .. h + 1 : R[j].id = i /\ R[j].fin
        BY <2>6, <3>2
      <4>2. j = h + 1
        BY <2>3, <3>2, <4>1
      <4>3. i = id /\ q.finished
        BY <1>11, <2>3, <4>1, <4>2
      <4>4. d[k] = q /\ k \in 1 .. l
        BY <1>4, <1>5, <1>sized
      <4> QED
        BY <1>1, <1>4, <1>len, <4>3, <4>4
    <3> QED
      BY <3>1, <3>2
  <2>7. FinishedWasSaid'
    BY <2>1, <2>2, <2>4, <2>6 DEF FinishedWasSaid, Index
  <2>8. ASSUME NEW i \in RunnerIDs, Len(chain'[i]) <= 1, repeats.messages = 0
        PROVE  /\ data[i].Finished => \A j \in 1 .. h + 1 : R[j].id # i
               /\ \A a, b \in 1 .. h + 1 :
                    R[a].id = i /\ R[a].fin /\ a < b => R[b].id # i
    <3>1. Len(chain[i]) <= 1
      BY <1>1, <1>3, <1>len, <1>sized, <2>8
    <3>2. /\ data[i].Finished => \A j \in 1 .. h : P[j].id # i
          /\ \A a, b \in 1 .. h : P[a].id = i /\ P[a].fin /\ a < b => P[b].id # i
      BY <1>9, <2>8, <3>1
    <3>3. CASE i # id
      <4>1. \A j \in 1 .. h + 1 : R[j].id = i => j \in 1 .. h /\ R[j] = P[j]
        <5> TAKE j \in 1 .. h + 1
        <5>1. j \in 1 .. h \/ j = h + 1
          OBVIOUS
        <5> QED
          BY <1>11, <2>3, <3>3, <5>1
      <4> QED
        BY <3>2, <4>1
    <3>4. CASE i = id
      <4>1. n = 1 /\ k = 1
        <5>1. n <= 1
          BY <1>3, <3>1, <3>4
        <5> QED
          BY <1>4, <5>1
      <4>2. \A j \in DOMAIN chain[i] : ~chain[i][j].finished
        BY <1>4, <2>5, <3>4, <4>1
      <4>3. ~Said(i)
        BY <1>8, <4>2
      <4>4. \A a \in 1 .. h + 1 : R[a].id = i /\ R[a].fin => a = h + 1
        <5> TAKE a \in 1 .. h + 1
        <5>1. a \in 1 .. h => ~(R[a].id = i /\ R[a].fin)
          BY <2>3, <4>3
        <5>2. a \in 1 .. h \/ a = h + 1
          OBVIOUS
        <5> QED
          BY <5>1, <5>2
      <4>5. \A a, b \in 1 .. h + 1 : a < b => a # h + 1
        OBVIOUS
      <4> QED
        BY <4>3, <4>4, <4>5
    <3> QED
      BY <3>3, <3>4
  <2>9. SaidLast'
    BY <2>1, <2>2, <2>4, <2>8 DEF SaidLast
  <2> QED
    BY <2>7, <2>9
<1> QED
  BY <1>10, <1>11

(* A step of a process keeps the invariant.                                *)
LEMMA ProcessKeeps ==
  ASSUME SessionInv, NEW id \in RunnerIDs, NEW k \in Index(id), ProcessStep(id, k)
  PROVE  SessionInv'
<1>1. PICK p : p = chain[id][k]
  OBVIOUS
<1>2. UNCHANGED client
  BY <1>1, ProcessChange DEF SessionInv
<1>3. PICK q \in Processes, d \in Seq(Processes) :
        Change(id, k, p, q, d) /\ (Silent(p, q) \/ Sends1(id, p, q))
  BY <1>1, ProcessChange DEF SessionInv
<1>4. chain' \in [RunnerIDs -> Seq(Processes)]
  BY <1>1, <1>3, ChangedChains DEF SessionInv
<1>5. OneRuns'
  BY <1>1, <1>2, <1>3, OneRunsKept DEF SessionInv
<1>6. ReportsAreTrue'
  BY <1>1, <1>3, ReportsAreTrueKept DEF SessionInv
<1>7. CountsAreHandedOn' /\ ChainStaysWithinLimit'
  BY <1>1, <1>3, CountsKept DEF SessionInv
<1>8. p.sent <= p.counted
  BY <1>1 DEF SessionInv, ReportsAreTrue
<1>9. /\ CollectorTypeOK' /\ BatchInHand' /\ ReportsAccountedFor'
      /\ UNCHANGED <<data, dropped, repeats>>
      /\ \/ Pending' = Pending /\ q.finished = p.finished
         \/ \E m \in Sent : /\ Pending' = Append(Pending, m)
                            /\ m.id = id /\ (m.fin => q.finished)
                            /\ p.state \in {"running", "closing"}
  BY <1>1, <1>3, <1>8, AccountKept DEF SessionInv
<1>10. FinishedWasSaid' /\ SaidLast'
  <2>1. Pending \in Seq(Sent)
    BY PendingType DEF SessionInv, TypeOK
  <2> QED
    BY <1>1, <1>3, <1>9, <2>1, WordsKept DEF SessionInv
<1>11. TypeOK'
  BY <1>2, <1>4, <1>9 DEF SessionInv, TypeOK
<1> QED
  BY <1>5, <1>6, <1>7, <1>9, <1>10, <1>11 DEF SessionInv

(* The client's Invoke keeps the invariant.                                *)
LEMMA InvokeKeeps ==
  ASSUME SessionInv, NEW id \in RunnerIDs, InvokeLambda(id)
  PROVE  SessionInv'
<1>1. /\ client[id] = "invoking" /\ chain[id] = <<>>
      /\ client' = [client EXCEPT ![id] = "invoked"]
      /\ UNCHANGED collectorVars
  BY DEF SessionInv, OneRuns, InvokeLambda
<1>2. /\ client \in [RunnerIDs -> {"invoking", "invoked"}]
      /\ chain \in [RunnerIDs -> Seq(Processes)]
      /\ CollectorTypeOK
  BY DEF SessionInv, TypeOK
<1>3. /\ client' \in [RunnerIDs -> {"invoking", "invoked"}]
      /\ client'[id] = "invoked" /\ \A i \in RunnerIDs : i # id => client'[i] = client[i]
  BY <1>1, <1>2
<1>4. /\ CollectorTypeOK' /\ BatchInHand' /\ Pending' = Pending
      /\ UNCHANGED <<queue, batch, pc, data, dropped, repeats>>
  <2>1. CollectorTypeOK /\ BatchInHand
    BY DEF SessionInv, TypeOK
  <2> QED
    BY <1>1, <2>1 DEF collectorVars, CollectorTypeOK, BatchInHand, Pending
<1>5. CASE chain' = chain
  <2>1. \A i : TotalCounted(i)' = TotalCounted(i) /\ TotalSent(i)' = TotalSent(i)
    BY Zenon, <1>5 DEF TotalCounted, TotalSent, Index
  <2>2. TypeOK'
    BY <1>2, <1>3, <1>4, <1>5 DEF TypeOK
  <2>3. OneRuns'
    <3>1. \A i \in RunnerIDs : client'[i] = "invoking" => client[i] = "invoking"
      BY <1>3
    <3> QED
      BY <1>5, <3>1 DEF SessionInv, OneRuns, Index
  <2>4. ReportsAreTrue'
    BY <1>5 DEF SessionInv, ReportsAreTrue, Index
  <2>5. CountsAreHandedOn' /\ ChainStaysWithinLimit'
    BY <1>5, <2>1 DEF SessionInv, CountsAreHandedOn, ChainStaysWithinLimit, Index
  <2>6. ReportsAccountedFor'
    BY <1>4, <2>1 DEF SessionInv, ReportsAccountedFor, InHand
  <2>7. FinishedWasSaid' /\ SaidLast'
    BY <1>4, <1>5 DEF SessionInv, FinishedWasSaid, SaidLast, Index
  <2> QED
    BY <1>4, <2>2, <2>3, <2>4, <2>5, <2>6, <2>7 DEF SessionInv
<1>6. CASE chain' = [chain EXCEPT ![id] = <<Process(Plan[id])>>]
  <2>1. PICK q : q = Process(Plan[id])
    OBVIOUS
  <2>2. /\ q \in Processes /\ q.counted = 0 /\ q.sent = 0 /\ q.given = Plan[id]
        /\ q.verdict = FALSE /\ q.finished = FALSE /\ q.child = NoChild
    BY <2>1, SessionAssumption DEF Process, Processes
  <2>3. PICK e : e = <<>>
    OBVIOUS
  <2>4. PICK d : d = <<q>>
    OBVIOUS
  <2>5. /\ e \in Seq(Processes) /\ Len(e) = 0 /\ d = Append(e, q)
        /\ d \in Seq(Processes) /\ Len(d) = 1 /\ d[1] = q /\ d # <<>>
        /\ DOMAIN d = 1 .. 1
    BY <2>2, <2>3, <2>4
  <2>6. SumFunction(Counts(e)) = 0 /\ SumFunction(Sends(e)) = 0
    <3>1. /\ SumFunction(Counts(e)) = SumFunctionOnSet(Counts(e), 1 .. Len(e))
          /\ SumFunction(Sends(e)) = SumFunctionOnSet(Sends(e), 1 .. Len(e))
      BY <2>5, ChainSums
    <3>2. 1 .. Len(e) = {}
      BY <2>5
    <3> QED
      BY Zenon, <3>1, <3>2, SumOfEmpty
  <2>7. SumFunction(Counts(d)) = 0 /\ SumFunction(Sends(d)) = 0
    BY <2>2, <2>5, <2>6, OneMore
  <2>8. /\ chain' \in [RunnerIDs -> Seq(Processes)] /\ chain'[id] = d
        /\ \A i \in RunnerIDs : i # id => chain'[i] = chain[i]
    BY <1>2, <1>6, <2>1, <2>4, <2>5
  <2>9. /\ TotalCounted(id)' = 0 /\ TotalSent(id)' = 0
        /\ TotalCounted(id) = 0 /\ TotalSent(id) = 0
    <3>1. /\ TotalCounted(id)' = SumFunction(Counts(d))
          /\ TotalSent(id)' = SumFunction(Sends(d))
      BY Zenon, <2>8 DEF TotalCounted, TotalSent, Index, Counts, Sends
    <3>2. /\ TotalCounted(id) = SumFunction(Counts(e))
          /\ TotalSent(id) = SumFunction(Sends(e))
      BY Zenon, <1>1, <2>3 DEF TotalCounted, TotalSent, Index, Counts, Sends
    <3> QED
      BY <2>6, <2>7, <3>1, <3>2
  <2>10. \A i \in RunnerIDs : TotalCounted(i)' = TotalCounted(i)
                              /\ TotalSent(i)' = TotalSent(i)
    <3> TAKE i \in RunnerIDs
    <3>1. CASE i = id
      BY <2>9, <3>1
    <3>2. CASE i # id
      <4>1. chain'[i] = chain[i]
        BY <2>8, <3>2
      <4> QED
        BY Zenon, <4>1 DEF TotalCounted, TotalSent, Index
    <3> QED
      BY <3>1, <3>2
  <2>11. TypeOK'
    BY <1>3, <1>4, <2>8 DEF TypeOK
  <2>12. OneRuns'
    <3>1. ASSUME NEW i \in RunnerIDs
          PROVE  /\ client'[i] = "invoking" => chain'[i] = <<>>
                 /\ chain'[i] # <<>> => chain'[i][1].given = Plan[i]
                 /\ \A j \in DOMAIN chain'[i] : j < Len(chain'[i]) =>
                      chain'[i][j].state \in {"closing", "ended"}
      <4>1. CASE i = id
        <5>1. d[1].given = Plan[id] /\ \A j \in DOMAIN d : ~(j < Len(d))
          BY <2>2, <2>5
        <5> QED
          BY <1>3, <2>8, <4>1, <5>1
      <4>2. CASE i # id
        BY <1>3, <2>8, <4>2 DEF SessionInv, OneRuns, Index
      <4> QED
        BY <4>1, <4>2
    <3> QED
      BY <3>1 DEF OneRuns, Index
  <2>13. ReportsAreTrue'
    <3>1. ASSUME NEW i \in RunnerIDs, NEW j \in DOMAIN chain'[i]
          PROVE  \/ i # id /\ chain'[i] = chain[i]
                 \/ chain'[i][j] = q
      BY <2>5, <2>8
    <3> QED
      BY <2>2, <3>1 DEF SessionInv, ReportsAreTrue, Index
  <2>14. CountsAreHandedOn'
    <3>1. ASSUME NEW i \in RunnerIDs
          PROVE  /\ \A j \in DOMAIN chain'[i] :
                      chain'[i][j].given.MaxRequestCount = Plan[i].MaxRequestCount
                 /\ chain'[i] # <<>> =>
                      chain'[i][Len(chain'[i])].given.CompletedRequestCount
                        + chain'[i][Len(chain'[i])].counted
                        = Plan[i].CompletedRequestCount + TotalCounted(i)'
      <4>1. CASE i = id
        <5>1. /\ \A j \in DOMAIN d : d[j].given = Plan[id]
              /\ d[Len(d)].given = Plan[id] /\ d[Len(d)].counted = 0
          BY <2>2, <2>5
        <5> QED
          BY <2>8, <2>9, <4>1, <5>1
      <4>2. CASE i # id
        BY <2>8, <2>10, <4>2 DEF SessionInv, CountsAreHandedOn, Index
      <4> QED
        BY <4>1, <4>2
    <3> QED
      BY <3>1 DEF CountsAreHandedOn, Index
  <2>15. ChainStaysWithinLimit'
    BY <2>10 DEF SessionInv, ChainStaysWithinLimit
  <2>16. ReportsAccountedFor'
    BY <1>4, <2>10 DEF SessionInv, ReportsAccountedFor, InHand
  <2>17. \A i \in RunnerIDs : \A j \in DOMAIN chain[i] :
           j \in DOMAIN chain'[i] /\ chain'[i][j] = chain[i][j]
    BY <1>1, <2>8
  <2>18. FinishedWasSaid'
    BY <1>4, <2>17 DEF SessionInv, FinishedWasSaid, Index
  <2>19. \A i \in RunnerIDs : Len(chain'[i]) <= 1 => Len(chain[i]) <= 1
    BY <1>1, <2>8
  <2>20. SaidLast'
    BY <1>4, <2>19 DEF SessionInv, SaidLast
  <2> QED
    BY <1>4, <2>11, <2>12, <2>13, <2>14, <2>15, <2>16, <2>18, <2>20 DEF SessionInv
<1> QED
  BY <1>5, <1>6 DEF InvokeLambda

(* What a collector step makes of the account of a runner.                 *)
LEMMA AddMoves ==
  ASSUME NEW x \in Int, NEW h \in Int, NEW t \in Int, NEW z \in Int, NEW s \in Int,
         NEW r \in Int, Balanced(x, h + t, z, s, r)
  PROVE  Balanced(x + h, t, z, s, r)
BY DEF Balanced

(* A first part of the pending messages goes to those lost;                *)
LEMMA LossMoves ==
  ASSUME NEW x \in Int, NEW a \in Int, NEW b \in Int, NEW z \in Int, NEW s \in Int,
         NEW r \in Int, Balanced(x, a + b, z, s, r)
  PROVE  Balanced(x, b, z + a, s, r)
BY DEF Balanced

(* kept messages are pending again, and repeated.                          *)
LEMMA RepeatMoves ==
  ASSUME NEW x \in Int, NEW a \in Int, NEW b \in Int, NEW z \in Int, NEW s \in Int,
         NEW r \in Int, NEW k \in Int, Balanced(x, a + b, z, s, r)
  PROVE  Balanced(x, a + (k + b), z, s, r + k)
BY DEF Balanced

Account(i) ==
  Balanced(data[i].TotalReqs, Carried(i, Pending), dropped[i],
           TotalSent(i), repeats.requests[i])

(* A step of the collector keeps every runner's account balanced.          *)
LEMMA AccountMoves ==
  ASSUME TypeOK, CollectorTypeOK', NEW i \in RunnerIDs, Account(i),
         UNCHANGED chain, Quiet \/ Adds \/ Loses \/ Repeats
  PROVE  Account(i)'
<1>1. CollectorTypeOK /\ Pending \in Seq(Sent) /\ Pending' \in Seq(Sent)
  BY PendingType, PendingTypeNext DEF TypeOK
<1>2. TotalSent(i)' = TotalSent(i)
  BY Zenon DEF TotalSent, Index
<1>3. TotalSent(i) \in Nat
  <2>1. chain[i] \in Seq(Processes)
    BY DEF TypeOK
  <2> QED
    BY <2>1, ChainSums, TotalsAreSums
<1>4. PICK x \in Int, z \in Int, t \in Int, r \in Int :
        /\ x = data[i].TotalReqs /\ z = dropped[i]
        /\ t = TotalSent(i) /\ r = repeats.requests[i]
  BY <1>1, <1>3 DEF CollectorTypeOK
<1>5. Balanced(x, Carried(i, Pending), z, t, r)
  BY <1>4 DEF Account
<1>6. CASE Quiet
  BY <1>2, <1>4, <1>5, <1>6 DEF Quiet, Account
<1>7. CASE Adds
  <2>1. PICK m : m = Head(Pending)
    OBVIOUS
  <2>2. m \in Sent /\ Pending # <<>> /\ Pending' = Tail(Pending)
    BY <1>1, <1>7, <2>1, HeadTailProperties DEF Adds
  <2>3. PICK h \in Int, c \in Int :
          /\ h = IF m.id = i THEN m.count ELSE 0
          /\ c = Carried(i, Pending')
    <3>1. m.count \in Nat
      BY <2>2 DEF Sent, Messages
    <3>2. Carried(i, Pending') \in Nat
      BY <1>1, CarriedType
    <3> QED
      BY <3>1, <3>2
  <2>4. Carried(i, Pending) = h + c
    BY <1>1, <2>1, <2>2, <2>3, CarriedHead
  <2>5. data'[i].TotalReqs = x + h /\ dropped' = dropped /\ repeats' = repeats
    <3>1. /\ data' = [data EXCEPT ![m.id] = AddResult(@, m)]
          /\ dropped' = dropped /\ repeats' = repeats
      BY <1>7, <2>1 DEF Adds
    <3>2. data \in [RunnerIDs -> [TotalReqs : Nat, Finished : BOOLEAN]]
      BY <1>1 DEF CollectorTypeOK
    <3>3. CASE m.id = i
      BY <1>4, <2>3, <3>1, <3>2, <3>3 DEF AddResult
    <3>4. CASE m.id # i
      BY <1>4, <2>3, <3>1, <3>2, <3>4
    <3> QED
      BY <3>1, <3>3, <3>4
  <2>6. Balanced(x + h, c, z, t, r)
    <3>1. Balanced(x, h + c, z, t, r)
      BY <1>5, <2>4
    <3> QED
      BY Zenon, <3>1, AddMoves
  <2> QED
    BY <1>2, <1>4, <2>3, <2>5, <2>6 DEF Account
<1>8. CASE Loses
  <2>1. PICK s \in Seq(Sent) :
          /\ Pending = s \o Pending'
          /\ dropped' = [id \in RunnerIDs |-> dropped[id] + Carried(id, s)]
    BY <1>8 DEF Loses
  <2>2. PICK a \in Int, b \in Int : a = Carried(i, s) /\ b = Carried(i, Pending')
    BY <1>1, CarriedType
  <2>3. Carried(i, Pending) = a + b
    BY <1>1, <2>1, <2>2, CarriedConcat
  <2>4. data' = data /\ repeats' = repeats /\ dropped'[i] = z + a
    BY <1>4, <1>8, <2>1, <2>2 DEF Loses
  <2>5. Balanced(x, b, z + a, t, r)
    <3>1. Balanced(x, a + b, z, t, r)
      BY <1>5, <2>3
    <3> QED
      BY Zenon, <3>1, LossMoves
  <2> QED
    BY <1>2, <1>4, <2>2, <2>4, <2>5 DEF Account
<1>9. CASE Repeats
  <2>1. PICK s, kept, rest \in Seq(Sent) :
          /\ Pending = s \o rest
          /\ Pending' = s \o (kept \o rest)
          /\ repeats'.requests =
               [id \in RunnerIDs |-> repeats.requests[id] + Carried(id, kept)]
    BY <1>9 DEF Repeats
  <2>2. PICK a \in Int, k \in Int, b \in Int :
          a = Carried(i, s) /\ k = Carried(i, kept) /\ b = Carried(i, rest)
    BY CarriedType
  <2>3. Carried(i, Pending) = a + b
    BY <2>1, <2>2, CarriedConcat
  <2>4. Carried(i, Pending') = a + (k + b)
    <3>1. kept \o rest \in Seq(Sent)
      BY ConcatProperties
    <3>2. Carried(i, kept \o rest) = k + b
      BY <2>2, CarriedConcat
    <3> QED
      BY <2>1, <2>2, <3>1, <3>2, CarriedConcat
  <2>5. data' = data /\ dropped' = dropped /\ repeats'.requests[i] = r + k
    BY <1>4, <1>9, <2>1, <2>2 DEF Repeats
  <2>6. Balanced(x, a + (k + b), z, t, r + k)
    <3>1. Balanced(x, a + b, z, t, r)
      BY <1>5, <2>3
    <3> QED
      BY Zenon, <3>1, RepeatMoves
  <2> QED
    BY <1>2, <1>4, <2>4, <2>5, <2>6 DEF Account
<1> QED
  BY <1>6, <1>7, <1>8, <1>9

(* ReportsAccountedFor is that account, of every runner.                   *)
LEMMA AccountsAre ==
  ASSUME TypeOK
  PROVE  ReportsAccountedFor <=> \A i \in RunnerIDs : Account(i)
<1>1. CollectorTypeOK /\ \A i : Shares(i)
  BY PendingType DEF TypeOK
<1>2. ASSUME NEW i \in RunnerIDs
      PROVE  data[i].TotalReqs + InHand(i) + Carried(i, queue) + dropped[i]
               = data[i].TotalReqs + Carried(i, Pending) + dropped[i]
  <2>1. /\ InHand(i) \in Nat /\ Carried(i, queue) \in Nat
        /\ InHand(i) + Carried(i, queue) = Carried(i, Pending)
        /\ data[i].TotalReqs \in Nat /\ dropped[i] \in Nat
    BY <1>1 DEF Shares, CollectorTypeOK
  <2> QED
    BY <2>1
<1> QED
  BY <1>2 DEF ReportsAccountedFor, Account, Balanced

(* Balanced accounts in the next state, in the terms of the property.      *)
LEMMA AccountsAreNext ==
  ASSUME CollectorTypeOK'
  PROVE  (\A i \in RunnerIDs : Account(i)') => ReportsAccountedFor'
<1>1. \A i : Shares(i)'
  BY PendingTypeNext
<1>2. ASSUME NEW i \in RunnerIDs
      PROVE  data'[i].TotalReqs + InHand(i)' + Carried(i, queue') + dropped'[i]
               = data'[i].TotalReqs + Carried(i, Pending') + dropped'[i]
  <2>1. /\ InHand(i)' \in Nat /\ Carried(i, queue') \in Nat
        /\ InHand(i)' + Carried(i, queue') = Carried(i, Pending')
        /\ data'[i].TotalReqs \in Nat /\ dropped'[i] \in Nat
    BY <1>1 DEF Shares, CollectorTypeOK
  <2> QED
    BY <2>1
<1> QED
  BY <1>2 DEF ReportsAccountedFor, Account, Balanced

(* The messages a collector step leaves were there before, in this order   *)
(* unless some are there twice.                                            *)
LEMMA AddsLeaves ==
  ASSUME CollectorTypeOK, NEW h \in Nat, h = Len(Pending), Adds
  PROVE  /\ h >= 1 /\ Head(Pending) = Pending[1] /\ Head(Pending) \in Sent
         /\ DOMAIN Pending' = 1 .. h - 1
         /\ \A j \in 1 .. h - 1 : Pending'[j] = Pending[j + 1]
<1>1. PICK P : P = Pending
  OBVIOUS
<1>2. P \in Seq(Sent) /\ P # <<>>
  BY <1>1, PendingType DEF Adds
<1>3. PICK t : t = Tail(P)
  OBVIOUS
<1>4. /\ t \in Seq(Sent) /\ Len(t) = h - 1 /\ Head(P) \in Sent
      /\ \A j \in 1 .. Len(t) : t[j] = P[j + 1]
  BY <1>1, <1>2, <1>3, HeadTailProperties
<1>5. Head(P) = P[1] /\ h >= 1
  <2>1. Len(P) \in Nat \ {0}
    BY <1>2, EmptySeq
  <2> QED
    BY <1>1, <1>2, <2>1
<1>6. Pending' = t
  BY <1>1, <1>3 DEF Adds
<1> QED
  BY <1>1, <1>4, <1>5, <1>6

(* After a loss the rest has moved up.                                     *)
LEMMA LosesLeaves ==
  ASSUME CollectorTypeOK, CollectorTypeOK', NEW h \in Nat, h = Len(Pending), Loses
  PROVE  \E b \in Nat :
           /\ b <= h /\ DOMAIN Pending' = 1 .. h - b
           /\ \A j \in 1 .. h - b : Pending'[j] = Pending[b + j]
<1>1. PICK s \in Seq(Sent) : Pending = s \o Pending'
  BY DEF Loses
<1>2. PICK R : R = Pending'
  OBVIOUS
<1>3. R \in Seq(Sent)
  BY <1>2, PendingTypeNext
<1>4. PICK b \in Nat, l \in Nat : b = Len(s) /\ l = Len(R)
  BY <1>3
<1>5. PICK P : P = s \o R
  OBVIOUS
<1>6. /\ Len(P) = b + l
      /\ \A i \in 1 .. b + l : P[i] = IF i <= b THEN s[i] ELSE R[i - b]
  BY <1>3, <1>4, <1>5, ConcatProperties
<1>7. Pending = P
  BY <1>1, <1>2, <1>5
<1>8. h = b + l
  BY <1>6, <1>7
<1>9. \A j \in 1 .. l : R[j] = P[b + j]
  <2> TAKE j \in 1 .. l
  <2>1. b + j \in 1 .. b + l /\ ~(b + j <= b) /\ (b + j) - b = j
    OBVIOUS
  <2> QED
    BY <1>6, <2>1
<1>10. DOMAIN R = 1 .. l /\ h - b = l /\ b <= h
  BY <1>3, <1>4, <1>8
<1> QED
  BY <1>2, <1>7, <1>9, <1>10

(* A repeated message was pending before.                                  *)
LEMMA RepeatsLeaves ==
  ASSUME CollectorTypeOK, CollectorTypeOK', Repeats
  PROVE  \A j \in DOMAIN Pending' : \E a \in DOMAIN Pending : Pending'[j] = Pending[a]
<1>1. PICK s, kept, rest \in Seq(Sent) :
        /\ Pending = s \o rest
        /\ Pending' = s \o (kept \o rest)
        /\ \A i \in DOMAIN kept : \E j \in DOMAIN s : kept[i] = s[j]
  BY DEF Repeats
<1>2. PICK b \in Nat, k \in Nat, l \in Nat :
        b = Len(s) /\ k = Len(kept) /\ l = Len(rest)
  OBVIOUS
<1>3. PICK P, T, R : P = s \o rest /\ T = kept \o rest /\ R = s \o T
  OBVIOUS
<1>4. /\ P \in Seq(Sent) /\ Len(P) = b + l
      /\ \A i \in 1 .. b + l : P[i] = IF i <= b THEN s[i] ELSE rest[i - b]
  BY <1>2, <1>3, ConcatProperties
<1>5. /\ T \in Seq(Sent) /\ Len(T) = k + l
      /\ \A i \in 1 .. k + l : T[i] = IF i <= k THEN kept[i] ELSE rest[i - k]
  BY <1>2, <1>3, ConcatProperties
<1>6. /\ R \in Seq(Sent) /\ Len(R) = b + (k + l)
      /\ \A i \in 1 .. b + (k + l) : R[i] = IF i <= b THEN s[i] ELSE T[i - b]
  BY <1>2, <1>3, <1>5, ConcatProperties
<1>7. \A i \in 1 .. k : \E j \in 1 .. b : kept[i] = s[j]
  <2>1. DOMAIN kept = 1 .. k /\ DOMAIN s = 1 .. b
    BY <1>2
  <2> QED
    BY Zenon, <1>1, <2>1
<1>8. ASSUME NEW j \in 1 .. b + (k + l)
      PROVE  \E a \in 1 .. b + l : R[j] = P[a]
  <2>1. CASE j <= b
    <3>1. j \in 1 .. b + l /\ R[j] = s[j] /\ P[j] = s[j]
      BY <1>4, <1>6, <2>1
    <3> QED
      BY <3>1
  <2>2. CASE j > b /\ j <= b + k
    <3>1. j - b \in 1 .. k /\ j - b \in 1 .. k + l
      BY <2>2
    <3>2. R[j] = kept[j - b]
      BY <1>5, <1>6, <2>2, <3>1
    <3>3. PICK a \in 1 .. b : kept[j - b] = s[a]
      BY <1>7, <3>1
    <3>4. a \in 1 .. b + l /\ P[a] = s[a]
      BY <1>4
    <3> QED
      BY <3>2, <3>3, <3>4
  <2>3. CASE j > b + k
    <3>1. /\ j - b \in 1 .. k + l /\ ~(j - b <= k)
          /\ j - k \in 1 .. b + l /\ ~(j - k <= b)
          /\ (j - b) - k = (j - k) - b
      BY <2>3
    <3>2. R[j] = rest[(j - b) - k]
      BY <1>5, <1>6, <2>3, <3>1
    <3>3. P[j - k] = rest[(j - k) - b]
      BY <1>4, <3>1
    <3> QED
      BY <3>1, <3>2, <3>3
  <2> QED
    BY <2>1, <2>2, <2>3
<1>9. DOMAIN R = 1 .. b + (k + l) /\ DOMAIN P = 1 .. b + l
  BY <1>4, <1>6
<1>10. Pending = P /\ Pending' = R
  BY <1>1, <1>3
<1> QED
  BY <1>8, <1>9, <1>10

(* A step of the collector keeps Finished true, and last unless it repeats *)
(* messages.                                                               *)
LEMMA WordsMove ==
  ASSUME TypeOK, CollectorTypeOK', FinishedWasSaid, SaidLast, UNCHANGED chain,
         Quiet \/ Adds \/ Loses \/ Repeats
  PROVE  FinishedWasSaid' /\ SaidLast'
<1>1. /\ CollectorTypeOK
      /\ Pending \in Seq(Sent) /\ Pending' \in Seq(Sent)
  BY PendingType, PendingTypeNext DEF TypeOK
<1>2. PICK P, R : P = Pending /\ R = Pending'
  OBVIOUS
<1>3. PICK h \in Nat : h = Len(Pending) /\ DOMAIN P = 1 .. h
  BY <1>1, <1>2
<1> DEFINE Ended(i) == \E k \in DOMAIN chain[i] : chain[i][k].finished
           Whole(i) == Len(chain[i]) <= 1 /\ repeats.messages = 0
<1>4. /\ \A i \in RunnerIDs : data[i].Finished => Ended(i)
      /\ \A i \in RunnerIDs : \A j \in DOMAIN P : P[j].id = i /\ P[j].fin => Ended(i)
  BY <1>2 DEF FinishedWasSaid, Index
<1>5. \A i \in RunnerIDs : Whole(i) =>
        /\ data[i].Finished => \A j \in DOMAIN P : P[j].id # i
        /\ \A a, b \in DOMAIN P : P[a].id = i /\ P[a].fin /\ a < b => P[b].id # i
  BY <1>2 DEF SaidLast
<1>6. SUFFICES
        /\ \A i \in RunnerIDs : data'[i].Finished => Ended(i)
        /\ \A i \in RunnerIDs : \A j \in DOMAIN R : R[j].id = i /\ R[j].fin => Ended(i)
        /\ \A i \in RunnerIDs : Len(chain[i]) <= 1 /\ repeats'.messages = 0 =>
             /\ data'[i].Finished => \A j \in DOMAIN R : R[j].id # i
             /\ \A a, b \in DOMAIN R :
                  R[a].id = i /\ R[a].fin /\ a < b => R[b].id # i
  BY <1>2 DEF FinishedWasSaid, SaidLast, Index
<1> HIDE DEF Ended
<1>7. CASE Quiet
  BY <1>2, <1>4, <1>5, <1>7 DEF Quiet
<1>8. CASE Adds
  <2>1. /\ h >= 1 /\ Head(P) = P[1] /\ Head(P) \in Sent
        /\ DOMAIN R = 1 .. h - 1
        /\ \A j \in 1 .. h - 1 : R[j] = P[j + 1]
    BY <1>1, <1>2, <1>3, <1>8, AddsLeaves
  <2>2. /\ data' = [data EXCEPT ![P[1].id] = AddResult(@, P[1])]
        /\ repeats' = repeats
    BY <1>2, <1>8, <2>1 DEF Adds
  <2>3. P[1].id \in RunnerIDs /\ 1 \in DOMAIN P
    BY <1>3, <2>1 DEF Sent, Messages
  <2>4. \A i \in RunnerIDs :
          data'[i].Finished => \/ data[i].Finished /\ P[1].id # i
                               \/ P[1].id = i /\ P[1].fin
    <3>1. PICK m : m = P[1]
      OBVIOUS
    <3>2. /\ data \in [RunnerIDs -> [TotalReqs : Nat, Finished : BOOLEAN]]
          /\ data' = [data EXCEPT ![m.id] = AddResult(@, m)]
          /\ m.id \in RunnerIDs
      BY <1>1, <2>2, <2>3, <3>1 DEF CollectorTypeOK
    <3>3. AddResult(data[m.id], m).Finished = m.fin
      BY DEF AddResult
    <3>4. data'[m.id].Finished = m.fin
      BY <3>2, <3>3
    <3>5. \A i \in RunnerIDs : i # m.id => data'[i] = data[i]
      BY <3>2
    <3> QED
      BY <3>1, <3>4, <3>5
  <2>5. \A j \in DOMAIN R : j + 1 \in DOMAIN P /\ 1 < j + 1 /\ R[j] = P[j + 1]
    BY <1>3, <2>1
  <2>6. \A i \in RunnerIDs : data'[i].Finished => Ended(i)
    BY <1>4, <2>3, <2>4
  <2>7. \A i \in RunnerIDs : \A j \in DOMAIN R : R[j].id = i /\ R[j].fin => Ended(i)
    BY <1>4, <2>5
  <2>8. ASSUME NEW i \in RunnerIDs, Whole(i)
        PROVE  /\ data'[i].Finished => \A j \in DOMAIN R : R[j].id # i
               /\ \A a, b \in DOMAIN R :
                    R[a].id = i /\ R[a].fin /\ a < b => R[b].id # i
    <3>1. /\ data[i].Finished => \A j \in DOMAIN P : P[j].id # i
          /\ \A a, b \in DOMAIN P : P[a].id = i /\ P[a].fin /\ a < b => P[b].id # i
      BY <1>5, <2>8
    <3>2. data'[i].Finished => \A j \in DOMAIN R : R[j].id # i
      BY <2>3, <2>4, <2>5, <3>1
    <3>3. \A a, b \in DOMAIN R : a < b => a + 1 < b + 1
      BY <2>1
    <3> QED
      BY <2>5, <3>1, <3>2, <3>3
  <2> QED
    BY <2>2, <2>6, <2>7, <2>8
<1>9. CASE Loses
  <2>1. PICK c \in Nat :
          /\ c <= h /\ DOMAIN R = 1 .. h - c
          /\ \A j \in 1 .. h - c : R[j] = P[c + j]
    BY <1>1, <1>2, <1>3, <1>9, LosesLeaves
  <2>2. data' = data /\ repeats' = repeats
    BY <1>9 DEF Loses
  <2>3. \A j \in DOMAIN R : c + j \in DOMAIN P /\ R[j] = P[c + j]
    BY <1>3, <2>1
  <2>4. \A a, b \in DOMAIN R : a < b => c + a < c + b
    BY <2>1
  <2>5. \A i \in RunnerIDs : \A j \in DOMAIN R : R[j].id = i /\ R[j].fin => Ended(i)
    BY <1>4, <2>3
  <2>6. ASSUME NEW i \in RunnerIDs, Whole(i)
        PROVE  /\ data[i].Finished => \A j \in DOMAIN R : R[j].id # i
               /\ \A a, b \in DOMAIN R :
                    R[a].id = i /\ R[a].fin /\ a < b => R[b].id # i
    <3>1. /\ data[i].Finished => \A j \in DOMAIN P : P[j].id # i
          /\ \A a, b \in DOMAIN P : P[a].id = i /\ P[a].fin /\ a < b => P[b].id # i
      BY <1>5, <2>6
    <3> QED
      BY <2>3, <2>4, <3>1
  <2> QED
    BY <1>4, <2>2, <2>5, <2>6
<1>10. CASE Repeats
  <2>1. data' = data /\ repeats'.messages > 0
    BY <1>10 DEF Repeats
  <2>2. \A j \in DOMAIN R : \E a \in DOMAIN P : R[j] = P[a]
    BY <1>1, <1>2, <1>10, RepeatsLeaves
  <2>3. repeats'.messages # 0
    BY <2>1
  <2> QED
    BY <1>4, <2>1, <2>2, <2>3
<1> QED
  BY <1>7, <1>8, <1>9, <1>10

(* A step of the collector keeps the invariant.                            *)
LEMMA CollectorKeeps ==
  ASSUME SessionInv, CollectorNext, UNCHANGED <<client, chain>>
  PROVE  SessionInv'
<1>1. TypeOK /\ CollectorTypeOK /\ BatchInHand /\ FinishedWasSaid /\ SaidLast
  BY DEF SessionInv, TypeOK
<1>2. CollectorTypeOK' /\ BatchInHand' /\ (Quiet \/ Adds \/ Loses \/ Repeats)
  BY <1>1, CollectorStep
<1>3. TypeOK'
  BY <1>1, <1>2 DEF TypeOK
<1>4. FinishedWasSaid' /\ SaidLast'
  BY <1>1, <1>2, WordsMove
<1>5. ReportsAccountedFor'
  <2>1. \A i \in RunnerIDs : Account(i)
    BY <1>1, AccountsAre DEF SessionInv
  <2>2. \A i \in RunnerIDs : Account(i)'
    BY <1>1, <1>2, <2>1, AccountMoves
  <2> QED
    BY <1>2, <2>2, AccountsAreNext
<1>6. \A i : TotalCounted(i)' = TotalCounted(i)
  BY Zenon DEF TotalCounted, Index
<1>7. OneRuns'
  BY DEF SessionInv, OneRuns, Index
<1>8. ReportsAreTrue'
  BY DEF SessionInv, ReportsAreTrue, Index
<1>9. CountsAreHandedOn' /\ ChainStaysWithinLimit'
  BY <1>6 DEF SessionInv, CountsAreHandedOn, ChainStaysWithinLimit, Index
<1> QED
  BY <1>2, <1>3, <1>4, <1>5, <1>7, <1>8, <1>9 DEF SessionInv

-----------------------------------------------------------------------------
(* The invariant holds at the start,                                       *)
LEMMA SessionInit ==
  ASSUME Init
  PROVE  SessionInv
<1>1. /\ queue = <<>> /\ batch = <<>> /\ pc = "receive"
      /\ data = [id \in RunnerIDs |-> [TotalReqs |-> 0, Finished |-> FALSE]]
      /\ dropped = [id \in RunnerIDs |-> 0]
      /\ repeats = [messages |-> 0, requests |-> [id \in RunnerIDs |-> 0]]
      /\ client = [id \in RunnerIDs |-> "invoking"]
      /\ chain = [id \in RunnerIDs |-> <<>>]
  BY DEF Init, CollectorInit
<1>2. TypeOK
  <2>1. queue \in Seq(Messages(Nat)) /\ batch \in Seq(Messages(Nat))
    BY <1>1
  <2>2. CollectorTypeOK
    BY <1>1, <2>1, CollectorAssumption DEF Init, CollectorInit, CollectorTypeOK
  <2>3. \A id \in RunnerIDs : chain[id] \in Seq(Processes)
    BY <1>1
  <2> QED
    BY <1>1, <2>2, <2>3 DEF TypeOK
<1>3. PICK e : e = <<>>
  OBVIOUS
<1>4. e \in Seq(Processes) /\ Len(e) = 0 /\ DOMAIN e = {} /\ e \in Seq(Sent)
  BY <1>3
<1>5. \A id \in RunnerIDs : chain[id] = e
  BY <1>1, <1>3
<1>6. Pending = e
  <2>1. <<>> \o e = e
    BY <1>4, ConcatEmptySeq
  <2> QED
    BY <1>1, <1>3, <2>1 DEF Pending
<1>7. SumFunction(Counts(e)) = 0 /\ SumFunction(Sends(e)) = 0
  <2>1. /\ SumFunction(Counts(e)) = SumFunctionOnSet(Counts(e), 1 .. Len(e))
        /\ SumFunction(Sends(e)) = SumFunctionOnSet(Sends(e), 1 .. Len(e))
    BY <1>4, ChainSums
  <2>2. 1 .. Len(e) = {}
    BY <1>4
  <2> QED
    BY Zenon, <2>1, <2>2, SumOfEmpty
<1>8. \A id \in RunnerIDs : TotalCounted(id) = 0 /\ TotalSent(id) = 0
  <2> TAKE id \in RunnerIDs
  <2>1. /\ TotalCounted(id) = SumFunction(Counts(chain[id]))
        /\ TotalSent(id) = SumFunction(Sends(chain[id]))
    BY TotalsAreSums
  <2> QED
    BY <1>5, <1>7, <2>1
<1>9. BatchInHand
  BY <1>1 DEF BatchInHand
<1>10. OneRuns
  BY <1>1, <1>3, <1>4, <1>5 DEF OneRuns, Index
<1>11. ReportsAreTrue
  BY <1>4, <1>5 DEF ReportsAreTrue, Index
<1>12. CountsAreHandedOn
  BY <1>3, <1>4, <1>5 DEF CountsAreHandedOn, Index
<1>13. ChainStaysWithinLimit
  <2>1. \A id \in RunnerIDs : 0 <= Remaining(Plan[id])
    BY SessionAssumption DEF Args, Remaining
  <2> QED
    BY <1>8, <2>1 DEF ChainStaysWithinLimit
<1>14. ReportsAccountedFor
  <2>1. \A id \in RunnerIDs : Carried(id, e) = 0
    BY <1>4, CarriedNone
  <2>2. \A id \in RunnerIDs : Account(id)
    BY <1>1, <1>6, <1>8, <2>1 DEF Account, Balanced
  <2> QED
    BY <1>2, <2>2, AccountsAre
<1>15. FinishedWasSaid
  BY <1>1, <1>4, <1>6 DEF FinishedWasSaid
<1>16. SaidLast
  BY <1>1, <1>4, <1>6 DEF SaidLast
<1> QED
  BY <1>2, <1>9, <1>10, <1>11, <1>12, <1>13, <1>14, <1>15, <1>16 DEF SessionInv

(* and over steps that change nothing.                                     *)
LEMMA StutterKeeps ==
  ASSUME SessionInv, UNCHANGED vars
  PROVE  SessionInv'
<1>1. \A i : TotalCounted(i)' = TotalCounted(i) /\ TotalSent(i)' = TotalSent(i)
  BY Zenon DEF vars, TotalCounted, TotalSent, Index
<1>2. TypeOK' /\ BatchInHand'
  BY DEF SessionInv, vars, collectorVars, TypeOK, CollectorTypeOK, BatchInHand
<1>3. Pending' = Pending /\ \A i : InHand(i)' = InHand(i)
  BY DEF vars, collectorVars, Pending, InHand
<1>4. OneRuns' /\ ReportsAreTrue'
  BY DEF SessionInv, vars, OneRuns, ReportsAreTrue, Index
<1>5. CountsAreHandedOn' /\ ChainStaysWithinLimit'
  BY <1>1 DEF SessionInv, vars, CountsAreHandedOn, ChainStaysWithinLimit, Index
<1>6. ReportsAccountedFor'
  BY <1>1, <1>3 DEF SessionInv, vars, collectorVars, ReportsAccountedFor
<1>7. FinishedWasSaid' /\ SaidLast'
  BY <1>3 DEF SessionInv, vars, collectorVars, FinishedWasSaid, SaidLast, Index
<1> QED
  BY <1>2, <1>4, <1>5, <1>6, <1>7 DEF SessionInv

(* The inductive invariant of a session.                                   *)
THEOREM SessionInvariant == Spec => []SessionInv
<1>1. Init => SessionInv
  BY SessionInit
<1>2. SessionInv /\ [Next]_vars => SessionInv'
  <2> SUFFICES ASSUME SessionInv, [Next]_vars PROVE SessionInv'
    OBVIOUS
  <2>1. ASSUME NEW id \in RunnerIDs, InvokeLambda(id) PROVE SessionInv'
    BY <2>1, InvokeKeeps
  <2>2. ASSUME NEW id \in RunnerIDs, NEW k \in Index(id), ProcessStep(id, k)
        PROVE  SessionInv'
    BY <2>2, ProcessKeeps
  <2>3. CASE CollectorNext /\ UNCHANGED <<client, chain>>
    BY <2>3, CollectorKeeps
  <2>4. CASE UNCHANGED vars
    BY <2>4, StutterKeeps
  <2> QED
    BY <2>1, <2>2, <2>3, <2>4 DEF Next
<1> QED
  BY <1>1, <1>2, PTL DEF Spec

(* Type correctness.                                                       *)
THEOREM SessionTypes == Spec => []TypeOK
BY SessionInvariant, PTL DEF SessionInv

(* However often a runner's work changes hands, the processes of its chain *)
(* together never count more than it was given.                            *)
THEOREM LimitIsKept == Spec => []ChainStaysWithinLimit
BY SessionInvariant, PTL DEF SessionInv

(* Whatever a process has reported is added, on its way, or known to be    *)
(* dropped or repeated; the sums are over chains and queues of any length. *)
THEOREM NoReportVanishes == Spec => []ReportsAccountedFor
BY SessionInvariant, PTL DEF SessionInv

(* A runner without successor that is shown as finished is complete.       *)
LEMMA CompleteWhenFinished ==
  ASSUME SessionInv
  PROVE  FinishedRunnerIsComplete
<1>1. TypeOK
  BY DEF SessionInv
<1>2. SUFFICES ASSUME NEW id \in RunnerIDs, data[id].Finished, Len(chain[id]) = 1
               PROVE  LET p == chain[id][1] IN
                      /\ data[id].TotalReqs + dropped[id] + InHand(id)
                           + Carried(id, queue)
                           = p.counted + repeats.requests[id]
                      /\ \/ Limited(Plan[id]) /\ p.counted = Remaining(Plan[id])
                         \/ TimeIsOver(Plan[id])
  BY DEF FinishedRunnerIsComplete
<1>3. PICK c, p : c = chain[id] /\ p = c[1]
  OBVIOUS
<1>4. /\ c \in Seq(Processes) /\ Len(c) = 1 /\ DOMAIN c = 1 .. 1 /\ c # <<>>
      /\ p \in Processes
  <2>1. c \in Seq(Processes)
    BY <1>1, <1>3 DEF TypeOK
  <2>2. Len(c) = 1
    BY <1>2, <1>3
  <2> QED
    BY <1>3, <2>1, <2>2
<1>5. PICK k \in DOMAIN c : c[k].finished
  BY <1>2, <1>3 DEF SessionInv, FinishedWasSaid, Index
<1>6. p.finished
  <2>1. k = 1
    BY <1>4
  <2> QED
    BY <1>3, <1>5, <2>1
<1>7. /\ p.verdict /\ p.sent = p.counted
      /\ \/ Limited(p.given) /\ p.counted = Remaining(p.given)
         \/ TimeIsOver(p.given)
  <2>1. 1 \in DOMAIN c
    BY <1>4
  <2> QED
    BY <1>3, <1>6, <2>1 DEF SessionInv, ReportsAreTrue, Index
<1>8. p.given = Plan[id]
  BY <1>3, <1>4 DEF SessionInv, OneRuns
<1>9. TotalSent(id) = p.sent
  <2>1. PICK f : f = Sends(c)
    OBVIOUS
  <2>2. /\ TotalSent(id) = SumFunctionOnSet(f, 1 .. 0 + 1)
        /\ \A i \in 1 .. 0 + 1 : f[i] \in Int
        /\ f[0 + 1] = p.sent /\ p.sent \in Nat
    <3>1. TotalSent(id) = SumFunction(f)
      BY <1>3, <2>1, TotalsAreSums
    <3>2. /\ SumFunction(f) = SumFunctionOnSet(f, 1 .. Len(c))
          /\ \A i \in 1 .. Len(c) : f[i] = c[i].sent /\ c[i].sent \in Nat
      BY <1>4, <2>1, ChainSums
    <3>3. 0 + 1 = 1 /\ 1 \in 1 .. 1
      OBVIOUS
    <3> QED
      BY <1>3, <1>4, <3>1, <3>2, <3>3
  <2>3. SumFunctionOnSet(f, 1 .. 0 + 1) = SumFunctionOnSet(f, 1 .. 0) + f[0 + 1]
    BY <2>2, SumLast
  <2>4. SumFunctionOnSet(f, 1 .. 0) = 0
    <3>1. 1 .. 0 = {}
      OBVIOUS
    <3> QED
      BY Zenon, <3>1, SumOfEmpty
  <2> QED
    BY <2>2, <2>3, <2>4
<1>10. data[id].TotalReqs + InHand(id) + Carried(id, queue) + dropped[id]
         = p.counted + repeats.requests[id]
  BY <1>7, <1>9 DEF SessionInv, ReportsAccountedFor
<1>11. /\ data[id].TotalReqs \in Int /\ dropped[id] \in Int
       /\ InHand(id) \in Int /\ Carried(id, queue) \in Int
  BY <1>1, PendingType DEF TypeOK, CollectorTypeOK, Shares
<1>12. data[id].TotalReqs + dropped[id] + InHand(id) + Carried(id, queue)
         = data[id].TotalReqs + InHand(id) + Carried(id, queue) + dropped[id]
  BY <1>11
<1> QED
  BY <1>3, <1>7, <1>8, <1>10, <1>12

(* A runner without successor that is shown as finished has all its counts *)
(* in the results, apart from those known to be on the way or lost.        *)
THEOREM FinishedIsComplete == Spec => []FinishedRunnerIsComplete
BY SessionInvariant, CompleteWhenFinished, PTL

(* Only a process with a successor, or a repeated message, takes Finished  *)
(* back.                                                                   *)
THEOREM FinishedIsTakenBackByParents == Spec => UnfinishedOnlyByParent
<1> DEFINE Back == \A id \in RunnerIDs :
                     data[id].Finished /\ ~data'[id].Finished =>
                       Len(chain[id]) > 1 \/ repeats.messages > 0
<1>1. SessionInv /\ [Next]_vars => [Back]_vars
  <2> SUFFICES ASSUME SessionInv, Next, NEW id \in RunnerIDs,
                      data[id].Finished, ~data'[id].Finished,
                      ~(Len(chain[id]) > 1), ~(repeats.messages > 0)
               PROVE  FALSE
    OBVIOUS
  <2>1. TypeOK /\ CollectorTypeOK /\ BatchInHand /\ chain[id] \in Seq(Processes)
    BY DEF SessionInv, TypeOK
  <2>2. Len(chain[id]) <= 1 /\ repeats.messages = 0
    BY <2>1 DEF CollectorTypeOK
  <2>3. \A j \in DOMAIN Pending : Pending[j].id # id
    BY <2>2 DEF SessionInv, SaidLast
  <2>4. data' # data
    OBVIOUS
  <2>5. CollectorNext
    <3>1. ASSUME NEW i \in RunnerIDs, InvokeLambda(i) PROVE data' = data
      BY <3>1 DEF InvokeLambda, collectorVars
    <3>2. ASSUME NEW i \in RunnerIDs, NEW k \in Index(i), ProcessStep(i, k)
          PROVE  data' = data
      BY <3>2 DEF ProcessStep, Count, SendReport, LeaveLoop, HandOver, SendLast, Die,
                  Report, SendResult, collectorVars
    <3> QED
      BY <2>4, <3>1, <3>2 DEF Next
  <2>6. Adds
    BY <2>1, <2>4, <2>5, CollectorStep DEF Quiet, Loses, Repeats
  <2>7. PICK h \in Nat : h = Len(Pending) /\ DOMAIN Pending = 1 .. h
    BY <2>1, PendingType
  <2>8. h >= 1 /\ Head(Pending) = Pending[1]
    BY <2>1, <2>6, <2>7, AddsLeaves
  <2>9. Head(Pending).id # id
    BY <2>3, <2>7, <2>8
  <2>10. data'[id] = data[id]
    BY <2>1, <2>6, <2>9 DEF Adds, CollectorTypeOK
  <2> QED
    BY <2>10
<1> QED
  BY <1>1, SessionInvariant, PTL DEF Spec, UnfinishedOnlyByParent

(* RunnerContract's operators on flags are those of Session.               *)
LEMMA ContractOperators ==
  ASSUME NEW id, NEW k, NEW g
  PROVE  /\ Contract(id, k)!Limited(g) = Limited(g)
         /\ Contract(id, k)!Remaining(g) = Remaining(g)
         /\ Contract(id, k)!TimeLeft(g) = TimeLeft(g)
         /\ Contract(id, k)!TimeIsOver(g) = TimeIsOver(g)
<1>1. Contract(id, k)!Limited(g) = Limited(g)
  BY Zenon DEF Contract!Limited, Limited
<1>2. Contract(id, k)!Remaining(g) = Remaining(g)
  BY Zenon DEF Contract!Remaining, Remaining
<1>3. Contract(id, k)!LambdaExecTimeoutSeconds(g) = LambdaExecTimeoutSeconds(g)
  BY Zenon DEF Contract!LambdaExecTimeoutSeconds, LambdaExecTimeoutSeconds
<1>4. Contract(id, k)!TimeLeft(g) = TimeLeft(g)
  BY Zenon, <1>3 DEF Contract!TimeLeft, TimeLeft
<1>5. Contract(id, k)!TimeIsOver(g) = TimeIsOver(g)
  BY Zenon, <1>4 DEF Contract!TimeIsOver, TimeIsOver
<1> QED
  BY <1>1, <1>2, <1>4, <1>5

(* A change of a running process is a step of the contract.                *)
LEMMA MovedByContract ==
  ASSUME SessionInv, NEW id \in RunnerIDs, NEW k \in Index(id),
         NEW p, p = chain[id][k], NEW q, q = chain'[id][k],
         Moved(p, q) \/ HandedOver(p, q)
  PROVE  Contract(id, k)!Next
<1>1. /\ p \in Processes
      /\ p.state \in {"running", "forking"} => p.child = NoChild
  BY DEF SessionInv, ReportsAreTrue, TypeOK, Index
<1>2. CASE Counted(p, q)
  BY <1>1, <1>2, ContractOperators
  DEF Counted, Processes, Contract!Next, Contract!Count
<1>3. CASE Reported(p, q)
  BY <1>1, <1>3 DEF Reported, Processes, Contract!Next, Contract!Report
<1>4. CASE Done(p, q)
  BY <1>1, <1>4, ContractOperators
  DEF Done, Processes, Contract!Next, Contract!Complete, Contract!TestTimeOver
<1>5. CASE Stopped(p, q)
  BY <1>1, <1>5, ContractOperators
  DEF Stopped, Processes, Contract!Next, Contract!OwnTimeOver
<1>6. CASE Alone(p, q)
  BY <1>1, <1>6 DEF Alone, Processes, Contract!Next, Contract!HandOver
<1>7. CASE HandedOver(p, q)
  <2>1. Contract(id, k)!Successor = Successor(p)
    BY Zenon, ContractOperators DEF Successor, Contract!Successor
  <2> QED
    BY <1>1, <1>7, <2>1
    DEF HandedOver, Processes, Contract!Next, Contract!HandOver
<1>8. CASE Closed(p, q)
  BY <1>1, <1>8 DEF Closed, Processes, Contract!Next, Contract!LastReport
<1>9. CASE Died(p, q)
  BY <1>1, <1>9 DEF Died, Processes, Contract!Next, Contract!Die
<1> QED
  BY <1>2, <1>3, <1>4, <1>5, <1>6, <1>7, <1>8, <1>9 DEF Moved

(* A process starts as the contract's does.                                *)
LEMMA StartedByContract ==
  ASSUME NEW id, NEW k, NEW g \in Args({}), chain'[id][k] = Process(g)
  PROVE  Contract(id, k)!Init'
<1>1. PICK q : q = chain'[id][k]
  OBVIOUS
<1>2. q = Process(g)
  BY <1>1
<1>3. /\ q.given = g /\ q.state = "running" /\ q.counted = 0 /\ q.sent = 0
      /\ q.verdict = FALSE /\ q.finished = FALSE /\ q.child = NoChild
  BY <1>2 DEF Process
<1> QED
  BY <1>1, <1>3 DEF Contract!Init

(* Every process of a chain, from its start on, does only what             *)
(* RunnerContract promises.                                                *)
THEOREM ProcessesKeepTheirContract == Spec => ProcessesKeepContract
<1> DEFINE Keeps(id, k) == IF k \in Index(id)
                           THEN Contract(id, k)!Next \/ UNCHANGED chain[id][k]
                           ELSE Contract(id, k)!Init'
           Kept1 == \A id \in RunnerIDs : \A k \in DOMAIN chain'[id] : Keeps(id, k)
<1>1. SessionInv /\ [Next]_vars => [Kept1]_vars
  <2> SUFFICES ASSUME SessionInv, Next PROVE Kept1
    OBVIOUS
  <2>1. TypeOK /\ chain \in [RunnerIDs -> Seq(Processes)]
    BY DEF SessionInv, TypeOK
  <2>2. ASSUME NEW i \in RunnerIDs, chain'[i] = chain[i],
               NEW j \in DOMAIN chain'[i]
        PROVE  Keeps(i, j)
    BY <2>2 DEF Index
  <2>3. CASE chain' = chain
    BY <2>2, <2>3
  <2>4. ASSUME NEW id \in RunnerIDs, InvokeLambda(id)
        PROVE  Kept1
    <3>1. CASE chain' = chain
      BY <2>3, <3>1
    <3>2. CASE chain' = [chain EXCEPT ![id] = <<Process(Plan[id])>>]
      <4>1. chain[id] = <<>>
        BY <2>4 DEF SessionInv, OneRuns, InvokeLambda
      <4>2. /\ chain'[id] = <<Process(Plan[id])>>
            /\ \A i \in RunnerIDs : i # id => chain'[i] = chain[i]
        BY <2>1, <3>2
      <4>3. ASSUME NEW j \in DOMAIN chain'[id] PROVE Keeps(id, j)
        <5>1. j \notin Index(id) /\ chain'[id][j] = Process(Plan[id])
          BY <4>1, <4>2, <4>3 DEF Index
        <5>2. Plan[id] \in Args({})
          BY SessionAssumption
        <5>3. Contract(id, j)!Init'
          BY <5>1, <5>2, StartedByContract
        <5> QED
          BY <5>1, <5>3
      <4> HIDE DEF Keeps
      <4> QED
        BY <2>2, <4>2, <4>3
    <3> QED
      BY <2>4, <3>1, <3>2 DEF InvokeLambda
  <2>5. ASSUME NEW id \in RunnerIDs, NEW k \in Index(id), ProcessStep(id, k)
        PROVE  Kept1
    <3>1. PICK p : p = chain[id][k]
      OBVIOUS
    <3>2. PICK q \in Processes, d \in Seq(Processes) : Change(id, k, p, q, d)
      BY <2>1, <2>5, <3>1, ProcessChange
    <3>3. /\ chain'[id] = d /\ p \in Processes
          /\ \A i \in RunnerIDs : i # id => chain'[i] = chain[i]
      BY <2>1, <3>1, <3>2, ChangedChains
    <3>4. PICK n \in Nat : n = Len(chain[id]) /\ Index(id) = 1 .. n
      BY <2>1 DEF Index
    <3>5. PICK l \in Nat : l = Len(d) /\ DOMAIN d = 1 .. l
      OBVIOUS
    <3>6. \A j \in 1 .. n : d[j] = IF j = k THEN q ELSE chain[id][j]
      BY <3>2, <3>4 DEF Change
    <3>7. Sized(p, q, d, n, l)
      BY <3>2, <3>4, <3>5 DEF Change
    <3>8. ASSUME NEW j \in DOMAIN chain'[id] PROVE Keeps(id, j)
      <4>1. CASE j \in 1 .. n /\ j # k
        <5>1. chain'[id][j] = chain[id][j] /\ j \in Index(id)
          BY <3>3, <3>4, <3>6, <4>1
        <5> QED
          BY <5>1
      <4>2. CASE j = k
        <5>1. chain'[id][k] = q
          BY <2>5, <3>3, <3>4, <3>6
        <5>2. Moved(p, q) \/ HandedOver(p, q)
          BY <3>7 DEF Sized
        <5>3. Contract(id, k)!Next
          BY <2>5, <3>1, <5>1, <5>2, MovedByContract
        <5> QED
          BY <2>5, <4>2, <5>3
      <4>3. CASE j \notin 1 .. n
        <5>1. j = n + 1 /\ d[n + 1] = Process(Successor(p))
          BY <3>3, <3>5, <3>7, <3>8, <4>3 DEF Sized
        <5>2. Successor(p) \in Args({})
          BY <3>3, ArgsOfSuccessor
        <5>3. Contract(id, j)!Init'
          BY <3>3, <5>1, <5>2, StartedByContract
        <5> QED
          BY <3>4, <4>3, <5>3
      <4> QED
        BY <4>1, <4>2, <4>3
    <3> HIDE DEF Keeps
    <3> QED
      BY <2>2, <3>3, <3>8
  <2> HIDE DEF Kept1
  <2> QED
    BY <2>3, <2>4, <2>5 DEF Next
<1> QED
  BY <1>1, SessionInvariant, PTL DEF Spec, ProcessesKeepContract
=============================================================================
