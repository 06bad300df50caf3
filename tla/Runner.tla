------------------------------- MODULE Runner -------------------------------
(***************************************************************************)
(* One runner process: goadLambda.runLoadTest and the goroutines it        *)
(* starts (lambda/lambda.go).                                              *)
(*                                                                         *)
(* Workers take jobs from a closed, pre-filled channel, fetch, and hand    *)
(* each result over an unbuffered channel to the main goroutine.  Main     *)
(* counts results, reports on a ticker, and leaves its select loop when    *)
(* either a wg.Wait goroutine answers (all workers are gone) or the timer  *)
(* fires; in the second case it may fork a successor.  Then it sends the   *)
(* final report.                                                           *)
(***************************************************************************)
EXTENDS RunnerArgs, FiniteSets

CONSTANTS
  ConcurrencyCount,    \* --concurrency
  MaxRequestCounts,    \* the values of --requests to start from
  CompletedCounts,     \* the values of --completed-count
  StresstestTimeouts,  \* the values of --execution-time
  Headers,             \* the header lines a user may ask for
  FetchBound           \* exploration bound: results counted when unlimited

ASSUME RunnerAssumption ==
  /\ ConcurrencyCount \in Int
  /\ MaxRequestCounts \subseteq Int
  /\ CompletedCounts \subseteq Nat
  /\ StresstestTimeouts \subseteq Int
  /\ FetchBound \in Nat

VARIABLES
  given,      \* the command line this process was started with
  settings,   \* l.Settings, updated while it runs
  phase,      \* where the main goroutine is
  worker,     \* per worker: where it is, or the result it is handing over
  jobs,       \* tokens left in the jobs channel
  waiter,     \* the wg.Wait goroutine of the current select evaluation
  tick,       \* a tick is pending in ticker.C
  quit,       \* the timer's value is pending in quit.C
  timedOut, finished, \* locals of runLoadTest
  metrics,    \* l.Metrics since the last send
  reported,   \* what the reports sent so far add up to at the receiver
  child       \* command line of the forked runner, or NoChild

vars == <<given, settings, phase, worker, jobs, waiter, tick, quit,
          timedOut, finished, metrics, reported, child>>

-----------------------------------------------------------------------------
(* setDefaultConcurrencyCount()                                            *)
NumWorkers == IF ConcurrencyCount < 1 THEN 1 ELSE ConcurrencyCount
Workers == 1 .. NumWorkers

(* What fetch() can return, as far as addRequest() distinguishes it.       *)
Outcomes == {"ok", "timeout", "connection-error"}

Busy == {"fetching"} \cup Outcomes
AllExited == \A w \in Workers : worker[w] = "exited"
BusyWorkers == {w \in Workers : worker[w] \in Busy}

Loading == phase \in {"spawning", "select"}
Alive == phase \notin {"exited", "dead"}

NoChild == [none |-> TRUE]

(* resetAndKeepTotalReqs().  RequestCount stands for both RequestCount and *)
(* requestCountSinceLastSend, which are incremented and reset together.    *)
NoMetrics ==
  [RequestCount |-> 0, TimedOut |-> 0, ConnectionErrors |-> 0,
   FatalError |-> FALSE]

(* addRequest() and the failure verdict of aggregate(), which is computed  *)
(* after the counts of this result.                                        *)
AddRequest(m, o) ==
  LET n == m.RequestCount + 1
      t == m.TimedOut + (IF o = "timeout" THEN 1 ELSE 0)
      c == m.ConnectionErrors + (IF o = "connection-error" THEN 1 ELSE 0)
  IN  [RequestCount |-> n, TimedOut |-> t, ConnectionErrors |-> c,
       FatalError |-> t + c > n \div 2]

(* The receiver's view of a report: AddResult() of package result adds the *)
(* counts and overwrites Finished.                                         *)
Received(r, m, fin) ==
  [TotalReqs            |-> r.TotalReqs + m.RequestCount,
   TotalTimedOut        |-> r.TotalTimedOut + m.TimedOut,
   TotalConnectionError |-> r.TotalConnectionError + m.ConnectionErrors,
   Finished             |-> fin]

Counted == settings.CompletedRequestCount - given.CompletedRequestCount

-----------------------------------------------------------------------------
(* The command lines to start from.  A count of completed requests comes   *)
(* from a parent that counted them, so it never exceeds a positive         *)
(* --requests.                                                             *)
StartArgs ==
  {a \in [MaxRequestCount       : MaxRequestCounts,
          CompletedRequestCount : CompletedCounts,
          StresstestTimeout     : StresstestTimeouts,
          RequestHeaders        : SUBSET Headers] :
     Limited(a) => a.CompletedRequestCount <= a.MaxRequestCount}

(* newLambda(): settings from the flags, the job queue filled and closed.  *)
Init ==
  /\ given \in StartArgs
  /\ settings = given
  /\ phase = "spawning"
  /\ worker = [w \in Workers |-> "unborn"]
  /\ jobs = Remaining(given)
  /\ waiter = "waiting"
  /\ tick = FALSE
  /\ quit = FALSE
  /\ timedOut = FALSE
  /\ finished = FALSE
  /\ metrics = NoMetrics
  /\ reported = [TotalReqs |-> 0, TotalTimedOut |-> 0,
                 TotalConnectionError |-> 0, Finished |-> FALSE]
  /\ child = NoChild

(* spawnConcurrentWorkers(): wg.Add(1) and go, one worker after the other; *)
(* workers run while the rest is still being spawned.                      *)
SpawnWorker(w) ==
  /\ phase = "spawning"
  /\ worker[w] = "unborn"
  /\ \A v \in Workers : v < w => worker[v] # "unborn"
  /\ worker' = [worker EXCEPT ![w] = "loop"]
  /\ UNCHANGED <<given, settings, phase, jobs, waiter, tick, quit, timedOut,
                 finished, metrics, reported, child>>

(* All spawned: the ticker and the timer start, the select loop begins.    *)
EnterLoop ==
  /\ phase = "spawning"
  /\ \A w \in Workers : worker[w] # "unborn"
  /\ phase' = "select"
  /\ UNCHANGED <<given, settings, worker, jobs, waiter, tick, quit, timedOut,
                 finished, metrics, reported, child>>

-----------------------------------------------------------------------------
(* work(): with a limit, a worker takes a token or, the closed channel     *)
(* being empty, leaves and calls wg.Done.  Without a limit it never looks  *)
(* at the channel; FetchBound caps what TLC explores then.                 *)
TakeJob(w) ==
  /\ Alive
  /\ worker[w] = "loop"
  /\ IF Limited(settings)
     THEN jobs > 0 /\ jobs' = jobs - 1
     ELSE Counted < FetchBound /\ UNCHANGED jobs
  /\ worker' = [worker EXCEPT ![w] = "fetching"]
  /\ UNCHANGED <<given, settings, phase, waiter, tick, quit, timedOut,
                 finished, metrics, reported, child>>

WorkerExit_ChannelOpen(w) ==
  /\ Alive
  /\ worker[w] = "loop"
  /\ Limited(settings)
  /\ jobs = 0
  /\ UNCHANGED vars

WorkerExit(w) ==
  /\ Alive
  /\ worker[w] = "loop"
  /\ Limited(settings)
  /\ jobs = 0
  /\ worker' = [worker EXCEPT ![w] = "exited"]
  /\ UNCHANGED <<given, settings, phase, jobs, waiter, tick, quit, timedOut,
                 finished, metrics, reported, child>>

(* fetch() returns; the worker now blocks on the results channel.          *)
FetchReturns(w) ==
  /\ Alive
  /\ worker[w] = "fetching"
  /\ \E o \in Outcomes : worker' = [worker EXCEPT ![w] = o]
  /\ UNCHANGED <<given, settings, phase, jobs, waiter, tick, quit, timedOut,
                 finished, metrics, reported, child>>

-----------------------------------------------------------------------------
(* case r := <-l.results: the rendezvous frees the worker in the same      *)
(* step; continue evaluates the select again, with a new wg.Wait goroutine *)
(* (the previous one is never heard again).                                *)
ReceiveResult_Lossy(w) ==
  /\ phase = "select"
  /\ worker[w] \in Outcomes
  /\ metrics' = AddRequest(metrics, worker[w])
  /\ worker' = [worker EXCEPT ![w] = "loop"]
  /\ waiter' = "waiting"
  /\ UNCHANGED <<given, settings, phase, jobs, tick, quit, timedOut, finished,
                 reported, child>>

ReceiveResult(w) ==
  /\ phase = "select"
  /\ worker[w] \in Outcomes
  /\ settings' = [settings EXCEPT !.CompletedRequestCount = @ + 1]
  /\ metrics' = AddRequest(metrics, worker[w])
  /\ worker' = [worker EXCEPT ![w] = "loop"]
  /\ waiter' = "waiting"
  /\ UNCHANGED <<given, phase, jobs, tick, quit, timedOut, finished, reported,
                 child>>

(* The ticker's channel holds one tick; later ones are dropped.            *)
Tick ==
  /\ phase = "select"
  /\ tick' = TRUE
  /\ UNCHANGED <<given, settings, phase, worker, jobs, waiter, quit, timedOut,
                 finished, metrics, reported, child>>

(* case <-ticker.C: a report if anything was counted.  A failed send ends  *)
(* the process (failOnError), otherwise the metrics are reset.             *)
OnTick_KeepsMetrics ==
  /\ phase = "select"
  /\ tick
  /\ tick' = FALSE
  /\ waiter' = "waiting"
  /\ \/ /\ metrics.RequestCount = 0
        /\ UNCHANGED <<phase, metrics, reported>>
     \/ /\ metrics.RequestCount > 0
        /\ reported' = Received(reported, metrics, FALSE)
        /\ UNCHANGED <<phase, metrics>>
  /\ UNCHANGED <<given, settings, worker, jobs, quit, timedOut, finished,
                 child>>

OnTick ==
  /\ phase = "select"
  /\ tick
  /\ tick' = FALSE
  /\ waiter' = "waiting"
  /\ \/ /\ metrics.RequestCount = 0
        /\ UNCHANGED <<phase, metrics, reported>>
     \/ /\ metrics.RequestCount > 0
        /\ reported' = Received(reported, metrics, FALSE)
        /\ metrics' = NoMetrics
        /\ UNCHANGED phase
     \/ /\ metrics.RequestCount > 0
        /\ phase' = "dead"
        /\ UNCHANGED <<metrics, reported>>
  /\ UNCHANGED <<given, settings, worker, jobs, quit, timedOut, finished,
                 child>>

(* The goroutine of the current select evaluation returns from wg.Wait and *)
(* offers its value.  Earlier ones block for ever on their own channels.   *)
WaiterReady_AnyExit ==
  /\ phase = "select"
  /\ waiter = "waiting"
  /\ \E w \in Workers : worker[w] = "exited"
  /\ waiter' = "ready"
  /\ UNCHANGED <<given, settings, phase, worker, jobs, tick, quit, timedOut,
                 finished, metrics, reported, child>>

WaiterReady ==
  /\ phase = "select"
  /\ waiter = "waiting"
  /\ AllExited
  /\ waiter' = "ready"
  /\ UNCHANGED <<given, settings, phase, worker, jobs, tick, quit, timedOut,
                 finished, metrics, reported, child>>

OnAllDone ==
  /\ phase = "select"
  /\ waiter = "ready"
  /\ finished' = TRUE
  /\ phase' = "final"
  /\ UNCHANGED <<given, settings, worker, jobs, waiter, tick, quit, timedOut,
                 metrics, reported, child>>

QuitFires ==
  /\ phase = "select"
  /\ ~quit
  /\ quit' = TRUE
  /\ UNCHANGED <<given, settings, phase, worker, jobs, waiter, tick, timedOut,
                 finished, metrics, reported, child>>

(* case <-quit.C: updateStresstestTimeout() decides whether the test is    *)
(* over; if not, a successor is forked before the final report.            *)
OnQuit_StaysInLoop ==
  /\ phase = "select"
  /\ quit
  /\ quit' = FALSE
  /\ finished' = TimeIsOver(settings)
  /\ settings' = [settings EXCEPT !.StresstestTimeout = TimeLeft(settings)]
  /\ phase' = IF TimeIsOver(settings) THEN "final" ELSE "select"
  /\ UNCHANGED <<given, worker, jobs, waiter, tick, timedOut, metrics,
                 reported, child>>

OnQuit_AlwaysFinished ==
  /\ phase = "select"
  /\ quit
  /\ quit' = FALSE
  /\ timedOut' = TRUE
  /\ finished' = TRUE
  /\ settings' = [settings EXCEPT !.StresstestTimeout = TimeLeft(settings)]
  /\ phase' = "final"
  /\ UNCHANGED <<given, worker, jobs, waiter, tick, metrics, reported, child>>

OnQuit ==
  /\ phase = "select"
  /\ quit
  /\ quit' = FALSE
  /\ timedOut' = TRUE
  /\ finished' = TimeIsOver(settings)
  /\ settings' = [settings EXCEPT !.StresstestTimeout = TimeLeft(settings)]
  /\ phase' = IF TimeIsOver(settings) THEN "final" ELSE "fork"
  /\ UNCHANGED <<given, worker, jobs, waiter, tick, metrics, reported, child>>

-----------------------------------------------------------------------------
(* forkNewLambda(): svc.Invoke is synchronous, so main waits in "invoking" *)
(* until the successor returns; an error of Invoke is printed and ignored. *)
ForkNewLambda ==
  /\ phase = "fork"
  /\ \/ child' = ForkArgs(settings) /\ phase' = "invoking"
     \/ phase' = "final" /\ UNCHANGED child
  /\ UNCHANGED <<given, settings, worker, jobs, waiter, tick, quit, timedOut,
                 finished, metrics, reported>>

InvokeReturns ==
  /\ phase = "invoking"
  /\ phase' = "final"
  /\ UNCHANGED <<given, settings, worker, jobs, waiter, tick, quit, timedOut,
                 finished, metrics, reported, child>>

(* The last report carries the verdict; main returns and the process ends, *)
(* with whatever its workers still held.                                   *)
SendFinal ==
  /\ phase = "final"
  /\ \/ /\ reported' = Received(reported, metrics, finished)
        /\ metrics' = NoMetrics
        /\ phase' = "exited"
     \/ /\ phase' = "dead"
        /\ UNCHANGED <<metrics, reported>>
  /\ UNCHANGED <<given, settings, worker, jobs, waiter, tick, quit, timedOut,
                 finished, child>>

(* The platform ends the process (300 s limit of the function, docker      *)
(* stop), or a goroutine panics (prepareHttpRequest on a bad URL).         *)
Killed ==
  /\ Alive
  /\ phase' = "dead"
  /\ UNCHANGED <<given, settings, worker, jobs, waiter, tick, quit, timedOut,
                 finished, metrics, reported, child>>

WorkerStep(w) == TakeJob(w) \/ WorkerExit(w) \/ FetchReturns(w)

MainStep ==
  \/ \E w \in Workers : SpawnWorker(w) \/ ReceiveResult(w)
  \/ EnterLoop \/ OnTick \/ OnAllDone \/ OnQuit
  \/ ForkNewLambda \/ InvokeReturns \/ SendFinal

Next ==
  \/ MainStep
  \/ \E w \in Workers : WorkerStep(w)
  \/ Tick \/ WaiterReady \/ QuitFires \/ Killed

Spec == Init /\ [][Next]_vars

(* The Go scheduler runs every ready goroutine, a fetch ends within the    *)
(* client's timeout and Invoke within the function's; select picks at      *)
(* random among the ready cases, so one that is ready again and again is   *)
(* taken (strong fairness: each tick makes main start a new waiter).       *)
WorkFairness ==
  /\ \A w \in Workers : /\ WF_vars(SpawnWorker(w))
                        /\ WF_vars(WorkerStep(w))
                        /\ WF_vars(ReceiveResult(w))
  /\ WF_vars(EnterLoop)
  /\ WF_vars(WaiterReady)
  /\ SF_vars(OnAllDone)
  /\ WF_vars(ForkNewLambda)
  /\ WF_vars(InvokeReturns)
  /\ WF_vars(SendFinal)

(* The quit timer fires, and its case is taken while it stays ready.       *)
TimerFairness == WF_vars(QuitFires) /\ WF_vars(OnQuit)

(* Nothing is assumed of the timer here: Ends does, EndsByItself does not. *)
WorkSpec == Spec /\ WorkFairness

-----------------------------------------------------------------------------
RequestMetrics == [RequestCount : Nat, TimedOut : Nat,
                   ConnectionErrors : Nat, FatalError : BOOLEAN]
Reports == [TotalReqs : Nat, TotalTimedOut : Nat,
            TotalConnectionError : Nat, Finished : BOOLEAN]

(* Types of all variables: the process's settings stay a command line, the *)
(* queue and all counts stay natural numbers.                              *)
TypeOK ==
  /\ given \in Args(Headers)
  /\ settings \in Args(Headers)
  /\ phase \in {"spawning", "select", "fork", "invoking", "final",
                "exited", "dead"}
  /\ worker \in [Workers -> {"unborn", "loop", "exited"} \cup Busy]
  /\ jobs \in Nat
  /\ waiter \in {"waiting", "ready"}
  /\ tick \in BOOLEAN
  /\ quit \in BOOLEAN
  /\ timedOut \in BOOLEAN
  /\ finished \in BOOLEAN
  /\ metrics \in RequestMetrics
  /\ reported \in Reports
  /\ child \in Args(Headers) \cup {NoChild}

(* Whatever the workers, the ticker and the timer do, every job of a       *)
(* limited runner is in exactly one place: in the channel, with a worker   *)
(* that fetches or waits to hand over, or counted.                         *)
JobsConserved ==
  Limited(given) =>
    jobs + Cardinality(BusyWorkers) + Counted = Remaining(given)

(* No result is reported twice or forgotten between two reports: what the  *)
(* receiver was told plus the open window is what main has counted.        *)
CountsAreExact == reported.TotalReqs + metrics.RequestCount = Counted

(* Why the properties below hold, as one inductive invariant.  The process *)
(* changes nothing of its command line but the counts and, once, the time; *)
(* only a drained queue lets a worker go, and only when all are gone does  *)
(* a waiter speak; a verdict "finished" has one of two causes, which then  *)
(* stay true; the child gets the final settings.                           *)
SettingsFollowGiven ==
  /\ Limited(given) => given.CompletedRequestCount <= given.MaxRequestCount
  /\ Counted \in Nat
  /\ settings.MaxRequestCount = given.MaxRequestCount
  /\ settings.RequestHeaders = given.RequestHeaders
  /\ settings.StresstestTimeout =
       IF timedOut THEN TimeLeft(given) ELSE given.StresstestTimeout

ExitsAreDrained ==
  /\ \A w \in Workers : worker[w] = "exited" => Limited(given) /\ jobs = 0
  /\ waiter = "ready" => AllExited

PhasesAreOrdered ==
  /\ Loading => ~timedOut /\ ~finished /\ child = NoChild
  /\ phase \in {"fork", "invoking"} => ~finished
  /\ phase = "fork" => timedOut /\ ~TimeIsOver(given) /\ child = NoChild
  /\ finished => AllExited \/ TimeIsOver(given)
  /\ reported.Finished => phase = "exited" /\ finished
  /\ phase = "exited" => metrics = NoMetrics
  /\ child # NoChild =>
       timedOut /\ ~TimeIsOver(given) /\ child = ForkArgs(settings)

RunnerInv ==
  /\ TypeOK
  /\ SettingsFollowGiven
  /\ JobsConserved
  /\ CountsAreExact
  /\ ExitsAreDrained
  /\ PhasesAreOrdered

(* A report that says Finished is the last one and it is true: either all  *)
(* requests are done and reported, or the time of the stress test is over. *)
FinishedIsTrue ==
  reported.Finished =>
    /\ phase = "exited"
    /\ \/ Limited(given) /\ reported.TotalReqs = Remaining(given)
       \/ TimeIsOver(given)

(* A forked runner continues where this one stopped: it gets exactly the   *)
(* requests not counted here and exactly the time left, and a limited time *)
(* never turns into 0, which its command line reads as unlimited.          *)
ForkResumes ==
  child # NoChild =>
    /\ child.MaxRequestCount = given.MaxRequestCount
    /\ Limited(given) => Remaining(child) + Counted = Remaining(given)
    /\ IF given.StresstestTimeout = 0
       THEN child.StresstestTimeout = 0
       ELSE /\ child.StresstestTimeout > 0
            /\ child.StresstestTimeout + LambdaExecTimeoutSeconds(given)
                 = given.StresstestTimeout

(* What a fork repeats: the requests this process took out of its queue    *)
(* but did not count are made again by the child, at most one per worker.  *)
ForkRepeatsOnePerWorker ==
  child # NoChild /\ Limited(given) => Remaining(child) <= jobs + NumWorkers

(* The metrics claim "Over 50% of requests failed, aborting"; what would   *)
(* follow is that no worker starts another request from then on.           *)
AbortsWhenFatal ==
  [][metrics.FatalError =>
       \A w \in Workers : worker'[w] = "fetching" => worker[w] = "fetching"]_vars

(* The headers the user asked for are sent with the requests of a forked   *)
(* runner as well.                                                         *)
ForkKeepsHeaders ==
  child # NoChild => child.RequestHeaders = given.RequestHeaders

(* Every runner process ends, with or without a limit on its requests, if  *)
(* its timer fires and is heard.                                           *)
Ends == TimerFairness => <>(~Alive)

(* A runner with a limited number of requests ends by itself: its workers  *)
(* run dry and one of the ever renewed wg.Wait goroutines is heard.        *)
EndsByItself == Limited(given) ~> ~Alive

(* Seen from the session, all of this is the contract of a runner process: *)
(* its counts, its reports, its verdict and its one successor.             *)
ContractState ==
  IF Loading THEN "running"
  ELSE IF phase = "fork" THEN "forking"
  ELSE IF Alive THEN "closing"
  ELSE "ended"

Contract == INSTANCE RunnerContract
  WITH state <- ContractState,
       counted <- Counted,
       sent <- reported.TotalReqs,
       verdict <- finished,
       finished <- reported.Finished

(* The runner's goroutines together behave like the one sequential process *)
(* of the contract.                                                        *)
ImplementsContract == Contract!Spec
=============================================================================
