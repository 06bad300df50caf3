---------------------------- MODULE RunnerProofs ----------------------------
(***************************************************************************)
(* Proofs about Runner, for every number of workers and every command      *)
(* line: types, the inductive invariant RunnerInv, the safety properties   *)
(* that follow from it, and that Runner implements RunnerContract.         *)
(***************************************************************************)
EXTENDS Runner, FiniteSetTheorems, TLAPS

-----------------------------------------------------------------------------
(* Lemmas about the operators the model is built from.                     *)

(* There is at least one worker, and the workers are a finite set.         *)
LEMMA WorkersAreFinite ==
  /\ NumWorkers \in Nat \ {0}
  /\ IsFiniteSet(Workers)
  /\ Cardinality(Workers) = NumWorkers
<1>1. NumWorkers \in Nat \ {0}
  BY RunnerAssumption DEF NumWorkers
<1> QED
  BY <1>1, FS_Interval DEF Workers

(* A process may run for a while, but not longer than the platform lets it. *)
LEMMA ExecTimeoutBounds ==
  ASSUME NEW a \in Args(Headers)
  PROVE  LambdaExecTimeoutSeconds(a) \in 1 .. AWS_MAX_TIMEOUT
BY TimeoutAssumption DEF Args, LambdaExecTimeoutSeconds

(* The arithmetic on command lines stays within their types.               *)
LEMMA ArgsArithmetic ==
  ASSUME NEW a \in Args(Headers)
  PROVE  /\ Remaining(a) \in Nat
         /\ TimeLeft(a) \in Int
         /\ Limited(a) \in BOOLEAN
         /\ TimeIsOver(a) \in BOOLEAN
<1>1. LambdaExecTimeoutSeconds(a) \in Int
  BY ExecTimeoutBounds, TimeoutAssumption
<1> QED
  BY <1>1 DEF Args, Remaining, TimeLeft, Limited, TimeIsOver

(* The time left and the verdict depend on --execution-time only.          *)
LEMMA SameTime ==
  ASSUME NEW a, NEW b, a.StresstestTimeout = b.StresstestTimeout
  PROVE  /\ TimeLeft(a) = TimeLeft(b)
         /\ TimeIsOver(a) <=> TimeIsOver(b)
BY DEF TimeLeft, TimeIsOver, LambdaExecTimeoutSeconds

(* One more result keeps the metrics in their type and counts exactly one. *)
LEMMA AddRequestType ==
  ASSUME NEW m \in RequestMetrics, NEW o \in Outcomes
  PROVE  /\ AddRequest(m, o) \in RequestMetrics
         /\ AddRequest(m, o).RequestCount = m.RequestCount + 1
BY DEF AddRequest, RequestMetrics

(* A report adds what it carries and sets the verdict, nothing else.       *)
LEMMA ReceivedType ==
  ASSUME NEW r \in Reports, NEW m \in RequestMetrics, NEW fin \in BOOLEAN
  PROVE  /\ Received(r, m, fin) \in Reports
         /\ Received(r, m, fin).TotalReqs = r.TotalReqs + m.RequestCount
         /\ Received(r, m, fin).Finished = fin
BY DEF Received, Reports, RequestMetrics

(* Fresh metrics have counted nothing.                                     *)
LEMMA NoMetricsType ==
  NoMetrics \in RequestMetrics /\ NoMetrics.RequestCount = 0
BY DEF NoMetrics, RequestMetrics

(* The busy workers are finitely many; one joins or leaves at a time.      *)
LEMMA BusyIsFinite ==
  /\ IsFiniteSet(BusyWorkers)
  /\ Cardinality(BusyWorkers) \in Nat
  /\ Cardinality(BusyWorkers) <= NumWorkers
<1>1. BusyWorkers \subseteq Workers
  BY DEF BusyWorkers
<1> QED
  BY <1>1, WorkersAreFinite, FS_Subset, FS_CardinalityType

-----------------------------------------------------------------------------
(* Type correctness.                                                       *)

LEMMA TypeInit == Init => TypeOK
<1> SUFFICES ASSUME Init PROVE TypeOK
  OBVIOUS
<1>1. given \in Args(Headers)
  BY RunnerAssumption DEF Init, StartArgs, Args
<1>2. jobs \in Nat
  BY <1>1, ArgsArithmetic DEF Init
<1> QED
  BY <1>1, <1>2, NoMetricsType DEF Init, TypeOK, Reports

LEMMA TypeNext == TypeOK /\ [Next]_vars => TypeOK'
<1> SUFFICES ASSUME TypeOK, [Next]_vars PROVE TypeOK'
  OBVIOUS
<1> USE DEF TypeOK
<1>1. CASE UNCHANGED vars
  BY <1>1 DEF vars
<1>2. ASSUME NEW w \in Workers, SpawnWorker(w) PROVE TypeOK'
  BY <1>2 DEF SpawnWorker
<1>3. CASE EnterLoop
  BY <1>3 DEF EnterLoop
<1>4. ASSUME NEW w \in Workers, TakeJob(w) PROVE TypeOK'
  BY <1>4 DEF TakeJob, Busy
<1>5. ASSUME NEW w \in Workers, WorkerExit(w) PROVE TypeOK'
  BY <1>5 DEF WorkerExit
<1>6. ASSUME NEW w \in Workers, FetchReturns(w) PROVE TypeOK'
  BY <1>6 DEF FetchReturns, Busy
<1>7. ASSUME NEW w \in Workers, ReceiveResult(w) PROVE TypeOK'
  <2>1. settings' \in Args(Headers)
    BY <1>7 DEF ReceiveResult, Args
  <2>2. metrics' \in RequestMetrics
    BY <1>7, AddRequestType DEF ReceiveResult
  <2> QED
    BY <1>7, <2>1, <2>2 DEF ReceiveResult
<1>8. CASE Tick
  BY <1>8 DEF Tick
<1>9. CASE OnTick
  BY <1>9, ReceivedType, NoMetricsType DEF OnTick
<1>10. CASE WaiterReady
  BY <1>10 DEF WaiterReady
<1>11. CASE OnAllDone
  BY <1>11 DEF OnAllDone
<1>12. CASE QuitFires
  BY <1>12 DEF QuitFires
<1>13. CASE OnQuit
  <2>1. settings' \in Args(Headers)
    BY <1>13, ArgsArithmetic DEF OnQuit, Args
  <2>2. finished' \in BOOLEAN
    BY <1>13, ArgsArithmetic DEF OnQuit
  <2> QED
    BY <1>13, <2>1, <2>2 DEF OnQuit
<1>14. CASE ForkNewLambda
  <2>1. ForkArgs(settings) \in Args(Headers)
    BY DEF ForkArgs, Args
  <2> QED
    BY <1>14, <2>1 DEF ForkNewLambda
<1>15. CASE InvokeReturns
  BY <1>15 DEF InvokeReturns
<1>16. CASE SendFinal
  BY <1>16, ReceivedType, NoMetricsType DEF SendFinal
<1>17. CASE Killed
  BY <1>17 DEF Killed
<1> QED
  BY <1>1, <1>2, <1>3, <1>4, <1>5, <1>6, <1>7, <1>8, <1>9, <1>10, <1>11,
     <1>12, <1>13, <1>14, <1>15, <1>16, <1>17
     DEF Next, MainStep, WorkerStep

(* Every variable keeps its type in every reachable state: in particular   *)
(* the settings stay a command line that can be handed to a successor.     *)
THEOREM TypeCorrect == Spec => []TypeOK
BY TypeInit, TypeNext, PTL DEF Spec

-----------------------------------------------------------------------------
(* The inductive invariant.                                                *)

LEMMA InvInit == Init => RunnerInv
<1> SUFFICES ASSUME Init PROVE RunnerInv
  OBVIOUS
<1>1. TypeOK
  BY TypeInit
<1>2. Counted = 0
  BY <1>1 DEF Init, Counted, TypeOK, Args
<1>3. SettingsFollowGiven
  BY <1>1, <1>2 DEF Init, SettingsFollowGiven, StartArgs, TypeOK, Args
<1>4. JobsConserved
  <2>1. BusyWorkers = {}
    BY DEF Init, BusyWorkers, Busy, Outcomes
  <2>2. Cardinality(BusyWorkers) = 0
    BY <2>1, FS_EmptySet
  <2> QED
    BY <1>1, <1>2, <2>2 DEF Init, JobsConserved, TypeOK
<1>5. CountsAreExact
  BY <1>2, NoMetricsType DEF Init, CountsAreExact
<1>6. ExitsAreDrained
  BY DEF Init, ExitsAreDrained
<1>7. PhasesAreOrdered
  BY DEF Init, PhasesAreOrdered, Loading
<1> QED
  BY <1>1, <1>3, <1>4, <1>5, <1>6, <1>7 DEF RunnerInv

(* What the invariant says of the current settings.                        *)
LEMMA SettingsFacts ==
  ASSUME TypeOK, SettingsFollowGiven
  PROVE  /\ Limited(settings) <=> Limited(given)
         /\ settings.MaxRequestCount = given.MaxRequestCount
         /\ settings.RequestHeaders = given.RequestHeaders
         /\ settings.CompletedRequestCount
              = given.CompletedRequestCount + Counted
         /\ settings.StresstestTimeout =
              IF timedOut THEN TimeLeft(given) ELSE given.StresstestTimeout
BY DEF TypeOK, SettingsFollowGiven, Limited, Counted, Args

(* No worker ever becomes busy while all have exited, and the work of the  *)
(* queue is then counted.                                                  *)
LEMMA AllExitedIsComplete ==
  ASSUME TypeOK, JobsConserved, ExitsAreDrained, Counted \in Nat, AllExited
  PROVE  Limited(given) /\ Counted = Remaining(given)
<1>1. BusyWorkers = {}
  BY DEF AllExited, BusyWorkers, Busy, Outcomes
<1>2. Cardinality(BusyWorkers) = 0
  BY <1>1, FS_EmptySet
<1>3. 1 \in Workers
  BY WorkersAreFinite DEF Workers
<1>4. Limited(given) /\ jobs = 0
  BY <1>3 DEF AllExited, ExitsAreDrained
<1> QED
  BY <1>2, <1>4 DEF JobsConserved

(* Steps that touch neither the queue, the workers nor the counts.         *)
LEMMA FrameKeepsWork ==
  ASSUME UNCHANGED <<given, settings, worker, jobs>>
  PROVE  /\ JobsConserved => JobsConserved'
         /\ Counted' = Counted
         /\ AllExited => AllExited'
BY DEF JobsConserved, Counted, AllExited, BusyWorkers

LEMMA WorkerSteps ==
  ASSUME RunnerInv, TypeOK', NEW w \in Workers, WorkerStep(w)
  PROVE  RunnerInv'
<1> USE DEF RunnerInv
<1>1. UNCHANGED <<given, settings, phase, waiter, tick, quit, timedOut,
                  finished, metrics, reported, child>>
  BY DEF WorkerStep, TakeJob, WorkerExit, FetchReturns
<1>2. Counted' = Counted /\ (Limited(given)' <=> Limited(given))
  BY <1>1 DEF Counted
<1>3. SettingsFollowGiven' /\ CountsAreExact'
  BY <1>1, <1>2 DEF SettingsFollowGiven, CountsAreExact
<1>4. worker[w] # "exited" /\ \A v \in Workers \ {w} : worker'[v] = worker[v]
  BY DEF TypeOK, WorkerStep, TakeJob, WorkerExit, FetchReturns
<1>5. PhasesAreOrdered'
  BY <1>1, <1>4 DEF PhasesAreOrdered, Loading, AllExited, TypeOK
<1>6. CASE TakeJob(w)
  <2>1. BusyWorkers' = BusyWorkers \cup {w} /\ w \notin BusyWorkers
    BY <1>6 DEF TakeJob, BusyWorkers, Busy, Outcomes, TypeOK
  <2>2. Cardinality(BusyWorkers') = Cardinality(BusyWorkers) + 1
    BY <2>1, BusyIsFinite, FS_AddElement
  <2>3. JobsConserved'
    BY <1>1, <1>2, <1>6, <2>2, BusyIsFinite, SettingsFacts
       DEF JobsConserved, TakeJob, TypeOK, SettingsFollowGiven
  <2>4. ExitsAreDrained'
    BY <1>1, <1>4, <1>6, SettingsFacts
       DEF TakeJob, ExitsAreDrained, AllExited, TypeOK
  <2> QED
    BY <1>3, <1>5, <2>3, <2>4
<1>7. CASE WorkerExit(w)
  <2>1. BusyWorkers' = BusyWorkers
    BY <1>7 DEF WorkerExit, BusyWorkers, Busy, Outcomes, TypeOK
  <2>2. JobsConserved'
    BY <1>1, <1>2, <1>7, <2>1 DEF JobsConserved, WorkerExit
  <2>3. ExitsAreDrained'
    BY <1>1, <1>2, <1>4, <1>7, SettingsFacts
       DEF WorkerExit, ExitsAreDrained, AllExited, TypeOK
  <2> QED
    BY <1>3, <1>5, <2>2, <2>3
<1>8. CASE FetchReturns(w)
  <2>1. BusyWorkers' = BusyWorkers
    BY <1>8 DEF FetchReturns, BusyWorkers, Busy, Outcomes, TypeOK
  <2>2. JobsConserved'
    BY <1>1, <1>2, <1>8, <2>1 DEF JobsConserved, FetchReturns
  <2>3. ExitsAreDrained'
    <3>1. worker'[w] # "exited" /\ jobs' = jobs
      BY <1>8 DEF FetchReturns, Outcomes, TypeOK
    <3> QED
      BY <1>1, <1>2, <1>4, <3>1 DEF ExitsAreDrained, AllExited, TypeOK
  <2> QED
    BY <1>3, <1>5, <2>2, <2>3
<1> QED
  BY <1>6, <1>7, <1>8 DEF WorkerStep

(* Counting a result moves one job from its worker to the counts.          *)
LEMMA ReceiveStep ==
  ASSUME RunnerInv, TypeOK', NEW w \in Workers, ReceiveResult(w)
  PROVE  RunnerInv'
<1> USE DEF RunnerInv
<1>1. /\ UNCHANGED <<given, phase, jobs, timedOut, finished, reported, child>>
      /\ phase = "select"
      /\ waiter' = "waiting"
      /\ worker[w] \in Outcomes
      /\ worker' = [worker EXCEPT ![w] = "loop"]
  BY DEF ReceiveResult
<1>2. Counted' = Counted + 1
  BY DEF ReceiveResult, Counted, TypeOK, Args
<1>3. SettingsFollowGiven'
  BY <1>1, <1>2 DEF ReceiveResult, SettingsFollowGiven, TypeOK, Args
<1>4. JobsConserved'
  <2>1. BusyWorkers' = BusyWorkers \ {w} /\ w \in BusyWorkers
    BY <1>1 DEF BusyWorkers, Busy, Outcomes, TypeOK
  <2>2. Cardinality(BusyWorkers') = Cardinality(BusyWorkers) - 1
    BY <2>1, BusyIsFinite, FS_RemoveElement
  <2> QED
    BY <1>1, <1>2, <2>2, BusyIsFinite
       DEF JobsConserved, TypeOK, SettingsFollowGiven
<1>5. CountsAreExact'
  <2>1. metrics'.RequestCount = metrics.RequestCount + 1
    BY AddRequestType DEF ReceiveResult, TypeOK
  <2> QED
    BY <1>1, <1>2, <2>1
       DEF CountsAreExact, TypeOK, Reports, RequestMetrics
<1>6. ExitsAreDrained'
  BY <1>1 DEF ExitsAreDrained, TypeOK
<1>7. PhasesAreOrdered'
  BY <1>1 DEF PhasesAreOrdered, Loading
<1> QED
  BY <1>3, <1>4, <1>5, <1>6, <1>7

(* The steps of the main goroutine, the ticker, the timer, the waiter and  *)
(* the platform leave workers and queue alone.                             *)
LEMMA OtherSteps ==
  ASSUME RunnerInv, TypeOK',
         \/ \E w \in Workers : SpawnWorker(w)
         \/ EnterLoop \/ Tick \/ OnTick \/ WaiterReady \/ OnAllDone
         \/ QuitFires \/ OnQuit \/ ForkNewLambda \/ InvokeReturns
         \/ SendFinal \/ Killed \/ UNCHANGED vars
  PROVE  RunnerInv'
<1> USE DEF RunnerInv
<1>1. ASSUME NEW w \in Workers, SpawnWorker(w) PROVE RunnerInv'
  <2>1. /\ UNCHANGED <<given, settings, phase, jobs, waiter, timedOut,
                       finished, metrics, reported, child>>
        /\ worker[w] = "unborn"
        /\ worker' = [worker EXCEPT ![w] = "loop"]
        /\ Loading
    BY <1>1 DEF SpawnWorker, Loading
  <2>2. BusyWorkers' = BusyWorkers
    BY <2>1 DEF BusyWorkers, Busy, Outcomes, TypeOK
  <2>3. SettingsFollowGiven' /\ CountsAreExact' /\ JobsConserved'
    BY <2>1, <2>2
       DEF SettingsFollowGiven, CountsAreExact, JobsConserved, Counted
  <2>4. ExitsAreDrained'
    BY <2>1 DEF ExitsAreDrained, AllExited, TypeOK
  <2>5. PhasesAreOrdered'
    BY <2>1 DEF PhasesAreOrdered, Loading
  <2> QED
    BY <2>3, <2>4, <2>5
<1>2. CASE EnterLoop
  <2>1. JobsConserved'
    BY <1>2, FrameKeepsWork DEF EnterLoop
  <2>2. SettingsFollowGiven' /\ CountsAreExact' /\ ExitsAreDrained'
    BY <1>2 DEF EnterLoop, SettingsFollowGiven, CountsAreExact, Counted,
                ExitsAreDrained, AllExited
  <2>3. PhasesAreOrdered'
    BY <1>2 DEF EnterLoop, PhasesAreOrdered, Loading, AllExited
  <2> QED
    BY <2>1, <2>2, <2>3
<1>3. CASE Tick \/ QuitFires \/ UNCHANGED vars
  <2>1. UNCHANGED <<given, settings, phase, worker, jobs, waiter, timedOut,
                    finished, metrics, reported, child>>
    BY <1>3 DEF Tick, QuitFires, vars
  <2>2. JobsConserved'
    BY <2>1, FrameKeepsWork
  <2>3. SettingsFollowGiven' /\ CountsAreExact' /\ ExitsAreDrained'
    BY <2>1 DEF SettingsFollowGiven, CountsAreExact, Counted,
                ExitsAreDrained, AllExited
  <2>4. PhasesAreOrdered'
    BY <2>1 DEF PhasesAreOrdered, Loading, AllExited
  <2> QED
    BY <2>2, <2>3, <2>4
<1>4. CASE OnTick
  <2>1. /\ UNCHANGED <<given, settings, worker, jobs, timedOut, finished, child>>
        /\ waiter' = "waiting"
        /\ phase = "select"
        /\ phase' \in {"select", "dead"}
    BY <1>4 DEF OnTick
  <2>2. JobsConserved' /\ Counted' = Counted
    BY <2>1, FrameKeepsWork
  <2>3. CountsAreExact' /\ ~reported'.Finished
    <3>1. CASE reported' = Received(reported, metrics, FALSE) /\ metrics' = NoMetrics
      <4>1. /\ reported'.TotalReqs = reported.TotalReqs + metrics.RequestCount
            /\ reported'.Finished = FALSE
        BY <3>1, ReceivedType DEF TypeOK
      <4>2. reported.TotalReqs \in Nat /\ metrics.RequestCount \in Nat
        BY DEF TypeOK, Reports, RequestMetrics
      <4>3. metrics'.RequestCount = 0
        BY <3>1, NoMetricsType
      <4> QED
        BY <2>2, <4>1, <4>2, <4>3 DEF CountsAreExact
    <3>2. CASE UNCHANGED <<reported, metrics>>
      BY <2>1, <2>2, <3>2 DEF CountsAreExact, PhasesAreOrdered
    <3> QED
      BY <1>4, <3>1, <3>2 DEF OnTick
  <2>4. SettingsFollowGiven' /\ ExitsAreDrained'
    BY <2>1, <2>2 DEF SettingsFollowGiven, ExitsAreDrained
  <2>5. PhasesAreOrdered'
    BY <2>1, <2>3 DEF PhasesAreOrdered, Loading
  <2> QED
    BY <2>2, <2>3, <2>4, <2>5
<1>5. CASE WaiterReady
  <2>1. UNCHANGED <<given, settings, phase, worker, jobs, timedOut,
                    finished, metrics, reported, child>>
        /\ AllExited
    BY <1>5 DEF WaiterReady
  <2>2. JobsConserved'
    BY <2>1, FrameKeepsWork
  <2>3. SettingsFollowGiven' /\ CountsAreExact' /\ ExitsAreDrained'
    BY <2>1 DEF SettingsFollowGiven, CountsAreExact, Counted,
                ExitsAreDrained, AllExited
  <2>4. PhasesAreOrdered'
    BY <2>1 DEF PhasesAreOrdered, Loading, AllExited
  <2> QED
    BY <2>2, <2>3, <2>4
<1>6. CASE OnAllDone
  <2>1. UNCHANGED <<given, settings, worker, jobs, waiter, timedOut, metrics,
                    reported, child>>
        /\ phase = "select" /\ phase' = "final" /\ finished' /\ AllExited
    BY <1>6 DEF OnAllDone, ExitsAreDrained
  <2>2. JobsConserved'
    BY <2>1, FrameKeepsWork
  <2>3. SettingsFollowGiven' /\ CountsAreExact' /\ ExitsAreDrained'
    BY <2>1 DEF SettingsFollowGiven, CountsAreExact, Counted,
                ExitsAreDrained, AllExited
  <2>4. PhasesAreOrdered'
    BY <2>1 DEF PhasesAreOrdered, Loading, AllExited
  <2> QED
    BY <2>2, <2>3, <2>4
<1>7. CASE OnQuit
  <2>1. /\ UNCHANGED <<given, worker, jobs, waiter, metrics, reported, child>>
        /\ phase = "select" /\ timedOut' = TRUE /\ ~timedOut
        /\ finished' = TimeIsOver(settings)
        /\ settings' = [settings EXCEPT !.StresstestTimeout = TimeLeft(settings)]
        /\ phase' = IF TimeIsOver(settings) THEN "final" ELSE "fork"
    BY <1>7 DEF OnQuit, PhasesAreOrdered, Loading
  <2>2. settings.StresstestTimeout = given.StresstestTimeout
    BY <2>1, SettingsFacts
  <2>3. /\ TimeLeft(settings) = TimeLeft(given)
        /\ TimeIsOver(settings) <=> TimeIsOver(given)
    BY <2>2, SameTime
  <2>4. settings'.CompletedRequestCount = settings.CompletedRequestCount
    BY <2>1 DEF TypeOK, Args
  <2>5. Counted' = Counted
    BY <2>1, <2>4 DEF Counted
  <2>6. SettingsFollowGiven'
    BY <2>1, <2>3, <2>4, <2>5 DEF SettingsFollowGiven, TypeOK, Args
  <2>7. JobsConserved' /\ CountsAreExact' /\ ExitsAreDrained'
    BY <2>1, <2>5 DEF JobsConserved, CountsAreExact, ExitsAreDrained,
                      AllExited, BusyWorkers
  <2>8. PhasesAreOrdered'
    BY <2>1, <2>3 DEF PhasesAreOrdered, Loading
  <2> QED
    BY <2>6, <2>7, <2>8
<1>8. CASE ForkNewLambda
  <2>1. UNCHANGED <<given, settings, worker, jobs, waiter, timedOut,
                    finished, metrics, reported>>
        /\ phase = "fork" /\ phase' \in {"invoking", "final"}
        /\ child' \in {child, ForkArgs(settings)}
    BY <1>8 DEF ForkNewLambda
  <2>2. JobsConserved'
    BY <2>1, FrameKeepsWork
  <2>3. SettingsFollowGiven' /\ CountsAreExact' /\ ExitsAreDrained'
    BY <2>1 DEF SettingsFollowGiven, CountsAreExact, Counted,
                ExitsAreDrained, AllExited
  <2>4. ForkArgs(settings)' = ForkArgs(settings)
    BY <2>1 DEF ForkArgs
  <2>5. PhasesAreOrdered'
    BY <2>1, <2>4 DEF PhasesAreOrdered, Loading, AllExited
  <2> QED
    BY <2>2, <2>3, <2>5
<1>9. CASE InvokeReturns \/ Killed
  <2>1. UNCHANGED <<given, settings, worker, jobs, waiter, timedOut,
                    finished, metrics, reported, child>>
        /\ phase' \in {"final", "dead"}
        /\ phase # "exited"
    BY <1>9 DEF InvokeReturns, Killed, Alive
  <2>2. JobsConserved'
    BY <2>1, FrameKeepsWork
  <2>3. SettingsFollowGiven' /\ CountsAreExact' /\ ExitsAreDrained'
    BY <2>1 DEF SettingsFollowGiven, CountsAreExact, Counted,
                ExitsAreDrained, AllExited
  <2>4. PhasesAreOrdered'
    BY <2>1 DEF PhasesAreOrdered, Loading, AllExited
  <2> QED
    BY <2>2, <2>3, <2>4
<1>10. CASE SendFinal
  <2>1. /\ UNCHANGED <<given, settings, worker, jobs, waiter, timedOut,
                       finished, child>>
        /\ phase = "final"
        /\ \/ phase' = "exited" /\ metrics' = NoMetrics
           \/ phase' = "dead"
    BY <1>10 DEF SendFinal
  <2>2. JobsConserved' /\ Counted' = Counted
    BY <2>1, FrameKeepsWork
  <2>3. CountsAreExact' /\ (reported'.Finished => phase' = "exited" /\ finished)
    BY <1>10, <2>2, ReceivedType, NoMetricsType
       DEF SendFinal, CountsAreExact, PhasesAreOrdered, TypeOK, Reports,
           RequestMetrics
  <2>4. SettingsFollowGiven' /\ ExitsAreDrained'
    BY <2>1, <2>2 DEF SettingsFollowGiven, ExitsAreDrained, AllExited
  <2>5. PhasesAreOrdered'
    BY <2>1, <2>3 DEF PhasesAreOrdered, Loading, AllExited
  <2> QED
    BY <2>2, <2>3, <2>4, <2>5
<1> QED
  BY <1>1, <1>2, <1>3, <1>4, <1>5, <1>6, <1>7, <1>8, <1>9, <1>10

LEMMA InvNext == RunnerInv /\ [Next]_vars => RunnerInv'
<1> SUFFICES ASSUME RunnerInv, [Next]_vars PROVE RunnerInv'
  OBVIOUS
<1>1. TypeOK'
  BY TypeNext DEF RunnerInv
<1> QED
  BY <1>1, WorkerSteps, ReceiveStep, OtherSteps DEF Next, MainStep

(* In every reachable state, whatever the interleaving of workers, ticker, *)
(* timer and main goroutine, the parts of RunnerInv hold together.         *)
THEOREM InvariantHolds == Spec => []RunnerInv
BY InvInit, InvNext, PTL DEF Spec

-----------------------------------------------------------------------------
(* The safety properties, each from the invariant.                         *)

(* Every job of a limited runner is in the queue, with a worker, or        *)
(* counted, and what was reported plus the open window is what was         *)
(* counted: in every reachable state.                                      *)
THEOREM NothingLostOrCountedTwice == Spec => [](JobsConserved /\ CountsAreExact)
<1>1. RunnerInv => JobsConserved /\ CountsAreExact
  BY DEF RunnerInv
<1> QED
  BY <1>1, InvariantHolds, PTL

(* Every counted request is in exactly one report or in the open window:   *)
(* no tick, fork or last report drops a window or sends it twice.          *)
THEOREM CountsAlwaysExact == Spec => []CountsAreExact
BY NothingLostOrCountedTwice, PTL

(* A report says Finished only when the requests are done and reported or  *)
(* the stress test's time is over, and nothing follows it.                 *)
THEOREM FinishedReportsAreTrue == Spec => []FinishedIsTrue
<1>1. RunnerInv => FinishedIsTrue
  <2> SUFFICES ASSUME RunnerInv, reported.Finished
               PROVE  /\ phase = "exited"
                      /\ \/ /\ Limited(given)
                            /\ reported.TotalReqs = Remaining(given)
                         \/ TimeIsOver(given)
    BY DEF FinishedIsTrue
  <2> USE DEF RunnerInv
  <2>1. /\ phase = "exited" /\ metrics.RequestCount = 0
        /\ AllExited \/ TimeIsOver(given)
    BY NoMetricsType DEF PhasesAreOrdered
  <2>2. CASE AllExited
    <3>1. Limited(given) /\ Counted = Remaining(given)
      BY <2>2, AllExitedIsComplete DEF SettingsFollowGiven
    <3>2. reported.TotalReqs = Counted
      BY <2>1 DEF CountsAreExact, TypeOK, Reports
    <3> QED
      BY <2>1, <3>1, <3>2
  <2> QED
    BY <2>1, <2>2
<1> QED
  BY <1>1, InvariantHolds, PTL

(* What a limited runner still has to do is what it was given minus what   *)
(* it has counted.                                                         *)
LEMMA RemainingOfSettings ==
  ASSUME RunnerInv, Limited(given)
  PROVE  Remaining(settings) + Counted = Remaining(given)
<1> USE DEF RunnerInv
<1>1. Counted <= Remaining(given)
  BY BusyIsFinite, ArgsArithmetic
     DEF JobsConserved, TypeOK, SettingsFollowGiven
<1>2. given.MaxRequestCount \in Int /\ given.CompletedRequestCount \in Nat
  BY DEF TypeOK, Args
<1> QED
  BY <1>1, <1>2, SettingsFacts DEF Remaining, SettingsFollowGiven

(* A successor inherits exactly what was not counted, and exactly the time *)
(* that is left; a limited test never hands over an unlimited time.        *)
THEOREM ForksResume == Spec => []ForkResumes
<1>1. RunnerInv => ForkResumes
  <2> SUFFICES ASSUME RunnerInv, child # NoChild PROVE ForkResumes
    BY DEF ForkResumes
  <2> USE DEF RunnerInv
  <2>1. timedOut /\ ~TimeIsOver(given) /\ child = ForkArgs(settings)
    BY DEF PhasesAreOrdered
  <2>2. /\ child.MaxRequestCount = given.MaxRequestCount
        /\ child.CompletedRequestCount = settings.CompletedRequestCount
        /\ child.StresstestTimeout = TimeLeft(given)
    BY <2>1, SettingsFacts DEF ForkArgs, TypeOK, Args
  <2>3. Remaining(child) = Remaining(settings)
    BY <2>2, SettingsFacts DEF Remaining
  <2>4. Limited(given) => Remaining(child) + Counted = Remaining(given)
    BY <2>3, RemainingOfSettings
  <2>5. IF given.StresstestTimeout = 0
        THEN child.StresstestTimeout = 0
        ELSE /\ child.StresstestTimeout > 0
             /\ child.StresstestTimeout + LambdaExecTimeoutSeconds(given)
                  = given.StresstestTimeout
    <3>1. /\ LambdaExecTimeoutSeconds(given) \in Int
          /\ given.StresstestTimeout \in Int
      BY ExecTimeoutBounds, TimeoutAssumption DEF TypeOK, Args
    <3> QED
      BY <2>1, <2>2, <3>1 DEF TimeIsOver, TimeLeft
  <2> QED
    BY <2>2, <2>4, <2>5 DEF ForkResumes
<1> QED
  BY <1>1, InvariantHolds, PTL

(* At most one request per worker is made by a process and its successor.  *)
THEOREM ForksRepeatLittle == Spec => []ForkRepeatsOnePerWorker
<1>1. RunnerInv => ForkRepeatsOnePerWorker
  <2> SUFFICES ASSUME RunnerInv, child # NoChild, Limited(given)
               PROVE  Remaining(child) <= jobs + NumWorkers
    BY DEF ForkRepeatsOnePerWorker
  <2> USE DEF RunnerInv
  <2>1. Remaining(child) = Remaining(settings)
    BY DEF PhasesAreOrdered, ForkArgs, Remaining, TypeOK, Args
  <2>2. jobs + Cardinality(BusyWorkers) + Counted
          = Remaining(settings) + Counted
    BY RemainingOfSettings DEF JobsConserved
  <2>3. /\ jobs \in Nat /\ Counted \in Nat
        /\ Remaining(settings) \in Nat
    BY ArgsArithmetic DEF TypeOK, SettingsFollowGiven
  <2> QED
    BY <2>1, <2>2, <2>3, BusyIsFinite, WorkersAreFinite
<1> QED
  BY <1>1, InvariantHolds, PTL

-----------------------------------------------------------------------------
(* Runner implements RunnerContract.                                       *)

LEMMA ContractInit == Init => Contract!Init
<1> SUFFICES ASSUME Init PROVE Contract!Init
  OBVIOUS
<1>1. Counted = 0
  BY TypeInit DEF Init, Counted, TypeOK, Args
<1> QED
  BY <1>1 DEF Init, Contract!Init, ContractState, Loading

(* The contract's arithmetic on command lines is the runner's.             *)
LEMMA SameArithmetic ==
  ASSUME NEW a
  PROVE  /\ Contract!Limited(a) <=> Limited(a)
         /\ Contract!Remaining(a) = Remaining(a)
         /\ Contract!TimeLeft(a) = TimeLeft(a)
         /\ Contract!TimeIsOver(a) <=> TimeIsOver(a)
BY DEF Limited, Remaining, TimeLeft, TimeIsOver, LambdaExecTimeoutSeconds,
       Contract!Limited, Contract!Remaining, Contract!TimeLeft,
       Contract!TimeIsOver, Contract!LambdaExecTimeoutSeconds

(* The command line ForkArgs makes is the one the contract announces.      *)
LEMMA SuccessorIsForkArgs ==
  ASSUME RunnerInv, timedOut
  PROVE  ForkArgs(settings) = Contract!Successor
<1> USE DEF RunnerInv, TypeOK
<1>1. /\ settings.MaxRequestCount = given.MaxRequestCount
      /\ settings.CompletedRequestCount
           = given.CompletedRequestCount + Counted
      /\ settings.StresstestTimeout = TimeLeft(given)
  BY SettingsFacts
<1> QED
  BY <1>1, SameArithmetic DEF ForkArgs, Contract!Successor, Args

(* Every step is a step of the contract or leaves its variables unchanged. *)
LEMMA ContractNext ==
  RunnerInv /\ RunnerInv' /\ [Next]_vars => [Contract!Next]_Contract!cvars
<1> SUFFICES ASSUME RunnerInv, RunnerInv', [Next]_vars
             PROVE  [Contract!Next]_Contract!cvars
  OBVIOUS
<1> USE DEF RunnerInv, Contract!cvars
<1>1. CASE UNCHANGED vars
  BY <1>1 DEF vars, ContractState, Loading, Alive, Counted
<1>2. ASSUME NEW w \in Workers, SpawnWorker(w) \/ WorkerStep(w)
      PROVE  UNCHANGED Contract!cvars
  BY <1>2 DEF SpawnWorker, WorkerStep, TakeJob, WorkerExit, FetchReturns,
              ContractState, Loading, Alive, Counted
<1>3. CASE EnterLoop \/ Tick \/ WaiterReady \/ QuitFires \/ InvokeReturns
  BY <1>3 DEF EnterLoop, Tick, WaiterReady, QuitFires, InvokeReturns,
              ContractState, Loading, Alive, Counted
<1>4. ASSUME NEW w \in Workers, ReceiveResult(w) PROVE Contract!Count
  <2>1. /\ UNCHANGED <<given, phase, finished, reported, child>>
        /\ phase = "select"
    BY <1>4 DEF ReceiveResult
  <2>2. Counted' = Counted + 1
    BY <1>4 DEF ReceiveResult, Counted, TypeOK, Args
  <2>3. Limited(given) => Counted' <= Remaining(given)
    <3>1. JobsConserved' /\ jobs' \in Nat /\ given' = given
      BY <2>1 DEF TypeOK
    <3>2. Cardinality(BusyWorkers') \in Nat
      <4>1. BusyWorkers' \subseteq Workers
        BY DEF BusyWorkers
      <4> QED
        BY <4>1, WorkersAreFinite, FS_Subset, FS_CardinalityType
    <3>3. Counted' \in Nat
      BY DEF SettingsFollowGiven
    <3> QED
      BY <3>1, <3>2, <3>3, ArgsArithmetic DEF JobsConserved, TypeOK
  <2>4. Limited(given) => Counted < Remaining(given)
    BY <2>2, <2>3, ArgsArithmetic DEF SettingsFollowGiven, TypeOK
  <2> QED
    BY <2>1, <2>2, <2>4, SameArithmetic DEF Contract!Count, ContractState, Loading, Alive
<1>5. CASE OnTick
  <2>1. /\ UNCHANGED <<given, settings, finished, child>>
        /\ phase = "select"
        /\ Counted' = Counted
    BY <1>5 DEF OnTick, Counted
  <2>2. metrics \in RequestMetrics /\ reported \in Reports
    BY DEF TypeOK
  <2>3. CASE metrics.RequestCount = 0 /\ UNCHANGED <<phase, reported>>
    BY <2>1, <2>3 DEF ContractState, Loading, Alive
  <2>4. CASE metrics.RequestCount > 0 /\ metrics' = NoMetrics
             /\ reported' = Received(reported, metrics, FALSE) /\ phase' = phase
    <3>1. /\ reported'.TotalReqs = reported.TotalReqs + metrics.RequestCount
          /\ reported'.Finished = FALSE
      BY <2>2, <2>4, ReceivedType
    <3>2. reported.Finished = FALSE
      BY <2>1, <2>2 DEF PhasesAreOrdered, Reports
    <3>3. reported.TotalReqs \in Nat /\ metrics.RequestCount \in Nat
      BY <2>2 DEF Reports, RequestMetrics
    <3>4. /\ reported.TotalReqs < Counted
          /\ reported'.TotalReqs = Counted
      <4>1. reported.TotalReqs + metrics.RequestCount = Counted
        BY DEF CountsAreExact
      <4>2. reported'.TotalReqs = Counted
        BY <3>1, <4>1
      <4>3. metrics.RequestCount > 0
        BY <2>4
      <4> QED
        BY <3>3, <4>1, <4>2, <4>3
    <3> QED
      BY <2>1, <2>4, <3>1, <3>2, <3>4
         DEF Contract!Next, Contract!Report, ContractState, Loading, Alive
  <2>5. CASE phase' = "dead" /\ UNCHANGED reported
    BY <2>1, <2>5
       DEF Contract!Next, Contract!Die, ContractState, Loading, Alive
  <2> QED
    BY <1>5, <2>3, <2>4, <2>5 DEF OnTick
<1>6. CASE OnAllDone
  <2>1. AllExited
    BY <1>6 DEF OnAllDone, ExitsAreDrained
  <2>2. Limited(given) /\ Counted = Remaining(given)
    BY <2>1, AllExitedIsComplete DEF SettingsFollowGiven
  <2> QED
    BY <1>6, <2>2, SameArithmetic DEF OnAllDone, Contract!Next, Contract!Complete,
                      ContractState, Loading, Alive, Counted
<1>7. CASE OnQuit
  <2>1. /\ UNCHANGED <<given, reported, child>>
        /\ phase = "select" /\ ~timedOut /\ ~finished
        /\ finished' = TimeIsOver(settings)
        /\ phase' = IF TimeIsOver(settings) THEN "final" ELSE "fork"
    BY <1>7 DEF OnQuit, PhasesAreOrdered, Loading
  <2>2. settings.StresstestTimeout = given.StresstestTimeout
    BY <2>1, SettingsFacts
  <2>3. TimeIsOver(settings) <=> TimeIsOver(given)
    BY <2>2, SameTime
  <2>4. Counted' = Counted
    BY <1>7 DEF OnQuit, Counted, TypeOK, Args
  <2>5. CASE TimeIsOver(given)
    <3>1. finished' = TRUE /\ phase' = "final"
      BY <2>1, <2>3, <2>5 DEF TypeOK
    <3> QED
      BY <2>1, <2>4, <2>5, <3>1, SameArithmetic
         DEF Contract!Next, Contract!TestTimeOver,
         ContractState, Loading, Alive
  <2>6. CASE ~TimeIsOver(given)
    <3>1. finished' = finished /\ phase' = "fork"
      BY <2>1, <2>3, <2>6 DEF TypeOK
    <3> QED
      BY <2>1, <2>4, <2>6, <3>1, SameArithmetic
         DEF Contract!Next, Contract!OwnTimeOver,
         ContractState, Loading, Alive
  <2> QED
    BY <2>5, <2>6
<1>8. CASE ForkNewLambda
  <2>1. /\ UNCHANGED <<given, settings, finished, reported>>
        /\ phase = "fork" /\ phase' \in {"invoking", "final"}
        /\ child' \in {ForkArgs(settings), NoChild}
    BY <1>8 DEF ForkNewLambda, PhasesAreOrdered
  <2>2. ForkArgs(settings) = Contract!Successor
    BY <2>1, SuccessorIsForkArgs DEF PhasesAreOrdered
  <2> QED
    BY <2>1, <2>2 DEF Contract!Next, Contract!HandOver, ContractState,
       Loading, Alive, Counted
<1>9. CASE SendFinal
  <2>1. /\ UNCHANGED <<given, settings, finished, child>>
        /\ phase = "final"
        /\ Counted' = Counted
    BY <1>9 DEF SendFinal, Counted
  <2>2. CASE phase' = "exited"
             /\ reported' = Received(reported, metrics, finished)
    <3>1. /\ reported'.TotalReqs = reported.TotalReqs + metrics.RequestCount
          /\ reported'.Finished = finished
      BY <2>2, ReceivedType DEF TypeOK
    <3> QED
      BY <2>1, <2>2, <3>1 DEF Contract!Next, Contract!LastReport,
         ContractState, Loading, Alive, CountsAreExact
  <2>3. CASE phase' = "dead" /\ UNCHANGED reported
    BY <2>1, <2>3
       DEF Contract!Next, Contract!Die, ContractState, Loading, Alive
  <2> QED
    BY <1>9, <2>2, <2>3 DEF SendFinal
<1>10. CASE Killed
  BY <1>10 DEF Killed, Contract!Next, Contract!Die, ContractState, Loading,
               Alive, Counted
<1> QED
  BY <1>1, <1>2, <1>3, <1>4, <1>5, <1>6, <1>7, <1>8, <1>9, <1>10
     DEF Next, MainStep, Contract!Next

(* The workers, channels and select loop of Runner show the outside what   *)
(* RunnerContract allows and nothing else.                                 *)
THEOREM RunnerImplementsContract == Spec => ImplementsContract
BY ContractInit, ContractNext, InvariantHolds, PTL
   DEF Spec, ImplementsContract, Contract!Spec
=============================================================================
