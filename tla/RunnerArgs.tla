----------------------------- MODULE RunnerArgs -----------------------------
(***************************************************************************)
(* The command line of a runner process (lambda/lambda.go) and the         *)
(* arithmetic on it: how many requests the process still has to make, how  *)
(* long it may run, whether the stress test's time is over when its timer  *)
(* fires, and the command line it gives the process it forks.  No state:   *)
(* the runner, its contract and the session module share these operators.  *)
(***************************************************************************)
EXTENDS Integers

CONSTANT AWS_MAX_TIMEOUT  \* longest time one process loads the target (295 s)

ASSUME TimeoutAssumption == AWS_MAX_TIMEOUT \in Nat \ {0}

(* The flags the model tells apart.  RequestHeaders abstracts the list of  *)
(* --header flags to a set; all other flags are forwarded verbatim.        *)
Args(headers) == [MaxRequestCount       : Int,
                  CompletedRequestCount : Nat,
                  StresstestTimeout     : Int,
                  RequestHeaders        : SUBSET headers]

(* work(): only a positive --requests makes a worker ask for a job.        *)
Limited(args) == args.MaxRequestCount > 0

(* newLambda(): jobs put into the queue, never a negative number.          *)
Remaining_Unclamped(args) == args.MaxRequestCount - args.CompletedRequestCount

Remaining(args) ==
  LET r == args.MaxRequestCount - args.CompletedRequestCount
  IN  IF r < 0 THEN 0 ELSE r

(* setLambdaExecTimeout()                                                  *)
LambdaExecTimeoutSeconds(args) ==
  IF args.StresstestTimeout <= 0 \/ args.StresstestTimeout > AWS_MAX_TIMEOUT
  THEN AWS_MAX_TIMEOUT
  ELSE args.StresstestTimeout

(* updateStresstestTimeout(): the time left after this process, and the    *)
(* verdict that nothing is left.  0 stands for "no limit" and stays 0.     *)
TimeLeft(args) ==
  IF args.StresstestTimeout # 0
  THEN args.StresstestTimeout - LambdaExecTimeoutSeconds(args)
  ELSE 0

TimeIsOver_Strict(args) == args.StresstestTimeout # 0 /\ TimeLeft(args) < 0

TimeIsOver(args) == args.StresstestTimeout # 0 /\ TimeLeft(args) <= 0

(* getInvokeArgsForFork(): the current settings as flags.  The list has no *)
(* --header entry, so the new process parses an empty list of headers.     *)
ForkArgs_Restart(settings) ==
  [settings EXCEPT !.CompletedRequestCount = 0, !.RequestHeaders = {}]

ForkArgs(settings) == [settings EXCEPT !.RequestHeaders = {}]
=============================================================================
