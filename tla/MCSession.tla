----------------------------- MODULE MCSession ------------------------------
(***************************************************************************)
(* Instances of Session for TLC.                                           *)
(***************************************************************************)
EXTENDS Session

Line(requests, time) ==
  [MaxRequestCount |-> requests, CompletedRequestCount |-> 0,
   StresstestTimeout |-> time, RequestHeaders |-> {}]

OneRunner == 0 .. 0
TwoRunners == 0 .. 1

(* With AWS_MAX_TIMEOUT = 1, a time of 2 lets a process fork once, and a   *)
(* time of 1 ends with the only process.  0 requests: unlimited.           *)
ForkingPlan == [id \in RunnerIDs |-> Line(2, 2)]
MixedPlan == [id \in RunnerIDs |-> IF id = 0 THEN Line(1, 2) ELSE Line(0, 1)]
=============================================================================
