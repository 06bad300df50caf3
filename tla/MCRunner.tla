------------------------------ MODULE MCRunner ------------------------------
(***************************************************************************)
(* Instances of Runner for TLC: sets of command lines that the .cfg files  *)
(* cannot write down.                                                      *)
(***************************************************************************)
EXTENDS Runner

(* -1 is a legal --requests (unlimited), and a legal --execution-time.     *)
MCMaxRequestCounts == {-1, 0, 1, 3}
MCCompletedCounts == {0, 1}
MCStresstestTimeouts == {-1, 0, 1, 2, 3, 5}

(* The liveness runs: enough requests that both workers leave the loop at  *)
(* different times, and both kinds of time limit.                          *)
LiveRequestCounts == {0, 2}
LiveCompletedCounts == {0}
LiveStresstestTimeouts == {0, 1}
=============================================================================
