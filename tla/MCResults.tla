----------------------------- MODULE MCResults ------------------------------
(***************************************************************************)
(* Instances of Results for TLC.                                           *)
(***************************************************************************)
EXTENDS Results, TLC

(* The other runner has not been heard of; has only reported failures; or  *)
(* has finished with one success, in the same region.                      *)
Failing ==
  [Silent EXCEPT !.TotalReqs = 2, !.TotalTimedOut = 2, !.Fastest = MaxInt64,
                 !.TimeDelta = -1, !.Region = "there"]
Successful(region) ==
  [Silent EXCEPT !.TotalReqs = 1, !.AveTimeForReq = 2, !.AveTimeToFirst = 1,
                 !.TimeDelta = 2, !.Fastest = 2, !.Slowest = 2,
                 !.Statuses["from 400"] = 1, !.Finished = TRUE,
                 !.Region = region]

MCNeighbours == {Silent, Failing, Successful("here")}

Symmetry == Permutations(Workers)
=============================================================================
