--------------------------- MODULE RunnerContract ---------------------------
(***************************************************************************)
(* What one runner process promises to the session that starts it, without *)
(* workers, channels, ticker or select loop.  It counts requests up to its *)
(* limit, reports what it has counted and not yet reported, and closes for *)
(* one of three reasons: its requests are done, the stress test's time is  *)
(* over, or its own time is over.  Only in the last case it may hand over  *)
(* to one successor, before its last report; that report says Finished in  *)
(* the first two cases only.  It may die at any moment, silently.          *)
(* Runner implements this specification; sessions are composed of it.      *)
(***************************************************************************)
EXTENDS RunnerArgs

CONSTANTS StartArgs,   \* command lines a process may be started with
          NoChild      \* no successor was started

VARIABLES given,    \* the command line of this process
          state,    \* running, forking, closing, ended
          counted,  \* requests this process has counted
          sent,     \* how many of them its reports add up to
          verdict,  \* what the last report is going to say
          finished, \* what the latest report said
          child     \* command line of the successor

cvars == <<given, state, counted, sent, verdict, finished, child>>

Init ==
  /\ given \in StartArgs
  /\ state = "running"
  /\ counted = 0
  /\ sent = 0
  /\ verdict = FALSE
  /\ finished = FALSE
  /\ child = NoChild

Count ==
  /\ state = "running"
  /\ Limited(given) => counted < Remaining(given)
  /\ counted' = counted + 1
  /\ UNCHANGED <<given, state, sent, verdict, finished, child>>

Report ==
  /\ state = "running"
  /\ sent < counted
  /\ sent' = counted
  /\ UNCHANGED <<given, state, counted, verdict, finished, child>>

Complete ==
  /\ state = "running"
  /\ Limited(given)
  /\ counted = Remaining(given)
  /\ state' = "closing"
  /\ verdict' = TRUE
  /\ UNCHANGED <<given, counted, sent, finished, child>>

TestTimeOver ==
  /\ state = "running"
  /\ TimeIsOver(given)
  /\ state' = "closing"
  /\ verdict' = TRUE
  /\ UNCHANGED <<given, counted, sent, finished, child>>

OwnTimeOver ==
  /\ state = "running"
  /\ ~TimeIsOver(given)
  /\ state' = "forking"
  /\ UNCHANGED <<given, counted, sent, verdict, finished, child>>

(* The successor's command line: the counts so far, the time left, and no  *)
(* headers.                                                                *)
Successor ==
  [given EXCEPT !.CompletedRequestCount = @ + counted,
                !.StresstestTimeout = TimeLeft(given),
                !.RequestHeaders = {}]

HandOver ==
  /\ state = "forking"
  /\ child' \in {Successor, NoChild}
  /\ state' = "closing"
  /\ UNCHANGED <<given, counted, sent, verdict, finished>>

LastReport ==
  /\ state = "closing"
  /\ sent' = counted
  /\ finished' = verdict
  /\ state' = "ended"
  /\ UNCHANGED <<given, counted, verdict, child>>

Die ==
  /\ state # "ended"
  /\ state' = "ended"
  /\ UNCHANGED <<given, counted, sent, verdict, finished, child>>

Next ==
  \/ Count \/ Report \/ Complete \/ TestTimeOver \/ OwnTimeOver
  \/ HandOver \/ LastReport \/ Die

Spec == Init /\ [][Next]_cvars
=============================================================================
