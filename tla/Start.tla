------------------------------- MODULE Start --------------------------------
(***************************************************************************)
(* Clients: goad programs that users start, on one machine or on several   *)
(* with the same AWS account.  Start() of goad/goad.go prepares the        *)
(* infrastructure that the configuration names; modules AwsProvision and   *)
(* DockerInfra say what happens then.                                      *)
(***************************************************************************)
EXTENDS Integers, FiniteSets, Sequences, Functions

CONSTANTS
  Clients,      \* users, each of whom runs one program at a time
  Assignments,  \* by client, "aws" or "docker": the choices that are explored
  MaxStarts     \* exploration bound: programs the users start

ASSUME ClientAssumption ==
  /\ IsFiniteSet(Clients)
  /\ Assignments \subseteq [Clients -> {"aws", "docker"}]
  /\ MaxStarts \in Nat

VARIABLES
  platform,   \* t.RunDocker of each client: "aws" or "docker"
  starts      \* programs each client has started

startVars == <<platform, starts>>

StartInit ==
  /\ platform \in Assignments
  /\ starts = [c \in Clients |-> 0]

(* A user starts the program, anew after an earlier one has ended, however *)
(* that was.                                                               *)
StartOn(c, infra) ==
  /\ platform[c] = infra
  /\ FoldFunction(+, 0, starts) < MaxStarts
  /\ starts' = [starts EXCEPT ![c] = @ + 1]
  /\ UNCHANGED platform

StartTypeOK ==
  /\ platform \in Assignments
  /\ starts \in [Clients -> 0 .. MaxStarts]
=============================================================================
