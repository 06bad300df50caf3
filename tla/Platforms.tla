----------------------------- MODULE Platforms ------------------------------
(***************************************************************************)
(* goad.Start() on both platforms: clients that share an AWS account, and  *)
(* clients that share a machine with docker.  Account and machine have     *)
(* nothing in common; a client uses the one its configuration names.       *)
(***************************************************************************)
EXTENDS AwsProvision, DockerInfra

vars == <<startVars, awsVars, dockerVars>>

(* An account that nobody will use may as well be empty.                   *)
UnusedIsEmpty ==
  (\A c \in Clients : platform[c] = "docker") =>
    role = "absent" /\ \A r \in AllRegions : function[r] = NoCode

Init == StartInit /\ AwsInit /\ DockerInit /\ UnusedIsEmpty

Next == \/ AwsNext /\ UNCHANGED dockerVars
        \/ DockerNext /\ UNCHANGED awsVars

Spec == Init /\ [][Next]_vars

FairSpec == Spec /\ AwsFairness /\ DockerFairness

TypeOK == StartTypeOK /\ AwsTypeOK /\ DockerTypeOK
=============================================================================
