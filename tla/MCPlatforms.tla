---------------------------- MODULE MCPlatforms -----------------------------
(***************************************************************************)
(* Instances of Platforms for TLC: two clients, on the same platform.      *)
(***************************************************************************)
EXTENDS Platforms

CONSTANTS a, b, old, new

AllAws == [c \in Clients |-> "aws"]
AllDocker == [c \in Clients |-> "docker"]

SamePlatform == {AllAws, AllDocker}
OnlyAws == {AllAws}

(* Different builds; one client with two regions, one with the second only.*)
MCBuild == [c \in Clients |-> IF c = a THEN new ELSE old]
MCRegions ==
  [c \in Clients |-> IF c = a THEN <<"us-east-1", "eu-west-1">>
                              ELSE <<"eu-west-1">>]

(* Runner id 1 is unknown to the client that has one runner only.          *)
MCLambdas == [c \in Clients |-> IF c = a THEN 2 ELSE 1]
=============================================================================
