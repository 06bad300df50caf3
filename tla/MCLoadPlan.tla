----------------------------- MODULE MCLoadPlan -----------------------------
(***************************************************************************)
(* Instances of ClientConfig with LoadPlan for TLC.                        *)
(***************************************************************************)
EXTENDS ClientConfig

Query(c, n, t, s, regions) ==
  [URL |-> "u", Concurrency |-> c, Requests |-> n, Timelimit |-> t,
   Timeout |-> s, Regions |-> regions]

MCSupportedRegions == {"us-east-1", "eu-west-1", "ap-northeast-1"}
MCWellFormedHeaders == {"a: b"}
MCLists == [both |-> <<"us-east-1", "eu-west-1">>]

RegionLists == {<<"us-east-1">>, <<"us-east-1", "eu-west-1">>, DefaultRegions}

(* Around all limits of Check(), and around every threshold of             *)
(* numberOfLambdas() up to the first number of runners it picks.           *)
Concurrencies ==
  {-1, 0, 1, 2, 3, 9, 10, 11, 19, 20, 21, 29, 30, 31, 1009, 1010}
RequestCounts == {-7, 0, 1, 2, 7, 20, 1000}

MCQueries ==
  {Query(c, n, 15, 15, rs) :
     c \in Concurrencies, n \in RequestCounts, rs \in RegionLists}
  \cup {Query(c, 1001, 15, 15, <<"us-east-1">>) :
     c \in {10099, 10100, 25000, 25001}}
  \cup {Query(c, 1001, 15, 15, DefaultRegions) :
     c \in {70199, 70200, 75000, 75001}}
  \cup {Query(2, n, t, 15, <<"us-east-1">>) :
     n \in {0, 1}, t \in {-1, 0, 1, 3600, 3601}}
  \cup {Query(2, 1, 1, s, <<"us-east-1">>) : s \in {0, 1, 100, 101}}
  \cup {Query(2, 1, 1, 1, <<"us-east-1", "moon">>), [URL |-> "u"]}

(* Silent, the template, zeros, everything, and what Check() refuses.      *)
MCFiles ==
  {<<>>, Template,
   [Requests |-> 0, Timelimit |-> 9, Timeout |-> 5, Concurrency |-> 5,
    Method |-> ""],
   [URL |-> "f", Concurrency |-> 3, Requests |-> 7, Timelimit |-> 9,
    Timeout |-> 5, Regions |-> <<"eu-west-1">>, Method |-> "PUT",
    Body |-> "b", Headers |-> {"a: b"}, Output |-> "o", RunDocker |-> TRUE,
    RunnerPath |-> "r"],
   [URL |-> "f", Regions |-> <<"both">>, Concurrency |-> -1]}

MCCommandLines ==
  {[URL |-> "u"], [URL |-> ""], <<>>, [WriteIni |-> TRUE],
   [URL |-> "u", Requests |-> 0, Timelimit |-> 5],
   [URL |-> "u", Requests |-> 0, Timelimit |-> 0],
   [Concurrency |-> 2, Regions |-> <<"both", "us-east-1">>],
   [URL |-> "u", Headers |-> {"a: b", "a"}],
   [URL |-> "u", Headers |-> {"a: b"}, Concurrency |-> 31, RunDocker |-> FALSE]}

SilentFile == {<<>>}

(* Fewer requests than runners.                                            *)
FewRequests ==
  {[URL |-> "u", Concurrency |-> c, Requests |-> n, Regions |-> rs] :
     c \in {1, 5, 11, 25}, n \in {1, 2, 3}, rs \in RegionLists}

(* A client starts with an empty configuration.                            *)
MCConfigs == {Zero}
=============================================================================
