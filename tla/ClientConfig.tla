---------------------------- MODULE ClientConfig ----------------------------
(***************************************************************************)
(* From what a user says to a configuration: aggregateConfiguration() of   *)
(* cli/cli.go, which lays goad.ini and the command line over the defaults, *)
(* and serveResults() of webapi/webapi.go, which takes a query and knows   *)
(* no defaults.  Module LoadPlan goes on with the configuration.           *)
(*                                                                         *)
(* What is said is a function from some of the settings to values.  A      *)
(* number that cannot be read is not in it: goad.ini then counts as silent *)
(* (so does a file that is absent or cannot be read), and a query fails.   *)
(***************************************************************************)
EXTENDS LoadPlan, SequencesExt

CONSTANTS
  Files,         \* what goad.ini may say at first
  CommandLines,  \* what users may type; "WriteIni" is --create-ini-template
  Queries,       \* what may be asked of the web API
  Lists          \* strings with commas, as they are used for regions: split

ASSUME SaidAssumption ==
  \A said \in Files \cup CommandLines \cup Queries :
    /\ DOMAIN said \subseteq STRING
    /\ \A s \in {"Concurrency", "Requests", "Timelimit", "Timeout"} :
         s \in DOMAIN said => said[s] \in Int
    /\ "Regions" \in DOMAIN said => said.Regions \in Seq(STRING)

(* No name of a supported region has a comma in it.                        *)
ASSUME ListsAssumption ==
  /\ SupportedRegions \subseteq STRING
  /\ DOMAIN Lists \cap SupportedRegions = {}
  /\ \A list \in DOMAIN Lists : Lists[list] \in Seq(STRING)

VARIABLES
  client,    \* "cli" or "web"
  file,      \* goad.ini
  said,      \* the command line or the query
  defaults,  \* the flags' defaults
  stage      \* where the client is; LoadPlan takes over at "ready"

clientVars == <<client, file, said, defaults, stage>>

-----------------------------------------------------------------------------
NoText == ""

(* &types.TestConfig{}; Lambdas is a variable of its own in LoadPlan.      *)
Zero ==
  [URL |-> NoText, Concurrency |-> 0, Requests |-> 0, Timelimit |-> 0,
   Timeout |-> 0, Regions |-> <<>>, Method |-> NoText, Body |-> NoText,
   Headers |-> {}, Output |-> NoText, RunDocker |-> FALSE,
   RunnerPath |-> NoText]

(* What is on the command line and in section general, regions, headers.   *)
Settings == DOMAIN Zero \ {"RunnerPath"}

(* What is said of the given settings, laid over what was there before.    *)
Laid(settings, words, before) ==
  [s \in DOMAIN before |->
     IF s \in settings \cap DOMAIN words THEN words[s] ELSE before[s]]

(* The flags of cli/cli.go.  README.md:72 and 80 show other defaults: 2000  *)
(* requests, one region.                                                   *)
FlagDefaults ==
  [Restrict(Zero, Settings) EXCEPT
     !.Concurrency = 10, !.Requests = 1000, !.Timelimit = 3600,
     !.Timeout = 15, !.Method = "GET"]

DefaultRegions == <<"us-east-1", "eu-west-1", "ap-northeast-1">>

ASSUME DefaultsAssumption ==
  \A k \in DOMAIN DefaultRegions : DefaultRegions[k] \in SupportedRegions

Template_OneRegion ==
  [Concurrency |-> 10, Requests |-> 1000, Regions |-> <<"us-east-1">>]

(* config_template.go                                                      *)
Template ==
  [Concurrency |-> 10, Requests |-> 1000,
   Regions |-> <<"us-east-1", "eu-west-1", "ap-northeast-1">>]

(* parseRegionsForBackwardsCompatibility()                                 *)
ParseRegions(regions) ==
  FlattenSeq([k \in DOMAIN regions |-> IF regions[k] \in DOMAIN Lists
                                       THEN Lists[regions[k]]
                                       ELSE <<regions[k]>>])

ClientInit ==
  /\ config = Zero
  /\ Init
  /\ \/ /\ client = "cli"
        /\ file \in Files
        /\ said \in CommandLines
        /\ stage = "settings"
     \/ /\ client = "web"
        /\ file = <<>>
        /\ said \in Queries
        /\ stage = "query"
  /\ defaults = FlagDefaults

-----------------------------------------------------------------------------
(* parseSettings()                                                         *)
ParseSettings ==
  /\ stage = "settings"
  /\ config' = Laid(Settings, file, Zero)
  /\ stage' = "defaults"
  /\ UNCHANGED <<client, file, said, defaults, phase>>

ApplyDefaults_ZeroToo ==
  /\ stage = "defaults"
  /\ defaults' = [s \in Settings |->
                    IF s = "Regions" /\ config[s] = <<>> THEN DefaultRegions
                    ELSE config[s]]
  /\ stage' = "flags"
  /\ UNCHANGED <<client, file, said, config, phase>>

(* applyDefaultsFromConfig(): what the file says becomes the default of    *)
(* the flag, unless it is the zero value of its type.                      *)
ApplyDefaults ==
  /\ stage = "defaults"
  /\ defaults' = [s \in Settings |->
                    IF config[s] # Zero[s] THEN config[s]
                    ELSE IF s = "Regions" THEN DefaultRegions
                    ELSE defaults[s]]
  /\ stage' = "flags"
  /\ UNCHANGED <<client, file, said, config, phase>>

(* parseCommandline(): writes a template, whatever is there, and exits;    *)
(* misses a URL, and exits; or fills in a new configuration.               *)
WriteIniFile ==
  /\ stage = "flags"
  /\ "WriteIni" \in DOMAIN said
  /\ file' \in {Template, file}
  /\ stage' = "written"
  /\ UNCHANGED <<client, said, defaults, config, phase>>

Given == Laid(Settings, said, defaults)

NoURL ==
  /\ stage = "flags"
  /\ "WriteIni" \notin DOMAIN said
  /\ Given.URL = NoText
  /\ phase' = "rejected"
  /\ stage' = "over"
  /\ UNCHANGED <<client, file, said, defaults, config>>

ParseCommandline ==
  /\ stage = "flags"
  /\ "WriteIni" \notin DOMAIN said
  /\ Given.URL # NoText
  /\ config' = Laid(Settings, [Given EXCEPT !.Regions = ParseRegions(@)], Zero)
  /\ stage' = "extended"
  /\ UNCHANGED <<client, file, said, defaults, phase>>

ApplyExtendedConfiguration_FileWins ==
  /\ stage = "extended"
  /\ config' = Laid(DOMAIN Zero, file, config)
  /\ stage' = "ready"
  /\ UNCHANGED <<client, file, said, defaults, phase>>

(* applyExtendedConfiguration() reads the file once more.                  *)
ApplyExtendedConfiguration ==
  /\ stage = "extended"
  /\ config' = Laid({"RunnerPath"}, file, config)
  /\ stage' = "ready"
  /\ UNCHANGED <<client, file, said, defaults, phase>>

(* The user goes on after a template was written.                          *)
StartAgain ==
  /\ stage = "written"
  /\ said' \in CommandLines
  /\ defaults' = FlagDefaults
  /\ config' = Zero
  /\ stage' = "settings"
  /\ UNCHANGED <<client, file, phase>>

-----------------------------------------------------------------------------
Required ==
  {"URL", "Concurrency", "Requests", "Timelimit", "Timeout", "Regions"}

(* serveResults(): all is required, with at least one region ...           *)
ServeResults ==
  /\ stage = "query"
  /\ IF Required \subseteq DOMAIN said
     THEN /\ config' = Laid(Required, said, [Zero EXCEPT !.Method = "GET"])
          /\ stage' = "ready"
          /\ UNCHANGED phase
     ELSE /\ phase' = "rejected"
          /\ stage' = "over"
          /\ UNCHANGED config
  /\ UNCHANGED <<client, file, said, defaults>>

(* ... and once it is checked the connection may fail to become a socket.  *)
UpgradeFails ==
  /\ client = "web"
  /\ phase = "setup"
  /\ phase' = "rejected"
  /\ UNCHANGED <<config, clientVars>>

ClientStep ==
  \/ ParseSettings \/ ApplyDefaults \/ WriteIniFile \/ NoURL
  \/ ParseCommandline \/ ApplyExtendedConfiguration \/ StartAgain
  \/ ServeResults \/ UpgradeFails

ClientNext ==
  \/ ClientStep /\ UNCHANGED <<lambdas, i, invoked, assigned>>
  \/ stage = "ready" /\ Next /\ UNCHANGED clientVars

ClientSpec == ClientInit /\ [][ClientNext]_<<vars, clientVars>>

-----------------------------------------------------------------------------
(* What a user has asked for: on the command line, else in the file, where *)
(* zero and "" say nothing, else by default.                               *)
DefaultOf(s) ==
  IF s \in DOMAIN file /\ file[s] # Zero[s] THEN file[s]
  ELSE IF s = "Regions" THEN DefaultRegions
  ELSE FlagDefaults[s]

Asked(s) == IF s \in DOMAIN said THEN said[s] ELSE DefaultOf(s)

(* The runners together do what the user asked for, wherever it was said:  *)
(* the number of requests, no more workers, for the time, in no other      *)
(* region.  A list that is said twice is not joined.                       *)
AskedIsWhatRuns ==
  phase = "invoked" =>
    /\ Asked("Requests") >= 0 => assigned.requests = Asked("Requests")
    /\ assigned.concurrency <= Asked("Concurrency")
    /\ config.Headers = IF client = "cli" THEN Asked("Headers") ELSE {}
    /\ \A k \in DOMAIN invoked :
         /\ invoked[k].executionTime = Asked("Timelimit")
         /\ config.Regions[invoked[k].region] \in
              ToSet(ParseRegions(Asked("Regions")))

(* The template repeats the program's own defaults, those of cli.go:51-63  *)
(* and 129: with it every setting that is not on the command line is what  *)
(* it is without a file.  (README.md:72 and 80 document other defaults.)   *)
(* The defaults are valid: a URL is all that is needed.                    *)
TemplateIsNeutral ==
  client = "cli" /\ file = Template /\ stage = "ready" =>
    /\ \A s \in Settings \ DOMAIN said :
         config[s] = IF s = "Regions" THEN DefaultRegions ELSE FlagDefaults[s]
    /\ DOMAIN said = {"URL"} => phase # "rejected"

(* Why: who says what, and what each stage has made of it.  Before "ready" *)
(* no plan is begun; nothing of a configuration changes afterwards.        *)
SaidOK ==
  \/ /\ client = "cli"
     /\ file \in Files \cup {Template}
     /\ said \in CommandLines
     /\ stage \in {"settings", "defaults", "flags", "written", "extended",
                   "ready", "over"}
  \/ /\ client = "web"
     /\ file = <<>>
     /\ said \in Queries
     /\ stage \in {"query", "ready", "over"}

StagesBuildOn ==
  /\ stage \notin {"ready", "over"} => NothingInvoked
  /\ stage = "over" => phase = "rejected"
  /\ stage \in {"settings", "query"} => config = Zero
  /\ stage \in {"settings", "defaults"} => defaults = FlagDefaults
  /\ stage = "defaults" => config = Laid(Settings, file, Zero)
  /\ stage = "flags" => defaults = [s \in Settings |-> DefaultOf(s)]

ConfigIsAsked ==
  /\ client = "cli" /\ stage \in {"extended", "ready"} =>
       /\ DOMAIN config = DOMAIN Zero
       /\ \A s \in Settings :
            config[s] = IF s = "Regions" THEN ParseRegions(Asked(s)) ELSE Asked(s)
  /\ client = "web" /\ stage = "ready" =>
       /\ Required \subseteq DOMAIN said
       /\ config = Laid(Required, said, [Zero EXCEPT !.Method = "GET"])
  /\ client = "cli" /\ stage = "ready" /\ phase = "rejected" => ~ Check(config)

ClientInv == SaidOK /\ PlanInv /\ StagesBuildOn /\ ConfigIsAsked
=============================================================================
