------------------------- MODULE ClientConfigProofs -------------------------
(***************************************************************************)
(* Proofs about ClientConfig, for everything that may be said on a command *)
(* line, in goad.ini and in a query: the plan of LoadPlan keeps its        *)
(* invariant, and what the runners get is what was asked for.              *)
(***************************************************************************)
EXTENDS ClientConfig, LoadPlanProofs, Sums, SequenceTheorems

(* The recursion of FlattenSeq, up to n.                                   *)
Flattened(seqs, n, f) ==
  f = [k \in 1 .. n |-> IF k = 1 THEN seqs[k] ELSE f[k - 1] \o seqs[k]]

(* There is such a function: of the numbers for which there is none, the   *)
(* smallest one would have one.                                            *)
LEMMA FlattenedExists ==
  ASSUME NEW seqs, NEW n \in Nat \ {0}
  PROVE  \E f : Flattened(seqs, n, f)
<1> DEFINE F == {m \in Nat \ {0} : ~ \E f : Flattened(seqs, m, f)}
<1> SUFFICES ASSUME F # {} PROVE FALSE
  OBVIOUS
<1>1. PICK m \in F : \A k \in F : m <= k
  <2>1. F \subseteq Nat
    OBVIOUS
  <2> HIDE DEF F
  <2> QED
    BY <2>1, SmallestNumber
<1>2. CASE m = 1
  <2>1. Flattened(seqs, m, [k \in 1 .. m |-> seqs[k]])
    BY <1>2 DEF Flattened
  <2> QED
    BY <1>1, <2>1
<1>3. CASE m # 1
  <2>1. m - 1 \in Nat \ {0} /\ m - 1 \notin F
    BY <1>1, <1>3
  <2>2. PICK f : Flattened(seqs, m - 1, f)
    BY <2>1
  <2> DEFINE g == [k \in 1 .. m |-> IF k = m THEN f[m - 1] \o seqs[m] ELSE f[k]]
  <2>3. \A k \in 1 .. m - 1 :
          f[k] = IF k = 1 THEN seqs[k] ELSE f[k - 1] \o seqs[k]
    BY <2>2 DEF Flattened
  <2>4. \A k \in 1 .. m :
          g[k] = IF k = 1 THEN seqs[k] ELSE g[k - 1] \o seqs[k]
    <3>1. g[m] = g[m - 1] \o seqs[m]
      <4>1. m \in 1 .. m /\ m - 1 \in 1 .. m /\ m - 1 # m
        BY <2>1
      <4> QED
        BY <4>1
    <3>2. ASSUME NEW k \in 1 .. m, k # m
          PROVE  g[k] = IF k = 1 THEN seqs[k] ELSE g[k - 1] \o seqs[k]
      <4>1. k \in 1 .. m - 1 /\ g[k] = f[k]
        BY <2>1, <3>2
      <4>2. k # 1 => g[k - 1] = f[k - 1]
        BY <2>1, <3>2
      <4> HIDE DEF g
      <4> QED
        BY <2>3, <4>1, <4>2
    <3> HIDE DEF g
    <3> QED
      BY <1>3, <3>1, <3>2
  <2>5. g = [k \in 1 .. m |-> g[k]]
    OBVIOUS
  <2> HIDE DEF g
  <2>6. Flattened(seqs, m, g)
    BY <2>4, <2>5 DEF Flattened
  <2> QED
    BY <1>1, <2>6
<1> QED
  BY <1>2, <1>3

(* FlattenSeq is the last value of one.                                    *)
LEMMA FlattenSeqIs ==
  ASSUME NEW seqs, Len(seqs) \in Nat \ {0}
  PROVE  \E f : /\ Flattened(seqs, Len(seqs), f)
                /\ FlattenSeq(seqs) = f[Len(seqs)]
<1> DEFINE f == CHOOSE h : Flattened(seqs, Len(seqs), h)
<1>1. Flattened(seqs, Len(seqs), f)
  BY FlattenedExists
<1>2. FlattenSeq(seqs) = f[Len(seqs)]
  BY DEF FlattenSeq, Flattened
<1> HIDE DEF f
<1> QED
  BY <1>1, <1>2

(* A sequence of sequences over a set is flattened to one over that set.   *)
LEMMA FlattenType ==
  ASSUME NEW S, NEW seqs \in Seq(Seq(S))
  PROVE  FlattenSeq(seqs) \in Seq(S)
<1>1. CASE Len(seqs) = 0
  <2>1. seqs = <<>> /\ FlattenSeq(seqs) = seqs
    BY <1>1 DEF FlattenSeq
  <2>2. \A T : <<>> \in Seq(T)
    OBVIOUS
  <2> QED
    BY <2>1, <2>2
<1>2. CASE Len(seqs) # 0
  <2> DEFINE n == Len(seqs)
  <2>1. n \in Nat \ {0} /\ \A k \in 1 .. n : seqs[k] \in Seq(S)
    BY <1>2
  <2>2. PICK f : Flattened(seqs, n, f) /\ FlattenSeq(seqs) = f[n]
    BY <2>1, FlattenSeqIs
  <2> HIDE DEF n
  <2> DEFINE F == {m \in 1 .. n : f[m] \notin Seq(S)}
  <2>3. ASSUME F # {} PROVE FALSE
    <3>1. F \subseteq Nat
      BY <2>1
    <3>2. PICK m \in F : \A k \in F : m <= k
      <4> HIDE DEF F
      <4> QED
        BY <2>3, <3>1, SmallestNumber
    <3>3. m \in 1 .. n /\ f[m] \notin Seq(S)
          /\ f[m] = IF m = 1 THEN seqs[m] ELSE f[m - 1] \o seqs[m]
      BY <2>2, <3>2 DEF Flattened
    <3>4. m # 1 /\ m - 1 \in 1 .. n
      BY <2>1, <3>3
    <3>5. f[m - 1] \in Seq(S)
      BY <2>1, <3>2, <3>4
    <3> HIDE DEF F
    <3> QED
      BY <2>1, <3>3, <3>4, <3>5
  <2> QED
    BY <2>1, <2>2, <2>3
<1> QED
  BY <1>1, <1>2

(* Sequences of one element each are flattened to the elements.            *)
LEMMA FlattenSingles ==
  ASSUME NEW S, NEW r \in Seq(S)
  PROVE  FlattenSeq([k \in DOMAIN r |-> <<r[k]>>]) = r
<1> DEFINE seqs == [k \in DOMAIN r |-> <<r[k]>>]
           n == Len(r)
<1>1. seqs \in Seq(Seq(S)) /\ Len(seqs) = n /\ n \in Nat
      /\ DOMAIN r = 1 .. n
      /\ \A k \in 1 .. n : seqs[k] = <<r[k]>>
  <2>1. \A k \in DOMAIN r : <<r[k]>> \in Seq(S)
    OBVIOUS
  <2>2. seqs \in [1 .. n -> Seq(S)]
    BY <2>1
  <2> QED
    BY <2>2
<1> HIDE DEF seqs
<1>2. CASE n = 0
  <2>1. seqs = <<>> /\ r = <<>>
    BY <1>1, <1>2
  <2> QED
    BY <1>1, <1>2, <2>1 DEF FlattenSeq, seqs
<1>3. CASE n # 0
  <2>1. n \in Nat \ {0}
    BY <1>1, <1>3
  <2>2. PICK f : Flattened(seqs, n, f) /\ FlattenSeq(seqs) = f[n]
    BY <1>1, <2>1, FlattenSeqIs
  <2> DEFINE F == {m \in 1 .. n : f[m] # SubSeq(r, 1, m)}
  <2>3. ASSUME F # {} PROVE FALSE
    <3>1. F \subseteq Nat
      BY <1>1
    <3>2. PICK m \in F : \A k \in F : m <= k
      <4> HIDE DEF F
      <4> QED
        BY <2>3, <3>1, SmallestNumber
    <3>3. m \in 1 .. n /\ f[m] # SubSeq(r, 1, m)
          /\ f[m] = IF m = 1 THEN <<r[m]>> ELSE f[m - 1] \o <<r[m]>>
      BY <1>1, <2>2, <3>2 DEF Flattened
    <3>4. ASSUME m = 1 PROVE FALSE
      <4>1. r[1] \in S /\ \A k \in 1 .. 1 : r[k] \in S
        BY <1>1, <3>3, <3>4
      <4>2. /\ SubSeq(r, 1, 1) \in Seq(S) /\ Len(SubSeq(r, 1, 1)) = 1
            /\ SubSeq(r, 1, 1)[1] = r[1]
        BY ONLY <4>1, SubSeqProperties
      <4>3. \A s \in Seq(S) : Len(s) = 1 => s = <<s[1]>>
        OBVIOUS
      <4>4. SubSeq(r, 1, 1) = <<r[1]>>
        BY ONLY <4>2, <4>3
      <4>5. SubSeq(r, 1, m) = <<r[m]>>
        BY <3>4, <4>4
      <4>6. f[m] = <<r[m]>>
        BY <3>3, <3>4
      <4> QED
        BY <3>3, <4>5, <4>6
    <3>5. m - 1 \in 1 .. n
      BY <1>1, <3>3, <3>4
    <3>6. f[m - 1] = SubSeq(r, 1, m - 1)
      BY <1>1, <3>2, <3>5
    <3> HIDE DEF F
    <3>7. SubSeq(r, 1, m) = SubSeq(r, 1, m - 1) \o <<r[m]>>
      BY <1>1, <3>3, SubSeqRecursiveSecond
    <3> QED
      BY <3>3, <3>4, <3>6, <3>7
  <2>4. f[n] = SubSeq(r, 1, n)
    BY <2>1, <2>3
  <2>5. SubSeq(r, 1, n) = r
    BY <1>1
  <2> QED
    BY <2>2, <2>4, <2>5 DEF seqs
<1> QED
  BY <1>1, <1>2, <1>3

(* Lists of regions are split into regions ...                             *)
LEMMA ParseRegionsType ==
  ASSUME NEW r \in Seq(STRING)
  PROVE  ParseRegions(r) \in Seq(STRING)
<1> DEFINE seqs == [k \in DOMAIN r |-> IF r[k] \in DOMAIN Lists THEN Lists[r[k]]
                                       ELSE <<r[k]>>]
<1>1. \A k \in DOMAIN r : seqs[k] \in Seq(STRING)
  <2> TAKE k \in DOMAIN r
  <2>1. <<r[k]>> \in Seq(STRING)
    OBVIOUS
  <2>2. r[k] \in DOMAIN Lists => Lists[r[k]] \in Seq(STRING)
    BY ListsAssumption
  <2> QED
    BY <2>1, <2>2
<1>2. seqs \in [1 .. Len(r) -> Seq(STRING)]
  BY <1>1
<1>3. seqs \in Seq(Seq(STRING))
  BY <1>2
<1> QED
  BY <1>3, FlattenType DEF ParseRegions

(* ... and what has no list in it stays as it is.                          *)
LEMMA NoListIsKept ==
  ASSUME NEW r \in Seq(STRING),
         \A k \in DOMAIN r : r[k] \in SupportedRegions
  PROVE  ParseRegions(r) = r
<1>1. \A k \in DOMAIN r : r[k] \notin DOMAIN Lists
  BY ListsAssumption
<1>2. [k \in DOMAIN r |-> IF r[k] \in DOMAIN Lists THEN Lists[r[k]] ELSE <<r[k]>>]
        = [k \in DOMAIN r |-> <<r[k]>>]
  BY <1>1
<1> QED
  BY <1>2, FlattenSingles DEF ParseRegions

-----------------------------------------------------------------------------
(* Names and values of the settings.                                       *)
Numbers == {"Concurrency", "Requests", "Timelimit", "Timeout"}

LEMMA Names ==
  /\ Settings = {"URL", "Concurrency", "Requests", "Timelimit", "Timeout",
                 "Regions", "Method", "Body", "Headers", "Output", "RunDocker"}
  /\ DOMAIN Zero = Settings \cup {"RunnerPath"}
<1>1. DOMAIN Zero =
        {"URL", "Concurrency", "Requests", "Timelimit", "Timeout", "Regions",
         "Method", "Body", "Headers", "Output", "RunDocker", "RunnerPath"}
  BY DEF Zero
<1> QED
  BY <1>1 DEF Settings

LEMMA NumbersAreSettings ==
  /\ Numbers \subseteq Settings /\ "Regions" \in Settings /\ "Headers" \in Settings
  /\ Settings \subseteq DOMAIN Zero /\ Required \subseteq Settings
  /\ "Regions" \notin Numbers /\ "Headers" \notin Numbers
  /\ Numbers \subseteq Required /\ "Regions" \in Required
  /\ "Headers" \notin Required /\ "Method" \notin Required
  /\ "RunnerPath" \notin Settings
BY Names DEF Numbers, Required

LEMMA Zeros ==
  /\ \A s \in Numbers : Zero[s] = 0
  /\ Zero.Regions = <<>> /\ Zero.Headers = {}
BY DEF Zero, Numbers

LEMMA Defaults ==
  /\ DOMAIN FlagDefaults = Settings
  /\ FlagDefaults.Concurrency = 10 /\ FlagDefaults.Requests = 1000
  /\ FlagDefaults.Timelimit = 3600 /\ FlagDefaults.Timeout = 15
  /\ FlagDefaults.Headers = {}
BY Names, Zeros DEF FlagDefaults, Restrict

LEMMA DefaultRegionsType ==
  /\ DefaultRegions \in Seq(STRING) /\ Len(DefaultRegions) = 3
  /\ \A k \in DOMAIN DefaultRegions : DefaultRegions[k] \in SupportedRegions
<1>1. Len(DefaultRegions) = 3 /\ DOMAIN DefaultRegions = 1 .. 3
  BY DEF DefaultRegions
<1>2. \A k \in DOMAIN DefaultRegions : DefaultRegions[k] \in STRING
  BY DefaultsAssumption, ListsAssumption
<1>3. \A S : \A a, b, c \in S : <<a, b, c>> \in Seq(S)
  OBVIOUS
<1>4. DefaultRegions \in Seq(STRING)
  <2>1. /\ DefaultRegions[1] \in STRING /\ DefaultRegions[2] \in STRING
        /\ DefaultRegions[3] \in STRING
    BY <1>1, <1>2
  <2>2. DefaultRegions = <<DefaultRegions[1], DefaultRegions[2], DefaultRegions[3]>>
    BY DEF DefaultRegions
  <2> QED
    BY ONLY <1>3, <2>1, <2>2
<1> QED
  BY <1>1, <1>4, DefaultsAssumption

-----------------------------------------------------------------------------
(* What is said has the types of the settings.                             *)
WordsOK(w) ==
  /\ \A s \in Numbers : s \in DOMAIN w => w[s] \in Int
  /\ "Regions" \in DOMAIN w => w.Regions \in Seq(STRING)

LEMMA SaidTypes ==
  ASSUME SaidOK
  PROVE  WordsOK(said) /\ WordsOK(file)
<1>1. \A w \in Files \cup CommandLines \cup Queries : WordsOK(w)
  BY SaidAssumption DEF WordsOK, Numbers
<1>2. WordsOK(Template)
  <2>1. /\ DOMAIN Template = {"Concurrency", "Requests", "Regions"}
        /\ Template.Concurrency = 10 /\ Template.Requests = 1000
        /\ Template.Regions = DefaultRegions
    BY DEF Template, DefaultRegions
  <2> QED
    BY <2>1, DefaultRegionsType DEF WordsOK, Numbers
<1>3. file = <<>> => WordsOK(file)
  <2>1. DOMAIN <<>> = {}
    OBVIOUS
  <2> QED
    BY <2>1 DEF WordsOK
<1> QED
  BY <1>1, <1>2, <1>3 DEF SaidOK

LEMMA LaidIs ==
  ASSUME NEW settings, NEW words, NEW before
  PROVE  /\ DOMAIN Laid(settings, words, before) = DOMAIN before
         /\ \A s \in DOMAIN before :
              Laid(settings, words, before)[s] =
                IF s \in settings \cap DOMAIN words THEN words[s] ELSE before[s]
BY DEF Laid

(* A configuration is well typed if its numbers and regions are.           *)
LEMMA ConfigTypes ==
  ASSUME NEW c
  PROVE  ConfigTypeOK(c) <=> (\A s \in Numbers : c[s] \in Int)
                               /\ c.Regions \in Seq(STRING)
BY DEF ConfigTypeOK, Numbers

LEMMA ZeroTypes ==
  /\ ConfigTypeOK(Zero)
  /\ ConfigTypeOK([Zero EXCEPT !.Method = "GET"])
<1>1. \A S : <<>> \in Seq(S)
  OBVIOUS
<1>2. \A s \in Numbers \cup {"Regions"} :
        [Zero EXCEPT !.Method = "GET"][s] = Zero[s]
  BY Names, NumbersAreSettings DEF Numbers
<1>3. \A s \in Numbers : Zero[s] \in Int
  BY Zeros
<1> DEFINE g == [Zero EXCEPT !.Method = "GET"]
<1>4. (\A s \in Numbers : g[s] \in Int) /\ g.Regions = <<>>
  BY <1>2, <1>3, Zeros
<1> HIDE DEF g
<1>5. ConfigTypeOK(Zero)
  BY <1>1, <1>3, Zeros, ConfigTypes
<1>6. ConfigTypeOK(g)
  BY <1>1, <1>4, ConfigTypes
<1> QED
  BY <1>5, <1>6 DEF g

LEMMA LaidTypes ==
  ASSUME NEW settings, NEW words, WordsOK(words),
         NEW before, ConfigTypeOK(before),
         Numbers \cup {"Regions"} \subseteq DOMAIN before
  PROVE  ConfigTypeOK(Laid(settings, words, before))
BY LaidIs, ConfigTypes DEF WordsOK

LEMMA AskedTypes ==
  ASSUME SaidOK
  PROVE  /\ \A s \in Numbers : Asked(s) \in Int
         /\ Asked("Regions") \in Seq(STRING)
<1>1. WordsOK(said) /\ WordsOK(file)
  BY SaidTypes
<1>2. \A s \in Numbers : FlagDefaults[s] \in Int /\ s # "Regions"
  BY Defaults DEF Numbers
<1> QED
  BY <1>1, <1>2, DefaultRegionsType DEF WordsOK, Asked, DefaultOf

-----------------------------------------------------------------------------
(* Nothing is invoked before a client is ready.                            *)
LEMMA ClientsWait ==
  ASSUME NothingInvoked, UNCHANGED <<lambdas, i, invoked, assigned, phase>>
  PROVE  NothingInvoked'
BY DEF NothingInvoked

LEMMA PlanWaits ==
  ASSUME NothingInvoked', ConfigTypeOK(config')
  PROVE  PlanInv'
BY DEF NothingInvoked, PlanInv, TypeOK

LEMMA ClientInitInv == ClientInit => ClientInv
<1> SUFFICES ASSUME ClientInit PROVE ClientInv
  OBVIOUS
<1>1. config = Zero /\ NothingInvoked /\ phase = "checking"
  BY DEF ClientInit, Init, NothingInvoked
<1>2. PlanInv
  BY <1>1, PlanInit, ZeroTypes
<1>3. SaidOK /\ stage \in {"settings", "query"}
  BY DEF ClientInit, SaidOK
<1>4. defaults = FlagDefaults
  BY DEF ClientInit
<1> QED
  BY <1>1, <1>2, <1>3, <1>4 DEF ClientInv, StagesBuildOn, ConfigIsAsked

(* The file, read.                                                         *)
LEMMA ParseSettingsStep ==
  ASSUME ClientInv, ParseSettings, UNCHANGED <<lambdas, i, invoked, assigned>>
  PROVE  ClientInv'
<1>1. /\ stage = "settings" /\ stage' = "defaults"
      /\ config' = Laid(Settings, file, Zero)
      /\ UNCHANGED <<client, file, said, defaults, phase>>
  BY DEF ParseSettings
<1>2. NothingInvoked /\ SaidOK /\ defaults = FlagDefaults
  BY <1>1 DEF ClientInv, StagesBuildOn
<1>3. NothingInvoked'
  BY <1>1, <1>2, ClientsWait
<1>4. ConfigTypeOK(config')
  BY <1>1, <1>2, SaidTypes, LaidTypes, ZeroTypes, NumbersAreSettings
<1>5. PlanInv'
  BY <1>3, <1>4, PlanWaits
<1>6. SaidOK'
  BY <1>1, <1>2 DEF SaidOK
<1> QED
  BY <1>1, <1>2, <1>3, <1>5, <1>6
  DEF ClientInv, StagesBuildOn, ConfigIsAsked

(* What the file says becomes the default.                                 *)
LEMMA ApplyDefaultsStep ==
  ASSUME ClientInv, ApplyDefaults, UNCHANGED <<lambdas, i, invoked, assigned>>
  PROVE  ClientInv'
<1>1. /\ stage = "defaults" /\ stage' = "flags"
      /\ UNCHANGED <<client, file, said, config, phase>>
      /\ defaults' = [s \in Settings |-> IF config[s] # Zero[s] THEN config[s]
                                         ELSE IF s = "Regions" THEN DefaultRegions
                                         ELSE defaults[s]]
  BY DEF ApplyDefaults
<1>2. /\ NothingInvoked /\ SaidOK /\ PlanInv /\ defaults = FlagDefaults
      /\ config = Laid(Settings, file, Zero)
  BY <1>1 DEF ClientInv, StagesBuildOn
<1>3. NothingInvoked'
  BY <1>1, <1>2, ClientsWait
<1>4. ConfigTypeOK(config')
  BY <1>1, <1>2 DEF PlanInv, TypeOK
<1>5. PlanInv'
  BY <1>3, <1>4, PlanWaits
<1>6. SaidOK'
  BY <1>1, <1>2 DEF SaidOK
<1>7. \A s \in Settings :
        config[s] = IF s \in DOMAIN file THEN file[s] ELSE Zero[s]
  BY <1>2, LaidIs, NumbersAreSettings
<1>8. defaults' = [s \in Settings |-> DefaultOf(s)']
  BY <1>1, <1>2, <1>7 DEF DefaultOf
<1> QED
  BY <1>1, <1>3, <1>5, <1>6, <1>8 DEF ClientInv, StagesBuildOn, ConfigIsAsked

(* A template is written, or cannot be.                                    *)
LEMMA WriteIniFileStep ==
  ASSUME ClientInv, WriteIniFile, UNCHANGED <<lambdas, i, invoked, assigned>>
  PROVE  ClientInv'
<1>1. /\ stage = "flags" /\ stage' = "written" /\ file' \in {Template, file}
      /\ UNCHANGED <<client, said, defaults, config, phase>>
  BY DEF WriteIniFile
<1>2. NothingInvoked /\ SaidOK /\ PlanInv
  BY <1>1 DEF ClientInv, StagesBuildOn
<1>3. NothingInvoked'
  BY <1>1, <1>2, ClientsWait
<1>4. ConfigTypeOK(config')
  BY <1>1, <1>2 DEF PlanInv, TypeOK
<1>5. PlanInv'
  BY <1>3, <1>4, PlanWaits
<1>6. SaidOK'
  BY <1>1, <1>2 DEF SaidOK
<1> QED
  BY <1>1, <1>3, <1>5, <1>6 DEF ClientInv, StagesBuildOn, ConfigIsAsked

(* The user goes on.                                                       *)
LEMMA StartAgainStep ==
  ASSUME ClientInv, StartAgain, UNCHANGED <<lambdas, i, invoked, assigned>>
  PROVE  ClientInv'
<1>1. /\ stage = "written" /\ stage' = "settings" /\ said' \in CommandLines
      /\ defaults' = FlagDefaults /\ config' = Zero
      /\ UNCHANGED <<client, file, phase>>
  BY DEF StartAgain
<1>2. NothingInvoked /\ SaidOK
  BY <1>1 DEF ClientInv, StagesBuildOn
<1>3. NothingInvoked'
  BY <1>1, <1>2, ClientsWait
<1>4. PlanInv'
  BY <1>1, <1>3, ZeroTypes, PlanWaits
<1>5. SaidOK'
  BY <1>1, <1>2 DEF SaidOK
<1> QED
  BY <1>1, <1>3, <1>4, <1>5 DEF ClientInv, StagesBuildOn, ConfigIsAsked

(* No URL was given, or something was not in the query.                    *)
LEMMA RefusedStep ==
  ASSUME ClientInv, UNCHANGED <<lambdas, i, invoked, assigned>>,
         stage \in {"flags", "query"}, stage' = "over", phase' = "rejected",
         UNCHANGED <<client, file, said, defaults, config>>
  PROVE  ClientInv'
<1>1. NothingInvoked /\ SaidOK /\ PlanInv
  BY DEF ClientInv, StagesBuildOn
<1>2. PlanInv'
  BY <1>1 DEF NothingInvoked, PlanInv, TypeOK
<1>3. SaidOK'
  BY <1>1 DEF SaidOK
<1> QED
  BY <1>2, <1>3 DEF ClientInv, StagesBuildOn, ConfigIsAsked

(* The command line, laid over the defaults.                               *)
LEMMA ParseCommandlineStep ==
  ASSUME ClientInv, ParseCommandline,
         UNCHANGED <<lambdas, i, invoked, assigned>>
  PROVE  ClientInv'
<1> DEFINE G == [Given EXCEPT !.Regions = ParseRegions(@)]
<1>1. /\ stage = "flags" /\ stage' = "extended"
      /\ config' = Laid(Settings, G, Zero)
      /\ UNCHANGED <<client, file, said, defaults, phase>>
  BY DEF ParseCommandline
<1>2. /\ NothingInvoked /\ SaidOK
      /\ defaults = [s \in Settings |-> DefaultOf(s)]
  BY <1>1 DEF ClientInv, StagesBuildOn
<1>3. NothingInvoked'
  BY <1>1, <1>2, ClientsWait
<1>4. SaidOK'
  BY <1>1, <1>2 DEF SaidOK
<1>5. DOMAIN Given = Settings /\ \A s \in Settings : Given[s] = Asked(s)
  BY <1>2, LaidIs DEF Given, Asked
<1>6. /\ DOMAIN G = Settings
      /\ \A s \in Settings :
           G[s] = IF s = "Regions" THEN ParseRegions(Asked(s)) ELSE Asked(s)
  <2>1. Given = [s \in Settings |-> Given[s]]
    BY <1>2 DEF Given, Laid
  <2> QED
    BY <1>5, <2>1, NumbersAreSettings
<1> HIDE DEF G
<1>7. /\ DOMAIN config' = DOMAIN Zero
      /\ \A s \in Settings : config'[s] = G[s]
  BY <1>1, <1>6, LaidIs, NumbersAreSettings
<1>8. ConfigTypeOK(config')
  <2>1. \A s \in Numbers : config'[s] \in Int
    BY <1>2, <1>6, <1>7, AskedTypes, NumbersAreSettings
  <2>2. config'["Regions"] \in Seq(STRING)
    BY <1>2, <1>6, <1>7, AskedTypes, ParseRegionsType, NumbersAreSettings
  <2> QED
    BY <2>1, <2>2, ConfigTypes
<1>9. PlanInv'
  BY <1>3, <1>8, PlanWaits
<1>10. \A s \in Settings : Asked(s)' = Asked(s)
  BY <1>1 DEF Asked, DefaultOf
<1>11. \A s \in Settings :
         config'[s] = IF s = "Regions" THEN ParseRegions(Asked(s)')
                      ELSE Asked(s)'
  BY <1>6, <1>7, <1>10
<1> QED
  BY <1>1, <1>3, <1>4, <1>7, <1>9, <1>11
  DEF ClientInv, StagesBuildOn, ConfigIsAsked

(* The path of the runner comes from the file and nothing else does.       *)
LEMMA ApplyExtendedStep ==
  ASSUME ClientInv, ApplyExtendedConfiguration,
         UNCHANGED <<lambdas, i, invoked, assigned>>
  PROVE  ClientInv'
<1>1. /\ stage = "extended" /\ stage' = "ready"
      /\ config' = Laid({"RunnerPath"}, file, config)
      /\ UNCHANGED <<client, file, said, defaults, phase>>
  BY DEF ApplyExtendedConfiguration
<1>2. NothingInvoked /\ SaidOK /\ PlanInv /\ client = "cli"
  BY <1>1 DEF ClientInv, StagesBuildOn, SaidOK
<1>3. /\ DOMAIN config = DOMAIN Zero
      /\ \A s \in Settings :
           config[s] = IF s = "Regions" THEN ParseRegions(Asked(s)) ELSE Asked(s)
  BY <1>1, <1>2 DEF ClientInv, ConfigIsAsked
<1>4. NothingInvoked' /\ phase' = "checking"
  BY <1>1, <1>2, ClientsWait DEF NothingInvoked
<1>5. SaidOK'
  BY <1>1, <1>2 DEF SaidOK
<1>6. /\ DOMAIN config' = DOMAIN Zero
      /\ \A s \in Settings : config'[s] = config[s]
  BY <1>1, <1>3, LaidIs, NumbersAreSettings
<1>7. ConfigTypeOK(config')
  <2>1. ConfigTypeOK(config)
    BY <1>2 DEF PlanInv, TypeOK
  <2> QED
    BY <1>6, <2>1, ConfigTypes, NumbersAreSettings
<1>8. PlanInv'
  BY <1>4, <1>7, PlanWaits
<1>9. \A s \in Settings : Asked(s)' = Asked(s)
  BY <1>1 DEF Asked, DefaultOf
<1>10. \A s \in Settings :
         config'[s] = IF s = "Regions" THEN ParseRegions(Asked(s)')
                      ELSE Asked(s)'
  BY <1>3, <1>6, <1>9
<1> QED
  BY <1>1, <1>2, <1>4, <1>5, <1>6, <1>8, <1>10
  DEF ClientInv, StagesBuildOn, ConfigIsAsked

(* A query with all that is required.                                      *)
LEMMA ServeResultsStep ==
  ASSUME ClientInv, ServeResults, UNCHANGED <<lambdas, i, invoked, assigned>>
  PROVE  ClientInv'
<1> DEFINE get == [Zero EXCEPT !.Method = "GET"]
<1>1. stage = "query" /\ UNCHANGED <<client, file, said, defaults>>
  BY DEF ServeResults
<1>2. NothingInvoked /\ SaidOK /\ client = "web"
  BY <1>1 DEF ClientInv, StagesBuildOn, SaidOK
<1>3. CASE Required \subseteq DOMAIN said
  <2>1. /\ config' = Laid(Required, said, get) /\ stage' = "ready"
        /\ UNCHANGED phase
    BY <1>3 DEF ServeResults
  <2>2. NothingInvoked' /\ phase' = "checking"
    BY <1>1, <1>2, <2>1, ClientsWait DEF NothingInvoked
  <2>3. SaidOK'
    BY <1>1, <1>2, <2>1 DEF SaidOK
  <2>4. DOMAIN get = DOMAIN Zero /\ ConfigTypeOK(get)
    BY ZeroTypes
  <2> HIDE DEF get
  <2>5. ConfigTypeOK(config')
    BY <1>2, <2>1, <2>4, SaidTypes, LaidTypes, NumbersAreSettings
  <2>6. PlanInv'
    BY <2>2, <2>5, PlanWaits
  <2> QED
    BY <1>1, <1>2, <1>3, <2>1, <2>2, <2>3, <2>6
    DEF ClientInv, StagesBuildOn, ConfigIsAsked, get
<1>4. CASE ~ (Required \subseteq DOMAIN said)
  <2>1. phase' = "rejected" /\ stage' = "over" /\ UNCHANGED config
    BY <1>4 DEF ServeResults
  <2> QED
    BY <1>1, <2>1, RefusedStep
<1> QED
  BY <1>3, <1>4

(* The connection fails before anything is set up.                         *)
LEMMA UpgradeFailsStep ==
  ASSUME ClientInv, UpgradeFails, UNCHANGED <<lambdas, i, invoked, assigned>>
  PROVE  ClientInv'
<1>1. /\ client = "web" /\ phase = "setup" /\ phase' = "rejected"
      /\ UNCHANGED <<config, client, file, said, defaults, stage>>
  BY DEF UpgradeFails, clientVars
<1>2. SaidOK /\ PlanInv /\ stage = "ready"
  BY <1>1 DEF ClientInv, StagesBuildOn, NothingInvoked, SaidOK
<1>3. PlanInv'
  BY <1>1, <1>2 DEF PlanInv, TypeOK, RegionIndex
<1>4. SaidOK'
  BY <1>1, <1>2 DEF SaidOK
<1> QED
  BY <1>1, <1>2, <1>3, <1>4 DEF ClientInv, StagesBuildOn, ConfigIsAsked

(* The plan is made; the configuration stays as it is.                     *)
LEMMA ReadyStep ==
  ASSUME ClientInv, stage = "ready", Next, UNCHANGED clientVars
  PROVE  ClientInv'
<1>1. UNCHANGED <<client, file, said, defaults, stage>>
  BY DEF clientVars
<1>2. SaidOK /\ PlanInv /\ ConfigIsAsked
  BY DEF ClientInv
<1>3. PlanInv'
  BY <1>2, PlanNext
<1>4. /\ config' = config
      /\ phase' = "rejected" => ~ Check(config)
  BY DEF Next, CheckConfig, Setup, Invoke, InvokeLambdasReturns
<1>5. SaidOK'
  BY <1>1, <1>2 DEF SaidOK
<1>6. \A s \in Settings : Asked(s)' = Asked(s)
  BY <1>1 DEF Asked, DefaultOf
<1>7. ConfigIsAsked'
  BY <1>1, <1>2, <1>4, <1>6 DEF ConfigIsAsked
<1> QED
  BY <1>1, <1>3, <1>5, <1>7 DEF ClientInv, StagesBuildOn

LEMMA ClientNextInv == ClientInv /\ [ClientNext]_<<vars, clientVars>> => ClientInv'
<1> SUFFICES ASSUME ClientInv, [ClientNext]_<<vars, clientVars>>
             PROVE  ClientInv'
  OBVIOUS
<1>1. CASE UNCHANGED <<vars, clientVars>>
  BY <1>1 DEF vars, clientVars, ClientInv, SaidOK, StagesBuildOn, ConfigIsAsked,
     NothingInvoked, PlanInv, TypeOK, RegionIndex, Asked, DefaultOf
<1>2. CASE ClientStep /\ UNCHANGED <<lambdas, i, invoked, assigned>>
  <2>1. CASE NoURL
    BY <1>2, <2>1, RefusedStep DEF NoURL
  <2> QED
    BY <1>2, <2>1, ParseSettingsStep, ApplyDefaultsStep, WriteIniFileStep,
       ParseCommandlineStep, ApplyExtendedStep, StartAgainStep,
       ServeResultsStep, UpgradeFailsStep DEF ClientStep
<1>3. CASE stage = "ready" /\ Next /\ UNCHANGED clientVars
  BY <1>3, ReadyStep
<1> QED
  BY <1>1, <1>2, <1>3 DEF ClientNext

(* From a command line, a file or a query to the last runner: each stage   *)
(* makes of what was said what it has to, and the plan is the one of a     *)
(* configuration that passes the check.                                    *)
THEOREM ClientInvariant == ClientSpec => []ClientInv
BY ClientInitInv, ClientNextInv, PTL DEF ClientSpec

(* What is proved of the plan of a given configuration holds for the       *)
(* configurations users really bring about.                                *)
THEOREM ClientsArePlannedFor ==
  ClientSpec => [](/\ LambdasInRange /\ RequestsAddUp
                   /\ ConcurrencyIsRespected /\ EveryRegionServed)
<1>1. ClientInv => /\ LambdasInRange /\ RequestsAddUp
                   /\ ConcurrencyIsRespected /\ EveryRegionServed
  BY RunnersAreInRange, SharesAddUp, SharesAreWithin, TurnsServeRegions
  DEF ClientInv
<1> QED
  BY <1>1, ClientInvariant, PTL

-----------------------------------------------------------------------------
(* Once all runners are invoked.                                           *)
LEMMA InvokedIsReady ==
  ASSUME ClientInv, phase = "invoked"
  PROVE  /\ stage = "ready" /\ Check(config) /\ ConfigTypeOK(config)
         /\ client \in {"cli", "web"}
BY DEF ClientInv, SaidOK, StagesBuildOn, NothingInvoked, PlanInv, TypeOK

(* The settings the runners go by are those that were asked for.           *)
LEMMA ReadyIsAsked ==
  ASSUME ClientInv, phase = "invoked"
  PROVE  /\ \A s \in Numbers : config[s] = Asked(s)
         /\ config.Headers = IF client = "cli" THEN Asked("Headers") ELSE {}
         /\ config.Regions = ParseRegions(Asked("Regions"))
<1>1. stage = "ready" /\ Check(config) /\ ConfigTypeOK(config) /\ ConfigIsAsked
  BY InvokedIsReady DEF ClientInv
<1>2. CASE client = "cli"
  <2>1. \A s \in Settings :
          config[s] = IF s = "Regions" THEN ParseRegions(Asked(s)) ELSE Asked(s)
    BY <1>1, <1>2 DEF ConfigIsAsked
  <2> QED
    BY <1>2, <2>1, NumbersAreSettings
<1>3. CASE client = "web"
  <2> DEFINE get == [Zero EXCEPT !.Method = "GET"]
  <2>1. DOMAIN get = DOMAIN Zero /\ get.Headers = {}
    BY Names, Zeros
  <2>2. Required \subseteq DOMAIN said /\ config = Laid(Required, said, get)
    BY <1>1, <1>3 DEF ConfigIsAsked
  <2> HIDE DEF get
  <2>3. \A s \in Required : config[s] = said[s] /\ Asked(s) = said[s]
    BY <2>1, <2>2, LaidIs, NumbersAreSettings DEF Asked
  <2>4. config.Headers = {}
    BY <2>1, <2>2, LaidIs, NumbersAreSettings
  <2>5. \A k \in DOMAIN config.Regions : config.Regions[k] \in SupportedRegions
    BY <1>1 DEF Check
  <2>6. config.Regions = ParseRegions(config.Regions)
    BY <1>1, <2>5, NoListIsKept DEF ConfigTypeOK
  <2> QED
    BY <1>3, <2>3, <2>4, <2>6, NumbersAreSettings
<1> QED
  BY <1>2, <1>3, InvokedIsReady

(* Whoever asked, and wherever it was said: the runners together do what   *)
(* was asked for.                                                          *)
THEOREM RunnersDoWhatWasAsked == ClientSpec => []AskedIsWhatRuns
<1>1. ClientInv => AskedIsWhatRuns
  <2> SUFFICES ASSUME ClientInv, phase = "invoked" PROVE AskedIsWhatRuns
    BY DEF AskedIsWhatRuns
  <2>1. /\ config.Requests = Asked("Requests")
        /\ config.Concurrency = Asked("Concurrency")
        /\ config.Timelimit = Asked("Timelimit")
        /\ config.Headers = IF client = "cli" THEN Asked("Headers") ELSE {}
        /\ config.Regions = ParseRegions(Asked("Regions"))
    BY ReadyIsAsked DEF Numbers
  <2>2. /\ config.Requests >= 0 => assigned.requests = config.Requests
        /\ assigned.concurrency <= config.Concurrency
    BY SharesAddUp, SharesAreWithin
    DEF ClientInv, RequestsAddUp, ConcurrencyIsRespected
  <2>3. /\ ConfigTypeOK(config) /\ Check(config) /\ i \in Nat
        /\ Len(invoked) = i /\ \E S : invoked \in Seq(S)
        /\ \A k \in 1 .. i : /\ invoked[k].region = RegionIndex(k - 1)
                              /\ invoked[k].executionTime = config.Timelimit
    BY InvokedIsReady DEF ClientInv, PlanInv, TypeOK
  <2>4. DOMAIN invoked = 1 .. i
    BY <2>3
  <2> DEFINE b == Len(config.Regions)
  <2>5. b \in Nat \ {0} /\ DOMAIN config.Regions = 1 .. b
    BY <2>3, CheckedConfig DEF ConfigTypeOK
  <2>6. ASSUME NEW k \in 1 .. i
        PROVE  config.Regions[invoked[k].region] \in ToSet(config.Regions)
    <3>1. invoked[k].region = ((k - 1) % b) + 1 /\ k - 1 \in Nat
      <4>1. invoked[k].region = RegionIndex(k - 1)
        BY <2>3
      <4>2. RegionIndex(k - 1) = ((k - 1) % b) + 1
        BY DEF RegionIndex
      <4>3. k - 1 \in Nat
        BY <2>3
      <4> QED
        BY <4>1, <4>2, <4>3
    <3> HIDE DEF b
    <3>2. (k - 1) % b \in 0 .. b - 1
      BY <2>5, <3>1, Modulo
    <3>3. invoked[k].region \in 1 .. b
      BY <2>5, <3>1, <3>2
    <3> QED
      BY <2>5, <3>3 DEF ToSet
  <2> QED
    BY <2>1, <2>2, <2>3, <2>4, <2>6 DEF AskedIsWhatRuns
<1> QED
  BY <1>1, ClientInvariant, PTL

-----------------------------------------------------------------------------
(* The template says what is the default.                                  *)
LEMMA TemplateSaysDefaults ==
  ASSUME file = Template, NEW s \in Settings
  PROVE  DefaultOf(s) = IF s = "Regions" THEN DefaultRegions ELSE FlagDefaults[s]
<1>1. /\ DOMAIN Template = {"Concurrency", "Requests", "Regions"}
      /\ Template.Concurrency = 10 /\ Template.Requests = 1000
      /\ Template.Regions = DefaultRegions
  BY DEF Template, DefaultRegions
<1> QED
  BY <1>1, Defaults DEF DefaultOf

(* With all defaults there is nothing to refuse.                           *)
LEMMA DefaultsAreValid ==
  ASSUME NEW c,
         \A s \in Settings \ {"URL"} :
           c[s] = IF s = "Regions" THEN DefaultRegions ELSE FlagDefaults[s]
  PROVE  Check(c)
<1>1. /\ c.Concurrency = 10 /\ c.Requests = 1000 /\ c.Timelimit = 3600
      /\ c.Timeout = 15 /\ c.Headers = {} /\ c.Regions = DefaultRegions
  BY Defaults, Names
<1> QED
  BY <1>1, DefaultRegionsType DEF Check, MAX_REQUEST_COUNT

(* To have goad.ini written changes no later test, and with it a URL is    *)
(* all that is needed.                                                     *)
THEOREM TemplateStaysNeutral == ClientSpec => []TemplateIsNeutral
<1>1. ClientInv => TemplateIsNeutral
  <2> SUFFICES ASSUME ClientInv, client = "cli", file = Template, stage = "ready"
               PROVE  TemplateIsNeutral
    BY DEF TemplateIsNeutral
  <2>1. \A s \in Settings :
          config[s] = IF s = "Regions" THEN ParseRegions(Asked(s)) ELSE Asked(s)
    BY DEF ClientInv, ConfigIsAsked
  <2>2. ParseRegions(DefaultRegions) = DefaultRegions
    BY DefaultRegionsType, NoListIsKept
  <2>3. \A s \in Settings \ DOMAIN said :
          config[s] = IF s = "Regions" THEN DefaultRegions ELSE FlagDefaults[s]
    BY <2>1, <2>2, TemplateSaysDefaults DEF Asked
  <2>4. DOMAIN said = {"URL"} => Check(config)
    BY <2>3, DefaultsAreValid
  <2>5. phase = "rejected" => ~ Check(config)
    BY DEF ClientInv, ConfigIsAsked
  <2> QED
    BY <2>3, <2>4, <2>5 DEF TemplateIsNeutral
<1> QED
  BY <1>1, ClientInvariant, PTL
=============================================================================
