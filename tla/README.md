# Goad in TLA+

Goad loads a web site from many places at once. A client divides a test among
*runners*, each an AWS Lambda function (or a docker container) with a number of
concurrent workers. A runner works until its requests are done or its time is
over; a function may live for 300 seconds only, so a runner that needs longer
starts a successor and hands the rest of its work over. All runners report
through one queue to the client, which adds the reports up and shows them.

These modules specify that program as its Go code has it: how what a user says
becomes a configuration and a configuration is divided among runners; what the
client sets up in an AWS account or on a machine with docker, next to other
clients that do the same; what a runner process promises and does; how the
reports of a session come together; and what the numbers shown at the end mean.
TLC checks them on small instances; for the runner, the division of a test, the
session on AWS, its provisioning, sessions on docker and the numbers shown at the
end, TLAPS proves the safety properties for all values of the constants.

Paths below are those of the repository, under `src/`.

## 1. The system

### Components

| Component | Code | State | Operations | What makes it correct |
|---|---|---|---|---|
| Runner process | `lambda/lambda.go` | settings (flags), job channel, workers, metrics of the open window, ticker, quit timer | spawn, take a job, fetch, receive a result, report on a tick, notice that all workers are gone, notice that time is over, fork, last report | no request lost or counted twice; "finished" is true; a fork gets exactly the rest |
| Runner metrics | `lambda/lambda.go` 457-547 | counts, times, averages, extremes of a window | add a result, aggregate, reset | the numbers are those of the requests |
| Division of the load | `goad/types/types.go`, `goad/goad.go`, `infrastructure/infrastructure.go` | loop counter | check a configuration, choose the number of runners, divide requests and concurrency, deal out regions | shares add up; the concurrency is never exceeded |
| SQS adapter | `infrastructure/aws/sqsadapter/sqsadapter.go` | none (the queue) | send a result; receive a batch and delete it | a result is given to the client once, in order |
| Collection | `infrastructure/aws/aws.go` 56-82, `goad/goad.go` 17-41, readers in `cli/cli.go`, `webapi/webapi.go` | aggregated data (shared by pointer), idle time | add a result, offer the data to the reader, stop when all runners are finished or after 20 s without a message | nothing lost on the way; the client stops waiting |
| Results and summaries | `result/result.go`, `cli/cli.go` | one `AggData` per runner | add a report, sum by region and overall | averages and extremes mean what they say |
| Provisioning on AWS | `infrastructure/aws/aws.go` 116-400 | role, policy, function, alias, queue | get or create each | works again after a failure half way; two clients at once |
| Docker infrastructure | `infrastructure/docker/docker.go` | broker container, queue, runner containers | set up, run, receive, tear down | sessions do not disturb each other |
| Command line | `cli/cli.go`, `cli/config_template.go` | configuration, `goad.ini` | merge flags, `goad.ini`, defaults; write a template; draw; save results | what was said, wherever it was said, is what runs |
| Web API | `webapi/webapi.go` | one web socket per session | start a test, stream results | a closed socket ends the session |
| Packaging, version, node wrapper | `infrastructure/compress.go`, `version/version.go`, `data/lambda/index.js` | none | | |

### How they interact

    cli / webapi --Check--> goad.Start --Setup--> infrastructure (role, function, queue)
                               |  --InvokeLambdas--> go inf.Run(args)   one goroutine per runner
                               |                          |
                               |                     runner process --fork (Invoke, waits)--> successor ...
                               |                          |  SendResult (ticks, last report)
                               v                          v
    reader <--- relay <--- Receive <--receive, delete--- FIFO queue

* *Calls*: the client starts runners and ignores errors; a runner starts its
  successor with a synchronous `Invoke` and waits for it.
* *Messages*: all reports of all runners are in one message group of the queue.
* *Shared memory*: `Receive` hands the same pointer over and over; the reader
  ranges over maps that the next report is added to.
* *Channels*: `Receive`, the relay goroutine of `goad.Start` and the reader are
  connected by unbuffered channels that nobody closes from the reader's end.

### What is hard

* In a runner, workers, a ticker, a timer and a new `wg.Wait` goroutine per
  evaluation of the `select` meet in any order.
* Over a chain of forks, counts and time left are passed on as flags, in which
  0 means "no limit".
* A process may be ended at any time; a fork, an invocation, a report may fail.
* The queue's delete may fail, as a whole or for single messages.
* A verdict "finished" is overwritten by every report, so it depends on order.
* Reports are averages of windows that are cut anywhere, added up with integer
  division and with sentinels (0 and MaxInt64) among the measurements.
* A division of requests and concurrency with thresholds and remainders.
* `Setup` looks up and then creates, call by call, in an account or on a machine
  that other clients use, and a client may be stopped between any two calls.
* On docker all clients share one broker with one queue, and a teardown stops
  what it finds, whosever it is, while goroutines of its own still start things.
* The zero value means "not said" from `goad.ini` to the configuration.

`PROJECT.json` lists each of these hazards at its line, with the properties that
would catch it, or with the reason why none does yet.

## 2. The modules

| Module | Models |
|---|---|
| `RunnerArgs` | the flags of a runner and the arithmetic on them: requests remaining, time of a process, time left, flags of a fork. No state. |
| `RunnerContract` | abstract specification: what one runner process promises to the session, as one sequential process |
| `Runner` | the process in detail: main loop, workers, waiter goroutine, ticker, timer, fork |
| `RunnerProofs` | theorems about `Runner`, among them that it implements `RunnerContract` |
| `LoadPlan` | from a configuration to the command lines of all runners |
| `LoadPlanProofs` | theorems about `LoadPlan` |
| `Collector` | the queue, the adapter, the receive loop, the relay and its reader |
| `Session` | a test on AWS: a chain of `RunnerContract` processes per runner, with the `Collector` |
| `SessionProofs` | theorems about `Session` |
| `Results` | the numbers: clock, overlapping requests, window metrics, aggregated data, summaries |
| `ResultsProofs` | theorems about `Results` |
| `ClientConfig` | extends `LoadPlan` to its front: from `goad.ini`, command lines and web queries to the configuration |
| `ClientConfigProofs` | theorems about `ClientConfig` |
| `Start` | base of the two that follow: clients that start one program after the other on a platform |
| `AwsProvision` | `Setup` on AWS, call by call, by clients that share an account; which code a runner is called with, and where |
| `AwsProvisionProofs` | theorems about `AwsProvision` |
| `DockerInfra` | a whole test on docker, by clients that share a machine |
| `Platforms` | both platforms together: every client on the one its configuration names |
| `DockerInfraProofs` | theorems about `DockerInfra` and `Platforms` |
| `Sums` | lemmas about `SumFunction` and `SumFunctionOnSet` of the community modules, for the proofs |
| `MCRunner`, `MCLoadPlan`, `MCSession`, `MCResults`, `MCPlatforms` | values of constants for TLC |

Operators whose name has an underscore followed by a deviation
(`ReceiveResult_Lossy`, `NextRegion_OnlyFirst`) are not part of the
specifications: they are the mistakes that each property has been seen to catch.
`PROJECT.json` names them under "mutants", and under "map" the source lines of
every definition.

### Runner

`given` is the command line the process was started with, `settings` is
`l.Settings`, which it changes. A worker is a value: `unborn`, `loop` (about to
look for a job), `fetching`, one of three outcomes (it holds a result and blocks
on the unbuffered channel), `exited`. `jobs` counts the tokens left in the
closed, pre-filled channel. A rendezvous on `l.results` is one step.

Each turn of the main loop evaluates the `select` anew and thereby starts a new
goroutine that waits for the workers and then answers on a channel of its own.
Only the channel of the current evaluation is listened to, so `waiter` is the
state of that goroutine and every turn resets it. `tick` and `quit` are the
pending values of ticker and timer. On `quit` the process either closes
(`TimeIsOver`) or forks; in `invoking` it waits for its successor while its
workers go on until each is stuck with a result. `SendFinal` is the last report.
`Killed` stands for everything that ends a process from outside or by a panic.
A report that cannot be sent ends the process as well (`failOnError`).

`reported` is what the receiver was told so far: `Received` does what
`AddResult` does there.

### RunnerContract and the refinement

The contract has no workers and no channels: it counts a request, reports what
is not yet reported, completes, runs out of the test's time or of its own, hands
over, sends the last report, dies. `Runner` maps its phases to the four states
of the contract, its counter to `counted` and the receiver's total to `sent`.
Steps of workers, ticker, timer and waiter are stutters.

### LoadPlan

One configuration is checked, and either rejected or set up and invoked runner
by runner, as `InvokeLambdas` does. Division follows Go: it truncates towards
zero, since a number of requests may be negative when there is a time limit.

### ClientConfig

`said` is the command line or the query, `file` is `goad.ini`; both are
functions from the settings they name to values. The steps are those of
`aggregateConfiguration`: the file is read into `config`; what is not zero there
becomes the default of its flag (`defaults`), a list as a whole; the command
line is laid over the defaults into a new configuration; the file is read again
for `task.runner`. `--create-ini-template` replaces the file and exits, a missing
URL exits. The web API takes no defaults and no file (`ServeResults`). At stage
`ready` the actions of `LoadPlan` go on with the configuration, so the runs of
this module check the way from the user to the flags of the runners as a whole.

### AwsProvision

The account is `role`, `policy`, `function` (the build that is installed, by
region), `alias` and `queues`. `setup` says which call a client makes next; each
action is one call with the code up to the next one, so another client may come
in between any two. `Fails` ends a client at any of them: an error that `Setup`
returns and `Start` panics with, or a signal. A creation that finds its object
there is refused (`Refuse`), and so fails. After `Setup` a client calls runners
(`InvokeLambda`) and these call successors (`ForkLambda`); `called` remembers
where that happened and which build ran. The history variables say what a client
met: another Setup at the same time (`overlapped`), another build installed since
it started (`overtaken`), a lookup of an alias that failed for another reason
(`blind`), a creator of the role that did not put its policy (`givenUp`).

A build is the zip and the name of the alias, which both belong to a version of
goad. The test itself is module `Session`; here it is one state, `testing`.

### DockerInfra

The machine is `network`, `broker` with its state, and `channel`, the queue while
nobody consumes it. `session` is where a client is in `Setup`, the test, or
`Teardown`; next to it run one goroutine per runner (`RunAsDockerContainer`) and
`Receive` (`Dial`, `AddNext`), from the end of `Setup` until the program is over,
the teardown included. The broker gives a message at once to one of its
consumers (auto-ack, no prefetch limit), so `inbox` holds messages the broker has
forgotten. A teardown stops the broker, which drops the queue and cuts all
connections, and the runners of all clients, and removes the network, which is
refused while a container is up in it. `Panic`, `Dies` stand for the ways a
program ends early: a panic, `log.Fatalf`, a fatal error of the runtime, a signal;
what it died of is kept in `cause`. `WaitForBroker` gives up after 30 tries, also on
a broker that only boots slowly. `AddNext` and `AddEmpty` may end the program by the
data race of `docker.go:266-268`: the result is added to maps behind the pointer that
the reader was given before, as on AWS (`RaceCrash` of `Collector`).

One report stands for all a runner sends: only its last one says Finished, and
`AddResult` adds up counts as in `Collector`. Runners that run out of time cannot
start a successor on this platform (there is no function to invoke) and say so.

### Platforms

`Init` chooses the platform of every client. Account and machine share nothing,
so their steps interleave freely; the instance puts both clients on one platform,
where they meet.

### Collector and Session

The queue is a sequence, since all messages share one message group. A call of
the adapter is two steps: it receives a first part of the queue, then deletes it
(`DeleteBatch`), fails to (`DeleteFails`, with or without effect) or does so in
part (`DeletePartly`). Each result is added and the data offered to the relay
before the next one is added. `idle` counts calls that returned nothing in a
row; `IdleLimit` of them stand for 20 seconds. `RaceCrash` is the data race on
the shared maps: while the reader may be ranging over them, adding ends the
program or goes well.

`Session` adds the processes. `chain[id]` is the sequence of processes of runner
`id`; a process does what `RunnerContract` allows (`ProcessesKeepContract`
checks that every step of it is one), except that its last report waits for its
successor's end. So what is proved of `Runner` is what `Session` relies on.

### Results

A clock runs; workers start and end requests in it; their results reach the
metrics in any order, and a window may be closed between any two of them.
`Fetched` says which durations each outcome leaves at 0. `AddResult` and
`SumAggData` are those of package `result`. The other runner of the test is one
of a few constant values (`Neighbours`). `measured` and `windows` remember the
true durations and the number of reports for the properties to compare with.

## 3. What TLC checks

| Run | Instance | Question |
|---|---|---|
| `runner` | two workers; limits -1, 0, 1, 3; up to one request done before; time limits -1 .. 5 around a process time of 2; one header | safety of the runner, its inductive invariant, and the refinement to the contract |
| `runner_live` | two workers, limits 0 and 2, time limits 0 and 1 | does a process end? |
| `load_plan` | command lines with and without each kind of flag over files that are silent, the template, full or wrong; queries with concurrencies around every threshold of `numberOfLambdas` and limit of `Check`, up to three regions | does what was asked for run? does the division add up? |
| `results` | two workers, three requests, four units of time, three kinds of neighbour | are the numbers right? |
| `session` | two runners, one that forks once and one without a limit on its requests; no faults of the queue | is everything reported accounted for? |
| `session_faults` | one runner that forks; deletes fail, or leave up to one message | the same under failures, and does the client stop waiting? |
| `platforms` | two clients and three programs: on AWS with two builds, one or two regions, an account used by any build before; on docker with one and two runners, one test longer than a runner may take | what is sure after a setup, what may go wrong and because of what, and is it over some time? |

### The properties

*Runner.* `JobsConserved`: every job of a limited runner is in the channel, with
a worker or counted. `CountsAreExact`: what was reported and the open window
make up what was counted. `FinishedIsTrue`: a report that says Finished is the
last one, and either all requests are reported or the time is over.
`ForkResumes`: a fork gets exactly the requests not counted and the time left,
and a limited time never turns into 0. `ForkRepeatsOnePerWorker`: what a fork
repeats is at most one request per worker. `ImplementsContract`: the refinement.
`EndsByItself`, `Ends`: liveness.

*LoadPlan.* `LambdasInRange`: 1 to concurrency runners, so nothing divides by 0
and no runner gets 0 workers. `RequestsAddUp`. `ConcurrencyIsRespected`: never
above what was asked for, and below it by less than one per runner.
`EveryRegionServed`: runners are dealt out evenly.

*ClientConfig.* `AskedIsWhatRuns`: the number of requests, the concurrency, the
time and the regions the runners get are those on the command line, else those
of the file unless they are zero or empty, else the defaults; lists are never
joined. `TemplateIsNeutral`: the template repeats the defaults of the program, so that
writing `goad.ini` changes no later test, and a URL alone is a valid command line. `ClientInv`: the inductive invariant behind these
and the properties of the plan.

*AwsProvision.* `ReadyIsProvisioned`: a `Setup` that returns has a role, a queue
of its own and the function in all regions, whatever others did meanwhile.
`PolicyGapIsForGood`: the role lacks its policy exactly while its creator is about
to put it, and for ever when that client did not. `OwnBuildUnlessOvertaken`: all
runners, late successors too, run the build of their client unless another build
was installed since it started. `RefusedOnlyByRace`: remains of a client that was
stopped anywhere are never in the way of a later one. `SetupEnds`.

*DockerInfra.* `AloneResultsAreOwn`: without another client or remains of one that
was killed, every report of the own runners is in the results or on the way, and
no other, also after a client that was interrupted. `FailureHasCause`: what each kind
of early end needs, signals and calls that fail by themselves aside: a broker that is
not reached or an unknown runner id needs another client, its remains or an interrupt;
a conflict a client at the same time, a foreign result or an interrupt; the data race
nobody else, but then a report of an own runner. `CleanWhenAllOver`: after regular ends, in whatever order they
overlapped, network and containers are gone. `LoneSessionEnds`: no wait of a client
that has the machine to itself is in vain, for the broker, for reports sent before
`Receive` has dialled, or in the teardown. A client one of whose runners dies or runs
out of time is excluded: `Receive` on docker then waits for ever.

*Session.* `ReportsAccountedFor`: every request reported is in the results, in
the adapter's hands, in the queue, or in a batch whose deletion failed; whatever
is in the results beyond that comes from partial deletions.
`ChainStaysWithinLimit`: the processes of a chain together never count more than
the runner was given. `FinishedRunnerIsComplete`: a runner without successor
that is shown as finished has all its counts in the results, and has reached its
limit or its time. `UnfinishedOnlyByParent`: "finished" is taken back only by
the late report of a process that forked or a message delivered again.
`ProcessesKeepContract`, `SessionEnds`.

*Results.* `CountsAddUp`: errors are exactly timeouts, connection errors and bad
statuses. `AverageIsNear`: the average shown is never above the true mean and
below it by less than the number of reports with a success. `ExtremesAreExact`:
without redirects fastest and slowest are exact and the averages between them.
`SequentialTimeIsReal`: with one worker and every request answered, the time
reported is at least that of the requests and at most the time passed.
No request has the time 0 that means "none yet": the clock starts at 1, as the first
request starts after `StartTime` is taken (`lambda/lambda.go:146`).
`SummariesAgree`: every request is shown under one region, and no region is beyond
the extremes of the whole. The other counts are summed by the same lines.

### Bounds, and why they are enough

* *Two workers* give every order of two results, of a result and an exit, and of
  two exits; main treats workers alike, and more add nothing that two cannot do
  to each other. The proofs are for any number.
* *Limits 1 and 3* are below and above the number of workers; 0 and -1 are the
  two kinds of "unlimited". *Time limits* are below, at, above and at a non-
  multiple of the time of a process. `FetchBound` ends an unlimited runner's
  exploration after two counted results, one window and one more.
* *One fork* per chain: what a fork passes on is one function of what it got,
  and `ForkResumes` is proved of every process in a chain.
* *`BatchSize` 2* gives a batch that is all of the queue and one that is not.
  *`IdleLimit` 1* gives an empty call that is tolerated and one that is not.
  *`MaxRepeats` 1* caps messages kept by partial deletes; without a cap they
  could come again for ever.
* *`CountBound`* caps the requests of a runner without a limit.
* *Three requests in four units of time* let two requests overlap, end in either
  order, fall in one to three windows, and fail in every combination.
* *Configurations*: one below, at and above every constant that the code
  compares with. Files and command lines name each setting at least once on
  either side, on both and on none, with zero among the values.
* *Two clients, three starts* (`MaxStarts`): two at once, one after the other, and
  a third that meets what an overlapping pair has left. Setup treats other clients
  alike. Two regions give a loop that has a next region and one that has not;
  the clients share one of them. On docker each client runs once: who starts
  again is another client, and the machine remembers nothing of a client but its
  objects.
* *Two runners against one* on docker: runner 1 does not exist for the client that
  takes over the other's message.
* *One client that may be interrupted* (`Impatient`), the one with one runner: a
  runner or a connection that is late for the teardown needs no second one. The
  same properties hold when both may be, over more than twice as many states;
  only the temporal check takes too long to repeat at every change.

Most runs say `CHECK_DEADLOCK FALSE`: a process, a plan and a session end.

### Fairness

* `WorkFairness` (`Runner`): goroutines that can run do run; a fetch ends,
  because the HTTP client has a timeout; `Invoke` returns, because a function's
  time is limited. `select` chooses at random among ready cases, so the answer
  of a waiter that is ready again and again is taken: strong fairness of
  `OnAllDone`, since each tick makes main begin a new wait.
* `TimerFairness`: the timer fires and is heard. It is an assumption only of
  `Ends`. `EndsByItself` holds without it, so a limited runner does not rely on
  its timer.
* `CollectorFairness` (`Session`): the receive loop and the reader go on as long
  as they can. Nothing is assumed of the runners, which may die or be slow, nor
  of the queue. `SessionEnds` therefore says that the client stops waiting
  whatever happens to them.

* `AwsFairness`: some client in `Setup` makes its next call as long as one can
  (every call of the SDK returns, with an error in the worst case).
* `DockerFairness`: while a goroutine, the booting broker or a container can go
  on, one of them does. Interrupts, kills and dying runners are not forced.

### Where code and text disagree

Each of these runs has TLC find the counterexample.

* `runner_fatal`: after more than half of a window's requests have failed, the
  report says "Over 50% of requests failed, aborting" (`lambda/lambda.go:519`).
  Nothing reads it: the workers go on.
* `runner_fork_headers`: the flags of a fork leave out the headers
  (`lambda/lambda.go:569`), so from the first fork on the requests are sent
  without them.
* `load_plan_unlimited`: with fewer requests than runners, all runners but the
  last get `--requests=0`, which is "unlimited"
  (`infrastructure/infrastructure.go:33`, `lambda/lambda.go:344`).
* `session_lost_window`: a process that forks sends its last window after its
  successor has ended (`lambda/lambda.go:191`); by then the successor's Finished
  has ended the collection, and the window is missing from the results.
* `platforms_regions`: all runners are invoked through a client of the first
  region (`infrastructure/aws/aws.go:44`, 90), though each is told, and reports
  about, its own; the README promises loads "from up to four AWS regions at once".
  A successor does run in the region it was told.

Seen while modelling, without a run: the queue of a test is not deleted
(`infrastructure/aws/aws.go:148` returns an empty teardown, the README says
"automatically deleted"; `queues` in the model only grows). The settings the README
shows, with a timeout of 3600, are refused by `Check` (1 to 100). `requests = 0` in
`goad.ini`, "unlimited" as a flag, means 1000. The README's list of flags shows the
defaults `--requests=2000` and `--region=us-east-1` (`README.md:72`, 80); those of the
program are 1000 requests (`cli/cli.go:52`) in three regions (`cli/cli.go:129`), which
its sample of `goad.ini` (`README.md:105`) and the template agree with. So going by
that list, writing the template would change later tests; going by the program it does
not, which is what `TemplateIsNeutral` says.

## 4. What is proved

All proofs hold for every value of the constants under the assumptions the
modules name: `TimeoutAssumption` (the time of a process is a positive number),
`RunnerAssumption` (the flags are integers, a count of completed requests is a
natural number), `ConfigAssumption` (the fields of a configuration have their
types), `SaidAssumption` (so has what is said), `ListsAssumption` and
`DefaultsAssumption` (no supported region has a comma in its name, and the default
regions are supported), `SessionAssumption` and `CollectorAssumption` (every runner of the plan
has a command line, batches are not empty), `ProvisionAssumption` and
`ClientAssumption` (clients are finitely many, each has a build and at least one
region), `DockerAssumption` (each client has at least one runner), `ResultsAssumption`
(workers are finitely many, no duration reaches `MaxInt64`) and
`NeighbourAssumption` (the other runner has counted each of its requests once and
told its region with its first report, which `ErrorsAddUp` and `RegionsAreSaid`
show of every runner). TLC evaluates them in every run. The
exploration bounds are constants like the others, so they limit TLC and not the
theorems.

**Runner** (`RunnerProofs`). None of the safety properties is inductive by
itself. `RunnerInv` is, and has these parts: `TypeOK`; `SettingsFollowGiven`
(the process changes only its count and, once, its time); `JobsConserved`;
`CountsAreExact`; `ExitsAreDrained` (a worker leaves only when the channel is
empty, and a waiter answers only when all have left); `PhasesAreOrdered` (what
each phase says about `timedOut`, `finished`, the child and the last report).
The argument: when a waiter answers, all workers have left, so the channel is
empty and no worker is busy, and by `JobsConserved` everything is counted;
therefore `finished` has one of two causes, both of which stay true, and by
`CountsAreExact` the last report completes the total.

| Theorem | Statement |
|---|---|
| `TypeCorrect` | `Spec => []TypeOK` |
| `InvariantHolds` | `Spec => []RunnerInv` |
| `NothingLostOrCountedTwice` | `Spec => [](JobsConserved /\ CountsAreExact)` |
| `CountsAlwaysExact` | `Spec => []CountsAreExact` |
| `FinishedReportsAreTrue` | `Spec => []FinishedIsTrue` |
| `ForksResume` | `Spec => []ForkResumes` |
| `ForksRepeatLittle` | `Spec => []ForkRepeatsOnePerWorker` |
| `RunnerImplementsContract` | `Spec => ImplementsContract` |

**LoadPlan** (`LoadPlanProofs`). `PlanInv` says that after `i` turns of the loop
`i` equal shares have been handed out, plus the remainder once `i` is the number
of runners. With `NumberOfLambdasBounds` (1 to concurrency runners, for every
concurrency and number of regions) and the lemmas about Go's division it gives
`LambdasAlwaysInRange`, `RequestsAlwaysAddUp` and `ConcurrencyAlwaysRespected`.
Runner `k` gets region `k` modulo the number of regions; `TurnsAreEven` (in `n`
turns no place of a round gets two more than another, by shifting the turns of
one place onto those of the other) gives `RegionsAlwaysServed`.

| Theorem | Statement |
|---|---|
| `PlanInvariant` | `Spec => []PlanInv` |
| `LambdasAlwaysInRange` | `Spec => []LambdasInRange` |
| `RequestsAlwaysAddUp` | `Spec => []RequestsAddUp` |
| `ConcurrencyAlwaysRespected` | `Spec => []ConcurrencyIsRespected` |
| `RegionsAlwaysServed` | `Spec => []EveryRegionServed` |

**ClientConfig** (`ClientConfigProofs`), for anything that may be said on a command
line, in `goad.ini` and in a query. `ClientInv` adds to `PlanInv` who says what
(`SaidOK`), what each stage has made of it (`StagesBuildOn`: the defaults are those
of the file once it is applied, and no plan is begun before `ready`) and that
the finished configuration is what was asked for (`ConfigIsAsked`). The runs and
the theorems about the plan meet here: `PlanInv` is kept by clients too, so what
`LoadPlanProofs` derives from it holds for every configuration a user brings
about. Lists of regions need what `FlattenSeq` does: it is a recursive function,
so that it exists and what it gives are proved by a smallest counterexample
(`FlattenedExists`, `FlattenType`, `FlattenSingles`). A query is not split at
commas; that it runs where it asks to follows from the check, since no list is a
supported region.

| Theorem | Statement |
|---|---|
| `ClientInvariant` | `ClientSpec => []ClientInv` |
| `ClientsArePlannedFor` | `ClientSpec => []` of the four properties of the plan |
| `RunnersDoWhatWasAsked` | `ClientSpec => []AskedIsWhatRuns` |
| `TemplateStaysNeutral` | `ClientSpec => []TemplateIsNeutral` |

**Session** (`SessionProofs`), for any number of runners and any plan. What
`ReportsAccountedFor` says at the end of every path a report can take is
inductive only with what is said of the way there. `SessionInv` has these parts:
`TypeOK`; `BatchInHand` (what the adapter holds is a part of what it received);
`OneRuns` (of a chain only the last process works, its parents wait);
`ReportsAreTrue` (every process keeps the invariant of its contract);
`CountsAreHandedOn` (what a process was given to complete is what its parents
had counted, so the chain as a whole counts up to one limit);
`ChainStaysWithinLimit`; `ReportsAccountedFor`; `FinishedWasSaid`
(a Finished in the results, in hand or in the queue was sent by a process of that
runner) and `SaidLast` (with no successor and no repeated message, nothing of
that runner comes after it).
All messages still to be added form one sequence (`Pending`), and every step of
queue, adapter and receive loop does one of five things to it: nothing, append,
take the first, lose some, or repeat some. Every step of a process moves counts
from one place to the next, or leaves them. The proof is by these two lists, not
by actions. Sums over chains and queues are folds; that a fold of a sequence
grows by the element appended is proved from a smallest counterexample
(`SmallestSet`, `SmallestNumber` in `Sums`, from well-founded sets), so no
induction rule over an operator is needed.

| Theorem | Statement |
|---|---|
| `SessionInvariant` | `Spec => []SessionInv` |
| `SessionTypes` | `Spec => []TypeOK` |
| `NoReportVanishes` | `Spec => []ReportsAccountedFor` |
| `LimitIsKept` | `Spec => []ChainStaysWithinLimit` |
| `FinishedIsComplete` | `Spec => []FinishedRunnerIsComplete` |
| `FinishedIsTakenBackByParents` | `Spec => UnfinishedOnlyByParent` |
| `ProcessesKeepTheirContract` | `Spec => ProcessesKeepContract` |

Together with `RunnerImplementsContract` this goes from goroutines to results: a
process does what the contract allows, and a session of such processes loses,
invents and exceeds nothing.

**AWS provisioning** (`AwsProvisionProofs`), for any number of clients, regions
and builds. `AwsInv` says for every call of `Setup` what is sure when a client
is there, whatever others did since its lookup: its own region has
the function once it is past it (`WorkRemains`, `OwnFunctions`), one client makes
the policy and its gap is never closed (`OnePolicyMaker`, `PolicyGapIsForGood`), a
refusal means that somebody else was there at the same time (`SeenIsTrue`,
`RefusedOnlyByRace`), a build differs only if another was installed after this
client started (`OwnBuildUnlessOvertaken`).

| Theorem | Statement |
|---|---|
| `AwsInvariant` | `Spec => []AwsInv` |
| `SetupDelivers` | `Spec => []ReadyIsProvisioned` |
| `PolicyGapsRemain` | `Spec => []PolicyGapIsForGood` |
| `RunnersAreOfOwnBuild` | `Spec => []OwnBuildUnlessOvertaken` |
| `LeftoversAreHarmless` | `Spec => []RefusedOnlyByRace` |

**Docker** (`DockerInfraProofs`), for any number of clients on one machine, any
number of runners of each, and beside any clients on AWS (the theorems are about
`Spec` of `Platforms`). `DockerInv` has four groups of parts.

* Who cleans up: network and broker are those of a client that still knows of
  them and has not yet come to their removal, or that has died (`NetworkHasMaker`,
  `BrokerHasMaker`), and a client that came to its regular end has left no runner
  (`RunnersEndBefore`). `MachineIsLeftClean` follows at once, for two clients in
  each other's way as for one.
* Where things can be: without a broker there are no messages, connections or
  connected runners (`NothingWithoutBroker`); who receives is past its `Setup` and
  not at its end (`ReceivesAfterSetup`); messages are those of runners, and a
  Finished is true (`MessagesAreSaid`, `FinishedWasReported`); a teardown without
  an interrupt comes after the last result (`TeardownComesLast`).
* What a client finds beside which no other runs: network and broker as it left
  them, at every step of `Setup` and `Teardown`, and at the end nothing of others
  that keeps the network in use (`OneKeepsOrder`). So a call can only fail there
  if a message of an earlier client was taken for one of its own runners: the
  test then ends while one of these is still at work.
* What a client has that met neither another nor the remains of a dead one: the
  broker listens during its whole test and keeps the connection, and all messages are
  its own (`AloneHasAll`), sent by runners that have ended (`Said`). So what it adds
  is always a report of its own (`RaceNeedsReport`), and the sums of
  `AloneResultsAreOwn` can be carried from runner to queue, inbox and results. At the
  stop of the broker nothing is lost because each runner reports once and each result
  has one report by then.

The steps are not gone through for each part. Lemmas say how one step can move
one client, runner, receiver or result (`SessionMoves`, `RunnersMove`,
`ReceiversMove`, `ResultsMove`), and most parts follow from these.

| Theorem | Statement |
|---|---|
| `DockerInvariant` | `Spec => []DockerInv` |
| `PlatformTypes` | `Spec => []TypeOK` |
| `LoneResultsAreComplete` | `Spec => []AloneResultsAreOwn` |
| `FailuresHaveCause` | `Spec => []FailureHasCause` |
| `MachineIsLeftClean` | `Spec => []CleanWhenAllOver` |

**Results** (`ResultsProofs`), for any number of workers, requests, windows and
durations. `ResultsInv` has, besides the types: `HeldIsPast` (durations a worker
holds were measured before now, and are 0 where `fetch()` leaves them so);
`EachCountedOnce`; `WindowIsAveraged` (the averages of a window are those of its
totals); `AveragesAreNear`; `ExtremesAreMeasured`; `WindowsFollow`. The
arithmetic is in lemmas of its own. `NearMoves`: an average that is rounded down
twice, once in the window and once in `addToTotalAverage`, loses less than one
unit per report that has a success, whatever the weights. `AverageBetween`,
`AverageBelow`: a weighted average keeps bounds and order. `ExtremesAdded`,
`ExtremesSent`: the extremes survive a window and a report although 0 means "not
measured" in the data of a runner and `MaxInt64` in a window; redirects, whose
0 is a measurement, break this and are excluded. For `SequentialTimeIsReal` the
windows of one worker do not overlap (`Sequential`, `Follows`). For
`SummariesAgree` a second invariant, `RegionIsSaid` (a runner without a region has
reported nothing), makes every request belong to a region; then `RegionsAddUp`
adds up two runners in one, two or no region, `RegionsAreWithin` compares the
extremes of a part with those of the whole, and `MeanIsBetween` puts the overall
average between those of the runners.

| Theorem | Statement |
|---|---|
| `ResultsInvariant` | `Spec => []ResultsInv` |
| `ResultsTypes` | `Spec => []TypeOK` |
| `ErrorsAddUp` | `Spec => []CountsAddUp` |
| `AverageStaysNear` | `Spec => []AverageIsNear` |
| `ExtremesStayExact` | `Spec => []ExtremesAreExact` |
| `SequentialTimeStaysReal` | `Spec => []SequentialTimeIsReal` |
| `SummariesAlwaysAgree` | `Spec => []SummariesAgree` |

**Only model-checked**: the liveness properties (`EndsByItself`, `Ends`,
`SessionEnds`, `SetupEnds`, `LoneSessionEnds`), since fairness and ENABLED are
out of the prover's reach. Every safety invariant and every action property the
passing runs check is also proved.

## 5. What is not modelled

* The network: what `fetch()` does is a choice among its outcomes. Contents,
  hosts and bytes are left out; bytes are added up like the counts.
* The rates (requests and kilobytes per second): quotients of numbers that are
  modelled.
* Retries inside the AWS SDK, which is not under the repository's own code. A
  retried `Invoke` could start a successor twice; this is listed as a hazard.
* Goroutines that wait for ever on a channel nobody reads: they have no effect
  but their memory.
* Real time in the collector: that a running test may be given up after 20
  seconds of silence is in the model as a choice, not as a race of durations.
* The `readLoop` goroutines of a web socket, one more per message: they do nothing
  but close it, which the collector has as a reader that leaves.
* AWS and docker beyond what the code sees of them: that a policy or a new role
  takes time to be in force; containers of others with a RabbitMQ image, which
  goad would take for its broker; unpacking the runner and pulling images. A call
  of either API is one step.
* Reading text: the ini format, kingpin's flags, `Atoi`. A number that cannot be
  read is one that is not there.
* Packaging, version, drawing, the node wrapper: no state, no interaction.

## 6. Plan

The order is that of importance: first what a runner promises, then what the
client relies on, then what surrounds a test.

1. Done: `RunnerArgs`, `RunnerContract`, `Runner` with proofs; `LoadPlan` with
   proofs; `Collector`, `Session` with proofs; `Results` with proofs;
   `ClientConfig` with proofs; `Start`, `AwsProvision`, `DockerInfra` and
   `Platforms` with proofs.
2. A clock in the collector: the 20 seconds of silence against the timeout of a
   request.
