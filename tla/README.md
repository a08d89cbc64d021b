# maxfuzz in TLA+

A verification development for the maxfuzz daemon (`src/cmd/maxfuzz`) and the
services it supervises (`src/internal`), and for the files that `maxfuzz-tools`
hands to it. It models the concurrent part of the program: HTTP handlers, the
fuzzing loops, the statistics collector, the supervised services that build,
run, back up, watch and measure a fuzzer, and the end and restart of the daemon
with the containers and files it leaves behind. TLC checks the models on small
instances; TLAPS proves safety properties for any number of targets, clients and
supervisors.

File names below are relative to `src/`.

## 1. Inventory

| part | state | operations | speaks to | hard part | what makes it correct |
|---|---|---|---|---|---|
| target registry, `cmd/maxfuzz/main.go` | maps `targets`, `targetsTimer`, `targetStats`, RWMutex `targetsLock` | register, unregister, list, status | the loop, over `parallelAddChan` and `stopChan`, with the lock held | channel sends inside the critical section; reads outside it | the maps agree; every request is answered |
| statistics collector, `fuzz.go` `watchStats` | `targetStats` | receive, store | stats services over `statsChan` | the stat is stored after the lock was given up | no registered target without an entry |
| parallel loop, `fuzz.go` `fuzzParallel` | `parallelFuzzers` | add, stop | handlers, supervisors | `Supervisor.Stop` with the lock held by a handler | fuzzers = registered targets with a constructor |
| round-robin loop, `fuzz.go` `fuzzRoundRobin`, `nextTarget` | `currentTarget`, turn timer, `fuzzerSupervisor` | count, choose, start, end a turn, interrupt | handlers, supervisors | reads of the maps without the lock; lock and channel wait for one another | a registered target runs, the longest-waiting one is next, everyone gets a turn |
| supervision, `internal/supervisor/supervisor.go` and suture | services, backoff, timeout | start, restart, stop | services | a stop that times out leaves services running | the next supervisor copes |
| fuzzer services, `c_fuzzer_service.go`, `go_fuzzer_service.go`, `fuzzer_methods.go` | location in `Serve`; directories; containers | set up, build, deploy, watch, kill | docker, storage | failures at every step; two supervisors of one target | no orphaned container; own context |
| docker client, `internal/docker/docker.go` | containers by name | `CreateFuzzer`, `Deploy`, `State`, `Kill` | docker | names are shared by the supervisors of a target | as above |
| backup service, `backup_service.go` | backup zip | tick, stop | storage, sync directory | ticks whatever the fuzzer does | a stored backup is whole and worth resuming |
| crash services, `afl_crash_service.go`, `gofuzz_crash_service.go` | inotify watch | wait, watch, save, stop | AFL, storage | directories are removed under the watch | crashes are saved |
| storage, `internal/storage` | `soln`, `working_target.zip`, crash storage | `Init`, `GetTarget`, backups, payloads | file system | a package variable and a file that all targets share | every service works on its own target's files |
| statistics services, `afl_stats_service.go`, `gofuzz_stats_service.go` | an event in hand | wait, read or receive, parse, send, stop | `statsChan`, `fuzzer_stats`, a port of the host | blocked in a send when stopped; listens on a port, not to a container | own fuzzer, right time, stopped for good |
| host ports, `go_fuzzer_service.go` | map of ports | take, give back | docker | never given back; forgotten by a restart while containers still bind them | ports are distinct |
| the daemon's process | all variables above, but for files and containers | end, start | docker, file system | ends between any two steps | old containers are gone before new ones run |
| template generator, `cmd/maxfuzz-tools`, `pkg` | files of a new fuzzer | write them | the daemon, by names of variables | two programs agree by text only | every variable needed is set, and before it is used |
| `internal/helpers`, `internal/logging`, `internal/reproduction` | none that lasts | log, read options | - | none (sequential, or unused) | - |

`PROJECT.json` lists the same parts under `components` and, under `hazards`,
each thing in this code that a test would hardly reach, at its line, with the
properties that are about it.

## 2. Modules

| module | models | extends |
|---|---|---|
| `TargetRegistry` | maps, lock, handlers, `watchStats` | - |
| `ParallelFuzz` | the daemon under the parallel strategy | `TargetRegistry` |
| `RoundRobin` | the daemon under the robin strategy | `TargetRegistry` |
| `FuzzCampaign` | abstract: what clients are promised | - |
| `TargetServices` | suture, `storage.Init`, host ports, shared files, the end of the daemon | - |
| `FuzzerService` | `Serve` of the fuzzer services, set-up, docker | `TargetServices` |
| `StatsService` | `Serve` of the statistics services | `FuzzerService` |
| `BackupService`, `CrashService` | their `Serve` | `TargetServices` |
| `TargetFuzzer` | all services of all supervisors together | the three above |
| `Templates` | the environment and build steps that `maxfuzz-tools` writes | - |
| `TargetTemplates` | the daemon on the files that `maxfuzz-tools` wrote | `TargetFuzzer`, `Templates` |
| `MCParallel`, `MCRobin`, `MCTarget` | values of constants for TLC | the model each checks |
| `TargetRegistryProofs`, `ParallelFuzzProofs`, `RoundRobinProofs` | theorems about the daemon | the model each is about, `TLAPS` |
| `TargetFuzzerProofs`, `TargetRestartProofs`, `TargetDirectoryProofs` | theorems about the services: types and containers; stops, ends of the daemon, ports and figures; directories | `TargetFuzzer`, each the one before |
| `TargetTemplatesProofs` | theorems about both programs | `TargetTemplates`, `TargetDirectoryProofs` |

The daemon's models take a running fuzzer as one thing (an element of
`parallelFuzzers`, or `fuzzing`); the services' models take the daemon as the
environment that starts and stops supervisors. What joins them is checked on
both sides: `StopOnlyUnregistered` and `ImplementsCampaign` show that the daemon
starts a supervisor for a target only after the former one was stopped, and this
is the guard of `ServeBackground` in `TargetServices`.

### State and code

* A handler goroutine is a value of `Handler` with a location `hpc[h]` and the
  target of its request `htarget[h]`. A location is a place where the goroutine
  may have to wait, or where another goroutine can see what it has done. A
  critical section that only reads, or that ends in an early return, is one step.
* `targetsLock` is the handler that holds the lock, `FuzzLoop` while `nextTarget`
  ranges under the read lock, or `Nobody`. Read sections of one step need only be
  taken while no writer holds it.
* A send on an unbuffered channel is a handler at `sendAdd`, `sendStop` or
  `sendInterrupt`; the loop's receive (`ReceiveAdd`, `ReceiveStop`) moves it on.
* `sending` is the set of running fuzzers whose stats service is blocked in its
  send on `statsChan`, `leftSending` that of the fuzzers that `Supervisor.Stop`
  gave up on. Two abandoned senders of one target count as one: each only ever
  delivers a stat of that target.
* `cycleEnd` tells the two calls of `nextTarget` apart. Times are compared only
  with one another and with the 0 of a target that had no turn, so `StampedLast`
  keeps their order; a turn takes two hours, so two stamps are never equal.
* `alive` is FALSE once the robin loop has panicked or the runtime has ended the
  process; nothing happens after that.
* In the services' models `pc[<<s, role>>]` is the location in `Serve` of a
  service of supervisor `s`, `stop` says that its `Stop` method is blocked in its
  send, `ctl[s]` is where the supervisor itself is. Files are what the services
  can tell apart: whose context a directory holds, whether a sync directory holds
  an AFL session, whether a backup is absent, cut off, empty, or has a session.
* A zip that is written in place is "partial" from its truncation until it is
  filled, and other services may read it meanwhile; `data` and `fetched` are what
  a service has read and will write. One that `Zip.Make` has failed to make is
  "torn": `Zip.Open` may take it or not, and may find the session in it or not
  (`Opened`).
* What may fail is in the constant `Failing`: "build", "exit" (the fuzzer's
  container stops by itself), docker calls that "create", "inspect" or "remove" a
  container (the commit of a buildbox counts with both creating and removing), and
  "write" (of a file). Whatever is in it may fail each time or not.
* Kill, the end of a stopped build and the cleanup of old containers do what docker
  lets them: with "remove" in `Failing` a container may be left, and Serve goes on
  or returns as the code does, which looks at none of these errors but to log them.
  A buildbox that was not removed may have been stopped.
* A buildbox that was created and could not be started keeps its name until it is
  removed; a fuzzer's container is removed by docker itself (AutoRemove).
* `refused` is a history variable: no step reads it. It has a target's "fuzzer" or
  "build" container from the moment its own Serve gives it up because docker failed
  to show it, to commit it or to end it, and "old" when docker failed to remove the
  containers from before, each until that container is gone. The properties use it to
  say exactly whose failure may leave a container.
* `InspectFails` is no part of `FuzzerServe`: that docker fails to show a container
  is possible at any time and never due, so it gets no fairness.
* Serve returning and Serve panicking are the same to suture, hence the same step.
* `CrashDaemon` may come between any two steps. Supervisors that were started
  become "lost", their services are down, package variables and what services
  had in hand are gone; directories, zips and containers stay, and so do the
  ports that lost containers bind. The next daemon starts with no target, so it
  makes supervisors of its own.
* `port[s]` is the port that `NewGoFuzzer` gave to supervisor `s`, `taken` the map
  `availableHostPorts`. A `Deploy` fails while any container binds the port.
* `stat[s]` names the supervisor whose go-fuzz sent the event that the statistics
  service of `s` has in hand: `sse.Notify` connects to a port of the host, and
  whatever listens there answers. `SecsRunning` is what `Serve` makes of the
  uptime; a text is a function from its units to their numbers.
* `env[s]` is the target whose environment file Serve has read, and `Environment`
  the variables that the file of each target sets. `TargetTemplates` takes them from
  `Templates`, by the template (`Template`) that each target was made with, so the
  commands of the daemon meet the files of the generator. An environment is the
  sequence of its lines, each with the variable it sets and those it uses.

Reads that race with a write (of `currentTarget`, of a map's length) return the
old or the new value, at the step where the code reads. A map that is read while
it is written ends the process: `ConcurrentMapAccess`. Both models start once
the loop has made its channels; the start-up race before that is listed as a
hazard. Operators whose comment begins with "Mutant of" are no part of the
model: they are wrong versions of the definition that follows them, used to see
that a property notices.

## 3. Runs

| run | bounds | shows |
|---|---|---|
| `parallel` | 3 targets (c, go, and one language without a constructor), 2 concurrent requests | type correctness, `FuzzersMatchTargets`, `StopOnlyUnregistered`, `StatsCoverTargets`, refinement of `FuzzCampaign`, `EveryRequestAnswered`, `RegisteredIsFuzzed` |
| `robin_safety` | 3 targets, 2 requests | type correctness, `TimerMatchesTargets`, `RunningTargetRegistered`, `LongestWaitingFirst`, `NoSecondTurn`, `OneSupervisor`, up to a crash or deadlock |
| `robin_liveness` | 3 targets, 1 request at a time, no removals | `EveryTargetGetsATurn` |
| `target_overlap` | 1 go target, 2 supervisors in sequence, fuzzer services; containers may exit, docker may fail to show or to remove them, the daemon may end | `ContainersAttended`, `OrphansRemoved`, `StopEndsFuzzing`, `SupervisedIsFuzzed`, `OnlyOthersRemove` |
| `target_restart` | 1 go target, 2 supervisors, fuzzer and statistics services, 2 ports; builds and creating calls may fail, containers exit, the daemon end; six uptimes at the edges of seconds, minutes and hours | `StoppedForGood`, `PortsDistinct`, `StatsOfOwnFuzzer`, `RateOverUptime`, `TemplatesFitDaemon` |
| `target_safety` | 1 supervisor of an AFL target with ASAN, all services; containers may exit, docker may fail to show them, writes of files may fail | type correctness, `TemplatesFitDaemon`, `FuzzerKeepsDirectories`, `NoBackupInside` |
| `robin_pick` | 2 targets, 2 requests | violated: the next target need not be in the list; the loop panics |
| `robin_deadlock` | 2 targets, 2 requests | violated: a removal and the loop wait for each other for good |
| `robin_wrong_stop` | 2 targets, 2 requests | violated: a stop for one target ends the turn of another |
| `target_resume` | 1 supervisor, fuzzer and backup | violated: AFL is made to resume what does not exist |
| `target_crash` | 1 supervisor, fuzzer and crash | violated: a restart of the fuzzer removes the watched directories |
| `target_context` | 2 targets, a supervisor each | violated: a target is set up with the files of the other |

The bounds and why they are enough. Two requests let one handler hold the lock in a
send while the other waits for the lock, with the loop and `watchStats` waiting too;
a request that registers again what the first removes is the same handler's next
one. The safety properties of the parallel daemon are proved for any number, so the
run is there for liveness. Three targets give a choice among two when one is
running, and with one of them in a language without a constructor every outcome of
the lookup. Handlers are interchangeable and nothing is chosen among them, so
symmetry over them is sound for `robin_safety`, which has no liveness; the other
runs do not use it. `MaxTime` bounds the stamps: as times are kept as an order, one
value for each target is all there is. Two supervisors of one target are the overlap
that matters, since a third is only started after the second was stopped, and then
again two sets of services meet, or one of a daemon that has ended and one of its
successor; the proofs of `ContainersAttended`, `OrphansRemoved`, `PortsDistinct`,
`StatsOfOwnFuzzer` and `StoppedForGood` are for any number. Two ports let each
supervisor have one. The uptimes are the least and the greatest of the text's forms
in seconds and in minutes, and two in hours; the proof of `RateOverUptime` is for
all. With one supervisor the end of the daemon would only stop `target_safety`, so
it does not happen there. That run has one supervisor because with two and all four
services there are too many states; the theorems on `FuzzerKeepsDirectories` and
`NoBackupInside` are for any number of supervisors and targets, and for daemons that
end.

What may fail differs among the three runs to keep each within a few million states
(about 150 thousand for `target_overlap`, which has liveness, 1 million for
`target_restart` and 2.6 million for `target_safety`). Each failure is in the run
whose properties it threatens: failed removals and inspections where containers may
be left (`target_overlap`), failed inspections and writes where directories and zips
may suffer (`target_safety`), failed builds and creating calls where a service is
restarted most (`target_restart`). The theorems are for every `Failing`.

Deadlock is checked in the parallel runs. The robin runs switch it off because
the daemon does come to a stop there: by the panic (`alive` is FALSE) and by the
deadlock that `robin_deadlock` shows. The target runs end when all supervisors
have been stopped or lost.

`robin_liveness` leaves out removals because with them the daemon can deadlock:
no liveness holds then. Its property still allows for the crash by an unlocked
read of a map, which registrations alone can bring about.

### Fairness

* A goroutine that can run is run: weak fairness of handler steps once in the
  critical section, of the loop and of the services.
* A goroutine that waits for `targetsLock` gets it in the end: Go's mutexes hand
  over to a waiter after a millisecond, and a waiting writer keeps out later
  readers. Hence strong fairness of the steps that take the lock.
* suture's timers run: `StopTimeout` (and `StopReturns`) is enabled as long as a
  stop goes on, so weak fairness of the loop suffices for a stop to end.
* Every order of ranging over a map comes up again and again: strong fairness of
  each target being the first. Go randomises where a range begins.
* No client has to send a request, no statistics tick or backup has to come, no
  supervisor has to be started or stopped, no fuzzer has to exit, no crash has to be
  found, no go-fuzz has to report, docker does not have to fail to show a container,
  and the daemon does not have to end.
* `SupervisedIsFuzzed` supposes that docker refuses only finitely often
  (`<>[][~DockerRefuses]_vars`): a docker that never removes the old container
  keeps its target from being fuzzed for ever. For the same reason builds do not fail in
  that run, nor do calls that create; fuzzers may exit, and be killed by the other
  supervisor, at any time.
* A statistics service in its send is received from in the end: `watchStats`
  waits for nothing but `targetsLock`, which is released after every request
  (`EveryRequestAnswered`). This is weak fairness of `RunStats`.

## 4. Proofs

All for arbitrary sets of targets, handlers and supervisors, from the
assumptions named in the modules: sentinels are not targets, the strategy is the
module's, and, for `TargetTemplatesProofs`, files come from `maxfuzz-tools` in a
language that the target is registered in. No theorem supposes that a call
succeeds: where the failure of one makes a difference, the property says which
(`refused`, "torn"). Some theorems have a hypothesis beside `Spec`; it is part of
the statement and explained below: `TargetApart` and `Apart` (supervisors do not
overlap), `OwnContext`.

`TargetRegistryProofs` has what is the same for both strategies. Its core is
`LockHeld`: the handler in a critical section, and no other, holds the lock. It
also has the step lemma for `StatsCoverTargets`.

`ParallelFuzzProofs`
: `TypeCorrect`, then `FuzzersMatch`, `StopsOnlyUnregistered` and
  `CampaignImplemented`. `FuzzersMatchTargets` speaks of the moments when the
  lock is free and the loop waits. The inductive invariant says what the
  difference between `parallelFuzzers` and `targets` is at every other moment:
  the one target that the lock holder is adding or removing, and the one that
  the loop has in hand. The loop's own "adding" step can outlast the critical
  section of the handler that sent it, so the invariant also ties `ftarget` to
  what may happen to that target meanwhile. The refinement uses the same
  invariant, one step per action. `StatsCover` is inductive by itself: the two maps
  are written in one step, and a late stat only adds.

`RoundRobinProofs`
: `TypeCorrect`, `TimersMatch`, `RunningRegistered`, `LongestFirst`,
  `NoImmediateRepeat`. The invariant says that the loop owns the stamp only while
  its target is registered (a remover of the current target is stuck in its send
  until the loop is back in its select), and, during a range, that the selected
  target is the minimum of those visited, but for the previous target.
  `OneAtATime` (`OneSupervisor`) follows the variable `fuzzerSupervisor` around the
  loop: which locations have a running supervisor depends on `skip` and on which of
  the two calls of `nextTarget` is under way, and the invariant says so for each.

`TargetFuzzerProofs`
: `TypeCorrect` and `Attended`: no container runs without the Serve that made it,
  for any number of supervisors and targets, unless docker failed that Serve about
  this container or the daemon of that Serve has ended.
  Inductive with the fact that a supervisor that was not started, or is lost, has
  no service at work. Steps that make no container come under one of two lemmas:
  what changes no container must not move a Serve that attends one (`OtherStep`),
  and where containers go or docker refuses, a Serve may leave only what the step puts
  on record (`RefusedStep`), which stays on record while the container is there
  (`Refusing`).

`TargetRestartProofs`
: What overlaps and the end of the daemon do not break. All start from the fact
  (`NextSteps`) that a step moves one service, or starts, stops or ends supervisors.
  `Stopped` (`StoppedForGood`) is then inductive with the types. `NoOrphans`
  (`OrphansRemoved`): containers are made by services of live supervisors only
  (`WorksForLive`), and Serve passes its kill before it makes one. Docker may have
  refused that kill; then the name of the old container is taken, and
  `CreateBuildBox` or `Deploy` fails. `BoxesGo` says what a step may do to
  containers without touching this: let them go, make them for a live supervisor,
  and keep the record. `DistinctPorts` (`PortsDistinct`) needs `PortInv`: every port
  of a live supervisor is taken, also that of a stopped one. `OwnStats`
  (`StatsOfOwnFuzzer`) adds that containers belong to supervisors that were started,
  so whatever listens on a live supervisor's port is its own container or a lost
  one's. `RightUptime` (`RateOverUptime`) is the arithmetic of the parsing, for
  every uptime; it does not depend on the behaviour.

  `StopClearsContainers` joins `Stopped` and `Attended`: once a fuzzer service has
  taken its stop, nothing that it started runs but what docker failed to show or to
  end.

`TargetDirectoryProofs`
: Who works on which directories. The models let supervisors overlap, since
  `Supervisor.Stop` gives up after its timeout, and then the services of two of them
  remove and fill the same directories. What can be said without a hypothesis on
  that is `OthersRemove` (`OnlyOthersRemove`): a fuzzer loses its directories only
  to another supervisor of its target. For its own Serve it rests on `Attended`:
  `initialFuzzerSetup` is not reached again before the container is gone, or docker
  has failed to show it.

  The rest is for supervisors that do not overlap. `TargetApart` says so of those of
  one target, and only of their fuzzer services: of two, one will not run again.
  `KeepsDirectories` (`FuzzerKeepsDirectories`) needs no more, so other targets may
  be set up, calls may fail and the daemon may end, at any time. A fuzzer that
  docker did not show, or did not end, is excepted: its directories are removed by
  the next set-up, that of the same Serve after its restart or that of the next
  supervisor. Its invariant has the directories in place from the location of Serve
  that made them on, not only once the container runs, and these survive every step
  that is not a set-up. `Apart` says it of all supervisors and of what goes through
  `storage.Init`, which is the robin strategy. The invariant `ApartInv` has three
  parts: a handler in use is that of its own target (`storage.Init` returns a
  package variable, so this needs that no other `Init` is under way); the working
  zip is the target's, or gone, from its download until it is opened, and with it
  the directory and the environment that was read (`ContextInv`); and a `backup.zip`
  in the sync directory belongs either to a Serve that is about to unpack and remove
  it or to a backup service that is about to, or is one that could not be made
  (`ZipGoes`). They give `NoZipLeft` (`NoBackupInside`) and `ContextsOwn`
  (`OwnContext`). The run `target_context` violates the latter, with two targets
  that start together; the theorem says that nothing but such an overlap can do it.

  The hypotheses are met when no stop times out. `StopsKeepTargetApart`:
  `TargetApart` holds always if every `Stop` returns because the fuzzer service has
  ended; that a supervisor is started only after the former of its target was stopped
  is in the model, and what `ParallelFuzz` shows. `StopsKeepApart`: `Apart` holds
  always if every `Stop` returns because the services have ended and supervisors are
  started one at a time; the loop of the robin strategy does that (`OneAtATime`).
  A crash service that spins in its wait for the crash directories is allowed to go
  on: it touches nothing of the next supervisor's.

`TargetTemplatesProofs`
: `TemplatesFit` (`TemplatesFitDaemon`): for every language, with or without ASAN,
  the environment sets what the fuzz command and `build_steps` use, and each variable
  before its use. It comes in two parts: what the generator's text operators do for any
  template (`EnvironmentFits`, `BuildStepsFit`, from lemmas on what variables a
  concatenation of lines sets and uses), and that the environment that Serve has
  read is that of a target's own directory. The second is the hypothesis
  `OwnContext`, without which an AFL target can be handed the files of a go target;
  `TemplatesFitApart` takes it from `ContextsOwn`.

Only model-checked: what is temporal beyond invariants, action properties and
refinement, that is `EveryRequestAnswered`, `RegisteredIsFuzzed`,
`EveryTargetGetsATurn`, `StopEndsFuzzing` and `SupervisedIsFuzzed`. Liveness under
fairness is outside what the prover does. Every other property of a passing run is
a theorem.

## 5. What the checks found

Six statements of the code's own comments and log lines are not true of the
code; `PROJECT.json` has them under `findings`, each with the run that shows it.
In short: under round robin the removal of a target can crash the daemon, hang
it, or end the wrong turn; a backup taken at the wrong moment keeps a target from
ever being fuzzed again; after the restart of a fuzzer its crashes are no longer
saved; and targets that start together can be fuzzed with each other's files.

Some more things have no run of their own. A stored backup need not be whole even when
only one supervisor works on the target: the backup service has made its zip
(`FillZip`), the fuzzer is set up again and `GetBackup` truncates that very file,
`ReadZip` reads it cut off and `WriteBackup` puts it in place of the good backup.
Until the next tick every set-up then fails in `OpenBackup`. Checking
"`stored[t]` is not partial when no backup service is at copy" in the setting of
`target_safety` shows it.

Failed calls that the code only logs, or does not look at, leave more behind than
a log line. The properties except exactly these cases:

* A `State` that fails once is enough for Serve to return with its fuzzer running.
  Its restart then removes the directories of that fuzzer, kills it and builds the
  target again (c_fuzzer_service.go:112-116, 129-134); a supervisor that is stopped
  in between leaves the fuzzer to nobody.
* A `Kill` that fails leaves the fuzzer running after the stop was taken
  (c_fuzzer_service.go:124-128). If the next supervisor is past its own cleanup
  because the two overlap, its `State`, which goes by name, takes that fuzzer for
  its own and goes on watching it: checking `SupervisedIsFuzzed` without its last
  disjunct in the setting of `target_overlap` shows it.
* The cleanup of old containers ignores its errors (docker.go:191-200); the names
  then make `CreateContainer` fail, so the target is not fuzzed twice, only not at
  all until a later cleanup succeeds.
* A `Zip.Make` that fails leaves its zip in the sync directory
  (backup_service.go:55-59). `Glob` of the next tick finds it there and packs it
  into the next backup, and so on with each that fails, until a set-up removes the
  directory.

The parallel strategy holds what it promises, but only thanks to suture's
timeout: without it (`StopWithoutTimeout`) a stop can wait for ever for a stats
service that waits for the lock that the remover holds.

What a restart of the daemon does not repair, and no property claims:

* a target that nobody registers again keeps the container of the old daemon;
* with two go targets, the orphan of the one can bind the port that the next
  daemon gives to the other, whose `Deploy` then fails on each restart until the
  first has been registered and has reached its `KillOldBoxes`;
* a backup cut off in `WriteBackup` stays cut off, and with it every set-up of the
  target fails;
* until its own container runs, a statistics service may report the figures of
  the old one: this is the second case of `StatsOfOwnFuzzer`.

## 6. Not modelled, and the plan

Not modelled, and why:

* contents of requests, responses and logs, helpers, and the reproduction code: no
  state of the daemon depends on them;
* images and log streams of docker: docker's own state, that nothing reads back;
* the start-up before the loop has made its channels: one race, at most once in
  the life of a daemon, listed as a hazard;
* that an existing file cannot be read or removed: the code ignores the errors of some
  removals (local.go:100) and leaves Serve on others;
* payload ids, and crash files that are copied while they are written: any
  outcome is possible, so a model would have nothing to check;
* the goroutines of `sse.Notify` that outlive their Serve: nobody receives from
  their channels.

Next:

1. The safety part of `StopEndsFuzzing` and `SupervisedIsFuzzed` as step lemmas:
   which step each location of Serve leads to.
2. A run of two go targets across a restart, for the port that an orphan blocks.
3. Composition: `TargetFuzzer`'s environment as a refinement of `ParallelFuzz`.
