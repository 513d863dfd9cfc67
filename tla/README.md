# A verification development for anklet

Anklet connects GitHub's workflow jobs to Anka VMs on macOS hosts.  A
*receiver* takes GitHub's webhooks and puts jobs into lists in Redis; a
*handler* on every host takes a job, starts a VM, registers a GitHub runner in
it and watches the job until it is over.  Receivers and handlers are separate
processes on separate machines: all they share are the Redis lists, and every
guarantee about a job rests on the order in which they change them.

This directory holds TLA+ models of those lists and of everything that changes
them, of the worker process that runs the plugins, of the redelivery walk and of
the template store; the instances TLC checks; and theorems with proofs that
TLAPS checks.

Paths below are relative to the repository; `github.go` is
`plugins/handlers/github/github.go`.

## 1. Inventory

### The system's parts

| Part | Source | State it keeps | What it does |
|---|---|---|---|
| Main queue, handler queues, event lists | `internal/database/database.go`, `internal/github/queue.go` | Redis lists: `queued/<owner>` (main), `queued/<owner>/<handler>`, `.../cleaning`, `in_progress/<owner>`, `completed/<owner>`, `completed/<owner>/<handler>`, `paused` | one-command operations with retries (`Retry...`), `PopJobOffQueue`, searches |
| Receiver: webhooks | `plugins/receivers/github/github.go`, `receive.go` | none of its own | one goroutine per delivery: `queued`, `in_progress`, `completed` |
| Receiver: redelivery | `plugins/receivers/github/redeliver.go`, `internal/github/hook_deliveries.go`, `ratelimit_budget.go` | checkpoint in Redis, API budget | walks GitHub's deliveries and asks for missed ones again |
| Handler: `Run` | `github.go:1265-2515` | local copy of the job, deferred removals | pick, claim, prepare, start the VM, watch |
| Handler: `checkForCompletedJobs` | `github.go:517-935` | channels to `Run` | polls the event lists, tells `Run`, updates the record |
| Handler: `cleanup` | `github.go:937-1263` | `FinishedInitialRun` | deletes VMs, sends jobs back, empties the lists |
| Handler: paused jobs | `github.go:1545-1720`, `2052-2180` | `paused` list, `Paused` flag | hands a job a host has no room for to another host |
| Job record updates | `internal/github/database.go` | | `UpdateJobInDB`, `CheckIfJobIsCompleted` |
| Worker process, plugin loop | `main.go`, `internal/run`, `internal/drain` | `Preparing`, `Paused`, `FinishedInitialRun`, signal handling | starts each plugin again and again, drains on signals |
| Template store | `internal/anka/lru_*.go`, `internal/config/config.go:660-800` | template usage, reservations | makes room before a pull |
| Anka CLI wrapper | `internal/anka/cli.go`, `vm.go` | VMs of the host | clone, start, copy, run, delete |
| GitHub client | `internal/github/client.go`, `ratelimit_pause.go` | tokens, rate-limit pause | HTTP |
| Metrics, logging, configuration, host probes | `internal/metrics`, `internal/logging`, `internal/config`, `internal/host` | counters | output, start-up, reads of the OS |

### How they interact

* Receiver → handler: the main queue (RPUSH / LRANGE + LREM), the `in_progress`
  and `completed` lists.
* Handler → handler: the main queue (a job that could not be run is pushed back
  with LPUSH), the paused queue, and nothing else.
* `Run` ↔ checker: `JobChannel`, `RetryChannel`, `ReturnToMainQueue`,
  `PausedCancellationJobChannel` (all of capacity 1), and the record at the head
  of the handler's own list, which both update.
* Run → cleanup: `cleanup` runs as a deferred function of `Run`, and once more,
  with `onStartRun`, at the start of every run but the first.
* Plugins of one process share `QueueTargetIndex`, `Preparing`, `Paused`, the
  template tracker and the metrics.

### What is hard, and what must hold

| Hard behaviour | Component | What makes it correct | Covered by |
|---|---|---|---|
| two handlers read the same head and both remove it | claim | a job has one record, one owner | `ExclusiveClaim`, `LifecycleSpec` |
| a job is between two lists when a command fails, or the process dies | claim, cleanup | a record disappears only when the job is over | `NeverLost` |
| crash in the middle of `cleanup`; the cleaning list is deleted as a whole | cleanup | no second record in it | `CleaningSingle` |
| the job and its VM are two records that must be cleaned in the right order | cleanup | no VM record without its job in front | `VmHasJob` |
| a VM exists before it is recorded | run | every VM can be found again | `NoVmLost` |
| a job fails on host after host, webhooks are missed, hosts step over jobs | all | every job leaves | `JobsLeave` |
| duplicate deliveries | receiver | duplicates are skipped | `DuplicatesSkipped` (does not hold) |
| stop while a job is in hand | run | the job goes back | `StopKeepsJobs` (does not hold) |
| a paused job is taken over while its first host gets room | paused | one owner, no job lost, none paused for ever | `OneUnlessChanged`, `NeverLost`, `PausedLeave` (`OneRuns` does not hold) |
| a walk of several API calls per delivery on a budget, with windows that reset under it | redelivery | budget never exceeded, nothing forgotten, right order, an end | `WithinBudget`, `NoFailureForgotten`, `OldestFirst`, `WalkEnds` |
| a snapshot of the lists that is read key by key, and old when it is used | redelivery | a completed record is deleted only of a job that is in no queued list | `OrphanUnlessMoved` (a record that moves during the reading may be missed) |
| failures and restarts between deletion, pull and bookkeeping of a template | template store | no pull is refused for ever, no template becomes undeletable | `NoStuckPull`, `Tracked` |
| eviction that cannot succeed, or picks the wrong template | template store | buffer kept, nothing deleted in vain or out of order | `BufferKept`, `NotInVain`, `LeastUsedFirst` |
| plugins that wait for each other through three flags | worker | start order, nobody holds the others up | `InOrder`, `FlagsCleared` |
| a signal, or a failing sibling, at any point of a run | worker | the process ends | `ShutsDown` |
| `Run` waits for its checker, the checker for a message of `Run` | worker | every run ends | `NormalRunsEnd` (`RunsEnd` does not hold) |

`PROJECT.json` lists every hazard at its line, with the property that would
catch it or the reason there is none yet.

## 2. Modules

| Module | Content |
|---|---|
| `RedisLists` | the list commands the system uses (LPUSH, RPUSH, LREM, RPOP, RPOPLPUSH, LSET, DEL) as operators on a function from keys to sequences |
| `RedisListsProofs` | what each command changes and what it leaves alone, proved |
| `JobQueues` | the core: receiver, GitHub, `Run`, `cleanup`, the checker, the process, for hosts that always have room |
| `JobLifecycle` | the abstract promise: a job is new, then queued, then held by one handler, may go back, and is gone in the end |
| `JobQueuesProofs` | type correctness and `CleaningSingle`, proved for all constants |
| `ExclusiveClaimProofs` | `ExclusiveClaim`, proved for all constants in which no delivery is repeated |
| `JobRecordsProofs` | `VmHasJob` and `NeverLost`, proved for all constants; `LifecycleSpec` (the refinement) for those in which no delivery is repeated; `NoVmLost` for those without the faults that can lose a VM |
| `PausedJobs` | the same lists for hosts that may have no room: pausing, announcing, taking over |
| `PausedJobsProofs` | its type correctness, `NeverLost` and `OneUnlessChanged`, proved for all constants |
| `RedeliveryWalk` | the walk of a starting receiver, its API budget and the retries of the client |
| `RedeliveryWalkProofs` | type correctness, `WithinBudget`, `OldestFirst`, `NoFailureForgotten`, `OrphanUnlessMoved`, proved for all constants |
| `TemplateStore` | the template tracker, eviction and pulls of a host |
| `TemplateStoreProofs` | type correctness and `NoStuckPull`, proved for all constants; `Tracked`, `BufferKept`, `LeastUsedFirst` and `NotInVain`, proved for one plugin; lemmas about recursive functions, sums and sorting |
| `WorkerLoop` | one worker process: start order, plugin loop, a run and its checker, signals, exit |
| `WorkerLoopProofs` | type correctness, `InOrder` and `FlagsCleared`, proved for any number of plugins |
| `MCJobQueues`, `MCPausedJobs`, `MCRedeliveryWalk`, `MCTemplateStore` and `MC*.cfg` | finite instances (`WorkerLoop` needs no module of its own: its constants are numbers) |

`PausedJobs` and `JobQueues` both use `RedisLists`.  `JobQueues` implements
`JobLifecycle` by a refinement mapping (`Where`).  `WorkerLoop` looks at the same run
as `JobQueues` from the other side: it keeps the flags, the messages and the ways out
of a run, and abstracts the lists to whether a job is there.  `TemplateStore` and
`RedeliveryWalk` refine one step each: obtaining a template, and where a completed record
may vanish without a handler.

### How `JobQueues` corresponds to the code

State.  `db` maps each queue to its sequence of records; `inProgress`,
`completed` and `ownDone` are the event lists as sets of job ids; `gh` and
`hooks` are GitHub and the webhooks under way; `rpc`/`todo` is the receiver
goroutine of each delivery of a `queued` event; `pc`, `hand`, `reason`,
`onStart`, `fin`, `stop` are a handler's program counter, its local copy of a
record, the `ReturnToMainQueue` channel, the argument of `cleanup`,
`FinishedInitialRun` and the signal; `vms`, `runners` and `target` are the VMs on
the host, the runners that wait at GitHub and `QueueTargetIndex`.

| `pc` | Where the handler is |
|---|---|
| `off`, `start` | no process; before the next `Run` |
| `pick` | capacity checked, own list or main queue to be read (1478-1744) |
| `remove`, `push` | inside `PopJobOffQueue` between LRANGE and LREM; before the RPUSH to its own list (1773) |
| `claimed` | the job is in its list, waiting for a check (1840) |
| `obtain`, `record`, `boot` | template and VM (2217-2312); the VM's record (2356); the runner (2376-2506) |
| `watch` | `watchJobStatus` |
| `c0`...`c5` | `cleanup`: early returns, next record, processing, DEL, and LPUSH/DEL of a job that goes back |

One action is one Redis command another process can observe, or a group of
commands on keys nobody else touches.  The early returns, error paths and
deferred calls of the code are guards and disjuncts: a `Run` that returns always
goes on to `c0`.

Two facts about contexts shape the model.  A signal cancels the contexts of
`Run` and of the checker's commands: `retryOperation` then sends nothing and
reports a failure even when Redis ran the command (`database.go:62-118`).  So all
their successful actions need `Live(h)`, and what is left after a signal is
`SeeStop`, the moves of the completed record (which have a context of their own,
`github.go:553`) and the toggling of `ReturnToMainQueue`.  `cleanup` has a
context of its own as well, and a client that does not retry: any of its commands
may fail, which is `CleanupFails`.

### Abstractions

* Payloads: a record keeps `type`, `id`, `status`, `action`, `attempts` and the VM's name.
* `skip_cpu_and_memory_resource_checks` is set: there is no paused queue (`PausedJobs`).  Each
  handler has a host of its own, so `QueueTargetIndex` is per handler.  LLEN and
  LRANGE of the main queue are one read, and handlers of other owners
  (`github.go:1754-1770`) do not share the queue.
* `reason` is the content of `ReturnToMainQueue`; a head whose status is completed
  stands for the message in `JobChannel`; the wait for the first check of a run is the
  condition of the action that follows it.
* A failed Redis command of `Run` or the checker ends the run; a reply is not lost.
  The lists `in_progress` and `completed` are sets.
* Two checker groups are atomic although other processes could act between their
  commands: LREM/LPUSH of a completed record, and the check for completed followed
  by LSET in `UpdateJobInDB`.  The receiver's look through all lists for a
  completed event is one read.
* `SIGINT`/`SIGTERM` are modelled (`Signal`); the `SIGQUIT` drain is in `WorkerLoop`.
* The six-hour timeout is seen only in `watch`.  A nil VM at `github.go:2343` is a
  `Crash`.  GitHub gives a registered runner any queued job, so which runner runs
  which job is not tracked, and `removeSelfHostedRunner` finds its runner busy
  whenever it is no longer waiting and some job is running.
* VM names are taken from a finite set and reused only when nothing in the state
  names them any more.
* Fatal errors of `Run` (which stop the process) are a failed step followed by `Signal`.

Bounds: `MaxFaults` and `Faults` (how many and which kinds of fault a behaviour
has), `MaxAttempts` (`job_retry_attempts`), `MaxTarget` (`QueueTargetIndex` stops
counting where it exceeds any length the main queue can have).

### How `PausedJobs` corresponds to the code

`github.go:1525-1773` and `2052-2180`, with what `cleanup` and `UpdateJobInDB` do to a job of
such a host.  `db` has the main list, the paused list and one list per host; `job` is
`queuedJob`; `index`, `length` and `held` are `pausedQueueTargetIndex`,
`pausedQueueLength` and `pausedQueuedJobString`; `rounds` counts the functions the loop has
deferred (each gives back the announcement in the shared variable when `Run` returns);
`read` is the element a command is about to remove, so that LRANGE and LREM of
`PopJobOffQueue`, and the look at another host's record and the LREM of the takeover,
are separate steps.  `length`, `range`, `take`, `look`, `found`, `release` and `return` are the
phases of the loop over the paused list (`return` is the way out with the deferred functions, of which each is
one step); `main` and `push` the claim; `claimed`, `prepared`,
`pausing`, `announcing`, `waiting`, `withdrawing`, `resuming` the way to a pause and out of
it; then `running`, `cleanup`, and `failing`, `returning`, `returned` for a job that goes back.

Abstracted: a host has one handler, so its own list holds one job; the claim from the main
list is exclusive (`JobQueues`), and its VM record, the checker and the steps of
cleanup inside the handler's lists are left out.  LRANGE and LREM of `DeleteFromQueue` are one step,
and so are the look at a job's status and the LPUSH that depends on it.

A run is cut off by a signal (`Stop`) or by the end of its process (`Crash`).  A signal cancels the contexts of
`Run` (`main.go:329-350`, 479-485; the two cancellations, a moment apart, are one), and
`retryOperation` then sends nothing and reports failure even of a command that Redis has executed
(`database.go:62-66`, 111-113).  So `Stop` may come at every phase of `Run`, and what the run has in hand is gone: an
announcement that it has popped (the deferred LPUSH at 1592 and the one at 1712 are not sent),
and a job between the LREM of the claim or the takeover and the RPUSH (1682, 1773).  Only
`cleanup`, which has a context of its own (950), goes on after a signal; whether it returns the job
depends on the checker.  A crash may come anywhere, so also between the RPOP and the
LPUSH of a return (1192, 1217).

A run that drops an orphan announcement sends its checker the finish message (1664), which ends the checker (606)
while the run goes on: such a host is in `deaf` until its next run.  Its job is then not watched
(`RunEnds`, `JobCanceled`), not returned when it fails (`GiveUp`), and at 1840-1870 the run either waits
for ever for a first check (`Attended` takes its fairness away) or takes the finish message itself,
whose status is nil (`NilStatus`: the process ends).

History variables, which the properties need and which guard nothing but the number of
faults: `changed` has the jobs whose record its host changed or took after a pause, or whose announcement
was given back more than once; `lost` the jobs that were in the hand of a run when it was cut off;
`muted` those whose announcement was lost with the run that held it, overwritten in the next
round of the loop (1569), or removed by another host (1224).

### How `RedeliveryWalk` corresponds to the code

`redeliver.go`, `hook_deliveries.go`, `ratelimit_budget.go` and
`ExecuteGitHubClientFunction` (`client.go`).  `log` is GitHub's list of failed deliveries,
newest first; `remaining` GitHub's quota; `budget`, `spent`, `resetAt` the `RedeliveryBudget`;
`listed` the cursor, `toRedeliver` the failed originals, `left` the loop over them from
the end; `inQueue` and `inDone` the snapshot; `place` and `donePlace` the lists now, which others change in
every way the code does (`Moves`); `stayed` is a history variable, the jobs whose record has been in one queued list since the
walk began to read these.
`op` and `tries` are the call being made, `ctx` its context.  A unit of work (a page, a
delivery) goes through `reserve`, and possibly `wait`; each call through `call` and, when its
answer shows a quota nearly used up, `paused`.

Abstracted: time (`resetAt` is past or to come), payloads (a delivery keeps the fields the
walk branches on), and a body that cannot be decoded (an error of its Get).  Every
error GitHub or Redis can give is a choice.

### How `TemplateStore` corresponds to the code

`internal/anka/lru_*.go`, the template commands of `cli.go`, and the `TemplateTracker`
(`config.go:660-800`).  `store` and `accessed` are what Anka has on the host; `tracker` the
shared tracker; `lru` and `tried` the loop of `CleanupLRUTemplates`; `result` what
`EnsureVMTemplateExists` returned.  Plugins are admitted as the worker loop does it: the
loop looks at the others' `Preparing` (`LoopPasses`), `Run` sets its own later
(`RunPrepares`), so two can be inside.

Abstracted: sizes are small numbers, a template has an old and a new tag, time is the number of
runs begun, VMs take no space.  A discovery fails as a whole, or leaves single templates with the size 0 or the
current time.  `InUse` is left out because nothing sets it.

### How `WorkerLoop` corresponds to the code

`main.go:289-815`, `internal/run`, `internal/drain`, and the ways through `Run` and
`checkForCompletedJobs`.  `main` and `next` are main's goroutine; `quit` is `toRunOnce`, `cancelled`
the worker's context, `stopped` a plugin's; `ran`, `initial`, `preparing`, `paused` are
`PluginRunCount`, `FinishedInitialRun`, `Preparing`, `Paused`.  `top`, `pausing`, `siblings`,
`after` are the phases of the loop; `run` to `ending` those of `Run`, where `ending` is the deferred
`wg.Wait` that comes before `cleanup`.  `checker`, `checked`, `told` are the second
goroutine, `FirstCheckForCompletedJobsRan` and a message in `JobChannel` or `RetryChannel`.

Abstracted: Redis, GitHub and the templates are choices of outcome; sleeps take no time;
`toRunOnce`, which the code reads and writes without a lock, is read again in each round (a
late read is a later signal).

## 3. Runs

| Run | Instance | Checks | Result |
|---|---|---|---|
| `faults` | 1 handler, 2 jobs of which one has no template, 1 fault of any kind (crash, stop, receiver restart, Redis failure in cleanup, failed VM deletion, no capacity, no template on the host) | `TypeOK`, `CleaningSingle`, `VmHasJob`, `NeverLost` | hold, 1.74 M states |
| `race` | 2 handlers, 2 jobs of which one is delivered, 1 failed pull or lack of capacity | `ExclusiveClaim`, `NoVmLost`, `LifecycleSpec` | hold, 0.17 M states |
| `progress` | 2 handlers, 1 job, 1 fault out of stop, receiver restart, no template on the host; fair | `JobsLeave` | holds, 0.18 M states |
| `walk` | two logs of failed deliveries (a redelivered one, one too old, one without the label), pages of two, quota of 6, handlers that spend it, and claims, cleanups, returns and takeovers that move the records meanwhile; fair | `TypeOK`, `WithinBudget`, `OldestFirst`, `NoFailureForgotten`, `OrphanUnlessMoved`, `WalkEnds` | hold, 1.74 M states |
| `templates` | 1 plugin, 3 templates on a disk too small for them, one of which outgrows it, 3 runs, 1 failing command or restart | `TypeOK`, `NotInVain`, `Tracked`, `NoStuckPull`, `BufferKept`, `LeastUsedFirst` | hold, 1.07 M states |
| `worker` | 2 plugins: two handlers, or a receiver and a handler in either order; any signals; fair | `TypeOK`, `InOrder`, `FlagsCleared`, `ShutsDown`, `NormalRunsEnd` | hold, 0.17 M states |
| `paused` | 2 hosts of which one always has room, 2 jobs, 2 of a stop, a crash and a failed job, at any step; fair | `TypeOK`, `NeverLost`, `OneUnlessChanged`, `PausedLeave` | hold, 0.79 M states |
| `stuck_cleaning` | 1 handler, 2 jobs, 1 crash | `CleanupFinalized` | violated |
| `duplicates` | 1 job delivered twice | `DuplicatesSkipped` | violated |
| `stop_loses` | 1 handler, 2 jobs, 1 stop | `StopKeepsJobs` | violated |
| `runs_end` | 1 handler; fair | `RunsEnd` | violated |
| `paused_twice` | 2 hosts, 1 job, no fault | `OneRuns` | violated |

Why the bounds are enough.

* `JobQueues`.  Handlers never address each other: a race has two parties, the
  one that has read a record and the one that was faster, so two handlers show it; a third adds
  only symmetric losers.  The second job of `race` has no record: GitHub may give it the runner
  that was started for the first; `faults` has two records.  What the position of a record in a list matters for (LREM by
  value, stepping over a job) is covered by the theorem, for any number of jobs.  `MaxAttempts = 1`
  gives a first try, a counted retry and the cancellation.  One fault (a crash, a stop, a failed
  command) is explored with its consequences, a half-done cleanup or a restart, from every
  state in which it can happen; the theorems have no such bound.
* `RedeliveryWalk`.  A log longer than one page with originals on both, one job with both kinds
  of event, and a quota that the walk uses up in the middle (a budget of at most 3, the
  largest unit) reach every branch.  With `Limit` below 6 half the quota is less than one
  unit needs, and the walk waits for ever; GitHub's smallest quota is 60.
* `TemplateStore`.  Three templates: one wanted, two to choose from.  Three runs: a history that
  orders the templates, a pull, and what comes after it.
* `WorkerLoop`.  Every wait is of one plugin for a sibling or for the one before it.
* `PausedJobs`.  A takeover has two parties.  The second job keeps the taker busy or is behind the
  first in the paused list.  Two faults are of different kinds, so that a job can fail on one host and be cut
  off on the other.  `Queue` fixes the order of the jobs at the start: they are interchangeable.

The instances with `CHECK_DEADLOCK FALSE` end: the walk is over, the process has exited, the
number of runs is used up.  All others never stop.

Properties that need a choice of faults: `NoVmLost` fails under a
stop or a crash (the code keeps no record between `anka run` and the RPUSH), a failed command
of cleanup or a failed deletion of a VM (its record is dropped all the same), and when the receiver
starts again or a delivery is repeated (see the divergences below); `JobsLeave` under a crash or Redis failure,
because a job that was in a handler's memory is gone for `Tracked`, or its
completed event is dropped by a receiver that does not find it and its record
waits for an event that never comes.  `LifecycleSpec` is checked in the instance with two handlers;
the theorem holds for every kind of fault (a job that vanishes with its process leaves, for the
abstract life cycle, and `NeverLost` says when that may happen).  `Tracked` and `LeastUsedFirst` are about plugins that do not overlap: two inside
`EnsureVMTemplateExists` can lose an entry (one pulls what the other has just deleted and not
yet untracked), and use what the other has listed.  `NeverLost` of `PausedJobs`, `OneUnlessChanged`, `OrphanUnlessMoved` and
`PausedLeave` name their exceptions, which are what the code does (see the divergences below).

### Fairness

* `JobQueues`: weak fairness of a handler's `Run` steps, its `cleanup` steps and its
  restart: they are sequential code that waits for nobody (process supervisors restart
  anklet).  The checker's `CheckCompleted` is weakly fair (a loop with a sleep).
  Goroutines of the receiver and delivered webhooks are weakly fair.  `JobCompletes`
  is weakly fair: GitHub ends every job (it cancels queued jobs after a day, running ones
  after its time limit).  `RetryIsOver` is strongly fair: it competes
  with `StepFails`, the failure of one API call, and the assumption is that the API
  does not fail every time it is asked.  Nothing is assumed of `JobStarts`: a runner may
  never be given a job.
* `RedeliveryWalk`: weak fairness of the walk (one goroutine) and of `WindowResets` (time
  passes).  `WalkEnds` exempts behaviours in which handlers call GitHub for ever:
  they may use up every window before the walk reads it.
* `WorkerLoop`: weak fairness of main, of each plugin's goroutine, of its checker, of the
  goroutine that passes on the cancellation, and of the end of a job on GitHub.  None of
  signals.
* `PausedJobs`: weak fairness of each host's steps, as long as its run has a checker (`Attended`), but
  not of `GetRoom`: a host that waits may never get room.

`[]<>P` states that a condition does not stay false for ever, whatever is still to come.

### Findings

1. **A cleanup that was cut short is not finalized** (`stuck_cleaning`).
   `github.go:1458` announces "finalize cleanup if the service crashed mid-cleanup",
   but `cleanup` returns at 1022 when the handler's own list is empty, which it is once
   the job itself was moved to the cleaning list.
2. **Duplicate queued events are not always skipped** (`duplicates`), against
   `docs/manual-webhook-delivery.md:119`: check and push are separate commands.
3. **A stop can lose a job** (`stop_loses`), against `README.md:119`: when the
   signal comes between LREM and RPUSH the RPUSH is not sent.  The takeover of a paused job has the same
   window (`github.go:1682`-1773), which `PausedJobs` has too (`lost`).
4. **A run that returns an error may wait for its checker for ever** (`runs_end`), against
   `plugins/handlers/github/README.md:429`: fourteen returns of the claim send no message, so
   the deferred `wg.Wait` (1389) does not return, the plugin stays `Preparing`, and the worker
   never sees the error.
5. **Two hosts may run one paused job** (`paused_twice`), against `github.go:2169`: a host that has
   popped the announcement and read the record as paused takes the job, although its first
   host got room and changed the record meanwhile.  The LREM of the old copy removes
   nothing, and its reply is ignored (1682).

Further divergences met while modelling, which no run of their own shows:

* A handler may resume a VM's record as if it were a job: "always get -1 so we get the eldest job"
  (`github.go:1524`), but -1 is the newest record, and the guard at 1537 compares `Action`
  with a value of `Type` (`Resume`).  It takes no crash to get there: a receiver that starts empties
  `in_progress` while jobs run, and a handler that cleans up a job queued twice removes it from there for
  all.  The next handler whose runner has not been taken then finds its job in no list, ends its run and
  leaves the record at `in_progress`; `cleanup` skips such a record; and the next run resumes the
  newest record of the list, the VM's, and starts a second VM whose name overwrites the
  first one's.  This was met while looking for the hypotheses of the theorem on `NoVmLost`.
* The walk takes a job for one "in completed but not queued" (`redeliver.go:247`), and deletes its completed record, when
  the job's record moved between two queued lists while these were read: the keys are read one by one
  (143-150), and a record that goes from a list still to be read to one that was read is
  missed.  A record that was in no list then (in a handler's hand, or not yet pushed) is
  missed, too.  The handler that runs the job will not see that it is completed.  The plain
  property, that the job is in no queued list when its completed record is deleted, is violated in the instance of `walk`;
  `OrphanUnlessMoved` says that nothing else can go wrong.
* The calls of one unit may exceed what `plugins/receivers/github/README.md:218` promises ("half"
  of the quota): repetitions inside `ExecuteGitHubClientFunction` are not recorded
  (`client.go:426`).
* After a rate-limit pause the client returns a context that its own deferred call has
  cancelled (`client.go:352`); the walk then fails at its next call (`ctx = "dead"`).
* Two plugins can pull at once: the loop reads `Preparing` and `Run` sets it later
  (`main.go:731`, `github.go:1299`), and the check for pulls and the mark are separate
  (`cli.go:1052`).
* `InUse` protects nothing: `SetTemplateInUse` (`config.go:748`) has no caller.
* `EnsureVMTemplateExists` takes every pull that returns nothing for a tag that the registry does
  not have (`cli.go:1070`), so that a job may be cancelled for a passing failure (`CancelUnrunnable`).
* When main returns it ends the process after a second, whatever still runs: a signal while plugins
  are still being started cuts off those that run (`main.go:460`, `Exit` in `WorkerLoop`).
* A run that waits for another check of a checker that has already ended waits until it is
  cancelled (`github.go:1840`, `PickJob` in `WorkerLoop`), also while draining (`main.go:329`).
* A function of the paused loop that is deferred gives back whatever the shared variable holds
  (`github.go:1571`): the announcement of a later round, several times, and never an
  announcement that the next round has overwritten (1569).  The overwritten one is lost, and its job stays paused
  until its own host gets room (`muted`).  One that is given back after its job is gone stays until a
  later look drops it; the announcement of an orphan that was taken as the last one is
  itself given back after the loop, as its host's list does not say that the job is over.
  A run that finds a job running elsewhere (1677) in a later round of the loop gives its announcement back once for
  each round, and two other hosts can then both take the job over (`changed`).
* After a signal nothing is given back: the announcement in the hand of a stopped run is lost, and its job, too, stays
  paused until its own host gets room (`github.go:1592`, 1712; `muted`).
* A run that drops an orphan announcement tells its checker to finish (`github.go:1664`) and goes on
  to claim a job: it waits for ever for the first check (1840), or reads the nil status of that message (1870).
* The last command of a return (`github.go:1224`) removes an announcement of the job by its id,
  which may be the one the next host has just made.
* A finish message whose record has no status (`github.go:1435`, 1870), and a VM that could not be
  described (2343), are nil pointers; the latter is a `Crash` in `JobQueues`.

## 4. Proofs

Assumptions: `ConstantsAssumption` of `JobQueues` (deliveries are about jobs;
`MaxAttempts` is a positive number, `MaxFaults` a number) and of `RedeliveryWalk` (logs are
sequences of deliveries; a page holds one at least; a record moves between places), `NewestFirst`
(GitHub's log is sorted: behind a delivery that is too old there are only such), `StoreAssumption`
(templates are finite in number, sizes are positive, the registry's templates are templates, `None` is not a tracker entry),
`WorkerAssumption` (there is a plugin), and `PausedAssumption` (jobs are finite in number, as
the main list holds them all at first, each once, and `None` and the names of the shared lists are not used
for anything else).  Some theorems have hypotheses of their own, which are named and explained
with them: `OneDelivery`, `Steady`, `OnePlugin` and `CachedIsThere`.  Otherwise the sets of handlers, jobs,
VMs, deliveries, templates, plugins and hosts are arbitrary, the number and kinds of faults too.

* `TypeCorrect`: `Spec => []TypeOK`.  `TypeOK` is inductive as it stands because
  `ControlOK` is part of it: a handler at `remove`, `push`, `claimed`, `obtain`,
  `record`, `boot` or `c4` has a record in hand, and one at `c2` finds its
  cleaning list not empty (no other process takes from it).  Without
  these two facts the types of what is pushed are not preserved.
  The proof has a lemma per group of actions (`RunType`, `CleanupType`,
  `CheckerType`, `ProcessType`, `ReceiverType`) and a step per action; the lemmas
  of `RedisListsProofs` say what a command does to the database.
* `SingleRecordCleaned`: `Spec => []CleaningSingle`.  Relative to `TypeOK`: no action outside
  cleanup touches a cleaning list (`KeepsCleaning`), `NextRecord` moves a record
  there only if it is empty, and every other command of cleanup takes records out.
  This is what makes the DEL that ends a cleanup harmless.
* `ClaimIsExclusive`: `Spec => []ExclusiveClaim`, assuming `OneDelivery` (two deliveries
  are about different jobs: `duplicates` shows how a repeated one pushes a second record).  `ExclusiveClaim` alone
  is not inductive: the push of a new job is harmless only because a job whose delivery
  is still processed has no record (`Fresh`), and what a claim takes and a return puts
  into the main queue is a job, never a VM's record (`JobsOnly`).  `Unique`, the three
  together, is inductive next to `TypeOK` and `CleaningSingle` (which makes the DEL after
  `PutBack` and the RPOP of `TakeForReturn` concern the same record).  Most
  steps are *quiet*: they move no record, and `QuietStep` disposes of them at once
  (`QuietRun`, `QuietChecker`, `QuietProcess`, `QuietReceiver`, `QuietCleanup`).
  The others do one of four things to the lists, and each has a lemma that does not know
  the action: a handler takes a record (`TakeStep`), a record is put into a list
  (`PlaceStep`), moves between two lists (`MoveStep`), or a list is deleted
  (`DeleteStep`).  Crashes need no argument of their own: they are quiet, as they only
  forget.
* `VmsHaveJobs` and `RecordsAreNeverLost`: `Spec => []VmHasJob`, `Spec => NeverLost`, without `OneDelivery`.
  Both need `Records`: in a handler's own list every VM's record stands behind the record of its
  job (`Ordered`; being there at all is not inductive, as commands take records from an end of
  the list), a VM's record in the cleaning list has its job in the own list, a handler that
  prepares a job still has its record, what is claimed and given back is a job, and before the DEL
  that ends a cleanup (`c3`, `c5`) the cleaning list has nothing left that is unprocessed.
  Given `Records`, the few actions that take a job's record out of a list have a lemma each
  (`RemoveEffect` to `ReturnEffect`), which says where it went.
* `ListsImplementLifecycle`: `Spec => LifecycleSpec`, assuming `OneDelivery`, with every fault.  `Unique`
  and `Records` give `Placed`: a delivered job is awaited, queued, owned by one handler or gone, and
  no two of these at once, so that `Where` follows from the lists.  Then each step is shown to
  change `Where` of one job at most (`OneJobMoves`), and by a move that the life cycle allows.  With
  a second delivery the refinement is false: a job that is gone is queued again.
* `VmsAreRecorded`: `Spec => []NoVmLost`, assuming `OneDelivery` and `Steady` (of the kinds of fault
  only failed pulls and missing room are left, any number of them, next to the failing steps of a run, which are
  always possible; each of the others is a way to lose a VM).  That a VM has a record says nothing of the next step, which may
  overwrite it, so `AllTidy` says where every record is: a handler has at most one job with
  its VM behind it, and nothing in its cleaning list but what it is processing (`OwnShape`,
  `CleaningShape`); the VM's name is in the hand, behind the job, or in the cleaning list (`Named`); and
  a cleanup that gets past the job's record finds one that does not say `in_progress`
  (`HandShape`).  For that last point the lists of events matter: a record that says so belongs to a job
  that is in `in_progress` or `completed` (`Accounted`), where the checker finds it before `Run` gives up.
  Here `OneDelivery` comes in: what another handler removes from these lists belongs to its
  own job (`Loses`, `Unique`).
* `BudgetHolds`: `Spec => []WithinBudget`.  A call is recorded when it is answered, long after
  `Reserve` has looked at the budget, so the invariant must say what the unit in hand may
  still record: `UnitFits` (`spent + Owed <= budget`, where `Owed` depends on the call
  being made and on the delivery).  `Reserve` establishes it, an answer lowers both sides, and
  a new window is read only between units.
* `WalkTypesCorrect`, `WalksOldestFirst`, `WalkForgetsNothing`: `Spec => []TypeOK`, `[]OldestFirst`,
  `[]NoFailureForgotten`.  `WalkInv` says that `toRedeliver` has the failed originals of what is
  listed, in ascending order (`Selected`), that the deliveries decided on are its last ones, as many as
  `left` says (`Decided`), and that the listing is over after it only when its last page was
  read or held a delivery that is too old (`Phases`).  That nothing newer is behind such a page is
  `NewestFirst`.  `Ascending` is the code's append in the order of the log, stated by a `CHOOSE` of
  the one sorted enumeration, whose existence is proved (`AscendingExists`).
* `StayedAreKept`: `Spec => OrphanUnlessMoved`, with every move of records.  `Seen`: while the queued keys are read, a job
  of `stayed` is in the snapshot or in a key that is still to be read, and afterwards in the snapshot, which
  never changes again.  The exception for records that move during the reading is needed (see the divergences).
* `NoPullIsStuck`: `Spec => []NoStuckPull`.  `Marked` (a marked template is being pulled by some plugin)
  is inductive next to the types, also for plugins that overlap: when two pull one template the
  first to finish clears the mark of both.
* `HostTemplatesAreTracked`: `Spec => []Tracked`, assuming `OnePlugin`.  `Tracked` is restored by a pull only
  because the pulled template has had an entry all along, and the entry that is dropped is that
  of a template already deleted (`Midway`).  With two plugins it is false: see section 3.
* `TemplateTypesCorrect`: `Spec => []TypeOK` of `TemplateStore`, for any plugins.  What is not about types in it,
  that a cleanup which goes on has a template left and never takes the one it makes room for, needs
  `Spared`: the wanted template is nowhere on the list.  A list that is not hopeless has
  another template because the code counts what it may delete without the wanted one (`CandidatesFacts`).
* `LeastUsedGoFirst`: `Spec => LeastUsedFirst`, assuming `OnePlugin`.  `Ordered` says that the rest of the list is in the
  tracker's order and has everything the tracker knows, but for the wanted template and what was
  tried; and that the head, from its deletion to the next candidate, is not on the host.  The order comes from
  `SortedSorts`: the code's two loops of exchanges sort any list of distinct templates, because a pass
  leaves at its position what comes before all behind it (`Swept`).
* `BufferIsKept`: `Spec => BufferKept`, assuming `OnePlugin` and `CachedIsThere` (what Anka reports as cached of another
  tag is on the host; the instance of `templates` satisfies both).  `SInv`: the disk is not overfull, and a plugin that pulls found room for what it pulls.
  Without the hypothesis a pull of a template that grows could count as nothing to download.
* `NothingInVain`: `Spec => []NotInVain`, under the same hypotheses.  `VInv`: as long as no command has failed, the tracker's
  sizes are those on the host (but for the template just deleted), and what is free and what the rest of the list
  would free are enough for the download (`Worthwhile`).  Every deletion moves its size from the second to the
  first (`DeletionFrees`), so that at the end of the list there is room: the refusal that the code marks
  "this should not happen, but just in case" (`lru_cleanup.go:238`) is indeed not reached after a deletion.
  It needs all the invariants before it: a pull that starts without an entry would enter the size 0
  (`Tracked`), and space beyond the disk would be freed without being gained (`SInv`).

  The sums, the two loops of the sort and the loop over the candidates are recursive functions.  Induction over data is
  out of reach as a rule with a predicate for parameter; it is stated here for a set of numbers (`AllNumbers`,
  `AllInRange`) or of subsets (`AllSubsets`) and proved from well-foundedness, and the existence of what such a
  definition chooses by building its graph (`LoopExists`, `SumExists`).  `SumFacts` says that a sum is one
  term and the sum of the others, whichever term is taken first.
* `StartsInOrder` and `FlagsAreCleared`: `Spec => []InOrder`, `Spec => []FlagsCleared`, by one
  invariant.  `StartedInOrder` relates main's counter to `FinishedInitialRun` of the plugins before it, `Started`
  says which phases follow the initial run, and `Cleared` follows both flags
  through the phases of a run, where only a cancelled worker may leave one set
  (`SkipRun`).  A flag `initial` once set stays set until the process ends.
* `WorkerTypesCorrect`: `Spec => []TypeOK`, inductive as it stands.

* `PausedTypesCorrect` and `NoJobIsLost`: `Spec => []TypeOK`, `Spec => []NeverLost` of `PausedJobs`, by one
  invariant, `IInv`; the second for every job but those that a run had in its hand when it was stopped or crashed, between
  the command that takes a record and the one that pushes it (`lost`).  Nobody owns a job exclusively here: two hosts may work on one
  (`paused_twice`), and a host may take a record out of another one's list at any moment.  So
  the invariant claims nothing about where a job is, only that it is `Somewhere`, and `HostOK`
  has what makes each removal harmless: a host that looks for work has an empty list, one
  that has a job finds at most that job in its list, what it deletes in `cleanup` has
  ended, and a record it has read and not yet taken tells the truth when it says that a job is over
  (`Right`).  Others only take from a host's list (`Frame`), which keeps `HostOK`.
  The steps are of two kinds: those that touch no list of jobs (`AloneStep`) and those
  that change one (`ChangeStep`): taking a record into the hand (`IntoHand`), pushing it
  (`FromHand`), overwriting it with the host's copy (`UpdateStep`), marking it ended (`OverStep`), and
  deleting the list (`CleanupStep`).  A run that is cut off by a signal or a crash changes no list
  (`CutOffFact`): what it had in the hand is counted as lost at that step, at whichever command it was.

* `OnePlaceUnlessChanged`: `Spec => []OneUnlessChanged`.  `SInv` says of a job outside `changed` that it has one
  host or one position in the main list (`Sole`); that it is announced once at most, in the paused
  list or in the hand of one host, and only while its owner waits for room (`Offered`); and that a host
  between its claim and its pause finds its own record in its list (`Knows`).  Why all three: a
  takeover removes the record a host has read, so the job changes hands instead of being doubled
  only if that record is still the one its owner wrote; and two takers need two announcements.
  Steps are about other jobs (`CalmSingle`), leave the job's places alone (`QuietSingle`), happen
  inside its owner (`OwnSingle`), or are one of seven, which have their own lemmas.

Only model-checked: the liveness properties (`JobsLeave`, `PausedLeave`, `WalkEnds`, `ShutsDown`,
`NormalRunsEnd`), as liveness under fairness is out of the prover's reach.  Every invariant and action
property that a run checks is the subject of a theorem.

## 5. Plan

Done: the core (`JobQueues`, `JobLifecycle`, their seven theorems), `PausedJobs`,
`RedeliveryWalk`, `TemplateStore`, `WorkerLoop`, with the theorems of section 4: all of their
safety properties are proved.

What would come next, in this order:

1. `UpdateJob`: `UpdateJobInDB` command by command, against the checker
   (`internal/github/database.go:18`).
2. `PluginRun`: the four channels between `Run` and its checker with their capacity of 1, which
   refines the `reason` and `told` abstractions of `JobQueues` and `WorkerLoop`.
3. `QueueTargetIndex` shared by the plugins of one process.
4. `ReceiverEvents`: the receiver's searches key by key.
5. `RedisRetry`: commands whose reply is lost and which are sent again.

## 6. Not modelled

Metrics, logging, host probes, configuration and start-up parsing, the HTTP plumbing
of the GitHub client (building clients, installation tokens), what happens inside a VM,
version parsing and mounts of the Anka wrapper, container files and scripts.  None of them writes to
the job lists.  The parts of section 5 that are left are abstracted in the modules as
section 2 says.
