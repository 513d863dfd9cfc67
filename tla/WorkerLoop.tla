----------------------------- MODULE WorkerLoop -----------------------------
(***************************************************************************)
(* One worker process: main starts its plugins in the order of the config, *)
(* each in a goroutine that runs the plugin again and again, and waits for *)
(* them.  The plugins of a host wait for each other through three flags,   *)
(* Preparing, Paused and FinishedInitialRun.  A run of a handler has a     *)
(* second goroutine, checkForCompletedJobs, and waits for it before it     *)
(* cleans up.  Signals, and a run that returns an error, end the worker.   *)
(*                                                                         *)
(* Abstracted: Redis and GitHub (JobQueues), templates (TemplateStore),    *)
(* the redelivery walk; an error of Redis or Anka is a choice.  Sleeps take*)
(* no time.  toRunOnce is read and written without a lock: it is read      *)
(* again in each round, so that a late read is a later signal.             *)
(***************************************************************************)
EXTENDS Naturals

CONSTANTS
    N,          \* number of plugins
    Configs     \* the sets of plugins that may be receivers

Plugins == 1..N

ASSUME WorkerAssumption == N \in Nat \ {0} /\ Configs \subseteq SUBSET Plugins

VARIABLES
    receivers,  \* the plugins that are receivers; the others are handlers
    main,       \* "starting", "waiting", "leaving" or "exited"
    next,       \* the plugin that main starts next
    cancelled,  \* workerCtx
    quit,       \* SIGQUIT was received: toRunOnce
    interrupts, \* other signals received
    pc,         \* plugin -> control state of its goroutine
    stopped,    \* plugin -> its pluginCtx is cancelled
    ran,        \* plugin -> PluginRunCount is not 0
    initial,    \* plugin -> FinishedInitialRun
    preparing, paused,
    failed,     \* plugin -> its run has returned an error
    checker,    \* plugin -> "none", "checking" or "ended"
    checked,    \* plugin -> FirstCheckForCompletedJobsRan
    told,       \* plugin -> a message that ends the checker is in a channel
    job         \* plugin -> the job of its list: "none", "running", "over", or
                \* "seen", when the checker has marked its record completed

worker == <<main, next, cancelled, quit, interrupts>>
flags == <<initial, preparing, paused>>
run == <<failed, checker, checked, told, job>>
vars == <<receivers, worker, pc, stopped, ran, flags, run>>

Handlers == Plugins \ receivers

Goto(p, l) == pc' = [pc EXCEPT ![p] = l]
Mark(f, p, value) == f' = [f EXCEPT ![p] = value]

ReturnAllToMainQueue == quit \/ interrupts > 0
Canceled(p) == cancelled \/ stopped[p]
Preparing(p) == \E q \in Plugins \ {p} :
    (q \in receivers <=> p \in receivers) /\ preparing[q]
GetPausedPlugin == \E q \in Plugins : paused[q]

\* Nothing of the plugins is left when the process ends.
EndProcess ==
    /\ main' = "exited"
    /\ pc' = [p \in Plugins |-> "off"]
    /\ stopped' = [p \in Plugins |-> FALSE]
    /\ ran' = [p \in Plugins |-> FALSE]
    /\ initial' = [p \in Plugins |-> FALSE]
    /\ preparing' = [p \in Plugins |-> FALSE]
    /\ paused' = [p \in Plugins |-> TRUE]
    /\ failed' = [p \in Plugins |-> FALSE]
    /\ checker' = [p \in Plugins |-> "none"]
    /\ checked' = [p \in Plugins |-> FALSE]
    /\ told' = [p \in Plugins |-> FALSE]
    /\ job' = [p \in Plugins |-> "none"]

Init ==
    /\ receivers \in Configs
    /\ main = "starting" /\ next = 1
    /\ cancelled = FALSE /\ quit = FALSE /\ interrupts = 0
    /\ pc = [p \in Plugins |-> "off"]
    /\ stopped = [p \in Plugins |-> FALSE]
    /\ ran = [p \in Plugins |-> FALSE]
    /\ initial = [p \in Plugins |-> FALSE]
    /\ preparing = [p \in Plugins |-> FALSE]
    /\ paused = [p \in Plugins |-> TRUE]
    /\ failed = [p \in Plugins |-> FALSE]
    /\ checker = [p \in Plugins |-> "none"]
    /\ checked = [p \in Plugins |-> FALSE]
    /\ told = [p \in Plugins |-> FALSE]
    /\ job = [p \in Plugins |-> "none"]

-----------------------------------------------------------------------------
(* main and the signals.                                                    *)

\* Variant for InOrder: a plugin is started when the one before it has begun
\* its first run.
MutantStartPlugin ==
    /\ main = "starting" /\ next \in Plugins
    /\ next > 1 => ran[next - 1] /\ ~cancelled
    /\ paused' = IF next > 1 THEN [paused EXCEPT ![next] = FALSE] ELSE paused
    /\ Goto(next, "top")
    /\ next' = next + 1
    /\ UNCHANGED <<receivers, main, cancelled, quit, interrupts, stopped, ran,
                   initial, preparing, run>>

\* A plugin is started when the one before it has finished its initial run;
\* it is no longer paused then.
StartPlugin ==
    /\ main = "starting" /\ next \in Plugins
    /\ next > 1 => initial[next - 1] /\ ~cancelled
    /\ paused' = IF next > 1 THEN [paused EXCEPT ![next] = FALSE] ELSE paused
    /\ Goto(next, "top")
    /\ next' = next + 1
    /\ UNCHANGED <<receivers, main, cancelled, quit, interrupts, stopped, ran,
                   initial, preparing, run>>

\* Cancelled while it waits to start one, main returns.
StopStarting ==
    /\ main = "starting" /\ next \in Plugins /\ next > 1 /\ cancelled
    /\ main' = "leaving"
    /\ UNCHANGED <<receivers, next, cancelled, quit, interrupts, pc, stopped,
                   ran, flags, run>>

AllStarted ==
    /\ main = "starting" /\ next \notin Plugins
    /\ main' = "waiting"
    /\ UNCHANGED <<receivers, next, cancelled, quit, interrupts, pc, stopped,
                   ran, flags, run>>

AllReturned ==
    /\ main = "waiting" /\ \A p \in Plugins : pc[p] = "returned"
    /\ main' = "leaving"
    /\ UNCHANGED <<receivers, next, cancelled, quit, interrupts, pc, stopped,
                   ran, flags, run>>

\* The deferred function ends the process after a second, whatever still runs.
Exit ==
    /\ main = "leaving" /\ EndProcess
    /\ UNCHANGED <<receivers, next, cancelled, quit, interrupts>>

Quit ==
    /\ main # "exited" /\ ~quit
    /\ quit' = TRUE
    /\ UNCHANGED <<receivers, main, next, cancelled, interrupts, pc, stopped,
                   ran, flags, run>>

\* The second interrupt ends the process.
Interrupt ==
    /\ main # "exited" /\ interrupts < 2
    /\ interrupts' = interrupts + 1
    /\ IF interrupts = 0
       THEN cancelled' = TRUE /\ UNCHANGED <<main, pc, stopped, ran, flags, run>>
       ELSE EndProcess /\ UNCHANGED cancelled
    /\ UNCHANGED <<receivers, next, quit>>

-----------------------------------------------------------------------------
(* The loop of a plugin.                                                    *)

\* A goroutine per plugin passes on the cancellation of workerCtx.
PassOnCancel(p) ==
    /\ cancelled /\ ~stopped[p] /\ pc[p] # "off"
    /\ Mark(stopped, p, TRUE)
    /\ UNCHANGED <<receivers, worker, pc, ran, flags, run>>

\* A plugin that stops, or cannot be set up, stops all.
LeaveLoop(p) ==
    /\ \/ pc[p] = "top" /\ (stopped[p] \/ ~ran[p])
       \/ pc[p] = "pausing" /\ GetPausedPlugin /\ Canceled(p)
    /\ cancelled' = TRUE /\ Mark(stopped, p, TRUE)
    /\ Goto(p, "returned")
    /\ UNCHANGED <<receivers, main, next, quit, interrupts, ran, flags, run>>

\* Only the first plugin, or one that has not run yet, goes on while another
\* is paused.
BeginRound(p) ==
    /\ pc[p] = "top" /\ ~stopped[p]
    /\ Goto(p, IF ran[p] /\ p # 1 THEN "pausing" ELSE "siblings")
    /\ UNCHANGED <<receivers, worker, stopped, ran, flags, run>>

NoneIsPaused(p) ==
    /\ pc[p] = "pausing" /\ ~GetPausedPlugin
    /\ Goto(p, "siblings")
    /\ UNCHANGED <<receivers, worker, stopped, ran, flags, run>>

SiblingIsPreparing(p) ==
    /\ pc[p] = "siblings" /\ Preparing(p)
    /\ Goto(p, "top")
    /\ UNCHANGED <<receivers, worker, stopped, ran, flags, run>>

NoSiblingIsPreparing(p) ==
    /\ pc[p] = "siblings" /\ ~Preparing(p)
    /\ Mark(ran, p, TRUE)
    /\ Goto(p, "run")
    /\ UNCHANGED <<receivers, worker, stopped, flags, run>>

\* The worker sends itself a SIGQUIT when a run returns an error.
RunFailed(p) ==
    /\ pc[p] = "after" /\ failed[p]
    /\ cancelled' = TRUE /\ quit' = TRUE /\ Mark(stopped, p, TRUE)
    /\ Goto(p, "returned")
    /\ UNCHANGED <<receivers, main, next, interrupts, ran, flags, run>>

RunReturned(p) ==
    /\ pc[p] = "after" /\ ~failed[p]
    /\ stopped' = [stopped EXCEPT ![p] = @ \/ cancelled \/ quit]
    /\ Goto(p, "top")
    /\ UNCHANGED <<receivers, worker, ran, flags, run>>

Loop(p) ==
    \/ LeaveLoop(p) \/ BeginRound(p) \/ NoneIsPaused(p)
    \/ SiblingIsPreparing(p) \/ NoSiblingIsPreparing(p)
    \/ RunFailed(p) \/ RunReturned(p)

-----------------------------------------------------------------------------
(* A run of a receiver.                                                     *)

ReceiverStarts(p) ==
    /\ p \in receivers /\ pc[p] = "run"
    /\ Mark(preparing, p, FALSE) /\ Mark(paused, p, FALSE) /\ Mark(initial, p, TRUE)
    /\ Goto(p, "listening")
    /\ UNCHANGED <<receivers, worker, stopped, ran, run>>

\* The configuration, the client, or the deletion of the in_progress list.
ReceiverFails(p) ==
    /\ p \in receivers /\ pc[p] = "run"
    /\ Mark(failed, p, TRUE)
    /\ Goto(p, "after")
    /\ UNCHANGED <<receivers, worker, stopped, ran, flags, checker, checked,
                   told, job>>

ReceiverStops(p) ==
    /\ pc[p] = "listening" /\ cancelled
    /\ \E error \in BOOLEAN : Mark(failed, p, error)
    /\ Goto(p, "after")
    /\ UNCHANGED <<receivers, worker, stopped, ran, flags, checker, checked,
                   told, job>>

-----------------------------------------------------------------------------
(* A run of a handler.                                                      *)

\* Run returns; the deferred function waits for the checker, which a message
\* in one of the channels ends.
Return(p, error, message) ==
    /\ Goto(p, "ending")
    /\ Mark(failed, p, error)
    /\ told' = [told EXCEPT ![p] = @ \/ (message /\ checker[p] = "checking")]

Prepare(p) ==
    /\ p \in Handlers /\ pc[p] = "run" /\ ~stopped[p]
    /\ Mark(preparing, p, TRUE)
    /\ Goto(p, "setup")
    /\ UNCHANGED <<receivers, worker, stopped, ran, initial, paused, run>>

\* Before the checker and the deferred cleanup: the plugin stays preparing.
SkipRun(p) ==
    /\ p \in Handlers
    /\ \/ pc[p] = "run" /\ stopped[p]
       \/ pc[p] = "setup" /\ Canceled(p)
    /\ Goto(p, "after")
    /\ UNCHANGED <<receivers, worker, stopped, ran, flags, run>>

SetupFails(p) ==
    /\ pc[p] = "setup"
    /\ Mark(failed, p, TRUE)
    /\ Goto(p, "after")
    /\ UNCHANGED <<receivers, worker, stopped, ran, flags, checker, checked,
                   told, job>>

\* Variant for TypeOK: the checker is not started.
MutantStartChecker(p) ==
    /\ pc[p] = "setup" /\ ~Canceled(p)
    /\ Goto(p, "first")
    /\ UNCHANGED <<receivers, worker, stopped, ran, flags, run>>

StartChecker(p) ==
    /\ pc[p] = "setup" /\ ~Canceled(p)
    /\ Mark(checker, p, "checking")
    /\ Goto(p, "first")
    /\ UNCHANGED <<receivers, worker, stopped, ran, flags, failed, checked, told, job>>

\* After the first check: a job that completed meanwhile, or the end of the
\* initial run.
EndAtFirstCheck(p) ==
    /\ pc[p] = "first"
    /\ \/ ~checked[p] /\ Canceled(p) /\ Return(p, TRUE, FALSE)
       \/ checked[p] /\ Return(p, FALSE, TRUE)
    /\ UNCHANGED <<receivers, worker, stopped, ran, flags, checker, checked,
                   job>>

Watch(p) ==
    /\ Mark(job, p, "running")
    /\ Mark(preparing, p, FALSE)
    /\ Goto(p, "watching")

\* The checker has found the plugin's job in progress.
ResumeWatching(p) ==
    /\ pc[p] = "first" /\ checked[p]
    /\ Watch(p)
    /\ UNCHANGED <<receivers, worker, stopped, ran, initial, paused, failed,
                   checker, checked, told>>

\* In a later run, or when the checker's message says neither, the cleanup
\* that a crash left is done; its deferred function ends the pause, too.
FinalizeCleanup(p) ==
    /\ pc[p] = "first" /\ checked[p]
    /\ Mark(initial, p, TRUE) /\ Mark(paused, p, FALSE)
    /\ Goto(p, "picking")
    /\ UNCHANGED <<receivers, worker, stopped, ran, preparing, run>>

\* Variant for NormalRunsEnd: no message is sent.
MutantPickNothing(p) ==
    /\ pc[p] = "picking"
    /\ Return(p, FALSE, FALSE)
    /\ UNCHANGED <<receivers, worker, stopped, ran, flags, checker, checked, job>>

\* Draining, no capacity, or nothing to do.
PickNothing(p) ==
    /\ pc[p] = "picking"
    /\ \E released \in BOOLEAN : preparing' = [preparing EXCEPT ![p] = @ /\ ~released]
    /\ Return(p, FALSE, TRUE)
    /\ UNCHANGED <<receivers, worker, stopped, ran, initial, paused, checker,
                   checked, job>>

\* Redis fails, or a record cannot be read, or the run is cancelled: no message
\* is sent.
PickFails(p) ==
    /\ pc[p] = "picking"
    /\ Return(p, TRUE, FALSE) \/ (Canceled(p) /\ Return(p, FALSE, FALSE))
    /\ UNCHANGED <<receivers, worker, stopped, ran, flags, checker, checked,
                   job>>

\* With a job in its list, Run waits for another pass of the checker.
PickJob(p) ==
    /\ pc[p] = "picking"
    /\ Mark(checked, p, FALSE)
    /\ Goto(p, "claimed")
    /\ UNCHANGED <<receivers, worker, stopped, ran, flags, failed, checker,
                   told, job>>

ClaimedIsCanceled(p) ==
    /\ pc[p] = "claimed" /\ Canceled(p)
    /\ Return(p, FALSE, FALSE)
    /\ UNCHANGED <<receivers, worker, stopped, ran, flags, checker, checked,
                   job>>

\* The job is completed, cancelled, or cannot be prepared here.
DropClaim(p) ==
    /\ pc[p] = "claimed" /\ checked[p]
    /\ Return(p, FALSE, TRUE)
    /\ UNCHANGED <<receivers, worker, stopped, ran, flags, checker, checked,
                   job>>

\* The checker's message says that the job runs elsewhere: Run takes the
\* message and sends none, and the checker goes on until the job is over.
ClaimedIsRunning(p) ==
    /\ pc[p] = "claimed" /\ checked[p]
    /\ Mark(job, p, "running")
    /\ Return(p, FALSE, FALSE)
    /\ UNCHANGED <<receivers, worker, stopped, ran, flags, checker, checked>>

\* A job that was tried before is running already.
RetryIsRunning(p) ==
    /\ pc[p] = "claimed" /\ checked[p]
    /\ Watch(p)
    /\ UNCHANGED <<receivers, worker, stopped, ran, initial, paused, failed,
                   checker, checked, told>>

AwaitResources(p) ==
    /\ pc[p] = "claimed" /\ checked[p]
    /\ Mark(paused, p, TRUE)
    /\ Goto(p, "short")
    /\ UNCHANGED <<receivers, worker, stopped, ran, initial, preparing, run>>

\* Cancelled, completed, or taken by another host.
StopAwaiting(p) ==
    /\ pc[p] = "short"
    /\ \/ Canceled(p) /\ Return(p, TRUE, TRUE)
       \/ Return(p, FALSE, TRUE)
    /\ Mark(paused, p, FALSE)
    /\ UNCHANGED <<receivers, worker, stopped, ran, initial, preparing, checker,
                   checked, job>>

Obtaining(p) == (pc[p] = "claimed" /\ checked[p]) \/ pc[p] \in {"short", "booting"}

\* The template is pulled, the VM cloned and its runner registered; a failure
\* sends a reason to RetryChannel.
ObtainFails(p) ==
    /\ Obtaining(p)
    /\ \E error \in BOOLEAN : Return(p, error, TRUE)
    /\ UNCHANGED <<receivers, worker, stopped, ran, flags, checker, checked,
                   job>>

ObtainIsCanceled(p) ==
    /\ Obtaining(p) /\ Canceled(p)
    /\ \E error \in BOOLEAN : Return(p, error, FALSE)
    /\ UNCHANGED <<receivers, worker, stopped, ran, flags, checker, checked,
                   job>>

ObtainVM(p) ==
    /\ Obtaining(p) /\ pc[p] # "booting" /\ ~Canceled(p)
    /\ Mark(preparing, p, FALSE) /\ Mark(paused, p, FALSE)
    /\ Goto(p, "booting")
    /\ UNCHANGED <<receivers, worker, stopped, ran, initial, run>>

StartRunner(p) ==
    /\ pc[p] = "booting"
    /\ Mark(job, p, "running")
    /\ Goto(p, "watching")
    /\ UNCHANGED <<receivers, worker, stopped, ran, flags, failed, checker,
                   checked, told>>

\* External: the job ends on GitHub.
JobEnds(p) ==
    /\ job[p] = "running"
    /\ Mark(job, p, "over")
    /\ UNCHANGED <<receivers, worker, pc, stopped, ran, flags, failed, checker,
                   checked, told>>

\* The record is completed, the run is cancelled, or Run gets the message that
\* the checker sends for a signal.
EndWatch(p) ==
    /\ pc[p] = "watching"
    /\ \/ job[p] = "seen" /\ Return(p, FALSE, TRUE)
       \/ Canceled(p) /\ Return(p, FALSE, FALSE)
       \/ ReturnAllToMainQueue /\ checker[p] = "checking" /\ Return(p, FALSE, FALSE)
    /\ UNCHANGED <<receivers, worker, stopped, ran, flags, checker, checked,
                   job>>

\* A command fails, or the registration of the runner times out.
WatchFails(p) ==
    /\ pc[p] = "watching"
    /\ \/ Return(p, TRUE, FALSE)
       \/ Return(p, FALSE, TRUE)
    /\ UNCHANGED <<receivers, worker, stopped, ran, flags, checker, checked,
                   job>>

\* The channels and the checker are those of one run.
Forget(p) ==
    /\ Mark(checker, p, "none") /\ Mark(checked, p, FALSE) /\ Mark(told, p, FALSE)
    /\ Mark(job, p, "none")

\* Variant for FlagsCleared: only ObtainVM ends the preparation.
MutantCleanUp(p) ==
    /\ pc[p] = "ending" /\ checker[p] # "checking"
    /\ Mark(initial, p, TRUE) /\ Mark(paused, p, FALSE)
    /\ Forget(p)
    /\ Goto(p, "after")
    /\ UNCHANGED <<receivers, worker, stopped, ran, preparing, failed>>

\* wg.Wait, then cleanup.
CleanUp(p) ==
    /\ pc[p] = "ending" /\ checker[p] # "checking"
    /\ Mark(preparing, p, FALSE) /\ Mark(initial, p, TRUE) /\ Mark(paused, p, FALSE)
    /\ Forget(p)
    /\ Goto(p, "after")
    /\ UNCHANGED <<receivers, worker, stopped, ran, failed>>

-----------------------------------------------------------------------------
(* checkForCompletedJobs.                                                   *)

CheckerPasses(p) ==
    /\ checker[p] = "checking" /\ ~checked[p] /\ ~ReturnAllToMainQueue
    /\ Mark(checked, p, TRUE)
    /\ UNCHANGED <<receivers, worker, pc, stopped, ran, flags, failed, checker,
                   told, job>>

\* The record of the job's completion is found.
CheckerSeesEnd(p) ==
    /\ checker[p] = "checking" /\ job[p] = "over" /\ ~ReturnAllToMainQueue
    /\ Mark(job, p, "seen")
    /\ UNCHANGED <<receivers, worker, pc, stopped, ran, flags, failed, checker,
                   checked, told>>

EndChecker(p) ==
    /\ checker[p] = "checking"
    /\ Mark(checker, p, "ended") /\ Mark(checked, p, TRUE) /\ Mark(told, p, FALSE)
    /\ UNCHANGED <<receivers, worker, pc, stopped, ran, flags, failed, job>>

\* Variant for ShutsDown: the checker does not look at the context.
MutantCheckerEnds(p) == EndChecker(p) /\ (told[p] \/ job[p] = "seen")

\* A message for it, its own one after a signal, a completed job, or, at the
\* end of a pass, the context.
CheckerEnds(p) ==
    EndChecker(p) /\ (told[p] \/ ReturnAllToMainQueue \/ job[p] = "seen" \/ Canceled(p))

\* Redis or GitHub fails, or a record cannot be read.
CheckerFails(p) == EndChecker(p)

Run(p) ==
    \/ ReceiverStarts(p) \/ ReceiverFails(p) \/ ReceiverStops(p)
    \/ Prepare(p) \/ SkipRun(p) \/ SetupFails(p) \/ StartChecker(p)
    \/ EndAtFirstCheck(p) \/ ResumeWatching(p) \/ FinalizeCleanup(p)
    \/ PickNothing(p) \/ PickFails(p) \/ PickJob(p)
    \/ ClaimedIsCanceled(p) \/ DropClaim(p) \/ ClaimedIsRunning(p)
    \/ RetryIsRunning(p)
    \/ AwaitResources(p) \/ StopAwaiting(p)
    \/ ObtainFails(p) \/ ObtainIsCanceled(p) \/ ObtainVM(p) \/ StartRunner(p)
    \/ EndWatch(p) \/ WatchFails(p) \/ CleanUp(p)

Main == StartPlugin \/ StopStarting \/ AllStarted \/ AllReturned \/ Exit
Checker(p) == CheckerPasses(p) \/ CheckerSeesEnd(p) \/ CheckerEnds(p)
Plugin(p) == Loop(p) \/ Run(p)

Next ==
    \/ Main \/ Quit \/ Interrupt
    \/ \E p \in Plugins :
          \/ Plugin(p) \/ PassOnCancel(p)
          \/ Checker(p) \/ CheckerFails(p) \/ JobEnds(p)

Spec == Init /\ [][Next]_vars

\* main, the plugins, their checkers and the goroutines that pass on the
\* cancellation keep taking steps, and every job ends.  Nothing obliges anyone
\* to send a signal.
FairSpec ==
    /\ Spec
    /\ WF_vars(Main)
    /\ \A p \in Plugins :
          /\ WF_vars(Plugin(p)) /\ WF_vars(Checker(p))
          /\ WF_vars(PassOnCancel(p)) /\ WF_vars(JobEnds(p))

-----------------------------------------------------------------------------
(* Properties.                                                              *)

LoopPcs == {"top", "pausing", "siblings", "after"}
PickPcs == {"picking", "claimed", "short", "booting"}
RunPcs == {"run", "setup", "first", "watching", "ending"} \cup PickPcs
Pcs == {"off", "returned", "listening"} \cup LoopPcs \cup RunPcs

\* The types of the variables; a handler in the phases between the start of
\* its checker and its cleanup has a checker.
TypeOK ==
    /\ receivers \in SUBSET Plugins
    /\ main \in {"starting", "waiting", "leaving", "exited"}
    /\ next \in 1..N + 1
    /\ cancelled \in BOOLEAN /\ quit \in BOOLEAN /\ interrupts \in 0..2
    /\ pc \in [Plugins -> Pcs]
    /\ stopped \in [Plugins -> BOOLEAN] /\ ran \in [Plugins -> BOOLEAN]
    /\ initial \in [Plugins -> BOOLEAN]
    /\ preparing \in [Plugins -> BOOLEAN] /\ paused \in [Plugins -> BOOLEAN]
    /\ failed \in [Plugins -> BOOLEAN]
    /\ checker \in [Plugins -> {"none", "checking", "ended"}]
    /\ checked \in [Plugins -> BOOLEAN] /\ told \in [Plugins -> BOOLEAN]
    /\ job \in [Plugins -> {"none", "running", "over", "seen"}]
    /\ \A p \in Plugins :
          pc[p] \in PickPcs \cup {"first", "watching", "ending"} => checker[p] # "none"

\* "They do this one by one in the order they're listed in the config"
\* (plugins/handlers/github/README.md:394): a handler looks for jobs only when
\* its own initial run and those of all plugins before it are over, so that
\* what they left at the last stop is cleaned or resumed first.
InOrder ==
    \A p, q \in Plugins :
        \/ pc[p] # "off" /\ q < p
        \/ pc[p] \in PickPcs /\ q = p
        => initial[q]

\* "Your plugin logic MUST set this to false when it finishes running"
\* (README.md:741): a plugin between two runs holds nobody up.
FlagsCleared ==
    \A p \in Plugins :
        /\ ~cancelled /\ ran[p] /\ pc[p] \in {"top", "pausing", "siblings"}
        => ~preparing[p] /\ ~paused[p]

\* Once the worker is cancelled, by a signal or because a plugin failed, the
\* process ends, wherever its plugins are (worker).
ShutsDown == []<>(cancelled => main = "exited")

\* A run that returns no error has sent what ends its checker, or was told to
\* stop, so that it comes to its cleanup and to its end (Run).
NormalRunsEnd ==
    \A p \in Plugins : []<>(pc[p] = "ending" => failed[p])

\* "Each `return` from this function must include some sort of instruction to
\* interrupt the `checkForCompletedJobs` otherwise it will run indefinitely"
\* (plugins/handlers/github/README.md:429): so does one with an error.
RunsEnd ==
    \A p \in Plugins : []<>(pc[p] # "ending")
=============================================================================
