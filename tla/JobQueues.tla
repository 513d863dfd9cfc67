----------------------------- MODULE JobQueues ------------------------------
(***************************************************************************)
(* The life of a workflow job in anklet's shared Redis lists: a receiver   *)
(* pushes it to the main queue, a handler moves it to its own list, starts *)
(* an Anka VM for it and records the VM in the same list, watches the job  *)
(* until GitHub reports it completed, and takes both records out again     *)
(* through its "cleaning" list; a job that could not be run goes back to   *)
(* the main queue.  Each action is one Redis command that another process  *)
(* can observe, or a group of commands on keys no other process touches.   *)
(* The background loop checkForCompletedJobs is the Check... actions, and  *)
(* cleanup is the pc values "c0".."c5".                                    *)
(*                                                                         *)
(* Abstracted: payloads (a record keeps the fields the code branches on),  *)
(* the channels between Run and its checker (reason is the buffered        *)
(* ReturnToMainQueue channel, a completed head of the list stands for the  *)
(* message in JobChannel), the paused queue (handlers are configured with  *)
(* skip_cpu_and_memory_resource_checks), plugins that share a host.        *)
(***************************************************************************)
EXTENDS RedisLists, FiniteSets

CONSTANTS
    Handlers,     \* handler plugins; a name is unique in the cluster
    Jobs,         \* workflow job ids
    Deliveries,   \* deliveries of "queued" webhooks
    JobOf,        \* the job a delivery is about
    VMs,          \* VM names (random UUIDs: reused only once forgotten)
    None,
    Unrunnable,   \* jobs without a template label, or with one that cannot be pulled
    MaxAttempts,  \* job_retry_attempts
    Faults,       \* the kinds of fault a run may contain ...
    MaxFaults     \* ... and how many of them

ASSUME ConstantsAssumption ==
    /\ JobOf \in [Deliveries -> Jobs]
    /\ MaxAttempts \in Nat \ {0}
    /\ MaxFaults \in Nat

VARIABLES
    db,          \* the queued lists: main, one per handler, its cleaning list
    inProgress,  \* ids in the in_progress list
    completed,   \* ids in the main completed list
    ownDone,     \* handler -> ids in its own completed list
    gh,          \* job -> its status at GitHub
    hooks,       \* in_progress and completed webhooks not yet delivered
    rpc,         \* delivery -> where its receiver goroutine is
    todo,        \* delivery -> handler keys still to look at
    pc,          \* handler -> where Run or cleanup is
    hand,        \* handler -> Run's or cleanup's local copy of a record
    reason,      \* handler -> content of ReturnToMainQueue
    onStart,     \* handler -> cleanup was called with onStartRun
    fin,         \* handler -> FinishedInitialRun
    stop,        \* handler -> whether it got SIGINT or SIGTERM: "no", "signalled"
    vms,         \* handler -> VMs that exist on its host
    runners,     \* VMs whose registered runner waits for a job
    target,      \* handler -> QueueTargetIndex of its host
    faults       \* number of faults so far

local == <<pc, hand, reason, onStart, fin, stop>>
events == <<inProgress, completed, ownDone, hooks>>
receiver == <<rpc, todo>>
hosts == <<vms, runners, target>>
vars == <<db, events, gh, receiver, local, hosts, faults>>

MainQ == <<"main", None>>
PluginQ(h) == <<"plugin", h>>
CleaningQ(h) == <<"cleaning", h>>
HandlerKeys == {PluginQ(h) : h \in Handlers} \cup {CleaningQ(h) : h \in Handlers}
Keys == {MainQ} \cup HandlerKeys

Types == {"WorkflowJobPayload", "anka.VM"}
Statuses == {"queued", "in_progress", "completed", "timed_out"}
Actions == {"queued", "preparing", "in_progress", "finish", "cancel",
            "timed_out", "remove_self_hosted_runner", ""}
QueueJob == [type : Types, id : Jobs, status : Statuses, action : Actions,
             attempts : Nat, vm : VMs \cup {None}]

NewJob(j) == [type |-> "WorkflowJobPayload", id |-> j, status |-> "queued",
              action |-> "queued", attempts |-> 0, vm |-> None]
IsJob(e) == e.type = "WorkflowJobPayload"
IsVM(e) == e.type = "anka.VM"
Marked(e, status, action) == [e EXCEPT !.status = status, !.action = action]

Own(h) == db[PluginQ(h)]
Cleaning(h) == db[CleaningQ(h)]

RunPcs == {"pick", "remove", "push", "claimed", "obtain", "record", "boot", "watch"}
CleanupPcs == {"c0", "c1", "c2", "c3", "c4", "c5"}

Init ==
    /\ db = [k \in Keys |-> <<>>]
    /\ inProgress = {} /\ completed = {} /\ hooks = {}
    /\ ownDone = [h \in Handlers |-> {}]
    /\ gh = [j \in Jobs |-> "queued"]
    /\ rpc = [d \in Deliveries |-> "pending"]
    /\ todo = [d \in Deliveries |-> {}]
    /\ pc = [h \in Handlers |-> "start"]
    /\ hand = [h \in Handlers |-> None]
    /\ reason = [h \in Handlers |-> "none"]
    /\ onStart = [h \in Handlers |-> FALSE]
    /\ fin = [h \in Handlers |-> FALSE]
    /\ stop = [h \in Handlers |-> "no"]
    /\ vms = [h \in Handlers |-> {}]
    /\ runners = {}
    /\ target = [h \in Handlers |-> 0]
    /\ faults = 0

Fault(kind) == kind \in Faults /\ faults < MaxFaults /\ faults' = faults + 1
Goto(h, l) == pc' = [pc EXCEPT ![h] = l]
Drop(h) == hand' = [hand EXCEPT ![h] = None]

\* Run stops here and leaves the rest to cleanup.
ToCleanup(h) ==
    /\ Goto(h, "c0")
    /\ Drop(h)
    /\ UNCHANGED <<onStart, fin, stop>>

-----------------------------------------------------------------------------
(* The receiver: one goroutine per delivery of a "queued" webhook looks for *)
(* the job in the main queue, then at index 0 of every handler key, and     *)
(* pushes it if it was found nowhere.  The other webhooks are one action    *)
(* each.                                                                    *)

ReceiveQueued(d) ==
    /\ rpc[d] = "pending"
    /\ rpc' = [rpc EXCEPT ![d] =
                  IF \E i \in 1..Len(db[MainQ]) : db[MainQ][i].id = JobOf[d]
                  THEN "done" ELSE "keys"]
    /\ UNCHANGED <<db, events, gh, todo, local, hosts, faults>>

ListHandlerKeys(d) ==
    /\ rpc[d] = "keys"
    /\ rpc' = [rpc EXCEPT ![d] = "scan"]
    /\ todo' = [todo EXCEPT ![d] = {k \in HandlerKeys : db[k] # <<>>}]
    /\ UNCHANGED <<db, events, gh, local, hosts, faults>>

ScanHandlerKey(d) ==
    /\ rpc[d] = "scan"
    /\ \E k \in todo[d] :
          IF db[k] # <<>> /\ Head(db[k]).id = JobOf[d]
          THEN /\ rpc' = [rpc EXCEPT ![d] = "done"]
               /\ todo' = [todo EXCEPT ![d] = {}]
          ELSE /\ todo' = [todo EXCEPT ![d] = @ \ {k}]
               /\ UNCHANGED rpc
    /\ UNCHANGED <<db, events, gh, local, hosts, faults>>

PushQueued(d) ==
    /\ rpc[d] = "scan" /\ todo[d] = {}
    /\ db' = RPush(db, MainQ, NewJob(JobOf[d]))
    /\ rpc' = [rpc EXCEPT ![d] = "done"]
    /\ UNCHANGED <<events, gh, todo, local, hosts, faults>>

ReceiveInProgress(j) ==
    /\ <<j, "in_progress">> \in hooks
    /\ hooks' = hooks \ {<<j, "in_progress">>}
    /\ inProgress' = inProgress \cup {j}
    /\ UNCHANGED <<db, completed, ownDone, gh, receiver, local, hosts, faults>>

\* Only a job that is in some list gets a completed record.
ReceiveCompleted(j) ==
    /\ <<j, "completed">> \in hooks
    /\ hooks' = hooks \ {<<j, "completed">>}
    /\ completed' = IF \E k \in Keys : \E i \in 1..Len(db[k]) : db[k][i].id = j
                    THEN completed \cup {j} ELSE completed
    /\ UNCHANGED <<db, inProgress, ownDone, gh, receiver, local, hosts, faults>>

\* A starting receiver deletes the in_progress list.
ReceiverRestart ==
    /\ Fault("receiver")
    /\ inProgress' = {}
    /\ UNCHANGED <<db, completed, ownDone, hooks, gh, receiver, local, hosts>>

-----------------------------------------------------------------------------
(* GitHub: a registered runner is given any queued job whose labels match,  *)
(* which may be another one than its VM was started for; a job may be       *)
(* cancelled by its user at any time before it completes.                   *)

JobStarts(j) ==
    /\ gh[j] = "queued"
    /\ \E v \in runners : runners' = runners \ {v}
    /\ gh' = [gh EXCEPT ![j] = "in_progress"]
    /\ hooks' = hooks \cup {<<j, "in_progress">>}
    /\ UNCHANGED <<db, inProgress, completed, ownDone, receiver, local, vms, target, faults>>

JobCompletes(j) ==
    /\ gh[j] # "completed"
    /\ gh' = [gh EXCEPT ![j] = "completed"]
    /\ hooks' = hooks \cup {<<j, "completed">>}
    /\ UNCHANGED <<db, inProgress, completed, ownDone, receiver, local, hosts, faults>>

-----------------------------------------------------------------------------
(* checkForCompletedJobs looks at the head of the handler's list.           *)

HasHead(h) == Own(h) # <<>>
HeadJob(h) == Head(Own(h))
\* A signal cancels the contexts of Run and its checker: a command is no longer
\* sent, or counts as failed although Redis ran it (retryOperation).
Live(h) == stop[h] = "no"
CheckerRuns(h) == pc[h] \in RunPcs \/ onStart[h]
KnownCompleted(h) == HasHead(h) /\ HeadJob(h).id \in completed \cup ownDone[h]
KnownRunning(h) ==
    HasHead(h) /\ HeadJob(h).id \in inProgress \ (completed \cup ownDone[h])

\* UpdateJobInDB of the head itself: a completed head is left as it is.
MarkHead(h, status, action) ==
    db' = IF HeadJob(h).status = "completed" THEN db
          ELSE LSet(db, PluginQ(h), 1, Marked(HeadJob(h), status, action))

\* UpdateJobInDB of a local copy e: the first record of its type and job.
Matches(h, e, i) == Own(h)[i].type = e.type /\ Own(h)[i].id = e.id
FirstMatch(h, e, i) ==
    i \in 1..Len(Own(h)) /\ Matches(h, e, i) /\ \A k \in 1..(i - 1) : ~Matches(h, e, k)
Unwritable(h) == HasHead(h) /\ HeadJob(h).status = "completed"
UpdateJobInDB(h, e) ==
    \/ \E i \in 1..Len(Own(h)) :
          ~Unwritable(h) /\ FirstMatch(h, e, i) /\ db' = LSet(db, PluginQ(h), i, e)
    \/ /\ Unwritable(h) \/ \A i \in 1..Len(Own(h)) : ~Matches(h, e, i)
       /\ UNCHANGED db

\* QueueTargetIndex makes a host step over the jobs it could not run.  (Bound:
\* the main queue never has more than Cardinality(Deliveries) records.)
MaxTarget == Cardinality(Deliveries) + 1
FirstTarget(h) == target' = [target EXCEPT ![h] = 0]
NextTarget(h) == target' = [target EXCEPT ![h] = IF @ < MaxTarget THEN @ + 1 ELSE @]

\* A completed record moves from the shared list to the handler's own one,
\* unless it is already there; every other run resets the index then.
TakeCompleted(h, j) ==
    /\ completed' = completed \ {j}
    /\ ownDone' = [ownDone EXCEPT ![h] = @ \cup {j}]
    /\ UNCHANGED target \/ FirstTarget(h)
MarkCompleted(h) ==
    LET j == HeadJob(h).id IN
    IF j \in ownDone[h]
    THEN MarkHead(h, "completed", "finish") /\ UNCHANGED <<completed, ownDone, target>>
    ELSE /\ TakeCompleted(h, j)
         /\ MarkHead(h, "completed",
                     IF j \in inProgress THEN "in_progress" ELSE HeadJob(h).action)

\* The first check of a run asks the API about a job found in progress.
AskAPI(h) ==
    IF gh[HeadJob(h).id] = "completed"
    THEN /\ ownDone' = [ownDone EXCEPT ![h] = @ \cup {HeadJob(h).id}]
         /\ MarkHead(h, "completed", "in_progress")
         /\ UNCHANGED completed
    ELSE /\ MarkHead(h, "in_progress", "in_progress")
         /\ UNCHANGED <<completed, ownDone>>

CheckCompleted(h) ==
    /\ Live(h) /\ CheckerRuns(h) /\ KnownCompleted(h)
    /\ HeadJob(h).status # "completed" \/ HeadJob(h).id \notin ownDone[h]
    /\ MarkCompleted(h)
    /\ UNCHANGED <<inProgress, hooks, gh, receiver, local, vms, runners, faults>>

\* Of a check that a stop interrupts only the moves of the completed record
\* remain: they alone have a context of their own.
CheckInterrupted(h) ==
    /\ ~Live(h) /\ CheckerRuns(h) /\ KnownCompleted(h)
    /\ HeadJob(h).id \notin ownDone[h]
    /\ TakeCompleted(h, HeadJob(h).id)
    /\ UNCHANGED <<db, inProgress, hooks, gh, receiver, local, vms, runners, faults>>

CheckInProgress(h) ==
    /\ Live(h) /\ CheckerRuns(h) /\ KnownRunning(h)
    /\ HeadJob(h).status = "queued"
    /\ MarkHead(h, "in_progress", "in_progress")
    /\ UNCHANGED <<events, gh, receiver, local, hosts, faults>>

\* After a signal each check puts return_all_to_main_queue into the channel,
\* or takes out the reason that is already there.
CheckStop(h) ==
    /\ ~Live(h) /\ CheckerRuns(h)
    /\ reason' = [reason EXCEPT ![h] = IF @ = "none" THEN "retry" ELSE "none"]
    /\ UNCHANGED <<db, events, gh, receiver, pc, hand, onStart, fin, stop, hosts, faults>>

-----------------------------------------------------------------------------
(* Run, up to the claim of a job.                                           *)

\* The process is gone, and with it all it kept in memory.
Exit(h) ==
    /\ Goto(h, "off")
    /\ Drop(h)
    /\ reason' = [reason EXCEPT ![h] = "none"]
    /\ onStart' = [onStart EXCEPT ![h] = FALSE]
    /\ fin' = [fin EXCEPT ![h] = FALSE]
    /\ stop' = [stop EXCEPT ![h] = "no"]
    /\ FirstTarget(h)

\* The plugin loop ends instead of starting another run.
LoopEnds(h) ==
    /\ pc[h] = "start" /\ ~Live(h)
    /\ Exit(h)
    /\ UNCHANGED <<db, events, gh, receiver, vms, runners, faults>>

NewRun(h) ==
    /\ pc[h] = "start" /\ Live(h)
    /\ reason' = [reason EXCEPT ![h] = "none"]
    /\ UNCHANGED <<inProgress, hooks, gh, receiver, hand, fin, stop, vms, runners, faults>>

RunFindsCompleted(h) ==
    /\ NewRun(h) /\ KnownCompleted(h)
    /\ MarkCompleted(h)
    /\ Goto(h, "c0")
    /\ UNCHANGED onStart

RunFindsInProgress(h) ==
    /\ NewRun(h) /\ KnownRunning(h)
    /\ AskAPI(h)
    /\ Goto(h, IF gh[HeadJob(h).id] = "completed" THEN "c0" ELSE "watch")
    /\ UNCHANGED <<onStart, target>>

\* The first run of a process only cleans up; later ones first finish a
\* cleanup that was cut short.
RunFindsNothing(h) ==
    /\ NewRun(h) /\ ~KnownCompleted(h) /\ ~KnownRunning(h)
    /\ onStart' = [onStart EXCEPT ![h] = fin[h]]
    /\ Goto(h, "c0")
    /\ UNCHANGED <<db, completed, ownDone, target>>

\* The host is draining, or has no VM capacity.
NoCapacity(h) ==
    /\ Fault("capacity")
    /\ pc[h] = "pick"
    /\ Goto(h, "c0")
    /\ UNCHANGED <<db, events, gh, receiver, hand, reason, onStart, fin, stop, hosts>>

\* Pick up where the handler left off: the last record of its own list.
Resume(h) ==
    /\ Live(h) /\ pc[h] = "pick" /\ HasHead(h)
    /\ hand' = [hand EXCEPT ![h] = Own(h)[Len(Own(h))]]
    /\ Goto(h, "claimed")
    /\ UNCHANGED <<db, events, gh, receiver, reason, onStart, fin, stop, hosts, faults>>

\* PopJobOffQueue reads the main queue from the index on (LRANGE); an index
\* beyond the end of the queue (LLEN) is reset first ...
ReadMainQueue(h) ==
    /\ Live(h) /\ pc[h] = "pick" /\ ~HasHead(h)
    /\ LET n == IF target[h] > Len(db[MainQ]) THEN 0 ELSE target[h] IN
       IF n >= Len(db[MainQ])
       THEN /\ Goto(h, "c0")
            /\ FirstTarget(h)
            /\ UNCHANGED hand
       ELSE /\ Goto(h, "remove")
            /\ hand' = [hand EXCEPT ![h] = db[MainQ][n + 1]]
            /\ target' = [target EXCEPT ![h] = n]
    /\ UNCHANGED <<db, events, gh, receiver, reason, onStart, fin, stop, vms, runners, faults>>

\* Variant for ExclusiveClaim: the reply of LREM is ignored.
MutantIgnoreLRem(h) ==
    /\ Live(h) /\ pc[h] = "remove"
    /\ \/ \E i \in 1..Len(db[MainQ]) :
            FirstAt(db, MainQ, hand[h], i) /\ db' = LRemAt(db, MainQ, i)
       \/ (\A i \in 1..Len(db[MainQ]) : db[MainQ][i] # hand[h]) /\ UNCHANGED db
    /\ Goto(h, "push")
    /\ UNCHANGED <<events, gh, receiver, hand, reason, onStart, fin, stop, hosts, faults>>

\* ... and removes it by value (LREM), unless another handler was faster.
RemoveFromMainQueue(h) ==
    /\ Live(h) /\ pc[h] = "remove"
    /\ \/ \E i \in 1..Len(db[MainQ]) :
            /\ FirstAt(db, MainQ, hand[h], i)
            /\ db' = LRemAt(db, MainQ, i)
            /\ Goto(h, "push")
            /\ UNCHANGED <<hand, target>>
       \/ /\ \A i \in 1..Len(db[MainQ]) : db[MainQ][i] # hand[h]
          /\ Goto(h, "c0")
          /\ Drop(h)
          /\ FirstTarget(h)
          /\ UNCHANGED db
    /\ UNCHANGED <<events, gh, receiver, reason, onStart, fin, stop, vms, runners, faults>>

PushClaim(h) ==
    /\ Live(h) /\ pc[h] = "push"
    /\ db' = RPush(db, PluginQ(h), hand[h])
    /\ Goto(h, "claimed")
    /\ UNCHANGED <<events, gh, receiver, hand, reason, onStart, fin, stop, hosts, faults>>

-----------------------------------------------------------------------------
(* Run, from the claim to the runner.                                       *)

\* With the job in its own list the handler waits for one more check.
ClaimFindsCompleted(h) ==
    /\ Live(h) /\ pc[h] = "claimed" /\ KnownCompleted(h)
    /\ MarkCompleted(h)
    /\ ToCleanup(h)
    /\ UNCHANGED <<inProgress, hooks, gh, receiver, reason, vms, runners, faults>>

ClaimFindsInProgress(h) ==
    /\ Live(h) /\ pc[h] = "claimed" /\ KnownRunning(h)
    /\ AskAPI(h)
    /\ ToCleanup(h)
    /\ UNCHANGED <<inProgress, hooks, gh, receiver, reason, hosts, faults>>

Checked(h) == Live(h) /\ pc[h] = "claimed" /\ ~KnownCompleted(h) /\ ~KnownRunning(h)
Retried(h) == Checked(h) /\ hand[h].attempts \in 1..MaxAttempts
Preparable(h) ==
    \/ Checked(h) /\ hand[h].attempts = 0
    \/ Retried(h) /\ gh[hand[h].id] = "queued"

\* Cancelling the workflow run of a job may fail, or come too late.
CancelAtGitHub(j) ==
    \/ /\ gh[j] # "completed"
       /\ gh' = [gh EXCEPT ![j] = "completed"]
       /\ hooks' = hooks \cup {<<j, "completed">>}
    \/ UNCHANGED <<gh, hooks>>

\* A job with too many attempts, or whose template is not in the registry, is
\* cancelled and its record completed.
CancelJob(h) ==
    /\ (Live(h) /\ pc[h] = "obtain") \/ (Checked(h) /\ hand[h].attempts > MaxAttempts)
    /\ UpdateJobInDB(h, Marked(hand[h], "completed", "cancel"))
    /\ CancelAtGitHub(hand[h].id)
    /\ ToCleanup(h)
    /\ UNCHANGED <<inProgress, completed, ownDone, receiver, reason, hosts, faults>>

\* A job without a template is cancelled too, and so is one whose pull fails,
\* as AnkaRegistryPull then says the tag is missing; its record keeps its status.
CancelUnrunnable(h) ==
    /\ \/ /\ (Live(h) /\ pc[h] = "obtain") \/ Preparable(h)
          /\ hand[h].id \in Unrunnable
          /\ UNCHANGED faults
       \/ Live(h) /\ pc[h] = "obtain" /\ Fault("pull")
    /\ UpdateJobInDB(h, [hand[h] EXCEPT !.action = "cancel"])
    /\ CancelAtGitHub(hand[h].id)
    /\ ToCleanup(h)
    /\ UNCHANGED <<inProgress, completed, ownDone, receiver, reason, hosts>>

\* A retried job's status is asked from the API, as its webhook may be lost.
RetryIsOver(h) ==
    /\ Retried(h) /\ gh[hand[h].id] = "completed"
    /\ UpdateJobInDB(h, Marked(hand[h], "completed", "finish"))
    /\ ToCleanup(h)
    /\ UNCHANGED <<events, gh, receiver, reason, hosts, faults>>

RetryIsRunning(h) ==
    /\ Retried(h) /\ gh[hand[h].id] = "in_progress"
    /\ Goto(h, "watch")
    /\ Drop(h)
    /\ UNCHANGED <<db, events, gh, receiver, reason, onStart, fin, stop, hosts, faults>>

Prepare(h) ==
    /\ Preparable(h)
    /\ LET e == [hand[h] EXCEPT !.action = "preparing"] IN
       /\ UpdateJobInDB(h, e)
       /\ IF Unwritable(h)
          THEN /\ ToCleanup(h)
          ELSE /\ hand' = [hand EXCEPT ![h] = e]
               /\ Goto(h, "obtain")
               /\ UNCHANGED <<onStart, fin, stop>>
    /\ UNCHANGED <<events, gh, receiver, reason, hosts, faults>>

Forgotten(v) ==
    \A h \in Handlers :
        /\ v \notin vms[h]
        /\ hand[h] # None => hand[h].vm # v
        /\ \A k \in {PluginQ(h), CleaningQ(h)} :
              \A i \in 1..Len(db[k]) : db[k][i].vm # v

\* ObtainAnkaVM names the VM even if cloning or starting it failed.
ObtainVM(h) ==
    /\ Live(h) /\ pc[h] = "obtain" /\ hand[h].id \notin Unrunnable
    /\ ~Unwritable(h)
    /\ \E v \in {w \in VMs : Forgotten(w)} :
          /\ hand' = [hand EXCEPT ![h].vm = v]
          /\ vms' = [vms EXCEPT ![h] = @ \cup {v}] \/ UNCHANGED vms
    /\ Goto(h, "record")
    /\ UNCHANGED <<db, events, gh, receiver, reason, onStart, fin, stop, runners, target,
                   faults>>

\* Variant for TypeOK: the record is given a type cleanup does not know.
MutantWrongType(e) == [e EXCEPT !.type = "anka.vm", !.action = ""]
VMRecord(e) == [e EXCEPT !.type = "anka.VM", !.action = "", !.attempts = 0]

\* Variants with a plausible fault, to show that NoVmLost and VmHasJob can be
\* violated: a failed start returns before the VM is recorded; the newest
\* record goes to index 0, as plugins/handlers/github/README.md:403 has it.
MutantUnrecordedVM(h) ==
    /\ Live(h) /\ pc[h] = "record"
    /\ \/ /\ db' = RPush(db, PluginQ(h), VMRecord(hand[h]))
          /\ Goto(h, "boot")
          /\ UNCHANGED <<hand, onStart, fin, stop>>
       \/ ToCleanup(h) /\ UNCHANGED db
    /\ UNCHANGED <<events, gh, receiver, reason, hosts, faults>>
MutantNewestFirst(h) ==
    /\ Live(h) /\ pc[h] = "record"
    /\ db' = LPush(db, PluginQ(h), VMRecord(hand[h]))
    /\ Goto(h, "boot")
    /\ UNCHANGED <<events, gh, receiver, hand, reason, onStart, fin, stop, hosts, faults>>

RecordVM(h) ==
    /\ Live(h) /\ pc[h] = "record"
    /\ db' = RPush(db, PluginQ(h), VMRecord(hand[h]))
    /\ Goto(h, "boot")
    /\ UNCHANGED <<events, gh, receiver, hand, reason, onStart, fin, stop, hosts, faults>>

\* Run checks for a signal before it records the VM, and ignores a failure of
\* the deletion.
AbandonVM(h) ==
    /\ ~Live(h) /\ pc[h] = "record"
    /\ \/ vms' = [vms EXCEPT ![h] = @ \ {hand[h].vm}] /\ UNCHANGED faults
       \/ Fault("anka") /\ UNCHANGED vms
    /\ ToCleanup(h)
    /\ UNCHANGED <<db, events, gh, receiver, reason, runners, target>>

\* Install, register and start the runner.
StartRunner(h) ==
    /\ Live(h) /\ pc[h] = "boot" /\ ~Unwritable(h) /\ hand[h].vm \in vms[h]
    /\ runners' = runners \cup {hand[h].vm}
    /\ UpdateJobInDB(h, [hand[h] EXCEPT !.action = "in_progress"])
    /\ Drop(h)
    /\ Goto(h, "watch")
    /\ UNCHANGED <<events, gh, receiver, reason, onStart, fin, stop, vms, target, faults>>

\* The checker's message about a completed job ends the run at its next select.
SeeCompleted(h) ==
    /\ pc[h] \in {"pick", "obtain", "boot", "watch"} /\ Unwritable(h)
    /\ ToCleanup(h)
    /\ UNCHANGED <<db, events, gh, receiver, reason, hosts, faults>>

\* A failed step sends its reason through RetryChannel; the checker forwards
\* it, or drops both if there is a reason already.
Forward(h, r) == reason' = [reason EXCEPT ![h] = IF @ = "none" THEN r ELSE "none"]

StepFails(h) ==
    /\ pc[h] \in {"obtain", "boot"} \/ Retried(h)
    /\ Forward(h, "retry")
    /\ ToCleanup(h)
    /\ UNCHANGED <<db, events, gh, receiver, hosts, faults>>

\* The host cannot have the template now, and steps over the job; a pull that
\* is already running there does not count as an attempt.
NoTemplateOnHost(h) ==
    /\ Fault("pull")
    /\ pc[h] = "obtain"
    /\ \E r \in {"retry", "not_counted"} : Forward(h, r)
    /\ NextTarget(h)
    /\ ToCleanup(h)
    /\ UNCHANGED <<db, events, gh, receiver, vms, runners>>

\* removeSelfHostedRunner, deferred by a run that registered one: a runner
\* that runs a job cannot be removed, and the waiting job is cancelled.
RemoveRunner(h, e) ==
    \/ /\ runners' = runners \ {e.vm}
       /\ UNCHANGED <<gh, hooks>>
    \/ /\ e.vm \in vms[h] \ runners
       /\ \E j \in Jobs : gh[j] = "in_progress"
       /\ CancelAtGitHub(e.id)
       /\ UNCHANGED runners

\* The registration timeout of watchJobStatus.
NoRunnerRegistered(h) ==
    /\ Live(h) /\ pc[h] = "watch" /\ HasHead(h) /\ ~Unwritable(h)
    /\ HeadJob(h).id \notin inProgress
    /\ MarkHead(h, HeadJob(h).status, "remove_self_hosted_runner")
    /\ Forward(h, "retry")
    /\ RemoveRunner(h, HeadJob(h))
    /\ ToCleanup(h)
    /\ UNCHANGED <<inProgress, completed, ownDone, receiver, vms, target, faults>>

\* The checker gives up a job that a run has had for six hours.
SixHoursPass(h) ==
    /\ Live(h) /\ pc[h] = "watch" /\ HasHead(h) /\ ~Unwritable(h)
    /\ MarkHead(h, "timed_out", "timed_out")
    /\ ToCleanup(h)
    /\ UNCHANGED <<events, gh, receiver, reason, hosts, faults>>

\* The cancelled context ends the run at its next check or command, also
\* between the two commands of a claim, or before the VM is recorded.
SeeStop(h) ==
    /\ ~Live(h) /\ pc[h] \in RunPcs
    /\ ToCleanup(h)
    /\ UNCHANGED <<db, events, gh, receiver, reason, hosts, faults>>

-----------------------------------------------------------------------------
(* cleanup.  Its deferred function sets FinishedInitialRun in every case.   *)

EndCleanup(h) ==
    /\ Goto(h, IF onStart[h] THEN "pick" ELSE "start")
    /\ onStart' = [onStart EXCEPT ![h] = FALSE]
    /\ fin' = [fin EXCEPT ![h] = TRUE]
    /\ UNCHANGED stop

\* Nothing in the list, or a job that is still running.
NothingToClean(h) ==
    HasHead(h) => \/ HeadJob(h).status = "in_progress"
                  \/ (~Live(h) /\ HeadJob(h).action = "in_progress")

SkipCleanup(h) ==
    /\ pc[h] = "c0" /\ NothingToClean(h)
    /\ EndCleanup(h)
    /\ UNCHANGED <<db, events, gh, receiver, hand, reason, hosts, faults>>

BeginCleanup(h) ==
    /\ pc[h] = "c0" /\ ~NothingToClean(h)
    /\ Goto(h, "c1")
    /\ UNCHANGED <<db, events, gh, receiver, hand, reason, onStart, fin, stop, hosts, faults>>

\* Variant for CleaningSingle: what an earlier cleanup left is not looked at.
MutantAlwaysPop(h) ==
    /\ pc[h] = "c1" /\ ~onStart[h] /\ HasHead(h)
    /\ db' = RPopLPush(db, PluginQ(h), CleaningQ(h))
    /\ Goto(h, "c2")
    /\ UNCHANGED <<events, gh, receiver, hand, reason, onStart, fin, stop, hosts, faults>>

\* The record to process: what an earlier cleanup left in the cleaning list,
\* otherwise, unless onStartRun, the tail of the handler's list.
NextRecord(h) ==
    /\ pc[h] = "c1"
    /\ Cleaning(h) # <<>> \/ (~onStart[h] /\ HasHead(h))
    /\ db' = IF Cleaning(h) = <<>> THEN RPopLPush(db, PluginQ(h), CleaningQ(h)) ELSE db
    /\ Goto(h, "c2")
    /\ UNCHANGED <<events, gh, receiver, hand, reason, onStart, fin, stop, hosts, faults>>

NoRecord(h) ==
    /\ pc[h] = "c1" /\ Cleaning(h) = <<>>
    /\ onStart[h] \/ ~HasHead(h)
    /\ EndCleanup(h)
    /\ UNCHANGED <<db, events, gh, receiver, hand, reason, hosts, faults>>

Subject(h) == Head(Cleaning(h))

\* anka delete; its failure is logged and ignored.
DeleteVM(h) ==
    /\ pc[h] = "c2" /\ IsVM(Subject(h))
    /\ \/ /\ vms' = [vms EXCEPT ![h] = @ \ {Subject(h).vm}]
          /\ runners' = runners \ {Subject(h).vm}
          /\ UNCHANGED faults
       \/ (Fault("anka") /\ UNCHANGED <<vms, runners>>)
    /\ Goto(h, "c3")
    /\ UNCHANGED <<db, events, gh, receiver, hand, reason, onStart, fin, stop, target>>

ForgetVM(h) ==
    /\ pc[h] = "c3"
    /\ db' = Del(db, CleaningQ(h))
    /\ Goto(h, "c1")
    /\ UNCHANGED <<events, gh, receiver, hand, reason, onStart, fin, stop, hosts, faults>>

CleanJob(h) ==
    /\ pc[h] = "c2" /\ IsJob(Subject(h))
    /\ inProgress' = inProgress \ {Subject(h).id}
    /\ UNCHANGED <<hooks, gh, receiver, hosts, faults>>

\* The commands on the handler's own keys are one step: repeating them after
\* a crash between two of them changes nothing.
DropCompleted(h) ==
    /\ CleanJob(h) /\ Subject(h).status = "completed"
    /\ completed' = completed \ {Subject(h).id}
    /\ ownDone' = [ownDone EXCEPT ![h] = {}]
    /\ db' = Del(db, CleaningQ(h))
    /\ EndCleanup(h)
    /\ UNCHANGED <<hand, reason>>

\* Variants for JobsLeave and LifecycleSpec: attempts are not counted; the
\* record is read but stays in the cleaning list until the final DEL.
MutantUncounted(h) ==
    /\ CleanJob(h) /\ Subject(h).status # "completed" /\ reason[h] # "none"
    /\ hand' = [hand EXCEPT ![h] = [Subject(h) EXCEPT !.action = "queued"]]
    /\ db' = RPop(db, CleaningQ(h))
    /\ reason' = [reason EXCEPT ![h] = "none"]
    /\ Goto(h, "c4")
    /\ UNCHANGED <<completed, ownDone, onStart, fin, stop>>
MutantReadForReturn(h) ==
    /\ CleanJob(h) /\ Subject(h).status # "completed" /\ reason[h] # "none"
    /\ hand' = [hand EXCEPT ![h] = [Subject(h) EXCEPT !.action = "queued"]]
    /\ reason' = [reason EXCEPT ![h] = "none"]
    /\ Goto(h, "c4")
    /\ UNCHANGED <<db, completed, ownDone, onStart, fin, stop>>

\* ReturnToMainQueue holds a reason: RPOP, then LPUSH to the main queue.
Requeued(e, attempts) == [e EXCEPT !.action = "queued", !.attempts = attempts]
TakeForReturn(h) ==
    /\ CleanJob(h) /\ Subject(h).status # "completed" /\ reason[h] # "none"
    /\ LET e == Cleaning(h)[Len(Cleaning(h))] IN
       hand' = [hand EXCEPT ![h] =
                  Requeued(e, IF reason[h] = "retry" THEN e.attempts + 1 ELSE e.attempts)]
    /\ db' = RPop(db, CleaningQ(h))
    /\ reason' = [reason EXCEPT ![h] = "none"]
    /\ Goto(h, "c4")
    /\ UNCHANGED <<completed, ownDone, onStart, fin, stop>>

ReturnToMainQueue(h) ==
    /\ pc[h] = "c4"
    /\ db' = LPush(db, MainQ, hand[h])
    /\ Goto(h, "c5")
    /\ Drop(h)
    /\ UNCHANGED <<events, gh, receiver, reason, onStart, fin, stop, hosts, faults>>

ForgetReturned(h) ==
    /\ pc[h] = "c5"
    /\ db' = Del(db, CleaningQ(h))
    /\ EndCleanup(h)
    /\ UNCHANGED <<events, gh, receiver, hand, reason, hosts, faults>>

\* Variant for NeverLost: the cleaning list is deleted without the job having
\* gone back.
MutantForgetJob(h) ==
    /\ CleanJob(h) /\ Subject(h).status \notin {"completed", "timed_out"}
    /\ reason[h] = "none"
    /\ db' = Del(db, CleaningQ(h))
    /\ EndCleanup(h)
    /\ UNCHANGED <<completed, ownDone, hand, reason>>

\* Without a reason the job returns to the handler's own list, unless it
\* timed out.
PutBack(h) ==
    /\ CleanJob(h) /\ Subject(h).status \notin {"completed", "timed_out"}
    /\ reason[h] = "none"
    /\ db' = Del(RPopLPush(db, CleaningQ(h), PluginQ(h)), CleaningQ(h))
    /\ EndCleanup(h)
    /\ UNCHANGED <<completed, ownDone, hand, reason>>

DropTimedOut(h) ==
    /\ CleanJob(h) /\ Subject(h).status = "timed_out" /\ reason[h] = "none"
    /\ db' = Del(db, CleaningQ(h))
    /\ EndCleanup(h)
    /\ UNCHANGED <<completed, ownDone, hand, reason>>

\* cleanup's database client does not retry: any command may end it, and a
\* reason taken out of the channel is gone.
CleanupFails(h) ==
    /\ Fault("redis")
    /\ pc[h] \in CleanupPcs
    /\ reason' = [reason EXCEPT ![h] = IF pc[h] = "c2" /\ IsJob(Subject(h)) THEN "none" ELSE @]
    /\ EndCleanup(h)
    /\ Drop(h)
    /\ UNCHANGED <<db, events, gh, receiver, hosts>>

-----------------------------------------------------------------------------
(* The process.                                                             *)

Signal(h) ==
    /\ Fault("stop")
    /\ pc[h] # "off" /\ Live(h)
    /\ stop' = [stop EXCEPT ![h] = "signalled"]
    /\ UNCHANGED <<db, events, gh, receiver, pc, hand, reason, onStart, fin, hosts>>

Crash(h) ==
    /\ Fault("crash")
    /\ pc[h] # "off"
    /\ Exit(h)
    /\ UNCHANGED <<db, events, gh, receiver, vms, runners>>

Restart(h) ==
    /\ pc[h] = "off"
    /\ Goto(h, "start")
    /\ UNCHANGED <<db, events, gh, receiver, hand, reason, onStart, fin, stop, hosts, faults>>

Run(h) ==
    \/ LoopEnds(h) \/ RunFindsCompleted(h) \/ RunFindsInProgress(h) \/ RunFindsNothing(h)
    \/ Resume(h) \/ ReadMainQueue(h) \/ RemoveFromMainQueue(h) \/ PushClaim(h)
    \/ ClaimFindsCompleted(h) \/ ClaimFindsInProgress(h)
    \/ CancelJob(h) \/ CancelUnrunnable(h) \/ RetryIsOver(h) \/ RetryIsRunning(h) \/ Prepare(h)
    \/ ObtainVM(h) \/ RecordVM(h) \/ AbandonVM(h) \/ StartRunner(h)
    \/ SeeCompleted(h) \/ StepFails(h) \/ NoRunnerRegistered(h)
    \/ SixHoursPass(h) \/ SeeStop(h)

Cleanup(h) ==
    \/ SkipCleanup(h) \/ BeginCleanup(h) \/ NextRecord(h) \/ NoRecord(h)
    \/ DeleteVM(h) \/ ForgetVM(h) \/ DropCompleted(h)
    \/ TakeForReturn(h) \/ ReturnToMainQueue(h) \/ ForgetReturned(h)
    \/ PutBack(h) \/ DropTimedOut(h)

Checker(h) ==
    CheckCompleted(h) \/ CheckInterrupted(h) \/ CheckInProgress(h) \/ CheckStop(h)

Trouble(h) ==
    NoCapacity(h) \/ NoTemplateOnHost(h) \/ CleanupFails(h) \/ Signal(h) \/ Crash(h)

Receive(d) == ReceiveQueued(d) \/ ListHandlerKeys(d) \/ ScanHandlerKey(d) \/ PushQueued(d)
ReceiveEvent(j) == ReceiveInProgress(j) \/ ReceiveCompleted(j)

Next ==
    \/ \E h \in Handlers : Run(h) \/ Cleanup(h) \/ Checker(h) \/ Trouble(h) \/ Restart(h)
    \/ \E d \in Deliveries : Receive(d)
    \/ \E j \in Jobs : ReceiveEvent(j) \/ JobStarts(j) \/ JobCompletes(j)
    \/ ReceiverRestart

Spec == Init /\ [][Next]_vars

\* Handlers and their checkers keep taking steps, a delivered webhook is
\* processed, a completed job's status is answered by the API in the end, and
\* GitHub completes every job.  Nothing obliges a runner to get a job.
FairSpec ==
    /\ Spec
    /\ \A h \in Handlers : WF_vars(Run(h)) /\ WF_vars(Cleanup(h)) /\ WF_vars(Restart(h))
    /\ \A h \in Handlers : WF_vars(CheckCompleted(h)) /\ SF_vars(RetryIsOver(h))
    /\ \A d \in Deliveries : WF_vars(Receive(d))
    /\ \A j \in Jobs : WF_vars(ReceiveEvent(j)) /\ WF_vars(JobCompletes(j))

-----------------------------------------------------------------------------
(* Properties.                                                              *)

\* The types of the variables, and what the control state says of the local
\* data: a handler that is to push, prepare or return a record has one, and
\* one that is to process a cleaning record finds it.
HasRecord == {"remove", "push", "claimed", "obtain", "record", "boot", "c4"}
ListsOK == db \in [Keys -> Seq(QueueJob)]
EventsOK ==
    /\ inProgress \subseteq Jobs /\ completed \subseteq Jobs
    /\ ownDone \in [Handlers -> SUBSET Jobs]
    /\ hooks \subseteq Jobs \X Statuses
    /\ gh \in [Jobs -> Statuses]
ReceiverOK ==
    /\ rpc \in [Deliveries -> {"pending", "keys", "scan", "done"}]
    /\ todo \in [Deliveries -> SUBSET HandlerKeys]
LocalOK ==
    /\ pc \in [Handlers -> {"off", "start"} \cup RunPcs \cup CleanupPcs]
    /\ hand \in [Handlers -> QueueJob \cup {None}]
    /\ reason \in [Handlers -> {"none", "retry", "not_counted"}]
    /\ onStart \in [Handlers -> BOOLEAN]
    /\ fin \in [Handlers -> BOOLEAN]
    /\ stop \in [Handlers -> {"no", "signalled"}]
HostsOK ==
    /\ vms \in [Handlers -> SUBSET VMs]
    /\ runners \subseteq VMs
    /\ target \in [Handlers -> Nat]
    /\ faults \in Nat
ControlOK ==
    \A h \in Handlers :
        /\ pc[h] \in HasRecord => hand[h] \in QueueJob
        /\ pc[h] = "c2" => Cleaning(h) # <<>>
TypeOK == ListsOK /\ EventsOK /\ ReceiverOK /\ LocalOK /\ HostsOK /\ ControlOK

\* Where the record of job j is: in a list of database D, or between two
\* lists in the memory of a handler.
At(D, j, k, i) == i \in 1..Len(D[k]) /\ D[k][i].id = j /\ IsJob(D[k][i])
Listed(D, j, k) == \E i \in 1..Len(D[k]) : At(D, j, k, i)
Absent(D, j) == \A k \in Keys : ~Listed(D, j, k)
AtMostOne(D, j) ==
    \A k1, k2 \in Keys : \A i1 \in 1..Len(D[k1]), i2 \in 1..Len(D[k2]) :
        At(D, j, k1, i1) /\ At(D, j, k2, i2) => k1 = k2 /\ i1 = i2
InTransit(j, h) == pc[h] \in {"push", "c4"} /\ hand[h].id = j
Tracked(j) == ~Absent(db, j) \/ \E h \in Handlers : InTransit(j, h)
HeldBy(j, h) ==
    Listed(db, j, PluginQ(h)) \/ Listed(db, j, CleaningQ(h)) \/ InTransit(j, h)

\* However handlers, receivers, crashes and restarts interleave, a job has at
\* most one record: no two handlers prepare a VM for it and it never waits in
\* the main queue while a handler has it (PopJobOffQueue, cleanup).
ExclusiveClaim ==
    \A j \in Jobs :
        /\ AtMostOne(db, j)
        /\ \A h \in Handlers :
              InTransit(j, h) =>
                  Absent(db, j) /\ \A g \in Handlers : InTransit(j, g) => g = h

\* cleanup empties its cleaning list with DEL, whatever is in it: the list
\* never has a second record that would be deleted unprocessed.
CleaningSingle == \A h \in Handlers : Len(Cleaning(h)) <= 1

\* The VM records of a job are cleaned before the job's own record leaves the
\* handler: a job never waits elsewhere while a host still lists a VM for it.
VmHasJob ==
    \A h \in Handlers : \A k \in {PluginQ(h), CleaningQ(h)} :
        \A i \in 1..Len(db[k]) :
            IsVM(db[k][i]) => Listed(db, db[k][i].id, PluginQ(h))

\* A record disappears only once it is completed or timed out, or with the
\* handler that had it in memory, between a pop and a push, when that handler
\* failed or, while it claimed the job, was stopped.
Finished(j) ==
    \E k \in Keys : \E i \in 1..Len(db[k]) :
        At(db, j, k, i) /\ db[k][i].status \in {"completed", "timed_out"}
NeverLost ==
    [][\A j \in Jobs :
          Tracked(j) /\ ~Tracked(j)' =>
              \/ Finished(j)
              \/ \E h \in Handlers :
                    InTransit(j, h) /\ (faults' = faults + 1 \/ (pc[h] = "push" /\ ~Live(h)))]_vars

\* Without crashes, no VM exists that its host's handler could not find again.
VmRecorded(h, v) ==
    \/ pc[h] = "record" /\ hand[h].vm = v
    \/ \E k \in {PluginQ(h), CleaningQ(h)} : \E i \in 1..Len(db[k]) :
          IsVM(db[k][i]) /\ db[k][i].vm = v
NoVmLost == \A h \in Handlers : \A v \in vms[h] : VmRecorded(h, v)

\* Every record leaves the system: whatever fails on the way, a job is run,
\* cancelled, or found completed.
JobsLeave == \A j \in Jobs : []<>~Tracked(j)

-----------------------------------------------------------------------------
(* The lists implement the life cycle of a job.                             *)

Where(j) ==
    IF \E h \in Handlers : HeldBy(j, h) THEN CHOOSE h \in Handlers : HeldBy(j, h)
    ELSE IF Listed(db, j, MainQ) THEN "queued"
    ELSE IF \E d \in Deliveries : JobOf[d] = j /\ rpc[d] # "done" THEN "new"
    ELSE "gone"

Delivered == {JobOf[d] : d \in Deliveries}
Lifecycle == INSTANCE JobLifecycle WITH
    Jobs <- Delivered, where <- [j \in Delivered |-> Where(j)]
LifecycleSpec == Lifecycle!Spec

-----------------------------------------------------------------------------
(* What comments in the code say of the model, and what it does.            *)

\* "finalize cleanup if the service crashed mid-cleanup" (github.go:1458):
\* a run that goes on to pick a job has no unfinished cleanup.
CleanupFinalized == \A h \in Handlers : pc[h] = "pick" => Cleaning(h) = <<>>

\* "sending unfinished jobs back to the queue or waiting until the job is done
\* to prevent orphans" (README.md:119): a handler that is told to stop loses
\* no job that is not finished.
StopKeepsJobs == [][\A j \in Jobs : Tracked(j) /\ ~Tracked(j)' => Finished(j)]_vars

\* "The receiver skips duplicate queued events if the job is already in the
\* queued or handler queues" (docs/manual-webhook-delivery.md:119): a receiver
\* about to push a job does not find it there.
DuplicatesSkipped ==
    \A d \in Deliveries :
        rpc[d] = "scan" /\ todo[d] = {} => Absent(db, JobOf[d])

=============================================================================
