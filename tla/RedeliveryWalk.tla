--------------------------- MODULE RedeliveryWalk ---------------------------
(***************************************************************************)
(* The walk a starting receiver makes in the background: it lists GitHub's *)
(* failed webhook deliveries page by page, reads the queued and completed  *)
(* lists key by key, and then looks at each failed delivery, oldest first, *)
(* to decide whether GitHub is asked to deliver it again.  Before a unit   *)
(* of work it reserves the REST calls it may need in a budget of half the  *)
(* quota that was left (RedeliveryBudget); every call goes through         *)
(* ExecuteGitHubClientFunction, which repeats it after a 404 and after an  *)
(* answer that says the quota is nearly used up.  While the walk runs,     *)
(* handlers and the receiver move the records it has read, and spend the   *)
(* same quota.                                                             *)
(*                                                                         *)
(* Abstracted: time (resetAt is before or after now), payloads (a delivery *)
(* keeps the fields the walk branches on), a body that cannot be decoded   *)
(* (one of the errors of Get).                                             *)
(***************************************************************************)
EXTENDS Naturals, Sequences, FiniteSets

CONSTANTS
    Jobs,        \* workflow job ids
    Logs,        \* GitHub's possible lists of failed deliveries, newest first
    PageSize,    \* deliveries in one page
    Limit,       \* REST calls GitHub grants in one window
    LowWater,    \* a call that leaves no more than this is made again (10)
    MaxRetries,  \* how often a call that answers 404 is repeated (4)
    Moves,       \* <<from, to>> places a record may move between meanwhile
    Others       \* whether handlers spend the same quota

Places == {"main", "plugin", "cleaning"}      \* keys of queued lists
DonePlaces == {"completed", "own"}            \* keys of completed lists
HookActions == {"queued", "in_progress", "completed"}
Hook == [job : Jobs, action : HookActions, redelivery : BOOLEAN,
         old : BOOLEAN, labelled : BOOLEAN]

ASSUME ConstantsAssumption ==
    /\ \A l \in Logs : l \in Seq(Hook)
    /\ PageSize \in Nat \ {0}
    /\ Limit \in Nat /\ LowWater \in Nat /\ MaxRetries \in Nat
    /\ Moves \subseteq (Places \cup {"none"}) \X (Places \cup {"none"})
    /\ Others \in BOOLEAN

ASSUME NewestFirst ==
    \A l \in Logs : \A i, k \in 1..Len(l) : i < k /\ l[i].old => l[k].old

VARIABLES
    log,        \* GitHub's list of failed deliveries
    remaining,  \* what is left of the quota in GitHub's current window
    gh,         \* job -> its status at GitHub
    place,      \* job -> the queued list that has its record, or "none"
    donePlace,  \* job -> the completed list that has its record, or "none"
    stayed,     \* jobs in one and the same queued list while these are read
    pc,         \* where the walk is
    op,         \* the REST call of the next unit, or being made
    tries,      \* repetitions of that call after a 404
    due,        \* the reset that the walk waits for has come
    ctx,        \* the context in hand: "pausing" while its call has been paused,
                \* "dead" once cancelled
    budget, spent, resetAt,   \* RedeliveryBudget; resetAt: "zero", "future", "past"
    listed,     \* deliveries listed so far, the cursor
    toRedeliver,\* indices of the failed originals among them, newest first
    keys,       \* keys still to read
    inQueue, inDone,          \* the snapshot: jobs; <<job, key>>
    left,       \* how many of toRedeliver are still to be looked at
    requested,  \* redeliveryRequested
    verdict     \* index -> what the walk decided

redis == <<place, donePlace, stayed>>
github == <<log, gh>>
window == <<budget, spent, resetAt>>
call == <<op, tries, due, ctx>>
lists == <<listed, toRedeliver, keys, inQueue, inDone, left>>
result == <<requested, verdict>>
vars == <<github, remaining, redis, pc, call, window, lists, result>>

Init ==
    /\ log \in Logs
    /\ remaining \in 0..Limit
    /\ gh \in [Jobs -> {"queued", "in_progress", "completed"}]
    /\ place \in [Jobs -> Places \cup {"none"}]
    /\ donePlace \in [Jobs -> DonePlaces \cup {"none"}]
    /\ stayed = {}
    /\ pc = "start" /\ op = "list" /\ tries = 0 /\ due = FALSE /\ ctx = "live"
    /\ budget = 0 /\ spent = 0 /\ resetAt = "zero"
    /\ listed = 0 /\ toRedeliver = <<>> /\ keys = {}
    /\ inQueue = {} /\ inDone = {} /\ left = 0
    /\ requested = FALSE
    /\ verdict = [i \in 1..Len(log) |-> "none"]

Goto(l) == pc' = l
Fail == Goto("failed")

-----------------------------------------------------------------------------
(* RedeliveryBudget.                                                        *)

RedeliveryBudgetFromRemaining(n) ==
    IF n = 0 THEN 0 ELSE IF n \div 2 < 1 THEN 1 ELSE n \div 2

\* Variant for WalkEnds: a new window does not forget the calls of the last.
MutantStartWindow ==
    /\ budget' = RedeliveryBudgetFromRemaining(remaining)
    /\ resetAt' = "future"
    /\ UNCHANGED spent
StartWindow ==
    /\ budget' = RedeliveryBudgetFromRemaining(remaining)
    /\ spent' = 0
    /\ resetAt' = "future"

CanSpend(n) == spent + n <= budget
Record(n) == spent' = spent + n

\* Only an answer without an error is returned to the walk with its rate.
ApplyRate == resetAt' = "future"

\* Variant for WithinBudget: the status call of a queued delivery is forgotten.
MutantEstimate(action) == 2
redeliveryCallEstimate(action) == IF action = "queued" THEN 3 ELSE 2

\* The delivery in hand: toRedeliver is walked from its oldest end.
Current == toRedeliver[left]
CurrentHook == log[Current]
Need == IF op = "list" THEN 1 ELSE redeliveryCallEstimate(CurrentHook.action)

\* The first reading of the quota: its failure is only logged.
FirstRefresh ==
    /\ pc = "start"
    /\ StartWindow \/ UNCHANGED window
    /\ Goto("reserve")
    /\ UNCHANGED <<github, remaining, redis, call, lists, result>>

\* Reserve returns at once when the next unit fits ...
Reserved ==
    /\ pc = "reserve" /\ ctx = "live" /\ CanSpend(Need)
    /\ Goto("call")
    /\ tries' = 0
    /\ UNCHANGED <<github, remaining, redis, op, due, ctx, window, lists, result>>

\* ... reads the quota again when it knows of no reset still to come ...
RefreshInReserve ==
    /\ pc = "reserve" /\ ctx = "live" /\ ~CanSpend(Need) /\ resetAt # "future"
    /\ StartWindow
    /\ IF Need <= RedeliveryBudgetFromRemaining(remaining)
       THEN Goto("call") /\ tries' = 0 /\ UNCHANGED due
       ELSE Goto("wait") /\ due' = FALSE /\ UNCHANGED tries
    /\ UNCHANGED <<github, remaining, redis, op, ctx, lists, result>>

\* ... and else waits for it, reads the quota, and starts over.
WaitForReset ==
    /\ pc = "reserve" /\ ctx = "live" /\ ~CanSpend(Need) /\ resetAt = "future"
    /\ Goto("wait")
    /\ due' = FALSE
    /\ UNCHANGED <<github, remaining, redis, op, tries, ctx, window, lists, result>>

ResetWaited ==
    /\ pc = "wait" /\ due
    /\ StartWindow
    /\ Goto("reserve")
    /\ UNCHANGED <<github, remaining, redis, call, lists, result>>

\* GET /rate_limit fails, or a context is cancelled.
ReserveFails ==
    /\ pc \in {"reserve", "wait"}
    /\ Fail
    /\ UNCHANGED <<github, remaining, redis, call, window, lists, result>>

-----------------------------------------------------------------------------
(* ExecuteGitHubClientFunction.                                             *)

Sent == remaining' = (IF remaining = 0 THEN 0 ELSE remaining - 1)

\* Whatever it answered, a call that leaves little of the quota is made again
\* after the reset.
CallRunsLow ==
    /\ pc = "call" /\ ctx # "dead" /\ remaining <= LowWater + 1
    /\ Sent
    /\ Goto("paused")
    /\ due' = FALSE
    /\ UNCHANGED <<github, redis, op, tries, ctx, budget, spent, resetAt, lists, result>>

\* The repetition is made under a derived context, which is cancelled when
\* the first execution returns it to its caller (the defer at client.go:353).
RepeatAfterPause ==
    /\ pc = "paused" /\ due
    /\ Goto("call")
    /\ ctx' = "pausing"
    /\ UNCHANGED <<github, remaining, redis, op, tries, due, window, lists, result>>
Kept == ctx' = IF ctx = "pausing" THEN "dead" ELSE ctx
Dropped == ctx' = IF ctx = "pausing" THEN "live" ELSE ctx

\* A 404 is repeated once GET /user has shown that the token is still valid.
CallNotFound ==
    /\ pc = "call" /\ ctx # "dead" /\ remaining > LowWater + 1 /\ tries < MaxRetries
    /\ remaining' = remaining - 2
    /\ tries' = tries + 1
    /\ UNCHANGED <<github, redis, pc, op, due, ctx, budget, spent, resetAt, lists, result>>

\* An answer reaches the walk, which records one call.
Answered ==
    /\ pc = "call" /\ ctx # "dead" /\ remaining > LowWater + 1
    /\ Sent /\ Record(1)

\* The call fails without an answer, with an error of its own, or while the
\* walk is paused or backs off.
Refused ==
    /\ pc \in {"call", "paused"}
    /\ Record(1)
    /\ \/ UNCHANGED remaining
       \/ pc = "call" /\ ctx # "dead" /\ Sent

Unapplied == UNCHANGED <<budget, resetAt>>
Applied == ApplyRate /\ UNCHANGED budget

-----------------------------------------------------------------------------
(* The walk: listing.                                                       *)

\* Variant for NoFailureForgotten: completed events are left out.
MutantFilter(i) == ~log[i].redelivery /\ log[i].action = "queued"
\* GitHub lists failed deliveries only (status=failure).
FailedOriginal(i) == ~log[i].redelivery /\ log[i].action # "in_progress"

NewerThanLimit(i) == \A k \in 1..i : ~log[k].old
PageEnd == IF listed + PageSize < Len(log) THEN listed + PageSize ELSE Len(log)
Listed(n) == {i \in 1..n : FailedOriginal(i) /\ NewerThanLimit(i)}

\* The elements of a finite set of numbers, in ascending order.
Ascending(S) ==
    CHOOSE s \in [1..Cardinality(S) -> S] :
        /\ \A e \in S : \E i \in 1..Cardinality(S) : s[i] = e
        /\ \A i, k \in 1..Cardinality(S) : i < k => s[i] < s[k]

\* Variant for TypeOK: the loop over toRedeliver ends one index too late.
MutantNextUnit(k) ==
    /\ left' = k
    /\ op' = "get"
    /\ Goto(IF k >= 0 THEN "reserve" ELSE "done")
\* One unit after the other, or the end of the walk.
NextUnit(k) ==
    /\ left' = k
    /\ op' = "get"
    /\ Goto(IF k > 0 THEN "reserve" ELSE IF requested' THEN "sleep" ELSE "done")

\* A page ends at the first delivery older than redeliver_hours, and the list
\* there or with its last page.
ListPage ==
    /\ Answered /\ op = "list"
    /\ Applied
    /\ listed' = PageEnd
    /\ toRedeliver' = Ascending(Listed(PageEnd))
    /\ Goto(IF PageEnd = Len(log) \/ ~NewerThanLimit(PageEnd) THEN "queuedKeys" ELSE "reserve")
    /\ Kept
    /\ UNCHANGED <<github, redis, op, tries, due, keys, inQueue, inDone, left, result>>

ListFails ==
    /\ Refused /\ op = "list"
    /\ Unapplied
    /\ Fail
    /\ UNCHANGED <<github, redis, call, lists, result>>

-----------------------------------------------------------------------------
(* The walk: the snapshot, one Redis command for the keys of a prefix and   *)
(* one for each key.                                                        *)

At(k) == {j \in Jobs : place[j] = k \/ donePlace[j] = k}

\* Variant for OrphanUnlessMoved: the prefix misses the cleaning lists.
MutantQueuedKeys == {k \in Places \ {"cleaning"} : At(k) # {}}
\* Redis has no key for an empty list.
QueuedKeys == {k \in Places : At(k) # {}}

ListQueuedKeys ==
    /\ pc = "queuedKeys" /\ ctx = "live"
    /\ keys' = QueuedKeys
    /\ stayed' = {j \in Jobs : place[j] # "none"}
    /\ Goto("queued")
    /\ UNCHANGED <<github, remaining, place, donePlace, call, window, listed, toRedeliver,
                   inQueue, inDone, left, result>>

ReadQueued(k) ==
    /\ pc = "queued" /\ k \in keys
    /\ keys' = keys \ {k}
    /\ inQueue' = inQueue \cup At(k)
    /\ UNCHANGED <<github, remaining, redis, pc, call, window, listed, toRedeliver,
                   inDone, left, result>>

ListCompletedKeys ==
    /\ pc = "queued" /\ keys = {}
    /\ keys' = {k \in DonePlaces : At(k) # {}}
    /\ Goto("completed")
    /\ UNCHANGED <<github, remaining, redis, call, window, listed, toRedeliver,
                   inQueue, inDone, left, result>>

ReadCompleted(k) ==
    /\ pc = "completed" /\ k \in keys
    /\ keys' = keys \ {k}
    /\ inDone' = inDone \cup (At(k) \X {k})
    /\ UNCHANGED <<github, remaining, redis, pc, call, window, listed, toRedeliver,
                   inQueue, left, result>>

SnapshotTaken ==
    /\ pc = "completed" /\ keys = {}
    /\ UNCHANGED <<github, remaining, redis, tries, due, ctx, window, listed, toRedeliver,
                   keys, inQueue, inDone, result>>
    /\ NextUnit(Len(toRedeliver))

RedisFails ==
    /\ pc \in {"queuedKeys", "queued", "completed"}
    /\ Fail
    /\ UNCHANGED <<github, remaining, redis, call, window, lists, result>>

-----------------------------------------------------------------------------
(* The walk: one failed delivery.                                           *)

\* Variant for OldestFirst: the newest is looked at first.
MutantDecide(v) ==
    /\ verdict' = [verdict EXCEPT ![toRedeliver[Len(toRedeliver) + 1 - left]] = v]
    /\ ctx' = "live"
    /\ NextUnit(left - 1)
\* The context a call returned is that of one round of the loop.
Decide(v) ==
    /\ verdict' = [verdict EXCEPT ![Current] = v]
    /\ ctx' = "live"
    /\ NextUnit(left - 1)
UnitDone == UNCHANGED <<github, redis, tries, due, listed, toRedeliver, keys, inQueue, inDone>>
Within == UNCHANGED <<github, redis, tries, due, lists, result>>

\* Get the delivery; without the template label it is none of Anklet's.
GetUnlabelled ==
    /\ Answered /\ op = "get" /\ ~CurrentHook.labelled
    /\ Applied
    /\ UNCHANGED requested
    /\ Decide("unlabelled")
    /\ UnitDone

GetFails ==
    /\ Refused /\ op = "get"
    /\ Unapplied
    /\ UNCHANGED requested
    /\ Decide("error")
    /\ UnitDone

\* A queued delivery needs the job's status as well.
GetDelivery ==
    /\ Answered /\ op = "get" /\ CurrentHook.labelled
    /\ Applied
    /\ IF CurrentHook.action = "queued"
       THEN Goto("call") /\ op' = "status"
       ELSE Goto("decide") /\ UNCHANGED op
    /\ tries' = 0
    /\ Kept
    /\ UNCHANGED <<github, redis, due, lists, result>>

shouldSkipQueuedRedelivery(status) == status \in {"completed", "in_progress"}

\* The rate of this answer is not applied to the budget.
JobProgressed ==
    /\ Answered /\ op = "status" /\ shouldSkipQueuedRedelivery(gh[CurrentHook.job])
    /\ Unapplied
    /\ UNCHANGED requested
    /\ Decide("progressed")
    /\ UnitDone

JobStillQueued ==
    /\ Answered /\ op = "status" /\ ~shouldSkipQueuedRedelivery(gh[CurrentHook.job])
    /\ Unapplied
    /\ Goto("decide")
    /\ Dropped /\ UNCHANGED op /\ Within

StatusFails ==
    /\ Refused /\ op = "status"
    /\ Unapplied
    /\ Goto("decide")
    /\ Dropped /\ UNCHANGED op /\ Within

\* What the snapshot says.  Only a completed event is looked for in the
\* completed lists.
DoneKeys == {k \in DonePlaces : <<CurrentHook.job, k>> \in inDone}
InCompleted == CurrentHook.action = "completed" /\ DoneKeys # {}
InQueued == CurrentHook.job \in inQueue

KeepCompleted ==
    /\ pc = "decide" /\ InQueued /\ InCompleted
    /\ UNCHANGED <<remaining, window, requested>>
    /\ Decide("kept")
    /\ UnitDone

\* LREM of the record as it was read, from the list where it was read; its
\* failure is logged.
RemoveCompleted ==
    /\ pc = "decide" /\ ~InQueued /\ InCompleted
    /\ \E k \in DoneKeys :
          \/ /\ ctx = "live"
             /\ donePlace' = [donePlace EXCEPT ![CurrentHook.job] = IF @ = k THEN "none" ELSE @]
          \/ UNCHANGED donePlace
    /\ UNCHANGED <<remaining, window, requested>>
    /\ Decide("removed")
    /\ UNCHANGED <<github, place, stayed, tries, due, listed, toRedeliver, keys, inQueue, inDone>>

Redeliver ==
    /\ pc = "decide" /\ ~InCompleted
    /\ Goto("call")
    /\ op' = "post"
    /\ tries' = 0
    /\ UNCHANGED <<github, remaining, redis, due, ctx, window, lists, result>>

\* The error of the POST is ignored.
Redelivered ==
    /\ op = "post"
    /\ \/ Answered /\ Applied
       \/ Refused /\ Unapplied
    /\ requested' = TRUE
    /\ Decide("posted")
    /\ UnitDone

\* A minute for the handlers, or a context that is cancelled.
Slept ==
    /\ pc = "sleep"
    /\ Goto("done") \/ Fail
    /\ UNCHANGED <<github, remaining, redis, call, window, lists, result>>

-----------------------------------------------------------------------------
(* Meanwhile: GitHub, and the records that others move.                     *)

WindowResets ==
    /\ pc \notin {"done", "failed"}
    /\ remaining' = Limit
    /\ due' = TRUE
    /\ resetAt' = IF resetAt = "future" THEN "past" ELSE resetAt
    /\ UNCHANGED <<github, redis, pc, op, tries, ctx, budget, spent, lists, result>>

HandlersCall ==
    /\ Others /\ remaining > 0 /\ pc \notin {"done", "failed"}
    /\ remaining' = remaining - 1
    /\ UNCHANGED <<github, redis, pc, call, window, lists, result>>

\* Claim, cleanup and return move the record of a job; "none" is also the
\* memory of a handler between a pop and a push.
RecordMoves(j) ==
    /\ pc \notin {"done", "failed"}
    /\ \E m \in Moves :
          /\ place[j] = m[1]
          /\ place' = [place EXCEPT ![j] = m[2]]
    /\ stayed' = IF pc = "queued" THEN stayed \ {j} ELSE stayed
    /\ UNCHANGED <<github, remaining, donePlace, pc, call, window, lists, result>>

\* A completed record comes for a job in some list, moves to the handler's own
\* list, and goes.
CompletedMoves(j) ==
    /\ Moves # {} /\ pc \notin {"done", "failed"}
    /\ \E to \in DonePlaces \cup {"none"} :
          /\ <<donePlace[j], to>> \in {<<"none", "completed">>, <<"completed", "own">>,
                                       <<"completed", "none">>, <<"own", "none">>}
          /\ donePlace[j] = "none" => place[j] # "none"
          /\ donePlace' = [donePlace EXCEPT ![j] = to]
    /\ UNCHANGED <<github, remaining, place, stayed, pc, call, window, lists, result>>

Budgeting ==
    FirstRefresh \/ Reserved \/ RefreshInReserve \/ WaitForReset \/ ResetWaited \/ ReserveFails
Calling == CallRunsLow \/ RepeatAfterPause \/ CallNotFound
Listing == ListPage \/ ListFails
Snapshot ==
    \/ ListQueuedKeys \/ ListCompletedKeys \/ SnapshotTaken \/ RedisFails
    \/ \E k \in Places : ReadQueued(k)
    \/ \E k \in DonePlaces : ReadCompleted(k)
Deciding ==
    \/ GetUnlabelled \/ GetFails \/ GetDelivery
    \/ JobProgressed \/ JobStillQueued \/ StatusFails
    \/ KeepCompleted \/ RemoveCompleted \/ Redeliver \/ Redelivered \/ Slept
Walk == Budgeting \/ Calling \/ Listing \/ Snapshot \/ Deciding

Next ==
    \/ Walk
    \/ WindowResets \/ HandlersCall
    \/ \E j \in Jobs : RecordMoves(j) \/ CompletedMoves(j)

Spec == Init /\ [][Next]_vars

\* The walk's goroutine runs, and time passes.
FairSpec == Spec /\ WF_vars(Walk) /\ WF_vars(WindowResets)

-----------------------------------------------------------------------------
(* Properties.                                                              *)

\* The types of the variables; a unit is reserved or made only for a delivery
\* that is left to look at.
WalkPcs == {"start", "reserve", "wait", "call", "paused", "queuedKeys", "queued",
            "completed", "decide", "sleep", "done", "failed"}
Verdicts == {"none", "error", "unlabelled", "progressed", "kept", "removed", "posted"}
TypeOK ==
    /\ log \in Logs /\ remaining \in 0..Limit
    /\ gh \in [Jobs -> {"queued", "in_progress", "completed"}]
    /\ place \in [Jobs -> Places \cup {"none"}]
    /\ donePlace \in [Jobs -> DonePlaces \cup {"none"}]
    /\ stayed \subseteq Jobs
    /\ pc \in WalkPcs /\ op \in {"list", "get", "status", "post"}
    /\ tries \in 0..MaxRetries /\ due \in BOOLEAN /\ ctx \in {"live", "pausing", "dead"}
    /\ budget \in Nat /\ spent \in Nat
    /\ resetAt \in {"zero", "future", "past"}
    /\ listed \in 0..Len(log)
    /\ toRedeliver \in Seq(1..Len(log)) /\ left \in 0..Len(toRedeliver)
    /\ keys \subseteq Places \cup DonePlaces
    /\ inQueue \subseteq Jobs /\ inDone \subseteq Jobs \X DonePlaces
    /\ requested \in BOOLEAN
    /\ verdict \in [1..Len(log) -> Verdicts]
    /\ pc \in {"reserve", "wait", "call", "paused"} /\ op # "list" => left > 0
    /\ pc = "decide" => left > 0

\* The worst case that Reserve asks for is the worst case: what a unit of work
\* records never exceeds the budget, whichever of its calls fail and whenever
\* the window resets (Reserve, redeliveryCallEstimate).
WithinBudget == spent <= budget

\* The walk looks at the failed deliveries from the oldest to the newest, so a
\* job is queued again before it is reported completed (the loop at
\* redeliver.go:159).
OldestFirst ==
    \A i, k \in 1..Len(toRedeliver) :
        i < k /\ verdict[toRedeliver[i]] # "none" => verdict[toRedeliver[k]] # "none"

\* A walk that ends has decided on every failed original of the last
\* redeliver_hours, whatever pages they were on, and on nothing else.
NoFailureForgotten ==
    pc = "done" =>
        \A i \in 1..Len(log) :
            verdict[i] # "none" <=>
                /\ ~log[i].old /\ ~log[i].redelivery
                /\ log[i].action \in {"queued", "completed"}

\* The walk deletes a completed record as one of a job "in completed but not
\* queued" (redeliver.go:247) only if the job's record was in no queued list when
\* it began to read them, or moved before it had read them all: however it moves
\* before and after, and however old the snapshot is when it is used, a job that
\* waits or runs keeps the record that will end it.
OrphanUnlessMoved ==
    [][\A j \in Jobs : pc = "decide" /\ donePlace'[j] # donePlace[j] /\ pc' # "decide"
          => j \notin stayed]_vars

\* Unless handlers keep spending its quota, the walk ends: no unit of work waits
\* for ever (Reserve, StartWindow).
WalkEnds == []<><<HandlersCall>>_vars \/ <>(pc \in {"done", "failed"})
=============================================================================
