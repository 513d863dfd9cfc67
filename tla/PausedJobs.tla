----------------------------- MODULE PausedJobs -----------------------------
(***************************************************************************)
(* A handler whose host has no room for its job now marks the job paused,  *)
(* announces it in the owner's paused list, and waits.  A handler that     *)
(* takes the announcement may take the job out of the first one's list,    *)
(* which then sees that it is gone; but the first one may also get room    *)
(* and go on.                                                              *)
(*                                                                         *)
(* One handler per host; its list holds one job.  Abstracted: the claim    *)
(* from the main list, exclusive (JobQueues), the VM's record, what the    *)
(* checker does, and the steps of cleanup within the handler's lists.      *)
(* LRANGE and LREM of DeleteFromQueue are one step, and so are the look at *)
(* a job's status and the LPUSH that depends on it.                        *)
(***************************************************************************)
EXTENDS RedisLists, FiniteSets

CONSTANTS
    Hosts, Jobs, None,
    Queue,      \* the order of the jobs in the main list at the start
    Room,       \* host -> what its check for room may answer
    Faults,     \* the kinds of faults: "stop", "crash", "fail"
    MaxFaults   \* how many of them a behaviour may have, once each

Records == [id : Jobs, action : {"queued", "preparing", "paused", "in_progress"}, over : BOOLEAN]
Announcements == [id : Jobs, on : Hosts]

ASSUME PausedAssumption ==
    /\ IsFiniteSet(Jobs) /\ None \notin Jobs \cup Records \cup Announcements
    /\ "main" \notin Hosts /\ "paused" \notin Hosts
    /\ Queue \in [1..Cardinality(Jobs) -> Jobs]
    /\ {Queue[i] : i \in DOMAIN Queue} = Jobs
    /\ Room \in [Hosts -> SUBSET BOOLEAN]
    /\ Faults \subseteq {"stop", "crash", "fail"} /\ MaxFaults \in Nat

VARIABLES
    db,         \* the lists: "main", "paused" and one per host
    pc,         \* host -> control state
    job,        \* host -> the record of queuedJob, or None
    index, length, \* host -> pausedQueueTargetIndex, pausedQueueLength
    rounds,     \* host -> functions that the loop has deferred
    held,       \* host -> pausedQueuedJobString, or None
    read,       \* host -> the element read that a command will remove
    deaf,       \* hosts whose checker ended before the run did
    done,       \* jobs that have ended
    changed,    \* jobs whose record their host changed or took after a pause,
                \* or whose announcement was given back more than once
    lost,       \* jobs whose record a run had in hand when it was cut off
    muted,      \* jobs whose announcement was lost so, overwritten in the next
                \* round of the loop, or removed by another host
    faults      \* kinds of the faults that occurred

look == <<index, length, rounds, held, read>>
past == <<deaf, done, changed, lost, muted, faults>>
vars == <<db, pc, job, look, past>>

Record(j, action) == [id |-> j, action |-> action, over |-> FALSE]
Announcement(j, h) == [id |-> j, on |-> h]

Init ==
    /\ db = [k \in Hosts \cup {"main", "paused"} |->
               IF k = "main" THEN [i \in DOMAIN Queue |-> Record(Queue[i], "queued")]
                             ELSE <<>>]
    /\ pc = [h \in Hosts |-> "idle"] /\ job = [h \in Hosts |-> None]
    /\ index = [h \in Hosts |-> 0] /\ length = [h \in Hosts |-> 0]
    /\ rounds = [h \in Hosts |-> 0]
    /\ held = [h \in Hosts |-> None] /\ read = [h \in Hosts |-> None]
    /\ deaf = {} /\ done = {} /\ changed = {} /\ lost = {} /\ muted = {} /\ faults = {}

Goto(h, l) == pc' = [pc EXCEPT ![h] = l]
Set(f, h, value) == f' = [f EXCEPT ![h] = value]
\* The variables of the loop, which nothing reads once nothing is held.
Forget(h) == Set(index, h, 0) /\ Set(length, h, 0) /\ Set(rounds, h, 0)
             /\ Set(held, h, None) /\ Set(read, h, None)
Return(h) == Goto(h, "idle") /\ Set(job, h, None)
Answers(h, room) == room \in Room[h]

\* A run that gives its job up leaves it to cleanup, which returns it to the
\* main list when the checker has passed on the reason, and else keeps it.
GiveUp(h) == IF h \in deaf THEN Return(h) ELSE Goto(h, "failing") /\ UNCHANGED job

\* LREM, whatever its answer.
Without(k, e) ==
    IF \E i \in DOMAIN db[k] : db[k][i] = e
    THEN LRemAt(db, k, CHOOSE i \in DOMAIN db[k] : FirstAt(db, k, e, i))
    ELSE db

\* The first element of a job: GetJobJSONFromQueueByID and
\* GetJobFromQueueByKeyAndValue.
Find(k, j) ==
    LET of == {i \in DOMAIN db[k] : db[k][i].id = j}
    IN  IF of = {} THEN None
        ELSE db[k][CHOOSE i \in of : \A n \in of : i <= n]
DeleteFromQueue(k, j) == IF Find(k, j) = None THEN db ELSE Without(k, Find(k, j))

\* UpdateJobInDB, of a record that is not completed: nothing is written when
\* the job has left the list.
UpdateJobInDB(h, action) ==
    IF db[h] = <<>> \/ db[h][1].id # job[h].id THEN db
    ELSE LSet(db, h, 1, [job[h] EXCEPT !.action = action])

Dropped(h) == IF held[h] = None THEN {} ELSE {held[h].id}

\* The announcement that is removed may be one of another host.
Unannounce(h) ==
    /\ db' = DeleteFromQueue("paused", job[h].id)
    /\ muted' = IF Find("paused", job[h].id) \in {None, Announcement(job[h].id, h)}
                THEN muted ELSE muted \cup {job[h].id}

Fault(kind) ==
    /\ kind \in Faults \ faults /\ Cardinality(faults) < MaxFaults
    /\ faults' = faults \cup {kind}

Completed(h) == db[h] # <<>> /\ db[h][1].over
IdsPausedAt(h) ==
    {db[h][i].id : i \in {n \in DOMAIN db[h] : db[h][n].action = "paused"}}

-----------------------------------------------------------------------------
(* The look at the paused list.                                             *)

\* Variant for TypeOK: the job of its own list is not looked at.
MutantBeginRun(h) ==
    /\ pc[h] = "idle"
    /\ Set(job, h, None) /\ Goto(h, "length")
    /\ UNCHANGED <<db, look, past>>

\* A host resumes the job of its list, or looks for one; a new checker starts.
BeginRun(h) ==
    /\ pc[h] = "idle"
    /\ IF db[h] # <<>> THEN Set(job, h, db[h][1]) /\ Goto(h, "claimed")
                       ELSE Set(job, h, None) /\ Goto(h, "length")
    /\ changed' = changed \cup IdsPausedAt(h)
    /\ deaf' = deaf \ {h}
    /\ UNCHANGED <<db, look, done, lost, muted, faults>>

\* Variant for PausedLeave: the last announcement is left in the list.
MutantReadLength(h) ==
    /\ pc[h] = "length"
    /\ Set(length, h, Len(db["paused"]))
    /\ Goto(h, IF Len(db["paused"]) <= 1 THEN "release" ELSE "range")
    /\ UNCHANGED <<db, job, index, rounds, held, read, past>>

\* After rounds of the loop, the last announcement may still be held.
ReadLength(h) ==
    /\ pc[h] = "length"
    /\ Set(length, h, Len(db["paused"]))
    /\ Goto(h, IF db["paused"] = <<>> THEN "release" ELSE "range")
    /\ UNCHANGED <<db, job, index, rounds, held, read, past>>

\* PopJobOffQueue; its answer overwrites what was held.
ReadNone(h) ==
    /\ pc[h] = "range" /\ index[h] >= Len(db["paused"])
    /\ Set(held, h, None) /\ muted' = muted \cup Dropped(h)
    /\ Set(rounds, h, rounds[h] + 1) /\ Goto(h, "release")
    /\ UNCHANGED <<db, job, index, length, read, deaf, done, changed, lost, faults>>

ReadAnnouncement(h) ==
    /\ pc[h] = "range" /\ index[h] < Len(db["paused"])
    /\ Set(read, h, db["paused"][index[h] + 1])
    /\ Goto(h, "take")
    /\ UNCHANGED <<db, job, index, length, rounds, held, past>>

\* The reply of LREM tells whether the announcement was still there; what was
\* held is overwritten here, too.
TakeAnnouncement(h) ==
    /\ pc[h] = "take"
    /\ db' = Without("paused", read[h])
    /\ IF db' # db THEN Set(held, h, read[h]) /\ Goto(h, "look")
                   ELSE Set(held, h, None) /\ Goto(h, "release")
    /\ muted' = muted \cup Dropped(h)
    /\ Set(read, h, None) /\ Set(rounds, h, rounds[h] + 1)
    /\ UNCHANGED <<job, index, length, deaf, done, changed, lost, faults>>

\* On to the next announcement, unless there was only one; what is held is
\* released after the loop only.
NextRound(h) ==
    /\ Set(index, h, index[h] + 1)
    /\ Goto(h, IF length[h] = 1 THEN "release" ELSE "length")

\* Paused on this host, or no room here, either.
SkipAnnouncement(h) ==
    /\ pc[h] = "look"
    /\ held[h].on = h \/ Answers(h, FALSE)
    /\ NextRound(h)
    /\ UNCHANGED <<db, job, length, rounds, held, read, past>>

\* The record in the list of the host where the job is paused.
FindPaused(h) ==
    /\ pc[h] = "look" /\ held[h].on # h /\ Answers(h, TRUE)
    /\ Set(read, h, Find(held[h].on, held[h].id))
    /\ Goto(h, "found")
    /\ UNCHANGED <<db, job, index, length, rounds, held, past>>

\* It is gone: another announcement like this one is removed, and the checker
\* is told to finish, although the run goes on.
DropOrphan(h) ==
    /\ pc[h] = "found" /\ read[h] = None
    /\ db' = Without("paused", held[h])
    /\ NextRound(h)
    /\ deaf' = deaf \cup {h}
    /\ UNCHANGED <<job, length, rounds, held, read, done, changed, lost, muted, faults>>

RunsElsewhere(h) ==
    /\ pc[h] = "found" /\ read[h] # None /\ read[h].action # "paused"
    /\ Goto(h, "return")
    /\ UNCHANGED <<db, job, look, past>>

\* Variant for OneUnlessChanged: the job stays in the other host's list.
MutantTakeOver(h) ==
    /\ pc[h] = "found" /\ read[h] # None /\ read[h].action = "paused"
    /\ Set(job, h, read[h]) /\ Forget(h)
    /\ Goto(h, "push")
    /\ UNCHANGED <<db, past>>

\* The job is taken from the other host's list; the reply is not looked at.
TakeOver(h) ==
    /\ pc[h] = "found" /\ read[h] # None /\ read[h].action = "paused"
    /\ db' = Without(held[h].on, read[h])
    /\ Set(job, h, read[h]) /\ Forget(h)
    /\ Goto(h, "push")
    /\ UNCHANGED past

Active(record) == record = None \/ ~record.over
Kept(h) == held[h] # None /\ Active(Find(held[h].on, held[h].id))

\* After the loop: what is held goes back, unless the job is completed.
Release(h) ==
    /\ pc[h] = "release"
    /\ db' = IF Kept(h) THEN LPush(db, "paused", held[h]) ELSE db
    /\ Forget(h) /\ Goto(h, "main")
    /\ UNCHANGED <<job, past>>

\* When Run returns from the loop, each function it has deferred gives back
\* what is held.
RunDeferred(h) ==
    /\ pc[h] = "return"
    /\ db' = IF Kept(h) THEN LPush(db, "paused", held[h]) ELSE db
    /\ changed' = IF Kept(h) /\ rounds[h] > 1 THEN changed \cup {held[h].id} ELSE changed
    /\ IF rounds[h] > 1
       THEN Set(rounds, h, rounds[h] - 1) /\ UNCHANGED <<pc, job, index, length, held, read>>
       ELSE Forget(h) /\ Return(h)
    /\ UNCHANGED <<deaf, done, lost, muted, faults>>

Look(h) ==
    \/ BeginRun(h) \/ ReadLength(h) \/ ReadNone(h) \/ ReadAnnouncement(h)
    \/ TakeAnnouncement(h) \/ SkipAnnouncement(h) \/ FindPaused(h)
    \/ DropOrphan(h) \/ RunsElsewhere(h) \/ TakeOver(h)
    \/ Release(h) \/ RunDeferred(h)

-----------------------------------------------------------------------------
(* A job of its own: claim, pause, wait, run.                               *)

Claim(h) ==
    /\ pc[h] = "main"
    /\ IF db["main"] = <<>>
       THEN Return(h) /\ UNCHANGED db
       ELSE /\ Set(job, h, db["main"][1]) /\ db' = Without("main", db["main"][1])
            /\ Goto(h, "push")
    /\ UNCHANGED <<look, past>>

PushClaim(h) ==
    /\ pc[h] = "push"
    /\ db' = RPush(db, h, job[h])
    /\ Goto(h, "claimed")
    /\ UNCHANGED <<job, look, past>>

\* Whether the job is completed, first; one that is not found is retried.
Prepare(h) ==
    /\ pc[h] = "claimed"
    /\ \/ Completed(h) /\ Goto(h, "cleanup") /\ UNCHANGED <<db, job>>
       \/ ~Completed(h) /\ Find(h, job[h].id) = None /\ GiveUp(h) /\ UNCHANGED db
       \/ ~Completed(h) /\ Find(h, job[h].id) # None /\ Goto(h, "prepared")
          /\ db' = UpdateJobInDB(h, "preparing") /\ UNCHANGED job
    /\ UNCHANGED <<look, past>>

\* The finish message that nobody has received yet has no status: the process
\* ends, and starts again.
NilStatus(h) ==
    /\ pc[h] = "claimed" /\ h \in deaf
    /\ Return(h)
    /\ UNCHANGED <<db, look, past>>

StartVM(h) ==
    /\ pc[h] = "prepared" /\ Answers(h, TRUE)
    /\ Goto(h, "running")
    /\ UNCHANGED <<db, job, look, past>>

Pause(h) ==
    /\ pc[h] = "prepared" /\ Answers(h, FALSE)
    /\ IF Completed(h) THEN Goto(h, "cleanup") /\ UNCHANGED db
                       ELSE Goto(h, "pausing") /\ db' = UpdateJobInDB(h, "paused")
    /\ UNCHANGED <<job, look, past>>

\* The job may have been announced already ...
FindAnnouncement(h) ==
    /\ pc[h] = "pausing"
    /\ Goto(h, IF Find("paused", job[h].id) = None THEN "announcing" ELSE "waiting")
    /\ UNCHANGED <<db, job, look, past>>

Announce(h) ==
    /\ pc[h] = "announcing"
    /\ db' = RPush(db, "paused", Announcement(job[h].id, h))
    /\ Goto(h, "waiting")
    /\ UNCHANGED <<job, look, past>>

\* The checker's message that the job is completed.
WaitIsOver(h) ==
    /\ pc[h] = "waiting" /\ Completed(h)
    /\ Unannounce(h)
    /\ Goto(h, "cleanup")
    /\ UNCHANGED <<job, look, deaf, done, changed, lost, faults>>

\* Another host has the job: cleanup finds an empty list.
TakenAway(h) ==
    /\ pc[h] = "waiting" /\ Find(h, job[h].id) = None
    /\ Return(h)
    /\ UNCHANGED <<db, look, past>>

\* The job is still there, and there is room ...
GetRoom(h) ==
    /\ pc[h] = "waiting" /\ Find(h, job[h].id) # None /\ Answers(h, TRUE)
    /\ Goto(h, "withdrawing")
    /\ UNCHANGED <<db, job, look, past>>

\* ... so that it is not to be taken any more ...
Withdraw(h) ==
    /\ pc[h] = "withdrawing"
    /\ Unannounce(h)
    /\ changed' = changed \cup IdsPausedAt(h)
    /\ Goto(h, "resuming")
    /\ UNCHANGED <<job, look, deaf, done, lost, faults>>

\* ... and goes on; that the job is not found any more is only logged.
Regain(h) ==
    /\ pc[h] = "resuming"
    /\ IF Completed(h) THEN Goto(h, "cleanup") /\ UNCHANGED db
                       ELSE Goto(h, "running") /\ db' = UpdateJobInDB(h, "in_progress")
    /\ UNCHANGED <<job, look, past>>

\* The job runs to its end, which the checker tells, or fails and goes back.
RunEnds(h) ==
    /\ pc[h] = "running" /\ h \notin deaf
    /\ done' = done \cup {job[h].id}
    /\ db' = IF Find(h, job[h].id) = None THEN db ELSE LSet(db, h, 1, [db[h][1] EXCEPT !.over = TRUE])
    /\ Goto(h, "cleanup")
    /\ UNCHANGED <<job, look, deaf, changed, lost, muted, faults>>

RunFails(h) ==
    /\ pc[h] = "running" /\ Fault("fail")
    /\ GiveUp(h)
    /\ UNCHANGED <<db, look, deaf, done, changed, lost, muted>>

\* Cleanup of a completed job.
CleanCompleted(h) ==
    /\ pc[h] = "cleanup"
    /\ db' = Del(db, h)
    /\ Return(h)
    /\ UNCHANGED <<look, past>>

\* Variant for NeverLost: a paused job is taken for one that another host has.
MutantTakeForReturn(h) ==
    /\ pc[h] = "failing"
    /\ IF db[h] = <<>>
       THEN Return(h) /\ UNCHANGED db
       ELSE IF db[h][1].action = "paused" THEN Return(h) /\ db' = Del(db, h)
       ELSE IF Completed(h) THEN Goto(h, "cleanup") /\ UNCHANGED <<db, job>>
       ELSE Set(job, h, db[h][1]) /\ db' = Del(db, h) /\ Goto(h, "returning")
    /\ changed' = changed \cup IdsPausedAt(h)
    /\ UNCHANGED <<look, deaf, done, lost, muted, faults>>

\* Cleanup of one that goes back: it is taken out of the handler's list ...
TakeForReturn(h) ==
    /\ pc[h] = "failing"
    /\ IF db[h] = <<>>
       THEN Return(h) /\ UNCHANGED db
       ELSE IF Completed(h) THEN Goto(h, "cleanup") /\ UNCHANGED <<db, job>>
       ELSE Set(job, h, db[h][1]) /\ db' = Del(db, h) /\ Goto(h, "returning")
    /\ changed' = changed \cup IdsPausedAt(h)
    /\ UNCHANGED <<look, deaf, done, lost, muted, faults>>

\* ... pushed to the main list ...
ReturnToMainQueue(h) ==
    /\ pc[h] = "returning"
    /\ db' = LPush(db, "main", Record(job[h].id, "queued"))
    /\ Goto(h, "returned")
    /\ UNCHANGED <<job, look, past>>

\* ... and is not announced any more.
ForgetReturned(h) ==
    /\ pc[h] = "returned"
    /\ Unannounce(h)
    /\ Return(h)
    /\ UNCHANGED <<look, deaf, done, changed, lost, faults>>

RunJob(h) ==
    \/ Claim(h) \/ PushClaim(h) \/ Prepare(h) \/ StartVM(h)
    \/ Pause(h) \/ FindAnnouncement(h) \/ Announce(h)
    \/ WaitIsOver(h) \/ TakenAway(h) \/ Withdraw(h) \/ Regain(h)
    \/ RunEnds(h) \/ RunFails(h) \/ CleanCompleted(h)
    \/ TakeForReturn(h) \/ ReturnToMainQueue(h) \/ ForgetReturned(h)

-----------------------------------------------------------------------------

\* The job is cancelled on GitHub, which its host's checker marks.
JobCanceled(h) ==
    /\ pc[h] \in {"claimed", "prepared", "pausing", "announcing", "waiting",
                  "withdrawing", "resuming"}
    /\ h \notin deaf /\ db[h] # <<>> /\ ~Completed(h)
    /\ db' = LSet(db, h, 1, [db[h][1] EXCEPT !.over = TRUE])
    /\ done' = done \cup {db[h][1].id}
    /\ changed' = changed \cup IdsPausedAt(h)
    /\ UNCHANGED <<pc, job, look, deaf, lost, muted, faults>>

InHand(j) == {h \in Hosts : pc[h] \in {"push", "returning"} /\ job[h].id = j}

\* What a run has in hand, it has in memory only.
CutOff(h) ==
    /\ lost' = lost \cup {j \in Jobs : h \in InHand(j)}
    /\ muted' = muted \cup Dropped(h)
    /\ Forget(h)

\* A signal cancels the context of Run's commands.  None is sent after that,
\* not even one that would give back what is in hand, and one that was executed
\* counts as failed: Run ends wherever it is.  Only cleanup goes on, which has a
\* context of its own; the checker may still have told it to return the job.
Looking == {"length", "range", "take", "look", "found", "release", "return", "main", "push"}
Handling == {"claimed", "prepared", "pausing", "announcing", "waiting", "withdrawing",
             "resuming", "running"}
Stop(h) ==
    /\ Fault("stop") /\ CutOff(h)
    /\ \/ pc[h] \in Looking /\ Return(h)
       \/ pc[h] \in Handling /\ (Return(h) \/ GiveUp(h))
    /\ UNCHANGED <<db, deaf, done, changed>>

Crash(h) ==
    /\ Fault("crash") /\ pc[h] # "idle"
    /\ CutOff(h) /\ Return(h)
    /\ UNCHANGED <<db, deaf, done, changed>>

Next ==
    \E h \in Hosts :
        \/ Look(h) \/ RunJob(h) \/ GetRoom(h) \/ NilStatus(h)
        \/ JobCanceled(h) \/ Stop(h) \/ Crash(h)

Spec == Init /\ [][Next]_vars

\* Every handler keeps taking steps, but a host that waits may never get room,
\* and a run whose checker has ended may wait for it for ever.
Attended(h) == pc[h] = "idle" \/ h \notin deaf
FairSpec == Spec /\ \A h \in Hosts : WF_vars(Attended(h) /\ (Look(h) \/ RunJob(h)))

-----------------------------------------------------------------------------
(* Properties.                                                              *)

\* Every variable has its type; a handler's list holds one job at most, which
\* the look at its own list before any other (github.go:1525) has to ensure.
TypeOK ==
    /\ db["main"] \in Seq(Records) /\ db["paused"] \in Seq(Announcements)
    /\ \A h \in Hosts : db[h] \in Seq(Records) /\ Len(db[h]) <= 1
    /\ job \in [Hosts -> Records \cup {None}]
    /\ held \in [Hosts -> Announcements \cup {None}]
    /\ \A h \in Hosts : pc[h] \in {"look", "found"} => held[h] \in Announcements
    /\ deaf \subseteq Hosts /\ faults \subseteq Faults
    /\ done \subseteq Jobs /\ changed \subseteq Jobs /\ lost \subseteq Jobs /\ muted \subseteq Jobs

Listed(j) == {h \in Hosts : Find(h, j) # None}
AtMain(j) == {i \in DOMAIN db["main"] : db["main"][i].id = j}
Places(j) ==
    Cardinality(InHand(j)) + Cardinality(Listed(j)) + Cardinality(AtMain(j))

\* A job that has not ended is in the main list, in a handler's list or in the
\* hand of a handler, however pause, takeover, return, stop and crash mix, but
\* for a job in the hand of a run that was stopped or crashed right there: after
\* the LREM of a claim or a takeover and before the RPUSH (github.go:1682, 1773),
\* or, for a crash, after the RPOP of a return and before the LPUSH (1192, 1217).
NeverLost ==
    \A j \in Jobs \ (done \cup lost) : InHand(j) # {} \/ Listed(j) # {} \/ AtMain(j) # {}

\* It is in one of these places only, as long as the host where it is paused
\* does not touch its record (it gets room, restarts, stops, or sees the job cancelled)
\* between another host's look and its LREM, whose reply github.go:1682 ignores,
\* and no run that finds the job running elsewhere in a later round of the loop
\* (1677) gives its announcement back once for each round (1571): two hosts could
\* then take it over.
OneUnlessChanged == \A j \in Jobs \ changed : Places(j) <= 1

\* Two hosts never run one job: github.go:2169 removes the announcement "so
\* other hosts won't try to pick it up anymore".  A host that holds the
\* announcement already may pick it up nevertheless.
OneRuns ==
    \A g, h \in Hosts :
        pc[g] = "running" /\ pc[h] = "running" /\ job[g].id = job[h].id => g = h

\* When some host always has room, no job stays paused on one that has none,
\* whichever host takes its announcement out of the list to look at it, and puts
\* it back (github.go:1557-1716, 2106-2160).  Four things take that back: a stop
\* or crash of a host that holds the job's announcement; a host that holds it
\* still when it takes the next one, which overwrites it (1569); a host that
\* removes the announcement of another one, as the last command of a return may
\* (1224); and a run that waits for ever for its checker, which it told to
\* finish (1664).
PausedLeave ==
    \A j \in Jobs :
        \/ []<>(\A h \in Hosts : ~(pc[h] = "waiting" /\ job[h].id = j))
        \/ <>(j \in muted)
        \/ <>[](\E h \in Hosts : ~Attended(h))
=============================================================================
