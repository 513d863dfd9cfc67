------------------------ MODULE ExclusiveClaimProofs ------------------------
(***************************************************************************)
(* A job has one record, and one owner: ExclusiveClaim, for any number of  *)
(* handlers, jobs, faults of every kind, and deliveries of different jobs. *)
(***************************************************************************)
EXTENDS JobQueuesProofs

\* No event is delivered twice.
OneDelivery == \A d, e \in Deliveries : JobOf[d] = JobOf[e] => d = e

\* A job whose delivery is not processed yet has no record: what PushQueued
\* pushes is new.
Fresh ==
    \A d \in Deliveries :
        rpc[d] # "done" =>
            Absent(db, JobOf[d]) /\ \A h \in Handlers : ~InTransit(JobOf[d], h)

\* Only jobs stand in the main queue, and only jobs go back to it.
JobsOnly ==
    /\ \A i \in 1..Len(db[MainQ]) : IsJob(db[MainQ][i])
    /\ \A h \in Handlers : pc[h] = "c4" => IsJob(hand[h])

Unique == ExclusiveClaim /\ Fresh /\ JobsOnly

\* A step that moves no record: it may relabel those in the handlers' own
\* lists, and drop what a handler has in memory.
Quiet ==
    /\ Relabels(db, db')
    /\ \A h \in Handlers :
          pc'[h] \in {"push", "c4"} => pc'[h] = pc[h] /\ hand'[h] = hand[h]
    /\ \A d \in Deliveries : rpc'[d] # "done" => rpc[d] # "done"

\* A step that leaves the lists alone relabels nothing.
LEMMA SameRelabels == ASSUME UNCHANGED db PROVE Relabels(db, db')
BY DEF Relabels

\* LREM takes the i-th record out of a list, and leaves the others alone.
LEMMA LRemResult ==
    ASSUME ListsOK, NEW k \in Keys, NEW i \in 1..Len(db[k]), NEW E, E = LRemAt(db, k, i)
    PROVE  /\ Len(E[k]) = Len(db[k]) - 1
           /\ \A n \in 1..Len(E[k]) : E[k][n] = db[k][IF n < i THEN n ELSE n + 1]
           /\ \A x \in Keys \ {k} : E[x] = db[x]
<1>1. db[k] \in Seq(QueueJob)
  BY DEF ListsOK
<1>2. /\ E[k] = SubSeq(db[k], 1, i - 1) \o SubSeq(db[k], i + 1, Len(db[k]))
      /\ \A x \in Keys \ {k} : E[x] = db[x]
  BY DEF ListsOK, LRemAt
<1>3. /\ Len(E[k]) = Len(db[k]) - 1
      /\ \A n \in 1..(Len(db[k]) - 1) : E[k][n] = db[k][IF n < i THEN n ELSE n + 1]
  BY <1>1, <1>2, WithoutOne
<1>4. QED
  BY <1>2, <1>3

\* A record stands where one stood before.
LEMMA RelabelsAt ==
    ASSUME Relabels(db, db'), NEW j, NEW k \in Keys, NEW i
    PROVE  At(db', j, k, i) <=> At(db, j, k, i)
BY DEF Relabels, At, IsJob

\* A quiet step changes nothing that Unique speaks of.
LEMMA QuietStep ==
    ASSUME Unique, Quiet
    PROVE  Unique'
<1>1. \A j, i : \A k \in Keys : At(db', j, k, i) <=> At(db, j, k, i)
  BY RelabelsAt DEF Quiet
<1>2. \A k \in Keys : Len(db'[k]) = Len(db[k])
  BY DEF Quiet, Relabels
<1>3. \A j : Absent(db', j) <=> Absent(db, j)
  BY <1>1, <1>2 DEF Absent, Listed
<1>4. \A j : AtMostOne(db, j) => AtMostOne(db', j)
  BY <1>1, <1>2 DEF AtMostOne
<1>5. \A j : \A h \in Handlers : InTransit(j, h)' => InTransit(j, h)
  BY DEF Quiet, InTransit
<1>6. ExclusiveClaim'
  BY <1>3, <1>4, <1>5 DEF Unique, ExclusiveClaim
<1>7. Fresh'
  BY <1>3, <1>5 DEF Unique, Fresh, Quiet
<1>8. JobsOnly'
  <2>1. db'[MainQ] = db[MainQ]
    BY KeysDiffer DEF Quiet, Relabels, Keys, MainQ, PluginQ
  <2>2. QED
    BY <2>1 DEF Quiet, Unique, JobsOnly
<1>9. QED
  BY <1>6, <1>7, <1>8 DEF Unique

\* What one handler does with its program counter and its record.
Moves(h) ==
    /\ pc'[h] \notin {"push", "c4"}
    /\ \A g \in Handlers \ {h} : pc'[g] = pc[g] /\ hand'[g] = hand[g]
    /\ UNCHANGED rpc

\* What one handler may do in a quiet step.
LEMMA MovesQuiet ==
    ASSUME LocalOK, NEW h \in Handlers, Moves(h), Relabels(db, db')
    PROVE  Quiet
BY DEF Moves, Quiet

\* Of the steps of Run only three move a record.
LEMMA QuietRun ==
    ASSUME TypeOK, NEW h \in Handlers, Run(h),
           ~RemoveFromMainQueue(h), ~PushClaim(h), ~RecordVM(h)
    PROVE  Quiet /\ Moves(h)
<1> USE DEF Goto, Drop, ToCleanup, receiver, local, RunPcs, CleanupPcs
<1>1. LocalOK /\ ListsOK /\ EventsOK /\ HostsOK
  BY DEF TypeOK
<1>2. ASSUME pc[h] \in HasRecord PROVE hand[h] \in QueueJob
  BY <1>2 DEF TypeOK, ControlOK
<1>3. Relabels(db, db')
  <2>1. CASE UNCHANGED db
    BY <2>1, SameRelabels
  <2>2. CASE RunFindsCompleted(h) \/ ClaimFindsCompleted(h)
    BY <1>1, <2>2, MarkCompletedType DEF RunFindsCompleted, ClaimFindsCompleted, NewRun
  <2>3. CASE RunFindsInProgress(h) \/ ClaimFindsInProgress(h)
    BY <1>1, <2>3, AskAPIType
       DEF RunFindsInProgress, ClaimFindsInProgress, NewRun, KnownRunning
  <2>4. CASE CancelJob(h)
    <3>1. Marked(hand[h], "completed", "cancel") \in QueueJob
      BY <1>2, <2>4, MarkedType DEF CancelJob, Checked, HasRecord, Statuses, Actions
    <3>2. QED
      BY <1>1, <2>4, <3>1, UpdateJobInDBType DEF CancelJob
  <2>5. CASE RetryIsOver(h)
    <3>1. Marked(hand[h], "completed", "finish") \in QueueJob
      BY <1>2, <2>5, MarkedType DEF RetryIsOver, Retried, Checked, HasRecord, Statuses, Actions
    <3>2. QED
      BY <1>1, <2>5, <3>1, UpdateJobInDBType DEF RetryIsOver
  <2>6. CASE Prepare(h) \/ CancelUnrunnable(h) \/ StartRunner(h)
    <3>1. hand[h] \in QueueJob
      BY <1>2, <2>6
         DEF Prepare, CancelUnrunnable, StartRunner, Preparable, Retried, Checked, HasRecord
    <3>2. \A a \in Actions : [hand[h] EXCEPT !.action = a] \in QueueJob
      BY <3>1, FieldTypes
    <3>3. \E a \in Actions : UpdateJobInDB(h, [hand[h] EXCEPT !.action = a])
      BY <2>6 DEF Prepare, CancelUnrunnable, StartRunner, Actions
    <3>4. QED
      BY <1>1, <3>2, <3>3, UpdateJobInDBType
  <2>7. CASE NoRunnerRegistered(h)
    <3>1. HeadJob(h).status \in Statuses
      BY <1>1, <2>7, KeysDiffer, Elements DEF NoRunnerRegistered, HasHead, HeadJob, Own, QueueJob
    <3>2. QED
      BY <1>1, <2>7, <3>1, MarkHeadType DEF NoRunnerRegistered, Actions
  <2>8. CASE SixHoursPass(h)
    BY <1>1, <2>8, MarkHeadType DEF SixHoursPass, Statuses, Actions
  <2>9. QED
    BY <2>1, <2>2, <2>3, <2>4, <2>5, <2>6, <2>7, <2>8
       DEF Run, LoopEnds, RunFindsNothing, Resume, ReadMainQueue, RetryIsRunning, ObtainVM,
           AbandonVM, SeeCompleted, StepFails, SeeStop
<1>4. Moves(h)
  <2> USE <1>1 DEF LocalOK, Moves
  <2>1. CASE LoopEnds(h) BY <2>1 DEF LoopEnds, Exit
  <2>2. CASE RunFindsCompleted(h) BY <2>2 DEF RunFindsCompleted, NewRun
  <2>3. CASE RunFindsInProgress(h) BY <2>3 DEF RunFindsInProgress, NewRun
  <2>4. CASE RunFindsNothing(h) BY <2>4 DEF RunFindsNothing, NewRun
  <2>5. CASE Resume(h) BY <2>5 DEF Resume
  <2>6. CASE ReadMainQueue(h) BY <2>6 DEF ReadMainQueue
  <2>7. CASE ClaimFindsCompleted(h) BY <2>7 DEF ClaimFindsCompleted
  <2>8. CASE ClaimFindsInProgress(h) BY <2>8 DEF ClaimFindsInProgress
  <2>9. CASE CancelJob(h) BY <2>9 DEF CancelJob
  <2>10. CASE CancelUnrunnable(h) BY <2>10 DEF CancelUnrunnable
  <2>11. CASE RetryIsOver(h) BY <2>11 DEF RetryIsOver
  <2>12. CASE RetryIsRunning(h) BY <2>12 DEF RetryIsRunning
  <2>13. CASE Prepare(h) BY <2>13 DEF Prepare
  <2>14. CASE ObtainVM(h) BY <2>14 DEF ObtainVM
  <2>15. CASE AbandonVM(h) BY <2>15 DEF AbandonVM
  <2>16. CASE StartRunner(h) BY <2>16 DEF StartRunner
  <2>17. CASE SeeCompleted(h) BY <2>17 DEF SeeCompleted
  <2>18. CASE StepFails(h) BY <2>18 DEF StepFails
  <2>19. CASE NoRunnerRegistered(h) BY <2>19 DEF NoRunnerRegistered
  <2>20. CASE SixHoursPass(h) BY <2>20 DEF SixHoursPass
  <2>21. CASE SeeStop(h) BY <2>21 DEF SeeStop
  <2>22. QED
    BY <2>1, <2>2, <2>3, <2>4, <2>5, <2>6, <2>7, <2>8, <2>9, <2>10, <2>11, <2>12, <2>13,
       <2>14, <2>15, <2>16, <2>17, <2>18, <2>19, <2>20, <2>21 DEF Run
<1>5. QED
  BY <1>1, <1>3, <1>4, MovesQuiet

\* A checker only relabels the head of its list.
LEMMA QuietChecker ==
    ASSUME TypeOK, NEW h \in Handlers, Checker(h)
    PROVE  Quiet
<1>1. ListsOK /\ EventsOK /\ HostsOK
  BY DEF TypeOK
<1>2. Relabels(db, db')
  <2>1. CASE UNCHANGED db
    BY <2>1, SameRelabels
  <2>2. CASE CheckCompleted(h)
    BY <1>1, <2>2, MarkCompletedType DEF CheckCompleted
  <2>3. CASE CheckInProgress(h)
    BY <1>1, <2>3, MarkHeadType DEF CheckInProgress, KnownRunning, Statuses, Actions
  <2>4. QED
    BY <2>1, <2>2, <2>3 DEF Checker, CheckInterrupted, CheckStop
<1>3. UNCHANGED <<pc, hand, rpc>>
  BY DEF Checker, CheckCompleted, CheckInterrupted, CheckInProgress, CheckStop, local, receiver
<1>4. QED
  BY <1>2, <1>3 DEF Quiet

\* A fault moves no record, though it may drop the one a handler has in hand.
LEMMA QuietProcess ==
    ASSUME TypeOK, NEW h \in Handlers, Trouble(h) \/ Restart(h)
    PROVE  Quiet
<1> USE DEF Goto, Drop, ToCleanup, receiver, local, Moves
<1>1. LocalOK /\ Relabels(db, db')
  BY SameRelabels DEF TypeOK, Trouble, Restart, NoCapacity, NoTemplateOnHost, CleanupFails,
                      Signal, Crash
<1>2. CASE Signal(h) BY <1>1, <1>2 DEF Signal, Quiet
<1>3. CASE NoCapacity(h) BY <1>1, <1>3, MovesQuiet DEF NoCapacity, LocalOK
<1>4. CASE NoTemplateOnHost(h) BY <1>1, <1>4, MovesQuiet DEF NoTemplateOnHost, LocalOK
<1>5. CASE CleanupFails(h) BY <1>1, <1>5, MovesQuiet DEF CleanupFails, EndCleanup, LocalOK
<1>6. CASE Crash(h) BY <1>1, <1>6, MovesQuiet DEF Crash, Exit, LocalOK
<1>7. CASE Restart(h) BY <1>1, <1>7, MovesQuiet DEF Restart, LocalOK
<1>8. QED
  BY <1>2, <1>3, <1>4, <1>5, <1>6, <1>7 DEF Trouble

\* The receiver and GitHub, but for the push of a new job.
LEMMA QuietReceiver ==
    ASSUME TypeOK,
           \/ \E d \in Deliveries : ReceiveQueued(d) \/ ListHandlerKeys(d) \/ ScanHandlerKey(d)
           \/ \E j \in Jobs : ReceiveEvent(j) \/ JobStarts(j) \/ JobCompletes(j)
           \/ ReceiverRestart
    PROVE  Quiet
<1> USE DEF receiver, local
<1>1. UNCHANGED <<db, pc, hand>>
  BY DEF ReceiveQueued, ListHandlerKeys, ScanHandlerKey, ReceiveEvent, ReceiveInProgress,
         ReceiveCompleted, JobStarts, JobCompletes, ReceiverRestart
<1>2. \A d \in Deliveries : rpc'[d] # "done" => rpc[d] # "done"
  <2>1. CASE UNCHANGED rpc
    BY <2>1
  <2>2. ASSUME NEW d \in Deliveries,
               ReceiveQueued(d) \/ ListHandlerKeys(d) \/ ScanHandlerKey(d)
        PROVE  \A e \in Deliveries : rpc'[e] # "done" => rpc[e] # "done"
    <3>1. rpc[d] # "done"
      BY <2>2 DEF ReceiveQueued, ListHandlerKeys, ScanHandlerKey
    <3>2. UNCHANGED rpc \/ \E x : rpc' = [rpc EXCEPT ![d] = x]
      BY <2>2 DEF ReceiveQueued, ListHandlerKeys, ScanHandlerKey
    <3>3. rpc \in [Deliveries -> {"pending", "keys", "scan", "done"}]
      BY DEF TypeOK, ReceiverOK
    <3>4. QED
      BY <3>1, <3>2, <3>3
  <2>3. QED
    BY <2>1, <2>2 DEF ReceiveEvent, ReceiveInProgress, ReceiveCompleted, JobStarts,
                      JobCompletes, ReceiverRestart
<1>3. QED
  BY <1>1, <1>2, SameRelabels DEF Quiet

\* The steps of cleanup that move no record.
LEMMA QuietCleanup ==
    ASSUME TypeOK, NEW h \in Handlers,
           \/ SkipCleanup(h) \/ BeginCleanup(h) \/ NoRecord(h) \/ DeleteVM(h)
           \/ NextRecord(h) /\ Cleaning(h) # <<>>
    PROVE  Quiet
<1> USE DEF Goto, receiver, local, EndCleanup
<1>1. LocalOK /\ Relabels(db, db')
  BY SameRelabels DEF TypeOK, SkipCleanup, BeginCleanup, NoRecord, DeleteVM, NextRecord
<1>2. Moves(h)
  BY <1>1 DEF Moves, LocalOK, SkipCleanup, BeginCleanup, NoRecord, DeleteVM, NextRecord
<1>3. QED
  BY <1>1, <1>2, MovesQuiet

-----------------------------------------------------------------------------
(* The steps that move a record.                                            *)

\* What db' has of a job, db had in the same place.
Fewer == \A j : \A k \in Keys : \A i \in 1..Len(db'[k]) : At(db', j, k, i) => At(db, j, k, i)

\* Records that are deleted, or taken out of a place, are missed by nobody.
LEMMA FewerStep ==
    ASSUME Unique, Fewer, db'[MainQ] = db[MainQ], UNCHANGED rpc,
           \A k \in Keys : Len(db'[k]) <= Len(db[k]),
           \A k \in Keys : Len(db[k]) \in Nat /\ Len(db'[k]) \in Nat,
           \A h \in Handlers :
              pc'[h] \in {"push", "c4"} => pc'[h] = pc[h] /\ hand'[h] = hand[h]
    PROVE  Unique'
<1>1. \A j : \A k \in Keys : Listed(db', j, k) => Listed(db, j, k)
  BY DEF Fewer, Listed, At
<1>2. \A j : Absent(db, j) => Absent(db', j)
  BY <1>1 DEF Absent
<1>3. ASSUME NEW j, AtMostOne(db, j) PROVE AtMostOne(db', j)
  <2> SUFFICES ASSUME NEW k1 \in Keys, NEW k2 \in Keys,
                      NEW i1 \in 1..Len(db'[k1]), NEW i2 \in 1..Len(db'[k2]),
                      At(db', j, k1, i1), At(db', j, k2, i2)
               PROVE  k1 = k2 /\ i1 = i2
    BY DEF AtMostOne
  <2>1. At(db, j, k1, i1) /\ At(db, j, k2, i2)
    BY DEF Fewer
  <2>2. QED
    BY <1>3, <2>1 DEF AtMostOne, At
<1>4. \A j : \A h \in Handlers : InTransit(j, h)' => InTransit(j, h)
  BY DEF InTransit
<1>5. ExclusiveClaim'
  BY <1>2, <1>3, <1>4 DEF Unique, ExclusiveClaim
<1>6. Fresh'
  BY <1>2, <1>4 DEF Unique, Fresh
<1>7. JobsOnly'
  BY DEF Unique, JobsOnly
<1>8. QED
  BY <1>5, <1>6, <1>7 DEF Unique

\* DEL of the cleaning list.
LEMMA DeleteStep ==
    ASSUME TypeOK, Unique, NEW h \in Handlers, db' = Del(db, CleaningQ(h)),
           UNCHANGED rpc, \A g \in Handlers : pc'[g] \in {"push", "c4"} =>
                                                 pc'[g] = pc[g] /\ hand'[g] = hand[g]
    PROVE  Unique'
<1>1. CleaningQ(h) \in Keys /\ MainQ \in Keys /\ CleaningQ(h) # MainQ /\ ListsOK
  BY KeysDiffer DEF TypeOK
<1>2. /\ db' \in Databases(Keys, QueueJob)
      /\ db'[CleaningQ(h)] = <<>>
      /\ \A k \in Keys \ {CleaningQ(h)} : db'[k] = db[k]
  BY <1>1, DelFact, Elements DEF SameBut
<1>3. \A k \in Keys : db[k] \in Seq(QueueJob) /\ db'[k] \in Seq(QueueJob)
  BY <1>1, <1>2 DEF ListsOK, Databases
<1>4. Fewer
  BY <1>2 DEF Fewer, At
<1>5. \A k \in Keys : Len(db'[k]) <= Len(db[k]) /\ Len(db[k]) \in Nat /\ Len(db'[k]) \in Nat
  BY <1>2, <1>3
<1>6. QED
  BY <1>1, <1>2, <1>4, <1>5, FewerStep

\* A handler takes the record of a job: it is in its hand now, in no list.
LEMMA TakeStep ==
    ASSUME TypeOK, Unique, NEW h \in Handlers, NEW k0 \in Keys, NEW i0 \in 1..Len(db[k0]),
           IsJob(db[k0][i0]), IsJob(hand'[h]), hand'[h].id = db[k0][i0].id,
           pc'[h] \in {"push", "c4"}, UNCHANGED rpc,
           \A g \in Handlers \ {h} : pc'[g] = pc[g] /\ hand'[g] = hand[g],
           \A k \in Keys \ {k0} : db'[k] = db[k],
           Len(db'[k0]) = Len(db[k0]) - 1,
           \A i \in 1..Len(db'[k0]) : db'[k0][i] = db[k0][IF i < i0 THEN i ELSE i + 1]
    PROVE  Unique'
<1> DEFINE From(k, i) == IF k = k0 /\ i >= i0 THEN i + 1 ELSE i
           j0 == db[k0][i0].id
<1>1. \A k \in Keys : db[k] \in Seq(QueueJob) /\ Len(db[k]) \in Nat
  BY DEF TypeOK, ListsOK
<1>2. ASSUME NEW j, NEW k \in Keys, NEW i \in 1..Len(db'[k]), At(db', j, k, i)
      PROVE  /\ At(db, j, k, From(k, i))
             /\ From(k, i) \in 1..Len(db[k])
             /\ <<k, From(k, i)>> # <<k0, i0>>
  <2>1. CASE k = k0
    BY <1>1, <1>2, <2>1 DEF At
  <2>2. CASE k # k0
    BY <1>1, <1>2, <2>2 DEF At
  <2>3. QED
    BY <2>1, <2>2
<1>3. \A j : Absent(db, j) => Absent(db', j)
  BY <1>2 DEF Absent, Listed
<1>4. At(db, j0, k0, i0) /\ j0 \in Jobs /\ ~Absent(db, j0)
  <2>1. db[k0][i0] \in QueueJob
    BY <1>1
  <2>2. QED
    BY <2>1 DEF At, Absent, Listed, QueueJob
<1>5. Absent(db', j0)
  BY <1>2, <1>4 DEF Unique, ExclusiveClaim, AtMostOne, Absent, Listed
<1>6. ASSUME NEW j \in Jobs PROVE AtMostOne(db', j)
  <2> SUFFICES ASSUME NEW k1 \in Keys, NEW k2 \in Keys,
                      NEW i1 \in 1..Len(db'[k1]), NEW i2 \in 1..Len(db'[k2]),
                      At(db', j, k1, i1), At(db', j, k2, i2)
               PROVE  k1 = k2 /\ i1 = i2
    BY DEF AtMostOne
  <2>1. k1 = k2 /\ From(k1, i1) = From(k2, i2)
    BY <1>2, <1>6 DEF Unique, ExclusiveClaim, AtMostOne
  <2>2. QED
    BY <2>1
<1>7. \A g \in Handlers \ {h} : \A j : InTransit(j, g)' <=> InTransit(j, g)
  BY DEF InTransit
<1>8. \A j : InTransit(j, h)' <=> j = j0
  BY DEF InTransit
<1>9. ExclusiveClaim'
  BY <1>3, <1>4, <1>5, <1>6, <1>7, <1>8 DEF Unique, ExclusiveClaim
<1>10. Fresh'
  BY <1>3, <1>4, <1>7, <1>8 DEF Unique, Fresh
<1>11. JobsOnly'
  <2>1. \A i \in 1..Len(db'[MainQ]) : IsJob(db'[MainQ][i])
    <3>1. CASE k0 = MainQ
      BY <1>1, <3>1 DEF Unique, JobsOnly
    <3>2. CASE k0 # MainQ
      BY <3>2 DEF Unique, JobsOnly, Keys
    <3>3. QED
      BY <3>1, <3>2
  <2>2. QED
    BY <2>1 DEF Unique, JobsOnly
<1>12. QED
  BY <1>9, <1>10, <1>11 DEF Unique

\* A record is put into a list: a new one, one that a handler had in hand, or a
\* VM's record.
LEMMA PlaceStep ==
    ASSUME TypeOK, Unique, NEW k0 \in Keys, NEW n0 \in 1..(Len(db[k0]) + 1), NEW e \in QueueJob,
           IsJob(e) => Absent(db, e.id) /\ \A g \in Handlers : ~InTransit(e.id, g)',
           k0 = MainQ => IsJob(e),
           \A k \in Keys \ {k0} : db'[k] = db[k],
           Len(db'[k0]) = Len(db[k0]) + 1,
           \A i \in 1..Len(db'[k0]) :
              db'[k0][i] = IF i = n0 THEN e ELSE db[k0][IF i < n0 THEN i ELSE i - 1],
           \A g \in Handlers :
              pc'[g] \in {"push", "c4"} => pc'[g] = pc[g] /\ hand'[g] = hand[g],
           \A d \in Deliveries :
              rpc'[d] # "done" => rpc[d] # "done" /\ (IsJob(e) => JobOf[d] # e.id)
    PROVE  Unique'
<1> DEFINE From(k, i) == IF k = k0 /\ i > n0 THEN i - 1 ELSE i
<1>1. \A k \in Keys : db[k] \in Seq(QueueJob) /\ Len(db[k]) \in Nat
  BY DEF TypeOK, ListsOK
<1>2. ASSUME NEW j, NEW k \in Keys, NEW i \in 1..Len(db'[k]), At(db', j, k, i)
      PROVE  \/ k = k0 /\ i = n0 /\ IsJob(e) /\ j = e.id
             \/ /\ At(db, j, k, From(k, i))
                /\ From(k, i) \in 1..Len(db[k])
                /\ k = k0 => i # n0
  <2>1. CASE k = k0
    BY <1>1, <1>2, <2>1 DEF At
  <2>2. CASE k # k0
    BY <1>1, <1>2, <2>2 DEF At
  <2>3. QED
    BY <2>1, <2>2
<1>3. \A j : Absent(db, j) /\ (IsJob(e) => j # e.id) => Absent(db', j)
  BY <1>2 DEF Absent, Listed
<1>4. ASSUME NEW j \in Jobs PROVE AtMostOne(db', j)
  <2> SUFFICES ASSUME NEW k1 \in Keys, NEW k2 \in Keys,
                      NEW i1 \in 1..Len(db'[k1]), NEW i2 \in 1..Len(db'[k2]),
                      At(db', j, k1, i1), At(db', j, k2, i2)
               PROVE  k1 = k2 /\ i1 = i2
    BY DEF AtMostOne
  <2>1. CASE IsJob(e) /\ j = e.id
    <3>1. \A k \in Keys : \A i \in 1..Len(db[k]) : ~At(db, j, k, i)
      BY <2>1 DEF Absent, Listed
    <3>2. QED
      BY <1>2, <3>1
  <2>2. CASE ~(IsJob(e) /\ j = e.id)
    <3>1. /\ At(db, j, k1, From(k1, i1)) /\ From(k1, i1) \in 1..Len(db[k1])
          /\ At(db, j, k2, From(k2, i2)) /\ From(k2, i2) \in 1..Len(db[k2])
          /\ (k1 = k0 => i1 # n0) /\ (k2 = k0 => i2 # n0)
      BY <1>2, <2>2
    <3>2. k1 = k2 /\ From(k1, i1) = From(k2, i2)
      BY <3>1 DEF Unique, ExclusiveClaim, AtMostOne
    <3>3. QED
      BY <3>1, <3>2
  <2>3. QED
    BY <2>1, <2>2
<1>5. \A j : \A g \in Handlers : InTransit(j, g)' => InTransit(j, g)
  BY DEF InTransit
<1>6. ExclusiveClaim'
  BY <1>3, <1>4, <1>5 DEF Unique, ExclusiveClaim
<1>7. Fresh'
  BY <1>3, <1>5 DEF Unique, Fresh
<1>8. JobsOnly'
  <2>1. \A i \in 1..Len(db'[MainQ]) : IsJob(db'[MainQ][i])
    <3>1. ASSUME k0 = MainQ, NEW i \in 1..Len(db'[MainQ]) PROVE IsJob(db'[MainQ][i])
      <4>1. CASE i = n0
        BY <3>1, <4>1
      <4>2. CASE i # n0
        <5>1. (IF i < n0 THEN i ELSE i - 1) \in 1..Len(db[MainQ])
          BY <1>1, <3>1, <4>2
        <5>2. QED
          BY <3>1, <4>2, <5>1 DEF Unique, JobsOnly
      <4>3. QED
        BY <4>1, <4>2
    <3>2. CASE k0 # MainQ
      BY <3>2 DEF Unique, JobsOnly, Keys
    <3>3. QED
      BY <3>1, <3>2
  <2>2. QED
    BY <2>1 DEF Unique, JobsOnly
<1>9. QED
  BY <1>6, <1>7, <1>8 DEF Unique

\* RPOPLPUSH between two lists of a handler.
LEMMA MoveStep ==
    ASSUME TypeOK, Unique, NEW src \in Keys \ {MainQ}, NEW dst \in Keys \ {MainQ}, src # dst,
           db[src] # <<>>, db'[src] = SubSeq(db[src], 1, Len(db[src]) - 1),
           db'[dst] = <<db[src][Len(db[src])]>> \o db[dst],
           \A k \in Keys \ {src, dst} : db'[k] = db[k], UNCHANGED rpc,
           \A g \in Handlers :
              pc'[g] \in {"push", "c4"} => pc'[g] = pc[g] /\ hand'[g] = hand[g]
    PROVE  Unique'
<1> DEFINE Key(k, i) == IF k = dst /\ i = 1 THEN src ELSE k
           Pos(k, i) == IF k = dst THEN IF i = 1 THEN Len(db[src]) ELSE i - 1 ELSE i
<1>1. \A k \in Keys : db[k] \in Seq(QueueJob) /\ Len(db[k]) \in Nat
  BY DEF TypeOK, ListsOK
<1>2. ASSUME NEW j, NEW k \in Keys, NEW i \in 1..Len(db'[k]), At(db', j, k, i)
      PROVE  /\ Key(k, i) \in Keys /\ Pos(k, i) \in 1..Len(db[Key(k, i)])
             /\ At(db, j, Key(k, i), Pos(k, i))
             /\ k = src => i < Len(db[src])
             /\ i >= 1
  <2>1. CASE k = src
    <3>1. i \in 1..(Len(db[src]) - 1) /\ db'[src][i] = db[src][i]
      BY <1>1, <2>1
    <3>2. Key(k, i) = src /\ Pos(k, i) = i
      BY <2>1
    <3>3. QED
      BY <1>1, <1>2, <2>1, <3>1, <3>2 DEF At
  <2>2. CASE k = dst /\ i = 1
    <3>1. db'[dst][1] = db[src][Len(db[src])] /\ Len(db[src]) \in 1..Len(db[src])
      BY <1>1
    <3>2. Key(k, i) = src /\ Pos(k, i) = Len(db[src])
      BY <2>2
    <3>3. QED
      BY <1>2, <2>2, <3>1, <3>2 DEF At
  <2>3. CASE k = dst /\ i # 1
    <3>1. i - 1 \in 1..Len(db[dst]) /\ db'[dst][i] = db[dst][i - 1]
      BY <1>1, <2>3
    <3>2. Key(k, i) = dst /\ Pos(k, i) = i - 1
      BY <2>3
    <3>3. QED
      BY <1>2, <2>3, <3>1, <3>2 DEF At
  <2>4. CASE k \notin {src, dst}
    BY <1>1, <1>2, <2>4 DEF At
  <2>5. QED
    BY <2>1, <2>2, <2>3, <2>4
<1>3. \A j : Absent(db, j) => Absent(db', j)
  BY <1>2 DEF Absent, Listed
<1>4. ASSUME NEW j \in Jobs PROVE AtMostOne(db', j)
  <2> SUFFICES ASSUME NEW k1 \in Keys, NEW k2 \in Keys,
                      NEW i1 \in 1..Len(db'[k1]), NEW i2 \in 1..Len(db'[k2]),
                      At(db', j, k1, i1), At(db', j, k2, i2)
               PROVE  k1 = k2 /\ i1 = i2
    BY DEF AtMostOne
  <2>1. /\ Key(k1, i1) \in Keys /\ Pos(k1, i1) \in 1..Len(db[Key(k1, i1)])
        /\ Key(k2, i2) \in Keys /\ Pos(k2, i2) \in 1..Len(db[Key(k2, i2)])
        /\ At(db, j, Key(k1, i1), Pos(k1, i1)) /\ At(db, j, Key(k2, i2), Pos(k2, i2))
        /\ (k1 = src => i1 < Len(db[src])) /\ (k2 = src => i2 < Len(db[src]))
    BY <1>2
  <2>2. Key(k1, i1) = Key(k2, i2) /\ Pos(k1, i1) = Pos(k2, i2)
    <3> HIDE DEF Key, Pos
    <3>1. QED
      BY <2>1 DEF Unique, ExclusiveClaim, AtMostOne
  <2>3. QED
    BY <2>1, <2>2
<1>5. \A j : \A g \in Handlers : InTransit(j, g)' => InTransit(j, g)
  BY DEF InTransit
<1>6. ExclusiveClaim'
  BY <1>3, <1>4, <1>5 DEF Unique, ExclusiveClaim
<1>7. Fresh'
  BY <1>3, <1>5 DEF Unique, Fresh
<1>8. JobsOnly'
  BY DEF Unique, JobsOnly, Keys
<1>9. QED
  BY <1>6, <1>7, <1>8 DEF Unique

-----------------------------------------------------------------------------
(* The actions.                                                             *)

\* A claim: the record leaves the main queue, unless somebody was faster.
LEMMA UniqueRemove ==
    ASSUME TypeOK, Unique, NEW h \in Handlers, RemoveFromMainQueue(h)
    PROVE  Unique'
<1> USE DEF Goto, Drop, receiver, local
<1>1. ListsOK /\ LocalOK /\ MainQ \in Keys /\ db[MainQ] \in Seq(QueueJob)
  BY KeysDiffer DEF TypeOK, ListsOK
<1>2. CASE UNCHANGED db
  <2>1. pc' = [pc EXCEPT ![h] = "c0"]
    BY <1>1, <1>2, LRemResult DEF RemoveFromMainQueue, FirstAt
  <2>2. Moves(h)
    BY <1>1, <2>1 DEF RemoveFromMainQueue, Moves, LocalOK
  <2>3. QED
    BY <1>1, <1>2, <2>2, SameRelabels, MovesQuiet, QuietStep
<1>3. ASSUME NEW i \in 1..Len(db[MainQ]), db[MainQ][i] = hand[h], db' = LRemAt(db, MainQ, i),
             pc' = [pc EXCEPT ![h] = "push"], UNCHANGED hand
      PROVE  Unique'
  <2>1. \A k \in Keys \ {MainQ} : db'[k] = db[k]
    BY <1>1, <1>3, LRemResult
  <2>2. /\ Len(db'[MainQ]) = Len(db[MainQ]) - 1
        /\ \A n \in 1..Len(db'[MainQ]) : db'[MainQ][n] = db[MainQ][IF n < i THEN n ELSE n + 1]
    BY <1>1, <1>3, LRemResult
  <2>3. IsJob(db[MainQ][i])
    BY DEF Unique, JobsOnly
  <2>4. /\ pc'[h] = "push" /\ hand'[h] = db[MainQ][i] /\ UNCHANGED rpc
        /\ \A g \in Handlers \ {h} : pc'[g] = pc[g] /\ hand'[g] = hand[g]
    BY <1>1, <1>3 DEF RemoveFromMainQueue, LocalOK
  <2>5. QED
    BY <1>1, <2>1, <2>2, <2>3, <2>4, TakeStep
<1>4. QED
  BY <1>2, <1>3 DEF RemoveFromMainQueue, FirstAt

\* What a handler pushes to its own list: the job it claimed, or a VM's record.
LEMMA UniquePush ==
    ASSUME TypeOK, Unique, NEW h \in Handlers, PushClaim(h) \/ RecordVM(h)
    PROVE  Unique'
<1> USE DEF Goto, receiver, local
<1>1. /\ ListsOK /\ LocalOK /\ PluginQ(h) \in Keys /\ PluginQ(h) # MainQ
      /\ db[PluginQ(h)] \in Seq(QueueJob)
  BY KeysDiffer DEF TypeOK, ListsOK
<1>2. hand[h] \in QueueJob
  BY DEF TypeOK, ControlOK, HasRecord, PushClaim, RecordVM
<1>3. PICK e \in QueueJob : /\ db' = RPush(db, PluginQ(h), e)
                            /\ IsJob(e) => pc[h] = "push" /\ hand[h] = e
  BY <1>2, VMRecordType DEF PushClaim, RecordVM, IsVM, IsJob
<1>4. /\ db'[PluginQ(h)] = Append(db[PluginQ(h)], e)
      /\ \A k \in Keys \ {PluginQ(h)} : db'[k] = db[k]
  BY <1>1, <1>3, Elements, RPushFact DEF SameBut
<1>5. /\ Len(db'[PluginQ(h)]) = Len(db[PluginQ(h)]) + 1
      /\ Len(db[PluginQ(h)]) + 1 \in 1..(Len(db[PluginQ(h)]) + 1)
      /\ \A i \in 1..Len(db'[PluginQ(h)]) :
            db'[PluginQ(h)][i] = IF i = Len(db[PluginQ(h)]) + 1 THEN e
                                 ELSE db[PluginQ(h)][IF i < Len(db[PluginQ(h)]) + 1
                                                     THEN i ELSE i - 1]
  BY <1>1, <1>4
<1>6. /\ pc'[h] \in {"claimed", "boot"} /\ UNCHANGED <<hand, rpc>>
      /\ \A g \in Handlers \ {h} : pc'[g] = pc[g]
  BY <1>1 DEF PushClaim, RecordVM, LocalOK
<1>7. \A g \in Handlers : pc'[g] \in {"push", "c4"} => pc'[g] = pc[g] /\ hand'[g] = hand[g]
  BY <1>6
<1>8. ASSUME IsJob(e)
      PROVE  /\ Absent(db, e.id)
             /\ \A g \in Handlers : ~InTransit(e.id, g)'
             /\ \A d \in Deliveries : rpc[d] # "done" => JobOf[d] # e.id
  <2>1. InTransit(e.id, h) /\ e.id \in Jobs
    BY <1>3, <1>8 DEF InTransit, QueueJob
  <2>2. Absent(db, e.id) /\ \A g \in Handlers : InTransit(e.id, g) => g = h
    BY <2>1 DEF Unique, ExclusiveClaim
  <2>3. \A g \in Handlers : InTransit(e.id, g)' => InTransit(e.id, g) /\ g # h
    BY <1>6 DEF InTransit
  <2>4. QED
    BY <2>1, <2>2, <2>3 DEF Unique, Fresh
<1> DEFINE k0 == PluginQ(h)
           n0 == Len(db[PluginQ(h)]) + 1
<1>9. \A d \in Deliveries : rpc'[d] # "done" => rpc[d] # "done" /\ (IsJob(e) => JobOf[d] # e.id)
  BY <1>6, <1>8
<1>10. /\ k0 \in Keys /\ n0 \in 1..(Len(db[k0]) + 1) /\ k0 # MainQ
       /\ \A k \in Keys \ {k0} : db'[k] = db[k]
       /\ Len(db'[k0]) = Len(db[k0]) + 1
       /\ \A i \in 1..Len(db'[k0]) :
             db'[k0][i] = IF i = n0 THEN e ELSE db[k0][IF i < n0 THEN i ELSE i - 1]
  BY <1>1, <1>4, <1>5
<1> HIDE DEF k0, n0
<1>11. QED
  BY <1>7, <1>8, <1>9, <1>10, PlaceStep

\* cleanup takes its next record: RPOPLPUSH from the handler's own list.
LEMMA UniqueNextRecord ==
    ASSUME TypeOK, Unique, NEW h \in Handlers, NextRecord(h), Cleaning(h) = <<>>
    PROVE  Unique'
<1>1. /\ ListsOK /\ LocalOK
      /\ PluginQ(h) \in Keys \ {MainQ} /\ CleaningQ(h) \in Keys \ {MainQ}
      /\ PluginQ(h) # CleaningQ(h)
  BY KeysDiffer DEF TypeOK
<1>2. db[PluginQ(h)] # <<>> /\ db' = RPopLPush(db, PluginQ(h), CleaningQ(h))
  BY DEF NextRecord, HasHead, Own
<1>3. \A g \in Handlers : pc'[g] \in {"push", "c4"} => pc'[g] = pc[g] /\ hand'[g] = hand[g]
  BY <1>1 DEF NextRecord, Goto, LocalOK
<1>4. UNCHANGED rpc
  BY DEF NextRecord, receiver
<1> DEFINE src == PluginQ(h)
           dst == CleaningQ(h)
<1>5. /\ db'[src] = SubSeq(db[src], 1, Len(db[src]) - 1)
      /\ db'[dst] = <<db[src][Len(db[src])]>> \o db[dst]
      /\ \A k \in Keys \ {src, dst} : db'[k] = db[k]
  BY <1>1, <1>2, MoveType
<1>6. src \in Keys \ {MainQ} /\ dst \in Keys \ {MainQ} /\ src # dst /\ db[src] # <<>>
  BY <1>1, <1>2
<1> HIDE DEF src, dst
<1>7. QED
  BY <1>3, <1>4, <1>5, <1>6, MoveStep

\* A job without a reason to go back returns to the handler's own list; the
\* DEL that follows finds nothing, as the list had one record.
LEMMA UniquePutBack ==
    ASSUME TypeOK, CleaningSingle, Unique, NEW h \in Handlers, PutBack(h)
    PROVE  Unique'
<1> DEFINE src == CleaningQ(h)
           dst == PluginQ(h)
           E == RPopLPush(db, src, dst)
<1>1. /\ ListsOK /\ LocalOK /\ db[src] \in Seq(QueueJob)
      /\ src \in Keys \ {MainQ} /\ dst \in Keys \ {MainQ} /\ src # dst
  BY KeysDiffer DEF TypeOK, ListsOK
<1>2. db[src] # <<>> /\ Len(db[src]) = 1
  <2>1. Cleaning(h) # <<>> /\ Len(Cleaning(h)) <= 1
    BY DEF TypeOK, ControlOK, PutBack, CleanJob, CleaningSingle
  <2>2. db[src] = Cleaning(h)
    BY DEF Cleaning
  <2> HIDE DEF src, dst, E
  <2>3. QED
    BY <1>1, <2>1, <2>2, OneElement, Zenon
<1>3. /\ E \in Databases(Keys, QueueJob)
      /\ E[src] = SubSeq(db[src], 1, Len(db[src]) - 1)
      /\ E[dst] = <<db[src][Len(db[src])]>> \o db[dst]
      /\ \A k \in Keys \ {src, dst} : E[k] = db[k]
  BY <1>1, <1>2, MoveType
<1>4. db' = Del(E, src)
  BY DEF PutBack
<1>5. \A g \in Handlers : pc'[g] \in {"push", "c4"} => pc'[g] = pc[g] /\ hand'[g] = hand[g]
  BY <1>1 DEF PutBack, EndCleanup, Goto, LocalOK
<1>6. UNCHANGED rpc
  BY DEF PutBack, CleanJob, receiver
<1> HIDE DEF E, src, dst
<1>7. db'[src] = <<>> /\ SameBut(E, db', Keys, src)
  BY <1>1, <1>3, <1>4, DelFact
<1>8. /\ db'[src] = SubSeq(db[src], 1, Len(db[src]) - 1)
      /\ db'[dst] = <<db[src][Len(db[src])]>> \o db[dst]
      /\ \A k \in Keys \ {src, dst} : db'[k] = db[k]
  BY <1>1, <1>2, <1>3, <1>7 DEF SameBut
<1>9. QED
  BY <1>1, <1>2, <1>5, <1>6, <1>8, MoveStep

\* A job that is to go back is popped from the cleaning list.
LEMMA UniqueTakeForReturn ==
    ASSUME TypeOK, CleaningSingle, Unique, NEW h \in Handlers, TakeForReturn(h)
    PROVE  Unique'
<1> DEFINE k0 == CleaningQ(h)
           e == db[k0][1]
<1>1. ListsOK /\ LocalOK /\ k0 \in Keys /\ db[k0] \in Seq(QueueJob)
  BY KeysDiffer DEF TypeOK, ListsOK
<1>2. Len(db[k0]) = 1 /\ 1 \in 1..Len(db[k0]) /\ e \in QueueJob /\ IsJob(e)
  <2>1. Cleaning(h) # <<>> /\ Len(Cleaning(h)) <= 1 /\ IsJob(Head(Cleaning(h)))
    BY DEF TypeOK, ControlOK, TakeForReturn, CleanJob, CleaningSingle, Subject
  <2>2. db[k0] = Cleaning(h)
    BY DEF Cleaning
  <2> HIDE DEF k0
  <2>3. Len(db[k0]) = 1 /\ 1 \in 1..Len(db[k0]) /\ e \in QueueJob /\ Head(Cleaning(h)) = e
    BY <1>1, <2>1, <2>2, OneElement, Zenon
  <2>4. QED
    BY <2>1, <2>3, Zenon
<1>3. e.attempts \in Nat /\ e.attempts + 1 \in Nat
  BY <1>2 DEF QueueJob
<1>4. PICK n \in Nat : hand' = [hand EXCEPT ![h] = Requeued(e, n)]
  BY <1>2, <1>3 DEF TakeForReturn, Cleaning
<1>5. hand'[h] = Requeued(e, n) /\ \A g \in Handlers \ {h} : hand'[g] = hand[g]
  BY <1>1, <1>4 DEF LocalOK
<1>6. IsJob(hand'[h]) /\ hand'[h].id = e.id
  BY <1>2, <1>5, RequeuedType DEF IsJob
<1>7. pc'[h] = "c4" /\ UNCHANGED rpc /\ \A g \in Handlers \ {h} : pc'[g] = pc[g]
  BY <1>1 DEF TakeForReturn, CleanJob, Goto, receiver, LocalOK
<1>8. db' = RPop(db, k0)
  BY DEF TakeForReturn
<1> HIDE DEF k0, e
<1>9. db'[k0] = SubSeq(db[k0], 1, Len(db[k0]) - 1) /\ \A k \in Keys \ {k0} : db'[k] = db[k]
  BY <1>1, <1>8, Elements, RPopFact DEF SameBut
<1>10. /\ Len(db'[k0]) = Len(db[k0]) - 1
       /\ \A i \in 1..Len(db'[k0]) : db'[k0][i] = db[k0][IF i < 1 THEN i ELSE i + 1]
  <2>1. db[k0] \in Seq(QueueJob) /\ Len(db[k0]) = 1
    BY <1>1, <1>2, Elements
  <2>2. Len(db'[k0]) = 0
    BY <1>9, <2>1
  <2>3. QED
    BY <2>1, <2>2
<1>11. /\ 1 \in 1..Len(db[k0]) /\ IsJob(db[k0][1]) /\ IsJob(hand'[h]) /\ hand'[h].id = db[k0][1].id
       /\ pc'[h] \in {"push", "c4"} /\ \A g \in Handlers \ {h} : pc'[g] = pc[g] /\ hand'[g] = hand[g]
  BY <1>2, <1>5, <1>6, <1>7 DEF e
<1>12. QED
  BY <1>1, <1>7, <1>9, <1>10, <1>11, TakeStep

\* The popped job goes to the head of the main queue.
LEMMA UniqueReturn ==
    ASSUME TypeOK, Unique, NEW h \in Handlers, ReturnToMainQueue(h)
    PROVE  Unique'
<1> DEFINE k0 == MainQ
<1>1. ListsOK /\ LocalOK /\ k0 \in Keys /\ db[k0] \in Seq(QueueJob)
  BY KeysDiffer DEF TypeOK, ListsOK
<1>2. PICK e \in QueueJob : e = hand[h] /\ IsJob(e) /\ e.id \in Jobs /\ InTransit(e.id, h)
  BY DEF TypeOK, ControlOK, HasRecord, ReturnToMainQueue, Unique, JobsOnly, InTransit, QueueJob
<1>3. db' = LPush(db, k0, e)
  BY <1>2 DEF ReturnToMainQueue
<1>4. /\ pc'[h] = "c5" /\ UNCHANGED rpc
      /\ \A g \in Handlers \ {h} : pc'[g] = pc[g] /\ hand'[g] = hand[g]
  BY <1>1 DEF ReturnToMainQueue, Goto, Drop, receiver, LocalOK
<1>5. /\ Absent(db, e.id)
      /\ \A g \in Handlers : InTransit(e.id, g) => g = h
      /\ \A d \in Deliveries : rpc[d] # "done" => JobOf[d] # e.id
  BY <1>2 DEF Unique, ExclusiveClaim, Fresh
<1>6. \A g \in Handlers : ~InTransit(e.id, g)'
  BY <1>4, <1>5 DEF InTransit
<1>7. \A g \in Handlers : pc'[g] \in {"push", "c4"} => pc'[g] = pc[g] /\ hand'[g] = hand[g]
  BY <1>4
<1> HIDE DEF k0
<1>8. db'[k0] = <<e>> \o db[k0] /\ \A k \in Keys \ {k0} : db'[k] = db[k]
  BY <1>1, <1>2, <1>3, Elements, LPushFact DEF SameBut
<1>9. /\ Len(db'[k0]) = Len(db[k0]) + 1 /\ 1 \in 1..(Len(db[k0]) + 1)
      /\ \A i \in 1..Len(db'[k0]) :
            db'[k0][i] = IF i = 1 THEN e ELSE db[k0][IF i < 1 THEN i ELSE i - 1]
  BY <1>1, <1>2, <1>8
<1>10. \A d \in Deliveries :
          rpc'[d] # "done" => rpc[d] # "done" /\ (IsJob(e) => JobOf[d] # e.id)
  BY <1>4, <1>5
<1> DEFINE n0 == 1
<1>11. n0 \in 1..(Len(db[k0]) + 1)
  BY <1>9
<1>12. \A i \in 1..Len(db'[k0]) :
          db'[k0][i] = IF i = n0 THEN e ELSE db[k0][IF i < n0 THEN i ELSE i - 1]
  BY <1>9
<1>13. /\ IsJob(e) => Absent(db, e.id) /\ \A g \in Handlers : ~InTransit(e.id, g)'
       /\ k0 = MainQ => IsJob(e)
       /\ Len(db'[k0]) = Len(db[k0]) + 1
       /\ \A k \in Keys \ {k0} : db'[k] = db[k]
  BY <1>2, <1>5, <1>6, <1>8, <1>9
<1> HIDE DEF n0
<1>14. QED
  BY <1>1, <1>7, <1>10, <1>11, <1>12, <1>13, PlaceStep

\* The receiver pushes a job that has no record, and no other delivery that
\* could push it again.
LEMMA UniquePushQueued ==
    ASSUME OneDelivery, TypeOK, Unique, NEW d \in Deliveries, PushQueued(d)
    PROVE  Unique'
<1> DEFINE k0 == MainQ
           n0 == Len(db[k0]) + 1
<1>1. ListsOK /\ ReceiverOK /\ k0 \in Keys /\ db[k0] \in Seq(QueueJob)
  BY DEF TypeOK, ListsOK, Keys
<1>2. PICK e \in QueueJob : e = NewJob(JobOf[d]) /\ IsJob(e) /\ e.id = JobOf[d]
  <2>1. JobOf[d] \in Jobs /\ NewJob(JobOf[d]) \in QueueJob
    BY ConstantsAssumption, NewJobType
  <2>2. IsJob(NewJob(JobOf[d])) /\ NewJob(JobOf[d]).id = JobOf[d]
    BY DEF NewJob, IsJob
  <2>3. QED
    BY <2>1, <2>2, Zenon
<1>3. db' = RPush(db, k0, e)
  BY <1>2 DEF PushQueued
<1>4. UNCHANGED <<pc, hand>>
  BY DEF PushQueued, local
<1>5. Absent(db, e.id) /\ \A g \in Handlers : ~InTransit(e.id, g)'
  BY <1>2, <1>4 DEF PushQueued, Unique, Fresh, InTransit
<1>6. \A c \in Deliveries : rpc'[c] # "done" => rpc[c] # "done" /\ JobOf[c] # e.id
  BY <1>1, <1>2 DEF PushQueued, ReceiverOK, OneDelivery
<1> HIDE DEF k0, n0
<1>7. db'[k0] = Append(db[k0], e) /\ \A k \in Keys \ {k0} : db'[k] = db[k]
  BY <1>1, <1>2, <1>3, Elements, RPushFact DEF SameBut
<1>8. /\ Len(db'[k0]) = Len(db[k0]) + 1 /\ n0 \in 1..(Len(db[k0]) + 1)
      /\ \A i \in 1..Len(db'[k0]) :
            db'[k0][i] = IF i = n0 THEN e ELSE db[k0][IF i < n0 THEN i ELSE i - 1]
  BY <1>1, <1>2, <1>7 DEF n0
<1>9. /\ \A g \in Handlers : pc'[g] \in {"push", "c4"} => pc'[g] = pc[g] /\ hand'[g] = hand[g]
      /\ \A c \in Deliveries :
            rpc'[c] # "done" => rpc[c] # "done" /\ (IsJob(e) => JobOf[c] # e.id)
  BY <1>4, <1>6
<1>10. QED
  BY <1>1, <1>2, <1>5, <1>7, <1>8, <1>9, PlaceStep

\* The other steps of cleanup that touch a list empty the cleaning list.
LEMMA UniqueDelete ==
    ASSUME TypeOK, Unique, NEW h \in Handlers,
           ForgetVM(h) \/ DropCompleted(h) \/ ForgetReturned(h) \/ DropTimedOut(h)
    PROVE  Unique'
<1>1. LocalOK
  BY DEF TypeOK
<1>2. db' = Del(db, CleaningQ(h)) /\ UNCHANGED <<rpc, hand>>
  BY DEF ForgetVM, DropCompleted, ForgetReturned, DropTimedOut, CleanJob, receiver
<1>3. \E l \in {"c1", "start", "pick"} : pc' = [pc EXCEPT ![h] = l]
  BY DEF ForgetVM, DropCompleted, ForgetReturned, DropTimedOut, EndCleanup, Goto
<1>4. \A g \in Handlers : pc'[g] \in {"push", "c4"} => pc'[g] = pc[g] /\ hand'[g] = hand[g]
  BY <1>1, <1>2, <1>3 DEF LocalOK
<1>5. QED
  BY <1>2, <1>4, DeleteStep

-----------------------------------------------------------------------------
\* At first there is no record at all.
LEMMA UniqueInit == Init => Unique
<1> SUFFICES ASSUME Init PROVE Unique
  OBVIOUS
<1>1. \A k \in Keys : Len(db[k]) = 0
  BY DEF Init
<1>2. \A j : \A h \in Handlers : ~InTransit(j, h)
  BY DEF Init, InTransit
<1>3. \A j : Absent(db, j) /\ AtMostOne(db, j)
  BY <1>1 DEF Absent, Listed, AtMostOne, At
<1>4. MainQ \in Keys /\ \A h \in Handlers : pc[h] # "c4"
  BY DEF Init, Keys
<1>5. QED
  BY <1>1, <1>2, <1>3, <1>4 DEF Unique, ExclusiveClaim, Fresh, JobsOnly

\* Unique is inductive, next to TypeOK and CleaningSingle.
LEMMA UniqueStep ==
    ASSUME OneDelivery, TypeOK, CleaningSingle, Unique, [Next]_vars
    PROVE  Unique'
<1>1. ASSUME NEW h \in Handlers, Run(h) PROVE Unique'
  BY <1>1, UniqueRemove, UniquePush, QuietRun, QuietStep
<1>2. ASSUME NEW h \in Handlers, Cleanup(h) PROVE Unique'
  BY <1>2, UniqueNextRecord, UniquePutBack, UniqueTakeForReturn, UniqueReturn, UniqueDelete,
     QuietCleanup, QuietStep DEF Cleanup
<1>3. ASSUME NEW h \in Handlers, Checker(h) \/ Trouble(h) \/ Restart(h) PROVE Unique'
  BY <1>3, QuietChecker, QuietProcess, QuietStep
<1>4. ASSUME NEW d \in Deliveries, Receive(d) PROVE Unique'
  BY <1>4, UniquePushQueued, QuietReceiver, QuietStep DEF Receive
<1>5. ASSUME \/ \E j \in Jobs : ReceiveEvent(j) \/ JobStarts(j) \/ JobCompletes(j)
             \/ ReceiverRestart
      PROVE  Unique'
  BY <1>5, QuietReceiver, QuietStep
<1>6. CASE UNCHANGED vars
  <2>1. UNCHANGED <<db, pc, hand, rpc>>
    BY <1>6 DEF vars, local, receiver
  <2>2. QED
    BY <2>1, SameRelabels, QuietStep DEF Quiet
<1>7. QED
  BY <1>1, <1>2, <1>3, <1>4, <1>5, <1>6 DEF Next

\* As long as GitHub delivers each "queued" webhook once, a job has at most
\* one record, in a list or in the memory of one handler: PopJobOffQueue of
\* several handlers never claims it twice, and cleanup never gives it back
\* while it keeps it, whatever crashes, stops and failures come in between.
THEOREM ClaimIsExclusive == ASSUME OneDelivery PROVE Spec => []ExclusiveClaim
<1>1. TypeOK /\ CleaningSingle /\ Unique /\ [Next]_vars => Unique'
  BY UniqueStep
<1>2. Unique => ExclusiveClaim
  BY DEF Unique
<1>3. QED
  BY <1>1, <1>2, UniqueInit, TypeCorrect, SingleRecordCleaned, PTL DEF Spec
=============================================================================
