-------------------------- MODULE JobQueuesProofs ---------------------------
(***************************************************************************)
(* Theorems about JobQueues.                                               *)
(***************************************************************************)
EXTENDS JobQueues, RedisListsProofs

\* No record enters or leaves a cleaning list.
KeepsCleaning == \A g \in Handlers : Cleaning(g)' = Cleaning(g)

USE DEF Databases, KeepsCleaning

\* The keys of different lists differ.
LEMMA KeysDiffer ==
    ASSUME NEW g \in Handlers, NEW h \in Handlers
    PROVE  /\ MainQ \in Keys /\ PluginQ(h) \in Keys /\ CleaningQ(h) \in Keys
           /\ MainQ # PluginQ(h) /\ MainQ # CleaningQ(h) /\ PluginQ(g) # CleaningQ(h)
           /\ g # h => PluginQ(g) # PluginQ(h) /\ CleaningQ(g) # CleaningQ(h)
BY DEF Keys, HandlerKeys, MainQ, PluginQ, CleaningQ

\* The record of a queued webhook.
LEMMA NewJobType == ASSUME NEW j \in Jobs PROVE NewJob(j) \in QueueJob
BY DEF NewJob, QueueJob, Types, Statuses, Actions

\* What the handlers make of a record.
LEMMA FieldTypes ==
    /\ \A e \in QueueJob, x \in Types : [e EXCEPT !.type = x] \in QueueJob
    /\ \A e \in QueueJob, x \in Statuses : [e EXCEPT !.status = x] \in QueueJob
    /\ \A e \in QueueJob, x \in Actions : [e EXCEPT !.action = x] \in QueueJob
    /\ \A e \in QueueJob, x \in Nat : [e EXCEPT !.attempts = x] \in QueueJob
    /\ \A e \in QueueJob, x \in VMs : [e EXCEPT !.vm = x] \in QueueJob
BY DEF QueueJob

LEMMA MarkedType ==
    ASSUME NEW e \in QueueJob, NEW s \in Statuses, NEW a \in Actions
    PROVE  /\ Marked(e, s, a) \in QueueJob
           /\ Marked(e, s, a).type = e.type
           /\ Marked(e, s, a).id = e.id
<1>1. Marked(e, s, a) \in QueueJob
  BY FieldTypes, Zenon DEF Marked
<1>2. \A r \in QueueJob : /\ [r EXCEPT !.status = s].type = r.type
                          /\ [r EXCEPT !.status = s].id = r.id
                          /\ [r EXCEPT !.action = a].type = r.type
                          /\ [r EXCEPT !.action = a].id = r.id
  BY DEF QueueJob
<1>3. Marked(e, s, a).type = e.type /\ Marked(e, s, a).id = e.id
  BY <1>2, FieldTypes, Zenon DEF Marked
<1>4. QED
  BY <1>1, <1>3

LEMMA RequeuedType ==
    ASSUME NEW e \in QueueJob, NEW n \in Nat
    PROVE  /\ Requeued(e, n) \in QueueJob
           /\ Requeued(e, n).type = e.type
           /\ Requeued(e, n).id = e.id
<1>1. "queued" \in Actions
  BY DEF Actions
<1>2. Requeued(e, n) \in QueueJob
  BY <1>1, FieldTypes, Zenon DEF Requeued
<1>3. \A r \in QueueJob : /\ [r EXCEPT !.action = "queued"].type = r.type
                          /\ [r EXCEPT !.action = "queued"].id = r.id
                          /\ [r EXCEPT !.attempts = n].type = r.type
                          /\ [r EXCEPT !.attempts = n].id = r.id
  BY DEF QueueJob
<1>4. Requeued(e, n).type = e.type /\ Requeued(e, n).id = e.id
  BY <1>1, <1>3, FieldTypes, Zenon DEF Requeued
<1>5. QED
  BY <1>2, <1>4

LEMMA VMRecordType ==
    ASSUME NEW e \in QueueJob
    PROVE  VMRecord(e) \in QueueJob /\ IsVM(VMRecord(e))
<1>1. "anka.VM" \in Types /\ "" \in Actions /\ 0 \in Nat
  BY DEF Types, Actions
<1>2. VMRecord(e) \in QueueJob
  BY <1>1, FieldTypes, Zenon DEF VMRecord
<1>3. /\ \A r \in QueueJob : [r EXCEPT !.type = "anka.VM"].type = "anka.VM"
      /\ \A r \in QueueJob : [r EXCEPT !.action = ""].type = r.type
      /\ \A r \in QueueJob : [r EXCEPT !.attempts = 0].type = r.type
  BY DEF QueueJob
<1>4. VMRecord(e).type = "anka.VM"
  BY <1>1, <1>3, FieldTypes, Zenon DEF VMRecord
<1>5. QED
  BY <1>2, <1>4 DEF IsVM

\* E has the records of D in the same places, of the same type and job; only
\* the handlers' own lists differ at all.
Relabels(D, E) ==
    /\ \A k \in Keys : /\ Len(E[k]) = Len(D[k])
                       /\ \A i \in 1..Len(D[k]) : /\ E[k][i].type = D[k][i].type
                                                  /\ E[k][i].id = D[k][i].id
    /\ \A k \in Keys : k \notin {PluginQ(h) : h \in Handlers} => E[k] = D[k]

LEMMA SetRelabels ==
    ASSUME ListsOK, NEW h \in Handlers, NEW i \in 1..Len(Own(h)), NEW e \in QueueJob,
           e.type = Own(h)[i].type, e.id = Own(h)[i].id, db' = LSet(db, PluginQ(h), i, e)
    PROVE  ListsOK' /\ Relabels(db, db')
<1>1. /\ db' \in Databases(Keys, QueueJob)
      /\ db'[PluginQ(h)] = [Own(h) EXCEPT ![i] = e]
      /\ SameBut(db, db', Keys, PluginQ(h))
  BY LSetFact, KeysDiffer DEF ListsOK, Own
<1>2. /\ Own(h) \in Seq(QueueJob)
      /\ Len([Own(h) EXCEPT ![i] = e]) = Len(Own(h))
  BY KeysDiffer DEF ListsOK, Own
<1>3. \A n \in 1..Len(Own(h)) : [Own(h) EXCEPT ![i] = e][n] = IF n = i THEN e ELSE Own(h)[n]
  BY <1>2
<1>4. ASSUME NEW k \in Keys
      PROVE  /\ Len(db'[k]) = Len(db[k])
             /\ \A n \in 1..Len(db[k]) : /\ db'[k][n].type = db[k][n].type
                                         /\ db'[k][n].id = db[k][n].id
  <2>1. CASE k = PluginQ(h)
    BY <1>1, <1>2, <1>3, <2>1 DEF Own
  <2>2. CASE k # PluginQ(h)
    BY <1>1, <2>2 DEF SameBut
  <2>3. QED
    BY <2>1, <2>2
<1>5. \A k \in Keys : k \notin {PluginQ(g) : g \in Handlers} => db'[k] = db[k]
  BY <1>1 DEF SameBut
<1>6. QED
  BY <1>1, <1>4, <1>5 DEF ListsOK, Relabels

LEMMA RelabelsCleaning ==
    ASSUME Relabels(db, db')
    PROVE  KeepsCleaning
BY KeysDiffer DEF Relabels, Cleaning

\* UpdateJobInDB, of the head or of a local copy, only relabels.
LEMMA MarkHeadType ==
    ASSUME ListsOK, NEW h \in Handlers, HasHead(h),
           NEW s \in Statuses, NEW a \in Actions, MarkHead(h, s, a)
    PROVE  ListsOK' /\ Relabels(db, db')
<1>1. Own(h) \in Seq(QueueJob) /\ 1 \in 1..Len(Own(h)) /\ HeadJob(h) \in QueueJob
  BY KeysDiffer DEF ListsOK, Own, HasHead, HeadJob
<1>2. CASE db' = db
  BY <1>2 DEF ListsOK, Relabels
<1>3. CASE db' = LSet(db, PluginQ(h), 1, Marked(HeadJob(h), s, a))
  <2>1. HeadJob(h) = Own(h)[1]
    BY <1>1 DEF HeadJob
  <2>2. QED
    BY <1>1, <1>3, <2>1, MarkedType, SetRelabels
<1>4. QED
  BY <1>2, <1>3 DEF MarkHead

LEMMA UpdateJobInDBType ==
    ASSUME ListsOK, NEW h \in Handlers, NEW e \in QueueJob, UpdateJobInDB(h, e)
    PROVE  ListsOK' /\ Relabels(db, db')
<1>1. CASE UNCHANGED db
  BY <1>1 DEF ListsOK, Relabels
<1>2. CASE \E i \in 1..Len(Own(h)) : FirstMatch(h, e, i) /\ db' = LSet(db, PluginQ(h), i, e)
  <2>1. PICK i \in 1..Len(Own(h)) : Matches(h, e, i) /\ db' = LSet(db, PluginQ(h), i, e)
    BY <1>2 DEF FirstMatch
  <2>2. QED
    BY <2>1, SetRelabels DEF Matches
<1>3. QED
  BY <1>1, <1>2 DEF UpdateJobInDB

\* QueueTargetIndex is reset, or one more.
LEMMA TargetType ==
    ASSUME target \in [Handlers -> Nat], NEW h \in Handlers,
           FirstTarget(h) \/ NextTarget(h) \/ UNCHANGED target
    PROVE  target' \in [Handlers -> Nat]
<1> DEFINE n == IF target[h] < MaxTarget THEN target[h] + 1 ELSE target[h]
<1>1. n \in Nat
  OBVIOUS
<1>2. NextTarget(h) => target' = [target EXCEPT ![h] = n]
  BY DEF NextTarget
<1> HIDE DEF n
<1>3. QED
  BY <1>1, <1>2 DEF FirstTarget

\* A VM is created or deleted.
LEMMA VmsType ==
    ASSUME vms \in [Handlers -> SUBSET VMs], NEW h \in Handlers
    PROVE  /\ \A x : vms' = [vms EXCEPT ![h] = @ \ {x}] => vms' \in [Handlers -> SUBSET VMs]
           /\ \A v \in VMs : vms' = [vms EXCEPT ![h] = @ \cup {v}] =>
                                  vms' \in [Handlers -> SUBSET VMs]
<1>1. \A S \in SUBSET VMs : [vms EXCEPT ![h] = S] \in [Handlers -> SUBSET VMs]
  OBVIOUS
<1>2. vms[h] \in SUBSET VMs
  OBVIOUS
<1>3. \A x : vms[h] \ {x} \in SUBSET VMs
  BY <1>2
<1>4. \A v \in VMs : vms[h] \cup {v} \in SUBSET VMs
  BY <1>2
<1>5. QED
  BY <1>1, <1>3, <1>4, Zenon

\* A completed record moves between the lists of completed ids.
LEMMA TakeCompletedType ==
    ASSUME EventsOK, HostsOK, NEW h \in Handlers, NEW j \in Jobs, TakeCompleted(h, j),
           UNCHANGED <<inProgress, hooks, gh>>
    PROVE  EventsOK' /\ target' \in [Handlers -> Nat]
<1>1. EventsOK'
  BY DEF TakeCompleted, EventsOK
<1>2. target \in [Handlers -> Nat] /\ (UNCHANGED target \/ FirstTarget(h))
  BY DEF TakeCompleted, HostsOK
<1>3. QED
  BY <1>1, <1>2, TargetType

LEMMA MarkCompletedType ==
    ASSUME ListsOK, EventsOK, HostsOK, NEW h \in Handlers, KnownCompleted(h), MarkCompleted(h),
           UNCHANGED <<inProgress, hooks, gh>>
    PROVE  ListsOK' /\ EventsOK' /\ target' \in [Handlers -> Nat] /\ Relabels(db, db')
<1>1. HasHead(h) /\ HeadJob(h) \in QueueJob
  BY KeysDiffer DEF ListsOK, KnownCompleted, HasHead, HeadJob, Own
<1>2. HeadJob(h).id \in Jobs /\ HeadJob(h).action \in Actions
  BY <1>1 DEF QueueJob
<1>3. EventsOK' /\ target' \in [Handlers -> Nat]
  <2>1. CASE UNCHANGED <<completed, ownDone, target>>
    BY <2>1 DEF EventsOK, HostsOK
  <2>2. CASE TakeCompleted(h, HeadJob(h).id)
    BY <2>2, <1>2, TakeCompletedType
  <2>3. QED
    BY <2>1, <2>2 DEF MarkCompleted
<1>4. PICK a \in Actions : MarkHead(h, "completed", a)
  BY <1>2 DEF MarkCompleted, Actions
<1>5. QED
  BY <1>1, <1>3, <1>4, MarkHeadType DEF Statuses

LEMMA AskAPIType ==
    ASSUME ListsOK, EventsOK, NEW h \in Handlers, HasHead(h), AskAPI(h),
           UNCHANGED <<inProgress, hooks, gh>>
    PROVE  ListsOK' /\ EventsOK' /\ Relabels(db, db')
<1>1. HeadJob(h) \in QueueJob
  BY KeysDiffer DEF ListsOK, HasHead, HeadJob, Own
<1>2. HeadJob(h).id \in Jobs
  BY <1>1 DEF QueueJob
<1>3. EventsOK'
  BY <1>2 DEF AskAPI, EventsOK
<1>4. PICK t \in Statuses : MarkHead(h, t, "in_progress")
  BY DEF AskAPI, Statuses
<1>5. QED
  BY <1>3, <1>4, MarkHeadType DEF Actions

\* A command on one list leaves the cleaning lists of all others alone.
LEMMA OneListChanges ==
    ASSUME NEW k \in Keys, db' \in Databases(Keys, QueueJob), SameBut(db, db', Keys, k)
    PROVE  /\ ListsOK'
           /\ \A g \in Handlers : k # CleaningQ(g) => Cleaning(g)' = Cleaning(g)
BY KeysDiffer DEF ListsOK, Cleaning, SameBut

\* What stands in a list is a record.
LEMMA Elements ==
    ASSUME ListsOK, NEW k \in Keys
    PROVE  /\ db[k] \in Seq(QueueJob)
           /\ db \in Databases(Keys, QueueJob)
           /\ db[k] # <<>> => /\ Len(db[k]) \in 1..Len(db[k])
                              /\ Head(db[k]) \in QueueJob
                              /\ db[k][Len(db[k])] \in QueueJob
           /\ \A i \in 1..Len(db[k]) : db[k][i] \in QueueJob
BY DEF ListsOK

\* RPOPLPUSH between two lists of the database.
LEMMA MoveType ==
    ASSUME ListsOK, NEW src \in Keys, NEW dst \in Keys, src # dst, db[src] # <<>>
    PROVE  /\ RPopLPush(db, src, dst) \in Databases(Keys, QueueJob)
           /\ RPopLPush(db, src, dst)[src] = SubSeq(db[src], 1, Len(db[src]) - 1)
           /\ RPopLPush(db, src, dst)[dst] = <<db[src][Len(db[src])]>> \o db[dst]
           /\ \A x \in Keys \ {src, dst} : RPopLPush(db, src, dst)[x] = db[x]
<1>1. db \in Databases(Keys, QueueJob)
  BY DEF ListsOK
<1> HIDE DEF Databases
<1>2. QED
  BY <1>1, RPopLPushFact

LEMMA PushOwnType ==
    ASSUME ListsOK, NEW h \in Handlers, NEW e \in QueueJob, db' = RPush(db, PluginQ(h), e)
    PROVE  ListsOK' /\ KeepsCleaning
<1>1. /\ db' \in Databases(Keys, QueueJob)
      /\ SameBut(db, db', Keys, PluginQ(h))
  BY RPushFact, KeysDiffer DEF ListsOK
<1>2. QED
  BY <1>1, OneListChanges, KeysDiffer

LEMMA TakeMainType ==
    ASSUME ListsOK, NEW i \in 1..Len(db[MainQ]), db' = LRemAt(db, MainQ, i)
    PROVE  ListsOK' /\ KeepsCleaning
<1>1. MainQ \in Keys
  BY DEF Keys
<1>2. /\ db' \in Databases(Keys, QueueJob)
      /\ SameBut(db, db', Keys, MainQ)
  BY <1>1, LRemAtFact DEF ListsOK
<1>3. QED
  BY <1>1, <1>2, OneListChanges, KeysDiffer

-----------------------------------------------------------------------------
(* Type correctness.  Most actions leave db alone, or change it in a way    *)
(* one of the lemmas above tells; then only pc, hand and the cleaning list  *)
(* of the acting handler matter to ControlOK.                               *)

LEMMA CancelType ==
    ASSUME EventsOK, NEW j \in Jobs, CancelAtGitHub(j), UNCHANGED <<inProgress, completed, ownDone>>
    PROVE  EventsOK'
BY DEF CancelAtGitHub, EventsOK, Statuses

LEMMA RunType ==
    ASSUME TypeOK, NEW h \in Handlers, Run(h)
    PROVE  TypeOK' /\ KeepsCleaning
<1> USE DEF TypeOK, EventsOK, ReceiverOK, LocalOK, HostsOK, ControlOK,
            events, local, receiver, hosts, HasRecord, RunPcs, CleanupPcs, Goto, Drop
<1>1. CASE LoopEnds(h)
  <2>1. target' \in [Handlers -> Nat]
    BY <1>1, TargetType DEF LoopEnds, Exit
  <2>2. QED
    BY <1>1, <2>1 DEF LoopEnds, Exit, ListsOK, Cleaning
<1>2. CASE RunFindsCompleted(h)
  <2>1. ListsOK' /\ EventsOK' /\ target' \in [Handlers -> Nat] /\ KeepsCleaning
    BY <1>2, MarkCompletedType, RelabelsCleaning DEF RunFindsCompleted, NewRun
  <2>2. QED
    BY <1>2, <2>1 DEF RunFindsCompleted, NewRun
<1>3. CASE RunFindsInProgress(h)
  <2>1. ListsOK' /\ EventsOK' /\ KeepsCleaning
    BY <1>3, AskAPIType, RelabelsCleaning DEF RunFindsInProgress, NewRun, KnownRunning
  <2>2. QED
    BY <1>3, <2>1 DEF RunFindsInProgress, NewRun
<1>4. CASE RunFindsNothing(h)
  BY <1>4 DEF RunFindsNothing, NewRun, ListsOK, Cleaning
<1>5. CASE Resume(h)
  BY <1>5, KeysDiffer, Elements DEF Resume, ListsOK, Cleaning, HasHead, Own
<1>6. CASE ReadMainQueue(h)
  <2> DEFINE n == IF target[h] > Len(db[MainQ]) THEN 0 ELSE target[h]
  <2>1. db[MainQ] \in Seq(QueueJob) /\ n \in Nat
    BY KeysDiffer, Elements
  <2>2. CASE n >= Len(db[MainQ])
    <3>1. target' \in [Handlers -> Nat]
      BY <1>6, <2>2, TargetType DEF ReadMainQueue
    <3>2. QED
      BY <1>6, <2>2, <3>1 DEF ReadMainQueue, ListsOK, Cleaning
  <2>3. CASE ~(n >= Len(db[MainQ]))
    <3>1. db[MainQ][n + 1] \in QueueJob
      BY <2>1, <2>3
    <3>2. /\ hand' = [hand EXCEPT ![h] = db[MainQ][n + 1]]
          /\ target' = [target EXCEPT ![h] = n]
          /\ pc' = [pc EXCEPT ![h] = "remove"]
          /\ UNCHANGED <<db, events, gh, receiver, reason, onStart, fin, stop, vms, runners, faults>>
      BY <1>6, <2>3 DEF ReadMainQueue
    <3> HIDE DEF n
    <3>3. QED
      BY <2>1, <3>1, <3>2 DEF ListsOK, Cleaning
  <2>4. QED
    BY <2>2, <2>3
<1>7. CASE RemoveFromMainQueue(h)
  <2>1. ListsOK' /\ KeepsCleaning
    BY <1>7, TakeMainType DEF RemoveFromMainQueue, FirstAt, ListsOK, Cleaning
  <2>2. target' \in [Handlers -> Nat]
    BY <1>7, TargetType DEF RemoveFromMainQueue
  <2>3. \/ pc' = [pc EXCEPT ![h] = "push"] /\ hand' = hand
        \/ pc' = [pc EXCEPT ![h] = "c0"] /\ hand' = [hand EXCEPT ![h] = None]
    BY <1>7 DEF RemoveFromMainQueue
  <2>4. LocalOK'
    BY <1>7, <2>3 DEF RemoveFromMainQueue
  <2>5. ControlOK'
    BY <1>7, <2>1, <2>3 DEF RemoveFromMainQueue
  <2>6. QED
    BY <1>7, <2>1, <2>2, <2>4, <2>5 DEF RemoveFromMainQueue
<1>8. CASE PushClaim(h)
  <2>1. ListsOK' /\ KeepsCleaning
    BY <1>8, PushOwnType DEF PushClaim
  <2>2. QED
    BY <1>8, <2>1 DEF PushClaim
<1>9. CASE ClaimFindsCompleted(h)
  <2>1. ListsOK' /\ EventsOK' /\ target' \in [Handlers -> Nat] /\ KeepsCleaning
    BY <1>9, MarkCompletedType, RelabelsCleaning DEF ClaimFindsCompleted
  <2>2. QED
    BY <1>9, <2>1 DEF ClaimFindsCompleted, ToCleanup
<1>10. CASE ClaimFindsInProgress(h)
  <2>1. ListsOK' /\ EventsOK' /\ KeepsCleaning
    BY <1>10, AskAPIType, RelabelsCleaning DEF ClaimFindsInProgress, KnownRunning
  <2>2. QED
    BY <1>10, <2>1 DEF ClaimFindsInProgress, ToCleanup
<1>11. CASE CancelJob(h)
  <2>1. hand[h] \in QueueJob
    BY <1>11 DEF CancelJob, Checked
  <2>2. Marked(hand[h], "completed", "cancel") \in QueueJob
    BY <2>1, MarkedType DEF Statuses, Actions
  <2>3. ListsOK' /\ KeepsCleaning
    BY <1>11, <2>2, UpdateJobInDBType, RelabelsCleaning DEF CancelJob
  <2>4. hand[h].id \in Jobs
    BY <2>1 DEF QueueJob
  <2>5. EventsOK'
    BY <1>11, <2>4, CancelType DEF CancelJob
  <2>6. QED
    BY <1>11, <2>3, <2>5 DEF CancelJob, ToCleanup
<1>12. CASE RetryIsOver(h)
  <2>1. Marked(hand[h], "completed", "finish") \in QueueJob
    BY <1>12, MarkedType DEF RetryIsOver, Retried, Checked, Statuses, Actions
  <2>2. ListsOK' /\ KeepsCleaning
    BY <1>12, <2>1, UpdateJobInDBType, RelabelsCleaning DEF RetryIsOver
  <2>3. QED
    BY <1>12, <2>2 DEF RetryIsOver, ToCleanup
<1>13. CASE RetryIsRunning(h)
  BY <1>13 DEF RetryIsRunning, ListsOK, Cleaning
<1>14. CASE Prepare(h)
  <2> DEFINE e == [hand[h] EXCEPT !.action = "preparing"]
  <2>1. e \in QueueJob
    BY <1>14, FieldTypes DEF Prepare, Preparable, Retried, Checked, Actions
  <2>2. ListsOK' /\ KeepsCleaning
    BY <1>14, <2>1, UpdateJobInDBType, RelabelsCleaning DEF Prepare
  <2>3. hand' = [hand EXCEPT ![h] = None] \/ hand' = [hand EXCEPT ![h] = e]
    BY <1>14 DEF Prepare, ToCleanup
  <2>4. hand' \in [Handlers -> QueueJob \cup {None}] /\ \A g \in Handlers \ {h} : hand'[g] = hand[g]
    BY <2>1, <2>3
  <2>5. ControlOK'
    <3>1. CASE Unwritable(h)
      BY <1>14, <2>2, <2>4, <3>1 DEF Prepare, ToCleanup
    <3>2. CASE ~Unwritable(h)
      <4>1. pc' = [pc EXCEPT ![h] = "obtain"] /\ hand' = [hand EXCEPT ![h] = e]
        BY <1>14, <3>2 DEF Prepare
      <4>2. hand'[h] \in QueueJob
        BY <2>1, <4>1
      <4>3. QED
        BY <2>2, <2>4, <4>1, <4>2
    <3>3. QED
      BY <3>1, <3>2
  <2>6. LocalOK' /\ UNCHANGED <<events, gh, receiver, hosts, faults>>
    <3>1. CASE Unwritable(h)
      BY <1>14, <2>4, <3>1 DEF Prepare, ToCleanup
    <3>2. CASE ~Unwritable(h)
      BY <1>14, <2>4, <3>2 DEF Prepare
    <3>3. QED
      BY <3>1, <3>2
  <2>7. QED
    BY <2>2, <2>5, <2>6
<1>15. CASE ObtainVM(h)
  <2>1. PICK v \in VMs : /\ hand' = [hand EXCEPT ![h].vm = v]
                         /\ vms' = [vms EXCEPT ![h] = @ \cup {v}] \/ UNCHANGED vms
    BY <1>15 DEF ObtainVM
  <2>2. hand[h] \in QueueJob
    BY <1>15 DEF ObtainVM
  <2>3. hand'[h] \in QueueJob /\ \A g \in Handlers \ {h} : hand'[g] = hand[g]
    BY <2>1, <2>2, FieldTypes
  <2>4. hand' \in [Handlers -> QueueJob \cup {None}]
    BY <2>1, <2>3
  <2>5. vms' \in [Handlers -> SUBSET VMs]
    BY <2>1, VmsType
  <2>6. ControlOK'
    BY <1>15, <2>3 DEF ObtainVM, Cleaning
  <2>7. QED
    BY <1>15, <2>4, <2>5, <2>6 DEF ObtainVM, ListsOK, Cleaning
<1>16. CASE RecordVM(h)
  <2>1. VMRecord(hand[h]) \in QueueJob
    BY <1>16, VMRecordType DEF RecordVM
  <2>2. ListsOK' /\ KeepsCleaning
    BY <1>16, <2>1, PushOwnType DEF RecordVM
  <2>3. QED
    BY <1>16, <2>2 DEF RecordVM
<1>17. CASE AbandonVM(h)
  <2>1. vms' \in [Handlers -> SUBSET VMs] /\ faults' \in Nat
    <3>1. vms' = [vms EXCEPT ![h] = @ \ {hand[h].vm}] \/ UNCHANGED vms
      BY <1>17 DEF AbandonVM
    <3>2. vms' \in [Handlers -> SUBSET VMs]
      BY <3>1, VmsType
    <3>3. QED
      BY <1>17, <3>2 DEF AbandonVM, Fault
  <2>2. QED
    BY <1>17, <2>1 DEF AbandonVM, ToCleanup, ListsOK, Cleaning
<1>18. CASE StartRunner(h)
  <2>1. [hand[h] EXCEPT !.action = "in_progress"] \in QueueJob
    BY <1>18, FieldTypes DEF StartRunner, Actions
  <2>2. ListsOK' /\ KeepsCleaning
    BY <1>18, <2>1, UpdateJobInDBType, RelabelsCleaning DEF StartRunner
  <2>3. QED
    BY <1>18, <2>2 DEF StartRunner
<1>19. CASE SeeCompleted(h) BY <1>19 DEF SeeCompleted, ToCleanup, ListsOK, Cleaning
<1>20. CASE StepFails(h) BY <1>20 DEF StepFails, Forward, ToCleanup, ListsOK, Cleaning
<1>21. CASE NoRunnerRegistered(h)
  <2>1. HeadJob(h) \in QueueJob
    BY <1>21, KeysDiffer, Elements DEF NoRunnerRegistered, HasHead, HeadJob, Own
  <2>2. ListsOK' /\ KeepsCleaning
    BY <1>21, <2>1, MarkHeadType, RelabelsCleaning DEF NoRunnerRegistered, QueueJob, Actions
  <2>3. HeadJob(h).id \in Jobs
    BY <2>1 DEF QueueJob
  <2>4. EventsOK' /\ runners' \subseteq VMs
    BY <1>21, <2>3, CancelType DEF NoRunnerRegistered, RemoveRunner
  <2>5. QED
    BY <1>21, <2>2, <2>4 DEF NoRunnerRegistered, Forward, ToCleanup
<1>22. CASE SixHoursPass(h)
  <2>1. ListsOK' /\ KeepsCleaning
    BY <1>22, MarkHeadType, RelabelsCleaning DEF SixHoursPass, Statuses, Actions
  <2>2. QED
    BY <1>22, <2>1 DEF SixHoursPass, ToCleanup
<1>23. CASE SeeStop(h) BY <1>23 DEF SeeStop, ToCleanup, ListsOK, Cleaning
<1>24. CASE CancelUnrunnable(h)
  <2>1. hand[h] \in QueueJob
    BY <1>24 DEF CancelUnrunnable, Preparable, Retried, Checked
  <2>2. [hand[h] EXCEPT !.action = "cancel"] \in QueueJob /\ hand[h].id \in Jobs
    <3>1. "cancel" \in Actions
      BY DEF Actions
    <3>2. \A r \in QueueJob : r.id \in Jobs
      BY DEF QueueJob
    <3>3. QED
      BY <2>1, <3>1, <3>2, FieldTypes
  <2>3. ListsOK' /\ KeepsCleaning
    BY <1>24, <2>2, UpdateJobInDBType, RelabelsCleaning DEF CancelUnrunnable
  <2>4. EventsOK'
    BY <1>24, <2>2, CancelType DEF CancelUnrunnable
  <2>5. QED
    BY <1>24, <2>3, <2>4 DEF CancelUnrunnable, ToCleanup, Fault
<1>25. QED
  BY <1>24, <1>1, <1>2, <1>3, <1>4, <1>5, <1>6, <1>7, <1>8, <1>9, <1>10, <1>11, <1>12,
     <1>13, <1>14, <1>15, <1>16, <1>17, <1>18, <1>19, <1>20, <1>21, <1>22, <1>23 DEF Run

LEMMA CleanupType ==
    ASSUME TypeOK, NEW h \in Handlers, Cleanup(h)
    PROVE  TypeOK'
<1> USE DEF TypeOK, EventsOK, ReceiverOK, LocalOK, HostsOK, ControlOK,
            events, local, receiver, hosts, HasRecord, RunPcs, CleanupPcs, Goto, Drop,
            EndCleanup
<1>1. CASE SkipCleanup(h) BY <1>1 DEF SkipCleanup, ListsOK, Cleaning
<1>2. CASE BeginCleanup(h) BY <1>2 DEF BeginCleanup, ListsOK, Cleaning
<1>3. CASE NextRecord(h)
  <2>1. CASE Cleaning(h) = <<>>
    <3>1. db' = RPopLPush(db, PluginQ(h), CleaningQ(h)) /\ Own(h) # <<>>
      BY <1>3, <2>1 DEF NextRecord, HasHead
    <3>2. /\ db' \in Databases(Keys, QueueJob)
          /\ db'[CleaningQ(h)] = <<Own(h)[Len(Own(h))]>> \o Cleaning(h)
          /\ \A x \in Keys \ {PluginQ(h), CleaningQ(h)} : db'[x] = db[x]
      BY <3>1, MoveType, KeysDiffer DEF Own, Cleaning
    <3>3. \A g \in Handlers : Cleaning(g) # <<>> => Cleaning(g)' # <<>>
      BY <2>1, <3>2, KeysDiffer DEF Cleaning
    <3>4. Cleaning(h)' # <<>>
      BY <2>1, <3>2 DEF Cleaning
    <3>5. QED
      BY <1>3, <3>2, <3>3, <3>4 DEF NextRecord, ListsOK
  <2>2. CASE Cleaning(h) # <<>>
    BY <1>3, <2>2 DEF NextRecord, ListsOK, Cleaning
  <2>3. QED
    BY <2>1, <2>2
<1>4. CASE NoRecord(h) BY <1>4 DEF NoRecord, ListsOK, Cleaning
<1>5. CASE DeleteVM(h)
  <2>1. vms' \in [Handlers -> SUBSET VMs] /\ runners' \subseteq VMs /\ faults' \in Nat
    <3>1. vms' = [vms EXCEPT ![h] = @ \ {Subject(h).vm}] \/ UNCHANGED vms
      BY <1>5 DEF DeleteVM
    <3>2. vms' \in [Handlers -> SUBSET VMs]
      BY <3>1, VmsType
    <3>3. runners' \subseteq VMs /\ faults' \in Nat
      BY <1>5 DEF DeleteVM, Fault
    <3>4. QED
      BY <3>2, <3>3
  <2>2. QED
    BY <1>5, <2>1 DEF DeleteVM, ListsOK, Cleaning
<1>6. ASSUME pc[h] \in CleanupPcs, db' = Del(db, CleaningQ(h))
      PROVE  ListsOK' /\ \A g \in Handlers \ {h} : Cleaning(g)' = Cleaning(g)
  <2>1. db' \in Databases(Keys, QueueJob) /\ SameBut(db, db', Keys, CleaningQ(h))
    BY <1>6, DelFact, KeysDiffer DEF ListsOK
  <2>2. QED
    BY <2>1, OneListChanges, KeysDiffer
<1>7. CASE ForgetVM(h) BY <1>6, <1>7 DEF ForgetVM
<1>8. CASE DropCompleted(h)
  <2>1. ownDone' \in [Handlers -> SUBSET Jobs]
    BY <1>8 DEF DropCompleted, CleanJob
  <2>2. QED
    BY <1>6, <1>8, <2>1 DEF DropCompleted, CleanJob
<1>9. CASE TakeForReturn(h)
  <2> DEFINE e == Cleaning(h)[Len(Cleaning(h))]
  <2>1. e \in QueueJob
    BY <1>9, Elements, KeysDiffer DEF TakeForReturn, CleanJob, Cleaning
  <2>2. e.attempts \in Nat
    BY <2>1 DEF QueueJob
  <2> DEFINE n == IF reason[h] = "retry" THEN e.attempts + 1 ELSE e.attempts
             r == Requeued(e, n)
  <2>3. n \in Nat
    BY <2>2
  <2>4. db' \in Databases(Keys, QueueJob) /\ SameBut(db, db', Keys, CleaningQ(h))
    BY <1>9, RPopFact, KeysDiffer DEF TakeForReturn, ListsOK
  <2>5. ListsOK' /\ \A g \in Handlers \ {h} : Cleaning(g)' = Cleaning(g)
    BY <2>4, OneListChanges, KeysDiffer
  <2>6. r \in QueueJob
    BY <2>1, <2>3, RequeuedType
  <2> HIDE DEF r
  <2>7. hand' = [hand EXCEPT ![h] = r]
    BY <1>9 DEF TakeForReturn, r
  <2>8. QED
    BY <1>9, <2>5, <2>6, <2>7 DEF TakeForReturn, CleanJob
<1>10. CASE ReturnToMainQueue(h)
  <2>1. MainQ \in Keys /\ hand[h] \in QueueJob
    BY <1>10, KeysDiffer DEF ReturnToMainQueue
  <2>2. db' \in Databases(Keys, QueueJob) /\ SameBut(db, db', Keys, MainQ)
    BY <1>10, <2>1, LPushFact DEF ReturnToMainQueue, ListsOK
  <2>3. ListsOK' /\ KeepsCleaning
    BY <2>1, <2>2, OneListChanges, KeysDiffer
  <2>4. QED
    BY <1>10, <2>3 DEF ReturnToMainQueue
<1>11. CASE ForgetReturned(h) BY <1>6, <1>11 DEF ForgetReturned
<1>12. CASE PutBack(h)
  <2> DEFINE E == RPopLPush(db, CleaningQ(h), PluginQ(h))
  <2>1. db[CleaningQ(h)] # <<>>
    BY <1>12 DEF PutBack, CleanJob, Cleaning
  <2>2. /\ E \in Databases(Keys, QueueJob)
        /\ \A x \in Keys \ {CleaningQ(h), PluginQ(h)} : E[x] = db[x]
    <3>1. PluginQ(h) \in Keys /\ CleaningQ(h) \in Keys /\ CleaningQ(h) # PluginQ(h)
      BY KeysDiffer
    <3>2. QED
      BY <2>1, <3>1, MoveType, Zenon
  <2>3. db' = Del(E, CleaningQ(h))
    BY <1>12 DEF PutBack
  <2>4. db' \in Databases(Keys, QueueJob) /\ SameBut(E, db', Keys, CleaningQ(h))
    BY <2>2, <2>3, DelFact, KeysDiffer
  <2>5. ListsOK' /\ \A g \in Handlers \ {h} : Cleaning(g)' = Cleaning(g)
    BY <2>2, <2>4, KeysDiffer DEF ListsOK, Cleaning, SameBut
  <2>6. QED
    BY <1>12, <2>5 DEF PutBack, CleanJob
<1>13. CASE DropTimedOut(h) BY <1>6, <1>13 DEF DropTimedOut, CleanJob
<1>14. QED
  BY <1>1, <1>2, <1>3, <1>4, <1>5, <1>7, <1>8, <1>9, <1>10, <1>11, <1>12, <1>13
     DEF Cleanup

LEMMA CheckerType ==
    ASSUME TypeOK, NEW h \in Handlers, Checker(h)
    PROVE  TypeOK' /\ KeepsCleaning
<1> USE DEF TypeOK, EventsOK, ReceiverOK, LocalOK, HostsOK, ControlOK,
            events, local, receiver, hosts
<1>1. CASE CheckCompleted(h)
  <2>1. ListsOK' /\ EventsOK' /\ target' \in [Handlers -> Nat] /\ KeepsCleaning
    BY <1>1, MarkCompletedType, RelabelsCleaning DEF CheckCompleted
  <2>2. QED
    BY <1>1, <2>1 DEF CheckCompleted
<1>2. CASE CheckInProgress(h)
  <2>1. ListsOK' /\ KeepsCleaning
    BY <1>2, MarkHeadType, RelabelsCleaning DEF CheckInProgress, KnownRunning, Statuses, Actions
  <2>2. QED
    BY <1>2, <2>1 DEF CheckInProgress
<1>3. CASE CheckStop(h) BY <1>3 DEF CheckStop, ListsOK, Cleaning
<1>4. CASE CheckInterrupted(h)
  <2>1. HeadJob(h) \in QueueJob
    BY <1>4, KeysDiffer, Elements DEF CheckInterrupted, KnownCompleted, HasHead, HeadJob, Own
  <2>2. HeadJob(h).id \in Jobs
    BY <2>1 DEF QueueJob
  <2>3. EventsOK' /\ target' \in [Handlers -> Nat]
    BY <1>4, <2>2, TakeCompletedType DEF CheckInterrupted
  <2>4. QED
    BY <1>4, <2>3 DEF CheckInterrupted, ListsOK, Cleaning
<1>5. QED
  BY <1>1, <1>2, <1>3, <1>4 DEF Checker

LEMMA ProcessType ==
    ASSUME TypeOK, NEW h \in Handlers, Trouble(h) \/ Restart(h)
    PROVE  TypeOK' /\ KeepsCleaning
<1> USE DEF TypeOK, EventsOK, ReceiverOK, LocalOK, HostsOK, ControlOK, ListsOK, Cleaning,
            events, local, receiver, hosts, HasRecord, RunPcs, CleanupPcs, Goto, Drop, Fault
<1>1. CASE NoCapacity(h) BY <1>1 DEF NoCapacity
<1>2. CASE NoTemplateOnHost(h)
  <2>1. target' \in [Handlers -> Nat]
    BY <1>2, TargetType DEF NoTemplateOnHost
  <2>2. /\ pc' = [pc EXCEPT ![h] = "c0"] /\ hand' = [hand EXCEPT ![h] = None]
        /\ UNCHANGED <<db, events, gh, receiver, onStart, fin, stop, vms, runners>>
        /\ faults' = faults + 1
    BY <1>2 DEF NoTemplateOnHost, ToCleanup
  <2>3. reason' \in [Handlers -> {"none", "retry", "not_counted"}]
    BY <1>2 DEF NoTemplateOnHost, Forward
  <2>4. ControlOK' /\ KeepsCleaning
    BY <2>2
  <2>5. LocalOK'
    BY <2>2, <2>3
  <2>6. QED
    BY <2>1, <2>2, <2>4, <2>5
<1>3. CASE CleanupFails(h) BY <1>3 DEF CleanupFails, EndCleanup
<1>4. CASE Signal(h) BY <1>4 DEF Signal
<1>5. CASE Crash(h)
  <2>1. target' \in [Handlers -> Nat]
    BY <1>5, TargetType DEF Crash, Exit
  <2>2. /\ pc' = [pc EXCEPT ![h] = "off"] /\ hand' = [hand EXCEPT ![h] = None]
        /\ UNCHANGED <<db, events, gh, receiver, vms, runners>>
        /\ faults' = faults + 1
    BY <1>5 DEF Crash, Exit
  <2>3. ControlOK'
    BY <2>2
  <2>4. LocalOK'
    BY <1>5 DEF Crash, Exit
  <2>5. QED
    BY <2>1, <2>2, <2>3, <2>4
<1>6. CASE Restart(h) BY <1>6 DEF Restart
<1>7. QED
  BY <1>1, <1>2, <1>3, <1>4, <1>5, <1>6 DEF Trouble

LEMMA ReceiverType ==
    ASSUME TypeOK,
           \/ \E d \in Deliveries : Receive(d)
           \/ \E j \in Jobs : ReceiveEvent(j) \/ JobStarts(j) \/ JobCompletes(j)
           \/ ReceiverRestart
    PROVE  TypeOK' /\ KeepsCleaning
<1> USE DEF TypeOK, EventsOK, ReceiverOK, LocalOK, HostsOK, ControlOK,
            events, local, receiver, hosts
<1>1. ASSUME NEW d \in Deliveries, Receive(d) PROVE TypeOK' /\ KeepsCleaning
  <2>1. CASE ReceiveQueued(d) BY <2>1 DEF ReceiveQueued, ListsOK, Cleaning
  <2>2. CASE ListHandlerKeys(d) BY <2>2 DEF ListHandlerKeys, ListsOK, Cleaning
  <2>3. CASE ScanHandlerKey(d) BY <2>3 DEF ScanHandlerKey, ListsOK, Cleaning
  <2>4. CASE PushQueued(d)
    <3>1. MainQ \in Keys /\ NewJob(JobOf[d]) \in QueueJob
      BY ConstantsAssumption, NewJobType DEF Keys
    <3>2. db' \in Databases(Keys, QueueJob) /\ SameBut(db, db', Keys, MainQ)
      BY <2>4, <3>1, RPushFact DEF PushQueued, ListsOK
    <3>3. ListsOK' /\ KeepsCleaning
      BY <3>1, <3>2, OneListChanges, KeysDiffer
    <3>4. QED
      BY <2>4, <3>3 DEF PushQueued
  <2>5. QED
    BY <1>1, <2>1, <2>2, <2>3, <2>4 DEF Receive
<1>2. ASSUME NEW j \in Jobs, ReceiveEvent(j) PROVE TypeOK' /\ KeepsCleaning
  BY <1>2 DEF ReceiveEvent, ReceiveInProgress, ReceiveCompleted, ListsOK, Cleaning
<1>3. ASSUME NEW j \in Jobs, JobStarts(j) PROVE TypeOK' /\ KeepsCleaning
  BY <1>3 DEF JobStarts, Statuses, ListsOK, Cleaning
<1>4. ASSUME NEW j \in Jobs, JobCompletes(j) PROVE TypeOK' /\ KeepsCleaning
  BY <1>4 DEF JobCompletes, Statuses, ListsOK, Cleaning
<1>5. CASE ReceiverRestart
  BY <1>5 DEF ReceiverRestart, Fault, ListsOK, Cleaning
<1>6. QED
  BY <1>1, <1>2, <1>3, <1>4, <1>5

LEMMA TypeInit == Init => TypeOK
BY DEF Init, TypeOK, ListsOK, EventsOK, ReceiverOK, LocalOK, HostsOK, ControlOK,
       Statuses, HasRecord, Cleaning

LEMMA TypeStep == TypeOK /\ [Next]_vars => TypeOK'
<1> SUFFICES ASSUME TypeOK, [Next]_vars PROVE TypeOK'
  OBVIOUS
<1>1. CASE Next
  BY <1>1, RunType, CleanupType, CheckerType, ProcessType, ReceiverType DEF Next
<1>2. CASE UNCHANGED vars
  BY <1>2 DEF vars, events, receiver, local, hosts, TypeOK, ListsOK, EventsOK, ReceiverOK,
              LocalOK, HostsOK, ControlOK, Cleaning
<1>3. QED
  BY <1>1, <1>2

\* Whatever the handlers, the receiver, GitHub and the faults do, the lists
\* hold well formed records, a handler that is about to push, prepare or
\* return a record has one, and one that is about to process a record of its
\* cleaning list finds one there.
THEOREM TypeCorrect == Spec => []TypeOK
BY TypeInit, TypeStep, PTL DEF Spec

-----------------------------------------------------------------------------
(* The cleaning list.  Only cleanup touches it: a record enters it when it  *)
(* is empty, and everything else takes records out.                         *)

\* What is popped or deleted leaves fewer records.
LEMMA CleaningShrinks ==
    ASSUME ListsOK, NEW h \in Handlers, NEW E, NEW k \in Keys,
           E = RPop(db, k) \/ E = Del(db, k)
    PROVE  Len(E[CleaningQ(h)]) <= Len(Cleaning(h)) \/ Len(E[CleaningQ(h)]) = 0
<1>1. CASE E = RPop(db, k)
  <2>1. E[k] = SubSeq(db[k], 1, Len(db[k]) - 1) /\ SameBut(db, E, Keys, k)
    BY <1>1, RPopFact DEF ListsOK
  <2>2. Cleaning(h) \in Seq(QueueJob) /\ CleaningQ(h) \in Keys
    BY KeysDiffer DEF ListsOK, Cleaning
  <2>3. CASE k = CleaningQ(h)
    BY <2>1, <2>2, <2>3 DEF Cleaning
  <2>4. CASE k # CleaningQ(h)
    BY <2>1, <2>2, <2>4 DEF Cleaning, SameBut
  <2>5. QED
    BY <2>3, <2>4
<1>2. CASE E = Del(db, k)
  <2>1. E[k] = <<>> /\ SameBut(db, E, Keys, k)
    BY <1>2, DelFact DEF ListsOK
  <2>2. Cleaning(h) \in Seq(QueueJob) /\ CleaningQ(h) \in Keys
    BY KeysDiffer DEF ListsOK, Cleaning
  <2>3. QED
    BY <2>1, <2>2 DEF Cleaning, SameBut
<1>3. QED
  BY <1>1, <1>2

LEMMA SingleCleanup ==
    ASSUME TypeOK, CleaningSingle, NEW h \in Handlers, Cleanup(h)
    PROVE  CleaningSingle'
<1> USE DEF CleaningSingle
<1>1. ListsOK /\ ListsOK' /\ \A k \in Keys : db[k] \in Seq(QueueJob)
  BY CleanupType DEF TypeOK, ListsOK
<1>2. CASE UNCHANGED db
  BY <1>2 DEF Cleaning
<1>3. CASE db' = Del(db, CleaningQ(h)) \/ db' = RPop(db, CleaningQ(h))
  BY <1>1, <1>3, CleaningShrinks, KeysDiffer DEF Cleaning
<1>4. CASE db' = LPush(db, MainQ, hand[h]) /\ pc[h] = "c4"
  <2>1. hand[h] \in QueueJob /\ MainQ \in Keys
    BY <1>4, KeysDiffer DEF TypeOK, ControlOK, HasRecord
  <2>2. SameBut(db, db', Keys, MainQ)
    BY <1>1, <1>4, <2>1, LPushFact DEF ListsOK
  <2>3. QED
    BY <2>2, KeysDiffer DEF SameBut, Cleaning
<1>5. CASE NextRecord(h) /\ Cleaning(h) = <<>>
  <2>1. db[PluginQ(h)] # <<>> /\ db' = RPopLPush(db, PluginQ(h), CleaningQ(h))
    BY <1>5 DEF NextRecord, HasHead, Own
  <2>2. /\ db'[CleaningQ(h)] = <<Own(h)[Len(Own(h))]>> \o <<>>
        /\ \A x \in Keys \ {PluginQ(h), CleaningQ(h)} : db'[x] = db[x]
    <3>1. PluginQ(h) \in Keys /\ CleaningQ(h) \in Keys /\ PluginQ(h) # CleaningQ(h)
      BY KeysDiffer
    <3>2. QED
      BY <1>1, <1>5, <2>1, <3>1, MoveType DEF Own, Cleaning
  <2>3. Len(Cleaning(h)') <= 1
    BY <2>2 DEF Cleaning
  <2>4. \A g \in Handlers \ {h} : Cleaning(g)' = Cleaning(g)
    BY <2>2, KeysDiffer DEF Cleaning
  <2>5. \A g \in Handlers : Len(Cleaning(g)') <= 1
    BY <2>3, <2>4
  <2>6. QED
    BY <2>5 DEF Cleaning
<1>6. CASE PutBack(h)
  <2> DEFINE E == RPopLPush(db, CleaningQ(h), PluginQ(h))
  <2>1. db[CleaningQ(h)] # <<>> /\ db' = Del(E, CleaningQ(h))
    BY <1>6 DEF PutBack, CleanJob, Cleaning, TypeOK, ControlOK
  <2>2. /\ E \in Databases(Keys, QueueJob)
        /\ \A x \in Keys \ {CleaningQ(h), PluginQ(h)} : E[x] = db[x]
    <3>1. PluginQ(h) \in Keys /\ CleaningQ(h) \in Keys /\ CleaningQ(h) # PluginQ(h)
      BY KeysDiffer
    <3>2. QED
      BY <1>1, <2>1, <3>1, MoveType, Zenon
  <2>3. db'[CleaningQ(h)] = <<>> /\ SameBut(E, db', Keys, CleaningQ(h))
    BY <2>1, <2>2, DelFact, KeysDiffer
  <2>4. \A g \in Handlers \ {h} : Cleaning(g)' = Cleaning(g)
    BY <2>2, <2>3, KeysDiffer DEF Cleaning, SameBut
  <2>5. Len(Cleaning(h)') = 0
    BY <2>3 DEF Cleaning
  <2>6. QED
    BY <2>4, <2>5
<1>7. CASE NextRecord(h) /\ Cleaning(h) # <<>>
  BY <1>2, <1>7 DEF NextRecord
<1>8. QED
  BY <1>2, <1>3, <1>4, <1>5, <1>6, <1>7
     DEF Cleanup, SkipCleanup, BeginCleanup, NoRecord, DeleteVM, ForgetVM, DropCompleted,
         TakeForReturn, ReturnToMainQueue, ForgetReturned, DropTimedOut

\* The DEL with which cleanup ends never destroys a record that was not
\* processed, whatever earlier cleanups left in the cleaning list.
THEOREM SingleRecordCleaned == Spec => []CleaningSingle
<1>1. Init => CleaningSingle
  BY KeysDiffer DEF Init, CleaningSingle, Cleaning
<1>2. TypeOK /\ CleaningSingle /\ [Next]_vars => CleaningSingle'
  <2> SUFFICES ASSUME TypeOK, CleaningSingle, [Next]_vars PROVE CleaningSingle'
    OBVIOUS
  <2>1. ASSUME NEW h \in Handlers, Cleanup(h) PROVE CleaningSingle'
    BY <2>1, SingleCleanup
  <2>2. CASE KeepsCleaning
    BY <2>2 DEF CleaningSingle
  <2>3. CASE UNCHANGED vars
    BY <2>3 DEF vars, CleaningSingle, Cleaning
  <2>4. QED
    BY <2>1, <2>2, <2>3, RunType, CheckerType, ProcessType, ReceiverType DEF Next
<1>3. QED
  BY <1>1, <1>2, TypeCorrect, PTL DEF Spec
=============================================================================
