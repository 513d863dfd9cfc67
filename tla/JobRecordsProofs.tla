-------------------------- MODULE JobRecordsProofs --------------------------
(***************************************************************************)
(* What becomes of the records of a job: the record of its VM stays with   *)
(* the host that has the job (VmHasJob), no record disappears on the way   *)
(* (NeverLost), the lists implement the life cycle of JobLifecycle, and no *)
(* VM is lost while nothing cuts a cleanup short (NoVmLost).               *)
(***************************************************************************)
EXTENDS ExclusiveClaimProofs

\* List s has the record of job j; a VM's record stands behind its job's.
Has(s, j) == \E i \in 1..Len(s) : IsJob(s[i]) /\ s[i].id = j
Above(s, i) == \E k \in 1..(i - 1) : IsJob(s[k]) /\ s[k].id = s[i].id
Ordered(s) == \A i \in 1..Len(s) : IsVM(s[i]) => Above(s, i)

\* What a handler relies on: behind each VM's record that it has or processes
\* there is the job's, which it also has while it prepares the job; what it
\* claims and what it gives back are jobs; of a cleaning list that it is about
\* to delete it has processed everything.
ClaimsJob == {"remove", "push", "c4"}
HoldsJob == {"claimed", "obtain", "record", "boot"}
Careful == ClaimsJob \cup HoldsJob \cup {"c3", "c5"}
HostOK(h) ==
    /\ Ordered(Own(h))
    /\ \A i \in 1..Len(Cleaning(h)) : IsVM(Cleaning(h)[i]) => Has(Own(h), Cleaning(h)[i].id)
    /\ pc[h] \in ClaimsJob => IsJob(hand[h])
    /\ pc[h] \in HoldsJob => Has(Own(h), hand[h].id)
    /\ pc[h] = "c3" => \A i \in 1..Len(Cleaning(h)) : IsVM(Cleaning(h)[i])
    /\ pc[h] \in {"c4", "c5"} => Cleaning(h) = <<>>
MainOK == \A i \in 1..Len(db[MainQ]) : IsJob(db[MainQ][i])
Records == MainOK /\ \A h \in Handlers : HostOK(h)

Keeps(h) == pc'[h] = pc[h] /\ hand'[h] = hand[h]
Careless(h) == pc'[h] \notin Careful
Others(h) == \A g \in Handlers \ {h} : Keeps(g)

-----------------------------------------------------------------------------
(* Lists of records.                                                        *)

\* A record is that of a job or that of a VM.
LEMMA JobOrVM ==
    ASSUME NEW e \in QueueJob
    PROVE  /\ IsVM(e) <=> ~IsJob(e)
           /\ e.id \in Jobs
BY DEF QueueJob, Types, IsVM, IsJob

\* The record of a VM names the job it was started for.
LEMMA VMRecordId == ASSUME NEW e \in QueueJob PROVE VMRecord(e).id = e.id
<1>1. "anka.VM" \in Types /\ "" \in Actions
  BY DEF Types, Actions
<1>2. /\ \A r \in QueueJob : [r EXCEPT !.type = "anka.VM"].id = r.id
      /\ \A r \in QueueJob : [r EXCEPT !.action = ""].id = r.id
      /\ \A r \in QueueJob : [r EXCEPT !.attempts = 0].id = r.id
  BY DEF QueueJob
<1> QED BY <1>1, <1>2, FieldTypes, Zenon DEF VMRecord

\* A record is put behind the others.
LEMMA AppendHas ==
    ASSUME NEW s \in Seq(QueueJob), NEW e \in QueueJob, NEW t, t = Append(s, e)
    PROVE  /\ \A j : Has(t, j) <=> Has(s, j) \/ (IsJob(e) /\ e.id = j)
           /\ Ordered(s) /\ (IsVM(e) => Has(s, e.id)) => Ordered(t)
<1>1. /\ Len(t) = Len(s) + 1 /\ t[Len(s) + 1] = e /\ Len(s) \in Nat
      /\ \A i \in 1..Len(s) : t[i] = s[i]
  OBVIOUS
<1>2. ASSUME NEW j PROVE Has(t, j) <=> Has(s, j) \/ (IsJob(e) /\ e.id = j)
  <2>1. ASSUME Has(t, j) PROVE Has(s, j) \/ (IsJob(e) /\ e.id = j)
    BY <1>1, <2>1 DEF Has
  <2>2. ASSUME Has(s, j) PROVE Has(t, j)
    BY <1>1, <2>2 DEF Has
  <2>3. ASSUME IsJob(e), e.id = j PROVE Has(t, j)
    BY <1>1, <2>3 DEF Has
  <2> QED BY <2>1, <2>2, <2>3
<1>3. ASSUME Ordered(s), IsVM(e) => Has(s, e.id), NEW i \in 1..Len(t), IsVM(t[i])
      PROVE  Above(t, i)
  <2>1. CASE i = Len(s) + 1
    <3>1. PICK k \in 1..Len(s) : IsJob(s[k]) /\ s[k].id = e.id
      BY <1>1, <1>3, <2>1 DEF Has
    <3> QED BY <1>1, <2>1, <3>1 DEF Above
  <2>2. CASE i # Len(s) + 1
    <3>1. i \in 1..Len(s) /\ t[i] = s[i]
      BY <1>1, <2>2
    <3>2. PICK k \in 1..(i - 1) : IsJob(s[k]) /\ s[k].id = s[i].id
      BY <1>3, <3>1 DEF Ordered, Above
    <3>3. k \in 1..Len(s)
      BY <1>1, <3>1
    <3> QED BY <1>1, <3>1, <3>2, <3>3 DEF Above
  <2> QED BY <2>1, <2>2
<1> QED BY <1>2, <1>3 DEF Ordered

\* A record is put before the others.
LEMMA ConsHas ==
    ASSUME NEW s \in Seq(QueueJob), NEW e \in QueueJob, NEW t, t = <<e>> \o s
    PROVE  /\ \A j : Has(t, j) <=> Has(s, j) \/ (IsJob(e) /\ e.id = j)
           /\ Ordered(s) /\ IsJob(e) => Ordered(t)
<1>1. /\ Len(t) = Len(s) + 1 /\ t[1] = e /\ Len(s) \in Nat
      /\ \A i \in 1..Len(s) : t[i + 1] = s[i]
  OBVIOUS
<1>2. ASSUME NEW j PROVE Has(t, j) <=> Has(s, j) \/ (IsJob(e) /\ e.id = j)
  <2>1. ASSUME NEW i \in 1..Len(t), IsJob(t[i]), t[i].id = j
        PROVE  Has(s, j) \/ (IsJob(e) /\ e.id = j)
    <3>1. CASE i = 1 BY <1>1, <2>1, <3>1
    <3>2. CASE i # 1
      <4>1. i - 1 \in 1..Len(s) /\ t[i] = s[i - 1]
        BY <1>1, <3>2
      <4> QED BY <2>1, <4>1 DEF Has
    <3> QED BY <3>1, <3>2
  <2>2. ASSUME NEW i \in 1..Len(s), IsJob(s[i]), s[i].id = j PROVE Has(t, j)
    <3>1. i + 1 \in 1..Len(t) /\ t[i + 1] = s[i]
      BY <1>1
    <3> QED BY <2>2, <3>1 DEF Has
  <2>3. ASSUME IsJob(e), e.id = j PROVE Has(t, j)
    BY <1>1, <2>3 DEF Has
  <2> QED BY <2>1, <2>2, <2>3 DEF Has
<1>3. ASSUME Ordered(s), IsJob(e), NEW i \in 1..Len(t), IsVM(t[i]) PROVE Above(t, i)
  <2>1. i # 1
    BY <1>1, <1>3, JobOrVM
  <2>2. i - 1 \in 1..Len(s) /\ t[i] = s[i - 1]
    BY <1>1, <2>1
  <2>3. PICK k \in 1..((i - 1) - 1) : IsJob(s[k]) /\ s[k].id = s[i - 1].id
    BY <1>3, <2>2 DEF Ordered, Above
  <2>4. k + 1 \in 1..(i - 1) /\ k \in 1..Len(s) /\ t[k + 1] = s[k]
    BY <1>1, <2>2
  <2> QED BY <2>2, <2>3, <2>4 DEF Above
<1> QED BY <1>2, <1>3 DEF Ordered

\* The last record is taken away.
LEMMA FrontElements ==
    ASSUME NEW s \in Seq(QueueJob), s # <<>>, NEW t, t = SubSeq(s, 1, Len(s) - 1)
    PROVE  /\ Len(s) \in Nat /\ Len(s) >= 1 /\ Len(t) = Len(s) - 1
           /\ \A i \in 1..(Len(s) - 1) : t[i] = s[i]
<1>1. Len(s) \in Nat /\ Len(s) >= 1
  OBVIOUS
<1>2. PICK n \in 0..Len(s) : n = Len(s) - 1
  BY <1>1
<1>3. Len(SubSeq(s, 1, n)) = n /\ \A i \in 1..n : SubSeq(s, 1, n)[i] = s[i]
  OBVIOUS
<1> QED BY <1>1, <1>2, <1>3

LEMMA WithoutLastHas ==
    ASSUME NEW s \in Seq(QueueJob), s # <<>>, NEW j
    PROVE  Has(s, j) <=> \/ Has(SubSeq(s, 1, Len(s) - 1), j)
                         \/ IsJob(s[Len(s)]) /\ s[Len(s)].id = j
<1>1. PICK t, e : t = SubSeq(s, 1, Len(s) - 1) /\ e = s[Len(s)]
  OBVIOUS
<1>2. /\ Len(s) \in Nat /\ Len(s) >= 1 /\ Len(t) = Len(s) - 1
      /\ \A i \in 1..(Len(s) - 1) : t[i] = s[i]
  BY <1>1, FrontElements
<1>3. ASSUME NEW i \in 1..Len(s), IsJob(s[i]), s[i].id = j
      PROVE  Has(t, j) \/ (IsJob(e) /\ e.id = j)
  <2>1. CASE i = Len(s) BY <1>1, <1>3, <2>1
  <2>2. CASE i # Len(s)
    <3>1. i \in 1..Len(t) /\ t[i] = s[i]
      BY <1>2, <2>2
    <3> QED BY <1>3, <3>1 DEF Has
  <2> QED BY <2>1, <2>2
<1>4. ASSUME NEW i \in 1..Len(t), IsJob(t[i]), t[i].id = j PROVE Has(s, j)
  <2>1. i \in 1..Len(s) /\ t[i] = s[i]
    BY <1>2
  <2> QED BY <1>4, <2>1 DEF Has
<1>5. ASSUME IsJob(e), e.id = j PROVE Has(s, j)
  BY <1>1, <1>2, <1>5 DEF Has
<1>6. Has(s, j) <=> Has(t, j) \/ (IsJob(e) /\ e.id = j)
  BY <1>3, <1>4, <1>5 DEF Has
<1> QED BY <1>1, <1>6

\* If the last record is a VM's, its job's is still there.
LEMMA FrontHas ==
    ASSUME NEW s \in Seq(QueueJob), s # <<>>, NEW t, t = SubSeq(s, 1, Len(s) - 1),
           NEW e, e = s[Len(s)]
    PROVE  /\ \A j : Has(s, j) <=> Has(t, j) \/ (IsJob(e) /\ e.id = j)
           /\ Ordered(s) => Ordered(t) /\ (IsVM(e) => Has(t, e.id))
<1>1. /\ Len(s) \in Nat /\ Len(s) >= 1 /\ Len(t) = Len(s) - 1
      /\ \A i \in 1..(Len(s) - 1) : t[i] = s[i]
  BY FrontElements
<1>2. \A j : Has(s, j) <=> Has(t, j) \/ (IsJob(e) /\ e.id = j)
  BY WithoutLastHas
<1>3. ASSUME Ordered(s), NEW i \in 1..Len(t), IsVM(t[i]) PROVE Above(t, i)
  <2>1. i \in 1..Len(s) /\ t[i] = s[i]
    BY <1>1
  <2>2. PICK k \in 1..(i - 1) : IsJob(s[k]) /\ s[k].id = s[i].id
    BY <1>3, <2>1 DEF Ordered, Above
  <2>3. t[k] = s[k]
    BY <1>1
  <2> QED BY <2>1, <2>2, <2>3 DEF Above
<1>4. ASSUME Ordered(s), IsVM(e) PROVE Has(t, e.id)
  <2>1. Len(s) \in 1..Len(s)
    BY <1>1
  <2>2. PICK k \in 1..(Len(s) - 1) : IsJob(s[k]) /\ s[k].id = e.id
    BY <1>4, <2>1 DEF Ordered, Above
  <2>3. k \in 1..Len(t) /\ t[k] = s[k]
    BY <1>1
  <2> QED BY <2>2, <2>3 DEF Has
<1> QED BY <1>2, <1>3, <1>4 DEF Ordered

\* Whatever the last record is, the job it is about is in the list.
LEMMA LastHas ==
    ASSUME NEW s \in Seq(QueueJob), s # <<>>, Ordered(s)
    PROVE  s[Len(s)] \in QueueJob /\ Has(s, s[Len(s)].id)
<1>1. Len(s) \in 1..Len(s) /\ s[Len(s)] \in QueueJob
  OBVIOUS
<1>2. CASE IsJob(s[Len(s)])
  BY <1>1, <1>2 DEF Has
<1>3. CASE IsVM(s[Len(s)])
  <2>1. PICK k \in 1..(Len(s) - 1) : IsJob(s[k]) /\ s[k].id = s[Len(s)].id
    BY <1>1, <1>3 DEF Ordered, Above
  <2>2. k \in 1..Len(s)
    BY <1>1
  <2> QED BY <2>1, <2>2 DEF Has
<1> QED BY <1>1, <1>2, <1>3, JobOrVM

\* A list whose records keep their type and job.
LEMMA RelabelHas ==
    ASSUME NEW s, NEW t, Len(s) \in Nat, Len(t) = Len(s),
           \A i \in 1..Len(s) : t[i].type = s[i].type /\ t[i].id = s[i].id
    PROVE  /\ \A j : Has(t, j) <=> Has(s, j)
           /\ Ordered(s) => Ordered(t)
<1>1. \A i \in 1..Len(s) : (IsJob(t[i]) <=> IsJob(s[i])) /\ (IsVM(t[i]) <=> IsVM(s[i]))
  BY DEF IsJob, IsVM
<1>2. \A j : Has(t, j) <=> Has(s, j)
  BY <1>1 DEF Has
<1>3. ASSUME Ordered(s), NEW i \in 1..Len(t), IsVM(t[i]) PROVE Above(t, i)
  <2>1. PICK k \in 1..(i - 1) : IsJob(s[k]) /\ s[k].id = s[i].id
    BY <1>1, <1>3 DEF Ordered, Above
  <2>2. k \in 1..Len(s)
    OBVIOUS
  <2> QED BY <1>1, <2>1, <2>2 DEF Above
<1> QED BY <1>2, <1>3 DEF Ordered

-----------------------------------------------------------------------------
(* The record of a VM stays with its job's.                                 *)

\* The lists of one handler.
LEMMA OwnLists ==
    ASSUME ListsOK, NEW h \in Handlers
    PROVE  /\ PluginQ(h) \in Keys /\ CleaningQ(h) \in Keys
           /\ Own(h) = db[PluginQ(h)] /\ Cleaning(h) = db[CleaningQ(h)]
           /\ Own(h) \in Seq(QueueJob) /\ Cleaning(h) \in Seq(QueueJob)
BY KeysDiffer DEF ListsOK, Own, Cleaning

\* Listed is Has of the list.
LEMMA ListedHas ==
    ASSUME NEW D, NEW j, NEW k
    PROVE  Listed(D, j, k) <=> Has(D[k], j)
BY DEF Listed, At, Has

LEMMA RecordsGiveVmHasJob == TypeOK /\ Records => VmHasJob
<1> SUFFICES ASSUME TypeOK, Records, NEW h \in Handlers, NEW k \in {PluginQ(h), CleaningQ(h)},
                    NEW i \in 1..Len(db[k]), IsVM(db[k][i])
             PROVE  Listed(db, db[k][i].id, PluginQ(h))
  BY DEF VmHasJob
<1>1. ListsOK /\ HostOK(h)
  BY DEF TypeOK, Records
<1>2. CASE k = PluginQ(h)
  <2>1. i \in 1..Len(Own(h)) /\ db[k][i] = Own(h)[i] /\ Len(Own(h)) \in Nat
    BY <1>1, <1>2, OwnLists
  <2>2. PICK n \in 1..(i - 1) : IsJob(Own(h)[n]) /\ Own(h)[n].id = Own(h)[i].id
    BY <1>1, <2>1 DEF HostOK, Ordered, Above
  <2>3. Has(Own(h), db[k][i].id)
    BY <2>1, <2>2 DEF Has
  <2> QED BY <2>3, ListedHas DEF Own
<1>3. CASE k = CleaningQ(h)
  <2>1. Has(Own(h), db[k][i].id)
    BY <1>1, <1>3 DEF HostOK, Cleaning
  <2> QED BY <2>1, ListedHas DEF Own
<1> QED BY <1>2, <1>3

\* A handler whose lists and data a step leaves alone.
LEMMA HostFrame ==
    ASSUME NEW g \in Handlers, HostOK(g), Keeps(g),
           db'[PluginQ(g)] = db[PluginQ(g)], db'[CleaningQ(g)] = db[CleaningQ(g)]
    PROVE  HostOK(g)'
<1>1. Own(g)' = Own(g) /\ Cleaning(g)' = Cleaning(g)
  BY DEF Own, Cleaning
<1> QED BY <1>1 DEF HostOK, Keeps

\* What a step that moves no record leaves of the lists of a handler.
LEMMA HostLists ==
    ASSUME ListsOK, Relabels(db, db'), NEW h \in Handlers, HostOK(h)
    PROVE  /\ Ordered(Own(h)') /\ Cleaning(h)' = Cleaning(h)
           /\ \A j : Has(Own(h)', j) <=> Has(Own(h), j)
<1>1. Cleaning(h)' = Cleaning(h)
  BY RelabelsCleaning DEF KeepsCleaning
<1>2. /\ Len(Own(h)) \in Nat /\ Len(Own(h)') = Len(Own(h))
      /\ \A i \in 1..Len(Own(h)) :
            Own(h)'[i].type = Own(h)[i].type /\ Own(h)'[i].id = Own(h)[i].id
  BY OwnLists DEF Relabels, Own
<1> QED BY <1>1, <1>2, RelabelHas DEF HostOK

LEMMA HostKeeps ==
    ASSUME ListsOK, Relabels(db, db'), NEW h \in Handlers, HostOK(h), Keeps(h)
    PROVE  HostOK(h)'
BY HostLists DEF HostOK, Keeps

LEMMA HostCareless ==
    ASSUME ListsOK, Relabels(db, db'), NEW h \in Handlers, HostOK(h), Careless(h)
    PROVE  HostOK(h)'
BY HostLists DEF HostOK, Careless, Careful, ClaimsJob, HoldsJob

\* A handler goes on with the job it has.
LEMMA HostGoesOn ==
    ASSUME ListsOK, Relabels(db, db'), NEW h \in Handlers, HostOK(h),
           pc[h] \in HoldsJob, pc'[h] \in HoldsJob, hand'[h].id = hand[h].id
    PROVE  HostOK(h)'
BY HostLists DEF HostOK, ClaimsJob, HoldsJob

\* The main queue after a step that moves no record.
LEMMA MainSame ==
    ASSUME MainOK, ListsOK, Relabels(db, db')
    PROVE  MainOK'
BY KeysDiffer DEF MainOK, Relabels, Keys, MainQ, PluginQ

\* A step of one handler keeps what the others rely on.
LEMMA QuietRecords ==
    ASSUME Records, ListsOK, Relabels(db, db'), NEW h \in Handlers, HostOK(h)', Others(h)
    PROVE  Records'
<1>1. MainOK'
  BY MainSame DEF Records
<1>2. \A g \in Handlers \ {h} : HostOK(g)'
  BY HostKeeps DEF Others, Records
<1> QED BY <1>1, <1>2 DEF Records

\* A step that changes the lists of one handler, and maybe the main queue.
LEMMA HostRecords ==
    ASSUME Records, NEW h \in Handlers, HostOK(h)', MainOK', Others(h),
           \A k \in Keys \ {MainQ, PluginQ(h), CleaningQ(h)} : db'[k] = db[k]
    PROVE  Records'
<1>1. ASSUME NEW g \in Handlers \ {h} PROVE HostOK(g)'
  <2>1. db'[PluginQ(g)] = db[PluginQ(g)] /\ db'[CleaningQ(g)] = db[CleaningQ(g)]
    BY KeysDiffer
  <2> QED BY <2>1, HostFrame DEF Records, Others
<1> QED BY <1>1 DEF Records

\* The steps of Run that move no record.
LEMMA RecordsQuietRun ==
    ASSUME TypeOK, Records, NEW h \in Handlers, Run(h),
           ~RemoveFromMainQueue(h), ~PushClaim(h), ~RecordVM(h)
    PROVE  Records'
<1> USE DEF Goto, Drop, ToCleanup, local
<1>1. /\ LocalOK /\ ListsOK /\ Relabels(db, db') /\ HostOK(h)
      /\ Own(h) \in Seq(QueueJob)
  BY QuietRun, OwnLists DEF TypeOK, Quiet, Records
<1>2. Careless(h) /\ Others(h) => Records'
  BY <1>1, HostCareless, QuietRecords
<1> USE <1>1 DEF LocalOK, Careless, Careful, ClaimsJob, HoldsJob, Others, Keeps
<1>3. CASE LoopEnds(h) BY <1>2, <1>3 DEF LoopEnds, Exit
<1>4. CASE RunFindsCompleted(h) BY <1>2, <1>4 DEF RunFindsCompleted, NewRun
<1>5. CASE RunFindsInProgress(h) BY <1>2, <1>5 DEF RunFindsInProgress, NewRun
<1>6. CASE RunFindsNothing(h) BY <1>2, <1>6 DEF RunFindsNothing, NewRun
<1>7. CASE Resume(h)
  <2>1. Has(Own(h), Own(h)[Len(Own(h))].id)
    BY <1>7, LastHas DEF HostOK, Resume, HasHead
  <2>2. pc'[h] = "claimed" /\ hand'[h] = Own(h)[Len(Own(h))] /\ Others(h)
    BY <1>7 DEF Resume
  <2>3. HostOK(h)'
    BY <2>1, <2>2, HostLists DEF HostOK
  <2> QED BY <2>2, <2>3, QuietRecords
<1>8. CASE ReadMainQueue(h)
  <2> DEFINE n == IF target[h] > Len(db[MainQ]) THEN 0 ELSE target[h]
  <2>1. CASE n >= Len(db[MainQ])
    BY <1>2, <1>8, <2>1 DEF ReadMainQueue
  <2>2. CASE ~(n >= Len(db[MainQ]))
    <3>1. n + 1 \in 1..Len(db[MainQ])
      <4>1. Len(db[MainQ]) \in Nat /\ target[h] \in Nat
        BY KeysDiffer, Elements DEF TypeOK, HostsOK
      <4> QED BY <2>2, <4>1
    <3>2. IsJob(db[MainQ][n + 1])
      BY <3>1 DEF Records, MainOK
    <3>3. pc'[h] = "remove" /\ hand'[h] = db[MainQ][n + 1] /\ Others(h)
      BY <1>8, <2>2 DEF ReadMainQueue
    <3>4. HostOK(h)'
      BY <3>2, <3>3, HostLists DEF HostOK
    <3> QED BY <3>3, <3>4, QuietRecords
  <2> QED BY <2>1, <2>2
<1>9. CASE ClaimFindsCompleted(h) BY <1>2, <1>9 DEF ClaimFindsCompleted
<1>10. CASE ClaimFindsInProgress(h) BY <1>2, <1>10 DEF ClaimFindsInProgress
<1>11. CASE CancelJob(h) BY <1>2, <1>11 DEF CancelJob
<1>12. CASE CancelUnrunnable(h) BY <1>2, <1>12 DEF CancelUnrunnable
<1>13. CASE RetryIsOver(h) BY <1>2, <1>13 DEF RetryIsOver
<1>14. CASE RetryIsRunning(h) BY <1>2, <1>14 DEF RetryIsRunning
<1>15. CASE Prepare(h)
  <2>1. pc[h] = "claimed" /\ hand[h] \in QueueJob
    BY <1>15 DEF Prepare, Preparable, Retried, Checked, TypeOK, ControlOK, HasRecord
  <2>2. CASE Unwritable(h)
    BY <1>2, <1>15, <2>2 DEF Prepare
  <2>3. CASE ~Unwritable(h)
    <3>1. /\ pc'[h] = "obtain" /\ hand'[h] = [hand[h] EXCEPT !.action = "preparing"]
          /\ Others(h)
      BY <1>15, <2>3 DEF Prepare
    <3>2. hand'[h].id = hand[h].id
      BY <2>1, <3>1 DEF QueueJob
    <3>3. HostOK(h)'
      BY <2>1, <3>1, <3>2, HostGoesOn
    <3> QED BY <3>1, <3>3, QuietRecords
  <2> QED BY <2>2, <2>3
<1>16. CASE ObtainVM(h)
  <2>1. pc[h] = "obtain" /\ hand[h] \in QueueJob
    BY <1>16 DEF ObtainVM, TypeOK, ControlOK, HasRecord
  <2>2. PICK v \in VMs : hand' = [hand EXCEPT ![h].vm = v]
    BY <1>16 DEF ObtainVM
  <2>3. pc'[h] = "record" /\ Others(h) /\ hand'[h].id = hand[h].id
    BY <1>16, <2>1, <2>2 DEF ObtainVM, QueueJob
  <2>4. HostOK(h)'
    BY <2>1, <2>3, HostGoesOn
  <2> QED BY <2>3, <2>4, QuietRecords
<1>17. CASE AbandonVM(h) BY <1>2, <1>17 DEF AbandonVM
<1>18. CASE StartRunner(h) BY <1>2, <1>18 DEF StartRunner
<1>19. CASE SeeCompleted(h) BY <1>2, <1>19 DEF SeeCompleted
<1>20. CASE StepFails(h) BY <1>2, <1>20 DEF StepFails
<1>21. CASE NoRunnerRegistered(h) BY <1>2, <1>21 DEF NoRunnerRegistered
<1>22. CASE SixHoursPass(h) BY <1>2, <1>22 DEF SixHoursPass
<1>23. CASE SeeStop(h) BY <1>2, <1>23 DEF SeeStop
<1> QED
  BY <1>3, <1>4, <1>5, <1>6, <1>7, <1>8, <1>9, <1>10, <1>11, <1>12, <1>13, <1>14, <1>15,
     <1>16, <1>17, <1>18, <1>19, <1>20, <1>21, <1>22, <1>23 DEF Run

\* The checkers and faults move no record either.
LEMMA RecordsQuietOther ==
    ASSUME TypeOK, Records, NEW h \in Handlers, Checker(h) \/ Trouble(h) \/ Restart(h)
    PROVE  Records'
<1> USE DEF Goto, Drop, ToCleanup, local
<1>1. LocalOK /\ ListsOK /\ Relabels(db, db') /\ HostOK(h)
  BY QuietChecker, QuietProcess DEF TypeOK, Quiet, Records
<1>2. Careless(h) /\ Others(h) => Records'
  BY <1>1, HostCareless, QuietRecords
<1>3. UNCHANGED <<pc, hand>> => Records'
  <2> SUFFICES ASSUME UNCHANGED <<pc, hand>> PROVE Records'
    OBVIOUS
  <2>1. Keeps(h) /\ Others(h)
    BY DEF Keeps, Others
  <2> QED BY <1>1, <2>1, HostKeeps, QuietRecords
<1> USE <1>1 DEF LocalOK, Careless, Careful, ClaimsJob, HoldsJob, Others, Keeps
<1>4. CASE Checker(h)
  BY <1>3, <1>4 DEF Checker, CheckCompleted, CheckInterrupted, CheckInProgress, CheckStop
<1>5. CASE Signal(h) BY <1>3, <1>5 DEF Signal
<1>6. CASE NoCapacity(h) BY <1>2, <1>6 DEF NoCapacity
<1>7. CASE NoTemplateOnHost(h) BY <1>2, <1>7 DEF NoTemplateOnHost
<1>8. CASE CleanupFails(h) BY <1>2, <1>8 DEF CleanupFails, EndCleanup
<1>9. CASE Crash(h) BY <1>2, <1>9 DEF Crash, Exit
<1>10. CASE Restart(h) BY <1>2, <1>10 DEF Restart
<1> QED
  BY <1>4, <1>5, <1>6, <1>7, <1>8, <1>9, <1>10 DEF Trouble

\* What LREM takes out of the main queue leaves jobs there.
LEMMA RecordsRemove ==
    ASSUME TypeOK, Records, NEW h \in Handlers, RemoveFromMainQueue(h)
    PROVE  Records'
<1> USE DEF Goto, Drop, local
<1>1. ListsOK /\ LocalOK /\ MainQ \in Keys /\ db[MainQ] \in Seq(QueueJob) /\ HostOK(h)
  BY KeysDiffer DEF TypeOK, ListsOK, Records
<1>2. CASE pc' = [pc EXCEPT ![h] = "c0"] /\ UNCHANGED db
  <2>1. Careless(h) /\ Others(h)
    BY <1>1, <1>2 DEF RemoveFromMainQueue, Careless, Careful, ClaimsJob, HoldsJob, Others,
                      Keeps, LocalOK
  <2> QED BY <1>1, <1>2, <2>1, SameRelabels, HostCareless, QuietRecords
<1>3. ASSUME NEW i \in 1..Len(db[MainQ]), db' = LRemAt(db, MainQ, i),
             pc' = [pc EXCEPT ![h] = "push"], UNCHANGED hand
      PROVE  Records'
  <2>1. /\ Len(db'[MainQ]) = Len(db[MainQ]) - 1
        /\ \A n \in 1..Len(db'[MainQ]) : db'[MainQ][n] = db[MainQ][IF n < i THEN n ELSE n + 1]
        /\ \A k \in Keys \ {MainQ} : db'[k] = db[k]
    BY <1>1, <1>3, LRemResult
  <2>2. MainOK'
    <3>1. ASSUME NEW n \in 1..Len(db'[MainQ]) PROVE IsJob(db'[MainQ][n])
      <4>1. (IF n < i THEN n ELSE n + 1) \in 1..Len(db[MainQ])
        BY <1>1, <2>1
      <4> QED BY <2>1, <4>1 DEF Records, MainOK
    <3> QED BY <3>1 DEF MainOK
  <2>3. Own(h)' = Own(h) /\ Cleaning(h)' = Cleaning(h)
    BY <2>1, KeysDiffer DEF Own, Cleaning
  <2>4. pc[h] = "remove" /\ pc'[h] = "push" /\ Others(h)
    BY <1>1, <1>3 DEF RemoveFromMainQueue, Others, Keeps, LocalOK
  <2>5. HostOK(h)'
    BY <1>1, <1>3, <2>3, <2>4 DEF HostOK, ClaimsJob, HoldsJob
  <2> QED BY <2>1, <2>2, <2>4, <2>5, HostRecords
<1> QED BY <1>2, <1>3 DEF RemoveFromMainQueue

\* A handler pushes the job that it claims, or the VM of a job that it has.
LEMMA RecordsPush ==
    ASSUME TypeOK, Records, NEW h \in Handlers, PushClaim(h) \/ RecordVM(h)
    PROVE  Records'
<1> USE DEF Goto, local
<1>1. /\ ListsOK /\ LocalOK /\ Own(h) \in Seq(QueueJob) /\ HostOK(h) /\ hand[h] \in QueueJob
      /\ PluginQ(h) \in Keys /\ db \in Databases(Keys, QueueJob)
  <2>1. hand[h] \in QueueJob
    BY DEF TypeOK, ControlOK, HasRecord, PushClaim, RecordVM
  <2>2. ListsOK /\ LocalOK /\ HostOK(h)
    BY DEF TypeOK, Records
  <2>3. Own(h) \in Seq(QueueJob) /\ PluginQ(h) \in Keys
    BY <2>2, OwnLists
  <2> QED BY <2>1, <2>2, <2>3, Elements
<1>2. PICK e \in QueueJob : /\ db' = RPush(db, PluginQ(h), e) /\ e.id = hand[h].id
                            /\ IsVM(e) => Has(Own(h), e.id)
  <2>1. CASE PushClaim(h)
    <3>1. IsJob(hand[h])
      BY <1>1, <2>1 DEF PushClaim, HostOK, ClaimsJob
    <3> QED BY <1>1, <2>1, <3>1, JobOrVM DEF PushClaim
  <2>2. CASE RecordVM(h)
    <3>1. Has(Own(h), hand[h].id)
      BY <1>1, <2>2 DEF RecordVM, HostOK, HoldsJob
    <3>2. VMRecord(hand[h]) \in QueueJob /\ VMRecord(hand[h]).id = hand[h].id
      BY <1>1, VMRecordType, VMRecordId
    <3> QED BY <2>2, <3>1, <3>2 DEF RecordVM
  <2> QED BY <2>1, <2>2
<1>3. /\ Own(h)' = Append(Own(h), e)
      /\ \A k \in Keys \ {PluginQ(h)} : db'[k] = db[k]
  BY <1>1, <1>2, RPushFact DEF SameBut, Own
<1>4. /\ Ordered(Own(h)')
      /\ \A j : Has(Own(h)', j) <=> Has(Own(h), j) \/ (IsJob(e) /\ e.id = j)
  BY <1>1, <1>2, <1>3, AppendHas DEF HostOK
<1>5. Has(Own(h)', hand[h].id)
  BY <1>2, <1>4, JobOrVM
<1>6. /\ pc'[h] \in {"claimed", "boot"} /\ hand'[h] = hand[h] /\ Others(h)
      /\ Cleaning(h)' = Cleaning(h) /\ MainOK'
  BY <1>1, <1>3, KeysDiffer
     DEF PushClaim, RecordVM, Others, Keeps, LocalOK, Cleaning, Records, MainOK
<1>7. HostOK(h)'
  BY <1>1, <1>4, <1>5, <1>6 DEF HostOK, ClaimsJob, HoldsJob
<1> QED BY <1>3, <1>6, <1>7, HostRecords

\* The cleaning list of a handler has one record, at most.
LEMMA Single ==
    ASSUME ListsOK, CleaningSingle, NEW h \in Handlers, Cleaning(h) # <<>>
    PROVE  /\ Len(Cleaning(h)) = 1 /\ Cleaning(h)[1] \in QueueJob
           /\ Subject(h) = Cleaning(h)[1]
<1>1. Cleaning(h) \in Seq(QueueJob) /\ Len(Cleaning(h)) <= 1
  BY OwnLists DEF CleaningSingle
<1> QED BY <1>1, OneElement DEF Subject

\* RPOPLPUSH from a handler's own list to its empty cleaning list.
LEMMA NextRecordLists ==
    ASSUME ListsOK, NEW h \in Handlers, NextRecord(h), Cleaning(h) = <<>>
    PROVE  /\ Own(h) # <<>> /\ Own(h)' = SubSeq(Own(h), 1, Len(Own(h)) - 1)
           /\ Len(Cleaning(h)') = 1 /\ Cleaning(h)'[1] = Own(h)[Len(Own(h))]
           /\ \A k \in Keys \ {PluginQ(h), CleaningQ(h)} : db'[k] = db[k]
<1> DEFINE src == PluginQ(h)
           dst == CleaningQ(h)
<1>1. src \in Keys /\ dst \in Keys /\ src # dst
  BY KeysDiffer
<1>2. db[src] # <<>> /\ db' = RPopLPush(db, src, dst)
  BY DEF NextRecord, HasHead, Own
<1> HIDE DEF src, dst
<1>3. /\ db'[src] = SubSeq(db[src], 1, Len(db[src]) - 1)
      /\ db'[dst] = <<db[src][Len(db[src])]>> \o db[dst]
      /\ \A k \in Keys \ {src, dst} : db'[k] = db[k]
  BY <1>1, <1>2, MoveType
<1>4. db[src] = Own(h) /\ db'[src] = Own(h)' /\ db[dst] = <<>> /\ db'[dst] = Cleaning(h)'
  BY DEF src, dst, Own, Cleaning
<1>5. Own(h)[Len(Own(h))] \in QueueJob
  BY <1>1, <1>2, <1>4, Elements
<1>6. Len(Cleaning(h)') = 1 /\ Cleaning(h)'[1] = Own(h)[Len(Own(h))]
  <2>1. Cleaning(h)' = <<Own(h)[Len(Own(h))]>> \o <<>>
    BY <1>3, <1>4
  <2>2. \A e \in QueueJob : Len(<<e>> \o <<>>) = 1 /\ (<<e>> \o <<>>)[1] = e
    OBVIOUS
  <2> QED BY <1>5, <2>1, <2>2
<1> QED BY <1>2, <1>3, <1>4, <1>6 DEF src, dst

\* RPOPLPUSH of the only record of a handler's cleaning list, and DEL.
LEMMA PutBackLists ==
    ASSUME TypeOK, CleaningSingle, NEW h \in Handlers, PutBack(h)
    PROVE  /\ Subject(h) \in QueueJob /\ IsJob(Subject(h))
           /\ Len(Cleaning(h)) = 1 /\ Cleaning(h)[1] = Subject(h)
           /\ Own(h)' = <<Subject(h)>> \o Own(h)
           /\ Cleaning(h)' = <<>>
           /\ \A k \in Keys \ {PluginQ(h), CleaningQ(h)} : db'[k] = db[k]
<1> DEFINE src == CleaningQ(h)
           dst == PluginQ(h)
           E == RPopLPush(db, src, dst)
<1>1. ListsOK /\ src \in Keys /\ dst \in Keys /\ src # dst
  BY KeysDiffer DEF TypeOK
<1>2. Cleaning(h) # <<>> /\ IsJob(Subject(h))
  BY DEF PutBack, CleanJob, TypeOK, ControlOK
<1>3. Len(Cleaning(h)) = 1 /\ Cleaning(h)[1] \in QueueJob /\ Subject(h) = Cleaning(h)[1]
  BY <1>1, <1>2, Single
<1>4. db[src] # <<>> /\ db[src][Len(db[src])] = Subject(h) /\ db[dst] = Own(h)
  BY <1>2, <1>3 DEF Cleaning, Own
<1>5. /\ E \in Databases(Keys, QueueJob)
      /\ E[dst] = <<Subject(h)>> \o db[dst]
      /\ \A k \in Keys \ {src, dst} : E[k] = db[k]
  BY <1>1, <1>4, MoveType
<1>6. db' = Del(E, src)
  BY DEF PutBack
<1> HIDE DEF E, src, dst
<1>7. db'[src] = <<>> /\ SameBut(E, db', Keys, src)
  BY <1>1, <1>5, <1>6, DelFact
<1>8. db'[dst] = Own(h)' /\ db'[src] = Cleaning(h)'
  BY DEF src, dst, Own, Cleaning
<1>9. /\ Own(h)' = <<Subject(h)>> \o Own(h) /\ Cleaning(h)' = <<>>
      /\ \A k \in Keys \ {dst, src} : db'[k] = db[k]
  BY <1>1, <1>4, <1>5, <1>7, <1>8 DEF SameBut
<1> QED BY <1>2, <1>3, <1>9 DEF src, dst

\* DEL of a cleaning list.
LEMMA DeletedLists ==
    ASSUME ListsOK, NEW h \in Handlers, db' = Del(db, CleaningQ(h))
    PROVE  /\ Own(h)' = Own(h) /\ Cleaning(h)' = <<>>
           /\ \A k \in Keys \ {CleaningQ(h)} : db'[k] = db[k]
<1>1. db \in Databases(Keys, QueueJob) /\ CleaningQ(h) \in Keys
  BY KeysDiffer, Elements
<1>2. db'[CleaningQ(h)] = <<>> /\ \A k \in Keys \ {CleaningQ(h)} : db'[k] = db[k]
  BY <1>1, DelFact DEF SameBut
<1> QED BY <1>2, KeysDiffer DEF Own, Cleaning

\* RPOP of the only record of a cleaning list.
LEMMA PoppedLists ==
    ASSUME ListsOK, CleaningSingle, NEW h \in Handlers, Cleaning(h) # <<>>,
           db' = RPop(db, CleaningQ(h))
    PROVE  /\ Own(h)' = Own(h) /\ Cleaning(h)' = <<>>
           /\ \A k \in Keys \ {CleaningQ(h)} : db'[k] = db[k]
<1>1. db \in Databases(Keys, QueueJob) /\ CleaningQ(h) \in Keys
  BY KeysDiffer, Elements
<1>2. db'[CleaningQ(h)] = <<>> /\ SameBut(db, db', Keys, CleaningQ(h))
  <2>1. /\ db'[CleaningQ(h)] = SubSeq(Cleaning(h), 1, Len(Cleaning(h)) - 1)
        /\ SameBut(db, db', Keys, CleaningQ(h))
    BY <1>1, RPopFact DEF Cleaning
  <2>2. Cleaning(h) \in Seq(QueueJob) /\ Len(Cleaning(h)) = 1
    BY Single, OwnLists
  <2>3. SubSeq(Cleaning(h), 1, 0) = <<>>
    BY <2>2
  <2> QED BY <2>1, <2>2, <2>3
<1>3. \A k \in Keys \ {CleaningQ(h)} : db'[k] = db[k]
  BY <1>2 DEF SameBut
<1> QED BY <1>2, <1>3, KeysDiffer DEF Own, Cleaning

\* cleanup processes the records of VMs before the job's own record.
LEMMA RecordsCleanup ==
    ASSUME TypeOK, CleaningSingle, Records, NEW h \in Handlers, Cleanup(h)
    PROVE  Records'
<1> USE DEF Goto, local
<1>1. /\ ListsOK /\ LocalOK /\ HostOK(h) /\ MainOK
      /\ Own(h) \in Seq(QueueJob) /\ Cleaning(h) \in Seq(QueueJob)
  BY OwnLists DEF TypeOK, Records
<1>2. ASSUME Careless(h), Others(h), UNCHANGED db PROVE Records'
  BY <1>1, <1>2, SameRelabels, HostCareless, QuietRecords
<1>3. ASSUME pc'[h] \notin Careful \ {"c4", "c5"}, Others(h),
             pc'[h] = "c4" => IsJob(hand'[h]),
             Own(h)' = Own(h), Cleaning(h)' = <<>>, \A k \in Keys \ {CleaningQ(h)} : db'[k] = db[k]
      PROVE  Records'
  <2>1. HostOK(h)'
    BY <1>1, <1>3 DEF HostOK, Careful, ClaimsJob, HoldsJob
  <2>2. MainOK'
    BY <1>1, <1>3, KeysDiffer DEF MainOK
  <2> QED BY <1>3, <2>1, <2>2, HostRecords
<1> USE DEF Careless, Careful, ClaimsJob, HoldsJob, Others, Keeps
<1>4. CASE SkipCleanup(h) \/ BeginCleanup(h) \/ NoRecord(h)
  BY <1>1, <1>2, <1>4 DEF SkipCleanup, BeginCleanup, NoRecord, EndCleanup, LocalOK
<1>5. CASE NextRecord(h)
  <2>1. pc'[h] = "c2" /\ Others(h)
    BY <1>1, <1>5 DEF NextRecord, LocalOK
  <2>2. CASE Cleaning(h) # <<>>
    BY <1>2, <1>5, <2>1, <2>2 DEF NextRecord
  <2>3. CASE Cleaning(h) = <<>>
    <3> DEFINE e == Own(h)[Len(Own(h))]
    <3>1. /\ Own(h) # <<>> /\ Own(h)' = SubSeq(Own(h), 1, Len(Own(h)) - 1)
          /\ Len(Cleaning(h)') = 1 /\ Cleaning(h)'[1] = e
          /\ \A k \in Keys \ {PluginQ(h), CleaningQ(h)} : db'[k] = db[k]
      BY <1>1, <1>5, <2>3, NextRecordLists
    <3>2. Ordered(Own(h)') /\ (IsVM(e) => Has(Own(h)', e.id))
      BY <1>1, <3>1, FrontHas DEF HostOK
    <3>3. HostOK(h)'
      BY <2>1, <3>1, <3>2 DEF HostOK
    <3>4. MainOK'
      BY <1>1, <3>1, KeysDiffer DEF MainOK
    <3> QED BY <2>1, <3>1, <3>3, <3>4, HostRecords
  <2> QED BY <2>2, <2>3
<1>6. CASE DeleteVM(h)
  <2>1. pc'[h] = "c3" /\ Others(h) /\ UNCHANGED db
    BY <1>1, <1>6 DEF DeleteVM, LocalOK
  <2>2. \A i \in 1..Len(Cleaning(h)) : IsVM(Cleaning(h)[i])
    <3>1. Cleaning(h) # <<>> /\ IsVM(Subject(h))
      BY <1>6 DEF DeleteVM, TypeOK, ControlOK
    <3>2. Len(Cleaning(h)) = 1 /\ IsVM(Cleaning(h)[1])
      BY <1>1, <3>1, Single
    <3> QED BY <3>2
  <2>3. HostOK(h)'
    BY <1>1, <2>1, <2>2 DEF HostOK, Own, Cleaning
  <2> QED BY <1>1, <2>1, <2>3, SameRelabels, QuietRecords
<1>7. CASE ForgetVM(h) \/ DropCompleted(h) \/ ForgetReturned(h) \/ DropTimedOut(h)
  <2>1. db' = Del(db, CleaningQ(h)) /\ UNCHANGED hand
    BY <1>7 DEF ForgetVM, DropCompleted, ForgetReturned, DropTimedOut
  <2>2. PICK l \in {"c1", "start", "pick"} : pc' = [pc EXCEPT ![h] = l]
    BY <1>7 DEF ForgetVM, DropCompleted, ForgetReturned, DropTimedOut, EndCleanup
  <2>3. pc'[h] \notin Careful /\ Others(h)
    BY <1>1, <2>1, <2>2 DEF LocalOK
  <2>4. /\ Own(h)' = Own(h) /\ Cleaning(h)' = <<>>
        /\ \A k \in Keys \ {CleaningQ(h)} : db'[k] = db[k]
    BY <1>1, <2>1, DeletedLists
  <2> QED BY <1>3, <2>3, <2>4
<1>8. CASE TakeForReturn(h)
  <2>1. Cleaning(h) # <<>> /\ IsJob(Subject(h)) /\ db' = RPop(db, CleaningQ(h))
    BY <1>8 DEF TakeForReturn, CleanJob, TypeOK, ControlOK
  <2>2. Subject(h) \in QueueJob /\ Cleaning(h)[Len(Cleaning(h))] = Subject(h)
    BY <1>1, <2>1, Single
  <2>3. PICK n \in Nat : hand' = [hand EXCEPT ![h] = Requeued(Subject(h), n)]
    <3>1. Subject(h).attempts \in Nat /\ Subject(h).attempts + 1 \in Nat
      BY <2>2 DEF QueueJob
    <3> QED BY <1>8, <2>2, <3>1 DEF TakeForReturn
  <2>4. pc'[h] = "c4" /\ Others(h) /\ hand'[h] = Requeued(Subject(h), n)
    BY <1>1, <1>8, <2>3 DEF TakeForReturn, LocalOK
  <2>5. IsJob(hand'[h])
    BY <2>1, <2>2, <2>4, RequeuedType DEF IsJob
  <2>6. /\ Own(h)' = Own(h) /\ Cleaning(h)' = <<>>
        /\ \A k \in Keys \ {CleaningQ(h)} : db'[k] = db[k]
    BY <1>1, <2>1, PoppedLists
  <2> QED BY <1>3, <2>4, <2>5, <2>6
<1>9. CASE ReturnToMainQueue(h)
  <2>1. hand[h] \in QueueJob /\ IsJob(hand[h]) /\ Cleaning(h) = <<>>
    BY <1>1, <1>9 DEF ReturnToMainQueue, HostOK, TypeOK, ControlOK, HasRecord
  <2>2. /\ MainQ \in Keys /\ db[MainQ] \in Seq(QueueJob)
        /\ db'[MainQ] = <<hand[h]>> \o db[MainQ]
        /\ \A k \in Keys \ {MainQ} : db'[k] = db[k]
    BY <1>1, <1>9, <2>1, LPushFact, KeysDiffer, Elements DEF ReturnToMainQueue, SameBut
  <2>3. MainOK'
    <3>1. \A i \in 1..Len(db'[MainQ]) :
             db'[MainQ][i] = hand[h] \/ \E n \in 1..Len(db[MainQ]) : db'[MainQ][i] = db[MainQ][n]
      <4>1. \A i \in 1..Len(db'[MainQ]) :
               \/ i = 1 /\ db'[MainQ][i] = hand[h]
               \/ i - 1 \in 1..Len(db[MainQ]) /\ db'[MainQ][i] = db[MainQ][i - 1]
        BY <2>1, <2>2
      <4> QED BY <4>1
    <3> QED BY <1>1, <2>1, <3>1 DEF MainOK
  <2>4. Own(h)' = Own(h) /\ Cleaning(h)' = Cleaning(h)
    BY <2>2, KeysDiffer DEF Own, Cleaning
  <2>5. pc'[h] = "c5" /\ Others(h)
    BY <1>1, <1>9 DEF ReturnToMainQueue, Drop, LocalOK
  <2>6. HostOK(h)'
    BY <1>1, <2>1, <2>4, <2>5 DEF HostOK
  <2> QED BY <2>2, <2>3, <2>5, <2>6, HostRecords
<1>10. CASE PutBack(h)
  <2>1. /\ Subject(h) \in QueueJob /\ IsJob(Subject(h))
        /\ Own(h)' = <<Subject(h)>> \o Own(h) /\ Cleaning(h)' = <<>>
        /\ \A k \in Keys \ {PluginQ(h), CleaningQ(h)} : db'[k] = db[k]
    BY <1>10, PutBackLists
  <2>2. Careless(h) /\ Others(h)
    BY <1>1, <1>10 DEF PutBack, EndCleanup, LocalOK
  <2>3. Ordered(Own(h)')
    BY <1>1, <2>1, ConsHas DEF HostOK
  <2>4. HostOK(h)'
    BY <2>1, <2>2, <2>3 DEF HostOK
  <2>5. MainOK'
    BY <1>1, <2>1, KeysDiffer DEF MainOK
  <2> QED BY <2>1, <2>2, <2>4, <2>5, HostRecords
<1> QED BY <1>4, <1>5, <1>6, <1>7, <1>8, <1>9, <1>10 DEF Cleanup

\* The receiver puts jobs into the main queue.
LEMMA RecordsReceiver ==
    ASSUME TypeOK, Records,
           \/ \E d \in Deliveries : Receive(d)
           \/ \E j \in Jobs : ReceiveEvent(j) \/ JobStarts(j) \/ JobCompletes(j)
           \/ ReceiverRestart
    PROVE  Records'
<1>1. ListsOK /\ UNCHANGED <<pc, hand>>
  BY DEF TypeOK, local, Receive, ReceiveQueued, ListHandlerKeys, ScanHandlerKey, PushQueued,
         ReceiveEvent, ReceiveInProgress, ReceiveCompleted, JobStarts, JobCompletes,
         ReceiverRestart
<1>2. \A h \in Handlers : Keeps(h)
  BY <1>1 DEF Keeps
<1>3. ASSUME Relabels(db, db') PROVE Records'
  BY <1>1, <1>2, <1>3, MainSame, HostKeeps DEF Records
<1>4. ASSUME NEW d \in Deliveries, PushQueued(d) PROVE Records'
  <2>1. PICK e \in QueueJob : IsJob(e) /\ db' = RPush(db, MainQ, e)
    <3>1. JobOf[d] \in Jobs /\ NewJob(JobOf[d]) \in QueueJob
      BY ConstantsAssumption, NewJobType
    <3>2. IsJob(NewJob(JobOf[d]))
      BY DEF NewJob, IsJob
    <3> QED BY <1>4, <3>1, <3>2, Zenon DEF PushQueued
  <2>2. MainQ \in Keys /\ db[MainQ] \in Seq(QueueJob)
    BY <1>1 DEF ListsOK, Keys
  <2>3. db'[MainQ] = Append(db[MainQ], e) /\ \A k \in Keys \ {MainQ} : db'[k] = db[k]
    BY <1>1, <2>1, <2>2, RPushFact, Elements DEF SameBut
  <2>4. MainOK'
    BY <2>1, <2>2, <2>3 DEF Records, MainOK
  <2>5. ASSUME NEW h \in Handlers PROVE HostOK(h)'
    <3>1. db'[PluginQ(h)] = db[PluginQ(h)] /\ db'[CleaningQ(h)] = db[CleaningQ(h)]
      BY <2>3, KeysDiffer
    <3> QED BY <1>2, <3>1, HostFrame DEF Records
  <2> QED BY <2>4, <2>5 DEF Records
<1> QED BY <1>3, <1>4, QuietReceiver DEF Receive, Quiet

LEMMA RecordsInit == Init => Records
<1> SUFFICES ASSUME Init PROVE Records
  OBVIOUS
<1>1. MainQ \in Keys /\ db[MainQ] = <<>>
  BY DEF Init, Keys
<1>2. \A h \in Handlers : Own(h) = <<>> /\ Cleaning(h) = <<>> /\ pc[h] = "start"
  BY KeysDiffer DEF Init, Own, Cleaning
<1> QED
  BY <1>1, <1>2 DEF Records, MainOK, HostOK, Ordered, ClaimsJob, HoldsJob

LEMMA RecordsStep ==
    ASSUME TypeOK, CleaningSingle, Records, [Next]_vars
    PROVE  Records'
<1>1. ASSUME NEW h \in Handlers, Run(h) PROVE Records'
  BY <1>1, RecordsQuietRun, RecordsRemove, RecordsPush
<1>2. ASSUME NEW h \in Handlers, Checker(h) \/ Trouble(h) \/ Restart(h) PROVE Records'
  BY <1>2, RecordsQuietOther
<1>3. CASE UNCHANGED vars
  <2>1. UNCHANGED <<db, pc, hand>>
    BY <1>3 DEF vars, local
  <2> QED BY <2>1 DEF Records, MainOK, HostOK, Own, Cleaning
<1> QED BY <1>1, <1>2, <1>3, RecordsCleanup, RecordsReceiver DEF Next

\* The induction that the theorems of this module rest on.
LEMMA RecordsAlways == Spec => []Records
<1>1. TypeOK /\ CleaningSingle /\ Records /\ [Next]_vars => Records'
  BY RecordsStep
<1> QED BY <1>1, RecordsInit, TypeCorrect, SingleRecordCleaned, PTL DEF Spec

\* As long as a host lists a VM for a job, it has the job's record too,
\* whatever cleanups were cut short and whatever was put back: cleanup takes
\* the newest record first, and the job's was there before any of its VMs'.
THEOREM VmsHaveJobs == Spec => []VmHasJob
BY RecordsAlways, TypeCorrect, RecordsGiveVmHasJob, PTL

-----------------------------------------------------------------------------
(* What each step does to the places where a job has its record.            *)

Listless(j) == \A k \in Keys : ~Has(db[k], j)

LEMMA AbsentListless == \A j : Absent(db, j) <=> Listless(j)
BY ListedHas DEF Absent, Listless

\* A step that moves no record.
LEMMA SameHas ==
    ASSUME ListsOK, Relabels(db, db')
    PROVE  \A k \in Keys : \A j : Has(db'[k], j) <=> Has(db[k], j)
<1> SUFFICES ASSUME NEW k \in Keys PROVE \A j : Has(db'[k], j) <=> Has(db[k], j)
  OBVIOUS
<1>1. Len(db[k]) \in Nat
  BY Elements
<1>2. /\ Len(db'[k]) = Len(db[k])
      /\ \A i \in 1..Len(db[k]) : db'[k][i].type = db[k][i].type /\ db'[k][i].id = db[k][i].id
  BY DEF Relabels
<1> QED BY <1>1, <1>2, RelabelHas

\* A claim that was not too late takes the record of its job into the hand.
LEMMA RemoveEffect ==
    ASSUME TypeOK, NEW h \in Handlers, RemoveFromMainQueue(h)
    PROVE  /\ pc[h] = "remove" /\ Others(h) /\ UNCHANGED rpc
           /\ \/ pc'[h] = "c0" /\ UNCHANGED db
              \/ /\ pc'[h] = "push" /\ hand'[h] = hand[h]
                 /\ \A j : Has(db[MainQ], j) <=>
                           Has(db'[MainQ], j) \/ (IsJob(hand[h]) /\ hand[h].id = j)
                 /\ \A k \in Keys \ {MainQ} : db'[k] = db[k]
<1> USE DEF Goto, local
<1>1. ListsOK /\ LocalOK /\ MainQ \in Keys /\ Len(db[MainQ]) \in Nat
  BY KeysDiffer, Elements DEF TypeOK
<1>2. pc[h] = "remove" /\ Others(h) /\ UNCHANGED rpc
  BY <1>1 DEF RemoveFromMainQueue, Others, Keeps, Drop, LocalOK, receiver
<1>3. CASE pc' = [pc EXCEPT ![h] = "c0"] /\ UNCHANGED db
  BY <1>1, <1>2, <1>3 DEF LocalOK
<1>4. ASSUME NEW i \in 1..Len(db[MainQ]), db[MainQ][i] = hand[h], db' = LRemAt(db, MainQ, i),
             pc' = [pc EXCEPT ![h] = "push"], UNCHANGED hand
      PROVE  /\ pc'[h] = "push" /\ hand'[h] = hand[h]
             /\ \A j : Has(db[MainQ], j) <=>
                       Has(db'[MainQ], j) \/ (IsJob(hand[h]) /\ hand[h].id = j)
             /\ \A k \in Keys \ {MainQ} : db'[k] = db[k]
  <2>1. /\ Len(db'[MainQ]) = Len(db[MainQ]) - 1
        /\ \A n \in 1..Len(db'[MainQ]) : db'[MainQ][n] = db[MainQ][IF n < i THEN n ELSE n + 1]
        /\ \A k \in Keys \ {MainQ} : db'[k] = db[k]
    BY <1>1, <1>4, LRemResult
  <2>2. PICK s, t, e : s = db[MainQ] /\ t = db'[MainQ] /\ e = s[i]
    OBVIOUS
  <2>3. \A j : Has(s, j) <=> Has(t, j) \/ (IsJob(e) /\ e.id = j)
    <3>1. /\ Len(s) \in Nat /\ i \in 1..Len(s) /\ Len(t) = Len(s) - 1
          /\ \A n \in 1..Len(t) : t[n] = s[IF n < i THEN n ELSE n + 1]
      BY <1>1, <2>1, <2>2
    <3>2. /\ \A n \in 1..(i - 1) : t[n] = s[n]
          /\ \A n \in i..Len(t) : t[n] = s[n + 1]
      BY <3>1
    <3>3. ASSUME NEW j, NEW n \in 1..Len(s), IsJob(s[n]), s[n].id = j
          PROVE  Has(t, j) \/ (IsJob(e) /\ e.id = j)
      <4>1. CASE n < i
        <5>1. n \in 1..Len(t) /\ t[n] = s[n]
          BY <3>1, <3>2, <4>1
        <5> QED BY <3>3, <5>1 DEF Has
      <4>2. CASE n = i BY <2>2, <3>3, <4>2
      <4>3. CASE n > i
        <5>1. n - 1 \in 1..Len(t) /\ t[n - 1] = s[n]
          BY <3>1, <3>2, <4>3
        <5> QED BY <3>3, <5>1 DEF Has
      <4> QED BY <3>1, <4>1, <4>2, <4>3
    <3>4. ASSUME NEW j, NEW n \in 1..Len(t), IsJob(t[n]), t[n].id = j PROVE Has(s, j)
      <4>1. PICK m \in 1..Len(s) : t[n] = s[m]
        <5>1. (IF n < i THEN n ELSE n + 1) \in 1..Len(s)
          BY <3>1
        <5> QED BY <3>1, <5>1
      <4> QED BY <3>4, <4>1 DEF Has
    <3>5. \A j : IsJob(e) /\ e.id = j => Has(s, j)
      BY <2>2, <3>1 DEF Has
    <3> QED BY <3>3, <3>4, <3>5 DEF Has
  <2> QED BY <1>1, <1>4, <2>1, <2>2, <2>3 DEF LocalOK
<1> QED BY <1>2, <1>3, <1>4 DEF RemoveFromMainQueue, FirstAt

\* What a handler pushes to its own list.
LEMMA PushEffect ==
    ASSUME TypeOK, Records, NEW h \in Handlers, PushClaim(h)
    PROVE  /\ pc[h] = "push" /\ pc'[h] = "claimed" /\ Others(h) /\ UNCHANGED rpc
           /\ \A j : Has(db'[PluginQ(h)], j) <=> Has(db[PluginQ(h)], j) \/ hand[h].id = j
           /\ \A k \in Keys \ {PluginQ(h)} : db'[k] = db[k]
<1>1. pc[h] = "push" /\ pc'[h] = "claimed" /\ Others(h) /\ UNCHANGED rpc
  BY DEF PushClaim, Goto, Others, Keeps, TypeOK, LocalOK, receiver
<1>2. PICK e \in QueueJob : e = hand[h] /\ IsJob(e)
  BY <1>1 DEF TypeOK, ControlOK, HasRecord, Records, HostOK, ClaimsJob
<1>3. PluginQ(h) \in Keys /\ db[PluginQ(h)] \in Seq(QueueJob) /\ db \in Databases(Keys, QueueJob)
  BY KeysDiffer, Elements DEF TypeOK
<1>4. /\ db'[PluginQ(h)] = Append(db[PluginQ(h)], e)
      /\ \A k \in Keys \ {PluginQ(h)} : db'[k] = db[k]
  BY <1>2, <1>3, RPushFact DEF PushClaim, SameBut
<1>5. \A j : Has(db'[PluginQ(h)], j) <=> Has(db[PluginQ(h)], j) \/ (IsJob(e) /\ e.id = j)
  BY <1>3, <1>4, AppendHas
<1> QED BY <1>1, <1>2, <1>4, <1>5

LEMMA RecordEffect ==
    ASSUME TypeOK, NEW h \in Handlers, RecordVM(h)
    PROVE  /\ pc[h] = "record" /\ pc'[h] = "boot" /\ Others(h) /\ UNCHANGED rpc
           /\ \A k \in Keys : \A j : Has(db'[k], j) <=> Has(db[k], j)
<1>1. pc[h] = "record" /\ pc'[h] = "boot" /\ Others(h) /\ UNCHANGED rpc
  BY DEF RecordVM, Goto, Others, Keeps, TypeOK, LocalOK, receiver
<1>2. PICK e \in QueueJob : IsVM(e) /\ db' = RPush(db, PluginQ(h), e)
  BY <1>1, VMRecordType DEF RecordVM, TypeOK, ControlOK, HasRecord
<1>3. PluginQ(h) \in Keys /\ db[PluginQ(h)] \in Seq(QueueJob) /\ db \in Databases(Keys, QueueJob)
  BY KeysDiffer, Elements DEF TypeOK
<1>4. /\ db'[PluginQ(h)] = Append(db[PluginQ(h)], e)
      /\ \A k \in Keys \ {PluginQ(h)} : db'[k] = db[k]
  BY <1>2, <1>3, RPushFact DEF SameBut
<1>5. \A j : Has(db'[PluginQ(h)], j) <=> Has(db[PluginQ(h)], j)
  BY <1>2, <1>3, <1>4, AppendHas, JobOrVM
<1> QED BY <1>1, <1>4, <1>5

\* Of the job whose record cleanup takes the handler has one afterwards.
LEMMA NextEffect ==
    ASSUME TypeOK, NEW h \in Handlers, NextRecord(h), Cleaning(h) = <<>>
    PROVE  /\ \A j : ~Has(db[CleaningQ(h)], j)
           /\ \A j : Has(db[PluginQ(h)], j) <=>
                     Has(db'[PluginQ(h)], j) \/ Has(db'[CleaningQ(h)], j)
           /\ \A k \in Keys \ {PluginQ(h), CleaningQ(h)} : db'[k] = db[k]
<1>1. ListsOK /\ Own(h) \in Seq(QueueJob)
  BY OwnLists DEF TypeOK
<1>2. PICK e : /\ e = Own(h)[Len(Own(h))]
      /\ Own(h) # <<>> /\ Own(h)' = SubSeq(Own(h), 1, Len(Own(h)) - 1)
      /\ Len(Cleaning(h)') = 1 /\ Cleaning(h)'[1] = e
      /\ \A k \in Keys \ {PluginQ(h), CleaningQ(h)} : db'[k] = db[k]
  BY <1>1, NextRecordLists
<1>3. \A j : Has(Own(h), j) <=> Has(Own(h)', j) \/ (IsJob(e) /\ e.id = j)
  BY <1>1, <1>2, WithoutLastHas
<1>4. \A j : Has(Cleaning(h)', j) <=> IsJob(e) /\ e.id = j
  BY <1>2 DEF Has
<1>5. \A j : ~Has(Cleaning(h), j)
  BY DEF Has
<1> QED BY <1>2, <1>3, <1>4, <1>5 DEF Own, Cleaning

LEMMA PutBackEffect ==
    ASSUME TypeOK, CleaningSingle, NEW h \in Handlers, PutBack(h)
    PROVE  /\ \A j : Has(db'[PluginQ(h)], j) <=>
                     Has(db[PluginQ(h)], j) \/ Has(db[CleaningQ(h)], j)
           /\ \A j : ~Has(db'[CleaningQ(h)], j)
           /\ \A k \in Keys \ {PluginQ(h), CleaningQ(h)} : db'[k] = db[k]
<1>1. /\ Subject(h) \in QueueJob /\ IsJob(Subject(h)) /\ Own(h) \in Seq(QueueJob)
      /\ Len(Cleaning(h)) = 1 /\ Cleaning(h)[1] = Subject(h)
      /\ Own(h)' = <<Subject(h)>> \o Own(h) /\ Cleaning(h)' = <<>>
      /\ \A k \in Keys \ {PluginQ(h), CleaningQ(h)} : db'[k] = db[k]
  BY PutBackLists, OwnLists DEF TypeOK
<1>2. \A j : Has(Own(h)', j) <=> Has(Own(h), j) \/ Subject(h).id = j
  BY <1>1, ConsHas
<1>3. \A j : Has(Cleaning(h), j) <=> Subject(h).id = j
  BY <1>1 DEF Has
<1>4. \A j : ~Has(Cleaning(h)', j)
  BY <1>1 DEF Has
<1> QED BY <1>1, <1>2, <1>3, <1>4 DEF Own, Cleaning

\* A job that is to go back is in the handler's memory, and then in the main
\* queue.
LEMMA TakeEffect ==
    ASSUME TypeOK, CleaningSingle, NEW h \in Handlers, TakeForReturn(h)
    PROVE  /\ pc[h] = "c2" /\ pc'[h] = "c4" /\ Others(h) /\ UNCHANGED rpc
           /\ \A j : Has(db[CleaningQ(h)], j) <=> hand'[h].id = j
           /\ \A j : ~Has(db'[CleaningQ(h)], j)
           /\ \A k \in Keys \ {CleaningQ(h)} : db'[k] = db[k]
<1>1. ListsOK /\ LocalOK
  BY DEF TypeOK
<1>2. pc[h] = "c2" /\ Cleaning(h) # <<>> /\ IsJob(Subject(h)) /\ db' = RPop(db, CleaningQ(h))
  BY DEF TakeForReturn, CleanJob, TypeOK, ControlOK
<1>3. /\ Subject(h) \in QueueJob /\ Cleaning(h)[Len(Cleaning(h))] = Subject(h)
      /\ Len(Cleaning(h)) = 1 /\ Cleaning(h)[1] = Subject(h)
  BY <1>1, <1>2, Single
<1>4. PICK n \in Nat : hand' = [hand EXCEPT ![h] = Requeued(Subject(h), n)]
  <2>1. Subject(h).attempts \in Nat /\ Subject(h).attempts + 1 \in Nat
    BY <1>3 DEF QueueJob
  <2> QED BY <1>3, <2>1 DEF TakeForReturn
<1>5. pc'[h] = "c4" /\ Others(h) /\ UNCHANGED rpc /\ hand'[h] = Requeued(Subject(h), n)
  BY <1>1, <1>4 DEF TakeForReturn, CleanJob, Goto, Others, Keeps, LocalOK, receiver
<1>6. hand'[h].id = Subject(h).id
  BY <1>3, <1>5, RequeuedType
<1>7. \A j : Has(Cleaning(h), j) <=> hand'[h].id = j
  BY <1>2, <1>3, <1>6 DEF Has
<1>8. Cleaning(h)' = <<>> /\ \A k \in Keys \ {CleaningQ(h)} : db'[k] = db[k]
  BY <1>1, <1>2, PoppedLists
<1>9. \A j : ~Has(Cleaning(h)', j)
  BY <1>8 DEF Has
<1> QED BY <1>2, <1>5, <1>7, <1>8, <1>9 DEF Cleaning

LEMMA ReturnEffect ==
    ASSUME TypeOK, Records, NEW h \in Handlers, ReturnToMainQueue(h)
    PROVE  /\ pc[h] = "c4" /\ pc'[h] = "c5" /\ Others(h) /\ UNCHANGED rpc
           /\ \A j : Has(db'[MainQ], j) <=> Has(db[MainQ], j) \/ hand[h].id = j
           /\ \A k \in Keys \ {MainQ} : db'[k] = db[k]
<1>1. pc[h] = "c4" /\ pc'[h] = "c5" /\ Others(h) /\ UNCHANGED rpc
  BY DEF ReturnToMainQueue, Goto, Drop, Others, Keeps, TypeOK, LocalOK, receiver
<1>2. PICK e \in QueueJob : e = hand[h] /\ IsJob(e)
  BY <1>1 DEF TypeOK, ControlOK, HasRecord, Records, HostOK, ClaimsJob
<1>3. MainQ \in Keys /\ db[MainQ] \in Seq(QueueJob) /\ db \in Databases(Keys, QueueJob)
  BY KeysDiffer, Elements DEF TypeOK
<1>4. /\ db'[MainQ] = <<e>> \o db[MainQ]
      /\ \A k \in Keys \ {MainQ} : db'[k] = db[k]
  BY <1>2, <1>3, LPushFact DEF ReturnToMainQueue, SameBut
<1>5. \A j : Has(db'[MainQ], j) <=> Has(db[MainQ], j) \/ (IsJob(e) /\ e.id = j)
  BY <1>3, <1>4, ConsHas
<1> QED BY <1>1, <1>2, <1>4, <1>5

\* What DEL destroys.
LEMMA DeleteEffect ==
    ASSUME TypeOK, CleaningSingle, Records, NEW h \in Handlers,
           ForgetVM(h) \/ DropCompleted(h) \/ ForgetReturned(h) \/ DropTimedOut(h)
    PROVE  /\ pc[h] \notin {"push", "c4"} /\ pc'[h] \notin {"push", "c4"}
           /\ Others(h) /\ UNCHANGED rpc
           /\ \A j : ~Has(db'[CleaningQ(h)], j)
           /\ \A j : Has(db[CleaningQ(h)], j) => Finished(j)
           /\ \A k \in Keys \ {CleaningQ(h)} : db'[k] = db[k]
<1> USE DEF Goto
<1>1. ListsOK /\ LocalOK /\ HostOK(h) /\ CleaningQ(h) \in Keys
  BY KeysDiffer DEF TypeOK, Records
<1>2. db' = Del(db, CleaningQ(h)) /\ UNCHANGED <<hand, rpc>> /\ pc[h] \in {"c2", "c3", "c5"}
  BY DEF ForgetVM, DropCompleted, ForgetReturned, DropTimedOut, CleanJob, receiver
<1>3. PICK l \in {"c1", "start", "pick"} : pc' = [pc EXCEPT ![h] = l]
  BY DEF ForgetVM, DropCompleted, ForgetReturned, DropTimedOut, EndCleanup
<1>4. pc'[h] \notin {"push", "c4"} /\ Others(h)
  BY <1>1, <1>2, <1>3 DEF Others, Keeps, LocalOK
<1>5. Cleaning(h)' = <<>> /\ \A k \in Keys \ {CleaningQ(h)} : db'[k] = db[k]
  BY <1>1, <1>2, DeletedLists
<1>6. \A j : ~Has(Cleaning(h)', j)
  BY <1>5 DEF Has
<1>7. ASSUME NEW j, Has(Cleaning(h), j) PROVE Finished(j)
  <2>1. Cleaning(h) # <<>>
    BY <1>7 DEF Has
  <2>2. /\ Len(Cleaning(h)) = 1 /\ Cleaning(h)[1] = Subject(h)
        /\ Subject(h) \in QueueJob
    BY <1>1, <2>1, Single
  <2>3. IsJob(Subject(h)) /\ Subject(h).id = j
    BY <1>7, <2>2 DEF Has
  <2>4. ~ForgetVM(h) /\ ~ForgetReturned(h)
    BY <1>1, <2>1, <2>2, <2>3, JobOrVM DEF ForgetVM, ForgetReturned, HostOK
  <2>5. Subject(h).status \in {"completed", "timed_out"}
    BY <2>4 DEF DropCompleted, DropTimedOut
  <2>6. 1 \in 1..Len(db[CleaningQ(h)]) /\ db[CleaningQ(h)][1] = Subject(h)
    BY <2>2 DEF Cleaning
  <2>7. At(db, j, CleaningQ(h), 1)
    BY <2>3, <2>6 DEF At
  <2> QED BY <1>1, <2>5, <2>6, <2>7 DEF Finished
<1> QED BY <1>2, <1>4, <1>5, <1>6, <1>7 DEF Cleaning

\* The receiver's push.
LEMMA PushQueuedEffect ==
    ASSUME TypeOK, NEW d \in Deliveries, PushQueued(d)
    PROVE  /\ UNCHANGED <<pc, hand>> /\ rpc' = [rpc EXCEPT ![d] = "done"]
           /\ \A j : Has(db'[MainQ], j) <=> Has(db[MainQ], j) \/ JobOf[d] = j
           /\ \A k \in Keys \ {MainQ} : db'[k] = db[k]
<1>1. PICK e \in QueueJob : IsJob(e) /\ e.id = JobOf[d] /\ db' = RPush(db, MainQ, e)
  <2>1. JobOf[d] \in Jobs /\ NewJob(JobOf[d]) \in QueueJob
    BY ConstantsAssumption, NewJobType
  <2>2. IsJob(NewJob(JobOf[d])) /\ NewJob(JobOf[d]).id = JobOf[d]
    BY DEF NewJob, IsJob
  <2> QED BY <2>1, <2>2, Zenon DEF PushQueued
<1>2. MainQ \in Keys /\ db[MainQ] \in Seq(QueueJob) /\ db \in Databases(Keys, QueueJob)
  BY Elements DEF TypeOK, Keys
<1>3. db'[MainQ] = Append(db[MainQ], e) /\ \A k \in Keys \ {MainQ} : db'[k] = db[k]
  BY <1>1, <1>2, RPushFact DEF SameBut
<1>4. \A j : Has(db'[MainQ], j) <=> Has(db[MainQ], j) \/ (IsJob(e) /\ e.id = j)
  BY <1>2, <1>3, AppendHas
<1> QED BY <1>1, <1>3, <1>4 DEF PushQueued, local

-----------------------------------------------------------------------------
(* No record disappears on the way.                                         *)

Somewhere(j) == \E k \in Keys : Has(db[k], j)
In(j, h) == Somewhere(j) \/ InTransit(j, h)

\* What may happen to a job that is not tracked any more (NeverLost).
Excused(j) ==
    \/ Finished(j)
    \/ \E h \in Handlers :
          InTransit(j, h) /\ (faults' = faults + 1 \/ (pc[h] = "push" /\ ~Live(h)))

LEMMA TrackedIn ==
    ASSUME NEW j
    PROVE  /\ Tracked(j) <=> Somewhere(j) \/ \E h \in Handlers : InTransit(j, h)
           /\ Tracked(j)' <=> Somewhere(j)' \/ \E h \in Handlers : InTransit(j, h)'
<1>1. \A k \in Keys : /\ Listed(db, j, k) <=> Has(db[k], j)
                      /\ Listed(db', j, k) <=> Has(db'[k], j)
  BY ListedHas
<1> QED BY <1>1 DEF Tracked, Absent, Somewhere

\* A step of handler h keeps the job if h does: the others keep what they have.
LEMMA StillTracked ==
    ASSUME NEW h \in Handlers, Others(h), NEW j, Tracked(j), In(j, h) => In(j, h)'
    PROVE  Tracked(j)'
<1>1. CASE In(j, h)
  BY <1>1, TrackedIn DEF In
<1>2. CASE ~In(j, h)
  <2>1. PICK g \in Handlers \ {h} : InTransit(j, g)
    BY <1>2, TrackedIn DEF In
  <2>2. InTransit(j, g)'
    BY <2>1 DEF Others, Keeps, InTransit
  <2> QED BY <2>2, TrackedIn
<1> QED BY <1>1, <1>2

\* A step that moves no record loses at most what its handler has in memory.
LEMMA QuietTracked ==
    ASSUME ListsOK, Relabels(db, db'), NEW h \in Handlers, Others(h), NEW j, Tracked(j),
           InTransit(j, h) => Keeps(h)
    PROVE  Tracked(j)'
<1>1. Somewhere(j) => Somewhere(j)'
  BY SameHas DEF Somewhere
<1>2. InTransit(j, h) => InTransit(j, h)'
  BY DEF InTransit, Keeps
<1> QED BY <1>1, <1>2, StillTracked DEF In

LEMMA TrackedRun ==
    ASSUME TypeOK, Records, NEW h \in Handlers, Run(h), NEW j, Tracked(j), ~Excused(j)
    PROVE  Tracked(j)'
<1> USE KeysDiffer
<1>1. CASE RemoveFromMainQueue(h)
  <2>1. Others(h) /\ ~InTransit(j, h)
    BY <1>1, RemoveEffect DEF InTransit
  <2>2. Somewhere(j) => In(j, h)'
    <3>1. CASE UNCHANGED db
      BY <3>1 DEF Somewhere, In
    <3>2. CASE /\ pc'[h] = "push" /\ hand'[h] = hand[h]
               /\ \A i : Has(db[MainQ], i) <=>
                         Has(db'[MainQ], i) \/ (IsJob(hand[h]) /\ hand[h].id = i)
               /\ \A k \in Keys \ {MainQ} : db'[k] = db[k]
      BY <3>2 DEF Somewhere, In, InTransit
    <3> QED BY <1>1, <3>1, <3>2, RemoveEffect
  <2> QED BY <2>1, <2>2, StillTracked DEF In
<1>2. CASE PushClaim(h)
  <2>1. /\ Others(h) /\ PluginQ(h) \in Keys
        /\ \A i : Has(db'[PluginQ(h)], i) <=> Has(db[PluginQ(h)], i) \/ hand[h].id = i
        /\ \A k \in Keys \ {PluginQ(h)} : db'[k] = db[k]
    BY <1>2, PushEffect
  <2>2. In(j, h) => In(j, h)'
    BY <2>1 DEF Somewhere, In, InTransit
  <2> QED BY <2>1, <2>2, StillTracked
<1>3. CASE RecordVM(h)
  <2>1. /\ Others(h) /\ ~InTransit(j, h)
        /\ \A k \in Keys : \A i : Has(db'[k], i) <=> Has(db[k], i)
    BY <1>3, RecordEffect DEF InTransit
  <2> QED BY <2>1, StillTracked DEF Somewhere, In
<1>4. CASE ~RemoveFromMainQueue(h) /\ ~PushClaim(h) /\ ~RecordVM(h)
  <2>1. ListsOK /\ Relabels(db, db') /\ Others(h)
    BY <1>4, QuietRun DEF TypeOK, Quiet, Moves, Others, Keeps
  <2>2. pc[h] \in {"push", "c4"} => pc[h] = "push" /\ ~Live(h)
    BY <1>4 DEF Run, LoopEnds, RunFindsCompleted, RunFindsInProgress, RunFindsNothing, NewRun,
                Resume, ReadMainQueue, ClaimFindsCompleted, ClaimFindsInProgress, CancelJob,
                CancelUnrunnable, RetryIsOver, RetryIsRunning, Prepare, Preparable, Retried,
                Checked, ObtainVM, AbandonVM, StartRunner, SeeCompleted, StepFails,
                NoRunnerRegistered, SixHoursPass, SeeStop, RunPcs
  <2>3. ~InTransit(j, h)
    BY <2>2 DEF InTransit, Excused
  <2> QED BY <2>1, <2>3, QuietTracked
<1> QED BY <1>1, <1>2, <1>3, <1>4

LEMMA TrackedCleanup ==
    ASSUME TypeOK, CleaningSingle, Records, NEW h \in Handlers, Cleanup(h),
           NEW j, Tracked(j), ~Excused(j)
    PROVE  Tracked(j)'
<1> USE DEF Somewhere, In, InTransit
<1>1. CASE SkipCleanup(h) \/ BeginCleanup(h) \/ NoRecord(h) \/ DeleteVM(h)
  <2>1. ListsOK /\ LocalOK /\ Relabels(db, db') /\ pc[h] \notin {"push", "c4"}
    BY <1>1, QuietCleanup DEF TypeOK, Quiet, SkipCleanup, BeginCleanup, NoRecord, DeleteVM
  <2>2. Others(h)
    BY <1>1, <2>1 DEF Others, Keeps, LocalOK, SkipCleanup, BeginCleanup, NoRecord, DeleteVM,
                      EndCleanup, Goto, local
  <2> QED BY <2>1, <2>2, QuietTracked
<1>2. CASE NextRecord(h)
  <2>1. Others(h) /\ pc[h] = "c1" /\ ListsOK
    BY <1>2 DEF NextRecord, Goto, TypeOK, LocalOK, Others, Keeps
  <2>2. CASE Cleaning(h) # <<>>
    BY <1>2, <2>1, <2>2, QuietCleanup, QuietTracked DEF Quiet
  <2>3. CASE Cleaning(h) = <<>>
    <3>1. /\ \A i : Has(db[PluginQ(h)], i) <=>
                    Has(db'[PluginQ(h)], i) \/ Has(db'[CleaningQ(h)], i)
          /\ \A i : ~Has(db[CleaningQ(h)], i)
          /\ \A k \in Keys \ {PluginQ(h), CleaningQ(h)} : db'[k] = db[k]
          /\ PluginQ(h) \in Keys /\ CleaningQ(h) \in Keys
      BY <1>2, <2>3, NextEffect, KeysDiffer
    <3>2. Somewhere(j) => Somewhere(j)'
      BY <3>1
    <3> QED BY <2>1, <3>2, StillTracked
  <2> QED BY <2>2, <2>3
<1>3. CASE PutBack(h)
  <2>1. Others(h) /\ pc[h] = "c2"
    BY <1>3 DEF PutBack, CleanJob, EndCleanup, Goto, TypeOK, LocalOK, Others, Keeps
  <2>2. /\ \A i : Has(db'[PluginQ(h)], i) <=>
                  Has(db[PluginQ(h)], i) \/ Has(db[CleaningQ(h)], i)
        /\ \A k \in Keys \ {PluginQ(h), CleaningQ(h)} : db'[k] = db[k]
        /\ PluginQ(h) \in Keys /\ CleaningQ(h) \in Keys
    BY <1>3, PutBackEffect, KeysDiffer
  <2>3. Somewhere(j) => Somewhere(j)'
    BY <2>2
  <2> QED BY <2>1, <2>3, StillTracked
<1>4. CASE TakeForReturn(h)
  <2>1. /\ pc[h] = "c2" /\ pc'[h] = "c4" /\ Others(h)
        /\ \A i : Has(db[CleaningQ(h)], i) <=> hand'[h].id = i
        /\ \A k \in Keys \ {CleaningQ(h)} : db'[k] = db[k]
    BY <1>4, TakeEffect
  <2>2. Somewhere(j) => In(j, h)'
    BY <2>1
  <2> QED BY <2>1, <2>2, StillTracked
<1>5. CASE ReturnToMainQueue(h)
  <2>1. /\ Others(h) /\ MainQ \in Keys
        /\ \A i : Has(db'[MainQ], i) <=> Has(db[MainQ], i) \/ hand[h].id = i
        /\ \A k \in Keys \ {MainQ} : db'[k] = db[k]
    BY <1>5, ReturnEffect, KeysDiffer
  <2>2. In(j, h) => In(j, h)'
    BY <2>1
  <2> QED BY <2>1, <2>2, StillTracked
<1>6. CASE ForgetVM(h) \/ DropCompleted(h) \/ ForgetReturned(h) \/ DropTimedOut(h)
  <2>1. /\ Others(h) /\ pc[h] \notin {"push", "c4"}
        /\ \A i : Has(db[CleaningQ(h)], i) => Finished(i)
        /\ \A k \in Keys \ {CleaningQ(h)} : db'[k] = db[k]
    BY <1>6, DeleteEffect
  <2>2. Somewhere(j) => Somewhere(j)'
    BY <2>1 DEF Excused
  <2> QED BY <2>1, <2>2, StillTracked
<1> QED BY <1>1, <1>2, <1>3, <1>4, <1>5, <1>6 DEF Cleanup

LEMMA TrackedOther ==
    ASSUME TypeOK, NEW h \in Handlers, Checker(h) \/ Trouble(h) \/ Restart(h),
           NEW j, Tracked(j), ~Excused(j)
    PROVE  Tracked(j)'
<1> USE DEF Goto, Drop, ToCleanup, local
<1>1. ListsOK /\ LocalOK /\ Relabels(db, db')
  BY QuietChecker, QuietProcess DEF TypeOK, Quiet
<1>2. ASSUME UNCHANGED <<pc, hand>> PROVE Tracked(j)'
  BY <1>1, <1>2, QuietTracked DEF Others, Keeps
<1>3. ASSUME Others(h), pc[h] \in {"push", "c4"} => faults' = faults + 1 PROVE Tracked(j)'
  <2>1. ~InTransit(j, h)
    BY <1>3 DEF Excused, InTransit
  <2> QED BY <1>1, <1>3, <2>1, QuietTracked
<1> USE <1>1 DEF LocalOK, Others, Keeps
<1>4. CASE Checker(h)
  BY <1>2, <1>4 DEF Checker, CheckCompleted, CheckInterrupted, CheckInProgress, CheckStop
<1>5. CASE Signal(h) BY <1>2, <1>5 DEF Signal
<1>6. CASE NoCapacity(h) BY <1>3, <1>6 DEF NoCapacity
<1>7. CASE NoTemplateOnHost(h) BY <1>3, <1>7 DEF NoTemplateOnHost
<1>8. CASE CleanupFails(h) BY <1>3, <1>8 DEF CleanupFails, EndCleanup, Fault
<1>9. CASE Crash(h) BY <1>3, <1>9 DEF Crash, Exit, Fault
<1>10. CASE Restart(h) BY <1>3, <1>10 DEF Restart
<1> QED
  BY <1>4, <1>5, <1>6, <1>7, <1>8, <1>9, <1>10 DEF Trouble

\* The receivers and GitHub take no record away.
LEMMA TrackedReceiver ==
    ASSUME TypeOK,
           \/ \E d \in Deliveries : Receive(d)
           \/ \E j \in Jobs : ReceiveEvent(j) \/ JobStarts(j) \/ JobCompletes(j)
           \/ ReceiverRestart,
           NEW j, Tracked(j)
    PROVE  Tracked(j)'
<1>1. ListsOK /\ UNCHANGED <<pc, hand>>
  BY DEF TypeOK, local, Receive, ReceiveQueued, ListHandlerKeys, ScanHandlerKey, PushQueued,
         ReceiveEvent, ReceiveInProgress, ReceiveCompleted, JobStarts, JobCompletes,
         ReceiverRestart
<1>2. Somewhere(j) => Somewhere(j)'
  <2>1. ASSUME NEW d \in Deliveries, PushQueued(d) PROVE Somewhere(j) => Somewhere(j)'
    <3>1. /\ \A i : Has(db'[MainQ], i) <=> Has(db[MainQ], i) \/ JobOf[d] = i
          /\ \A k \in Keys \ {MainQ} : db'[k] = db[k]
      BY <2>1, PushQueuedEffect
    <3> QED BY <3>1 DEF Somewhere
  <2>2. ASSUME Relabels(db, db') PROVE Somewhere(j) => Somewhere(j)'
    BY <1>1, <2>2, SameHas DEF Somewhere
  <2> QED BY <2>1, <2>2, QuietReceiver DEF Receive, Quiet
<1>3. \A h \in Handlers : InTransit(j, h) => InTransit(j, h)'
  BY <1>1 DEF InTransit
<1> QED BY <1>2, <1>3, TrackedIn

LEMMA TrackedStep ==
    ASSUME TypeOK, CleaningSingle, Records, [Next]_vars, NEW j, Tracked(j), ~Excused(j)
    PROVE  Tracked(j)'
<1>1. CASE UNCHANGED vars
  BY <1>1 DEF vars, local, Tracked, InTransit
<1>2. CASE Next
  BY <1>2, TrackedRun, TrackedCleanup, TrackedOther, TrackedReceiver DEF Next
<1> QED BY <1>1, <1>2

\* Whatever fails, crashes or is stopped, and however often a job is delivered:
\* a record leaves the lists only once its job is finished, or with a handler
\* that had popped it and not yet pushed it.
THEOREM RecordsAreNeverLost == Spec => NeverLost
<1>1. /\ TypeOK /\ CleaningSingle /\ Records /\ [Next]_vars
      => [\A j \in Jobs :
             Tracked(j) /\ ~Tracked(j)' =>
                 \/ Finished(j)
                 \/ \E h \in Handlers :
                       InTransit(j, h) /\ (faults' = faults + 1 \/ (pc[h] = "push" /\ ~Live(h)))]_vars
  BY TrackedStep DEF Excused
<1> QED
  BY <1>1, RecordsAlways, TypeCorrect, SingleRecordCleaned, PTL DEF Spec, NeverLost

-----------------------------------------------------------------------------
(* The lists implement the life cycle of a job.                             *)

\* Where(j) in terms of the lists.
Queued(j) == Has(db[MainQ], j)
Owns(j, h) == Has(db[PluginQ(h)], j) \/ Has(db[CleaningQ(h)], j) \/ InTransit(j, h)
Awaited(j) == \E d \in Deliveries : JobOf[d] = j /\ rpc[d] # "done"
Placed ==
    \A j \in Delivered :
        /\ \A h \in Handlers : Owns(j, h) => Where(j) = h /\ ~Queued(j) /\ ~Awaited(j)
        /\ \A g, h \in Handlers : Owns(j, g) /\ Owns(j, h) => g = h
        /\ Queued(j) => Where(j) = "queued" /\ ~Awaited(j)
        /\ \/ Queued(j)
           \/ \E h \in Handlers : Owns(j, h)
           \/ Where(j) = IF Awaited(j) THEN "new" ELSE "gone"

LEMMA UniquePlaced == Unique => Placed
<1> SUFFICES ASSUME Unique, NEW j \in Delivered
             PROVE  /\ \A h \in Handlers : Owns(j, h) => Where(j) = h /\ ~Queued(j) /\ ~Awaited(j)
                    /\ \A g, h \in Handlers : Owns(j, g) /\ Owns(j, h) => g = h
                    /\ Queued(j) => Where(j) = "queued" /\ ~Awaited(j)
                    /\ \/ Queued(j)
                       \/ \E h \in Handlers : Owns(j, h)
                       \/ Where(j) = IF Awaited(j) THEN "new" ELSE "gone"
  BY DEF Placed
<1>1. j \in Jobs
  BY ConstantsAssumption DEF Delivered
<1>2. \A k1, k2 \in Keys : Has(db[k1], j) /\ Has(db[k2], j) => k1 = k2
  BY <1>1 DEF Unique, ExclusiveClaim, AtMostOne, At, Has
<1>3. \A h \in Handlers : InTransit(j, h) =>
         (\A k \in Keys : ~Has(db[k], j)) /\ \A g \in Handlers : InTransit(j, g) => g = h
  BY <1>1, AbsentListless DEF Unique, ExclusiveClaim, Listless
<1>4. ASSUME NEW h \in Handlers, Owns(j, h)
      PROVE  ~Queued(j) /\ \A g \in Handlers : Owns(j, g) => g = h
  BY <1>2, <1>3, <1>4, KeysDiffer DEF Owns, Queued
<1>5. ASSUME Awaited(j) PROVE ~Queued(j) /\ \A h \in Handlers : ~Owns(j, h)
  <2>1. (\A k \in Keys : ~Has(db[k], j)) /\ \A h \in Handlers : ~InTransit(j, h)
    BY <1>5, AbsentListless DEF Awaited, Unique, Fresh, Listless
  <2>2. ~Queued(j)
    BY <2>1 DEF Queued, Keys
  <2>3. \A h \in Handlers : ~Owns(j, h)
    BY <2>1, KeysDiffer DEF Owns
  <2> QED BY <2>2, <2>3
<1>6. \A h : HeldBy(j, h) <=> Owns(j, h)
  BY ListedHas DEF HeldBy, Owns
<1>7. Listed(db, j, MainQ) <=> Queued(j)
  BY ListedHas DEF Queued
<1>8. ASSUME NEW h \in Handlers, Owns(j, h) PROVE Where(j) = h
  <2>1. (CHOOSE g \in Handlers : HeldBy(j, g)) = h
    BY <1>4, <1>6, <1>8
  <2> QED BY <1>6, <1>8, <2>1 DEF Where
<1>9. (\A h \in Handlers : ~Owns(j, h)) =>
         Where(j) = IF Queued(j) THEN "queued" ELSE IF Awaited(j) THEN "new" ELSE "gone"
  BY <1>6, <1>7 DEF Where, Awaited
<1> QED BY <1>4, <1>5, <1>8, <1>9

LEMMA UniquePlacedNext == Unique' => Placed'
BY UniquePlaced, PTL

\* What the life cycle allows to happen to one job.
Allowed(j) ==
    \/ Where(j)' = Where(j)
    \/ Where(j) = "new" /\ Where(j)' = "queued"
    \/ \E h \in Handlers : \/ Where(j) = "queued" /\ Where(j)' = h
                           \/ Where(j) = h /\ Where(j)' \in {"queued", "gone"}

LEMMA OneJobMoves ==
    ASSUME NEW j, \A i \in Delivered \ {j} : Where(i)' = Where(i), j \in Delivered => Allowed(j)
    PROVE  [Lifecycle!Next]_([i \in Delivered |-> Where(i)])
<1> DEFINE W == [i \in Delivered |-> Where(i)]
<1>1. CASE j \in Delivered /\ Where(j)' # Where(j)
  <2>1. W' = [W EXCEPT ![j] = Where(j)'] /\ W[j] = Where(j)
    <3>1. W' = [i \in Delivered |-> Where(i)']
      OBVIOUS
    <3>2. \A i \in Delivered : Where(i)' = IF i = j THEN Where(j)' ELSE W[i]
      OBVIOUS
    <3> HIDE DEF W
    <3>3. W = [i \in Delivered |-> Where(i)]
      BY DEF W
    <3> QED BY <1>1, <3>1, <3>2, <3>3
  <2>2. Allowed(j)
    BY <1>1
  <2>3. CASE Where(j) = "new" /\ Where(j)' = "queued"
    BY <1>1, <2>1, <2>3 DEF Lifecycle!Next, Lifecycle!Arrive, Lifecycle!Move
  <2>4. ASSUME NEW h \in Handlers, Where(j) = "queued" /\ Where(j)' = h
        PROVE  Lifecycle!Next
    BY <1>1, <2>1, <2>4 DEF Lifecycle!Next, Lifecycle!Claim, Lifecycle!Move
  <2>5. ASSUME NEW h \in Handlers, Where(j) = h /\ Where(j)' \in {"queued", "gone"}
        PROVE  Lifecycle!Next
    BY <1>1, <2>1, <2>5
       DEF Lifecycle!Next, Lifecycle!Return, Lifecycle!Leave, Lifecycle!Move
  <2> QED BY <1>1, <2>2, <2>3, <2>4, <2>5 DEF Allowed
<1>2. CASE ~(j \in Delivered /\ Where(j)' # Where(j))
  <2>1. W' = W
    BY <1>2
  <2> QED BY <2>1
<1> QED BY <1>1, <1>2

\* A job of which nothing is different is where it was.
LEMMA WhereSame ==
    ASSUME Placed, Placed', NEW j \in Delivered, Queued(j)' <=> Queued(j),
           Awaited(j)' <=> Awaited(j), \A h \in Handlers : Owns(j, h)' <=> Owns(j, h)
    PROVE  Where(j)' = Where(j)
<1>1. CASE \E h \in Handlers : Owns(j, h)
  BY <1>1 DEF Placed
<1>2. CASE Queued(j)
  BY <1>2 DEF Placed
<1>3. CASE ~Queued(j) /\ \A h \in Handlers : ~Owns(j, h)
  BY <1>3 DEF Placed
<1> QED BY <1>1, <1>2, <1>3

\* A step of handler h: what the others have stays as it is, and so do the
\* places of all jobs but one, which h claims, returns or loses.
Elsewhere(h) ==
    \A k \in Keys \ {MainQ, PluginQ(h), CleaningQ(h)} : \A j : Has(db'[k], j) <=> Has(db[k], j)
Undisturbed(j, h) == (Owns(j, h)' <=> Owns(j, h)) /\ (Queued(j)' <=> Queued(j))
Change(j, h) ==
    \/ Undisturbed(j, h)
    \/ Queued(j) /\ Owns(j, h)'
    \/ Owns(j, h) /\ Queued(j)'
    \/ Owns(j, h) /\ ~Owns(j, h)' /\ (Queued(j)' <=> Queued(j))

LEMMA HandlerStep ==
    ASSUME Placed, Placed', NEW h \in Handlers, Others(h), UNCHANGED rpc, Elsewhere(h),
           NEW j0, Change(j0, h), \A j : j # j0 => Undisturbed(j, h)
    PROVE  [Lifecycle!Next]_([i \in Delivered |-> Where(i)])
<1>1. ASSUME NEW j, NEW g \in Handlers \ {h} PROVE Owns(j, g)' <=> Owns(j, g)
  <2>1. PluginQ(g) \in Keys \ {MainQ, PluginQ(h), CleaningQ(h)}
    BY KeysDiffer
  <2>2. CleaningQ(g) \in Keys \ {MainQ, PluginQ(h), CleaningQ(h)}
    BY KeysDiffer
  <2> QED BY <2>1, <2>2 DEF Elsewhere, Owns, InTransit, Others, Keeps
<1>2. \A j : Awaited(j)' <=> Awaited(j)
  BY DEF Awaited
<1>3. ASSUME NEW j \in Delivered, Undisturbed(j, h) PROVE Where(j)' = Where(j)
  BY <1>1, <1>2, <1>3, WhereSame DEF Undisturbed
<1>4. ASSUME j0 \in Delivered PROVE Allowed(j0)
  <2>1. CASE Undisturbed(j0, h)
    BY <1>3, <1>4, <2>1 DEF Allowed
  <2>2. CASE Queued(j0) /\ Owns(j0, h)'
    BY <1>4, <2>2 DEF Placed, Allowed
  <2>3. CASE Owns(j0, h) /\ Queued(j0)'
    BY <1>4, <2>3 DEF Placed, Allowed
  <2>4. CASE Owns(j0, h) /\ ~Owns(j0, h)' /\ (Queued(j0)' <=> Queued(j0))
    <3>1. Where(j0) = h /\ ~Queued(j0) /\ ~Awaited(j0) /\ \A g \in Handlers \ {h} : ~Owns(j0, g)
      BY <1>4, <2>4 DEF Placed
    <3>2. ~Queued(j0)' /\ ~Awaited(j0)' /\ \A g \in Handlers : ~Owns(j0, g)'
      BY <1>1, <1>2, <2>4, <3>1
    <3>3. Where(j0)' = "gone"
      BY <1>4, <3>2 DEF Placed
    <3> QED BY <3>1, <3>3 DEF Allowed
  <2> QED BY <2>1, <2>2, <2>3, <2>4 DEF Change
<1> QED BY <1>3, <1>4, OneJobMoves

\* A handler that moves no record may lose the one it has in memory.
LEMMA LifeQuiet ==
    ASSUME ListsOK, Placed, Placed', Quiet, NEW h \in Handlers, Others(h), UNCHANGED rpc
    PROVE  [Lifecycle!Next]_([i \in Delivered |-> Where(i)])
<1>1. \A k \in Keys : \A j : Has(db'[k], j) <=> Has(db[k], j)
  BY SameHas DEF Quiet
<1>2. Elsewhere(h) /\ \A j : Queued(j)' <=> Queued(j)
  BY <1>1, KeysDiffer DEF Elsewhere, Queued
<1>3. \A j : InTransit(j, h)' => InTransit(j, h)
  BY DEF Quiet, InTransit
<1>4. PICK j0 : \A j : InTransit(j, h) => j = j0
  BY DEF InTransit
<1>5. \A j : j # j0 => Undisturbed(j, h)
  BY <1>1, <1>2, <1>3, <1>4, KeysDiffer DEF Undisturbed, Owns
<1>6. Owns(j0, h)' => Owns(j0, h)
  BY <1>1, <1>3, KeysDiffer DEF Owns
<1>7. Change(j0, h)
  BY <1>2, <1>6 DEF Change, Undisturbed
<1> QED BY <1>2, <1>5, <1>7, HandlerStep

LEMMA LifeRun ==
    ASSUME TypeOK, Records, Unique, Placed, Placed', NEW h \in Handlers, Run(h)
    PROVE  [Lifecycle!Next]_([i \in Delivered |-> Where(i)])
<1> USE KeysDiffer
<1>1. CASE RemoveFromMainQueue(h)
  <2>1. pc[h] = "remove" /\ Others(h) /\ UNCHANGED rpc /\ IsJob(hand[h])
    BY <1>1, RemoveEffect DEF Records, HostOK, ClaimsJob
  <2>2. CASE pc'[h] = "c0" /\ UNCHANGED db
    <3>1. Elsewhere(h) /\ \A j : Undisturbed(j, h)
      BY <2>1, <2>2 DEF Elsewhere, Undisturbed, Owns, InTransit, Queued
    <3> QED BY <2>1, <3>1, HandlerStep DEF Change
  <2>3. CASE /\ pc'[h] = "push" /\ hand'[h] = hand[h]
             /\ \A j : Has(db[MainQ], j) <=>
                       Has(db'[MainQ], j) \/ (IsJob(hand[h]) /\ hand[h].id = j)
             /\ \A k \in Keys \ {MainQ} : db'[k] = db[k]
    <3>1. Elsewhere(h)
      BY <2>3 DEF Elsewhere
    <3>2. PICK j0 : j0 = hand[h].id
      OBVIOUS
    <3>3. \A j : j # j0 => Undisturbed(j, h)
      BY <2>1, <2>3, <3>2 DEF Undisturbed, Owns, InTransit, Queued
    <3>4. Queued(j0) /\ Owns(j0, h)'
      BY <2>1, <2>3, <3>2 DEF Owns, InTransit, Queued
    <3> QED BY <2>1, <3>1, <3>3, <3>4, HandlerStep DEF Change
  <2> QED BY <1>1, <2>2, <2>3, RemoveEffect
<1>2. CASE PushClaim(h)
  <2>1. /\ pc[h] = "push" /\ pc'[h] = "claimed" /\ Others(h) /\ UNCHANGED rpc
        /\ \A j : Has(db'[PluginQ(h)], j) <=> Has(db[PluginQ(h)], j) \/ hand[h].id = j
        /\ \A k \in Keys \ {PluginQ(h)} : db'[k] = db[k]
    BY <1>2, PushEffect
  <2>2. Elsewhere(h) /\ \A j : Undisturbed(j, h)
    BY <2>1 DEF Elsewhere, Undisturbed, Owns, InTransit, Queued
  <2> QED BY <2>1, <2>2, HandlerStep DEF Change
<1>3. CASE RecordVM(h)
  <2>1. /\ pc[h] = "record" /\ pc'[h] = "boot" /\ Others(h) /\ UNCHANGED rpc
        /\ \A k \in Keys : \A j : Has(db'[k], j) <=> Has(db[k], j)
    BY <1>3, RecordEffect
  <2>2. Elsewhere(h) /\ \A j : Undisturbed(j, h)
    BY <2>1 DEF Elsewhere, Undisturbed, Owns, InTransit, Queued
  <2> QED BY <2>1, <2>2, HandlerStep DEF Change
<1>4. CASE ~RemoveFromMainQueue(h) /\ ~PushClaim(h) /\ ~RecordVM(h)
  <2>1. ListsOK /\ Quiet /\ Others(h) /\ UNCHANGED rpc
    BY <1>4, QuietRun DEF TypeOK, Moves, Others, Keeps
  <2> QED BY <2>1, LifeQuiet
<1> QED BY <1>1, <1>2, <1>3, <1>4

LEMMA LifeCleanup ==
    ASSUME TypeOK, CleaningSingle, Records, Unique, Placed, Placed',
           NEW h \in Handlers, Cleanup(h)
    PROVE  [Lifecycle!Next]_([i \in Delivered |-> Where(i)])
<1> USE DEF Elsewhere, Undisturbed, Owns, InTransit, Queued
<1>1. /\ ListsOK /\ LocalOK /\ MainQ \in Keys /\ PluginQ(h) \in Keys /\ CleaningQ(h) \in Keys
      /\ MainQ # PluginQ(h) /\ MainQ # CleaningQ(h) /\ PluginQ(h) # CleaningQ(h)
  BY KeysDiffer DEF TypeOK
<1>2. ASSUME Others(h), UNCHANGED rpc, Elsewhere(h), \A j : Undisturbed(j, h)
      PROVE  [Lifecycle!Next]_([i \in Delivered |-> Where(i)])
  <2> HIDE DEF Elsewhere, Undisturbed
  <2>1. PICK j0 : Undisturbed(j0, h)
    BY <1>2
  <2> QED BY <1>2, <2>1, HandlerStep DEF Change
<1>3. CASE SkipCleanup(h) \/ BeginCleanup(h) \/ NoRecord(h) \/ DeleteVM(h)
  <2>1. Others(h) /\ UNCHANGED rpc
    BY <1>1, <1>3 DEF Others, Keeps, LocalOK, SkipCleanup, BeginCleanup, NoRecord, DeleteVM,
                      EndCleanup, Goto, local, receiver
  <2> QED BY <1>1, <1>3, <2>1, QuietCleanup, LifeQuiet
<1>4. CASE NextRecord(h)
  <2>1. Others(h) /\ pc[h] = "c1" /\ pc'[h] = "c2" /\ UNCHANGED rpc
    BY <1>1, <1>4 DEF NextRecord, Goto, LocalOK, Others, Keeps, receiver
  <2>2. CASE Cleaning(h) # <<>>
    BY <1>1, <1>4, <2>1, <2>2, QuietCleanup, LifeQuiet
  <2>3. CASE Cleaning(h) = <<>>
    <3>1. /\ \A i : Has(db[PluginQ(h)], i) <=>
                    Has(db'[PluginQ(h)], i) \/ Has(db'[CleaningQ(h)], i)
          /\ \A i : ~Has(db[CleaningQ(h)], i)
          /\ \A k \in Keys \ {PluginQ(h), CleaningQ(h)} : db'[k] = db[k]
      BY <1>4, <2>3, NextEffect
    <3>2. Elsewhere(h) /\ \A j : Undisturbed(j, h)
      BY <1>1, <2>1, <3>1
    <3> QED BY <1>2, <2>1, <3>2
  <2> QED BY <2>2, <2>3
<1>5. CASE PutBack(h)
  <2>1. Others(h) /\ pc[h] = "c2" /\ pc'[h] \in {"pick", "start"} /\ UNCHANGED rpc
    BY <1>1, <1>5 DEF PutBack, CleanJob, EndCleanup, Goto, LocalOK, Others, Keeps, receiver
  <2>2. /\ \A i : Has(db'[PluginQ(h)], i) <=>
                  Has(db[PluginQ(h)], i) \/ Has(db[CleaningQ(h)], i)
        /\ \A i : ~Has(db'[CleaningQ(h)], i)
        /\ \A k \in Keys \ {PluginQ(h), CleaningQ(h)} : db'[k] = db[k]
    BY <1>5, PutBackEffect
  <2>3. Elsewhere(h) /\ \A j : Undisturbed(j, h)
    BY <1>1, <2>1, <2>2
  <2> QED BY <1>2, <2>1, <2>3
<1>6. CASE TakeForReturn(h)
  <2>1. /\ pc[h] = "c2" /\ pc'[h] = "c4" /\ Others(h) /\ UNCHANGED rpc
        /\ \A i : Has(db[CleaningQ(h)], i) <=> hand'[h].id = i
        /\ \A i : ~Has(db'[CleaningQ(h)], i)
        /\ \A k \in Keys \ {CleaningQ(h)} : db'[k] = db[k]
    BY <1>6, TakeEffect
  <2>2. Elsewhere(h) /\ \A j : Undisturbed(j, h)
    BY <1>1, <2>1
  <2> QED BY <1>2, <2>1, <2>2
<1>7. CASE ReturnToMainQueue(h)
  <2>1. /\ pc[h] = "c4" /\ pc'[h] = "c5" /\ Others(h) /\ UNCHANGED rpc
        /\ \A i : Has(db'[MainQ], i) <=> Has(db[MainQ], i) \/ hand[h].id = i
        /\ \A k \in Keys \ {MainQ} : db'[k] = db[k]
    BY <1>7, ReturnEffect
  <2>2. PICK j0 : j0 = hand[h].id
    OBVIOUS
  <2>3. Elsewhere(h) /\ \A j : j # j0 => Undisturbed(j, h)
    BY <1>1, <2>1, <2>2
  <2>4. Owns(j0, h) /\ Queued(j0)'
    BY <1>1, <2>1, <2>2
  <2> HIDE DEF Elsewhere, Undisturbed, Owns, Queued
  <2> QED BY <2>1, <2>3, <2>4, HandlerStep DEF Change
<1>8. CASE ForgetVM(h) \/ DropCompleted(h) \/ ForgetReturned(h) \/ DropTimedOut(h)
  <2>1. /\ pc[h] \notin {"push", "c4"} /\ pc'[h] \notin {"push", "c4"}
        /\ Others(h) /\ UNCHANGED rpc
        /\ \A j : ~Has(db'[CleaningQ(h)], j)
        /\ \A k \in Keys \ {CleaningQ(h)} : db'[k] = db[k]
    BY <1>8, DeleteEffect
  <2>2. PICK j0 : \A j : Has(db[CleaningQ(h)], j) => j = j0
    <3>1. Cleaning(h) \in Seq(QueueJob) /\ Len(Cleaning(h)) <= 1 /\ Cleaning(h) = db[CleaningQ(h)]
      BY <1>1, OwnLists DEF CleaningSingle
    <3>2. \A j : Has(Cleaning(h), j) => j = Cleaning(h)[1].id
      BY <3>1 DEF Has
    <3> QED BY <3>1, <3>2
  <2>3. Elsewhere(h) /\ \A j : j # j0 => Undisturbed(j, h)
    BY <1>1, <2>1, <2>2
  <2>4. (Owns(j0, h)' => Owns(j0, h)) /\ (Queued(j0)' <=> Queued(j0))
    BY <1>1, <2>1
  <2> HIDE DEF Elsewhere, Owns, Queued
  <2>5. Change(j0, h)
    BY <2>4 DEF Change
  <2> HIDE DEF Undisturbed
  <2> QED BY <2>1, <2>3, <2>5, HandlerStep
<1> QED BY <1>3, <1>4, <1>5, <1>6, <1>7, <1>8 DEF Cleanup

LEMMA LifeOther ==
    ASSUME TypeOK, Placed, Placed', NEW h \in Handlers, Checker(h) \/ Trouble(h) \/ Restart(h)
    PROVE  [Lifecycle!Next]_([i \in Delivered |-> Where(i)])
<1> USE DEF Goto, Drop, ToCleanup, local, receiver, Others, Keeps
<1>1. ListsOK /\ LocalOK /\ Quiet
  BY QuietChecker, QuietProcess DEF TypeOK
<1>2. CASE Checker(h)
  <2>1. Others(h) /\ UNCHANGED rpc
    BY <1>2 DEF Checker, CheckCompleted, CheckInterrupted, CheckInProgress, CheckStop
  <2> QED BY <1>1, <2>1, LifeQuiet
<1>3. CASE Trouble(h) \/ Restart(h)
  <2>1. Others(h) /\ UNCHANGED rpc
    BY <1>1, <1>3 DEF LocalOK, Trouble, Restart, Signal, NoCapacity, NoTemplateOnHost,
                      CleanupFails, EndCleanup, Crash, Exit
  <2> QED BY <1>1, <2>1, LifeQuiet
<1> QED BY <1>2, <1>3

\* What a receiver finds at index 0 of a handler's list is in some list as a
\* job: the record of a VM stands behind its job's.
LEMMA HeadListed ==
    ASSUME TypeOK, Records, NEW h \in Handlers, NEW k \in {PluginQ(h), CleaningQ(h)},
           db[k] # <<>>
    PROVE  \E x \in Keys : Has(db[x], Head(db[k]).id)
<1>1. /\ ListsOK /\ HostOK(h) /\ PluginQ(h) \in Keys /\ CleaningQ(h) \in Keys
      /\ db[k] \in Seq(QueueJob) /\ k \in Keys
  BY KeysDiffer DEF TypeOK, ListsOK, Records
<1>2. 1 \in 1..Len(db[k]) /\ Head(db[k]) = db[k][1] /\ db[k][1] \in QueueJob
  BY <1>1
<1>3. CASE IsJob(db[k][1])
  BY <1>1, <1>2, <1>3 DEF Has
<1>4. CASE IsVM(db[k][1])
  <2>1. k # PluginQ(h)
    <3> SUFFICES ASSUME k = PluginQ(h) PROVE FALSE
      OBVIOUS
    <3>1. Above(Own(h), 1)
      BY <1>1, <1>2, <1>4 DEF HostOK, Ordered, Own
    <3> QED BY <3>1 DEF Above
  <2>2. Has(Own(h), db[k][1].id)
    BY <1>1, <1>2, <1>4, <2>1 DEF HostOK, Cleaning
  <2> QED BY <1>1, <1>2, <2>2 DEF Own
<1> QED BY <1>2, <1>3, <1>4, JobOrVM

\* A receiver gives up no job: what it finds is not the job it looks for.
LEMMA StillAwaited ==
    ASSUME TypeOK, Records, Unique, NEW d \in Deliveries,
           ReceiveQueued(d) \/ ListHandlerKeys(d) \/ ScanHandlerKey(d)
    PROVE  rpc[d] # "done" /\ \E l \in {"keys", "scan"} : rpc' = [rpc EXCEPT ![d] = l]
<1>1. /\ rpc \in [Deliveries -> {"pending", "keys", "scan", "done"}]
      /\ todo \in [Deliveries -> SUBSET HandlerKeys]
  BY DEF TypeOK, ReceiverOK
<1>2. rpc[d] # "done"
  BY DEF ReceiveQueued, ListHandlerKeys, ScanHandlerKey
<1>3. \A k \in Keys : ~Has(db[k], JobOf[d])
  BY <1>2, AbsentListless DEF Unique, Fresh, Listless
<1>4. CASE ReceiveQueued(d)
  <2>1. ASSUME NEW i \in 1..Len(db[MainQ]) PROVE db[MainQ][i].id # JobOf[d]
    <3>1. IsJob(db[MainQ][i]) /\ MainQ \in Keys
      BY DEF Records, MainOK, Keys
    <3> QED BY <1>3, <3>1 DEF Has
  <2>2. rpc' = [rpc EXCEPT ![d] = "keys"]
    BY <1>4, <2>1 DEF ReceiveQueued
  <2> QED BY <1>2, <2>2
<1>5. CASE ListHandlerKeys(d)
  BY <1>2, <1>5 DEF ListHandlerKeys
<1>6. CASE ScanHandlerKey(d)
  <2>1. rpc[d] = "scan"
    BY <1>6 DEF ScanHandlerKey
  <2>2. ASSUME NEW k \in todo[d] PROVE ~(db[k] # <<>> /\ Head(db[k]).id = JobOf[d])
    <3>1. PICK h \in Handlers : k \in {PluginQ(h), CleaningQ(h)}
      BY <1>1 DEF HandlerKeys
    <3> QED BY <1>3, <3>1, HeadListed
  <2>3. UNCHANGED rpc
    BY <1>6, <2>2 DEF ScanHandlerKey
  <2>4. rpc' = [rpc EXCEPT ![d] = "scan"]
    BY <1>1, <2>1, <2>3
  <2> QED BY <1>2, <2>4
<1> QED BY <1>4, <1>5, <1>6

LEMMA LifeReceiver ==
    ASSUME OneDelivery, TypeOK, Records, Unique, Placed, Placed',
           \/ \E d \in Deliveries : Receive(d)
           \/ \E j \in Jobs : ReceiveEvent(j) \/ JobStarts(j) \/ JobCompletes(j)
           \/ ReceiverRestart
           \/ UNCHANGED vars
    PROVE  [Lifecycle!Next]_([i \in Delivered |-> Where(i)])
<1>1. /\ UNCHANGED <<pc, hand>>
      /\ rpc \in [Deliveries -> {"pending", "keys", "scan", "done"}]
  BY DEF TypeOK, ReceiverOK, vars, local, Receive, ReceiveQueued, ListHandlerKeys,
         ScanHandlerKey, PushQueued, ReceiveEvent, ReceiveInProgress, ReceiveCompleted,
         JobStarts, JobCompletes, ReceiverRestart
<1>2. \A j : \A h \in Handlers : InTransit(j, h)' <=> InTransit(j, h)
  BY <1>1 DEF InTransit
<1>3. ASSUME UNCHANGED db, \A j : Awaited(j)' <=> Awaited(j)
      PROVE  [Lifecycle!Next]_([i \in Delivered |-> Where(i)])
  <2>1. \A j \in Delivered : Where(j)' = Where(j)
    BY <1>2, <1>3, WhereSame DEF Owns, Queued
  <2>2. PICK j0 : j0 \notin Delivered \/ Where(j0)' = Where(j0)
    BY <2>1
  <2> QED BY <2>1, <2>2, OneJobMoves DEF Allowed
<1>4. ASSUME NEW d \in Deliveries, PushQueued(d)
      PROVE  [Lifecycle!Next]_([i \in Delivered |-> Where(i)])
  <2>1. /\ rpc[d] # "done" /\ rpc' = [rpc EXCEPT ![d] = "done"] /\ JobOf[d] \in Delivered
        /\ \A j : Has(db'[MainQ], j) <=> Has(db[MainQ], j) \/ JobOf[d] = j
        /\ \A k \in Keys \ {MainQ} : db'[k] = db[k]
    BY <1>4, PushQueuedEffect DEF PushQueued, Delivered
  <2>2. \A j : \A h \in Handlers : Owns(j, h)' <=> Owns(j, h)
    BY <1>2, <2>1, KeysDiffer DEF Owns
  <2>3. \A j : j # JobOf[d] => (Queued(j)' <=> Queued(j)) /\ (Awaited(j)' <=> Awaited(j))
    BY <1>1, <2>1 DEF Queued, Awaited
  <2>4. \A j \in Delivered \ {JobOf[d]} : Where(j)' = Where(j)
    BY <2>2, <2>3, WhereSame
  <2>5. Awaited(JobOf[d]) /\ Queued(JobOf[d])'
    BY <2>1 DEF Awaited, Queued
  <2>6. Where(JobOf[d]) = "new" /\ Where(JobOf[d])' = "queued"
    BY <2>1, <2>5 DEF Placed
  <2> QED BY <2>4, <2>6, OneJobMoves DEF Allowed
<1>5. ASSUME NEW d \in Deliveries, ReceiveQueued(d) \/ ListHandlerKeys(d) \/ ScanHandlerKey(d)
      PROVE  [Lifecycle!Next]_([i \in Delivered |-> Where(i)])
  <2>1. rpc[d] # "done" /\ \E l \in {"keys", "scan"} : rpc' = [rpc EXCEPT ![d] = l]
    BY <1>5, StillAwaited
  <2>2. \A j : Awaited(j)' <=> Awaited(j)
    BY <1>1, <2>1 DEF Awaited
  <2>3. UNCHANGED db
    BY <1>5 DEF ReceiveQueued, ListHandlerKeys, ScanHandlerKey
  <2> QED BY <1>3, <2>2, <2>3
<1>6. CASE \/ \E j \in Jobs : ReceiveEvent(j) \/ JobStarts(j) \/ JobCompletes(j)
           \/ ReceiverRestart
           \/ UNCHANGED vars
  <2>1. UNCHANGED <<db, rpc>>
    BY <1>6 DEF vars, receiver, ReceiveEvent, ReceiveInProgress, ReceiveCompleted, JobStarts,
                JobCompletes, ReceiverRestart
  <2> QED BY <1>3, <2>1 DEF Awaited
<1> QED BY <1>4, <1>5, <1>6 DEF Receive

LEMMA LifeStep ==
    ASSUME OneDelivery, TypeOK, CleaningSingle, Records, Unique, Unique', [Next]_vars
    PROVE  [Lifecycle!Next]_([i \in Delivered |-> Where(i)])
<1>1. Placed /\ Placed'
  BY UniquePlaced, UniquePlacedNext
<1>2. CASE Next
  BY <1>1, <1>2, LifeRun, LifeCleanup, LifeOther, LifeReceiver DEF Next
<1>3. CASE UNCHANGED vars
  BY <1>1, <1>3, LifeReceiver
<1> QED BY <1>2, <1>3

\* As long as GitHub delivers each "queued" webhook once: a job is queued once,
\* a handler gets it from the main queue only and gives it back only there, no
\* job passes from one handler to another, and what is gone does not return,
\* whatever crashes, stops and failures come in between.
THEOREM ListsImplementLifecycle == ASSUME OneDelivery PROVE Spec => LifecycleSpec
<1>1. ASSUME Init, Placed PROVE Lifecycle!Init
  <2>1. ASSUME NEW j \in Delivered PROVE Where(j) = "new"
    <3>1. Awaited(j)
      BY <1>1 DEF Init, Awaited, Delivered
    <3>2. ~Queued(j) /\ \A h \in Handlers : ~Owns(j, h)
      BY <1>1, <3>1 DEF Placed
    <3> QED BY <1>1, <3>1, <3>2 DEF Placed
  <2> QED BY <2>1 DEF Lifecycle!Init
<1>2. TypeOK /\ CleaningSingle /\ Records /\ Unique /\ Unique' /\ [Next]_vars =>
         [Lifecycle!Next]_([j \in Delivered |-> Where(j)])
  BY LifeStep
<1>3. TypeOK /\ CleaningSingle /\ Unique /\ [Next]_vars => Unique'
  BY UniqueStep
<1> QED
  BY <1>1, <1>2, <1>3, UniqueInit, UniquePlaced, TypeCorrect, SingleRecordCleaned,
     RecordsAlways, PTL DEF Spec, LifecycleSpec, Lifecycle!Spec

-----------------------------------------------------------------------------
(* No VM is lost, as long as no fault cuts a cleanup short or makes the     *)
(* handlers forget which jobs run.                                          *)

\* Nothing stops a process or fails a command of cleanup, and the receiver,
\* which empties the in_progress list when it starts, has started before.
Steady == Faults \cap {"crash", "stop", "redis", "anka", "receiver"} = {}

NotRunning(e) == e.status # "in_progress"
Known(h, j) == j \in inProgress \cup completed \cup ownDone[h]

\* The list of a handler is empty, or has one job's record and maybe its VM's
\* behind it; what is in the cleaning list is being processed.
OwnShape(h) ==
    /\ Len(Own(h)) <= 2
    /\ Len(Own(h)) >= 1 => IsJob(Own(h)[1])
    /\ Len(Own(h)) = 2 => /\ IsVM(Own(h)[2])
                          /\ pc[h] \in {"start", "boot", "watch", "c0", "c1"}
                          /\ ~onStart[h]
                          /\ pc[h] = "start" => ~NotRunning(Own(h)[1])
    /\ pc[h] \in {"remove", "push", "c4", "c5"} => Len(Own(h)) = 0
    /\ pc[h] \in {"claimed", "obtain", "record", "c3"} => Len(Own(h)) = 1
    /\ pc[h] = "boot" => Len(Own(h)) = 2
CleaningShape(h) ==
    /\ pc[h] \notin {"c2", "c3"} => Cleaning(h) = <<>>
    /\ pc[h] \in {"c2", "c3"} =>
          /\ Len(Cleaning(h)) = 1
          /\ \/ IsVM(Cleaning(h)[1]) /\ Len(Own(h)) = 1
             \/ /\ IsJob(Cleaning(h)[1]) /\ NotRunning(Cleaning(h)[1])
                /\ Len(Own(h)) = 0 /\ pc[h] = "c2"

\* The handler works, and knows of a job that its list says runs.
Working(h) ==
    /\ pc[h] # "off" /\ stop[h] = "no"
    /\ onStart[h] => pc[h] \in {"c0", "c1"}
Accounted(h) == Len(Own(h)) >= 1 => NotRunning(Own(h)[1]) \/ Known(h, Own(h)[1].id)
HandShape(h) ==
    /\ pc[h] \in {"claimed", "obtain", "record", "boot"} =>
          IsJob(hand[h]) /\ hand[h].id = Own(h)[1].id
    /\ pc[h] = "claimed" => NotRunning(hand[h]) \/ Known(h, hand[h].id)
    /\ pc[h] \in {"remove", "push", "c4", "obtain", "record", "boot"} => NotRunning(hand[h])
    /\ pc[h] \in {"c1", "c2", "c3"} /\ ~onStart[h] /\ Len(Own(h)) >= 1 => NotRunning(Own(h)[1])

\* Where the name of a VM is.
Named(h, v) ==
    \/ pc[h] = "record" /\ hand[h].vm = v
    \/ Len(Own(h)) = 2 /\ Own(h)[2].vm = v
    \/ pc[h] = "c2" /\ IsVM(Cleaning(h)[1]) /\ Cleaning(h)[1].vm = v

Tidy(h) ==
    /\ OwnShape(h) /\ CleaningShape(h) /\ Working(h) /\ Accounted(h) /\ HandShape(h)
    /\ \A v \in vms[h] : Named(h, v)
MainWaits == \A i \in 1..Len(db[MainQ]) : NotRunning(db[MainQ][i])
AllTidy == MainWaits /\ \A h \in Handlers : Tidy(h)

\* A step of h leaves another handler alone, and of what that one knows it
\* takes away at most jobs that h itself has.
Unmoved(g) ==
    /\ Keeps(g) /\ onStart'[g] = onStart[g] /\ stop'[g] = stop[g] /\ vms'[g] = vms[g]
    /\ db'[PluginQ(g)] = db[PluginQ(g)] /\ db'[CleaningQ(g)] = db[CleaningQ(g)]
Alone(h) == \A g \in Handlers \ {h} : Unmoved(g)
StillKnown(g, j) == j \in inProgress' \cup completed' \cup ownDone'[g]
Loses(h) ==
    \A g \in Handlers \ {h} : \A j :
        Known(g, j) => StillKnown(g, j) \/ Has(Own(h), j) \/ Has(Cleaning(h), j)
KnowsHead(h) ==
    Len(Own(h)) >= 1 /\ Known(h, Own(h)[1].id) => StillKnown(h, Own(h)[1].id)

LEMMA TidyFrame ==
    ASSUME NEW g \in Handlers, Tidy(g), Unmoved(g), KnowsHead(g)
    PROVE  Tidy(g)'
<1>1. /\ Own(g)' = Own(g) /\ Cleaning(g)' = Cleaning(g)
      /\ pc'[g] = pc[g] /\ hand'[g] = hand[g] /\ onStart'[g] = onStart[g]
      /\ stop'[g] = stop[g] /\ vms'[g] = vms[g]
  BY DEF Unmoved, Keeps, Own, Cleaning
<1>2. \A j : Known(g, j)' <=> StillKnown(g, j)
  BY DEF Known, StillKnown
<1>3. OwnShape(g)'
  BY <1>1 DEF Tidy, OwnShape
<1>4. CleaningShape(g)'
  BY <1>1 DEF Tidy, CleaningShape
<1>5. Working(g)'
  BY <1>1 DEF Tidy, Working
<1>6. Accounted(g)'
  <2>1. Accounted(g)
    BY DEF Tidy
  <2> QED BY <1>1, <1>2, <2>1 DEF Accounted, KnowsHead
<1>7. HandShape(g)'
  <2>1. HandShape(g) /\ OwnShape(g)
    BY DEF Tidy
  <2>2. ASSUME pc[g] = "claimed" PROVE NotRunning(hand[g]) \/ Known(g, hand[g].id)'
    <3>1. pc[g] \in {"claimed", "obtain", "record", "c3"} => Len(Own(g)) = 1
      BY <2>1 DEF OwnShape
    <3>2. Len(Own(g)) = 1
      BY <3>1, <2>2
    <3>3. Len(Own(g)) >= 1
      BY <3>2
    <3>4. hand[g].id = Own(g)[1].id /\ (NotRunning(hand[g]) \/ Known(g, hand[g].id))
      BY <2>1, <2>2 DEF HandShape
    <3> QED BY <1>1, <1>2, <3>3, <3>4 DEF KnowsHead
  <2> QED BY <1>1, <2>1, <2>2 DEF HandShape
<1>8. \A v \in vms'[g] : Named(g, v)'
  BY <1>1 DEF Tidy, Named
<1> QED BY <1>3, <1>4, <1>5, <1>6, <1>7, <1>8 DEF Tidy

\* A job is in the lists of one handler only.
LEMMA HasOnce ==
    ASSUME Unique, NEW g \in Handlers, NEW h \in Handlers \ {g}, NEW j \in Jobs, Has(Own(g), j)
    PROVE  ~Has(Own(h), j) /\ ~Has(Cleaning(h), j)
<1>1. AtMostOne(db, j)
  BY DEF Unique, ExclusiveClaim
<1>2. PICK i \in 1..Len(db[PluginQ(g)]) : At(db, j, PluginQ(g), i)
  BY DEF Has, At, Own
<1>3. ASSUME NEW k \in {PluginQ(h), CleaningQ(h)}, Has(db[k], j) PROVE FALSE
  <2>1. PICK n \in 1..Len(db[k]) : At(db, j, k, n)
    BY <1>3 DEF Has, At
  <2>2. k \in Keys /\ PluginQ(g) \in Keys /\ k # PluginQ(g)
    BY KeysDiffer
  <2> QED BY <1>1, <1>2, <2>1, <2>2 DEF AtMostOne
<1> QED BY <1>3 DEF Own, Cleaning

LEMMA OthersKnow ==
    ASSUME ListsOK, Unique, AllTidy, NEW h \in Handlers, Loses(h), NEW g \in Handlers \ {h}
    PROVE  KnowsHead(g)
<1> SUFFICES ASSUME Len(Own(g)) >= 1, Known(g, Own(g)[1].id) PROVE StillKnown(g, Own(g)[1].id)
  BY DEF KnowsHead
<1>1. IsJob(Own(g)[1])
  BY DEF AllTidy, Tidy, OwnShape
<1>2. 1 \in 1..Len(Own(g)) /\ Own(g)[1] \in QueueJob
  BY OwnLists
<1>3. Own(g)[1].id \in Jobs
  BY <1>2, JobOrVM
<1>4. Has(Own(g), Own(g)[1].id)
  BY <1>1, <1>2 DEF Has
<1> QED BY <1>3, <1>4, HasOnce DEF Loses

\* So a step of h has to be checked for h and the main queue only.
LEMMA TidyStep ==
    ASSUME ListsOK, Unique, AllTidy, NEW h \in Handlers, Alone(h), Loses(h),
           MainWaits', Tidy(h)'
    PROVE  AllTidy'
<1>1. ASSUME NEW g \in Handlers \ {h} PROVE Tidy(g)'
  <2>1. Tidy(g) /\ Unmoved(g)
    BY DEF AllTidy, Alone
  <2>2. KnowsHead(g)
    BY OthersKnow
  <2> QED BY <2>1, <2>2, TidyFrame
<1> QED BY <1>1 DEF AllTidy

LEMMA LosesNothing ==
    ASSUME NEW h \in Handlers, UNCHANGED <<inProgress, completed, ownDone>>
    PROVE  Loses(h) /\ KnowsHead(h)
BY DEF Loses, KnowsHead, Known, StillKnown

-----------------------------------------------------------------------------
(* The steps that write the job's record where it stands.                   *)

Rewrites(h) ==
    /\ Len(Own(h)') = Len(Own(h))
    /\ \A i \in 1..Len(Own(h)) :
          Own(h)'[i].type = Own(h)[i].type /\ Own(h)'[i].id = Own(h)[i].id
    /\ \A i \in 2..Len(Own(h)) : Own(h)'[i] = Own(h)[i]
    /\ \A k \in Keys \ {PluginQ(h)} : db'[k] = db[k]

\* The new status of the record is the old one or s.
Restates(h, s) == Len(Own(h)) >= 1 => Own(h)'[1].status \in {Own(h)[1].status, s}

LEMMA SetHead ==
    ASSUME ListsOK, NEW h \in Handlers, NEW e \in QueueJob, Len(Own(h)) >= 1,
           e.type = Own(h)[1].type, e.id = Own(h)[1].id, db' = LSet(db, PluginQ(h), 1, e)
    PROVE  Rewrites(h) /\ Own(h)'[1] = e
<1>1. Own(h) \in Seq(QueueJob) /\ Own(h) = db[PluginQ(h)] /\ 1 \in 1..Len(db[PluginQ(h)])
  BY OwnLists
<1>2. /\ db'[PluginQ(h)] = [Own(h) EXCEPT ![1] = e]
      /\ SameBut(db, db', Keys, PluginQ(h))
  <2>1. db \in Databases(Keys, QueueJob) /\ PluginQ(h) \in Keys
    BY KeysDiffer, Elements
  <2>2. /\ LSet(db, PluginQ(h), 1, e)[PluginQ(h)] = [db[PluginQ(h)] EXCEPT ![1] = e]
        /\ SameBut(db, LSet(db, PluginQ(h), 1, e), Keys, PluginQ(h))
    BY <1>1, <2>1, LSetFact
  <2> QED BY <1>1, <2>2, Zenon
<1>3. Own(h)' = [Own(h) EXCEPT ![1] = e]
  BY <1>2 DEF Own
<1>4. /\ Own(h)'[1] = e /\ Len(Own(h)') = Len(Own(h))
      /\ \A i \in 2..Len(Own(h)) : Own(h)'[i] = Own(h)[i]
  BY <1>1, <1>3
<1>5. ASSUME NEW i \in 1..Len(Own(h))
      PROVE  Own(h)'[i].type = Own(h)[i].type /\ Own(h)'[i].id = Own(h)[i].id
  <2>1. i = 1 \/ i \in 2..Len(Own(h))
    BY <1>1
  <2> QED BY <1>4, <2>1
<1>6. \A k \in Keys \ {PluginQ(h)} : db'[k] = db[k]
  BY <1>2 DEF SameBut
<1> QED BY <1>4, <1>5, <1>6 DEF Rewrites

LEMMA WritesNothing ==
    ASSUME ListsOK, NEW h \in Handlers, UNCHANGED db
    PROVE  Rewrites(h) /\ \A s : Restates(h, s)
<1>1. Own(h)' = Own(h)
  BY DEF Own
<1> QED BY <1>1 DEF Rewrites, Restates

LEMMA HeadFirst ==
    ASSUME ListsOK, NEW h \in Handlers
    PROVE  /\ HasHead(h) <=> Len(Own(h)) >= 1
           /\ HasHead(h) => HeadJob(h) = Own(h)[1] /\ Own(h)[1] \in QueueJob
<1>1. Own(h) \in Seq(QueueJob)
  BY OwnLists
<1> QED BY <1>1 DEF HasHead, HeadJob

LEMMA MarkRewrites ==
    ASSUME ListsOK, NEW h \in Handlers, HasHead(h),
           NEW s \in Statuses, NEW a \in Actions, MarkHead(h, s, a)
    PROVE  Rewrites(h) /\ Restates(h, s)
<1>1. Len(Own(h)) >= 1 /\ HeadJob(h) = Own(h)[1] /\ Own(h)[1] \in QueueJob
  BY HeadFirst
<1>2. CASE HeadJob(h).status = "completed"
  <2>1. UNCHANGED db
    BY <1>2 DEF MarkHead
  <2> QED BY <2>1, WritesNothing
<1>3. CASE HeadJob(h).status # "completed"
  <2> DEFINE e == Marked(Own(h)[1], s, a)
  <2>1. e \in QueueJob /\ e.type = Own(h)[1].type /\ e.id = Own(h)[1].id
    BY <1>1, MarkedType
  <2>2. db' = LSet(db, PluginQ(h), 1, e)
    BY <1>1, <1>3 DEF MarkHead
  <2>3. Rewrites(h) /\ Own(h)'[1] = e
    BY <1>1, <2>1, <2>2, SetHead
  <2>4. e.status = s
    BY <1>1 DEF Marked, QueueJob
  <2> QED BY <2>3, <2>4 DEF Restates
<1> QED BY <1>2, <1>3

\* The handler's copy of the job's record goes to where the record is.
LEMMA UpdateRewrites ==
    ASSUME ListsOK, NEW h \in Handlers, NEW e \in QueueJob, Len(Own(h)) >= 1,
           e.type = Own(h)[1].type, e.id = Own(h)[1].id, UpdateJobInDB(h, e)
    PROVE  Rewrites(h) /\ Restates(h, e.status)
<1>1. CASE UNCHANGED db
  BY <1>1, WritesNothing
<1>2. CASE \E i \in 1..Len(Own(h)) : FirstMatch(h, e, i) /\ db' = LSet(db, PluginQ(h), i, e)
  <2>1. PICK i \in 1..Len(Own(h)) : FirstMatch(h, e, i) /\ db' = LSet(db, PluginQ(h), i, e)
    BY <1>2
  <2>2. Matches(h, e, 1)
    BY DEF Matches
  <2>3. i = 1
    <3>1. ASSUME i # 1 PROVE FALSE
      <4>1. 1 \in 1..(i - 1)
        BY <3>1
      <4> QED BY <2>1, <2>2, <4>1 DEF FirstMatch
    <3> QED BY <3>1
  <2>4. Rewrites(h) /\ Own(h)'[1] = e
    BY <2>1, <2>3, SetHead
  <2> QED BY <2>4 DEF Restates
<1> QED BY <1>1, <1>2 DEF UpdateJobInDB

\* What the record says is known afterwards too.
LEMMA StaysAccounted ==
    ASSUME NEW h \in Handlers, Accounted(h), Rewrites(h), KnowsHead(h),
           NEW s, Restates(h, s), Len(Own(h)) \in Nat,
           Len(Own(h)) >= 1 /\ s = "in_progress" => StillKnown(h, Own(h)[1].id)
    PROVE  Accounted(h)'
<1> SUFFICES ASSUME Len(Own(h)') >= 1, ~NotRunning(Own(h)'[1])
             PROVE  StillKnown(h, Own(h)'[1].id)
  BY DEF Accounted, Known, StillKnown
<1>1. /\ Len(Own(h)) >= 1
      /\ Own(h)'[1].id = Own(h)[1].id /\ Own(h)'[1].status \in {Own(h)[1].status, s}
  BY DEF Rewrites, Restates
<1>2. CASE Own(h)'[1].status = Own(h)[1].status
  BY <1>1, <1>2 DEF Accounted, NotRunning, KnowsHead
<1>3. CASE Own(h)'[1].status = s
  BY <1>1, <1>3 DEF NotRunning
<1> QED BY <1>1, <1>2, <1>3

\* A step that writes the record also leaves to the others what they know.
Writes(h) == Rewrites(h) /\ Accounted(h)' /\ Loses(h) /\ KnowsHead(h)

LEMMA WritesMark ==
    ASSUME ListsOK, NEW h \in Handlers, HasHead(h), Accounted(h),
           NEW s \in Statuses, NEW a \in Actions, MarkHead(h, s, a),
           Loses(h), KnowsHead(h), s = "in_progress" => StillKnown(h, Own(h)[1].id)
    PROVE  Writes(h)
<1>1. Rewrites(h) /\ Restates(h, s)
  BY MarkRewrites
<1>2. Len(Own(h)) \in Nat
  BY OwnLists
<1> QED BY <1>1, <1>2, StaysAccounted DEF Writes

\* Of a completed job nobody else knows that it is completed.
LEMMA TakesCompleted ==
    ASSUME ListsOK, EventsOK, NEW h \in Handlers, Len(Own(h)) >= 1, IsJob(Own(h)[1]),
           TakeCompleted(h, Own(h)[1].id), UNCHANGED inProgress
    PROVE  Loses(h) /\ KnowsHead(h)
<1>1. Has(Own(h), Own(h)[1].id)
  BY OwnLists DEF Has
<1>2. /\ completed' = completed \ {Own(h)[1].id}
      /\ ownDone'[h] = ownDone[h] \cup {Own(h)[1].id}
      /\ \A g \in Handlers \ {h} : ownDone'[g] = ownDone[g]
  BY DEF TakeCompleted, EventsOK
<1>3. Loses(h)
  BY <1>1, <1>2 DEF Loses, Known, StillKnown
<1>4. KnowsHead(h)
  BY <1>2 DEF KnowsHead, Known, StillKnown
<1> QED BY <1>3, <1>4

LEMMA WritesCompleted ==
    ASSUME ListsOK, EventsOK, NEW h \in Handlers, OwnShape(h), Accounted(h),
           KnownCompleted(h), MarkCompleted(h), UNCHANGED inProgress
    PROVE  Writes(h)
<1>1. /\ HasHead(h) /\ Len(Own(h)) >= 1 /\ HeadJob(h) = Own(h)[1]
      /\ HeadJob(h) \in QueueJob /\ IsJob(Own(h)[1])
  BY HeadFirst DEF KnownCompleted, OwnShape
<1>2. /\ "completed" \in Statuses /\ "finish" \in Actions
      /\ (IF HeadJob(h).id \in inProgress THEN "in_progress" ELSE HeadJob(h).action) \in Actions
  BY <1>1 DEF Statuses, Actions, QueueJob
<1>3. CASE HeadJob(h).id \in ownDone[h]
  <2>1. MarkHead(h, "completed", "finish") /\ UNCHANGED <<completed, ownDone>>
    BY <1>3 DEF MarkCompleted
  <2> QED BY <1>1, <1>2, <2>1, LosesNothing, WritesMark
<1>4. CASE HeadJob(h).id \notin ownDone[h]
  <2>1. /\ TakeCompleted(h, Own(h)[1].id)
        /\ MarkHead(h, "completed",
                    IF HeadJob(h).id \in inProgress THEN "in_progress" ELSE HeadJob(h).action)
    BY <1>1, <1>4 DEF MarkCompleted
  <2>2. Loses(h) /\ KnowsHead(h)
    BY <1>1, <2>1, TakesCompleted
  <2>3. PICK a \in Actions : MarkHead(h, "completed", a)
    BY <1>2, <2>1
  <2> QED BY <1>1, <1>2, <2>2, <2>3, WritesMark
<1> QED BY <1>3, <1>4

LEMMA WritesAnswer ==
    ASSUME ListsOK, EventsOK, NEW h \in Handlers, Accounted(h),
           KnownRunning(h), AskAPI(h), UNCHANGED inProgress
    PROVE  Writes(h)
<1>1. /\ HasHead(h) /\ Len(Own(h)) >= 1 /\ HeadJob(h) = Own(h)[1]
      /\ Own(h)[1].id \in inProgress
  BY HeadFirst DEF KnownRunning
<1>2. {"completed", "in_progress"} \subseteq Statuses /\ "in_progress" \in Actions
  BY DEF Statuses, Actions
<1>3. /\ UNCHANGED completed
      /\ \A g \in Handlers : ownDone[g] \subseteq ownDone'[g]
  BY DEF AskAPI, EventsOK
<1>4. Loses(h) /\ KnowsHead(h) /\ StillKnown(h, Own(h)[1].id)
  BY <1>1, <1>3 DEF Loses, KnowsHead, Known, StillKnown
<1>5. PICK s \in Statuses : MarkHead(h, s, "in_progress")
  BY <1>2 DEF AskAPI
<1> QED BY <1>1, <1>2, <1>4, <1>5, WritesMark

LEMMA WritesCopy ==
    ASSUME ListsOK, NEW h \in Handlers, NEW e \in QueueJob, Len(Own(h)) >= 1, Accounted(h),
           e.type = Own(h)[1].type, e.id = Own(h)[1].id, UpdateJobInDB(h, e),
           NotRunning(e) \/ Known(h, e.id), UNCHANGED <<inProgress, completed, ownDone>>
    PROVE  Writes(h)
<1>1. Rewrites(h) /\ Restates(h, e.status)
  BY UpdateRewrites
<1>2. Len(Own(h)) \in Nat
  BY OwnLists
<1>3. Loses(h) /\ KnowsHead(h)
  BY LosesNothing
<1>4. e.status = "in_progress" => StillKnown(h, Own(h)[1].id)
  BY DEF NotRunning, Known, StillKnown
<1> QED BY <1>1, <1>2, <1>3, <1>4, StaysAccounted DEF Writes

LEMMA WritesIdle ==
    ASSUME ListsOK, NEW h \in Handlers, Accounted(h),
           UNCHANGED <<db, inProgress, completed, ownDone>>
    PROVE  Writes(h)
<1>1. Rewrites(h) /\ Loses(h) /\ KnowsHead(h)
  BY WritesNothing, LosesNothing
<1>2. Own(h)' = Own(h)
  BY DEF Own
<1> QED BY <1>1, <1>2 DEF Writes, Accounted, Known

\* A run that ends, or goes to watch its job.
LEMMA TidyRun ==
    ASSUME ListsOK, NEW h \in Handlers, Tidy(h), pc[h] \in (RunPcs \cup {"start"}) \ {"record"},
           Rewrites(h), Accounted(h)', pc'[h] \in {"c0", "watch"},
           onStart'[h] => pc'[h] = "c0" /\ Len(Own(h)) # 2,
           stop'[h] = stop[h], vms'[h] = vms[h]
    PROVE  Tidy(h)'
<1>1. /\ OwnShape(h) /\ CleaningShape(h) /\ Working(h)
      /\ \A v \in vms[h] : Named(h, v)
      /\ pc[h] \notin {"c0", "c1", "c2", "c3", "c4", "c5", "record"}
  BY DEF Tidy, RunPcs
<1>2. /\ Len(Own(h)') = Len(Own(h)) /\ Len(Own(h)) \in Nat
      /\ Len(Own(h)) >= 1 => IsJob(Own(h)[1]) /\ (IsJob(Own(h)'[1]) <=> IsJob(Own(h)[1]))
      /\ Len(Own(h)) = 2 => Own(h)'[2] = Own(h)[2]
      /\ Cleaning(h)' = Cleaning(h)
  BY <1>1, OwnLists, KeysDiffer DEF Rewrites, Cleaning, IsJob, OwnShape
<1>3. OwnShape(h)'
  BY <1>1, <1>2 DEF OwnShape
<1>4. CleaningShape(h)'
  BY <1>1, <1>2 DEF CleaningShape
<1>5. Working(h)'
  BY <1>1 DEF Working
<1>6. HandShape(h)'
  BY DEF HandShape
<1>7. \A v \in vms'[h] : Named(h, v)'
  BY <1>1, <1>2 DEF Named
<1> QED BY <1>3, <1>4, <1>5, <1>6, <1>7 DEF Tidy

\* The checker of a run, or of a cleanup at the start of a run.
LEMMA TidyCheck ==
    ASSUME ListsOK, NEW h \in Handlers, Tidy(h), CheckerRuns(h), Writes(h),
           Keeps(h), onStart'[h] = onStart[h], stop'[h] = stop[h], vms'[h] = vms[h]
    PROVE  Tidy(h)'
<1>1. /\ OwnShape(h) /\ CleaningShape(h) /\ Working(h) /\ HandShape(h)
      /\ \A v \in vms[h] : Named(h, v)
      /\ pc'[h] = pc[h] /\ hand'[h] = hand[h]
      /\ pc[h] # "start" /\ (pc[h] \in {"c1", "c2", "c3"} => onStart[h])
  BY DEF Tidy, RunPcs, CheckerRuns, Working, Keeps
<1>2. /\ Len(Own(h)') = Len(Own(h)) /\ Len(Own(h)) \in Nat
      /\ Len(Own(h)) >= 1 => IsJob(Own(h)[1]) /\ (IsJob(Own(h)'[1]) <=> IsJob(Own(h)[1]))
      /\ Len(Own(h)) >= 1 => Own(h)'[1].id = Own(h)[1].id
      /\ Len(Own(h)) = 2 => Own(h)'[2] = Own(h)[2]
      /\ Cleaning(h)' = Cleaning(h)
  BY <1>1, OwnLists, KeysDiffer DEF Writes, Rewrites, Cleaning, IsJob, OwnShape
<1>3. OwnShape(h)'
  BY <1>1, <1>2 DEF OwnShape
<1>4. CleaningShape(h)'
  BY <1>1, <1>2 DEF CleaningShape
<1>5. Working(h)'
  BY <1>1 DEF Working
<1>6. HandShape(h)'
  <2>1. pc[h] \in {"claimed", "obtain", "record", "boot"} => Len(Own(h)) >= 1
    BY <1>1, <1>2 DEF OwnShape
  <2>2. pc[h] \in {"claimed", "obtain", "record", "boot"} =>
           IsJob(hand[h]) /\ hand[h].id = Own(h)'[1].id
    BY <1>1, <1>2, <2>1 DEF HandShape
  <2>3. pc[h] = "claimed" => NotRunning(hand[h]) \/ StillKnown(h, hand[h].id)
    BY <1>1, <2>1 DEF HandShape, Writes, KnowsHead
  <2> QED BY <1>1, <2>2, <2>3 DEF HandShape, Known, StillKnown
<1>7. \A v \in vms'[h] : Named(h, v)'
  BY <1>1, <1>2 DEF Named
<1> QED BY <1>3, <1>4, <1>5, <1>6, <1>7 DEF Tidy, Writes

-----------------------------------------------------------------------------
(* The steps of Run.                                                        *)

\* A step of h changes no variable of another handler.
Aside(h) ==
    \A g \in Handlers \ {h} :
        Keeps(g) /\ onStart'[g] = onStart[g] /\ stop'[g] = stop[g] /\ vms'[g] = vms[g]

LEMMA MainStays == ASSUME MainWaits, db'[MainQ] = db[MainQ] PROVE MainWaits'
BY DEF MainWaits

LEMMA AsideAlone ==
    ASSUME NEW h \in Handlers, Aside(h),
           \A k \in Keys \ {MainQ, PluginQ(h), CleaningQ(h)} : db'[k] = db[k]
    PROVE  Alone(h)
<1> SUFFICES ASSUME NEW g \in Handlers \ {h} PROVE Unmoved(g)
  BY DEF Alone
<1>1. db'[PluginQ(g)] = db[PluginQ(g)] /\ db'[CleaningQ(g)] = db[CleaningQ(g)]
  BY KeysDiffer
<1> QED BY <1>1 DEF Aside, Unmoved

LEMMA TidyWrite ==
    ASSUME ListsOK, Unique, AllTidy, NEW h \in Handlers, Aside(h), Writes(h), Tidy(h)'
    PROVE  AllTidy'
<1>1. Alone(h)
  BY AsideAlone DEF Writes, Rewrites
<1>2. MainWaits'
  BY MainStays, KeysDiffer DEF AllTidy, Writes, Rewrites
<1> QED BY <1>1, <1>2, TidyStep DEF Writes

LEMMA TidyRunEnds ==
    ASSUME ListsOK, Unique, AllTidy, NEW h \in Handlers, Aside(h), Writes(h),
           pc[h] \in (RunPcs \cup {"start"}) \ {"record"}, pc'[h] \in {"c0", "watch"},
           onStart'[h] => pc'[h] = "c0" /\ Len(Own(h)) # 2,
           stop'[h] = stop[h], vms'[h] = vms[h]
    PROVE  AllTidy'
<1>1. Tidy(h)
  BY DEF AllTidy
<1>2. Tidy(h)'
  BY <1>1, TidyRun DEF Writes
<1> QED BY <1>2, TidyWrite

LEMMA OwnLength ==
    ASSUME ListsOK, NEW h \in Handlers, OwnShape(h)
    PROVE  Len(Own(h)) \in {0, 1, 2}
<1>1. PICK n \in Nat : n = Len(Own(h))
  BY OwnLists
<1>2. n <= 2
  BY <1>1 DEF OwnShape
<1> QED BY <1>1, <1>2

\* Where no record names a VM there is none.
LEMMA NoVM ==
    ASSUME NEW h \in Handlers, Tidy(h), pc[h] \notin {"record", "c2"}, Len(Own(h)) # 2
    PROVE  vms[h] = {}
BY DEF Tidy, Named

\* The first check of a run knows of a job that is recorded as running, so a
\* cleanup at the start of the run finds no VM's record.
LEMMA TidyFindsNothing ==
    ASSUME TypeOK, Unique, AllTidy, NEW h \in Handlers, RunFindsNothing(h)
    PROVE  AllTidy'
<1>1. ListsOK /\ LocalOK /\ Tidy(h) /\ OwnShape(h) /\ Accounted(h)
  BY DEF TypeOK, AllTidy, Tidy
<1>2. pc[h] = "start" /\ ~KnownCompleted(h) /\ ~KnownRunning(h)
  BY DEF RunFindsNothing, NewRun
<1>3. Len(Own(h)) # 2
  <2> SUFFICES ASSUME Len(Own(h)) = 2 PROVE FALSE
    OBVIOUS
  <2>1. ~NotRunning(Own(h)[1]) /\ Len(Own(h)) >= 1
    BY <1>1, <1>2 DEF OwnShape
  <2>2. Known(h, Own(h)[1].id)
    BY <1>1, <2>1 DEF Accounted
  <2>3. HasHead(h) /\ HeadJob(h) = Own(h)[1]
    BY <1>1, <2>1, HeadFirst
  <2> QED BY <1>2, <2>2, <2>3 DEF Known, KnownCompleted, KnownRunning
<1>4. /\ UNCHANGED <<db, inProgress, completed, ownDone>>
      /\ pc'[h] = "c0" /\ stop'[h] = stop[h] /\ vms'[h] = vms[h] /\ Aside(h)
  BY <1>1 DEF RunFindsNothing, NewRun, Goto, LocalOK, Aside, Keeps
<1>5. Writes(h)
  BY <1>1, <1>4, WritesIdle
<1> QED BY <1>1, <1>2, <1>3, <1>4, <1>5, TidyRunEnds

LEMMA TidyResume ==
    ASSUME TypeOK, Unique, AllTidy, NEW h \in Handlers, Resume(h)
    PROVE  AllTidy'
<1>1. /\ ListsOK /\ LocalOK /\ Tidy(h)
      /\ OwnShape(h) /\ CleaningShape(h) /\ Working(h) /\ Accounted(h)
  BY DEF TypeOK, AllTidy, Tidy
<1>2. pc[h] = "pick" /\ HasHead(h)
  BY DEF Resume
<1>3. Len(Own(h)) = 1 /\ Own(h)[1] \in QueueJob /\ IsJob(Own(h)[1])
  <2>1. Len(Own(h)) >= 1 /\ Own(h)[1] \in QueueJob
    BY <1>1, <1>2, HeadFirst
  <2>2. Len(Own(h)) # 2
    BY <1>1, <1>2 DEF OwnShape
  <2>3. Len(Own(h)) = 1
    BY <1>1, <2>1, <2>2, OwnLength
  <2>4. IsJob(Own(h)[1])
    BY <1>1, <2>1 DEF OwnShape
  <2> QED BY <2>1, <2>3, <2>4
<1>4. /\ pc'[h] = "claimed" /\ hand'[h] = Own(h)[1]
      /\ UNCHANGED <<db, inProgress, completed, ownDone, onStart, stop, vms>> /\ Aside(h)
  BY <1>1, <1>3 DEF Resume, Goto, LocalOK, Aside, Keeps, events, hosts
<1>5. Own(h)' = Own(h) /\ Cleaning(h)' = Cleaning(h) /\ Writes(h)
  BY <1>1, <1>4, WritesIdle DEF Own, Cleaning
<1>6. OwnShape(h)' /\ CleaningShape(h)' /\ Working(h)'
  BY <1>1, <1>2, <1>3, <1>4, <1>5 DEF OwnShape, CleaningShape, Working
<1>7. HandShape(h)' /\ Accounted(h)'
  BY <1>1, <1>3, <1>4, <1>5 DEF HandShape, Accounted, Known
<1>8. vms'[h] = {}
  BY <1>1, <1>2, <1>3, <1>4, NoVM
<1>9. Tidy(h)'
  BY <1>6, <1>7, <1>8 DEF Tidy
<1> QED BY <1>1, <1>4, <1>5, <1>9, TidyWrite

LEMMA TidyReadMainQueue ==
    ASSUME TypeOK, Unique, AllTidy, NEW h \in Handlers, ReadMainQueue(h)
    PROVE  AllTidy'
<1> DEFINE n == IF target[h] > Len(db[MainQ]) THEN 0 ELSE target[h]
<1>1. /\ ListsOK /\ LocalOK /\ Tidy(h)
      /\ OwnShape(h) /\ CleaningShape(h) /\ Working(h) /\ Accounted(h)
  BY DEF TypeOK, AllTidy, Tidy
<1>2. pc[h] = "pick" /\ Len(Own(h)) = 0
  BY <1>1, HeadFirst, OwnLists DEF ReadMainQueue
<1>3. /\ UNCHANGED <<db, inProgress, completed, ownDone, onStart, stop, vms>> /\ Aside(h)
      /\ \/ pc'[h] = "c0"
         \/ ~(n >= Len(db[MainQ])) /\ pc'[h] = "remove" /\ hand'[h] = db[MainQ][n + 1]
  BY <1>1 DEF ReadMainQueue, Goto, LocalOK, Aside, Keeps, events
<1>4. Own(h)' = Own(h) /\ Cleaning(h)' = Cleaning(h) /\ Writes(h)
  BY <1>1, <1>3, WritesIdle DEF Own, Cleaning
<1>5. ~onStart[h]
  BY <1>1, <1>2 DEF Working
<1>6. CASE pc'[h] = "c0"
  BY <1>1, <1>2, <1>3, <1>4, <1>5, <1>6, TidyRunEnds DEF RunPcs
<1>7. CASE pc'[h] = "remove"
  <2>1. n + 1 \in 1..Len(db[MainQ])
    <3>1. Len(db[MainQ]) \in Nat /\ target[h] \in Nat
      BY <1>1, KeysDiffer, Elements DEF TypeOK, HostsOK
    <3> QED BY <1>3, <1>7, <3>1
  <2>2. NotRunning(hand'[h])
    BY <1>3, <1>7, <2>1 DEF AllTidy, MainWaits
  <2>3. OwnShape(h)' /\ CleaningShape(h)' /\ Working(h)'
    BY <1>1, <1>2, <1>3, <1>4, <1>5, <1>7 DEF OwnShape, CleaningShape, Working
  <2>4. HandShape(h)' /\ Accounted(h)'
    BY <1>2, <1>4, <1>7, <2>2 DEF HandShape, Accounted
  <2>5. vms'[h] = {}
    <3>1. Len(Own(h)) # 2 /\ pc[h] \notin {"record", "c2"}
      BY <1>2
    <3>2. vms[h] = {}
      BY <1>1, <3>1, NoVM
    <3> QED BY <1>3, <3>2
  <2>6. Tidy(h)'
    BY <2>3, <2>4, <2>5 DEF Tidy
  <2> QED BY <1>1, <1>3, <1>4, <2>6, TidyWrite
<1> QED BY <1>3, <1>6, <1>7

LEMMA TidyRemove ==
    ASSUME TypeOK, Unique, AllTidy, NEW h \in Handlers, RemoveFromMainQueue(h)
    PROVE  AllTidy'
<1>1. /\ ListsOK /\ LocalOK /\ Tidy(h) /\ MainWaits
      /\ OwnShape(h) /\ CleaningShape(h) /\ Working(h) /\ Accounted(h) /\ HandShape(h)
  BY DEF TypeOK, AllTidy, Tidy
<1>2. pc[h] = "remove" /\ Len(Own(h)) = 0 /\ ~onStart[h] /\ NotRunning(hand[h])
  BY <1>1 DEF RemoveFromMainQueue, OwnShape, Working, HandShape
<1>3. /\ UNCHANGED <<inProgress, completed, ownDone, onStart, stop, vms>> /\ Aside(h)
      /\ \/ UNCHANGED db /\ pc'[h] = "c0"
         \/ /\ pc'[h] = "push" /\ hand'[h] = hand[h]
            /\ \E i \in 1..Len(db[MainQ]) : db' = LRemAt(db, MainQ, i)
  BY <1>1 DEF RemoveFromMainQueue, Goto, Drop, LocalOK, Aside, Keeps, events
<1>4. CASE UNCHANGED db /\ pc'[h] = "c0"
  <2>1. Writes(h)
    BY <1>1, <1>3, <1>4, WritesIdle
  <2> QED BY <1>1, <1>2, <1>3, <1>4, <2>1, TidyRunEnds DEF RunPcs
<1>5. CASE /\ pc'[h] = "push" /\ hand'[h] = hand[h]
           /\ \E i \in 1..Len(db[MainQ]) : db' = LRemAt(db, MainQ, i)
  <2>1. PICK i \in 1..Len(db[MainQ]) : db' = LRemAt(db, MainQ, i)
    BY <1>5
  <2>2. /\ Len(db'[MainQ]) = Len(db[MainQ]) - 1
        /\ \A n \in 1..Len(db'[MainQ]) : db'[MainQ][n] = db[MainQ][IF n < i THEN n ELSE n + 1]
        /\ \A x \in Keys \ {MainQ} : db'[x] = db[x]
    BY <1>1, <2>1, KeysDiffer, LRemResult
  <2>3. MainWaits'
    <3>1. Len(db[MainQ]) \in Nat
      BY <1>1, KeysDiffer, Elements
    <3>2. \A n \in 1..Len(db'[MainQ]) : (IF n < i THEN n ELSE n + 1) \in 1..Len(db[MainQ])
      BY <2>2, <3>1
    <3> QED BY <1>1, <2>2, <3>2 DEF MainWaits
  <2>4. Own(h)' = Own(h) /\ Cleaning(h)' = Cleaning(h)
    BY <2>2, KeysDiffer DEF Own, Cleaning
  <2>5. OwnShape(h)' /\ CleaningShape(h)' /\ Working(h)'
    BY <1>1, <1>2, <1>3, <1>5, <2>4 DEF OwnShape, CleaningShape, Working
  <2>6. HandShape(h)' /\ Accounted(h)'
    BY <1>2, <1>5, <2>4 DEF HandShape, Accounted
  <2>7. vms[h] = {}
    BY <1>1, <1>2, NoVM
  <2>8. Tidy(h)'
    BY <1>3, <2>5, <2>6, <2>7 DEF Tidy
  <2> QED BY <1>1, <1>3, <2>2, <2>3, <2>8, AsideAlone, LosesNothing, TidyStep
<1> QED BY <1>3, <1>4, <1>5

\* A record is put behind those that the handler has.
LEMMA OwnAppends ==
    ASSUME ListsOK, NEW h \in Handlers, NEW e \in QueueJob, db' = RPush(db, PluginQ(h), e)
    PROVE  /\ Len(Own(h)') = Len(Own(h)) + 1 /\ Own(h)'[Len(Own(h)) + 1] = e
           /\ \A i \in 1..Len(Own(h)) : Own(h)'[i] = Own(h)[i]
           /\ \A k \in Keys \ {PluginQ(h)} : db'[k] = db[k]
<1>1. db \in Databases(Keys, QueueJob) /\ PluginQ(h) \in Keys
  BY KeysDiffer, Elements
<1>2. db'[PluginQ(h)] = Append(db[PluginQ(h)], e) /\ SameBut(db, db', Keys, PluginQ(h))
  BY <1>1, RPushFact
<1>3. Own(h)' = Append(Own(h), e)
  BY <1>2 DEF Own
<1>4. Own(h) \in Seq(QueueJob)
  BY OwnLists
<1> QED BY <1>2, <1>3, <1>4 DEF SameBut

LEMMA TidyPushClaim ==
    ASSUME TypeOK, Records, Unique, AllTidy, NEW h \in Handlers, PushClaim(h)
    PROVE  AllTidy'
<1>1. /\ ListsOK /\ LocalOK /\ Tidy(h) /\ MainWaits
      /\ OwnShape(h) /\ CleaningShape(h) /\ Working(h) /\ HandShape(h)
  BY DEF TypeOK, AllTidy, Tidy
<1>2. pc[h] = "push" /\ Len(Own(h)) = 0 /\ ~onStart[h] /\ NotRunning(hand[h])
  BY <1>1 DEF PushClaim, OwnShape, Working, HandShape
<1>3. hand[h] \in QueueJob /\ IsJob(hand[h])
  BY <1>2 DEF TypeOK, ControlOK, HasRecord, Records, HostOK, ClaimsJob
<1>4. /\ UNCHANGED <<inProgress, completed, ownDone, onStart, stop, vms>> /\ Aside(h)
      /\ pc'[h] = "claimed" /\ hand'[h] = hand[h] /\ db' = RPush(db, PluginQ(h), hand[h])
  BY <1>1 DEF PushClaim, Goto, LocalOK, Aside, Keeps, events, hosts
<1>5. /\ Len(Own(h)') = 1 /\ Own(h)'[1] = hand[h]
      /\ \A k \in Keys \ {PluginQ(h)} : db'[k] = db[k]
  <2>1. /\ Len(Own(h)') = Len(Own(h)) + 1 /\ Own(h)'[Len(Own(h)) + 1] = hand[h]
        /\ \A k \in Keys \ {PluginQ(h)} : db'[k] = db[k]
    BY <1>1, <1>3, <1>4, OwnAppends
  <2>2. Len(Own(h)) + 1 = 1
    BY <1>2
  <2> QED BY <2>1, <2>2
<1>6. Cleaning(h)' = Cleaning(h) /\ MainWaits' /\ Alone(h)
  BY <1>1, <1>4, <1>5, KeysDiffer, MainStays, AsideAlone DEF Cleaning
<1>7. OwnShape(h)' /\ CleaningShape(h)' /\ Working(h)'
  BY <1>1, <1>2, <1>3, <1>4, <1>5, <1>6 DEF OwnShape, CleaningShape, Working
<1>8. HandShape(h)' /\ Accounted(h)'
  BY <1>2, <1>3, <1>4, <1>5 DEF HandShape, Accounted
<1>9. vms[h] = {}
  BY <1>1, <1>2, NoVM
<1>10. Tidy(h)'
  BY <1>4, <1>7, <1>8, <1>9 DEF Tidy
<1> QED BY <1>1, <1>4, <1>6, <1>10, LosesNothing, TidyStep

\* The copy of a handler that prepares a job is that of the job in its list.
LEMMA HandCopies ==
    ASSUME TypeOK, NEW h \in Handlers, Tidy(h), pc[h] \in {"claimed", "obtain", "boot"}
    PROVE  /\ hand[h] \in QueueJob /\ Len(Own(h)) >= 1
           /\ hand[h].type = Own(h)[1].type /\ hand[h].id = Own(h)[1].id
           /\ NotRunning(hand[h]) \/ Known(h, hand[h].id)
           /\ Checked(h) => NotRunning(hand[h])
<1>1. ListsOK /\ OwnShape(h) /\ HandShape(h) /\ hand[h] \in QueueJob
  BY DEF TypeOK, ControlOK, HasRecord, Tidy
<1>2. Len(Own(h)) >= 1
  <2>1. pc[h] \in {"claimed", "obtain"} => Len(Own(h)) = 1
    BY <1>1 DEF OwnShape
  <2>2. pc[h] = "boot" => Len(Own(h)) = 2
    BY <1>1 DEF OwnShape
  <2> QED BY <2>1, <2>2
<1>3. hand[h].type = Own(h)[1].type /\ hand[h].id = Own(h)[1].id
  BY <1>1, <1>2 DEF OwnShape, HandShape, IsJob
<1>4. NotRunning(hand[h]) \/ Known(h, hand[h].id)
  BY <1>1 DEF HandShape
<1>5. ASSUME Checked(h) PROVE ~Known(h, hand[h].id)
  <2>1. HasHead(h) /\ HeadJob(h) = Own(h)[1]
    BY <1>1, <1>2, HeadFirst
  <2> QED BY <1>3, <1>5, <2>1 DEF Checked, KnownCompleted, KnownRunning, Known
<1> QED BY <1>1, <1>2, <1>3, <1>4, <1>5

LEMMA WritesHand ==
    ASSUME TypeOK, NEW h \in Handlers, Tidy(h), pc[h] \in {"claimed", "obtain", "boot"},
           NEW e \in QueueJob, e.type = hand[h].type, e.id = hand[h].id,
           NotRunning(e) \/ e.status = hand[h].status, UpdateJobInDB(h, e),
           UNCHANGED <<inProgress, completed, ownDone>>
    PROVE  Writes(h)
<1>1. ListsOK /\ Accounted(h)
  BY DEF TypeOK, Tidy
<1>2. /\ Len(Own(h)) >= 1 /\ e.type = Own(h)[1].type /\ e.id = Own(h)[1].id
      /\ NotRunning(e) \/ Known(h, e.id)
  BY HandCopies DEF NotRunning
<1> QED BY <1>1, <1>2, WritesCopy

\* What becomes of the copy when only its action changes, or its VM.
LEMMA ActionCopies ==
    ASSUME NEW e \in QueueJob, NEW a \in Actions
    PROVE  LET d == [e EXCEPT !.action = a] IN
           d \in QueueJob /\ d.type = e.type /\ d.id = e.id /\ d.status = e.status
BY DEF QueueJob

LEMMA VmCopies ==
    ASSUME NEW e \in QueueJob, NEW v \in VMs
    PROVE  LET d == [e EXCEPT !.vm = v] IN
           /\ d \in QueueJob /\ d.type = e.type /\ d.id = e.id /\ d.status = e.status
           /\ d.vm = v
BY DEF QueueJob

LEMMA VMRecordVm == ASSUME NEW e \in QueueJob PROVE VMRecord(e).vm = e.vm
<1>1. "anka.VM" \in Types /\ "" \in Actions
  BY DEF Types, Actions
<1>2. /\ \A r \in QueueJob : [r EXCEPT !.type = "anka.VM"].vm = r.vm
      /\ \A r \in QueueJob : [r EXCEPT !.action = ""].vm = r.vm
      /\ \A r \in QueueJob : [r EXCEPT !.attempts = 0].vm = r.vm
  BY DEF QueueJob
<1> QED BY <1>1, <1>2, FieldTypes, Zenon DEF VMRecord

LEMMA TidyPrepare ==
    ASSUME TypeOK, Unique, AllTidy, NEW h \in Handlers, Prepare(h)
    PROVE  AllTidy'
<1> DEFINE e == [hand[h] EXCEPT !.action = "preparing"]
<1>1. /\ ListsOK /\ LocalOK /\ Tidy(h)
      /\ OwnShape(h) /\ CleaningShape(h) /\ Working(h) /\ HandShape(h)
  BY DEF TypeOK, AllTidy, Tidy
<1>2. pc[h] = "claimed" /\ Checked(h) /\ UpdateJobInDB(h, e)
  BY DEF Prepare, Preparable, Retried, Checked
<1>3. Len(Own(h)) = 1 /\ ~onStart[h] /\ vms[h] = {}
  <2>1. Len(Own(h)) = 1 /\ ~onStart[h]
    BY <1>1, <1>2 DEF OwnShape, Working
  <2> QED BY <1>1, <1>2, <2>1, NoVM
<1>4. /\ hand[h] \in QueueJob /\ NotRunning(hand[h])
      /\ hand[h].type = Own(h)[1].type /\ hand[h].id = Own(h)[1].id
  BY <1>1, <1>2, HandCopies
<1>5. /\ e \in QueueJob /\ e.type = hand[h].type /\ e.id = hand[h].id
      /\ e.status = hand[h].status
  <2>1. "preparing" \in Actions
    BY DEF Actions
  <2> QED BY <1>4, <2>1, ActionCopies
<1>6. /\ UNCHANGED <<inProgress, completed, ownDone, onStart, stop, vms>> /\ Aside(h)
      /\ pc'[h] = "c0" \/ (pc'[h] = "obtain" /\ hand'[h] = e)
  BY <1>1 DEF Prepare, ToCleanup, Goto, Drop, LocalOK, Aside, Keeps, events, hosts
<1>7. Writes(h)
  BY <1>1, <1>2, <1>5, <1>6, WritesHand
<1>8. CASE pc'[h] = "c0"
  BY <1>1, <1>2, <1>3, <1>6, <1>7, <1>8, TidyRunEnds DEF RunPcs
<1>9. CASE pc'[h] = "obtain" /\ hand'[h] = e
  <2> HIDE DEF e
  <2>1. /\ Len(Own(h)') = 1 /\ Own(h)'[1].type = Own(h)[1].type /\ Own(h)'[1].id = Own(h)[1].id
        /\ Cleaning(h)' = Cleaning(h)
    BY <1>3, <1>7, KeysDiffer DEF Writes, Rewrites, Cleaning
  <2>2. IsJob(Own(h)'[1]) /\ IsJob(hand'[h]) /\ NotRunning(hand'[h])
        /\ hand'[h].id = Own(h)'[1].id
    BY <1>1, <1>3, <1>4, <1>5, <1>9, <2>1 DEF OwnShape, IsJob, NotRunning
  <2>3. OwnShape(h)' /\ CleaningShape(h)' /\ Working(h)'
    BY <1>1, <1>2, <1>3, <1>6, <1>9, <2>1, <2>2 DEF OwnShape, CleaningShape, Working
  <2>4. HandShape(h)' /\ Accounted(h)'
    BY <1>7, <1>9, <2>2 DEF HandShape, Writes
  <2>5. Tidy(h)'
    BY <1>3, <1>6, <2>3, <2>4 DEF Tidy
  <2> QED BY <1>1, <1>6, <1>7, <2>5, TidyWrite
<1> QED BY <1>6, <1>8, <1>9

LEMMA TidyObtain ==
    ASSUME TypeOK, Unique, AllTidy, NEW h \in Handlers, ObtainVM(h)
    PROVE  AllTidy'
<1>1. /\ ListsOK /\ LocalOK /\ HostsOK /\ Tidy(h)
      /\ OwnShape(h) /\ CleaningShape(h) /\ Working(h) /\ Accounted(h) /\ HandShape(h)
  BY DEF TypeOK, AllTidy, Tidy
<1>2. pc[h] = "obtain" /\ hand[h] \in QueueJob
  BY DEF ObtainVM, TypeOK, ControlOK, HasRecord
<1>3. Len(Own(h)) = 1 /\ ~onStart[h] /\ vms[h] = {}
  <2>1. Len(Own(h)) = 1 /\ ~onStart[h]
    BY <1>1, <1>2 DEF OwnShape, Working
  <2> QED BY <1>1, <1>2, <2>1, NoVM
<1>4. PICK v \in VMs :
         /\ hand' = [hand EXCEPT ![h] = [hand[h] EXCEPT !.vm = v]]
         /\ vms' = [vms EXCEPT ![h] = @ \cup {v}] \/ UNCHANGED vms
  BY DEF ObtainVM
<1>5. /\ UNCHANGED <<db, inProgress, completed, ownDone, onStart, stop>> /\ Aside(h)
      /\ pc'[h] = "record" /\ vms'[h] \subseteq {v}
      /\ hand'[h] = [hand[h] EXCEPT !.vm = v]
  BY <1>1, <1>3, <1>4 DEF ObtainVM, Goto, LocalOK, HostsOK, Aside, Keeps, events
<1>6. /\ hand'[h].type = hand[h].type /\ hand'[h].id = hand[h].id
      /\ hand'[h].status = hand[h].status /\ hand'[h].vm = v
  BY <1>2, <1>5, VmCopies
<1>7. Own(h)' = Own(h) /\ Cleaning(h)' = Cleaning(h) /\ Writes(h)
  BY <1>1, <1>5, WritesIdle DEF Own, Cleaning
<1>8. OwnShape(h)' /\ CleaningShape(h)' /\ Working(h)'
  BY <1>1, <1>2, <1>3, <1>5, <1>7 DEF OwnShape, CleaningShape, Working
<1>9. HandShape(h)' /\ Accounted(h)'
  BY <1>1, <1>2, <1>5, <1>6, <1>7 DEF HandShape, Writes, IsJob, NotRunning
<1>10. \A w \in vms'[h] : Named(h, w)'
  BY <1>5, <1>6 DEF Named
<1>11. Tidy(h)'
  BY <1>8, <1>9, <1>10 DEF Tidy
<1> QED BY <1>1, <1>5, <1>7, <1>11, TidyWrite

LEMMA TidyRecord ==
    ASSUME TypeOK, Unique, AllTidy, NEW h \in Handlers, RecordVM(h)
    PROVE  AllTidy'
<1>1. /\ ListsOK /\ LocalOK /\ Tidy(h) /\ MainWaits
      /\ OwnShape(h) /\ CleaningShape(h) /\ Working(h) /\ Accounted(h) /\ HandShape(h)
      /\ \A v \in vms[h] : Named(h, v)
  BY DEF TypeOK, AllTidy, Tidy
<1>2. pc[h] = "record" /\ hand[h] \in QueueJob
  BY DEF RecordVM, TypeOK, ControlOK, HasRecord
<1>3. Len(Own(h)) = 1 /\ ~onStart[h]
  BY <1>1, <1>2 DEF OwnShape, Working
<1>4. PICK e \in QueueJob : e = VMRecord(hand[h]) /\ IsVM(e) /\ e.vm = hand[h].vm
  BY <1>2, VMRecordType, VMRecordVm
<1>5. /\ UNCHANGED <<inProgress, completed, ownDone, onStart, stop, vms>> /\ Aside(h)
      /\ pc'[h] = "boot" /\ hand'[h] = hand[h] /\ db' = RPush(db, PluginQ(h), e)
  BY <1>1, <1>4 DEF RecordVM, Goto, LocalOK, Aside, Keeps, events, hosts
<1>6. /\ Len(Own(h)') = 2 /\ Own(h)'[2] = e /\ Own(h)'[1] = Own(h)[1]
      /\ \A k \in Keys \ {PluginQ(h)} : db'[k] = db[k]
  <2>1. /\ Len(Own(h)') = Len(Own(h)) + 1 /\ Own(h)'[Len(Own(h)) + 1] = e
        /\ \A i \in 1..Len(Own(h)) : Own(h)'[i] = Own(h)[i]
        /\ \A k \in Keys \ {PluginQ(h)} : db'[k] = db[k]
    BY <1>1, <1>5, OwnAppends
  <2>2. Len(Own(h)) + 1 = 2 /\ 1 \in 1..Len(Own(h))
    BY <1>3
  <2> QED BY <2>1, <2>2
<1>7. Cleaning(h)' = Cleaning(h) /\ MainWaits' /\ Alone(h)
  BY <1>1, <1>5, <1>6, KeysDiffer, MainStays, AsideAlone DEF Cleaning
<1>8. OwnShape(h)' /\ CleaningShape(h)' /\ Working(h)'
  BY <1>1, <1>2, <1>3, <1>4, <1>5, <1>6, <1>7 DEF OwnShape, CleaningShape, Working
<1>9. HandShape(h)' /\ Accounted(h)'
  BY <1>1, <1>2, <1>3, <1>5, <1>6 DEF HandShape, Accounted, Known
<1>10. \A v \in vms'[h] : Named(h, v)'
  BY <1>1, <1>2, <1>3, <1>4, <1>5, <1>6 DEF Named
<1>11. Tidy(h)'
  BY <1>8, <1>9, <1>10 DEF Tidy
<1> QED BY <1>1, <1>5, <1>7, <1>11, LosesNothing, TidyStep

\* The steps of Run that end it, or leave it watching the job.
LEMMA TidyEnding ==
    ASSUME TypeOK, Unique, AllTidy, NEW h \in Handlers,
           \/ RunFindsCompleted(h) \/ RunFindsInProgress(h)
           \/ ClaimFindsCompleted(h) \/ ClaimFindsInProgress(h)
           \/ CancelJob(h) \/ CancelUnrunnable(h) \/ RetryIsOver(h) \/ RetryIsRunning(h)
           \/ StartRunner(h) \/ SeeCompleted(h) \/ StepFails(h) \/ NoRunnerRegistered(h)
           \/ SixHoursPass(h) \/ NoCapacity(h) \/ NoTemplateOnHost(h)
    PROVE  AllTidy'
<1> USE DEF Goto, Drop, ToCleanup, events, hosts
<1>1. /\ ListsOK /\ EventsOK /\ LocalOK /\ Tidy(h)
      /\ OwnShape(h) /\ Working(h) /\ Accounted(h)
  BY DEF TypeOK, AllTidy, Tidy
<1>2. ASSUME Writes(h), Aside(h), UNCHANGED <<onStart, stop, vms>>,
             pc[h] \in (RunPcs \cup {"start"}) \ {"record"}, pc'[h] \in {"c0", "watch"}
      PROVE  AllTidy'
  <2>1. ~onStart[h]
    BY <1>1, <1>2 DEF Working, RunPcs
  <2> QED BY <1>1, <1>2, <2>1, TidyRunEnds
<1>3. ASSUME UNCHANGED <<inProgress, completed, ownDone>>,
             pc[h] \in {"claimed", "obtain", "boot"},
             NEW e \in QueueJob, e.type = hand[h].type, e.id = hand[h].id,
             NotRunning(e) \/ e.status = hand[h].status, UpdateJobInDB(h, e)
      PROVE  Writes(h)
  BY <1>1, <1>3, WritesHand
<1>4. ASSUME UNCHANGED <<db, inProgress, completed, ownDone>> PROVE Writes(h)
  BY <1>1, <1>4, WritesIdle
<1>5. {"finish", "cancel", "in_progress", "timed_out", "remove_self_hosted_runner"} \subseteq Actions
  BY DEF Actions
<1>6. {"completed", "timed_out"} \subseteq Statuses
  BY DEF Statuses
<1>7. CASE RunFindsCompleted(h)
  <2>1. Writes(h)
    BY <1>1, <1>7, WritesCompleted DEF RunFindsCompleted, NewRun
  <2> QED BY <1>1, <1>2, <1>7, <2>1 DEF RunFindsCompleted, NewRun, LocalOK, Aside, Keeps, RunPcs
<1>8. CASE RunFindsInProgress(h)
  <2>1. Writes(h)
    BY <1>1, <1>8, WritesAnswer DEF RunFindsInProgress, NewRun
  <2> QED BY <1>1, <1>2, <1>8, <2>1 DEF RunFindsInProgress, NewRun, LocalOK, Aside, Keeps, RunPcs
<1>9. CASE ClaimFindsCompleted(h)
  <2>1. Writes(h)
    BY <1>1, <1>9, WritesCompleted DEF ClaimFindsCompleted
  <2> QED BY <1>1, <1>2, <1>9, <2>1 DEF ClaimFindsCompleted, LocalOK, Aside, Keeps, RunPcs
<1>10. CASE ClaimFindsInProgress(h)
  <2>1. Writes(h)
    BY <1>1, <1>10, WritesAnswer DEF ClaimFindsInProgress
  <2> QED BY <1>1, <1>2, <1>10, <2>1 DEF ClaimFindsInProgress, LocalOK, Aside, Keeps, RunPcs
<1>11. CASE CancelJob(h) \/ RetryIsOver(h)
  <2>1. pc[h] \in {"claimed", "obtain"} /\ hand[h] \in QueueJob
    BY <1>11 DEF CancelJob, RetryIsOver, Checked, Retried, TypeOK, ControlOK, HasRecord
  <2>2. PICK a \in Actions : UpdateJobInDB(h, Marked(hand[h], "completed", a))
    BY <1>5, <1>11 DEF CancelJob, RetryIsOver
  <2>3. /\ Marked(hand[h], "completed", a) \in QueueJob
        /\ Marked(hand[h], "completed", a).type = hand[h].type
        /\ Marked(hand[h], "completed", a).id = hand[h].id
    BY <1>6, <2>1, MarkedType
  <2>4. NotRunning(Marked(hand[h], "completed", a))
    BY <2>1 DEF Marked, NotRunning, QueueJob
  <2>5. UNCHANGED <<inProgress, completed, ownDone>>
    BY <1>11 DEF CancelJob, RetryIsOver
  <2>6. Writes(h)
    BY <1>3, <2>1, <2>2, <2>3, <2>4, <2>5
  <2> QED BY <1>1, <1>2, <1>11, <2>1, <2>6 DEF CancelJob, RetryIsOver, LocalOK, Aside, Keeps, RunPcs
<1>12. CASE CancelUnrunnable(h)
  <2>1. pc[h] \in {"claimed", "obtain"} /\ hand[h] \in QueueJob
    BY <1>12 DEF CancelUnrunnable, Preparable, Checked, Retried, TypeOK, ControlOK, HasRecord
  <2>2. PICK e : e = [hand[h] EXCEPT !.action = "cancel"]
    OBVIOUS
  <2>3. /\ e \in QueueJob /\ e.type = hand[h].type /\ e.id = hand[h].id
        /\ e.status = hand[h].status
    BY <1>5, <2>1, <2>2, ActionCopies
  <2>4. UpdateJobInDB(h, e) /\ UNCHANGED <<inProgress, completed, ownDone>>
    BY <1>12, <2>2 DEF CancelUnrunnable
  <2>5. Writes(h)
    BY <1>3, <2>1, <2>3, <2>4
  <2> QED BY <1>1, <1>2, <1>12, <2>1, <2>5 DEF CancelUnrunnable, LocalOK, Aside, Keeps, RunPcs
<1>13. CASE StartRunner(h)
  <2>1. pc[h] = "boot" /\ hand[h] \in QueueJob
    BY <1>13 DEF StartRunner, TypeOK, ControlOK, HasRecord
  <2>2. PICK e : e = [hand[h] EXCEPT !.action = "in_progress"]
    OBVIOUS
  <2>3. /\ e \in QueueJob /\ e.type = hand[h].type /\ e.id = hand[h].id
        /\ e.status = hand[h].status
    BY <1>5, <2>1, <2>2, ActionCopies
  <2>4. UpdateJobInDB(h, e) /\ UNCHANGED <<inProgress, completed, ownDone>>
    BY <1>13, <2>2 DEF StartRunner
  <2>5. Writes(h)
    BY <1>3, <2>1, <2>3, <2>4
  <2> QED BY <1>1, <1>2, <1>13, <2>1, <2>5 DEF StartRunner, LocalOK, Aside, Keeps, RunPcs
<1>14. CASE NoRunnerRegistered(h)
  <2>1. /\ HasHead(h) /\ HeadJob(h) = Own(h)[1] /\ Own(h)[1] \in QueueJob
        /\ MarkHead(h, HeadJob(h).status, "remove_self_hosted_runner")
    BY <1>1, <1>14, HeadFirst DEF NoRunnerRegistered
  <2>2. PICK s \in Statuses : s = Own(h)[1].status
    BY <2>1 DEF QueueJob
  <2>3. Loses(h) /\ KnowsHead(h) /\ UNCHANGED <<inProgress, completed, ownDone>>
    BY <1>14, LosesNothing DEF NoRunnerRegistered
  <2>4. Rewrites(h) /\ Restates(h, s)
    BY <1>1, <1>5, <2>1, <2>2, MarkRewrites
  <2>5. Accounted(h)'
    BY <1>1, <2>2, <2>3, <2>4 DEF Accounted, Rewrites, Restates, NotRunning, Known
  <2>6. Writes(h)
    BY <2>3, <2>4, <2>5 DEF Writes
  <2> QED BY <1>1, <1>2, <1>14, <2>6 DEF NoRunnerRegistered, LocalOK, Aside, Keeps, RunPcs
<1>15. CASE SixHoursPass(h)
  <2>1. HasHead(h) /\ MarkHead(h, "timed_out", "timed_out") /\ Loses(h) /\ KnowsHead(h)
    BY <1>15, LosesNothing DEF SixHoursPass
  <2>2. Writes(h)
    BY <1>1, <1>5, <1>6, <2>1, WritesMark
  <2> QED BY <1>1, <1>2, <1>15, <2>2 DEF SixHoursPass, LocalOK, Aside, Keeps, RunPcs
<1>16. CASE RetryIsRunning(h)
  BY <1>1, <1>2, <1>4, <1>16 DEF RetryIsRunning, Retried, Checked, LocalOK, Aside, Keeps, RunPcs
<1>17. CASE SeeCompleted(h)
  BY <1>1, <1>2, <1>4, <1>17 DEF SeeCompleted, LocalOK, Aside, Keeps, RunPcs
<1>18. CASE StepFails(h)
  BY <1>1, <1>2, <1>4, <1>18 DEF StepFails, Retried, Checked, LocalOK, Aside, Keeps, RunPcs
<1>19. CASE NoCapacity(h)
  BY <1>1, <1>2, <1>4, <1>19 DEF NoCapacity, LocalOK, Aside, Keeps, RunPcs
<1>20. CASE NoTemplateOnHost(h)
  BY <1>1, <1>2, <1>4, <1>20 DEF NoTemplateOnHost, LocalOK, Aside, Keeps, RunPcs
<1> QED BY <1>7, <1>8, <1>9, <1>10, <1>11, <1>12, <1>13, <1>14, <1>15, <1>16, <1>17, <1>18,
           <1>19, <1>20

-----------------------------------------------------------------------------
(* The steps of cleanup.                                                    *)

\* A cleanup that ends with no VM left, and nothing in the cleaning list.
LEMMA TidyEnd ==
    ASSUME NEW h \in Handlers, Working(h), pc[h] \in CleanupPcs, EndCleanup(h), LocalOK,
           vms'[h] = {}, Cleaning(h)' = <<>>, Accounted(h)',
           Len(Own(h)') \in {0, 1}, Len(Own(h)') = 1 => IsJob(Own(h)'[1])
    PROVE  Tidy(h)'
<1>1. /\ pc'[h] \in {"pick", "start"} /\ onStart'[h] = FALSE /\ stop'[h] = "no"
  BY DEF EndCleanup, Goto, LocalOK, Working
<1>2. OwnShape(h)' /\ CleaningShape(h)' /\ Working(h)'
  BY <1>1 DEF OwnShape, CleaningShape, Working
<1>3. HandShape(h)'
  BY <1>1 DEF HandShape
<1>4. Tidy(h)'
  BY <1>2, <1>3 DEF Tidy
<1> QED BY <1>4

LEMMA TidySkip ==
    ASSUME TypeOK, Unique, AllTidy, NEW h \in Handlers, SkipCleanup(h)
    PROVE  AllTidy'
<1>1. /\ ListsOK /\ LocalOK /\ Tidy(h)
      /\ OwnShape(h) /\ CleaningShape(h) /\ Working(h) /\ Accounted(h)
      /\ \A v \in vms[h] : Named(h, v)
  BY DEF TypeOK, AllTidy, Tidy
<1>2. pc[h] = "c0" /\ Live(h) /\ NothingToClean(h)
  BY <1>1 DEF SkipCleanup, Working, Live
<1>3. /\ UNCHANGED <<db, inProgress, completed, ownDone, stop, vms>> /\ Aside(h)
      /\ pc'[h] = (IF onStart[h] THEN "pick" ELSE "start") /\ onStart'[h] = FALSE
  BY <1>1 DEF SkipCleanup, EndCleanup, Goto, LocalOK, Aside, Keeps, events, hosts
<1>4. Own(h)' = Own(h) /\ Cleaning(h)' = Cleaning(h) /\ Writes(h)
  BY <1>1, <1>3, WritesIdle DEF Own, Cleaning
<1>5. Len(Own(h)) = 2 => ~onStart[h] /\ ~NotRunning(Own(h)[1])
  <2>1. ASSUME Len(Own(h)) = 2 PROVE ~onStart[h] /\ HasHead(h) /\ HeadJob(h) = Own(h)[1]
    BY <1>1, <2>1, HeadFirst DEF OwnShape
  <2> QED BY <1>2, <2>1 DEF NothingToClean, NotRunning
<1>6. OwnShape(h)'
  BY <1>1, <1>2, <1>3, <1>4, <1>5 DEF OwnShape
<1>7. CleaningShape(h)' /\ Working(h)' /\ HandShape(h)'
  BY <1>1, <1>2, <1>3, <1>4 DEF CleaningShape, Working, HandShape
<1>8. \A v \in vms'[h] : Named(h, v)'
  BY <1>1, <1>2, <1>3, <1>4 DEF Named
<1>9. Tidy(h)'
  BY <1>4, <1>6, <1>7, <1>8 DEF Tidy, Writes
<1> QED BY <1>1, <1>3, <1>4, <1>9, TidyWrite

LEMMA TidyBegin ==
    ASSUME TypeOK, Unique, AllTidy, NEW h \in Handlers, BeginCleanup(h)
    PROVE  AllTidy'
<1>1. /\ ListsOK /\ LocalOK /\ Tidy(h)
      /\ OwnShape(h) /\ CleaningShape(h) /\ Working(h) /\ Accounted(h)
      /\ \A v \in vms[h] : Named(h, v)
  BY DEF TypeOK, AllTidy, Tidy
<1>2. pc[h] = "c0" /\ HasHead(h) /\ HeadJob(h).status # "in_progress"
  BY DEF BeginCleanup, NothingToClean
<1>3. NotRunning(Own(h)[1])
  BY <1>1, <1>2, HeadFirst DEF NotRunning
<1>4. /\ UNCHANGED <<db, inProgress, completed, ownDone, onStart, stop, vms>> /\ Aside(h)
      /\ pc'[h] = "c1"
  BY <1>1 DEF BeginCleanup, Goto, LocalOK, Aside, Keeps, events, hosts
<1>5. Own(h)' = Own(h) /\ Cleaning(h)' = Cleaning(h) /\ Writes(h)
  BY <1>1, <1>4, WritesIdle DEF Own, Cleaning
<1>6. OwnShape(h)' /\ CleaningShape(h)' /\ Working(h)'
  BY <1>1, <1>2, <1>4, <1>5 DEF OwnShape, CleaningShape, Working
<1>7. HandShape(h)'
  BY <1>3, <1>4, <1>5 DEF HandShape
<1>8. \A v \in vms'[h] : Named(h, v)'
  BY <1>1, <1>2, <1>4, <1>5 DEF Named
<1>9. Tidy(h)'
  BY <1>5, <1>6, <1>7, <1>8 DEF Tidy, Writes
<1> QED BY <1>1, <1>4, <1>5, <1>9, TidyWrite

\* cleanup takes the VM's record first, and then the job's.
LEMMA TidyNextRecord ==
    ASSUME TypeOK, Unique, AllTidy, NEW h \in Handlers, NextRecord(h)
    PROVE  AllTidy'
<1>1. /\ ListsOK /\ LocalOK /\ Tidy(h) /\ MainWaits
      /\ OwnShape(h) /\ CleaningShape(h) /\ Working(h) /\ Accounted(h) /\ HandShape(h)
      /\ \A v \in vms[h] : Named(h, v)
  BY DEF TypeOK, AllTidy, Tidy
<1>2. pc[h] = "c1" /\ Cleaning(h) = <<>> /\ ~onStart[h]
  BY <1>1 DEF NextRecord, CleaningShape
<1>3. /\ Own(h) # <<>> /\ Own(h)' = SubSeq(Own(h), 1, Len(Own(h)) - 1)
      /\ Len(Cleaning(h)') = 1 /\ Cleaning(h)'[1] = Own(h)[Len(Own(h))]
      /\ \A k \in Keys \ {PluginQ(h), CleaningQ(h)} : db'[k] = db[k]
  BY <1>1, <1>2, NextRecordLists
<1>4. /\ UNCHANGED <<inProgress, completed, ownDone, onStart, stop, vms>> /\ Aside(h)
      /\ pc'[h] = "c2"
  BY <1>1 DEF NextRecord, Goto, LocalOK, Aside, Keeps, events, hosts
<1>5. Own(h) \in Seq(QueueJob) /\ Len(Own(h)) \in {1, 2} /\ NotRunning(Own(h)[1])
  <2>1. Own(h) \in Seq(QueueJob) /\ Len(Own(h)) # 0
    BY <1>1, <1>3, OwnLists
  <2>2. Len(Own(h)) \in {1, 2}
    BY <1>1, <2>1, OwnLength
  <2> QED BY <1>1, <1>2, <2>1, <2>2 DEF HandShape
<1>6. /\ Len(Own(h)') = Len(Own(h)) - 1
      /\ Len(Own(h)) = 2 => Own(h)'[1] = Own(h)[1]
  <2>1. /\ Len(Own(h)') = Len(Own(h)) - 1
        /\ \A i \in 1..(Len(Own(h)) - 1) : Own(h)'[i] = Own(h)[i]
    BY <1>3, <1>5, FrontElements
  <2> QED BY <2>1
<1>7. CleaningShape(h)' /\ OwnShape(h)'
  <2>1. CASE Len(Own(h)) = 1
    BY <1>1, <1>3, <1>4, <1>5, <1>6, <2>1 DEF CleaningShape, OwnShape
  <2>2. CASE Len(Own(h)) = 2
    BY <1>1, <1>3, <1>4, <1>5, <1>6, <2>2 DEF CleaningShape, OwnShape
  <2> QED BY <1>5, <2>1, <2>2
<1>8. Working(h)' /\ HandShape(h)' /\ Accounted(h)'
  <2>1. Len(Own(h)') >= 1 => NotRunning(Own(h)'[1])
    BY <1>5, <1>6
  <2> QED BY <1>1, <1>2, <1>4, <2>1 DEF Working, HandShape, Accounted
<1>9. \A v \in vms'[h] : Named(h, v)'
  <2> SUFFICES ASSUME NEW v \in vms[h] PROVE Named(h, v)'
    BY <1>4
  <2>1. Len(Own(h)) = 2 /\ Own(h)[2].vm = v
    BY <1>1, <1>2 DEF Named
  <2>2. Cleaning(h)'[1] = Own(h)[2] /\ IsVM(Own(h)[2])
    BY <1>1, <1>3, <2>1 DEF OwnShape
  <2> QED BY <1>4, <2>1, <2>2 DEF Named
<1>10. Tidy(h)'
  BY <1>7, <1>8, <1>9 DEF Tidy
<1>11. MainWaits' /\ Alone(h)
  BY <1>1, <1>3, <1>4, KeysDiffer, MainStays, AsideAlone
<1> QED BY <1>1, <1>4, <1>10, <1>11, LosesNothing, TidyStep

LEMMA TidyNoRecord ==
    ASSUME TypeOK, Unique, AllTidy, NEW h \in Handlers, NoRecord(h)
    PROVE  AllTidy'
<1>1. /\ ListsOK /\ LocalOK /\ Tidy(h)
      /\ OwnShape(h) /\ CleaningShape(h) /\ Working(h) /\ Accounted(h)
  BY DEF TypeOK, AllTidy, Tidy
<1>2. pc[h] = "c1" /\ Cleaning(h) = <<>> /\ EndCleanup(h)
  BY DEF NoRecord
<1>3. Len(Own(h)) # 2
  BY <1>1, HeadFirst DEF NoRecord, OwnShape
<1>4. /\ UNCHANGED <<db, inProgress, completed, ownDone, stop, vms>> /\ Aside(h)
  BY <1>1 DEF NoRecord, EndCleanup, Goto, LocalOK, Aside, Keeps, events, hosts
<1>5. Own(h)' = Own(h) /\ Cleaning(h)' = Cleaning(h) /\ Writes(h)
  BY <1>1, <1>4, WritesIdle DEF Own, Cleaning
<1>6. vms'[h] = {}
  BY <1>1, <1>2, <1>3, <1>4, NoVM
<1>7. Len(Own(h)) \in {0, 1} /\ (Len(Own(h)) = 1 => IsJob(Own(h)[1]))
  BY <1>1, <1>3, OwnLength DEF OwnShape
<1>8. pc[h] \in CleanupPcs /\ Accounted(h)'
  BY <1>2, <1>5 DEF CleanupPcs, Writes
<1>9. Tidy(h)'
  BY <1>1, <1>2, <1>5, <1>6, <1>7, <1>8, TidyEnd
<1> QED BY <1>1, <1>4, <1>5, <1>9, TidyWrite

LEMMA TidyDeleteVM ==
    ASSUME Steady, TypeOK, Unique, AllTidy, NEW h \in Handlers, DeleteVM(h)
    PROVE  AllTidy'
<1>1. /\ ListsOK /\ LocalOK /\ HostsOK /\ Tidy(h)
      /\ OwnShape(h) /\ CleaningShape(h) /\ Working(h) /\ Accounted(h) /\ HandShape(h)
      /\ \A v \in vms[h] : Named(h, v)
  BY DEF TypeOK, AllTidy, Tidy
<1>2. pc[h] = "c2" /\ IsVM(Cleaning(h)[1]) /\ Subject(h) = Cleaning(h)[1]
  BY <1>1, OwnLists DEF DeleteVM, Subject, CleaningShape
<1>3. Len(Own(h)) = 1 /\ Len(Cleaning(h)) = 1 /\ ~onStart[h]
  <2>1. Len(Cleaning(h)) = 1 /\ ~onStart[h]
    BY <1>1, <1>2 DEF CleaningShape, Working
  <2>2. Cleaning(h)[1] \in QueueJob
    <3>1. Cleaning(h) \in Seq(QueueJob) /\ 1 \in 1..Len(Cleaning(h))
      BY <1>1, <2>1, OwnLists
    <3> QED BY <3>1
  <2>3. ~IsJob(Cleaning(h)[1])
    BY <1>2, <2>2, JobOrVM
  <2> QED BY <1>1, <1>2, <2>1, <2>3 DEF CleaningShape
<1>4. ~Fault("anka")
  BY DEF Steady, Fault
<1>5. /\ UNCHANGED <<db, inProgress, completed, ownDone, onStart, stop>> /\ Aside(h)
      /\ pc'[h] = "c3" /\ vms'[h] = vms[h] \ {Cleaning(h)[1].vm}
  BY <1>1, <1>2, <1>4 DEF DeleteVM, Goto, LocalOK, HostsOK, Aside, Keeps, events
<1>6. vms'[h] = {}
  BY <1>1, <1>2, <1>3, <1>5 DEF Named
<1>7. Own(h)' = Own(h) /\ Cleaning(h)' = Cleaning(h) /\ Writes(h)
  BY <1>1, <1>5, WritesIdle DEF Own, Cleaning
<1>8. OwnShape(h)' /\ CleaningShape(h)' /\ Working(h)' /\ HandShape(h)'
  BY <1>1, <1>2, <1>3, <1>5, <1>7 DEF OwnShape, CleaningShape, Working, HandShape
<1>9. Tidy(h)'
  BY <1>6, <1>7, <1>8 DEF Tidy, Writes
<1> QED BY <1>1, <1>5, <1>7, <1>9, TidyWrite

LEMMA TidyForgetVM ==
    ASSUME TypeOK, Unique, AllTidy, NEW h \in Handlers, ForgetVM(h)
    PROVE  AllTidy'
<1>1. /\ ListsOK /\ LocalOK /\ Tidy(h) /\ MainWaits
      /\ OwnShape(h) /\ CleaningShape(h) /\ Working(h) /\ Accounted(h) /\ HandShape(h)
  BY DEF TypeOK, AllTidy, Tidy
<1>2. pc[h] = "c3" /\ Len(Own(h)) = 1 /\ ~onStart[h]
  BY <1>1 DEF ForgetVM, OwnShape, Working
<1>3. /\ UNCHANGED <<inProgress, completed, ownDone, onStart, stop, vms>> /\ Aside(h)
      /\ pc'[h] = "c1" /\ db' = Del(db, CleaningQ(h))
  BY <1>1 DEF ForgetVM, Goto, LocalOK, Aside, Keeps, events, hosts
<1>4. /\ Own(h)' = Own(h) /\ Cleaning(h)' = <<>>
      /\ \A k \in Keys \ {CleaningQ(h)} : db'[k] = db[k]
  BY <1>1, <1>3, DeletedLists
<1>5. vms'[h] = {}
  BY <1>1, <1>2, <1>3, NoVM
<1>6. OwnShape(h)' /\ CleaningShape(h)' /\ Working(h)'
  BY <1>1, <1>2, <1>3, <1>4 DEF OwnShape, CleaningShape, Working
<1>7. HandShape(h)' /\ Accounted(h)'
  BY <1>1, <1>2, <1>3, <1>4 DEF HandShape, Accounted, Known
<1>8. Tidy(h)'
  BY <1>5, <1>6, <1>7 DEF Tidy
<1>9. MainWaits' /\ Alone(h)
  BY <1>1, <1>3, <1>4, KeysDiffer, MainStays, AsideAlone
<1> QED BY <1>1, <1>3, <1>8, <1>9, LosesNothing, TidyStep

\* What a handler that is to process a job has.
LEMMA ProcessesJob ==
    ASSUME TypeOK, NEW h \in Handlers, Tidy(h), pc[h] = "c2", IsJob(Subject(h))
    PROVE  /\ Len(Own(h)) = 0 /\ Own(h) = <<>> /\ Len(Cleaning(h)) = 1 /\ vms[h] = {}
           /\ Subject(h) = Cleaning(h)[1] /\ Subject(h) \in QueueJob
           /\ NotRunning(Subject(h)) /\ Has(Cleaning(h), Subject(h).id)
<1>1. ListsOK /\ CleaningShape(h) /\ \A v \in vms[h] : Named(h, v)
  BY DEF TypeOK, Tidy
<1>2. /\ Len(Cleaning(h)) = 1 /\ Subject(h) = Cleaning(h)[1] /\ Subject(h) \in QueueJob
  <2>1. Len(Cleaning(h)) = 1
    BY <1>1 DEF CleaningShape
  <2>2. Cleaning(h) \in Seq(QueueJob)
    BY <1>1, OwnLists
  <2>3. Cleaning(h)[1] \in QueueJob /\ Head(Cleaning(h)) = Cleaning(h)[1]
    BY <2>1, <2>2
  <2> QED BY <2>1, <2>3 DEF Subject
<1>3. ~IsVM(Cleaning(h)[1])
  BY <1>2, JobOrVM
<1>4. Len(Own(h)) = 0 /\ NotRunning(Subject(h))
  BY <1>1, <1>2, <1>3 DEF CleaningShape
<1>5. Own(h) = <<>>
  BY <1>1, <1>4, OwnLists
<1>6. vms[h] = {}
  BY <1>1, <1>3, <1>4 DEF Named
<1>7. Has(Cleaning(h), Subject(h).id)
  BY <1>2 DEF Has
<1> QED BY <1>2, <1>4, <1>5, <1>6, <1>7

\* What the handlers know of a job that has been processed goes away with it.
LEMMA LosesSubject ==
    ASSUME EventsOK, NEW h \in Handlers, Has(Cleaning(h), Subject(h).id),
           inProgress' = inProgress \ {Subject(h).id},
           completed' \in {completed, completed \ {Subject(h).id}},
           ownDone' \in {ownDone, [ownDone EXCEPT ![h] = {}]}
    PROVE  Loses(h)
<1>1. \A g \in Handlers \ {h} : ownDone'[g] = ownDone[g]
  BY DEF EventsOK
<1> QED BY <1>1 DEF Loses, Known, StillKnown

LEMMA TidyJobLeaves ==
    ASSUME TypeOK, CleaningSingle, Unique, AllTidy, NEW h \in Handlers,
           DropCompleted(h) \/ DropTimedOut(h) \/ PutBack(h)
    PROVE  AllTidy'
<1>1. /\ ListsOK /\ EventsOK /\ LocalOK /\ Tidy(h) /\ MainWaits /\ Working(h)
  BY DEF TypeOK, AllTidy, Tidy
<1>2. pc[h] = "c2" /\ IsJob(Subject(h)) /\ pc[h] \in CleanupPcs /\ EndCleanup(h)
  BY DEF DropCompleted, DropTimedOut, PutBack, CleanJob, CleanupPcs
<1>3. /\ Own(h) = <<>> /\ vms[h] = {} /\ Has(Cleaning(h), Subject(h).id)
      /\ NotRunning(Subject(h))
  BY <1>1, <1>2, ProcessesJob
<1>4. /\ inProgress' = inProgress \ {Subject(h).id}
      /\ completed' \in {completed, completed \ {Subject(h).id}}
      /\ ownDone' \in {ownDone, [ownDone EXCEPT ![h] = {}]}
      /\ UNCHANGED <<stop, vms>> /\ Aside(h)
  BY <1>1 DEF DropCompleted, DropTimedOut, PutBack, CleanJob, EndCleanup, Goto, LocalOK,
              Aside, Keeps, hosts
<1>5. Loses(h)
  BY <1>1, <1>3, <1>4, LosesSubject
<1>6. ASSUME Cleaning(h)' = <<>>, Accounted(h)', Len(Own(h)') \in {0, 1},
             Len(Own(h)') = 1 => IsJob(Own(h)'[1]),
             \A k \in Keys \ {PluginQ(h), CleaningQ(h)} : db'[k] = db[k]
      PROVE  AllTidy'
  <2>1. Tidy(h)'
    BY <1>1, <1>2, <1>3, <1>4, <1>6, TidyEnd
  <2>2. MainWaits' /\ Alone(h)
    BY <1>1, <1>4, <1>6, KeysDiffer, MainStays, AsideAlone
  <2> QED BY <1>1, <1>5, <2>1, <2>2, TidyStep
<1>7. CASE DropCompleted(h) \/ DropTimedOut(h)
  <2>1. db' = Del(db, CleaningQ(h))
    BY <1>7 DEF DropCompleted, DropTimedOut
  <2>2. /\ Own(h)' = <<>> /\ Cleaning(h)' = <<>>
        /\ \A k \in Keys \ {CleaningQ(h)} : db'[k] = db[k]
    BY <1>1, <1>3, <2>1, DeletedLists
  <2>3. Len(Own(h)') = 0
    BY <2>2
  <2>4. Accounted(h)'
    BY <2>3 DEF Accounted
  <2> QED BY <1>6, <2>2, <2>3, <2>4
<1>8. CASE PutBack(h)
  <2>1. /\ Own(h)' = <<Subject(h)>> \o Own(h) /\ Cleaning(h)' = <<>>
        /\ \A k \in Keys \ {PluginQ(h), CleaningQ(h)} : db'[k] = db[k]
    BY <1>8, PutBackLists
  <2>2. Len(Own(h)') = 1 /\ Own(h)'[1] = Subject(h)
    BY <1>3, <2>1
  <2>3. Accounted(h)'
    BY <1>3, <2>2 DEF Accounted
  <2> QED BY <1>2, <1>6, <2>1, <2>2, <2>3
<1> QED BY <1>7, <1>8

LEMMA TidyTakeForReturn ==
    ASSUME TypeOK, CleaningSingle, Unique, AllTidy, NEW h \in Handlers, TakeForReturn(h)
    PROVE  AllTidy'
<1>1. /\ ListsOK /\ EventsOK /\ LocalOK /\ Tidy(h) /\ MainWaits /\ Working(h)
  BY DEF TypeOK, AllTidy, Tidy
<1>2. pc[h] = "c2" /\ IsJob(Subject(h)) /\ ~onStart[h]
  BY <1>1 DEF TakeForReturn, CleanJob, Working
<1>3. /\ Own(h) = <<>> /\ vms[h] = {} /\ Has(Cleaning(h), Subject(h).id)
      /\ NotRunning(Subject(h)) /\ Subject(h) \in QueueJob
      /\ Len(Cleaning(h)) = 1 /\ Subject(h) = Cleaning(h)[1] /\ Cleaning(h) # <<>>
  BY <1>1, <1>2, ProcessesJob
<1>4. PICK n \in Nat : hand' = [hand EXCEPT ![h] = Requeued(Subject(h), n)]
  <2>1. Cleaning(h)[Len(Cleaning(h))] = Subject(h) /\ Subject(h).attempts \in Nat
    BY <1>3 DEF QueueJob
  <2>2. Subject(h).attempts + 1 \in Nat
    BY <2>1
  <2> QED BY <2>1, <2>2 DEF TakeForReturn
<1>5. /\ inProgress' = inProgress \ {Subject(h).id} /\ UNCHANGED <<completed, ownDone>>
      /\ UNCHANGED <<onStart, stop, vms>> /\ Aside(h)
      /\ pc'[h] = "c4" /\ hand'[h] = Requeued(Subject(h), n) /\ db' = RPop(db, CleaningQ(h))
  BY <1>1, <1>4 DEF TakeForReturn, CleanJob, Goto, LocalOK, Aside, Keeps, hosts
<1>6. /\ Own(h)' = <<>> /\ Cleaning(h)' = <<>>
      /\ \A k \in Keys \ {CleaningQ(h)} : db'[k] = db[k]
  BY <1>1, <1>3, <1>5, PoppedLists
<1>7. NotRunning(hand'[h])
  <2>1. \A e \in QueueJob : Requeued(e, n).status = e.status
    BY DEF Requeued, QueueJob
  <2> QED BY <1>3, <1>5, <2>1 DEF NotRunning
<1>8. Len(Own(h)') = 0
  BY <1>6
<1>9. OwnShape(h)' /\ CleaningShape(h)' /\ Working(h)' /\ HandShape(h)' /\ Accounted(h)'
  BY <1>1, <1>2, <1>5, <1>6, <1>7, <1>8
     DEF OwnShape, CleaningShape, Working, HandShape, Accounted
<1>10. Tidy(h)'
  BY <1>3, <1>5, <1>9 DEF Tidy
<1>11. MainWaits' /\ Alone(h) /\ Loses(h)
  BY <1>1, <1>3, <1>5, <1>6, KeysDiffer, MainStays, AsideAlone, LosesSubject
<1> QED BY <1>1, <1>10, <1>11, TidyStep

LEMMA TidyReturn ==
    ASSUME TypeOK, Unique, AllTidy, NEW h \in Handlers, ReturnToMainQueue(h)
    PROVE  AllTidy'
<1>1. /\ ListsOK /\ LocalOK /\ Tidy(h) /\ MainWaits
      /\ OwnShape(h) /\ CleaningShape(h) /\ Working(h) /\ Accounted(h) /\ HandShape(h)
  BY DEF TypeOK, AllTidy, Tidy
<1>2. pc[h] = "c4" /\ Len(Own(h)) = 0 /\ ~onStart[h] /\ NotRunning(hand[h])
  BY <1>1 DEF ReturnToMainQueue, OwnShape, Working, HandShape
<1>3. PICK e \in QueueJob : e = hand[h]
  BY <1>2 DEF TypeOK, ControlOK, HasRecord
<1>4. /\ UNCHANGED <<inProgress, completed, ownDone, onStart, stop, vms>> /\ Aside(h)
      /\ pc'[h] = "c5" /\ db' = LPush(db, MainQ, e)
  BY <1>1, <1>3 DEF ReturnToMainQueue, Goto, Drop, LocalOK, Aside, Keeps, events, hosts
<1>5. /\ db'[MainQ] = <<e>> \o db[MainQ]
      /\ \A k \in Keys \ {MainQ} : db'[k] = db[k]
  <2>1. db \in Databases(Keys, QueueJob) /\ MainQ \in Keys
    BY <1>1, KeysDiffer, Elements
  <2>2. /\ LPush(db, MainQ, e)[MainQ] = <<e>> \o db[MainQ]
        /\ SameBut(db, LPush(db, MainQ, e), Keys, MainQ)
    BY <2>1, LPushFact
  <2> QED BY <1>4, <2>2 DEF SameBut
<1>6. MainWaits'
  <2>1. db[MainQ] \in Seq(QueueJob) /\ NotRunning(e)
    BY <1>1, <1>2, <1>3, KeysDiffer, Elements
  <2>2. ASSUME NEW i \in 1..Len(<<e>> \o db[MainQ]) PROVE NotRunning((<<e>> \o db[MainQ])[i])
    <3>1. CASE i = 1
      BY <2>1, <3>1
    <3>2. CASE i # 1
      <4>1. i - 1 \in 1..Len(db[MainQ]) /\ (<<e>> \o db[MainQ])[i] = db[MainQ][i - 1]
        BY <2>1, <3>2
      <4> QED BY <1>1, <4>1 DEF MainWaits
    <3> QED BY <3>1, <3>2
  <2> QED BY <1>5, <2>2 DEF MainWaits
<1>7. Own(h)' = Own(h) /\ Cleaning(h)' = Cleaning(h)
  BY <1>5, KeysDiffer DEF Own, Cleaning
<1>8. OwnShape(h)' /\ CleaningShape(h)' /\ Working(h)' /\ HandShape(h)' /\ Accounted(h)'
  BY <1>1, <1>2, <1>4, <1>7 DEF OwnShape, CleaningShape, Working, HandShape, Accounted
<1>9. vms'[h] = {}
  BY <1>1, <1>2, <1>4, NoVM
<1>10. Tidy(h)'
  BY <1>8, <1>9 DEF Tidy
<1>11. Alone(h)
  BY <1>4, <1>5, AsideAlone
<1> QED BY <1>1, <1>4, <1>6, <1>10, <1>11, LosesNothing, TidyStep

LEMMA TidyForgetReturned ==
    ASSUME TypeOK, Unique, AllTidy, NEW h \in Handlers, ForgetReturned(h)
    PROVE  AllTidy'
<1>1. /\ ListsOK /\ LocalOK /\ Tidy(h) /\ MainWaits /\ OwnShape(h) /\ Working(h)
  BY DEF TypeOK, AllTidy, Tidy
<1>2. pc[h] = "c5" /\ Len(Own(h)) = 0 /\ pc[h] \in CleanupPcs /\ EndCleanup(h)
  BY <1>1 DEF ForgetReturned, OwnShape, CleanupPcs
<1>3. /\ UNCHANGED <<inProgress, completed, ownDone, stop, vms>> /\ Aside(h)
      /\ db' = Del(db, CleaningQ(h))
  BY <1>1 DEF ForgetReturned, EndCleanup, Goto, LocalOK, Aside, Keeps, events, hosts
<1>4. /\ Own(h)' = Own(h) /\ Cleaning(h)' = <<>>
      /\ \A k \in Keys \ {CleaningQ(h)} : db'[k] = db[k]
  BY <1>1, <1>3, DeletedLists
<1>5. vms'[h] = {}
  BY <1>1, <1>2, <1>3, NoVM
<1>6. Len(Own(h)') = 0
  BY <1>2, <1>4
<1>7. Accounted(h)'
  BY <1>6 DEF Accounted
<1>8. Tidy(h)'
  BY <1>1, <1>2, <1>4, <1>5, <1>6, <1>7, TidyEnd
<1>9. MainWaits' /\ Alone(h)
  BY <1>1, <1>3, <1>4, KeysDiffer, MainStays, AsideAlone
<1> QED BY <1>1, <1>3, <1>8, <1>9, LosesNothing, TidyStep

LEMMA TidyCleanup ==
    ASSUME Steady, TypeOK, CleaningSingle, Unique, AllTidy, NEW h \in Handlers, Cleanup(h)
    PROVE  AllTidy'
BY TidySkip, TidyBegin, TidyNextRecord, TidyNoRecord, TidyDeleteVM, TidyForgetVM, TidyJobLeaves,
   TidyTakeForReturn, TidyReturn, TidyForgetReturned DEF Cleanup

-----------------------------------------------------------------------------
(* All steps.                                                               *)

LEMMA TidyRunning ==
    ASSUME TypeOK, Records, Unique, AllTidy, NEW h \in Handlers, Run(h)
    PROVE  AllTidy'
<1>1. Live(h)
  BY DEF AllTidy, Tidy, Working, Live
<1>2. ~LoopEnds(h) /\ ~AbandonVM(h) /\ ~SeeStop(h)
  BY <1>1 DEF LoopEnds, AbandonVM, SeeStop
<1>3. CASE RunFindsNothing(h) BY <1>3, TidyFindsNothing
<1>4. CASE Resume(h) BY <1>4, TidyResume
<1>5. CASE ReadMainQueue(h) BY <1>5, TidyReadMainQueue
<1>6. CASE RemoveFromMainQueue(h) BY <1>6, TidyRemove
<1>7. CASE PushClaim(h) BY <1>7, TidyPushClaim
<1>8. CASE Prepare(h) BY <1>8, TidyPrepare
<1>9. CASE ObtainVM(h) BY <1>9, TidyObtain
<1>10. CASE RecordVM(h) BY <1>10, TidyRecord
<1>11. CASE \/ RunFindsCompleted(h) \/ RunFindsInProgress(h)
            \/ ClaimFindsCompleted(h) \/ ClaimFindsInProgress(h)
            \/ CancelJob(h) \/ CancelUnrunnable(h) \/ RetryIsOver(h) \/ RetryIsRunning(h)
            \/ StartRunner(h) \/ SeeCompleted(h) \/ StepFails(h) \/ NoRunnerRegistered(h)
            \/ SixHoursPass(h)
  BY <1>11, TidyEnding
<1> QED
  BY <1>2, <1>3, <1>4, <1>5, <1>6, <1>7, <1>8, <1>9, <1>10, <1>11 DEF Run

LEMMA TidyOther ==
    ASSUME Steady, TypeOK, Unique, AllTidy, NEW h \in Handlers,
           Checker(h) \/ Trouble(h) \/ Restart(h)
    PROVE  AllTidy'
<1>1. /\ ListsOK /\ EventsOK /\ LocalOK /\ Tidy(h)
      /\ OwnShape(h) /\ Working(h) /\ Accounted(h)
  BY DEF TypeOK, AllTidy, Tidy
<1>2. Live(h) /\ pc[h] # "off"
  BY <1>1 DEF Working, Live
<1>3. ~CheckInterrupted(h) /\ ~CheckStop(h) /\ ~Restart(h)
  BY <1>2 DEF CheckInterrupted, CheckStop, Restart
<1>4. ~CleanupFails(h) /\ ~Signal(h) /\ ~Crash(h)
  BY DEF Steady, CleanupFails, Signal, Crash, Fault
<1>5. ASSUME Writes(h), CheckerRuns(h), UNCHANGED <<pc, hand, onStart, stop, vms>>
      PROVE  AllTidy'
  <2>1. Aside(h) /\ Keeps(h)
    BY <1>5 DEF Aside, Keeps
  <2>2. Tidy(h)'
    BY <1>1, <1>5, <2>1, TidyCheck
  <2> QED BY <1>1, <1>5, <2>1, <2>2, TidyWrite
<1>6. CASE CheckCompleted(h)
  <2>1. Writes(h)
    BY <1>1, <1>6, WritesCompleted DEF CheckCompleted
  <2> QED BY <1>5, <1>6, <2>1 DEF CheckCompleted, local
<1>7. CASE CheckInProgress(h)
  <2>1. /\ HasHead(h) /\ HeadJob(h) = Own(h)[1] /\ Own(h)[1].id \in inProgress
        /\ MarkHead(h, "in_progress", "in_progress")
        /\ UNCHANGED <<inProgress, completed, ownDone, pc, hand, onStart, stop, vms>>
    BY <1>1, <1>7, HeadFirst DEF CheckInProgress, KnownRunning, events, local, hosts
  <2>2. "in_progress" \in Statuses /\ "in_progress" \in Actions
    BY DEF Statuses, Actions
  <2>3. Loses(h) /\ KnowsHead(h) /\ StillKnown(h, Own(h)[1].id)
    BY <2>1, LosesNothing DEF StillKnown
  <2>4. Writes(h)
    BY <1>1, <2>1, <2>2, <2>3, WritesMark
  <2> QED BY <1>5, <1>7, <2>1, <2>4 DEF CheckInProgress
<1>8. CASE NoCapacity(h) \/ NoTemplateOnHost(h)
  BY <1>8, TidyEnding
<1> QED BY <1>3, <1>4, <1>6, <1>7, <1>8 DEF Checker, Trouble

\* A step of a receiver or of GitHub, after which as much is known as before.
LEMMA TidyOutside ==
    ASSUME AllTidy, UNCHANGED <<pc, hand, onStart, stop, vms>>, MainWaits',
           \A k \in Keys \ {MainQ} : db'[k] = db[k],
           inProgress \subseteq inProgress', completed \subseteq completed', UNCHANGED ownDone
    PROVE  AllTidy'
<1>1. ASSUME NEW g \in Handlers PROVE Tidy(g)'
  <2>1. Unmoved(g)
    BY KeysDiffer DEF Unmoved, Keeps
  <2>2. KnowsHead(g)
    BY DEF KnowsHead, Known, StillKnown
  <2> QED BY <2>1, <2>2, TidyFrame DEF AllTidy
<1> QED BY <1>1 DEF AllTidy

LEMMA TidyPushQueued ==
    ASSUME TypeOK, AllTidy, NEW d \in Deliveries, PushQueued(d)
    PROVE  AllTidy'
<1>1. PICK e \in QueueJob : e = NewJob(JobOf[d])
  BY ConstantsAssumption, NewJobType
<1>2. db \in Databases(Keys, QueueJob) /\ MainQ \in Keys /\ db[MainQ] \in Seq(QueueJob)
  BY Elements DEF TypeOK, Keys
<1>3. /\ db'[MainQ] = Append(db[MainQ], e)
      /\ \A k \in Keys \ {MainQ} : db'[k] = db[k]
  BY <1>1, <1>2, RPushFact DEF PushQueued, SameBut
<1>4. NotRunning(e)
  BY <1>1 DEF NewJob, NotRunning
<1>5. MainWaits'
  BY <1>2, <1>3, <1>4 DEF AllTidy, MainWaits
<1> QED BY <1>3, <1>5, TidyOutside DEF PushQueued, events, local, hosts

LEMMA TidyEvents ==
    ASSUME Steady, TypeOK, AllTidy,
           \/ \E d \in Deliveries : Receive(d)
           \/ \E j \in Jobs : ReceiveEvent(j) \/ JobStarts(j) \/ JobCompletes(j)
           \/ ReceiverRestart \/ UNCHANGED vars
    PROVE  AllTidy'
<1>1. ~ReceiverRestart
  BY DEF Steady, ReceiverRestart, Fault
<1>2. ASSUME UNCHANGED <<db, pc, hand, onStart, stop, vms, ownDone>>,
             inProgress \subseteq inProgress', completed \subseteq completed'
      PROVE  AllTidy'
  <2>1. MainWaits'
    BY <1>2, MainStays DEF AllTidy
  <2> QED BY <1>2, <2>1, TidyOutside
<1>3. ASSUME NEW d \in Deliveries, Receive(d) PROVE AllTidy'
  <2>1. CASE PushQueued(d) BY <2>1, TidyPushQueued
  <2>2. CASE ReceiveQueued(d) \/ ListHandlerKeys(d) \/ ScanHandlerKey(d)
    BY <1>2, <2>2 DEF ReceiveQueued, ListHandlerKeys, ScanHandlerKey, events, local, hosts
  <2> QED BY <1>3, <2>1, <2>2 DEF Receive
<1>4. ASSUME NEW j \in Jobs, ReceiveEvent(j) \/ JobStarts(j) \/ JobCompletes(j) PROVE AllTidy'
  BY <1>2, <1>4 DEF ReceiveEvent, ReceiveInProgress, ReceiveCompleted, JobStarts, JobCompletes,
                    local, hosts
<1>5. CASE UNCHANGED vars
  BY <1>2, <1>5 DEF vars, events, local, hosts
<1> QED BY <1>1, <1>3, <1>4, <1>5

LEMMA TidyInit == Init => AllTidy
<1> SUFFICES ASSUME Init PROVE AllTidy
  OBVIOUS
<1>1. MainWaits
  <2>1. db[MainQ] = <<>>
    BY DEF Init, Keys
  <2> QED BY <2>1 DEF MainWaits
<1>2. ASSUME NEW h \in Handlers PROVE Tidy(h)
  <2>1. Own(h) = <<>> /\ Cleaning(h) = <<>>
    BY KeysDiffer DEF Init, Own, Cleaning
  <2>2. Len(Own(h)) = 0
    BY <2>1
  <2>3. /\ pc[h] = "start" /\ stop[h] = "no" /\ onStart[h] = FALSE /\ vms[h] = {}
    BY DEF Init
  <2> QED BY <2>1, <2>2, <2>3
          DEF Tidy, OwnShape, CleaningShape, Working, Accounted, HandShape
<1> QED BY <1>1, <1>2 DEF AllTidy

LEMMA TidyGivesNoVmLost ==
    ASSUME TypeOK, AllTidy
    PROVE  NoVmLost
<1> SUFFICES ASSUME NEW h \in Handlers, NEW v \in vms[h] PROVE VmRecorded(h, v)
  BY DEF NoVmLost
<1>1. ListsOK /\ OwnShape(h) /\ CleaningShape(h) /\ Named(h, v)
  BY DEF TypeOK, AllTidy, Tidy
<1>2. CASE Len(Own(h)) = 2 /\ Own(h)[2].vm = v
  <2>1. 2 \in 1..Len(Own(h)) /\ IsVM(Own(h)[2])
    BY <1>1, <1>2 DEF OwnShape
  <2> QED BY <1>2, <2>1 DEF VmRecorded, Own
<1>3. CASE pc[h] = "c2" /\ IsVM(Cleaning(h)[1]) /\ Cleaning(h)[1].vm = v
  <2>1. 1 \in 1..Len(Cleaning(h))
    BY <1>1, <1>3 DEF CleaningShape
  <2> QED BY <1>3, <2>1 DEF VmRecorded, Cleaning
<1> QED BY <1>1, <1>2, <1>3 DEF Named, VmRecorded

LEMMA TidyNext ==
    ASSUME Steady, TypeOK, CleaningSingle, Records, Unique, AllTidy, [Next]_vars
    PROVE  AllTidy'
BY TidyRunning, TidyCleanup, TidyOther, TidyEvents DEF Next

\* As long as no process ends, no command of cleanup and no deletion of a VM
\* fails, the receiver does not start again and each "queued" webhook comes
\* once: no VM exists on a host whose name its handler has not in its lists or,
\* while it is started, in memory.  Whatever templates or room are missing,
\* whichever runs fail and whatever their checkers find, the record of a VM
\* stays behind its job's until cleanup has deleted the VM.
THEOREM VmsAreRecorded == ASSUME OneDelivery, Steady PROVE Spec => []NoVmLost
<1>1. TypeOK /\ CleaningSingle /\ Records /\ Unique /\ AllTidy /\ [Next]_vars => AllTidy'
  BY TidyNext
<1>2. TypeOK /\ CleaningSingle /\ Unique /\ [Next]_vars => Unique'
  BY UniqueStep
<1>3. TypeOK /\ AllTidy => NoVmLost
  BY TidyGivesNoVmLost
<1> QED
  BY <1>1, <1>2, <1>3, TidyInit, UniqueInit, RecordsAlways, TypeCorrect, SingleRecordCleaned,
     PTL DEF Spec
=============================================================================
