--------------------------- MODULE PausedJobsProofs ---------------------------
(***************************************************************************)
(* No job is lost between the main list, the lists of the hosts and their  *)
(* hands, for any number of hosts and jobs, any room and any faults, but   *)
(* for what a run had in hand when it was cut off.                         *)
(***************************************************************************)
EXTENDS PausedJobs, RedisListsProofs

JobKeys == Hosts \cup {"main"}
Keys == Hosts \cup {"main", "paused"}
Items == Records \cup Announcements
Elems(s) == {s[i] : i \in 1..Len(s)}

-----------------------------------------------------------------------------
(* The elements of a list.                                                  *)

\* LPUSH adds one.
LEMMA PushElems ==
    ASSUME NEW S, NEW s \in Seq(S), NEW e \in S
    PROVE  /\ Elems(<<e>> \o s) = Elems(s) \cup {e}
           /\ Elems(Append(s, e)) = Elems(s) \cup {e}
<1>1. Elems(<<e>> \o s) \subseteq Elems(s) \cup {e}
  BY DEF Elems
<1>2. e \in Elems(<<e>> \o s)
  <2>1. (<<e>> \o s)[1] = e /\ 1 \in 1..Len(<<e>> \o s)
    OBVIOUS
  <2>2. QED BY <2>1 DEF Elems
<1>3. ASSUME NEW i \in 1..Len(s) PROVE s[i] \in Elems(<<e>> \o s)
  <2>1. (<<e>> \o s)[i + 1] = s[i] /\ i + 1 \in 1..Len(<<e>> \o s)
    OBVIOUS
  <2>2. QED BY <2>1 DEF Elems
<1>4. Elems(Append(s, e)) \subseteq Elems(s) \cup {e}
  BY DEF Elems
<1>5. e \in Elems(Append(s, e))
  <2>1. Append(s, e)[Len(s) + 1] = e /\ Len(s) + 1 \in 1..Len(Append(s, e))
    OBVIOUS
  <2>2. QED BY <2>1 DEF Elems
<1>6. ASSUME NEW i \in 1..Len(s) PROVE s[i] \in Elems(Append(s, e))
  <2>1. Append(s, e)[i] = s[i] /\ i \in 1..Len(Append(s, e))
    OBVIOUS
  <2>2. QED BY <2>1 DEF Elems
<1>7. QED BY <1>1, <1>2, <1>3, <1>4, <1>5, <1>6 DEF Elems

\* LREM keeps all but one (WithoutOne).
LEMMA RemoveElems ==
    ASSUME NEW S, NEW s \in Seq(S), NEW n \in 1..Len(s), NEW t, Len(t) = Len(s) - 1,
           \A i \in 1..(Len(s) - 1) : t[i] = s[IF i < n THEN i ELSE i + 1]
    PROVE  /\ Elems(t) \subseteq Elems(s)
           /\ Elems(s) \ {s[n]} \subseteq Elems(t)
<1> DEFINE N == Len(s)
<1>1. N \in Nat /\ n \in 1..N
  OBVIOUS
<1>2. \A i \in 1..(N - 1) : i < n => t[i] = s[i]
  OBVIOUS
<1>3. \A i \in 1..(N - 1) : ~(i < n) => t[i] = s[i + 1]
  OBVIOUS
<1>4. Elems(t) = {t[i] : i \in 1..(N - 1)} /\ Elems(s) = {s[i] : i \in 1..N}
  BY DEF Elems
<1> HIDE DEF N
<1>5. ASSUME NEW i \in 1..(N - 1) PROVE \E k \in 1..N : t[i] = s[k]
  <2>1. CASE i < n
    <3>1. i \in 1..N
      BY <1>1
    <3>2. QED BY <1>2, <2>1, <3>1
  <2>2. CASE ~(i < n)
    <3>1. i + 1 \in 1..N
      BY <1>1
    <3>2. QED BY <1>3, <2>2, <3>1
  <2>3. QED BY <2>1, <2>2
<1>6. ASSUME NEW i \in 1..N, i # n PROVE \E k \in 1..(N - 1) : t[k] = s[i]
  <2>1. CASE i < n
    <3>1. i \in 1..(N - 1)
      BY <1>1, <2>1
    <3>2. QED BY <1>2, <2>1, <3>1
  <2>2. CASE i > n
    <3>1. i - 1 \in 1..(N - 1) /\ ~(i - 1 < n) /\ (i - 1) + 1 = i
      BY <1>1, <2>2
    <3>2. t[i - 1] = s[(i - 1) + 1]
      BY <1>3, <3>1
    <3>3. QED BY <3>1, <3>2
  <2>3. QED BY <1>1, <1>6, <2>1, <2>2
<1>7. Elems(t) \subseteq Elems(s)
  BY <1>4, <1>5
<1>8. Elems(s) \ {s[n]} \subseteq Elems(t)
  BY <1>4, <1>6
<1>9. QED BY <1>7, <1>8

\* A list of one job.
LEMMA LoneElem ==
    ASSUME NEW S, NEW s \in Seq(S), Len(s) <= 1
    PROVE  /\ s # <<>> => Elems(s) = {s[1]} /\ Len(s) = 1 /\ s[1] \in S
           /\ s = <<>> => Elems(s) = {}
<1>1. ASSUME s # <<>> PROVE Elems(s) = {s[1]} /\ Len(s) = 1 /\ s[1] \in S
  <2>1. Len(s) = 1
    BY <1>1, OneElement
  <2>2. s[1] \in S /\ 1..Len(s) = {1}
    BY <2>1
  <2>3. QED BY <2>1, <2>2 DEF Elems
<1>2. ASSUME s = <<>> PROVE Elems(s) = {}
  BY <1>2 DEF Elems
<1>3. QED BY <1>1, <1>2

LEMMA ElemsAreItems ==
    ASSUME NEW S, NEW s \in Seq(S)
    PROVE  /\ Elems(s) \subseteq S
           /\ \A T : Elems(s) \subseteq T => s \in Seq(T)
<1>1. Elems(s) \subseteq S
  BY DEF Elems
<1>2. ASSUME NEW T, Elems(s) \subseteq T PROVE s \in Seq(T)
  <2>1. s = [i \in 1..Len(s) |-> s[i]] /\ Len(s) \in Nat
    OBVIOUS
  <2>2. \A i \in 1..Len(s) : s[i] \in T
    BY <1>2 DEF Elems
  <2>3. QED BY <2>1, <2>2
<1>3. QED BY <1>1, <1>2

-----------------------------------------------------------------------------
(* The database.                                                            *)

DB == Databases(Keys, Items)

\* LREM takes away no element but one, if it is there.
LEMMA WithoutFact ==
    ASSUME db \in DB, NEW k \in Keys, NEW e, NEW E, E = Without(k, e)
    PROVE  /\ E \in DB /\ SameBut(db, E, Keys, k)
           /\ Elems(E[k]) \subseteq Elems(db[k])
           /\ Elems(db[k]) \ {e} \subseteq Elems(E[k])
           /\ Len(E[k]) <= Len(db[k])
<1>1. db[k] \in Seq(Items) /\ Len(db[k]) \in Nat
  <2>1. db[k] \in Seq(Items)
    BY DEF DB, Databases
  <2>2. QED BY <2>1
<1>2. CASE ~ \E i \in DOMAIN db[k] : db[k][i] = e
  <2>1. E = db
    BY <1>2 DEF Without
  <2>2. QED BY <1>1, <2>1 DEF SameBut
<1>3. CASE \E i \in DOMAIN db[k] : db[k][i] = e
  <2> DEFINE n == CHOOSE i \in DOMAIN db[k] : FirstAt(db, k, e, i)
  <2>1. DOMAIN db[k] = 1..Len(db[k])
    BY <1>1
  <2>2. \E i \in DOMAIN db[k] : FirstAt(db, k, e, i)
    BY <1>1, <1>3, <2>1, FirstExists
  <2>3. n \in 1..Len(db[k]) /\ db[k][n] = e
    BY <2>1, <2>2 DEF FirstAt
  <2>4. E = LRemAt(db, k, n)
    BY <1>3 DEF Without
  <2> HIDE DEF n
  <2>5. /\ E \in DB /\ SameBut(db, E, Keys, k)
        /\ E[k] = SubSeq(db[k], 1, n - 1) \o SubSeq(db[k], n + 1, Len(db[k]))
    <3>1. db \in Databases(Keys, Items) /\ n \in 1..Len(db[k])
      BY <2>3 DEF DB
    <3> DEFINE W == LRemAt(db, k, n)
               t == SubSeq(db[k], 1, n - 1) \o SubSeq(db[k], n + 1, Len(db[k]))
    <3>2. W \in Databases(Keys, Items) /\ SameBut(db, W, Keys, k)
      BY <3>1, LRemAtFact
    <3>3. W[k] = t
      <4>1. DOMAIN db = Keys
        BY <3>1 DEF Databases
      <4>2. QED BY <4>1, Zenon DEF LRemAt
    <3>4. QED BY <2>4, <3>2, <3>3, Zenon DEF DB
  <2>6. /\ Len(E[k]) = Len(db[k]) - 1
        /\ \A i \in 1..(Len(db[k]) - 1) : E[k][i] = db[k][IF i < n THEN i ELSE i + 1]
    BY <1>1, <2>3, <2>5, WithoutOne
  <2>7. Elems(E[k]) \subseteq Elems(db[k]) /\ Elems(db[k]) \ {e} \subseteq Elems(E[k])
    BY <1>1, <2>3, <2>6, RemoveElems
  <2>8. Len(E[k]) <= Len(db[k])
    BY <1>1, <2>6
  <2>9. QED BY <2>5, <2>7, <2>8
<1>4. QED BY <1>2, <1>3

\* What is found in a list is there.
LEMMA FindFact ==
    ASSUME db \in DB, NEW k \in Keys, NEW j, Find(k, j) # None
    PROVE  Find(k, j) \in Elems(db[k]) /\ Find(k, j).id = j
<1> DEFINE of == {i \in DOMAIN db[k] : db[k][i].id = j}
<1>1. db[k] \in Seq(Items) /\ Len(db[k]) \in Nat /\ DOMAIN db[k] = 1..Len(db[k])
  <2>1. db[k] \in Seq(Items)
    BY DEF DB, Databases
  <2>2. QED BY <2>1
<1>2. of # {} /\ Find(k, j) = db[k][CHOOSE i \in of : \A n \in of : i <= n]
  BY DEF Find
<1>3. \E i \in of : \A n \in of : i <= n
  <2>1. of \subseteq 1..Len(db[k])
    BY <1>1
  <2> HIDE DEF of
  <2>2. QED BY <1>1, <1>2, <2>1, Least
<1>4. PICK i \in of : Find(k, j) = db[k][i]
  BY <1>2, <1>3
<1>5. QED BY <1>1, <1>4 DEF Elems

\* DeleteFromQueue adds nothing.
LEMMA DeleteFact ==
    ASSUME db \in DB, NEW k \in Keys, NEW j, NEW E, E = DeleteFromQueue(k, j)
    PROVE  /\ E \in DB /\ SameBut(db, E, Keys, k)
           /\ Elems(E[k]) \subseteq Elems(db[k])
<1>1. CASE Find(k, j) = None
  BY <1>1 DEF DeleteFromQueue, SameBut
<1>2. CASE Find(k, j) # None
  <2>1. E = Without(k, Find(k, j))
    BY <1>2 DEF DeleteFromQueue
  <2>2. QED BY <2>1, WithoutFact
<1>3. QED BY <1>1, <1>2

\* LPUSH and RPUSH.
LEMMA PushFact ==
    ASSUME db \in DB, NEW k \in Keys, NEW e \in Items,
           NEW E, E = LPush(db, k, e) \/ E = RPush(db, k, e)
    PROVE  /\ E \in DB /\ SameBut(db, E, Keys, k)
           /\ Elems(E[k]) = Elems(db[k]) \cup {e}
           /\ Len(E[k]) = Len(db[k]) + 1
<1>1. db[k] \in Seq(Items)
  BY DEF DB, Databases
<1>2. /\ E \in DB /\ SameBut(db, E, Keys, k)
      /\ E[k] = <<e>> \o db[k] \/ E[k] = Append(db[k], e)
  BY LPushFact, RPushFact DEF DB
<1>3. Elems(E[k]) = Elems(db[k]) \cup {e}
  <2>1. /\ Elems(<<e>> \o db[k]) = Elems(db[k]) \cup {e}
        /\ Elems(Append(db[k], e)) = Elems(db[k]) \cup {e}
    BY <1>1, PushElems
  <2>2. QED BY <1>2, <2>1, Zenon
<1>4. Len(<<e>> \o db[k]) = Len(db[k]) + 1 /\ Len(Append(db[k], e)) = Len(db[k]) + 1
  BY <1>1
<1>5. QED BY <1>2, <1>3, <1>4

\* LSET of the only element.
LEMMA SetFact ==
    ASSUME db \in DB, NEW k \in Keys, NEW e \in Items, db[k] # <<>>, Len(db[k]) <= 1,
           NEW E, E = LSet(db, k, 1, e)
    PROVE  /\ E \in DB /\ SameBut(db, E, Keys, k)
           /\ Elems(E[k]) = {e} /\ Len(E[k]) = 1 /\ E[k] # <<>>
<1>1. db[k] \in Seq(Items)
  BY DEF DB, Databases
<1>2. Len(db[k]) = 1 /\ 1 \in 1..Len(db[k])
  BY <1>1, OneElement
<1>3. E \in DB /\ SameBut(db, E, Keys, k) /\ E[k] = [db[k] EXCEPT ![1] = e]
  BY <1>2, LSetFact DEF DB
<1>4. Len(E[k]) = 1 /\ E[k][1] = e /\ E[k] # <<>>
  BY <1>1, <1>2, <1>3
<1>5. E[k] \in Seq(Items)
  BY <1>3 DEF DB, Databases
<1>6. QED BY <1>3, <1>4, <1>5, LoneElem

\* DEL.
LEMMA DeletedFact ==
    ASSUME db \in DB, NEW k \in Keys, NEW E, E = Del(db, k)
    PROVE  /\ E \in DB /\ SameBut(db, E, Keys, k)
           /\ Elems(E[k]) = {} /\ E[k] = <<>> /\ Len(E[k]) = 0
BY DelFact DEF DB, Elems

-----------------------------------------------------------------------------
(* The inductive invariant.                                                 *)

\* The phases of a handler with a job in its list, and those of one whose
\* list is empty; in two of them the job is in its hand.
Owning == {"claimed", "prepared", "pausing", "announcing", "waiting",
           "withdrawing", "resuming", "running"}
Carrying == {"push", "returning"}
Empty == {"length", "range", "take", "look", "found", "release", "return", "main",
          "returned"} \cup Carrying
Pcs == {"idle", "cleanup", "failing"} \cup Owning \cup Empty

\* A record that says its job is over is right.
Right(r) == r \in Records /\ (r.over => r.id \in done)

PastOK ==
    /\ deaf \subseteq Hosts /\ faults \subseteq Faults
    /\ done \subseteq Jobs /\ changed \subseteq Jobs /\ lost \subseteq Jobs /\ muted \subseteq Jobs

VarsOK ==
    /\ PastOK
    /\ pc \in [Hosts -> Pcs]
    /\ job \in [Hosts -> Records \cup {None}]
    /\ held \in [Hosts -> Announcements \cup {None}]
    /\ read \in [Hosts -> Items \cup {None}]
    /\ index \in [Hosts -> Nat] /\ rounds \in [Hosts -> Nat]

ListsOK ==
    /\ db \in DB
    /\ \A k \in JobKeys : \A e \in Elems(db[k]) : Right(e)
    /\ Elems(db["paused"]) \subseteq Announcements

\* What a handler knows of its list and of the records it has read.
HostOK(h) ==
    /\ Len(db[h]) <= 1
    /\ pc[h] \in Empty => db[h] = <<>>
    /\ pc[h] \in Owning => \A e \in Elems(db[h]) : e.id = job[h].id
    /\ pc[h] \in Owning \cup Carrying => Right(job[h])
    /\ pc[h] = "cleanup" => \A e \in Elems(db[h]) : e.id \in done
    /\ pc[h] = "take" => read[h] \in Announcements
    /\ pc[h] = "found" => read[h] = None \/ Right(read[h])
    /\ pc[h] \in {"look", "found"} => held[h] \in Announcements

Carried(j) == \E h \in Hosts : pc[h] \in Carrying /\ job[h].id = j
Stored(j) == \E k \in JobKeys : \E e \in Elems(db[k]) : e.id = j
Somewhere(j) == Carried(j) \/ Stored(j)

IInv ==
    /\ VarsOK /\ ListsOK
    /\ \A h \in Hosts : HostOK(h)
    /\ \A j \in Jobs \ (done \cup lost) : Somewhere(j)

\* A step of one handler takes nothing from the others but elements of their
\* lists, and forgets of no job that it has ended
\* or that it is lost.
Frame(h) ==
    /\ \A g \in Hosts \ {h} :
          /\ pc'[g] = pc[g] /\ job'[g] = job[g] /\ held'[g] = held[g] /\ read'[g] = read[g]
          /\ Elems(db'[g]) \subseteq Elems(db[g]) /\ Len(db'[g]) <= Len(db[g])
    /\ done \subseteq done' /\ lost \subseteq lost'

LEMMA KeyFacts == /\ Hosts \subseteq JobKeys /\ "main" \in JobKeys /\ "paused" \notin JobKeys
                  /\ JobKeys \subseteq Keys /\ "paused" \in Keys
                  /\ "main" \notin Hosts /\ "paused" \notin Hosts
BY PausedAssumption DEF JobKeys, Keys

LEMMA ListTypes ==
    ASSUME db \in DB, NEW k \in Keys
    PROVE  db[k] \in Seq(Items) /\ Len(db[k]) \in Nat /\ (Len(db[k]) <= 0 => db[k] = <<>>)
<1>1. db[k] \in Seq(Items)
  BY DEF DB, Databases
<1>2. QED BY <1>1

\* So the others keep what they know, ...
LEMMA OthersOK ==
    ASSUME IInv, NEW h \in Hosts, Frame(h), db' \in DB, NEW g \in Hosts \ {h}
    PROVE  HostOK(g)'
<1>1. g \in Keys /\ HostOK(g)
  BY KeyFacts DEF IInv
<1>2. Len(db'[g]) \in Nat /\ (Len(db'[g]) <= 0 => db'[g] = <<>>)
  <2>1. db'[g] \in Seq(Items)
    BY <1>1 DEF DB, Databases
  <2>2. QED BY <2>1
<1>3. Len(db[g]) \in Nat /\ (db[g] = <<>> => Len(db[g]) = 0)
  BY <1>1, ListTypes DEF IInv, ListsOK
<1>4. /\ pc'[g] = pc[g] /\ job'[g] = job[g] /\ held'[g] = held[g] /\ read'[g] = read[g]
      /\ Elems(db'[g]) \subseteq Elems(db[g]) /\ Len(db'[g]) <= Len(db[g])
      /\ done \subseteq done'
  BY DEF Frame
<1>5. Len(db'[g]) <= 1
  BY <1>1, <1>2, <1>3, <1>4 DEF HostOK
<1>6. pc'[g] \in Empty => db'[g] = <<>>
  BY <1>1, <1>2, <1>3, <1>4 DEF HostOK
<1>7. QED BY <1>1, <1>4, <1>5, <1>6 DEF HostOK, Right

\* ... and what is left to show of a step is what it does to its own handler,
\* to the lists, and that it loses no job.
LEMMA StepOK ==
    ASSUME IInv, NEW h \in Hosts, Frame(h), VarsOK', ListsOK', HostOK(h)',
           \A j \in Jobs \ (done' \cup lost') : Somewhere(j) => Somewhere(j)'
    PROVE  IInv'
<1>1. \A g \in Hosts : HostOK(g)'
  <2>1. TAKE g \in Hosts
  <2>2. CASE g = h
    BY <2>2
  <2>3. CASE g # h
    BY <2>3, OthersOK DEF ListsOK
  <2>4. QED BY <2>2, <2>3
<1>2. \A j \in Jobs \ (done' \cup lost') : Somewhere(j)'
  BY DEF IInv, Frame
<1>3. QED BY <1>1, <1>2 DEF IInv

\* What is in the hand of a handler may be lost.
MayLose(h) ==
    /\ pc[h] \in Carrying => job[h].id \in lost'
    /\ done' = done /\ lost \subseteq lost'

\* A quiet step touches no list of jobs, and its handler has no job in its hand
\* but one that it loses.
Quiet(h) ==
    /\ db' \in DB /\ Elems(db'["paused"]) \subseteq Announcements
    /\ \A k \in JobKeys : db'[k] = db[k]
    /\ MayLose(h)
    /\ \A g \in Hosts \ {h} :
          pc'[g] = pc[g] /\ job'[g] = job[g] /\ held'[g] = held[g] /\ read'[g] = read[g]

LEMMA QuietStep ==
    ASSUME IInv, NEW h \in Hosts, Quiet(h), VarsOK', HostOK(h)'
    PROVE  IInv'
<1>1. Frame(h)
  <2>1. ASSUME NEW g \in Hosts \ {h}
        PROVE  Elems(db'[g]) \subseteq Elems(db[g]) /\ Len(db'[g]) <= Len(db[g])
    <3>1. db'[g] = db[g] /\ g \in Keys
      BY KeyFacts DEF Quiet
    <3>2. Len(db[g]) \in Nat
      BY <3>1, ListTypes DEF IInv, ListsOK
    <3>3. QED BY <3>1, <3>2
  <2>2. QED BY <2>1 DEF Quiet, Frame, MayLose
<1>2. ListsOK'
  BY DEF Quiet, MayLose, IInv, ListsOK, Right
<1>3. ASSUME NEW j \in Jobs \ (done' \cup lost'), Somewhere(j) PROVE Somewhere(j)'
  <2>1. CASE Stored(j)
    BY <2>1 DEF Quiet, Stored, Somewhere
  <2>2. CASE Carried(j)
    <3>1. PICK g \in Hosts : pc[g] \in Carrying /\ job[g].id = j
      BY <2>2 DEF Carried
    <3>2. g # h
      BY <1>3, <3>1 DEF Quiet, MayLose
    <3>3. pc'[g] = pc[g] /\ job'[g] = job[g]
      BY <3>2 DEF Quiet
    <3>4. QED BY <3>1, <3>3 DEF Carried, Somewhere
  <2>3. QED BY <1>3, <2>1, <2>2 DEF Somewhere
<1>4. QED BY <1>1, <1>2, <1>3, StepOK

ListsKept ==
    /\ db' \in DB /\ Elems(db'["paused"]) \subseteq Announcements
    /\ \A k \in JobKeys : db'[k] = db[k]

\* Commands on the paused list.
LEMMA PausedListKept ==
    ASSUME ListsOK,
           \/ db' = db
           \/ \E e : db' = Without("paused", e)
           \/ \E j : db' = DeleteFromQueue("paused", j)
           \/ \E a \in Announcements : db' = LPush(db, "paused", a) \/ db' = RPush(db, "paused", a)
    PROVE  ListsKept
<1>1. \A k \in JobKeys : k \in Keys \ {"paused"}
  BY KeyFacts
<1>2. SUFFICES /\ db' \in DB /\ SameBut(db, db', Keys, "paused")
               /\ Elems(db'["paused"]) \subseteq Announcements
  BY <1>1 DEF ListsKept, SameBut
<1>3. CASE db' = db
  BY <1>3 DEF ListsOK, SameBut
<1>4. ASSUME NEW e, db' = Without("paused", e)
      PROVE  /\ db' \in DB /\ SameBut(db, db', Keys, "paused")
             /\ Elems(db'["paused"]) \subseteq Announcements
  BY <1>4, KeyFacts, WithoutFact DEF ListsOK
<1>5. ASSUME NEW j, db' = DeleteFromQueue("paused", j)
      PROVE  /\ db' \in DB /\ SameBut(db, db', Keys, "paused")
             /\ Elems(db'["paused"]) \subseteq Announcements
  BY <1>5, KeyFacts, DeleteFact DEF ListsOK
<1>6. ASSUME NEW a \in Announcements, db' = LPush(db, "paused", a) \/ db' = RPush(db, "paused", a)
      PROVE  /\ db' \in DB /\ SameBut(db, db', Keys, "paused")
             /\ Elems(db'["paused"]) \subseteq Announcements
  <2>1. a \in Items
    BY DEF Items
  <2>2. QED BY <1>6, <2>1, KeyFacts, PushFact DEF ListsOK
<1>7. QED BY <1>3, <1>4, <1>5, <1>6

\* What past says, when it does not change, and of an announcement that is
\* dropped or removed.
LEMMA PastKept ==
    ASSUME VarsOK, UNCHANGED past
    PROVE  PastOK' /\ done' = done /\ lost' = lost
BY DEF VarsOK, PastOK, past

LEMMA DroppedAreJobs ==
    ASSUME VarsOK, NEW h \in Hosts
    PROVE  Dropped(h) \subseteq Jobs
BY DEF VarsOK, Dropped, Announcements

LEMMA UnannounceFact ==
    ASSUME VarsOK, ListsOK, NEW h \in Hosts, Unannounce(h)
    PROVE  db' = DeleteFromQueue("paused", job[h].id) /\ muted' \subseteq Jobs
<1>1. PICK a : a = Find("paused", job[h].id)
  OBVIOUS
<1>2. a # None => a \in Elems(db["paused"]) /\ a.id = job[h].id
  BY <1>1, FindFact, KeyFacts DEF ListsOK
<1>3. a # None => job[h].id \in Jobs
  BY <1>2 DEF ListsOK, Announcements
<1>4. muted' = muted \/ (a # None /\ muted' = muted \cup {job[h].id})
  BY <1>1 DEF Unannounce
<1>5. QED BY <1>3, <1>4 DEF Unannounce, VarsOK, PastOK

\* What a host lists as paused are jobs.
LEMMA IdsAreJobs ==
    ASSUME ListsOK, NEW h \in Hosts
    PROVE  IdsPausedAt(h) \subseteq Jobs
<1>1. h \in JobKeys /\ h \in Keys
  BY KeyFacts
<1>2. ASSUME NEW n \in DOMAIN db[h] PROVE db[h][n].id \in Jobs
  <2>1. db[h][n] \in Elems(db[h])
    BY <1>1, <1>2, ListTypes DEF ListsOK, Elems
  <2>2. QED BY <1>1, <2>1 DEF ListsOK, Right, Records
<1>3. QED BY <1>2 DEF IdsPausedAt

\* The element read from the paused list is an announcement.
LEMMA ReadIsAnnouncement ==
    ASSUME IInv, NEW h \in Hosts, index[h] < Len(db["paused"])
    PROVE  db["paused"][index[h] + 1] \in Announcements
<1>1. index[h] \in Nat /\ Len(db["paused"]) \in Nat
  BY KeyFacts, ListTypes DEF IInv, ListsOK, VarsOK
<1>2. index[h] + 1 \in 1..Len(db["paused"])
  BY <1>1
<1>3. QED BY <1>2 DEF IInv, ListsOK, Elems

\* The job of a handler's own list.
LEMMA OwnElem ==
    ASSUME IInv, NEW h \in Hosts, db[h] # <<>>
    PROVE  Elems(db[h]) = {db[h][1]} /\ Len(db[h]) = 1 /\ Right(db[h][1])
<1>1. h \in JobKeys /\ h \in Keys /\ db[h] \in Seq(Items) /\ Len(db[h]) <= 1
  BY KeyFacts, ListTypes DEF IInv, ListsOK, HostOK
<1>2. Elems(db[h]) = {db[h][1]} /\ Len(db[h]) = 1
  BY <1>1, LoneElem
<1>3. QED BY <1>1, <1>2 DEF IInv, ListsOK

-----------------------------------------------------------------------------
(* The look at the paused list.                                             *)

\* What a handler does to its own variables only.
Alone(h) ==
    /\ MayLose(h)
    /\ \A g \in Hosts \ {h} :
          pc'[g] = pc[g] /\ job'[g] = job[g] /\ held'[g] = held[g] /\ read'[g] = read[g]

LEMMA AloneStep ==
    ASSUME IInv, NEW h \in Hosts, ListsKept, Alone(h), VarsOK',
           HostOK(h) /\ db'[h] = db[h] => HostOK(h)'
    PROVE  IInv'
<1>1. db'[h] = db[h] /\ HostOK(h)
  BY KeyFacts DEF ListsKept, IInv
<1>2. QED BY <1>1, QuietStep DEF Quiet, ListsKept, Alone

\* The record that FindPaused finds.
LEMMA FoundIsRight ==
    ASSUME IInv, NEW h \in Hosts, held[h] \in Announcements,
           NEW r, r = Find(held[h].on, held[h].id)
    PROVE  r = None \/ Right(r)
<1>1. held[h].on \in JobKeys /\ held[h].on \in Keys
  BY KeyFacts DEF Announcements
<1>2. QED BY <1>1, FindFact DEF IInv, ListsOK

LEMMA LookStep ==
    ASSUME IInv, NEW h \in Hosts, Look(h), ~TakeOver(h), ~Release(h), ~RunDeferred(h)
    PROVE  IInv'
<1> USE DEF Goto, Set
<1>0. VarsOK /\ ListsOK /\ HostOK(h) /\ h \in JobKeys /\ h \in Keys
  BY KeyFacts DEF IInv
<1>1. CASE BeginRun(h)
  <2>0. ListsKept
    BY <1>0, <1>1, PausedListKept DEF BeginRun, look
  <2>1. Alone(h)
    BY <1>0, <1>1 DEF BeginRun, look, Alone, MayLose, Carrying, VarsOK
  <2>2. VarsOK'
    BY <1>0, <1>1, IdsAreJobs, OwnElem DEF BeginRun, look, VarsOK, PastOK, Right, Pcs, Owning, Empty
  <2>3. HostOK(h) /\ db'[h] = db[h] => HostOK(h)'
    <3>1. CASE db[h] # <<>>
      <4>1. pc'[h] = "claimed" /\ job'[h] = db[h][1] /\ done' = done
        BY <1>0, <1>1, <3>1 DEF BeginRun, VarsOK
      <4>2. Right(db[h][1]) /\ \A e \in Elems(db[h]) : e.id = db[h][1].id
        BY <3>1, OwnElem
      <4>3. QED BY <4>1, <4>2 DEF HostOK, Right, Owning, Empty, Carrying
    <3>2. CASE db[h] = <<>>
      <4>1. pc'[h] = "length" /\ done' = done
        BY <1>0, <1>1, <3>2 DEF BeginRun, VarsOK
      <4>2. QED BY <3>2, <4>1 DEF HostOK, Owning, Empty, Carrying
    <3>3. QED BY <3>1, <3>2
  <2>4. QED BY <2>0, <2>1, <2>2, <2>3, AloneStep
<1>2. CASE ReadLength(h)
  <2>1. ListsKept /\ Alone(h)
    BY <1>0, <1>2, PausedListKept DEF ReadLength, past, Alone, MayLose, Carrying
  <2>2. VarsOK'
    BY <1>0, <1>2 DEF ReadLength, past, VarsOK, PastOK, Pcs, Empty
  <2>3. HostOK(h) /\ db'[h] = db[h] => HostOK(h)'
    BY <1>0, <1>2 DEF ReadLength, past, VarsOK, HostOK, Right, Owning, Empty, Carrying
  <2>4. QED BY <2>1, <2>2, <2>3, AloneStep
<1>3. CASE ReadNone(h)
  <2>1. ListsKept /\ Alone(h)
    BY <1>0, <1>3, PausedListKept DEF ReadNone, Alone, MayLose, Carrying, VarsOK
  <2>2. VarsOK'
    BY <1>0, <1>3, DroppedAreJobs DEF ReadNone, VarsOK, PastOK, Pcs, Empty
  <2>3. HostOK(h) /\ db'[h] = db[h] => HostOK(h)'
    BY <1>0, <1>3 DEF ReadNone, VarsOK, HostOK, Right, Owning, Empty, Carrying
  <2>4. QED BY <2>1, <2>2, <2>3, AloneStep
<1>4. CASE ReadAnnouncement(h)
  <2>1. ListsKept /\ Alone(h)
    BY <1>0, <1>4, PausedListKept DEF ReadAnnouncement, past, Alone, MayLose, Carrying, VarsOK
  <2>2. read'[h] \in Announcements
    BY <1>0, <1>4, ReadIsAnnouncement DEF ReadAnnouncement, VarsOK
  <2>3. VarsOK'
    BY <1>0, <1>4, <2>2 DEF ReadAnnouncement, past, VarsOK, PastOK, Pcs, Empty, Items
  <2>4. HostOK(h) /\ db'[h] = db[h] => HostOK(h)'
    BY <1>0, <1>4, <2>2 DEF ReadAnnouncement, past, VarsOK, HostOK, Right, Owning, Empty, Carrying
  <2>5. QED BY <2>1, <2>3, <2>4, AloneStep
<1>5. CASE TakeAnnouncement(h)
  <2>1. ListsKept
    BY <1>0, <1>5, PausedListKept DEF TakeAnnouncement
  <2>2. Alone(h)
    BY <1>0, <1>5 DEF TakeAnnouncement, Alone, MayLose, Carrying, VarsOK
  <2>3. VarsOK'
    <3>1. held' \in [Hosts -> Announcements \cup {None}]
      <4>1. read[h] \in Announcements
        BY <1>0, <1>5 DEF TakeAnnouncement, HostOK
      <4>2. held' = [held EXCEPT ![h] = read[h]] \/ held' = [held EXCEPT ![h] = None]
        BY <1>5 DEF TakeAnnouncement
      <4>3. QED BY <1>0, <4>1, <4>2 DEF VarsOK
    <3>2. pc' \in [Hosts -> Pcs]
      BY <1>0, <1>5 DEF TakeAnnouncement, VarsOK, Pcs, Empty
    <3>3. /\ read' \in [Hosts -> Items \cup {None}] /\ rounds' \in [Hosts -> Nat]
          /\ job' = job /\ index' = index /\ PastOK'
      BY <1>0, <1>5, DroppedAreJobs DEF TakeAnnouncement, VarsOK, PastOK
    <3>4. QED BY <1>0, <3>1, <3>2, <3>3 DEF VarsOK
  <2>4. HostOK(h) /\ db'[h] = db[h] => HostOK(h)'
    BY <1>0, <1>5 DEF TakeAnnouncement, VarsOK, HostOK, Right, Owning, Empty, Carrying
  <2>5. QED BY <2>1, <2>2, <2>3, <2>4, AloneStep
<1>6. CASE SkipAnnouncement(h)
  <2>1. ListsKept /\ Alone(h)
    BY <1>0, <1>6, PausedListKept DEF SkipAnnouncement, NextRound, past, Alone, MayLose, Carrying, VarsOK
  <2>2. VarsOK'
    BY <1>0, <1>6 DEF SkipAnnouncement, NextRound, past, VarsOK, PastOK, Pcs, Empty
  <2>3. HostOK(h) /\ db'[h] = db[h] => HostOK(h)'
    BY <1>0, <1>6 DEF SkipAnnouncement, NextRound, past, VarsOK, HostOK, Right, Owning, Empty, Carrying
  <2>4. QED BY <2>1, <2>2, <2>3, AloneStep
<1>7. CASE FindPaused(h)
  <2>1. ListsKept /\ Alone(h)
    BY <1>0, <1>7, PausedListKept DEF FindPaused, past, Alone, MayLose, Carrying, VarsOK
  <2>2. held[h] \in Announcements
    BY <1>0, <1>7 DEF FindPaused, HostOK
  <2>3. read'[h] = None \/ Right(read'[h])
    BY <1>0, <1>7, <2>2, FoundIsRight DEF FindPaused, VarsOK
  <2>4. VarsOK'
    BY <1>0, <1>7, <2>3 DEF FindPaused, past, VarsOK, PastOK, Pcs, Empty, Items, Right
  <2>5. HostOK(h) /\ db'[h] = db[h] => HostOK(h)'
    BY <1>0, <1>7, <2>3 DEF FindPaused, past, VarsOK, HostOK, Right, Owning, Empty, Carrying
  <2>6. QED BY <2>1, <2>4, <2>5, AloneStep
<1>8. CASE DropOrphan(h)
  <2>1. ListsKept
    BY <1>0, <1>8, PausedListKept DEF DropOrphan
  <2>2. Alone(h)
    BY <1>0, <1>8 DEF DropOrphan, NextRound, Alone, MayLose, Carrying, VarsOK
  <2>3. VarsOK'
    BY <1>0, <1>8 DEF DropOrphan, NextRound, VarsOK, PastOK, Pcs, Empty
  <2>4. HostOK(h) /\ db'[h] = db[h] => HostOK(h)'
    BY <1>0, <1>8 DEF DropOrphan, NextRound, VarsOK, HostOK, Right, Owning, Empty, Carrying
  <2>5. QED BY <2>1, <2>2, <2>3, <2>4, AloneStep
<1>9. CASE RunsElsewhere(h)
  <2>1. ListsKept /\ Alone(h)
    BY <1>0, <1>9, PausedListKept DEF RunsElsewhere, look, past, Alone, MayLose, Carrying, VarsOK
  <2>2. VarsOK'
    BY <1>0, <1>9 DEF RunsElsewhere, look, past, VarsOK, PastOK, Pcs, Empty
  <2>3. HostOK(h) /\ db'[h] = db[h] => HostOK(h)'
    BY <1>0, <1>9 DEF RunsElsewhere, look, past, VarsOK, HostOK, Right, Owning, Empty, Carrying
  <2>4. QED BY <2>1, <2>2, <2>3, AloneStep
<1>10. QED
  BY <1>1, <1>2, <1>3, <1>4, <1>5, <1>6, <1>7, <1>8, <1>9 DEF Look

\* Before a handler returns, or pauses no job, what it holds goes back.
LEMMA ReturnStep ==
    ASSUME IInv, NEW h \in Hosts, ListsKept, MayLose(h), Return(h),
           UNCHANGED look \/ Forget(h), PastOK'
    PROVE  IInv'
<1> USE DEF Return, Goto, Set
<1>0. VarsOK
  BY DEF IInv
<1>1. VarsOK'
  BY <1>0 DEF Forget, look, VarsOK, Pcs
<1>2. Alone(h)
  BY <1>0 DEF Forget, look, Alone, VarsOK
<1>3. HostOK(h) /\ db'[h] = db[h] => HostOK(h)'
  <2>1. pc'[h] = "idle"
    BY <1>0 DEF VarsOK
  <2>2. QED BY <2>1 DEF HostOK, Owning, Empty, Carrying
<1>4. QED BY <1>1, <1>2, <1>3, AloneStep

LEMMA GiveBack ==
    ASSUME IInv, NEW h \in Hosts, Release(h) \/ RunDeferred(h)
    PROVE  IInv'
<1>0. VarsOK /\ ListsOK /\ HostOK(h)
  BY DEF IInv
<1>1. Kept(h) => held[h] \in Announcements
  BY <1>0 DEF Kept, VarsOK
<1>2. CASE Release(h)
  <2>1. ListsKept
    BY <1>0, <1>1, <1>2, PausedListKept DEF Release
  <2>2. Alone(h)
    BY <1>0, <1>2 DEF Release, Goto, Set, Forget, past, Alone, MayLose, Carrying, VarsOK
  <2>3. VarsOK'
    BY <1>0, <1>2 DEF Release, Goto, Set, Forget, past, VarsOK, PastOK, Pcs, Empty
  <2>4. HostOK(h) /\ db'[h] = db[h] => HostOK(h)'
    BY <1>0, <1>2 DEF Release, Goto, Set, Forget, past, VarsOK, HostOK, Right, Owning, Empty, Carrying
  <2>5. QED BY <2>1, <2>2, <2>3, <2>4, AloneStep
<1>3. CASE RunDeferred(h)
  <2>1. ListsKept
    BY <1>0, <1>1, <1>3, PausedListKept DEF RunDeferred
  <2>2. pc[h] = "return" /\ MayLose(h)
    BY <1>3 DEF RunDeferred, Carrying, MayLose
  <2>3. PastOK'
    <3>1. Kept(h) => held[h].id \in Jobs
      BY <1>1 DEF Announcements
    <3>2. QED BY <1>0, <1>3, <3>1 DEF RunDeferred, VarsOK, PastOK
  <2>4. CASE rounds[h] > 1
    <3>1. /\ rounds[h] \in Nat /\ rounds' = [rounds EXCEPT ![h] = rounds[h] - 1]
          /\ UNCHANGED <<pc, job, index, held, read>> /\ done' = done
      BY <1>0, <1>3, <2>4 DEF RunDeferred, Set, VarsOK
    <3>2. VarsOK'
      <4>1. rounds[h] - 1 \in Nat
        BY <2>4, <3>1
      <4>2. QED BY <1>0, <2>3, <3>1, <4>1 DEF VarsOK
    <3>3. Alone(h)
      BY <2>2, <3>1 DEF Alone
    <3>4. HostOK(h) /\ db'[h] = db[h] => HostOK(h)'
      BY <2>2, <3>1 DEF HostOK, Owning, Carrying
    <3>5. QED BY <2>1, <3>2, <3>3, <3>4, AloneStep
  <2>5. CASE ~(rounds[h] > 1)
    BY <1>3, <2>1, <2>2, <2>3, <2>5, ReturnStep DEF RunDeferred
  <2>6. QED BY <2>4, <2>5
<1>4. QED BY <1>2, <1>3

-----------------------------------------------------------------------------
(* Steps that change one list of jobs.                                      *)

\* Handler h changes list k: its own, the main list, or another handler's,
\* from which it may only take.
Changes(h, k) ==
    /\ db' \in DB /\ SameBut(db, db', Keys, k)
    /\ \A e \in Elems(db'[k]) : e \in Records /\ (e.over => e.id \in done')
    /\ k # h /\ k # "main" => Elems(db'[k]) \subseteq Elems(db[k]) /\ Len(db'[k]) <= Len(db[k])
    /\ \A g \in Hosts \ {h} :
          pc'[g] = pc[g] /\ job'[g] = job[g] /\ held'[g] = held[g] /\ read'[g] = read[g]
    /\ done \subseteq done' /\ lost \subseteq lost'

LEMMA ChangeStep ==
    ASSUME IInv, NEW h \in Hosts, NEW k \in JobKeys, Changes(h, k), VarsOK', HostOK(h)',
           \A j \in Jobs \ done' : \A e \in Elems(db[k]) : e.id = j => Somewhere(j)',
           \A j \in Jobs \ done' : pc[h] \in Carrying /\ job[h].id = j => Somewhere(j)'
    PROVE  IInv'
<1>1. /\ db' \in DB /\ k \in Keys /\ k # "paused"
      /\ \A x \in Keys \ {k} : db'[x] = db[x]
  BY KeyFacts DEF Changes, SameBut
<1>2. Frame(h)
  <2>1. ASSUME NEW g \in Hosts \ {h}
        PROVE  Elems(db'[g]) \subseteq Elems(db[g]) /\ Len(db'[g]) <= Len(db[g])
    <3>1. g \in Keys /\ g # "main"
      BY KeyFacts
    <3>2. CASE g = k
      BY <3>1, <3>2 DEF Changes
    <3>3. CASE g # k
      <4>1. db'[g] = db[g] /\ Len(db[g]) \in Nat
        BY <1>1, <3>1, <3>3, ListTypes DEF IInv, ListsOK
      <4>2. QED BY <4>1
    <3>4. QED BY <3>2, <3>3
  <2>2. QED BY <2>1 DEF Changes, Frame
<1>3. ListsOK'
  <2>1. ASSUME NEW x \in JobKeys, NEW e \in Elems(db'[x])
        PROVE  e \in Records /\ (e.over => e.id \in done')
    <3>1. CASE x = k
      BY <2>1, <3>1 DEF Changes
    <3>2. CASE x # k
      <4>1. e \in Elems(db[x])
        BY <1>1, <2>1, <3>2, KeyFacts
      <4>2. QED BY <4>1 DEF IInv, ListsOK, Right, Changes
    <3>3. QED BY <3>1, <3>2
  <2>2. Elems(db'["paused"]) \subseteq Announcements
    BY <1>1, KeyFacts DEF IInv, ListsOK
  <2>3. QED BY <1>1, <2>1, <2>2 DEF ListsOK, Right
<1>4. ASSUME NEW j \in Jobs \ (done' \cup lost'), Somewhere(j) PROVE Somewhere(j)'
  <2>1. CASE Stored(j)
    <3>1. PICK x \in JobKeys : \E e \in Elems(db[x]) : e.id = j
      BY <2>1 DEF Stored
    <3>2. CASE x = k
      BY <3>1, <3>2
    <3>3. CASE x # k
      <4>1. db'[x] = db[x]
        BY <1>1, <3>3, KeyFacts
      <4>2. QED BY <3>1, <4>1 DEF Stored, Somewhere
    <3>4. QED BY <3>2, <3>3
  <2>2. CASE Carried(j)
    <3>1. PICK g \in Hosts : pc[g] \in Carrying /\ job[g].id = j
      BY <2>2 DEF Carried
    <3>2. CASE g = h
      BY <3>1, <3>2
    <3>3. CASE g # h
      <4>1. pc'[g] = pc[g] /\ job'[g] = job[g]
        BY <3>3 DEF Changes
      <4>2. QED BY <3>1, <4>1 DEF Carried, Somewhere
    <3>4. QED BY <3>2, <3>3
  <2>3. QED BY <1>4, <2>1, <2>2 DEF Somewhere
<1>5. QED BY <1>2, <1>3, <1>4, StepOK

\* A record is taken out of a list by a handler whose own list is empty then.
Taken(h, k, r) ==
    /\ db' \in DB /\ SameBut(db, db', Keys, k) /\ db'[h] = <<>>
    /\ Elems(db'[k]) \subseteq Elems(db[k])
    /\ Elems(db[k]) \ {r} \subseteq Elems(db'[k])
    /\ Len(db'[k]) <= Len(db[k])

LEMMA TakenByLRem ==
    ASSUME IInv, NEW h \in Hosts, NEW k \in JobKeys, NEW r, db[h] = <<>>, db' = Without(k, r)
    PROVE  Taken(h, k, r)
<1>0. ListsOK /\ h \in Keys /\ k \in Keys
  BY KeyFacts DEF IInv
<1>1. /\ db' \in DB /\ SameBut(db, db', Keys, k)
      /\ Elems(db'[k]) \subseteq Elems(db[k])
      /\ Elems(db[k]) \ {r} \subseteq Elems(db'[k])
      /\ Len(db'[k]) <= Len(db[k])
  BY <1>0, WithoutFact DEF ListsOK
<1>2. CASE k = h
  <2>1. db'[h] \in Seq(Items) /\ Len(db'[h]) <= 0
    BY <1>0, <1>1, <1>2 DEF DB, Databases
  <2>2. QED BY <1>1, <2>1 DEF Taken
<1>3. CASE k # h
  BY <1>0, <1>1, <1>3 DEF SameBut, Taken
<1>4. QED BY <1>2, <1>3

LEMMA TakenByDel ==
    ASSUME IInv, NEW h \in Hosts, NEW r, Elems(db[h]) = {r}, db' = Del(db, h)
    PROVE  Taken(h, h, r)
<1>0. ListsOK /\ h \in Keys /\ Len(db[h]) \in Nat
  BY KeyFacts, ListTypes DEF IInv, ListsOK
<1>1. QED BY <1>0, DeletedFact DEF ListsOK, Taken

\* It goes into the handler's hand.
LEMMA IntoHand ==
    ASSUME IInv, NEW h \in Hosts, NEW k \in JobKeys, NEW r, Right(r), Taken(h, k, r),
           pc[h] \notin Carrying, NEW l \in Carrying, Goto(h, l), job' = [job EXCEPT ![h] = r],
           UNCHANGED look \/ Forget(h), done' = done, lost' = lost, PastOK'
    PROVE  IInv'
<1> USE DEF Goto
<1>0. VarsOK /\ ListsOK
  BY DEF IInv
<1>1. pc'[h] = l /\ job'[h] = r /\ r \in Records /\ (r.over => r.id \in done')
  BY <1>0 DEF VarsOK, Right
<1>2. VarsOK'
  <2>1. pc' \in [Hosts -> Pcs] /\ job' \in [Hosts -> Records \cup {None}] /\ PastOK'
    BY <1>0, <1>1 DEF VarsOK, Pcs, Empty
  <2>2. CASE UNCHANGED look
    BY <1>0, <2>1, <2>2 DEF look, VarsOK
  <2>3. CASE Forget(h)
    BY <1>0, <2>1, <2>3 DEF Forget, Set, VarsOK
  <2>4. QED BY <2>2, <2>3
<1>3. HostOK(h)'
  BY <1>1 DEF Taken, HostOK, Right, Carrying, Owning, Elems
<1>4. Changes(h, k)
  <2>1. \A g \in Hosts \ {h} :
          pc'[g] = pc[g] /\ job'[g] = job[g] /\ held'[g] = held[g] /\ read'[g] = read[g]
    BY <1>0 DEF VarsOK, Forget, Set, look
  <2>2. QED BY <1>0, <2>1 DEF Taken, Changes, ListsOK, Right
<1>5. ASSUME NEW j \in Jobs \ done', NEW e \in Elems(db[k]), e.id = j
      PROVE  Somewhere(j)'
  <2>1. CASE e = r
    BY <1>1, <1>5, <2>1 DEF Carried, Somewhere
  <2>2. CASE e # r
    BY <1>5, <2>2 DEF Taken, Stored, Somewhere
  <2>3. QED BY <2>1, <2>2
<1>6. QED BY <1>2, <1>3, <1>4, <1>5, ChangeStep

LEMMA TakeOverStep ==
    ASSUME IInv, NEW h \in Hosts, TakeOver(h)
    PROVE  IInv'
<1>1. PICK k : k = held[h].on
  OBVIOUS
<1>2. PICK r : r = read[h]
  OBVIOUS
<1>3. k \in JobKeys /\ Right(r) /\ db[h] = <<>> /\ pc[h] \notin Carrying
  <2>1. HostOK(h)
    BY DEF IInv
  <2>2. held[h] \in Announcements
    BY <2>1 DEF TakeOver, HostOK
  <2>3. QED BY <1>1, <1>2, <2>1, <2>2, KeyFacts DEF TakeOver, HostOK, Empty, Carrying, Announcements
<1>4. /\ db' = Without(k, r) /\ Goto(h, "push") /\ job' = [job EXCEPT ![h] = r]
      /\ Forget(h) /\ done' = done /\ lost' = lost /\ PastOK'
  BY <1>1, <1>2, PastKept DEF TakeOver, Set, IInv
<1>5. "push" \in Carrying
  BY DEF Carrying
<1>6. Taken(h, k, r)
  BY <1>3, <1>4, TakenByLRem
<1>7. QED BY <1>3, <1>4, <1>5, <1>6, IntoHand

LEMMA ClaimStep ==
    ASSUME IInv, NEW h \in Hosts, Claim(h)
    PROVE  IInv'
<1>0. VarsOK /\ ListsOK /\ HostOK(h)
  BY DEF IInv
<1>1. /\ pc[h] \notin Carrying /\ db[h] = <<>> /\ UNCHANGED look
      /\ done' = done /\ lost' = lost /\ PastOK'
  BY <1>0, PastKept DEF Claim, Carrying, Empty, HostOK
<1>2. CASE db["main"] = <<>>
  BY <1>0, <1>1, <1>2, ReturnStep, PausedListKept DEF Claim, MayLose
<1>3. CASE db["main"] # <<>>
  <2>1. PICK r : r = db["main"][1]
    OBVIOUS
  <2>2. Right(r) /\ "main" \in JobKeys
    <3>1. db["main"] \in Seq(Items)
      BY <1>0, KeyFacts, ListTypes DEF ListsOK
    <3>2. r \in Elems(db["main"])
      BY <1>3, <2>1, <3>1 DEF Elems
    <3>3. QED BY <1>0, <3>2, KeyFacts DEF ListsOK
  <2>3. /\ db' = Without("main", r) /\ Goto(h, "push") /\ "push" \in Carrying
        /\ job' = [job EXCEPT ![h] = r]
    BY <1>3, <2>1 DEF Claim, Set, Carrying
  <2>4. Taken(h, "main", r)
    BY <1>1, <2>2, <2>3, TakenByLRem
  <2>5. QED BY <1>1, <2>2, <2>3, <2>4, IntoHand
<1>4. QED BY <1>2, <1>3

\* A job in the hand of a handler is pushed to a list.
LEMMA FromHand ==
    ASSUME IInv, NEW h \in Hosts, PushClaim(h) \/ ReturnToMainQueue(h)
    PROVE  IInv'
<1> USE DEF Goto, Set
<1>0. /\ VarsOK /\ ListsOK /\ HostOK(h) /\ h \in Keys /\ h # "main" /\ "main" \in Keys
      /\ h \in JobKeys /\ "main" \in JobKeys
  BY KeyFacts DEF IInv
<1>1. Right(job[h]) /\ db[h] = <<>> /\ job[h].id \in Jobs
  BY <1>0 DEF PushClaim, ReturnToMainQueue, HostOK, Carrying, Empty, Right, Records
<1>2. ASSUME NEW k \in JobKeys, NEW r, Right(r), r.id = job[h].id, k = h \/ k = "main",
             db' = LPush(db, k, r) \/ db' = RPush(db, k, r),
             VarsOK', HostOK(h)', UNCHANGED <<job, look, past>>,
             \A g \in Hosts \ {h} : pc'[g] = pc[g]
      PROVE  IInv'
  <2>1. k \in Keys /\ r \in Items
    BY <1>2, KeyFacts DEF Right, Items
  <2>2. db' \in DB /\ SameBut(db, db', Keys, k) /\ Elems(db'[k]) = Elems(db[k]) \cup {r}
    BY <1>0, <1>2, <2>1, PushFact DEF ListsOK
  <2>3. Changes(h, k)
    BY <1>0, <1>2, <2>2 DEF Changes, ListsOK, Right, look, past
  <2>4. ASSUME NEW j \in Jobs \ done', NEW e \in Elems(db[k]), e.id = j
        PROVE  Somewhere(j)'
    BY <1>2, <2>2, <2>4 DEF Stored, Somewhere
  <2>5. ASSUME NEW j \in Jobs \ done', job[h].id = j
        PROVE  Somewhere(j)'
    BY <1>2, <2>2, <2>5 DEF Stored, Somewhere
  <2>6. QED BY <1>2, <2>3, <2>4, <2>5, ChangeStep
<1>3. CASE PushClaim(h)
  <2>1. PICK r : r = job[h]
    OBVIOUS
  <2>2. r \in Items /\ db' = RPush(db, h, r)
    BY <1>1, <1>3, <2>1 DEF PushClaim, Right, Items
  <2>3. Elems(db'[h]) = {r} /\ Len(db'[h]) = 1
    <3>1. Elems(db'[h]) = Elems(db[h]) \cup {r} /\ Len(db'[h]) = Len(db[h]) + 1
      BY <1>0, <2>2, PushFact DEF ListsOK
    <3>2. Elems(db[h]) = {} /\ Len(db[h]) = 0
      BY <1>1 DEF Elems
    <3>3. QED BY <3>1, <3>2
  <2>4. VarsOK'
    BY <1>0, <1>3 DEF PushClaim, look, past, VarsOK, PastOK, Pcs, Owning
  <2>5. pc'[h] = "claimed" /\ job' = job /\ done' = done
    BY <1>0, <1>3 DEF PushClaim, past, VarsOK
  <2>6. HostOK(h)'
    BY <1>1, <2>1, <2>3, <2>5 DEF HostOK, Right, Owning, Empty, Carrying
  <2>7. \A g \in Hosts \ {h} : pc'[g] = pc[g]
    BY <1>0, <1>3 DEF PushClaim, VarsOK
  <2>8. Right(r) /\ r.id = job[h].id /\ UNCHANGED <<job, look, past>>
    BY <1>1, <1>3, <2>1 DEF PushClaim
  <2>9. QED BY <1>0, <1>2, <2>2, <2>4, <2>6, <2>7, <2>8
<1>4. CASE ReturnToMainQueue(h)
  <2>1. PICK r : r = Record(job[h].id, "queued")
    OBVIOUS
  <2>2. Right(r) /\ r.id = job[h].id /\ r \in Items /\ db' = LPush(db, "main", r)
    BY <1>1, <1>4, <2>1 DEF ReturnToMainQueue, Right, Record, Records, Items
  <2>3. db'[h] = <<>>
    BY <1>0, <1>1, <2>2, PushFact DEF ListsOK, SameBut
  <2>4. VarsOK'
    BY <1>0, <1>4 DEF ReturnToMainQueue, look, past, VarsOK, PastOK, Pcs, Empty
  <2>5. pc'[h] = "returned"
    BY <1>0, <1>4 DEF ReturnToMainQueue, VarsOK
  <2>6. HostOK(h)'
    BY <2>3, <2>5 DEF HostOK, Owning, Empty, Carrying, Elems
  <2>7. \A g \in Hosts \ {h} : pc'[g] = pc[g]
    BY <1>0, <1>4 DEF ReturnToMainQueue, VarsOK
  <2>8. UNCHANGED <<job, look, past>>
    BY <1>4 DEF ReturnToMainQueue
  <2>9. QED BY <1>0, <1>2, <2>2, <2>4, <2>6, <2>7, <2>8
<1>5. QED BY <1>3, <1>4

-----------------------------------------------------------------------------
(* Steps of a handler that has a job in its list.                           *)

\* A job that is completed has ended.
LEMMA CompletedIsDone ==
    ASSUME IInv, NEW h \in Hosts, Completed(h)
    PROVE  \A e \in Elems(db[h]) : e.id \in done
BY OwnElem DEF Completed, Right

\* Steps that change the paused list only.
LEMMA OwningStep ==
    ASSUME IInv, NEW h \in Hosts, ListsKept, pc[h] \in Owning,
           NEW l \in Owning \cup {"failing"}, Goto(h, l), UNCHANGED job,
           UNCHANGED look \/ Forget(h), done' = done, lost \subseteq lost', PastOK'
    PROVE  IInv'
<1> USE DEF Goto, Set
<1>0. VarsOK /\ HostOK(h)
  BY DEF IInv
<1>1. VarsOK'
  BY <1>0 DEF look, Forget, VarsOK, Pcs, Owning
<1>2. Alone(h)
  BY <1>0 DEF look, Forget, Alone, MayLose, VarsOK, Owning, Carrying
<1>3. db'[h] = db[h] /\ pc'[h] = l
  BY <1>0, KeyFacts DEF ListsKept, VarsOK
<1>4. HostOK(h)'
  <2>1. CASE l \in Owning
    BY <1>0, <1>3, <2>1 DEF HostOK, Right, Owning, Empty, Carrying
  <2>2. CASE l = "failing"
    BY <1>0, <1>3, <2>2 DEF HostOK, Owning, Empty, Carrying
  <2>3. QED BY <2>1, <2>2
<1>5. QED BY <1>1, <1>2, <1>4, AloneStep

\* A run gives its job up.
LEMMA GiveUpStep ==
    ASSUME IInv, NEW h \in Hosts, ListsKept, pc[h] \in Owning, GiveUp(h),
           UNCHANGED look \/ Forget(h), done' = done, lost \subseteq lost', PastOK'
    PROVE  IInv'
<1>1. CASE h \in deaf
  <2>1. MayLose(h)
    BY DEF MayLose, Owning, Carrying
  <2>2. QED BY <1>1, <2>1, ReturnStep DEF GiveUp
<1>2. CASE h \notin deaf
  BY <1>2, OwningStep DEF GiveUp
<1>3. QED BY <1>1, <1>2

LEMMA ToCleanup ==
    ASSUME IInv, NEW h \in Hosts, ListsKept, pc[h] \notin Carrying, Completed(h),
           Goto(h, "cleanup"), UNCHANGED <<job, look, done>>, lost \subseteq lost', PastOK'
    PROVE  IInv'
<1>0. VarsOK
  BY DEF IInv
<1>1. Alone(h) /\ pc'[h] = "cleanup"
  BY <1>0 DEF Goto, Alone, MayLose, look, VarsOK
<1>2. VarsOK'
  BY <1>0 DEF Goto, look, VarsOK, Pcs
<1>3. HostOK(h) /\ db'[h] = db[h] => HostOK(h)'
  BY <1>1, CompletedIsDone DEF HostOK, Owning, Empty, Carrying
<1>4. QED BY <1>1, <1>2, <1>3, AloneStep

\* The handler's copy of the record replaces the one in the list.
LEMMA UpdateStep ==
    ASSUME IInv, NEW h \in Hosts, pc[h] \in Owning, NEW l \in Owning,
           NEW action \in {"queued", "preparing", "paused", "in_progress"},
           db' = UpdateJobInDB(h, action),
           Goto(h, l), UNCHANGED <<job, look, past>>
    PROVE  IInv'
<1> USE DEF Goto
<1>0. /\ VarsOK /\ ListsOK /\ HostOK(h) /\ h \in Keys /\ h \in JobKeys
      /\ Right(job[h]) /\ pc[h] \notin Carrying /\ pc'[h] = l
  BY KeyFacts DEF IInv, HostOK, VarsOK, Owning, Carrying
<1>1. CASE db' = db
  <2>1. ListsKept
    BY <1>0, <1>1, PausedListKept
  <2>2. PastOK' /\ done' = done /\ lost' = lost
    BY <1>0, PastKept
  <2>3. QED BY <2>1, <2>2, OwningStep
<1>2. CASE db' # db
  <2>1. PICK r : r = [job[h] EXCEPT !.action = action]
    OBVIOUS
  <2>2. db[h] # <<>> /\ db' = LSet(db, h, 1, r)
    BY <1>2, <2>1 DEF UpdateJobInDB
  <2>3. r \in Records /\ r.id = job[h].id /\ (r.over => r.id \in done) /\ r \in Items
    BY <1>0, <2>1 DEF Right, Records, Items
  <2>4. /\ db' \in DB /\ SameBut(db, db', Keys, h)
        /\ Elems(db'[h]) = {r} /\ Len(db'[h]) = 1
    BY <1>0, <2>2, <2>3, SetFact DEF ListsOK, HostOK
  <2>5. VarsOK'
    BY <1>0 DEF look, past, VarsOK, PastOK, Pcs
  <2>6. HostOK(h)'
    BY <1>0, <2>3, <2>4 DEF look, past, HostOK, Right, Owning, Empty, Carrying
  <2>7. Changes(h, h)
    BY <1>0, <2>3, <2>4 DEF look, past, Changes, VarsOK
  <2>8. ASSUME NEW j \in Jobs \ done', NEW e \in Elems(db[h]), e.id = j
        PROVE  Somewhere(j)'
    <3>1. e.id = job[h].id
      BY <1>0, <2>8 DEF HostOK
    <3>2. QED BY <1>0, <2>3, <2>4, <2>8, <3>1 DEF Stored, Somewhere
  <2>9. QED BY <1>0, <2>5, <2>6, <2>7, <2>8, ChangeStep
<1>3. QED BY <1>1, <1>2

\* The job ends, which its record says if it is still in the list.
LEMMA OverStep ==
    ASSUME IInv, NEW h \in Hosts, pc[h] \in Owning, NEW l \in Owning \cup {"cleanup"},
           \/ db' = db
           \/ db[h] # <<>> /\ db' = LSet(db, h, 1, [db[h][1] EXCEPT !.over = TRUE]),
           Goto(h, l), done' = done \cup {job[h].id},
           UNCHANGED <<job, look>>, lost \subseteq lost', PastOK'
    PROVE  IInv'
<1> USE DEF Goto
<1>0. /\ VarsOK /\ ListsOK /\ HostOK(h) /\ h \in Keys /\ h \in JobKeys
      /\ Right(job[h]) /\ job[h].id \in Jobs /\ pc[h] \notin Carrying /\ pc'[h] = l
      /\ \A e \in Elems(db[h]) : e.id = job[h].id
  BY KeyFacts DEF IInv, HostOK, VarsOK, Owning, Carrying, Right, Records
<1>1. /\ db' \in DB /\ SameBut(db, db', Keys, h) /\ Len(db'[h]) <= 1
      /\ \A e \in Elems(db'[h]) : e \in Records /\ e.id = job[h].id
  <2>1. CASE db' = db
    BY <1>0, <2>1 DEF ListsOK, SameBut, HostOK, Right
  <2>2. CASE db[h] # <<>> /\ db' = LSet(db, h, 1, [db[h][1] EXCEPT !.over = TRUE])
    <3>1. PICK r : r = [db[h][1] EXCEPT !.over = TRUE]
      OBVIOUS
    <3>2. Elems(db[h]) = {db[h][1]} /\ Right(db[h][1])
      BY <2>2, OwnElem
    <3>3. r \in Records /\ r.id = job[h].id /\ r \in Items
      BY <1>0, <3>1, <3>2 DEF Right, Records, Items
    <3>4. db' \in DB /\ SameBut(db, db', Keys, h) /\ Elems(db'[h]) = {r} /\ Len(db'[h]) = 1
      BY <1>0, <2>2, <3>1, <3>3, SetFact DEF ListsOK, HostOK
    <3>5. QED BY <3>3, <3>4
  <2>3. QED BY <2>1, <2>2
<1>2. VarsOK'
  BY <1>0 DEF look, VarsOK, Pcs
<1>3. HostOK(h)'
  BY <1>0, <1>1 DEF look, HostOK, Right, Owning, Empty, Carrying
<1>4. Changes(h, h)
  BY <1>0, <1>1 DEF look, Changes, VarsOK
<1>5. QED BY <1>0, <1>2, <1>3, <1>4, ChangeStep

\* The end of a handler's list.
LEMMA CleanupStep ==
    ASSUME IInv, NEW h \in Hosts, CleanCompleted(h)
    PROVE  IInv'
<1>0. /\ VarsOK /\ ListsOK /\ HostOK(h) /\ h \in Keys /\ h \in JobKeys /\ pc[h] = "cleanup"
      /\ db' = Del(db, h) /\ pc' = [pc EXCEPT ![h] = "idle"] /\ job' = [job EXCEPT ![h] = None]
      /\ UNCHANGED <<look, past>>
  BY KeyFacts DEF IInv, CleanCompleted, Return, Goto, Set
<1>1. db' \in DB /\ SameBut(db, db', Keys, h) /\ Elems(db'[h]) = {} /\ Len(db'[h]) = 0
  BY <1>0, DeletedFact DEF ListsOK
<1>2. VarsOK'
  BY <1>0 DEF look, past, VarsOK, PastOK, Pcs
<1>3. HostOK(h)'
  BY <1>0, <1>1 DEF VarsOK, HostOK, Owning, Empty, Carrying
<1>4. Changes(h, h)
  BY <1>0, <1>1 DEF look, past, Changes, VarsOK
<1>5. pc[h] \notin Carrying /\ done' = done /\ \A e \in Elems(db[h]) : e.id \in done
  BY <1>0 DEF Carrying, HostOK, past
<1>6. QED BY <1>0, <1>2, <1>3, <1>4, <1>5, ChangeStep

LEMMA TakeForReturnStep ==
    ASSUME IInv, NEW h \in Hosts, TakeForReturn(h)
    PROVE  IInv'
<1>0. /\ VarsOK /\ ListsOK /\ HostOK(h) /\ h \in JobKeys /\ pc[h] \notin Carrying
      /\ UNCHANGED look /\ done' = done /\ lost' = lost /\ PastOK'
  BY KeyFacts, IdsAreJobs DEF IInv, TakeForReturn, Carrying, VarsOK, PastOK
<1>1. CASE db[h] = <<>>
  BY <1>0, <1>1, PausedListKept, ReturnStep DEF TakeForReturn, MayLose
<1>2. CASE db[h] # <<>> /\ Completed(h)
  BY <1>0, <1>2, PausedListKept, ToCleanup DEF TakeForReturn
<1>3. CASE db[h] # <<>> /\ ~Completed(h)
  <2>1. PICK r : r = db[h][1]
    OBVIOUS
  <2>2. Elems(db[h]) = {r} /\ Right(r)
    BY <1>3, <2>1, OwnElem
  <2>3. /\ Goto(h, "returning") /\ "returning" \in Carrying /\ job' = [job EXCEPT ![h] = r]
        /\ db' = Del(db, h)
    BY <1>3, <2>1 DEF TakeForReturn, Set, Carrying
  <2>4. Taken(h, h, r)
    BY <2>2, <2>3, TakenByDel
  <2>5. QED BY <1>0, <2>2, <2>3, <2>4, IntoHand
<1>4. QED BY <1>1, <1>2, <1>3

\* The steps of a handler with a job of its own.
LEMMA RunJobStep ==
    ASSUME IInv, NEW h \in Hosts, RunJob(h) \/ GetRoom(h) \/ NilStatus(h)
    PROVE  IInv'
<1>0. VarsOK /\ ListsOK /\ HostOK(h)
  BY DEF IInv
<1>1. CASE Claim(h)
  BY <1>1, ClaimStep
<1>2. CASE PushClaim(h) \/ ReturnToMainQueue(h)
  BY <1>2, FromHand
<1>3. CASE Prepare(h)
  <2>1. pc[h] \in Owning /\ UNCHANGED <<look, past>>
    BY <1>3 DEF Prepare, Owning
  <2>2. CASE Completed(h) /\ Goto(h, "cleanup") /\ UNCHANGED <<db, job>>
    BY <1>0, <2>1, <2>2, ToCleanup, PausedListKept, PastKept DEF Owning, Carrying
  <2>3. CASE GiveUp(h) /\ UNCHANGED db
    BY <1>0, <2>1, <2>3, GiveUpStep, PausedListKept, PastKept
  <2>4. CASE Goto(h, "prepared") /\ db' = UpdateJobInDB(h, "preparing") /\ UNCHANGED job
    BY <1>0, <2>1, <2>4, UpdateStep DEF Owning
  <2>5. QED BY <1>3, <2>2, <2>3, <2>4 DEF Prepare
<1>4. CASE StartVM(h)
  BY <1>0, <1>4, OwningStep, PausedListKept, PastKept DEF StartVM, Owning
<1>5. CASE Pause(h)
  <2>1. pc[h] \in Owning /\ UNCHANGED <<job, look, past>>
    BY <1>5 DEF Pause, Owning
  <2>2. CASE Completed(h)
    BY <1>0, <1>5, <2>1, <2>2, ToCleanup, PausedListKept, PastKept DEF Pause, Carrying
  <2>3. CASE ~Completed(h)
    BY <1>0, <1>5, <2>1, <2>3, UpdateStep DEF Pause, Owning
  <2>4. QED BY <2>2, <2>3
<1>6. CASE FindAnnouncement(h)
  BY <1>0, <1>6, OwningStep, PausedListKept, PastKept DEF FindAnnouncement, Owning
<1>7. CASE Announce(h)
  <2>1. Announcement(job[h].id, h) \in Announcements
    BY <1>0, <1>7 DEF Announce, HostOK, Owning, Right, Records, Announcement, Announcements
  <2>2. QED BY <1>0, <1>7, <2>1, OwningStep, PausedListKept, PastKept DEF Announce, Owning
<1>8. CASE WaitIsOver(h)
  <2>1. PastOK' /\ ListsKept
    BY <1>0, <1>8, UnannounceFact, PausedListKept DEF WaitIsOver, VarsOK, PastOK
  <2>2. QED BY <1>8, <2>1, ToCleanup DEF WaitIsOver, Carrying
<1>9. CASE TakenAway(h)
  BY <1>0, <1>9, ReturnStep, PausedListKept, PastKept DEF TakenAway, Carrying, MayLose
<1>10. CASE GetRoom(h)
  BY <1>0, <1>10, OwningStep, PausedListKept, PastKept DEF GetRoom, Owning
<1>11. CASE Withdraw(h)
  <2>1. PastOK' /\ ListsKept
    BY <1>0, <1>11, UnannounceFact, PausedListKept, IdsAreJobs DEF Withdraw, VarsOK, PastOK
  <2>2. QED BY <1>11, <2>1, OwningStep DEF Withdraw, Owning
<1>12. CASE Regain(h)
  <2>1. pc[h] \in Owning /\ UNCHANGED <<job, look, past>>
    BY <1>12 DEF Regain, Owning
  <2>2. CASE Completed(h)
    BY <1>0, <1>12, <2>1, <2>2, ToCleanup, PausedListKept, PastKept DEF Regain, Carrying
  <2>3. CASE ~Completed(h)
    BY <1>0, <1>12, <2>1, <2>3, UpdateStep DEF Regain, Owning
  <2>4. QED BY <2>2, <2>3
<1>13. CASE RunEnds(h)
  <2>1. Find(h, job[h].id) # None => db[h] # <<>>
    BY DEF Find
  <2>2. job[h].id \in Jobs
    BY <1>0, <1>13 DEF RunEnds, HostOK, Owning, Right, Records
  <2>3. PastOK'
    BY <1>0, <1>13, <2>2 DEF RunEnds, VarsOK, PastOK
  <2>4. QED BY <1>13, <2>1, <2>3, OverStep DEF RunEnds, Owning
<1>14. CASE RunFails(h)
  <2>1. PastOK' /\ ListsKept
    BY <1>0, <1>14, PausedListKept DEF RunFails, Fault, VarsOK, PastOK
  <2>2. QED BY <1>14, <2>1, GiveUpStep DEF RunFails, Owning
<1>15. CASE CleanCompleted(h)
  BY <1>15, CleanupStep
<1>16. CASE TakeForReturn(h)
  BY <1>16, TakeForReturnStep
<1>17. CASE ForgetReturned(h)
  <2>1. PastOK' /\ ListsKept
    BY <1>0, <1>17, UnannounceFact, PausedListKept DEF ForgetReturned, VarsOK, PastOK
  <2>2. QED BY <1>17, <2>1, ReturnStep DEF ForgetReturned, Carrying, MayLose
<1>18. CASE NilStatus(h)
  BY <1>0, <1>18, ReturnStep, PausedListKept, PastKept DEF NilStatus, Carrying, MayLose
<1>19. QED
  BY <1>1, <1>2, <1>3, <1>4, <1>5, <1>6, <1>7, <1>8, <1>9, <1>10, <1>11, <1>12,
     <1>13, <1>14, <1>15, <1>16, <1>17, <1>18 DEF RunJob

\* What is in the hand of a run that is cut off is lost.
LEMMA CutOffFact ==
    ASSUME IInv, NEW h \in Hosts, CutOff(h), done' = done
    PROVE  MayLose(h) /\ Forget(h) /\ lost' \subseteq Jobs /\ muted' \subseteq Jobs
<1>0. VarsOK /\ HostOK(h)
  BY DEF IInv
<1>1. lost' = lost \cup {j \in Jobs : h \in InHand(j)}
  BY DEF CutOff
<1>2. lost' \subseteq Jobs /\ lost \subseteq lost'
  BY <1>0, <1>1 DEF VarsOK, PastOK
<1>3. ASSUME pc[h] \in Carrying PROVE job[h].id \in lost'
  <2>1. job[h].id \in Jobs
    BY <1>0, <1>3 DEF HostOK, Right, Records
  <2>2. h \in InHand(job[h].id)
    BY <1>3 DEF Carrying, InHand
  <2>3. QED BY <1>1, <2>1, <2>2
<1>4. muted' \subseteq Jobs
  BY <1>0, DroppedAreJobs DEF CutOff, VarsOK, PastOK
<1>5. QED BY <1>2, <1>3, <1>4 DEF CutOff, MayLose

\* The checker's step, and the faults.
LEMMA DisturbStep ==
    ASSUME IInv, NEW h \in Hosts, JobCanceled(h) \/ Stop(h) \/ Crash(h)
    PROVE  IInv'
<1>0. VarsOK /\ ListsOK /\ HostOK(h)
  BY DEF IInv
<1>1. CASE JobCanceled(h)
  <2>1. pc[h] \in Owning /\ Goto(h, pc[h])
    BY <1>0, <1>1 DEF JobCanceled, Owning, VarsOK, Goto
  <2>2. db[h] # <<>> /\ db[h][1].id = job[h].id /\ job[h].id \in Jobs
    <3>1. db[h] # <<>>
      BY <1>1 DEF JobCanceled
    <3>2. QED BY <1>0, <2>1, <3>1, OwnElem DEF HostOK, Right, Records
  <2>3. PICK l : l = pc[h]
    OBVIOUS
  <2>4. PastOK'
    BY <1>0, <1>1, <2>2, IdsAreJobs DEF JobCanceled, VarsOK, PastOK
  <2>5. QED BY <1>1, <2>1, <2>2, <2>3, <2>4, OverStep DEF JobCanceled
<1>2. CASE Stop(h)
  <2>1. done' = done /\ ListsKept
    BY <1>0, <1>2, PausedListKept DEF Stop
  <2>2. MayLose(h) /\ Forget(h) /\ PastOK'
    <3>1. faults' \subseteq Faults /\ CutOff(h)
      BY <1>0, <1>2 DEF Stop, Fault, VarsOK, PastOK
    <3>2. QED BY <1>0, <1>2, <2>1, <3>1, CutOffFact DEF Stop, VarsOK, PastOK
  <2>3. CASE Return(h)
    BY <2>1, <2>2, <2>3, ReturnStep
  <2>4. CASE pc[h] \in Handling /\ GiveUp(h)
    <3>1. pc[h] \in Owning
      BY <2>4 DEF Handling, Owning
    <3>2. QED BY <2>1, <2>2, <2>4, <3>1, GiveUpStep DEF MayLose
  <2>5. QED BY <1>2, <2>3, <2>4 DEF Stop
<1>3. CASE Crash(h)
  <2>1. done' = done /\ ListsKept /\ Return(h)
    BY <1>0, <1>3, PausedListKept DEF Crash
  <2>2. MayLose(h) /\ Forget(h) /\ PastOK'
    <3>1. faults' \subseteq Faults /\ CutOff(h)
      BY <1>0, <1>3 DEF Crash, Fault, VarsOK, PastOK
    <3>2. QED BY <1>0, <1>3, <2>1, <3>1, CutOffFact DEF Crash, VarsOK, PastOK
  <2>3. QED BY <2>1, <2>2, ReturnStep
<1>4. QED BY <1>1, <1>2, <1>3

-----------------------------------------------------------------------------
(* The theorems.                                                            *)

\* At first every job is in the main list.
LEMMA InitIInv == Init => IInv
<1> SUFFICES ASSUME Init PROVE IInv
  OBVIOUS
<1>1. /\ Queue \in [1..Cardinality(Jobs) -> Jobs] /\ {Queue[i] : i \in DOMAIN Queue} = Jobs
      /\ db = [k \in Hosts \cup {"main", "paused"} |->
                 IF k = "main" THEN [i \in DOMAIN Queue |-> Record(Queue[i], "queued")]
                               ELSE <<>>]
  BY PausedAssumption DEF Init
<1> DEFINE n == Cardinality(Jobs)
           s == [i \in 1..n |-> Record(Queue[i], "queued")]
<1>2. db["main"] = s /\ \A k \in Keys \ {"main"} : db[k] = <<>>
  BY <1>1, KeyFacts DEF Keys
<1>3. n \in Nat
  BY PausedAssumption, FS_CardinalityType
<1>4. \A i \in 1..n : Record(Queue[i], "queued") \in Records /\ ~Record(Queue[i], "queued").over
  BY <1>1 DEF Record, Records
<1>5. s \in Seq(Records)
  BY <1>3, <1>4
<1>6. Len(s) = n /\ \A i \in 1..n : s[i] = Record(Queue[i], "queued")
  BY <1>3, <1>5
<1> HIDE DEF s, n
<1>7. \A e \in Elems(s) : e \in Records /\ ~e.over
  BY <1>4, <1>6 DEF Elems
<1>8. \A j \in Jobs : \E e \in Elems(s) : e.id = j
  <2>1. TAKE j \in Jobs
  <2>2. PICK i \in 1..n : Queue[i] = j
    BY <1>1 DEF n
  <2>3. s[i] \in Elems(s) /\ s[i].id = j
    BY <1>6, <2>2 DEF Elems, Record
  <2>4. QED BY <2>3
<1>9. Elems(<<>>) = {} /\ Len(<<>>) = 0
  BY DEF Elems
<1>10. ListsOK
  <2>1. db \in DB
    <3>1. s \in Seq(Items) /\ <<>> \in Seq(Items)
      BY <1>5, <1>7, ElemsAreItems DEF Items
    <3>2. \A k \in Keys : db[k] \in Seq(Items)
      BY <1>2, <3>1
    <3>3. db = [k \in Keys |-> db[k]]
      BY <1>1 DEF Keys
    <3>4. QED BY <3>2, <3>3 DEF DB, Databases
  <2>2. ASSUME NEW k \in JobKeys, NEW e \in Elems(db[k]) PROVE Right(e)
    <3>1. CASE k = "main"
      BY <1>2, <1>7, <2>2, <3>1 DEF Right
    <3>2. CASE k # "main"
      BY <1>2, <1>9, <2>2, <3>2, KeyFacts
    <3>3. QED BY <3>1, <3>2
  <2>3. Elems(db["paused"]) \subseteq Announcements
    BY <1>2, <1>9, PausedAssumption DEF Keys
  <2>4. QED BY <2>1, <2>2, <2>3 DEF ListsOK
<1>11. VarsOK
  BY DEF Init, VarsOK, PastOK, Pcs
<1>12. ASSUME NEW h \in Hosts PROVE HostOK(h)
  <2>1. db[h] = <<>> /\ pc[h] = "idle"
    BY <1>2, KeyFacts DEF Init
  <2>2. QED BY <1>9, <2>1 DEF HostOK, Owning, Empty, Carrying
<1>13. \A j \in Jobs : Somewhere(j)
  BY <1>2, <1>8, KeyFacts DEF Stored, Somewhere
<1>14. QED BY <1>10, <1>11, <1>12, <1>13 DEF IInv

\* The invariant is inductive.
LEMMA NextIInv == IInv /\ [Next]_vars => IInv'
<1> SUFFICES ASSUME IInv, [Next]_vars PROVE IInv'
  OBVIOUS
<1>1. CASE UNCHANGED vars
  BY <1>1 DEF vars, look, past, IInv, VarsOK, PastOK, ListsOK, HostOK, Right, Somewhere, Carried, Stored
<1>2. ASSUME NEW h \in Hosts,
             \/ Look(h) \/ RunJob(h) \/ GetRoom(h) \/ NilStatus(h)
             \/ JobCanceled(h) \/ Stop(h) \/ Crash(h)
      PROVE  IInv'
  <2>1. CASE Look(h)
    BY <2>1, LookStep, TakeOverStep, GiveBack
  <2>2. CASE RunJob(h) \/ GetRoom(h) \/ NilStatus(h)
    BY <2>2, RunJobStep
  <2>3. CASE JobCanceled(h) \/ Stop(h) \/ Crash(h)
    BY <2>3, DisturbStep
  <2>4. QED BY <1>2, <2>1, <2>2, <2>3
<1>3. QED BY <1>1, <1>2 DEF Next

LEMMA AlwaysIInv == Spec => []IInv
<1>1. Init => IInv
  BY InitIInv
<1>2. IInv /\ [Next]_vars => IInv'
  BY NextIInv
<1>3. QED BY <1>1, <1>2, PTL DEF Spec

\* Every variable has its type, and a handler's list never holds more than
\* one job: the look at the handler's own list, before any other, keeps a
\* second one out (github.go:1525).
THEOREM PausedTypesCorrect == Spec => []TypeOK
<1>1. IInv => TypeOK
  <2> SUFFICES ASSUME IInv PROVE TypeOK
    OBVIOUS
  <2>1. \A k \in JobKeys : db[k] \in Seq(Records)
    <3>1. ASSUME NEW k \in JobKeys PROVE db[k] \in Seq(Records)
      <4>1. db[k] \in Seq(Items) /\ Elems(db[k]) \subseteq Records
        BY KeyFacts, ListTypes DEF IInv, ListsOK, Right
      <4>2. QED BY <4>1, ElemsAreItems
    <3>2. QED BY <3>1
  <2>2. db["paused"] \in Seq(Announcements)
    BY KeyFacts, ListTypes, ElemsAreItems DEF IInv, ListsOK
  <2>3. QED BY <2>1, <2>2, KeyFacts DEF TypeOK, IInv, VarsOK, PastOK, HostOK
<1>2. QED BY <1>1, AlwaysIInv, PTL

\* A job that has not ended is in the main list, in a handler's list or in
\* the hand of a handler, for any number of hosts and jobs, wherever there is
\* room, and however they stop, crash and fail, at any point of a run, but for
\* one that the run had in hand right there (github.go:1682-1773, 1192-1217):
\* a takeover whose LREM found nothing (1682) may double a job, but loses none.
THEOREM NoJobIsLost == Spec => []NeverLost
<1>1. IInv => NeverLost
  <2> SUFFICES ASSUME IInv, NEW j \in Jobs \ (done \cup lost)
               PROVE  InHand(j) # {} \/ Listed(j) # {} \/ AtMain(j) # {}
    BY DEF NeverLost
  <2>1. CASE Carried(j)
    BY <2>1 DEF Carried, Carrying, InHand
  <2>2. CASE Stored(j)
    <3>1. PICK k \in JobKeys : \E e \in Elems(db[k]) : e.id = j
      BY <2>2 DEF Stored
    <3>2. PICK i \in 1..Len(db[k]) : db[k][i].id = j
      BY <3>1 DEF Elems
    <3>3. DOMAIN db[k] = 1..Len(db[k]) /\ db[k] \in Seq(Items)
      BY KeyFacts, ListTypes DEF IInv, ListsOK
    <3>4. CASE k = "main"
      BY <3>2, <3>3, <3>4 DEF AtMain
    <3>5. CASE k \in Hosts
      <4>1. i \in {m \in DOMAIN db[k] : db[k][m].id = j}
        BY <3>2, <3>3
      <4>2. \A m \in DOMAIN db[k] : db[k][m] \in Records
        BY <3>3 DEF IInv, ListsOK, Elems, Right
      <4>3. Find(k, j) # None
        <5> DEFINE of == {m \in DOMAIN db[k] : db[k][m].id = j}
        <5>1. \E m \in of : \A n \in of : m <= n
          <6>1. of \subseteq 1..Len(db[k]) /\ of # {} /\ Len(db[k]) \in Nat
            BY <3>3, <4>1
          <6> HIDE DEF of
          <6>2. QED BY <6>1, Least
        <5>2. PICK m \in of : Find(k, j) = db[k][m]
          BY <4>1, <5>1 DEF Find
        <5>3. QED BY <4>2, <5>2, PausedAssumption
      <4>4. QED BY <3>5, <4>3 DEF Listed
    <3>6. QED BY <3>4, <3>5 DEF JobKeys
  <2>3. QED BY <2>1, <2>2 DEF IInv, Somewhere
<1>2. QED BY <1>1, AlwaysIInv, PTL

-----------------------------------------------------------------------------
(* No job is in two places, unless its host changed it after a pause.       *)

\* No two elements of a list are of job j; none is.
Once(s, j) == \A m, n \in 1..Len(s) : s[m].id = j /\ s[n].id = j => m = n
Absent(s, j) == \A e \in Elems(s) : e.id # j

\* LPUSH and RPUSH.
LEMMA PushOnce ==
    ASSUME NEW S, NEW s \in Seq(S), NEW e \in S, NEW j, Once(s, j), e.id = j => Absent(s, j)
    PROVE  Once(<<e>> \o s, j) /\ Once(Append(s, e), j)
<1>1. Once(<<e>> \o s, j)
  <2>1. Len(s) \in Nat /\ Len(<<e>> \o s) = Len(s) + 1
    OBVIOUS
  <2>2. ASSUME NEW i \in 1..(Len(s) + 1)
        PROVE  \/ i = 1 /\ (<<e>> \o s)[i] = e
               \/ i - 1 \in 1..Len(s) /\ (<<e>> \o s)[i] = s[i - 1]
    BY <2>1
  <2>3. CASE e.id = j
    <3>1. \A m \in 1..Len(s) : s[m].id # j
      BY <2>3 DEF Absent, Elems
    <3>2. QED BY <2>1, <2>2, <3>1 DEF Once
  <2>4. CASE e.id # j
    BY <2>1, <2>2, <2>4 DEF Once
  <2>5. QED BY <2>3, <2>4
<1>2. Once(Append(s, e), j)
  <2>1. Len(s) \in Nat /\ Len(Append(s, e)) = Len(s) + 1
    OBVIOUS
  <2>2. ASSUME NEW i \in 1..(Len(s) + 1)
        PROVE  \/ i = Len(s) + 1 /\ Append(s, e)[i] = e
               \/ i \in 1..Len(s) /\ Append(s, e)[i] = s[i]
    BY <2>1
  <2>3. CASE e.id = j
    <3>1. \A m \in 1..Len(s) : s[m].id # j
      BY <2>3 DEF Absent, Elems
    <3>2. QED BY <2>1, <2>2, <3>1 DEF Once
  <2>4. CASE e.id # j
    BY <2>1, <2>2, <2>4 DEF Once
  <2>5. QED BY <2>3, <2>4
<1>3. QED BY <1>1, <1>2

\* LREM.
LEMMA RemoveOnce ==
    ASSUME NEW S, NEW s \in Seq(S), NEW n \in 1..Len(s), NEW j, Once(s, j),
           NEW t, Len(t) = Len(s) - 1,
           \A i \in 1..(Len(s) - 1) : t[i] = s[IF i < n THEN i ELSE i + 1]
    PROVE  /\ Once(t, j)
           /\ s[n].id = j => Absent(t, j)
<1>1. Len(s) \in Nat /\ n \in Nat /\ 1 <= n /\ n <= Len(s)
  OBVIOUS
<1>2. ASSUME NEW i \in 1..Len(t)
      PROVE  /\ i \in Nat /\ i \in 1..(Len(s) - 1)
             /\ i < n => i \in 1..Len(s) /\ t[i] = s[i]
             /\ ~(i < n) => i + 1 \in 1..Len(s) /\ t[i] = s[i + 1]
  BY <1>1
<1>3. ASSUME NEW i \in 1..Len(t), NEW k \in 1..Len(t), t[i].id = j, t[k].id = j PROVE i = k
  <2>1. CASE i < n /\ k < n
    BY <1>2, <1>3, <2>1 DEF Once
  <2>2. CASE ~(i < n) /\ ~(k < n)
    <3>1. i + 1 \in 1..Len(s) /\ s[i + 1].id = j /\ k + 1 \in 1..Len(s) /\ s[k + 1].id = j
      BY <1>2, <1>3, <2>2
    <3>2. i + 1 = k + 1
      BY <3>1 DEF Once
    <3>3. QED BY <1>2, <3>2
  <2>3. CASE i < n /\ ~(k < n)
    <3>0. i \in 1..Len(s) /\ s[i].id = j /\ k + 1 \in 1..Len(s) /\ s[k + 1].id = j
      BY <1>2, <1>3, <2>3
    <3>1. i = k + 1
      BY <3>0 DEF Once
    <3>2. QED BY <1>1, <1>2, <2>3, <3>1
  <2>4. CASE ~(i < n) /\ k < n
    <3>0. i + 1 \in 1..Len(s) /\ s[i + 1].id = j /\ k \in 1..Len(s) /\ s[k].id = j
      BY <1>2, <1>3, <2>4
    <3>1. i + 1 = k
      BY <3>0 DEF Once
    <3>2. QED BY <1>1, <1>2, <2>4, <3>1
  <2>5. QED BY <2>1, <2>2, <2>3, <2>4
<1>4. ASSUME s[n].id = j, NEW i \in 1..Len(t), t[i].id = j PROVE FALSE
  <2>1. CASE i < n
    <3>1. i = n
      BY <1>2, <1>4, <2>1 DEF Once
    <3>2. QED BY <1>1, <1>2, <2>1, <3>1
  <2>2. CASE ~(i < n)
    <3>0. i + 1 \in 1..Len(s) /\ s[i + 1].id = j
      BY <1>2, <1>4, <2>2
    <3>1. i + 1 = n
      BY <1>4, <3>0 DEF Once
    <3>2. QED BY <1>1, <1>2, <2>2, <3>1
  <2>3. QED BY <2>1, <2>2
<1>5. QED BY <1>3, <1>4 DEF Once, Absent, Elems

\* The LREM of an element that is there leaves no other one of its job.
LEMMA WithoutOnce ==
    ASSUME db \in DB, NEW k \in Keys, NEW e, NEW j, Once(db[k], j), NEW E, E = Without(k, e)
    PROVE  /\ Once(E[k], j)
           /\ E # db => e \in Elems(db[k])
           /\ e \in Elems(db[k]) /\ e.id = j => Absent(E[k], j)
<1>1. db[k] \in Seq(Items) /\ Len(db[k]) \in Nat /\ DOMAIN db[k] = 1..Len(db[k])
  <2>1. db[k] \in Seq(Items)
    BY ListTypes
  <2>2. QED BY <2>1
<1>2. CASE ~ \E i \in DOMAIN db[k] : db[k][i] = e
  <2>1. E = db
    BY <1>2 DEF Without
  <2>2. e \notin Elems(db[k])
    BY <1>1, <1>2 DEF Elems
  <2>3. QED BY <2>1, <2>2
<1>3. CASE \E i \in DOMAIN db[k] : db[k][i] = e
  <2> DEFINE n == CHOOSE i \in DOMAIN db[k] : FirstAt(db, k, e, i)
  <2>1. \E i \in DOMAIN db[k] : FirstAt(db, k, e, i)
    BY <1>1, <1>3, FirstExists
  <2>2. n \in 1..Len(db[k]) /\ db[k][n] = e
    BY <1>1, <2>1 DEF FirstAt
  <2>3. E = LRemAt(db, k, n)
    BY <1>3 DEF Without
  <2> HIDE DEF n
  <2>4. E[k] = SubSeq(db[k], 1, n - 1) \o SubSeq(db[k], n + 1, Len(db[k]))
    <3>1. DOMAIN db = Keys
      BY DEF DB, Databases
    <3>2. LRemAt(db, k, n)[k] = SubSeq(db[k], 1, n - 1) \o SubSeq(db[k], n + 1, Len(db[k]))
      BY <3>1, Zenon DEF LRemAt
    <3>3. QED BY <2>3, <3>2
  <2>5. /\ Len(E[k]) = Len(db[k]) - 1
        /\ \A i \in 1..(Len(db[k]) - 1) : E[k][i] = db[k][IF i < n THEN i ELSE i + 1]
    BY <1>1, <2>2, <2>4, WithoutOne
  <2>6. Once(E[k], j) /\ (db[k][n].id = j => Absent(E[k], j))
    BY <1>1, <2>2, <2>5, RemoveOnce
  <2>7. e \in Elems(db[k])
    BY <2>2 DEF Elems
  <2>8. QED BY <2>2, <2>6, <2>7
<1>4. QED BY <1>2, <1>3

\* Host h has job j, in its list or in its hand, or holds its announcement.
Has(h, j) ==
    \/ pc[h] \in Carrying /\ job[h].id = j
    \/ \E e \in Elems(db[h]) : e.id = j
Holds(h, j) == held[h] # None /\ held[h].id = j

\* Where a job that may be announced is: paused, in the list of a host that
\* does nothing to its record before it has noted that it was paused.
Waits(h, j) ==
    /\ pc[h] \in {"idle", "waiting", "withdrawing", "failing"}
    /\ Elems(db[h]) = {Record(j, "paused")}

\* One host has the job, or the main list does, ...
Sole(j) ==
    /\ \A g, h \in Hosts : Has(g, j) /\ Has(h, j) => g = h
    /\ Once(db["main"], j)
    /\ (\E h \in Hosts : Has(h, j)) => Absent(db["main"], j)

\* ... it has one announcement, in the paused list or held by one host, and
\* only while it is paused, ...
Offered(j) ==
    /\ \A g, h \in Hosts : Holds(g, j) /\ Holds(h, j) => g = h
    /\ Once(db["paused"], j)
    /\ (\E h \in Hosts : Holds(h, j)) => Absent(db["paused"], j)
    /\ \A e \in Elems(db["paused"]) : e.id = j => Waits(e.on, j)
    /\ \A h \in Hosts : Holds(h, j) => Waits(held[h].on, j)

\* ... and a host that is about to take it over, to announce it or to pause it
\* knows its record.
Knows(h, j) ==
    /\ pc[h] = "found" /\ Holds(h, j) => read[h] \in {None, Record(j, "paused")}
    /\ pc[h] = "found" /\ read[h] # None /\ read[h].id = j => Holds(h, j)
    /\ pc[h] \in {"pausing", "announcing"} /\ job[h].id = j
       => Elems(db[h]) = {Record(j, "paused")}
    /\ pc[h] \in {"claimed", "prepared"} /\ job[h].id = j
       => \E e \in Elems(db[h]) : e.id = j /\ (job[h].over => e.over)
Knowing == {"found", "pausing", "announcing", "claimed", "prepared"}

Single(j) == Sole(j) /\ Offered(j) /\ \A h \in Hosts : Knows(h, j)
SInv == \A j \in Jobs \ changed : Single(j)

\* A step of host h leaves the others alone, and takes nothing of job j out of
\* their lists.
Others(h) ==
    \A g \in Hosts \ {h} :
        pc'[g] = pc[g] /\ job'[g] = job[g] /\ held'[g] = held[g] /\ read'[g] = read[g]
Keeps(h, j) ==
    /\ Others(h)
    /\ \A g \in Hosts \ {h} :
          /\ Elems(db'[g]) \subseteq Elems(db[g])
          /\ \A e \in Elems(db[g]) : e.id = j => e \in Elems(db'[g])

LEMMA OthersKeep ==
    ASSUME NEW h \in Hosts, NEW j, Keeps(h, j), NEW g \in Hosts \ {h}
    PROVE  /\ Has(g, j)' => Has(g, j)
           /\ Holds(g, j)' => Holds(g, j) /\ held'[g] = held[g]
           /\ Waits(g, j) => Waits(g, j)'
           /\ Knows(g, j) => Knows(g, j)'
<1>1. /\ pc'[g] = pc[g] /\ job'[g] = job[g] /\ held'[g] = held[g] /\ read'[g] = read[g]
      /\ Elems(db'[g]) \subseteq Elems(db[g])
      /\ \A e \in Elems(db[g]) : e.id = j => e \in Elems(db'[g])
  BY DEF Keeps, Others
<1>2. Record(j, "paused").id = j
  BY DEF Record
<1>3. Elems(db[g]) = {Record(j, "paused")} => Elems(db'[g]) = {Record(j, "paused")}
  BY <1>1, <1>2
<1>4. Has(g, j)' => Has(g, j)
  BY <1>1 DEF Has
<1>5. Holds(g, j)' => Holds(g, j) /\ held'[g] = held[g]
  BY <1>1 DEF Holds
<1>6. Waits(g, j) => Waits(g, j)'
  BY <1>1, <1>3 DEF Waits
<1>7. ASSUME Knows(g, j) PROVE Knows(g, j)'
  <2>1. pc'[g] = "found" /\ Holds(g, j)' => read'[g] \in {None, Record(j, "paused")}
    BY <1>1, <1>5, <1>7 DEF Knows
  <2>2. pc'[g] = "found" /\ read'[g] # None /\ read'[g].id = j => Holds(g, j)'
    BY <1>1, <1>7 DEF Knows, Holds
  <2>3. pc'[g] \in {"pausing", "announcing"} /\ job'[g].id = j
        => Elems(db'[g]) = {Record(j, "paused")}
    BY <1>1, <1>3, <1>7 DEF Knows
  <2>4. ASSUME pc'[g] \in {"claimed", "prepared"}, job'[g].id = j
        PROVE  \E e \in Elems(db'[g]) : e.id = j /\ (job'[g].over => e.over)
    <3>1. PICK e \in Elems(db[g]) : e.id = j /\ (job[g].over => e.over)
      BY <1>1, <1>7, <2>4 DEF Knows
    <3>2. e \in Elems(db'[g]) /\ job'[g] = job[g]
      BY <1>1, <3>1
    <3>3. QED BY <3>1, <3>2
  <2>5. QED BY <2>1, <2>2, <2>3, <2>4 DEF Knows
<1>8. QED BY <1>4, <1>5, <1>6, <1>7

LEMMA SingleStep ==
    ASSUME NEW h \in Hosts, NEW j, Single(j), Keeps(h, j), Sole(j)', Offered(j)', Knows(h, j)'
    PROVE  Single(j)'
<1>1. \A g \in Hosts : Knows(g, j)'
  <2>1. TAKE g \in Hosts
  <2>2. CASE g = h
    BY <2>2
  <2>3. CASE g # h
    BY <2>3, OthersKeep DEF Single
  <2>4. QED BY <2>2, <2>3
<1>2. QED BY <1>1 DEF Single

\* Most steps bring the job nowhere it was not before ...
MainCalm(j) == Once(db'["main"], j) /\ (Absent(db["main"], j) => Absent(db'["main"], j))

LEMMA SoleStep ==
    ASSUME NEW h \in Hosts, NEW j, Sole(j), Keeps(h, j), Has(h, j)' => Has(h, j), MainCalm(j)
    PROVE  Sole(j)'
<1>1. \A g \in Hosts : Has(g, j)' => Has(g, j)
  <2>1. TAKE g \in Hosts
  <2>2. CASE g # h
    BY <2>2, OthersKeep
  <2>3. QED BY <2>2
<1>2. QED BY <1>1 DEF Sole, MainCalm

\* ... and announce nothing.
PausedCalm(j) ==
    /\ Once(db'["paused"], j)
    /\ \A e \in Elems(db'["paused"]) : e.id = j => e \in Elems(db["paused"])

LEMMA OfferedStep ==
    ASSUME IInv, NEW h \in Hosts, NEW j, Offered(j), Keeps(h, j), PausedCalm(j),
           Holds(h, j)' => Holds(h, j) /\ held'[h] = held[h], Waits(h, j) => Waits(h, j)'
    PROVE  Offered(j)'
<1>1. ASSUME NEW g \in Hosts, Holds(g, j)' PROVE Holds(g, j) /\ held'[g] = held[g]
  <2>1. CASE g # h
    BY <1>1, <2>1, OthersKeep
  <2>2. QED BY <1>1, <2>1
<1>2. ASSUME NEW g \in Hosts, Waits(g, j) PROVE Waits(g, j)'
  <2>1. CASE g # h
    BY <1>2, <2>1, OthersKeep
  <2>2. QED BY <1>2, <2>1
<1>3. ASSUME NEW e \in Elems(db'["paused"]), e.id = j PROVE Waits(e.on, j)'
  <2>1. e \in Elems(db["paused"]) /\ Waits(e.on, j)
    BY <1>3 DEF PausedCalm, Offered
  <2>2. e.on \in Hosts
    BY <2>1 DEF IInv, ListsOK, Announcements
  <2>3. QED BY <1>2, <2>1, <2>2
<1>4. ASSUME NEW g \in Hosts, Holds(g, j)' PROVE Waits(held[g].on, j)'
  <2>1. PICK a : a = held[g]
    OBVIOUS
  <2>2. Holds(g, j) /\ held'[g] = a
    BY <1>1, <1>4, <2>1
  <2>3. a \in Announcements /\ Waits(a.on, j)
    BY <2>1, <2>2 DEF IInv, VarsOK, Holds, Offered
  <2>4. a.on \in Hosts
    BY <2>3 DEF Announcements
  <2>5. Waits(a.on, j)'
    BY <1>2, <2>3, <2>4
  <2>6. QED BY <2>2, <2>5 DEF Waits
<1>5. \A g, k \in Hosts : Holds(g, j)' /\ Holds(k, j)' => g = k
  BY <1>1 DEF Offered
<1>6. (\E g \in Hosts : Holds(g, j)') => Absent(db'["paused"], j)
  <2>1. SUFFICES ASSUME NEW g \in Hosts, Holds(g, j)', NEW e \in Elems(db'["paused"]), e.id = j
                 PROVE  FALSE
    BY DEF Absent
  <2>2. Holds(g, j) /\ e \in Elems(db["paused"])
    BY <1>1, <2>1 DEF PausedCalm
  <2>3. QED BY <2>1, <2>2 DEF Offered, Absent
<1>7. QED BY <1>3, <1>4, <1>5, <1>6 DEF PausedCalm, Offered

LEMMA KnowsLittle ==
    ASSUME NEW h \in Hosts, NEW j, pc'[h] \notin Knowing
    PROVE  Knows(h, j)'
BY DEF Knowing, Knows

\* Commands that only take announcements away.
LEMMA PausedCalmFact ==
    ASSUME IInv, NEW j, Single(j),
           \/ db' = db
           \/ \E e : db' = Without("paused", e)
           \/ \E i : db' = DeleteFromQueue("paused", i)
    PROVE  PausedCalm(j)
<1>1. ListsOK /\ db \in DB /\ "paused" \in Keys /\ Once(db["paused"], j)
  BY KeyFacts DEF IInv, ListsOK, Single, Offered
<1>2. CASE db' = db
  BY <1>1, <1>2 DEF PausedCalm
<1>3. ASSUME NEW e, db' = Without("paused", e) PROVE PausedCalm(j)
  <2>1. Elems(db'["paused"]) \subseteq Elems(db["paused"])
    BY <1>1, <1>3, WithoutFact
  <2>2. Once(db'["paused"], j)
    BY <1>1, <1>3, WithoutOnce
  <2>3. QED BY <2>1, <2>2 DEF PausedCalm
<1>4. ASSUME NEW i, db' = DeleteFromQueue("paused", i) PROVE PausedCalm(j)
  <2>1. CASE Find("paused", i) = None
    BY <1>2, <1>4, <2>1 DEF DeleteFromQueue
  <2>2. CASE Find("paused", i) # None
    <3>1. db' = Without("paused", Find("paused", i))
      BY <1>4, <2>2 DEF DeleteFromQueue
    <3>2. QED BY <1>3, <3>1
  <2>3. QED BY <2>1, <2>2
<1>5. QED BY <1>2, <1>3, <1>4

\* When no list of jobs changes, no host has a job that it did not have.
LEMMA SameLists ==
    ASSUME IInv, NEW h \in Hosts, NEW j, Single(j), ListsKept, Others(h)
    PROVE  /\ Keeps(h, j) /\ MainCalm(j)
           /\ Elems(db'[h]) = Elems(db[h])
<1>1. \A k \in JobKeys : db'[k] = db[k]
  BY DEF ListsKept
<1>2. Keeps(h, j) /\ Elems(db'[h]) = Elems(db[h])
  BY <1>1, KeyFacts DEF Keeps
<1>3. MainCalm(j)
  BY <1>1, KeyFacts DEF MainCalm, Single, Sole
<1>4. QED BY <1>2, <1>3

LEMMA ListsSingle ==
    ASSUME IInv, NEW h \in Hosts, NEW j, Single(j), ListsKept, Others(h), pc'[h] \notin Carrying,
           Offered(j)', Knows(h, j)'
    PROVE  Single(j)'
<1>1. Keeps(h, j) /\ MainCalm(j) /\ Elems(db'[h]) = Elems(db[h])
  BY SameLists
<1>2. Has(h, j)' => Has(h, j)
  BY <1>1 DEF Has
<1>3. Sole(j)'
  BY <1>1, <1>2, SoleStep DEF Single
<1>4. QED BY <1>1, <1>3, SingleStep

\* No announcement of the job is new, nor held by a host that did not hold it.
LEMMA CalmSingle ==
    ASSUME IInv, NEW h \in Hosts, NEW j, Single(j), ListsKept, PausedCalm(j),
           Others(h), pc'[h] \notin Carrying, Holds(h, j)' => Holds(h, j) /\ held'[h] = held[h],
           Waits(h, j) => pc'[h] \in {"idle", "waiting", "withdrawing", "failing"},
           Knows(h, j)'
    PROVE  Single(j)'
<1>1. Keeps(h, j) /\ Elems(db'[h]) = Elems(db[h])
  BY SameLists
<1>2. Waits(h, j) => Waits(h, j)'
  BY <1>1 DEF Waits
<1>3. Offered(j)'
  BY <1>1, <1>2, OfferedStep DEF Single
<1>4. QED BY <1>3, ListsSingle

LEMMA QuietSingle ==
    ASSUME IInv, NEW h \in Hosts, NEW j, Single(j),
           \/ db' = db
           \/ \E e : db' = Without("paused", e)
           \/ \E i : db' = DeleteFromQueue("paused", i),
           Others(h), pc'[h] \notin Carrying, held'[h] \in {held[h], None},
           Waits(h, j) => pc'[h] \in {"idle", "waiting", "withdrawing", "failing"},
           Knows(h, j)'
    PROVE  Single(j)'
<1>1. ListsKept
  BY PausedListKept DEF IInv
<1>2. PausedCalm(j)
  BY PausedCalmFact
<1>3. Holds(h, j)' => Holds(h, j) /\ held'[h] = held[h]
  BY DEF Holds
<1>4. QED BY <1>1, <1>2, <1>3, CalmSingle

\* A host changes its own list.
LEMMA OwnSingle ==
    ASSUME IInv, NEW h \in Hosts, NEW j, Single(j), SameBut(db, db', Keys, h), Others(h),
           Has(h, j)' => Has(h, j), held'[h] \in {held[h], None}, ~Waits(h, j), Knows(h, j)'
    PROVE  Single(j)'
<1>1. db'["main"] = db["main"] /\ db'["paused"] = db["paused"]
      /\ \A g \in Hosts \ {h} : db'[g] = db[g]
  BY KeyFacts DEF SameBut
<1>2. Keeps(h, j)
  BY <1>1 DEF Keeps
<1>3. MainCalm(j) /\ PausedCalm(j)
  BY <1>1 DEF MainCalm, PausedCalm, Single, Sole, Offered
<1>4. Holds(h, j)' => Holds(h, j) /\ held'[h] = held[h]
  BY DEF Holds
<1>5. Sole(j)' /\ Offered(j)'
  BY <1>2, <1>3, <1>4, SoleStep, OfferedStep DEF Single
<1>6. QED BY <1>2, <1>5, SingleStep

\* What a host finds paused in its list is among the jobs it notes.
LEMMA WaitsIsPaused ==
    ASSUME IInv, NEW h \in Hosts, NEW j, Elems(db[h]) = {Record(j, "paused")}
    PROVE  j \in IdsPausedAt(h)
<1>1. DOMAIN db[h] = 1..Len(db[h])
  BY KeyFacts, ListTypes DEF IInv, ListsOK
<1>2. PICK i \in 1..Len(db[h]) : db[h][i] = Record(j, "paused")
  BY DEF Elems
<1>3. QED BY <1>1, <1>2 DEF IdsPausedAt, Record

\* What changed says only grows.
LEMMA ChangedGrows == [Next]_vars => changed \subseteq changed'
<1> SUFFICES ASSUME [Next]_vars PROVE changed \subseteq changed'
  OBVIOUS
<1>1. CASE UNCHANGED vars
  BY <1>1 DEF vars, past
<1>2. ASSUME NEW h \in Hosts, Look(h) PROVE changed \subseteq changed'
  BY <1>2 DEF Look, BeginRun, ReadLength, ReadNone, ReadAnnouncement, TakeAnnouncement,
     SkipAnnouncement, FindPaused, DropOrphan, RunsElsewhere, TakeOver, Release, RunDeferred, past
<1>3. ASSUME NEW h \in Hosts, RunJob(h) PROVE changed \subseteq changed'
  BY <1>3 DEF RunJob, Claim, PushClaim, Prepare, StartVM, Pause, FindAnnouncement, Announce,
     WaitIsOver, TakenAway, Withdraw, Regain, RunEnds, RunFails, CleanCompleted, TakeForReturn,
     ReturnToMainQueue, ForgetReturned, past
<1>4. ASSUME NEW h \in Hosts, GetRoom(h) \/ NilStatus(h) \/ JobCanceled(h) \/ Stop(h) \/ Crash(h)
      PROVE  changed \subseteq changed'
  BY <1>4 DEF GetRoom, NilStatus, JobCanceled, Stop, Crash, past
<1>5. QED BY <1>1, <1>2, <1>3, <1>4 DEF Next

-----------------------------------------------------------------------------
(* The steps that move an announcement of the job.                          *)

\* An announcement that is taken is held by the one who took it.
LEMMA TakeAnnouncementSingle ==
    ASSUME IInv, NEW h \in Hosts, NEW j, Single(j), TakeAnnouncement(h)
    PROVE  Single(j)'
<1>0. VarsOK /\ ListsOK /\ db \in DB /\ "paused" \in Keys /\ pc[h] = "take"
  BY KeyFacts DEF IInv, ListsOK, TakeAnnouncement
<1>1. PICK a \in Announcements : a = read[h]
  BY <1>0 DEF IInv, HostOK
<1>2. /\ db' = Without("paused", a) /\ pc'[h] \in {"look", "release"}
      /\ held'[h] = IF db' # db THEN a ELSE None
  BY <1>0, <1>1 DEF TakeAnnouncement, Goto, Set, VarsOK
<1>3. Others(h)
  BY <1>0 DEF TakeAnnouncement, Goto, Set, VarsOK, Others
<1>4. pc'[h] \notin Carrying /\ Knows(h, j)'
  BY <1>2, KnowsLittle DEF Knowing, Carrying
<1>5. ~Waits(h, j)
  BY <1>0 DEF Waits
<1>6. ListsKept /\ PausedCalm(j)
  BY <1>0, <1>2, PausedListKept, PausedCalmFact
<1>7. CASE db' = db \/ a.id # j
  <2>1. ~Holds(h, j)'
    BY <1>2, <1>7 DEF Holds
  <2>2. QED BY <1>3, <1>4, <1>5, <1>6, <2>1, CalmSingle
<1>8. CASE db' # db /\ a.id = j
  <2>1. Once(db["paused"], j)
    BY DEF Single, Offered
  <2>2. a \in Elems(db["paused"]) /\ Absent(db'["paused"], j) /\ Once(db'["paused"], j)
    BY <1>0, <1>2, <1>8, <2>1, WithoutOnce
  <2>3. Waits(a.on, j) /\ \A g \in Hosts : ~Holds(g, j)
    BY <1>8, <2>2 DEF Single, Offered, Absent
  <2>4. Keeps(h, j)
    BY <1>3, <1>6, SameLists
  <2>5. \A g \in Hosts : Holds(g, j)' => g = h
    BY <2>3, <2>4, OthersKeep
  <2>6. a.on \in Hosts \ {h}
    BY <1>5, <2>3 DEF Announcements
  <2>7. Waits(a.on, j)'
    BY <2>3, <2>4, <2>6, OthersKeep
  <2>8. Waits(held[h].on, j)'
    BY <1>2, <1>8, <2>7 DEF Waits
  <2>9. Offered(j)'
    BY <2>2, <2>5, <2>8 DEF Offered, Absent
  <2>10. QED BY <1>3, <1>4, <1>6, <2>9, ListsSingle
<1>9. QED BY <1>7, <1>8

\* What is given back for the last time was held by nobody else, and announced
\* nowhere; what is given back before is of no job that was not changed.
LEMMA GiveBackSingle ==
    ASSUME IInv, NEW h \in Hosts, NEW j, Single(j), j \notin changed',
           Release(h) \/ RunDeferred(h)
    PROVE  Single(j)'
<1>0. VarsOK /\ ListsOK /\ "paused" \in Keys /\ pc[h] \in {"release", "return"}
  BY KeyFacts DEF IInv, Release, RunDeferred
<1>1. /\ pc'[h] \in {"main", "idle", "return"} /\ held'[h] \in {held[h], None} /\ Others(h)
      /\ Kept(h) /\ held[h].id = j => held'[h] = None
  <2>1. CASE Release(h)
    BY <1>0, <2>1 DEF Release, Goto, Forget, Set, VarsOK, Others
  <2>2. CASE RunDeferred(h) /\ ~(rounds[h] > 1)
    BY <1>0, <2>2 DEF RunDeferred, Return, Goto, Forget, Set, VarsOK, Others
  <2>3. CASE RunDeferred(h) /\ rounds[h] > 1
    BY <1>0, <2>3 DEF RunDeferred, Others
  <2>4. QED BY <2>1, <2>2, <2>3
<1>2. pc'[h] \notin Carrying /\ Knows(h, j)' /\ ~Waits(h, j)
  <2>1. pc'[h] \notin Carrying /\ pc'[h] \notin Knowing /\ ~Waits(h, j)
    BY <1>0, <1>1 DEF Knowing, Carrying, Waits
  <2>2. QED BY <2>1, KnowsLittle
<1>3. CASE ~Kept(h)
  <2>1. db' = db
    BY <1>3 DEF Release, RunDeferred
  <2>2. QED BY <1>1, <1>2, <2>1, QuietSingle
<1>4. CASE Kept(h)
  <2>1. PICK a \in Announcements : a = held[h]
    BY <1>0, <1>4 DEF VarsOK, Kept
  <2>2. db' = LPush(db, "paused", a)
    BY <1>4, <2>1 DEF Release, RunDeferred
  <2>3. db["paused"] \in Seq(Announcements)
    BY <1>0, ListTypes, ElemsAreItems DEF ListsOK
  <2>4. db'["paused"] = <<a>> \o db["paused"]
    <3>1. db \in [Keys -> Seq(Items)]
      BY <1>0 DEF ListsOK, DB, Databases
    <3>2. QED BY <1>0, <2>2, <3>1 DEF LPush
  <2>5. ListsKept
    BY <1>0, <2>2, PausedListKept
  <2>6. Keeps(h, j)
    BY <1>1, <2>5, SameLists
  <2>7. a.id = j => Holds(h, j) /\ Absent(db["paused"], j)
    BY <1>4, <2>1 DEF Kept, Holds, Single, Offered
  <2>8. Once(db["paused"], j)
    BY DEF Single, Offered
  <2>9. Once(db'["paused"], j)
    BY <2>3, <2>4, <2>7, <2>8, PushOnce
  <2>10. Elems(db'["paused"]) = Elems(db["paused"]) \cup {a}
    BY <2>3, <2>4, PushElems
  <2>11. CASE a.id # j
    <3>1. PausedCalm(j)
      BY <2>9, <2>10, <2>11 DEF PausedCalm
    <3>2. Holds(h, j)' => Holds(h, j) /\ held'[h] = held[h]
      BY <1>1 DEF Holds
    <3>3. QED BY <1>1, <1>2, <2>5, <3>1, <3>2, CalmSingle
  <2>12. CASE a.id = j
    <3>1. \A e \in Elems(db'["paused"]) : e.id = j => e = a
      BY <2>7, <2>10, <2>12 DEF Absent
    <3>2. \A g \in Hosts : ~Holds(g, j)'
      <4>1. ASSUME NEW g \in Hosts \ {h} PROVE ~Holds(g, j)
        BY <2>7, <2>12 DEF Single, Offered
      <4>2. ~Holds(h, j)'
        BY <1>1, <1>4, <2>1, <2>12 DEF Holds
      <4>3. QED BY <2>6, <4>1, <4>2, OthersKeep
    <3>3. Waits(a.on, j)
      BY <2>1, <2>7, <2>12 DEF Single, Offered
    <3>4. a.on \in Hosts \ {h}
      BY <1>2, <3>3 DEF Announcements
    <3>5. Waits(a.on, j)'
      BY <2>6, <3>3, <3>4, OthersKeep
    <3>6. Offered(j)'
      BY <2>9, <3>1, <3>2, <3>5 DEF Offered
    <3>7. QED BY <1>1, <1>2, <2>5, <3>6, ListsSingle
  <2>13. QED BY <2>11, <2>12
<1>5. QED BY <1>3, <1>4

\* A job that its host is about to announce is announced nowhere.
LEMMA AnnounceSingle ==
    ASSUME IInv, NEW h \in Hosts, NEW j, Single(j), Announce(h)
    PROVE  Single(j)'
<1>0. VarsOK /\ ListsOK /\ db \in DB /\ "paused" \in Keys /\ pc[h] = "announcing"
  BY KeyFacts DEF IInv, ListsOK, Announce
<1>1. PICK a : a = Announcement(job[h].id, h)
  OBVIOUS
<1>2. a \in Announcements /\ a.id = job[h].id /\ a.on = h
  <2>1. job[h] \in Records
    BY <1>0 DEF IInv, HostOK, Owning, Right
  <2>2. QED BY <1>1, <2>1 DEF Records, Announcement, Announcements
<1>3. db' = RPush(db, "paused", a) /\ pc'[h] = "waiting" /\ held' = held /\ Others(h)
  BY <1>0, <1>1 DEF Announce, Goto, VarsOK, Others, look
<1>4. ListsKept
  BY <1>0, <1>2, <1>3, PausedListKept
<1>5. pc'[h] \notin Carrying /\ Knows(h, j)' /\ ~Waits(h, j)
  BY <1>0, <1>3, KnowsLittle DEF Knowing, Carrying, Waits
<1>6. Keeps(h, j) /\ Elems(db'[h]) = Elems(db[h])
  BY <1>3, <1>4, SameLists
<1>7. /\ db["paused"] \in Seq(Items) /\ a \in Items /\ db'["paused"] = Append(db["paused"], a)
      /\ Once(db["paused"], j)
  <2>1. a \in Items
    BY <1>2 DEF Items
  <2>2. QED BY <1>0, <1>3, <2>1, ListTypes, RPushFact DEF DB, Single, Offered
<1>8. Elems(db'["paused"]) = Elems(db["paused"]) \cup {a}
  <2>1. /\ Elems(<<a>> \o db["paused"]) = Elems(db["paused"]) \cup {a}
        /\ Elems(Append(db["paused"], a)) = Elems(db["paused"]) \cup {a}
    <3>1. db["paused"] \in Seq(Items) /\ a \in Items
      BY <1>7
    <3>2. QED BY <3>1, PushElems
  <2>2. QED BY <1>7, <2>1, Zenon
<1>9. CASE a.id # j
  <2>1. Once(db'["paused"], j)
    BY <1>7, <1>9, PushOnce
  <2>2. PausedCalm(j)
    BY <1>8, <1>9, <2>1 DEF PausedCalm
  <2>3. Holds(h, j)' => Holds(h, j) /\ held'[h] = held[h]
    BY <1>3 DEF Holds
  <2>4. QED BY <1>3, <1>4, <1>5, <2>2, <2>3, CalmSingle
<1>10. CASE a.id = j
  <2>1. Elems(db[h]) = {Record(j, "paused")}
    BY <1>0, <1>2, <1>10 DEF Single, Knows
  <2>2. ASSUME NEW g \in Hosts, Waits(g, j) PROVE FALSE
    <3>1. Record(j, "paused").id = j
      BY DEF Record
    <3>2. Has(g, j) /\ Has(h, j)
      BY <2>1, <2>2, <3>1 DEF Has, Waits
    <3>3. g = h
      BY <3>2 DEF Single, Sole
    <3>4. QED BY <1>5, <2>2, <3>3
  <2>3. Absent(db["paused"], j)
    <3>1. ASSUME NEW e \in Elems(db["paused"]), e.id = j PROVE FALSE
      <4>1. Waits(e.on, j)
        BY <3>1 DEF Single, Offered
      <4>2. e.on \in Hosts
        BY <1>0, <3>1 DEF ListsOK, Announcements
      <4>3. QED BY <2>2, <4>1, <4>2
    <3>2. QED BY <3>1 DEF Absent
  <2>4. \A g \in Hosts : ~Holds(g, j)
    <3>1. ASSUME NEW g \in Hosts, Holds(g, j) PROVE FALSE
      <4>1. Waits(held[g].on, j)
        BY <3>1 DEF Single, Offered
      <4>2. held[g].on \in Hosts
        BY <1>0, <3>1 DEF Holds, VarsOK, Announcements
      <4>3. QED BY <2>2, <4>1, <4>2
    <3>2. QED BY <3>1
  <2>5. Once(db'["paused"], j)
    BY <1>7, <2>3, PushOnce
  <2>6. \A e \in Elems(db'["paused"]) : e.id = j => e.on = h
    BY <1>2, <1>8, <2>3 DEF Absent
  <2>7. Waits(h, j)'
    BY <1>3, <1>6, <2>1 DEF Waits
  <2>8. \A g \in Hosts : ~Holds(g, j)'
    BY <1>3, <2>4 DEF Holds
  <2>9. Offered(j)'
    BY <2>5, <2>6, <2>7, <2>8 DEF Offered
  <2>10. QED BY <1>3, <1>4, <1>5, <2>9, ListsSingle
<1>11. QED BY <1>9, <1>10

-----------------------------------------------------------------------------
(* The steps that move the job.                                             *)

\* A handler takes a record out of the main list: nobody else has its job.
LEMMA ClaimSingle ==
    ASSUME IInv, NEW h \in Hosts, NEW j, Single(j), Claim(h), db["main"] # <<>>
    PROVE  Single(j)'
<1>0. /\ VarsOK /\ ListsOK /\ db \in DB /\ "main" \in Keys /\ pc[h] = "main" /\ db[h] = <<>>
      /\ h \in Keys /\ h # "main" /\ "paused" \in Keys \ {"main"}
  BY KeyFacts DEF IInv, ListsOK, HostOK, Empty, Claim
<1>1. PICK r : r = db["main"][1]
  OBVIOUS
<1>2. r \in Elems(db["main"])
  <2>1. db["main"] \in Seq(Items)
    BY <1>0, ListTypes
  <2>2. 1 \in 1..Len(db["main"])
    BY <2>1
  <2>3. QED BY <1>1, <2>2 DEF Elems
<1>3. /\ db' = Without("main", r) /\ pc'[h] = "push" /\ job'[h] = r /\ held' = held
      /\ Others(h)
  BY <1>0, <1>1 DEF Claim, Goto, Set, VarsOK, Others, look
<1>4. SameBut(db, db', Keys, "main") /\ Elems(db'["main"]) \subseteq Elems(db["main"])
  BY <1>0, <1>3, WithoutFact
<1>5. db'["paused"] = db["paused"] /\ \A g \in Hosts : db'[g] = db[g]
  BY <1>0, <1>4, KeyFacts DEF SameBut
<1>6. Once(db["main"], j)
  BY DEF Single, Sole
<1>7. Once(db'["main"], j) /\ (r.id = j => Absent(db'["main"], j))
  BY <1>0, <1>2, <1>3, <1>6, WithoutOnce
<1>8. Keeps(h, j)
  BY <1>3, <1>5 DEF Keeps
<1>9. Knows(h, j)' /\ ~Waits(h, j) /\ PausedCalm(j) /\ (Holds(h, j)' => Holds(h, j) /\ held'[h] = held[h])
  <2>1. ~Waits(h, j) /\ pc'[h] \notin Knowing
    BY <1>0, <1>3 DEF Waits, Knowing
  <2>2. PausedCalm(j)
    BY <1>5 DEF PausedCalm, Single, Offered
  <2>3. Holds(h, j)' => Holds(h, j) /\ held'[h] = held[h]
    BY <1>3 DEF Holds
  <2>4. QED BY <2>1, <2>2, <2>3, KnowsLittle
<1>10. Offered(j)'
  BY <1>8, <1>9, OfferedStep DEF Single
<1>11. Has(h, j)' => r.id = j
  <2>1. Elems(db'[h]) = {}
    BY <1>0, <1>5 DEF Elems
  <2>2. QED BY <1>3, <2>1 DEF Has
<1>12. Sole(j)'
  <2>1. CASE r.id # j
    <3>1. MainCalm(j)
      BY <1>4, <1>7 DEF MainCalm, Absent
    <3>2. QED BY <1>8, <1>11, <2>1, <3>1, SoleStep DEF Single
  <2>2. CASE r.id = j
    <3>1. \A g \in Hosts : ~Has(g, j)
      BY <1>2, <2>2 DEF Single, Sole, Absent
    <3>2. \A g \in Hosts : Has(g, j)' => g = h
      BY <1>8, <3>1, OthersKeep
    <3>3. QED BY <1>7, <2>2, <3>2 DEF Sole
  <2>3. QED BY <2>1, <2>2
<1>13. QED BY <1>8, <1>9, <1>10, <1>12, SingleStep

\* A job that goes back to the main list was in the hand of its only host.
LEMMA ReturnSingle ==
    ASSUME IInv, NEW h \in Hosts, NEW j, Single(j), ReturnToMainQueue(h)
    PROVE  Single(j)'
<1>0. /\ VarsOK /\ ListsOK /\ db \in DB /\ "main" \in Keys /\ pc[h] = "returning" /\ db[h] = <<>>
      /\ h \in Keys /\ h # "main" /\ "paused" \in Keys \ {"main"} /\ Right(job[h])
  BY KeyFacts DEF IInv, ListsOK, HostOK, Empty, Carrying, ReturnToMainQueue
<1>1. PICK r : r = Record(job[h].id, "queued")
  OBVIOUS
<1>2. r \in Items /\ r.id = job[h].id
  BY <1>0, <1>1 DEF Right, Records, Record, Items
<1>3. db' = LPush(db, "main", r) /\ pc'[h] = "returned" /\ held' = held /\ Others(h)
  BY <1>0, <1>1 DEF ReturnToMainQueue, Goto, VarsOK, Others, look
<1>4. /\ db["main"] \in Seq(Items) /\ db'["main"] = <<r>> \o db["main"]
      /\ SameBut(db, db', Keys, "main")
  BY <1>0, <1>2, <1>3, ListTypes, LPushFact DEF DB
<1>5. db'["paused"] = db["paused"] /\ \A g \in Hosts : db'[g] = db[g]
  BY <1>0, <1>4, KeyFacts DEF SameBut
<1>6. Once(db["main"], j)
  BY DEF Single, Sole
<1>7. Keeps(h, j)
  BY <1>3, <1>5 DEF Keeps
<1>8. Knows(h, j)' /\ ~Waits(h, j) /\ PausedCalm(j) /\ (Holds(h, j)' => Holds(h, j) /\ held'[h] = held[h])
  <2>1. ~Waits(h, j) /\ pc'[h] \notin Knowing
    BY <1>0, <1>3 DEF Waits, Knowing
  <2>2. PausedCalm(j)
    BY <1>5 DEF PausedCalm, Single, Offered
  <2>3. Holds(h, j)' => Holds(h, j) /\ held'[h] = held[h]
    BY <1>3 DEF Holds
  <2>4. QED BY <2>1, <2>2, <2>3, KnowsLittle
<1>9. Offered(j)'
  BY <1>7, <1>8, OfferedStep DEF Single
<1>10. ~Has(h, j)'
  <2>1. Elems(db'[h]) = {}
    BY <1>0, <1>5 DEF Elems
  <2>2. QED BY <1>3, <2>1 DEF Has, Carrying
<1>11. Elems(db'["main"]) = Elems(db["main"]) \cup {r}
  BY <1>2, <1>4, PushElems
<1>12. Sole(j)'
  <2>1. CASE r.id # j
    <3>1. Once(db'["main"], j)
      BY <1>2, <1>4, <1>6, <2>1, PushOnce
    <3>2. MainCalm(j)
      BY <1>11, <2>1, <3>1 DEF MainCalm, Absent
    <3>3. QED BY <1>7, <1>10, <3>2, SoleStep DEF Single
  <2>2. CASE r.id = j
    <3>1. Has(h, j)
      BY <1>0, <1>2, <2>2 DEF Has, Carrying
    <3>2. Absent(db["main"], j) /\ \A g \in Hosts \ {h} : ~Has(g, j)
      BY <3>1 DEF Single, Sole
    <3>3. Once(db'["main"], j)
      BY <1>2, <1>4, <1>6, <3>2, PushOnce
    <3>4. \A g \in Hosts : ~Has(g, j)'
      BY <1>7, <1>10, <3>2, OthersKeep
    <3>5. QED BY <3>3, <3>4 DEF Sole
  <2>3. QED BY <2>1, <2>2
<1>13. QED BY <1>7, <1>8, <1>9, <1>12, SingleStep

\* A takeover of the record that the taker has read moves the job, and leaves
\* no announcement of it.
LEMMA TakeOverSingle ==
    ASSUME IInv, NEW h \in Hosts, NEW j, Single(j), TakeOver(h)
    PROVE  Single(j)'
<1>0. /\ VarsOK /\ ListsOK /\ db \in DB /\ pc[h] = "found" /\ db[h] = <<>>
      /\ h \in Keys /\ held[h] \in Announcements /\ read[h] # None
  BY KeyFacts DEF IInv, ListsOK, HostOK, Empty, TakeOver
<1>1. PICK r : r = read[h]
  OBVIOUS
<1>2. PICK k \in Hosts : k = held[h].on
  BY <1>0 DEF Announcements
<1>3. k \in Keys /\ "main" \in Keys \ {k} /\ "paused" \in Keys \ {k}
  BY KeyFacts
<1>4. /\ db' = Without(k, r) /\ pc'[h] = "push" /\ job'[h] = r /\ held'[h] = None /\ Others(h)
  BY <1>0, <1>1, <1>2 DEF TakeOver, Goto, Set, Forget, VarsOK, Others
<1>5. /\ SameBut(db, db', Keys, k) /\ Elems(db'[k]) \subseteq Elems(db[k])
      /\ Elems(db[k]) \ {r} \subseteq Elems(db'[k])
  BY <1>0, <1>3, <1>4, WithoutFact
<1>6. /\ db'["main"] = db["main"] /\ db'["paused"] = db["paused"]
      /\ \A g \in Hosts \ {k} : db'[g] = db[g]
  BY <1>3, <1>5, KeyFacts DEF SameBut
<1>7. Knows(h, j)' /\ ~Waits(h, j) /\ ~Holds(h, j)' /\ Elems(db[h]) = {}
  <2>1. ~Waits(h, j) /\ pc'[h] \notin Knowing /\ ~Holds(h, j)' /\ Elems(db[h]) = {}
    BY <1>0, <1>4 DEF Waits, Knowing, Holds, Elems
  <2>2. QED BY <2>1, KnowsLittle
<1>8. Elems(db'[h]) = {}
  BY <1>5, <1>6, <1>7
<1>9. CASE r.id # j
  <2>1. Keeps(h, j)
    <3>1. ASSUME NEW g \in Hosts \ {h}
          PROVE  /\ Elems(db'[g]) \subseteq Elems(db[g])
                 /\ \A e \in Elems(db[g]) : e.id = j => e \in Elems(db'[g])
      <4>1. CASE g = k
        BY <1>5, <1>9, <4>1
      <4>2. CASE g # k
        BY <1>6, <4>2
      <4>3. QED BY <4>1, <4>2
    <3>2. QED BY <1>4, <3>1 DEF Keeps
  <2>2. MainCalm(j) /\ PausedCalm(j)
    BY <1>6 DEF MainCalm, PausedCalm, Single, Sole, Offered
  <2>3. ~Has(h, j)'
    BY <1>4, <1>8, <1>9 DEF Has
  <2>4. Sole(j)' /\ Offered(j)'
    BY <1>7, <2>1, <2>2, <2>3, SoleStep, OfferedStep DEF Single
  <2>5. QED BY <1>7, <2>1, <2>4, SingleStep
<1>10. CASE r.id = j
  <2>1. Holds(h, j) /\ r = Record(j, "paused")
    <3>1. Knows(h, j)
      BY DEF Single
    <3>2. Holds(h, j)
      BY <1>0, <1>1, <1>10, <3>1 DEF Knows
    <3>3. QED BY <1>0, <1>1, <3>1, <3>2 DEF Knows
  <2>2. Waits(k, j) /\ Absent(db["paused"], j) /\ \A g \in Hosts \ {h} : ~Holds(g, j)
    BY <1>2, <2>1 DEF Single, Offered
  <2>3. Elems(db[k]) = {r} /\ Has(k, j) /\ k # h
    <3>1. Elems(db[k]) = {r}
      BY <2>1, <2>2 DEF Waits
    <3>2. QED BY <1>7, <1>10, <3>1 DEF Has
  <2>4. \A g \in Hosts \ {k} : ~Has(g, j)
    BY <2>3 DEF Single, Sole
  <2>5. Absent(db["main"], j)
    BY <2>3 DEF Single, Sole
  <2>6. Absent(db'[k], j)
    <3>1. Once(db[k], j)
      <4>1. Len(db[k]) <= 1 /\ Len(db[k]) \in Nat
        BY <1>0, <1>3, ListTypes DEF IInv, HostOK
      <4>2. QED BY <4>1 DEF Once
    <3>2. r \in Elems(db[k])
      BY <2>3
    <3>3. QED BY <1>0, <1>3, <1>4, <1>10, <3>1, <3>2, WithoutOnce
  <2>7. ASSUME NEW g \in Hosts \ {h} PROVE ~Has(g, j)' /\ ~Holds(g, j)' /\ Knows(g, j)'
    <3>1. pc'[g] = pc[g] /\ job'[g] = job[g] /\ held'[g] = held[g] /\ read'[g] = read[g]
      BY <1>4 DEF Others
    <3>2. ~Holds(g, j)'
      BY <2>2, <3>1 DEF Holds
    <3>3. CASE g = k
      <4>1. pc'[g] \notin Carrying /\ pc'[g] \notin Knowing
        BY <2>2, <3>1, <3>3 DEF Waits, Carrying, Knowing
      <4>2. ~Has(g, j)'
        BY <2>6, <3>3, <4>1 DEF Has, Absent
      <4>3. QED BY <3>2, <4>1, <4>2, KnowsLittle
    <3>4. CASE g # k
      <4>1. db'[g] = db[g]
        BY <1>6, <3>4
      <4>2. ~Has(g, j)'
        BY <2>4, <3>1, <3>4, <4>1 DEF Has
      <4>3. Knows(g, j)'
        <5>1. Knows(g, j)
          BY DEF Single
        <5>2. QED BY <3>1, <4>1, <5>1 DEF Knows, Holds
      <4>4. QED BY <3>2, <4>2, <4>3
    <3>5. QED BY <3>3, <3>4
  <2>8. Sole(j)'
    <3>1. \A g \in Hosts : Has(g, j)' => g = h
      BY <2>7
    <3>2. Once(db'["main"], j) /\ Absent(db'["main"], j)
      BY <1>6, <2>5 DEF Single, Sole
    <3>3. QED BY <3>1, <3>2 DEF Sole
  <2>9. Offered(j)'
    <3>1. \A g \in Hosts : ~Holds(g, j)'
      BY <1>7, <2>7
    <3>2. Once(db'["paused"], j) /\ Absent(db'["paused"], j)
      BY <1>6, <2>2 DEF Single, Offered
    <3>3. QED BY <3>1, <3>2 DEF Offered, Absent
  <2>10. QED BY <1>7, <2>7, <2>8, <2>9 DEF Single
<1>11. QED BY <1>9, <1>10

-----------------------------------------------------------------------------
(* The other steps.                                                         *)

LEMMA LittleSingle ==
    ASSUME IInv, NEW h \in Hosts, NEW j, Single(j),
           \/ db' = db
           \/ \E e : db' = Without("paused", e)
           \/ \E i : db' = DeleteFromQueue("paused", i),
           Others(h), pc'[h] \notin Carrying \cup Knowing, held'[h] \in {held[h], None},
           Waits(h, j) => pc'[h] \in {"idle", "waiting", "withdrawing", "failing"}
    PROVE  Single(j)'
<1>1. Knows(h, j)' /\ pc'[h] \notin Carrying
  BY KnowsLittle
<1>2. QED BY <1>1, QuietSingle

LEMMA LookSingle ==
    ASSUME IInv, NEW h \in Hosts, NEW j, Single(j), j \notin changed', Look(h)
    PROVE  Single(j)'
<1> USE DEF Goto, Set
<1>0. VarsOK /\ ListsOK /\ HostOK(h) /\ db \in DB
  BY DEF IInv, ListsOK
<1>1. CASE BeginRun(h)
  <2>1. db' = db /\ Others(h) /\ held' = held /\ pc'[h] \notin Carrying
    BY <1>0, <1>1 DEF BeginRun, look, VarsOK, Others, Carrying
  <2>2. ~Waits(h, j)
    BY <1>1, WaitsIsPaused DEF BeginRun, Waits
  <2>3. Knows(h, j)'
    <3>1. CASE db[h] # <<>>
      <4>1. pc'[h] = "claimed" /\ job'[h] = db[h][1]
        BY <1>0, <1>1, <3>1 DEF BeginRun, VarsOK
      <4>2. db[h][1] \in Elems(db'[h])
        BY <2>1, <3>1, OwnElem
      <4>3. QED BY <4>1, <4>2 DEF Knows
    <3>2. CASE db[h] = <<>>
      <4>1. pc'[h] \notin Knowing
        BY <1>0, <1>1, <3>2 DEF BeginRun, VarsOK, Knowing
      <4>2. QED BY <4>1, KnowsLittle
    <3>3. QED BY <3>1, <3>2
  <2>4. QED BY <2>1, <2>2, <2>3, QuietSingle
<1>2. CASE ReadLength(h) \/ ReadNone(h) \/ ReadAnnouncement(h)
  <2>1. db' = db /\ Others(h) /\ held'[h] \in {held[h], None}
    BY <1>0, <1>2 DEF ReadLength, ReadNone, ReadAnnouncement, VarsOK, Others
  <2>2. pc'[h] \notin Carrying \cup Knowing /\ ~Waits(h, j)
    BY <1>0, <1>2 DEF ReadLength, ReadNone, ReadAnnouncement, VarsOK, Carrying, Knowing, Waits
  <2>3. QED BY <2>1, <2>2, LittleSingle
<1>3. CASE TakeAnnouncement(h)
  BY <1>3, TakeAnnouncementSingle
<1>4. CASE SkipAnnouncement(h) \/ DropOrphan(h) \/ RunsElsewhere(h)
  <2>1. Others(h) /\ held'[h] \in {held[h], None}
    BY <1>0, <1>4 DEF SkipAnnouncement, DropOrphan, RunsElsewhere, NextRound, look, VarsOK, Others
  <2>2. pc'[h] \notin Carrying \cup Knowing /\ ~Waits(h, j)
    BY <1>0, <1>4 DEF SkipAnnouncement, DropOrphan, RunsElsewhere, NextRound, VarsOK,
       Carrying, Knowing, Waits
  <2>3. db' = db \/ \E e : db' = Without("paused", e)
    BY <1>4 DEF SkipAnnouncement, DropOrphan, RunsElsewhere
  <2>4. QED BY <2>1, <2>2, <2>3, LittleSingle
<1>5. CASE FindPaused(h)
  <2>1. PICK a \in Announcements : a = held[h]
    BY <1>0, <1>5 DEF FindPaused, HostOK
  <2>2. /\ db' = db /\ Others(h) /\ held' = held /\ pc'[h] = "found"
        /\ read'[h] = Find(a.on, a.id)
    BY <1>0, <1>5, <2>1 DEF FindPaused, VarsOK, Others
  <2>3. pc'[h] \notin Carrying /\ ~Waits(h, j)
    BY <1>5, <2>2 DEF FindPaused, Carrying, Waits
  <2>4. a.on \in Keys /\ a.on \in Hosts /\ a # None
    <3>1. a.on \in Hosts
      BY DEF Announcements
    <3>2. held[h] # None
      BY <2>1, PausedAssumption
    <3>3. QED BY <2>1, <3>1, <3>2, KeyFacts
  <2>5. PICK r : r = Find(a.on, a.id)
    OBVIOUS
  <2>6. r # None => r \in Elems(db[a.on]) /\ r.id = a.id
    BY <1>0, <2>4, <2>5, FindFact
  <2>7. a.id = j => Elems(db[a.on]) = {Record(j, "paused")}
    BY <2>1, <2>4 DEF Single, Offered, Holds, Waits
  <2>8. Knows(h, j)'
    BY <2>1, <2>2, <2>4, <2>5, <2>6, <2>7 DEF Knows, Holds
  <2>9. QED BY <2>2, <2>3, <2>8, QuietSingle
<1>6. CASE TakeOver(h)
  BY <1>6, TakeOverSingle
<1>7. CASE Release(h) \/ RunDeferred(h)
  BY <1>7, GiveBackSingle
<1>8. QED
  BY <1>1, <1>2, <1>3, <1>4, <1>5, <1>6, <1>7 DEF Look

\* What UpdateJobInDB leaves in the list.
LEMMA UpdateFact ==
    ASSUME IInv, NEW h \in Hosts, pc[h] \in Owning, db[h] # <<>>,
           NEW action \in {"queued", "preparing", "paused", "in_progress"},
           db' = UpdateJobInDB(h, action)
    PROVE  /\ SameBut(db, db', Keys, h)
           /\ Elems(db'[h]) = {[job[h] EXCEPT !.action = action]}
           /\ db[h][1].id = job[h].id /\ job[h] \in Records
<1>0. /\ ListsOK /\ HostOK(h) /\ h \in Keys /\ Right(job[h])
  BY KeyFacts DEF IInv, HostOK
<1>1. db[h][1].id = job[h].id
  BY <1>0, OwnElem DEF HostOK
<1>2. PICK r : r = [job[h] EXCEPT !.action = action]
  OBVIOUS
<1>3. db' = LSet(db, h, 1, r)
  BY <1>1, <1>2 DEF UpdateJobInDB
<1>4. r \in Items
  BY <1>0, <1>2 DEF Right, Records, Items
<1>5. SameBut(db, db', Keys, h) /\ Elems(db'[h]) = {r}
  BY <1>0, <1>3, <1>4, SetFact DEF ListsOK, HostOK
<1>6. QED BY <1>0, <1>1, <1>2, <1>5 DEF Right

LEMMA UpdateSingle ==
    ASSUME IInv, NEW h \in Hosts, NEW j, Single(j), pc[h] \in Owning, pc'[h] \notin Carrying,
           NEW action \in {"queued", "preparing", "paused", "in_progress"},
           db' = UpdateJobInDB(h, action),
           Others(h), UNCHANGED <<job, look>>, ~Waits(h, j), Knows(h, j)'
    PROVE  Single(j)'
<1>1. held' = held
  BY DEF look
<1>2. CASE db[h] = <<>>
  <2>1. db' = db
    BY <1>2 DEF UpdateJobInDB
  <2>2. QED BY <1>1, <2>1, QuietSingle
<1>3. CASE db[h] # <<>>
  <2>1. /\ SameBut(db, db', Keys, h) /\ db[h][1].id = job[h].id
        /\ \A e \in Elems(db'[h]) : e.id = job[h].id
    <3>1. PICK r : r = [job[h] EXCEPT !.action = action]
      OBVIOUS
    <3>2. SameBut(db, db', Keys, h) /\ Elems(db'[h]) = {r} /\ db[h][1].id = job[h].id
          /\ job[h] \in Records
      BY <1>3, <3>1, UpdateFact
    <3>3. r.id = job[h].id
      BY <3>1, <3>2 DEF Records
    <3>4. QED BY <3>2, <3>3
  <2>2. Has(h, j)' => Has(h, j)
    <3>1. db[h][1] \in Elems(db[h])
      BY <1>3, OwnElem
    <3>2. Has(h, j)' => job[h].id = j
      BY <2>1 DEF Has
    <3>3. QED BY <2>1, <3>1, <3>2 DEF Has
  <2>3. QED BY <1>1, <2>1, <2>2, OwnSingle
<1>4. QED BY <1>2, <1>3

\* A handler that has a job in its list and is about to prepare or to pause
\* it: what it knows of the record.
LEMMA KnownRecord ==
    ASSUME IInv, NEW h \in Hosts, NEW j, Knows(h, j), pc[h] \in {"claimed", "prepared"},
           job[h].id = j
    PROVE  db[h] # <<>> /\ (job[h].over => db[h][1].over)
<1>1. PICK e \in Elems(db[h]) : job[h].over => e.over
  BY DEF Knows
<1>2. db[h] # <<>>
  BY <1>1 DEF Elems
<1>3. e = db[h][1]
  BY <1>1, <1>2, OwnElem
<1>4. QED BY <1>1, <1>2, <1>3

LEMMA PrepareSingle ==
    ASSUME IInv, NEW h \in Hosts, NEW j, Single(j), Prepare(h)
    PROVE  Single(j)'
<1> USE DEF Goto
<1>0. /\ VarsOK /\ pc[h] = "claimed" /\ pc[h] \in Owning /\ ~Waits(h, j) /\ UNCHANGED look
      /\ held' = held
  BY DEF IInv, Prepare, Owning, Waits, look
<1>1. Others(h)
  BY <1>0 DEF Prepare, GiveUp, Return, Set, VarsOK, Others, look
<1>2. CASE UNCHANGED db /\ \E l \in {"cleanup", "failing", "idle"} : pc' = [pc EXCEPT ![h] = l]
  <2>1. pc'[h] \notin Carrying \cup Knowing
    BY <1>0, <1>2 DEF VarsOK, Carrying, Knowing
  <2>2. QED BY <1>0, <1>1, <1>2, <2>1, LittleSingle
<1>3. CASE Goto(h, "prepared") /\ db' = UpdateJobInDB(h, "preparing") /\ UNCHANGED job
  <2>1. pc'[h] = "prepared" /\ job' = job
    BY <1>0, <1>3 DEF VarsOK
  <2>2. ASSUME job[h].id = j PROVE \E e \in Elems(db'[h]) : e.id = j /\ (job[h].over => e.over)
    <3>1. db[h] # <<>>
      BY <1>0, <2>2, KnownRecord DEF Single
    <3>2. PICK r : r = [job[h] EXCEPT !.action = "preparing"]
      OBVIOUS
    <3>3. Elems(db'[h]) = {r} /\ job[h] \in Records
      BY <1>0, <1>3, <3>1, <3>2, UpdateFact
    <3>4. r.id = job[h].id /\ r.over = job[h].over
      BY <3>2, <3>3 DEF Records
    <3>5. QED BY <2>2, <3>3, <3>4
  <2>3. Knows(h, j)'
    BY <2>1, <2>2 DEF Knows
  <2>4. pc'[h] \notin Carrying
    BY <2>1 DEF Carrying
  <2>5. QED BY <1>0, <1>1, <1>3, <2>3, <2>4, UpdateSingle
<1>4. QED BY <1>2, <1>3 DEF Prepare, GiveUp, Return

LEMMA PauseSingle ==
    ASSUME IInv, NEW h \in Hosts, NEW j, Single(j), Pause(h)
    PROVE  Single(j)'
<1> USE DEF Goto
<1>0. /\ VarsOK /\ pc[h] = "prepared" /\ pc[h] \in Owning /\ ~Waits(h, j) /\ UNCHANGED <<job, look>>
      /\ held' = held
  BY DEF IInv, Pause, Owning, Waits, look
<1>1. Others(h)
  BY <1>0 DEF Pause, VarsOK, Others, look
<1>2. CASE Completed(h)
  <2>1. db' = db /\ pc'[h] \notin Carrying \cup Knowing
    BY <1>0, <1>2 DEF Pause, VarsOK, Carrying, Knowing
  <2>2. QED BY <1>0, <1>1, <2>1, LittleSingle
<1>3. CASE ~Completed(h)
  <2>1. pc'[h] = "pausing" /\ job' = job /\ db' = UpdateJobInDB(h, "paused")
    BY <1>0, <1>3 DEF Pause, VarsOK
  <2>2. ASSUME job[h].id = j PROVE Elems(db'[h]) = {Record(j, "paused")}
    <3>1. db[h] # <<>> /\ (job[h].over => db[h][1].over)
      BY <1>0, <2>2, KnownRecord DEF Single
    <3>2. ~job[h].over
      BY <1>3, <3>1 DEF Completed
    <3>3. PICK r : r = [job[h] EXCEPT !.action = "paused"]
      OBVIOUS
    <3>4. Elems(db'[h]) = {r} /\ job[h] \in Records
      BY <1>0, <2>1, <3>1, <3>3, UpdateFact
    <3>5. job[h].over = FALSE
      BY <3>2, <3>4 DEF Records
    <3>6. r = Record(j, "paused")
      BY <2>2, <3>3, <3>4, <3>5 DEF Records, Record
    <3>7. QED BY <3>4, <3>6
  <2>3. Knows(h, j)'
    BY <2>1, <2>2 DEF Knows
  <2>4. pc'[h] \notin Carrying
    BY <2>1 DEF Carrying
  <2>5. QED BY <1>0, <1>1, <2>1, <2>3, <2>4, UpdateSingle
<1>4. QED BY <1>2, <1>3

LEMMA RegainSingle ==
    ASSUME IInv, NEW h \in Hosts, NEW j, Single(j), Regain(h)
    PROVE  Single(j)'
<1> USE DEF Goto
<1>0. /\ VarsOK /\ pc[h] \in Owning /\ ~Waits(h, j) /\ UNCHANGED <<job, look>>
      /\ held' = held /\ pc'[h] \notin Carrying \cup Knowing
  BY DEF IInv, Regain, Owning, Waits, look, VarsOK, Carrying, Knowing
<1>1. Others(h)
  BY <1>0 DEF Regain, VarsOK, Others, look
<1>2. CASE Completed(h)
  <2>1. db' = db
    BY <1>2 DEF Regain
  <2>2. QED BY <1>0, <1>1, <2>1, LittleSingle
<1>3. CASE ~Completed(h)
  <2>1. db' = UpdateJobInDB(h, "in_progress")
    BY <1>3 DEF Regain
  <2>2. Knows(h, j)' /\ pc'[h] \notin Carrying
    BY <1>0, KnowsLittle
  <2>3. QED BY <1>0, <1>1, <2>1, <2>2, UpdateSingle
<1>4. QED BY <1>2, <1>3

\* The job is over, which its record says.
LEMMA OverSingle ==
    ASSUME IInv, NEW h \in Hosts, NEW j, Single(j), db[h] # <<>>,
           db' = LSet(db, h, 1, [db[h][1] EXCEPT !.over = TRUE]),
           Others(h), pc'[h] \notin Carrying, held' = held, ~Waits(h, j),
           ASSUME NEW e, Elems(db[h]) = {e}, Elems(db'[h]) = {[e EXCEPT !.over = TRUE]}, e \in Records
           PROVE  Knows(h, j)'
    PROVE  Single(j)'
<1>0. ListsOK /\ HostOK(h) /\ h \in Keys
  BY KeyFacts DEF IInv
<1>1. PICK e : e = db[h][1]
  OBVIOUS
<1>2. Elems(db[h]) = {e} /\ e \in Records
  BY <1>1, OwnElem DEF Right
<1>3. PICK r : r = [e EXCEPT !.over = TRUE]
  OBVIOUS
<1>4. r \in Items /\ r.id = e.id
  BY <1>2, <1>3 DEF Records, Items
<1>5. db' = LSet(db, h, 1, r)
  BY <1>1, <1>3
<1>6. SameBut(db, db', Keys, h) /\ Elems(db'[h]) = {r}
  BY <1>0, <1>4, <1>5, SetFact DEF ListsOK, HostOK
<1>7. Has(h, j)' => Has(h, j)
  BY <1>2, <1>4, <1>6 DEF Has
<1>8. Knows(h, j)'
  BY <1>2, <1>3, <1>6
<1>9. QED BY <1>6, <1>7, <1>8, OwnSingle

LEMMA RunEndsSingle ==
    ASSUME IInv, NEW h \in Hosts, NEW j, Single(j), RunEnds(h)
    PROVE  Single(j)'
<1> USE DEF Goto
<1>0. /\ VarsOK /\ ~Waits(h, j) /\ held' = held /\ pc'[h] \notin Carrying \cup Knowing
  BY DEF IInv, RunEnds, Waits, look, VarsOK, Carrying, Knowing
<1>1. Others(h)
  BY <1>0 DEF RunEnds, VarsOK, Others, look
<1>2. CASE Find(h, job[h].id) = None
  <2>1. db' = db
    BY <1>2 DEF RunEnds
  <2>2. QED BY <1>0, <1>1, <2>1, LittleSingle
<1>3. CASE Find(h, job[h].id) # None
  <2>1. db[h] # <<>> /\ db' = LSet(db, h, 1, [db[h][1] EXCEPT !.over = TRUE])
    BY <1>3 DEF RunEnds, Find
  <2>2. Knows(h, j)' /\ pc'[h] \notin Carrying
    BY <1>0, KnowsLittle
  <2>3. QED BY <1>0, <1>1, <2>1, <2>2, OverSingle
<1>4. QED BY <1>2, <1>3

LEMMA JobCanceledSingle ==
    ASSUME IInv, NEW h \in Hosts, NEW j, Single(j), j \notin changed', JobCanceled(h)
    PROVE  Single(j)'
<1>0. /\ pc' = pc /\ job' = job /\ held' = held /\ read' = read
      /\ pc[h] \notin Carrying /\ pc[h] # "found"
      /\ db[h] # <<>> /\ db' = LSet(db, h, 1, [db[h][1] EXCEPT !.over = TRUE])
  BY DEF JobCanceled, look, Carrying
<1>1. Elems(db[h]) # {Record(j, "paused")}
  BY WaitsIsPaused DEF JobCanceled
<1>2. ~Waits(h, j) /\ Others(h)
  BY <1>0, <1>1 DEF Waits, Others
<1>3. ASSUME NEW e, Elems(db[h]) = {e}, Elems(db'[h]) = {[e EXCEPT !.over = TRUE]}, e \in Records
      PROVE  Knows(h, j)'
  <2>1. PICK r : r = [e EXCEPT !.over = TRUE]
    OBVIOUS
  <2>2. r.id = e.id /\ r.over /\ Elems(db'[h]) = {r}
    BY <1>3, <2>1 DEF Records
  <2>3. Knows(h, j)
    BY DEF Single
  <2>4. ~(pc[h] \in {"pausing", "announcing"} /\ job[h].id = j)
    BY <1>1, <2>3 DEF Knows
  <2>5. pc[h] \in {"claimed", "prepared"} /\ job[h].id = j => r.id = j
    BY <1>3, <2>2, <2>3 DEF Knows
  <2>6. pc[h] \in {"claimed", "prepared"} /\ job[h].id = j
        => \E x \in Elems(db'[h]) : x.id = j /\ (job[h].over => x.over)
    BY <2>2, <2>5
  <2>7. QED BY <1>0, <2>4, <2>6 DEF Knows
<1>4. QED BY <1>0, <1>2, <1>3, OverSingle

\* A host's own job goes into its list, out of it, or back into its hand.
LEMMA PushClaimSingle ==
    ASSUME IInv, NEW h \in Hosts, NEW j, Single(j), PushClaim(h)
    PROVE  Single(j)'
<1> USE DEF Goto
<1>0. /\ VarsOK /\ ListsOK /\ HostOK(h) /\ h \in Keys /\ ~Waits(h, j) /\ held' = held
      /\ job' = job /\ pc[h] = "push" /\ pc'[h] = "claimed"
  BY KeyFacts DEF IInv, PushClaim, Waits, look, VarsOK
<1>1. Others(h)
  BY <1>0 DEF PushClaim, VarsOK, Others, look
<1>2. PICK r : r = job[h]
  OBVIOUS
<1>3. r \in Items /\ db' = RPush(db, h, r) /\ db[h] = <<>>
  BY <1>0, <1>2 DEF PushClaim, HostOK, Empty, Carrying, Right, Items
<1>4. SameBut(db, db', Keys, h) /\ Elems(db'[h]) = Elems(db[h]) \cup {r}
  BY <1>0, <1>3, PushFact DEF ListsOK
<1>5. Elems(db'[h]) = {r}
  BY <1>3, <1>4 DEF Elems
<1>6. Has(h, j)' => Has(h, j)
  BY <1>0, <1>2, <1>5 DEF Has, Carrying
<1>7. Knows(h, j)'
  BY <1>0, <1>2, <1>5 DEF Knows
<1>8. QED BY <1>0, <1>1, <1>4, <1>6, <1>7, OwnSingle

LEMMA CleanCompletedSingle ==
    ASSUME IInv, NEW h \in Hosts, NEW j, Single(j), CleanCompleted(h)
    PROVE  Single(j)'
<1> USE DEF Goto, Set, Return
<1>0. /\ VarsOK /\ ListsOK /\ h \in Keys /\ ~Waits(h, j) /\ held' = held
      /\ pc'[h] \notin Carrying \cup Knowing /\ db' = Del(db, h)
  BY KeyFacts DEF IInv, CleanCompleted, Waits, look, VarsOK, Carrying, Knowing
<1>1. Others(h)
  BY <1>0 DEF CleanCompleted, VarsOK, Others, look
<1>2. SameBut(db, db', Keys, h) /\ Elems(db'[h]) = {}
  BY <1>0, DeletedFact DEF ListsOK
<1>3. ~Has(h, j)' /\ Knows(h, j)'
  <2>1. ~Has(h, j)'
    BY <1>0, <1>2 DEF Has
  <2>2. QED BY <1>0, <2>1, KnowsLittle
<1>4. QED BY <1>0, <1>1, <1>2, <1>3, OwnSingle

LEMMA TakeForReturnSingle ==
    ASSUME IInv, NEW h \in Hosts, NEW j, Single(j), j \notin changed', TakeForReturn(h)
    PROVE  Single(j)'
<1> USE DEF Goto, Set, Return
<1>0. VarsOK /\ ListsOK /\ h \in Keys /\ held' = held
  BY KeyFacts DEF IInv, TakeForReturn, look
<1>1. ~Waits(h, j)
  BY WaitsIsPaused DEF TakeForReturn, Waits
<1>2. Others(h)
  BY <1>0 DEF TakeForReturn, VarsOK, Others, look
<1>3. CASE db[h] = <<>> \/ Completed(h)
  <2>1. db' = db /\ pc'[h] \notin Carrying \cup Knowing
    BY <1>0, <1>3 DEF TakeForReturn, VarsOK, Carrying, Knowing
  <2>2. QED BY <1>0, <1>1, <1>2, <2>1, LittleSingle
<1>4. CASE db[h] # <<>> /\ ~Completed(h)
  <2>1. pc'[h] = "returning" /\ job'[h] = db[h][1] /\ db' = Del(db, h)
    BY <1>0, <1>4 DEF TakeForReturn, VarsOK
  <2>2. SameBut(db, db', Keys, h) /\ Elems(db'[h]) = {}
    BY <1>0, <2>1, DeletedFact DEF ListsOK
  <2>3. db[h][1] \in Elems(db[h])
    BY <1>4, OwnElem
  <2>4. Has(h, j)' => Has(h, j)
    BY <2>1, <2>2, <2>3 DEF Has
  <2>5. Knows(h, j)'
    BY <2>1, KnowsLittle DEF Knowing
  <2>6. QED BY <1>0, <1>1, <1>2, <2>2, <2>4, <2>5, OwnSingle
<1>5. QED BY <1>3, <1>4

\* The steps of a handler with a job, which leave the lists of jobs alone.
LEMMA WaitingSingle ==
    ASSUME IInv, NEW h \in Hosts, NEW j, Single(j), j \notin changed',
           \/ StartVM(h) \/ FindAnnouncement(h) \/ WaitIsOver(h) \/ TakenAway(h)
           \/ GetRoom(h) \/ Withdraw(h) \/ RunFails(h) \/ ForgetReturned(h) \/ NilStatus(h)
    PROVE  Single(j)'
<1> USE DEF Goto, Set, Return
<1>0. VarsOK /\ held' = held
  BY DEF IInv, StartVM, FindAnnouncement, WaitIsOver, TakenAway, GetRoom, Withdraw, RunFails,
     ForgetReturned, NilStatus, look
<1>1. Others(h)
  BY <1>0 DEF VarsOK, Others, StartVM, FindAnnouncement, WaitIsOver, TakenAway, GetRoom, Withdraw,
     RunFails, GiveUp, ForgetReturned, NilStatus, look
<1>2. db' = db \/ \E i : db' = DeleteFromQueue("paused", i)
  BY DEF StartVM, FindAnnouncement, WaitIsOver, TakenAway, GetRoom, Withdraw,
     RunFails, ForgetReturned, NilStatus, Unannounce
<1>3. CASE StartVM(h) \/ RunFails(h) \/ ForgetReturned(h) \/ NilStatus(h)
  <2>1. ~Waits(h, j) /\ pc'[h] \notin Carrying \cup Knowing
    BY <1>0, <1>3 DEF VarsOK, StartVM, RunFails, GiveUp, ForgetReturned, NilStatus, Waits,
       Carrying, Knowing
  <2>2. QED BY <1>0, <1>1, <1>2, <2>1, LittleSingle
<1>4. CASE FindAnnouncement(h)
  <2>1. /\ db' = db /\ pc'[h] \in {"announcing", "waiting"} /\ pc[h] = "pausing" /\ job' = job
    BY <1>0, <1>4 DEF VarsOK, FindAnnouncement
  <2>2. ~Waits(h, j) /\ pc'[h] \notin Carrying
    BY <2>1 DEF Waits, Carrying
  <2>3. Knows(h, j)'
    <3>1. Knows(h, j)
      BY DEF Single
    <3>2. QED BY <2>1, <3>1 DEF Knows
  <2>4. QED BY <1>0, <1>1, <1>2, <2>2, <2>3, QuietSingle
<1>5. CASE WaitIsOver(h)
  <2>1. pc'[h] \notin Carrying \cup Knowing
    BY <1>0, <1>5 DEF VarsOK, WaitIsOver, Carrying, Knowing
  <2>2. ~Waits(h, j)
    <3>1. db[h][1] \in Elems(db[h]) /\ db[h][1].over
      BY <1>5, OwnElem DEF WaitIsOver, Completed
    <3>2. ~Record(j, "paused").over
      BY DEF Record
    <3>3. QED BY <3>1, <3>2 DEF Waits
  <2>3. QED BY <1>0, <1>1, <1>2, <2>1, <2>2, LittleSingle
<1>6. CASE TakenAway(h) \/ GetRoom(h)
  <2>1. pc'[h] \in {"idle", "withdrawing"}
    BY <1>0, <1>6 DEF VarsOK, TakenAway, GetRoom
  <2>2. pc'[h] \notin Carrying \cup Knowing
    BY <2>1 DEF Carrying, Knowing
  <2>3. QED BY <1>0, <1>1, <1>2, <2>1, <2>2, LittleSingle
<1>7. CASE Withdraw(h)
  <2>1. pc'[h] \notin Carrying \cup Knowing
    BY <1>0, <1>7 DEF VarsOK, Withdraw, Carrying, Knowing
  <2>2. ~Waits(h, j)
    BY <1>7, WaitsIsPaused DEF Withdraw, Waits
  <2>3. QED BY <1>0, <1>1, <1>2, <2>1, <2>2, LittleSingle
<1>8. QED BY <1>3, <1>4, <1>5, <1>6, <1>7

LEMMA RunJobSingle ==
    ASSUME IInv, NEW h \in Hosts, NEW j, Single(j), j \notin changed', RunJob(h) \/ GetRoom(h) \/ NilStatus(h)
    PROVE  Single(j)'
<1>1. CASE Claim(h)
  <2>1. CASE db["main"] # <<>>
    BY <1>1, <2>1, ClaimSingle
  <2>2. CASE db["main"] = <<>>
    <3>1. VarsOK
      BY DEF IInv
    <3>2. db' = db /\ Others(h) /\ held' = held
      BY <1>1, <2>2, <3>1 DEF Claim, Return, Goto, Set, VarsOK, Others, look
    <3>3. pc'[h] \notin Carrying \cup Knowing /\ ~Waits(h, j)
      BY <1>1, <2>2, <3>1 DEF Claim, Return, Goto, VarsOK, Carrying, Knowing, Waits
    <3>4. QED BY <3>2, <3>3, LittleSingle
  <2>3. QED BY <2>1, <2>2
<1>2. CASE PushClaim(h)
  BY <1>2, PushClaimSingle
<1>3. CASE Prepare(h)
  BY <1>3, PrepareSingle
<1>4. CASE Pause(h)
  BY <1>4, PauseSingle
<1>5. CASE Announce(h)
  BY <1>5, AnnounceSingle
<1>6. CASE Regain(h)
  BY <1>6, RegainSingle
<1>7. CASE RunEnds(h)
  BY <1>7, RunEndsSingle
<1>8. CASE CleanCompleted(h)
  BY <1>8, CleanCompletedSingle
<1>9. CASE TakeForReturn(h)
  BY <1>9, TakeForReturnSingle
<1>10. CASE ReturnToMainQueue(h)
  BY <1>10, ReturnSingle
<1>11. CASE \/ StartVM(h) \/ FindAnnouncement(h) \/ WaitIsOver(h) \/ TakenAway(h)
            \/ GetRoom(h) \/ Withdraw(h) \/ RunFails(h) \/ ForgetReturned(h) \/ NilStatus(h)
  BY <1>11, WaitingSingle
<1>12. QED
  BY <1>1, <1>2, <1>3, <1>4, <1>5, <1>6, <1>7, <1>8, <1>9, <1>10, <1>11 DEF RunJob

LEMMA DisturbSingle ==
    ASSUME IInv, NEW h \in Hosts, NEW j, Single(j), j \notin changed',
           JobCanceled(h) \/ Stop(h) \/ Crash(h)
    PROVE  Single(j)'
<1> USE DEF Goto, Set, Return
<1>0. VarsOK
  BY DEF IInv
<1>1. CASE JobCanceled(h)
  BY <1>1, JobCanceledSingle
<1>2. CASE Stop(h)
  <2>1. db' = db /\ Others(h) /\ held'[h] = None
    BY <1>0, <1>2 DEF Stop, CutOff, Forget, GiveUp, VarsOK, Others
  <2>2. pc'[h] \in {"idle", "failing"}
    BY <1>0, <1>2 DEF Stop, GiveUp, VarsOK
  <2>3. pc'[h] \notin Carrying \cup Knowing
    BY <2>2 DEF Carrying, Knowing
  <2>4. QED BY <2>1, <2>2, <2>3, LittleSingle
<1>3. CASE Crash(h)
  <2>1. db' = db /\ Others(h) /\ held'[h] = None /\ pc'[h] = "idle"
    BY <1>0, <1>3 DEF Crash, CutOff, Forget, VarsOK, Others
  <2>2. pc'[h] \notin Carrying \cup Knowing
    BY <2>1 DEF Carrying, Knowing
  <2>3. QED BY <2>1, <2>2, LittleSingle
<1>4. QED BY <1>1, <1>2, <1>3

-----------------------------------------------------------------------------
(* The theorem.                                                             *)

LEMMA SInvStep == IInv /\ SInv /\ [Next]_vars => SInv'
<1> SUFFICES ASSUME IInv, SInv, [Next]_vars, NEW j \in Jobs, j \notin changed'
             PROVE  Single(j)'
  BY DEF SInv
<1>1. Single(j)
  BY ChangedGrows DEF SInv
<1>2. CASE UNCHANGED vars
  BY <1>1, <1>2 DEF vars, look, Single, Sole, Offered, Knows, Has, Holds, Waits
<1>3. ASSUME NEW h \in Hosts, Look(h) PROVE Single(j)'
  BY <1>1, <1>3, LookSingle
<1>4. ASSUME NEW h \in Hosts, RunJob(h) \/ GetRoom(h) \/ NilStatus(h) PROVE Single(j)'
  BY <1>1, <1>4, RunJobSingle
<1>5. ASSUME NEW h \in Hosts, JobCanceled(h) \/ Stop(h) \/ Crash(h) PROVE Single(j)'
  BY <1>1, <1>5, DisturbSingle
<1>6. QED BY <1>2, <1>3, <1>4, <1>5 DEF Next

\* At first the main list has every job once, as it is no longer than there
\* are jobs.
LEMMA InitSInv == Init => SInv
<1> SUFFICES ASSUME Init, NEW j \in Jobs PROVE Single(j)
  BY DEF SInv
<1>1. /\ Queue \in [1..Cardinality(Jobs) -> Jobs] /\ {Queue[i] : i \in DOMAIN Queue} = Jobs
      /\ db = [k \in Hosts \cup {"main", "paused"} |->
                 IF k = "main" THEN [i \in DOMAIN Queue |-> Record(Queue[i], "queued")]
                               ELSE <<>>]
  BY PausedAssumption DEF Init
<1> DEFINE n == Cardinality(Jobs)
           s == [i \in 1..n |-> Record(Queue[i], "queued")]
<1>2. db["main"] = s /\ db["paused"] = <<>> /\ \A h \in Hosts : db[h] = <<>>
  BY <1>1, KeyFacts
<1>3. n \in Nat /\ IsFiniteSet(1..n) /\ Cardinality(1..n) = n
  <2>1. n \in Nat
    BY PausedAssumption, FS_CardinalityType
  <2> HIDE DEF n
  <2>2. 1 \in Int /\ n \in Int
    BY <2>1
  <2>3. IsFiniteSet(1..n) /\ Cardinality(1..n) = IF 1 > n THEN 0 ELSE n - 1 + 1
    BY <2>2, FS_Interval
  <2>4. QED BY <2>1, <2>3
<1>4. \A i, k \in 1..n : Queue[i] = Queue[k] => i = k
  <2>1. Queue \in Surjection(1..n, Jobs)
    BY <1>1 DEF Surjection
  <2>2. Queue \in Injection(1..n, Jobs)
    BY <1>3, <2>1, FS_SurjSameCardinalityImpliesInj
  <2>3. QED BY <2>2 DEF Injection, IsInjective
<1>5. Len(s) = n /\ \A i \in 1..n : s[i].id = Queue[i]
  <2>1. s \in Seq({Record(Queue[i], "queued") : i \in 1..n})
    BY <1>3
  <2>2. QED BY <1>3, <2>1 DEF Record
<1>6. Once(db["main"], j)
  <2> HIDE DEF s, n
  <2>1. Once(s, j)
    BY <1>4, <1>5 DEF Once
  <2>2. QED BY <1>2, <2>1
<1>7. Elems(<<>>) = {} /\ Len(<<>>) = 0
  BY DEF Elems
<1>8. \A h \in Hosts : pc[h] = "idle" /\ held[h] = None /\ Elems(db[h]) = {}
  BY <1>2, <1>7 DEF Init
<1>9. \A h \in Hosts : ~Has(h, j) /\ ~Holds(h, j)
  BY <1>8 DEF Has, Holds, Carrying
<1>10. Sole(j)
  BY <1>6, <1>9 DEF Sole
<1>11. Once(db["paused"], j) /\ Elems(db["paused"]) = {}
  BY <1>2, <1>7 DEF Once
<1>12. Offered(j)
  BY <1>9, <1>11 DEF Offered
<1>13. \A h \in Hosts : Knows(h, j)
  BY <1>8 DEF Knows
<1>14. QED BY <1>10, <1>12, <1>13 DEF Single

\* A set with no two elements.
LEMMA AtMostOne ==
    ASSUME NEW S, \A x, y \in S : x = y
    PROVE  Cardinality(S) \in {0, 1} /\ (S = {} => Cardinality(S) = 0)
<1>1. CASE S = {}
  BY <1>1, FS_EmptySet
<1>2. CASE S # {}
  <2>1. PICK x \in S : TRUE
    BY <1>2
  <2>2. S = {x}
    BY <2>1
  <2>3. QED BY <1>2, <2>2, FS_Singleton
<1>3. QED BY <1>1, <1>2

LEMMA OnePlace ==
    ASSUME IInv, NEW j, Single(j)
    PROVE  Places(j) <= 1
<1>1. ASSUME NEW h \in InHand(j) PROVE h \in Hosts /\ Has(h, j) /\ h \notin Listed(j)
  <2>1. h \in Hosts /\ pc[h] \in Carrying /\ job[h].id = j
    BY <1>1 DEF InHand, Carrying
  <2>2. db[h] = <<>>
    BY <2>1 DEF IInv, HostOK, Empty
  <2>3. Find(h, j) = None
    BY <2>2 DEF Find
  <2>4. QED BY <2>1, <2>3 DEF Has, Listed
<1>2. ASSUME NEW h \in Listed(j) PROVE h \in Hosts /\ Has(h, j)
  <2>1. h \in Hosts /\ h \in Keys /\ Find(h, j) # None /\ db \in DB
    BY <1>2, KeyFacts DEF Listed, IInv, ListsOK
  <2>2. PICK e : e = Find(h, j)
    OBVIOUS
  <2>3. e \in Elems(db[h]) /\ e.id = j
    BY <2>1, <2>2, FindFact
  <2>4. QED BY <2>1, <2>3 DEF Has
<1>3. DOMAIN db["main"] = 1..Len(db["main"])
  BY KeyFacts, ListTypes DEF IInv, ListsOK
<1>4. ASSUME NEW i \in AtMain(j) PROVE i \in 1..Len(db["main"]) /\ db["main"][i].id = j
  BY <1>3, <1>4 DEF AtMain
<1>5. \A g, h \in Hosts : Has(g, j) /\ Has(h, j) => g = h
  BY DEF Single, Sole
<1>6. \A x, y \in InHand(j) : x = y
  BY <1>1, <1>5
<1>7. \A x, y \in Listed(j) : x = y
  BY <1>2, <1>5
<1>8. \A x, y \in AtMain(j) : x = y
  BY <1>4 DEF Single, Sole, Once
<1>9. InHand(j) # {} => Listed(j) = {}
  BY <1>1, <1>2, <1>5
<1>10. InHand(j) # {} \/ Listed(j) # {} => AtMain(j) = {}
  <2>1. ASSUME NEW h \in Hosts, Has(h, j) PROVE AtMain(j) = {}
    <3>1. Absent(db["main"], j)
      BY <2>1 DEF Single, Sole
    <3>2. QED BY <1>4, <3>1 DEF Absent, Elems
  <2>2. QED BY <1>1, <1>2, <2>1
<1>11. /\ Cardinality(InHand(j)) \in {0, 1} /\ (InHand(j) = {} => Cardinality(InHand(j)) = 0)
  BY <1>6, AtMostOne
<1>12. /\ Cardinality(Listed(j)) \in {0, 1} /\ (Listed(j) = {} => Cardinality(Listed(j)) = 0)
  BY <1>7, AtMostOne
<1>13. /\ Cardinality(AtMain(j)) \in {0, 1} /\ (AtMain(j) = {} => Cardinality(AtMain(j)) = 0)
  BY <1>8, AtMostOne
<1>14. QED BY <1>9, <1>10, <1>11, <1>12, <1>13 DEF Places

\* A job is in one place only, for any number of hosts and jobs, any room and
\* any faults, as long as the host where it is paused does not touch its
\* record between another host's look and its LREM (github.go:1682), and no
\* run gives its announcement back more than once (github.go:1571).
THEOREM OnePlaceUnlessChanged == Spec => []OneUnlessChanged
<1>1. IInv /\ SInv => OneUnlessChanged
  BY OnePlace DEF SInv, OneUnlessChanged
<1>2. QED BY <1>1, InitSInv, SInvStep, AlwaysIInv, PTL DEF Spec
=============================================================================
