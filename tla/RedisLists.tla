----------------------------- MODULE RedisLists -----------------------------
(***************************************************************************)
(* The Redis list commands anklet issues, as operators on a database: a    *)
(* function from keys to sequences, where an absent key is the empty       *)
(* sequence.  Redis itself is external; each operator is what the wrapper  *)
(* of that name in internal/database/database.go asks of it.  Every        *)
(* command is atomic, as Redis runs one command at a time.  Index 0 of a   *)
(* Redis list, its head, is position 1 of the sequence.                    *)
(***************************************************************************)
EXTENDS Integers, Sequences

\* LPUSH: e becomes the head of key k.
LPush(db, k, e) == [db EXCEPT ![k] = <<e>> \o @]

\* RPUSH: e becomes the tail of key k.
RPush(db, k, e) == [db EXCEPT ![k] = Append(@, e)]

\* LREM with count 1 removes the element nearest the head that equals e and
\* answers how many it removed: 1 when there is such a position, else 0.
FirstAt(db, k, e, i) ==
    /\ i \in 1..Len(db[k])
    /\ db[k][i] = e
    /\ \A j \in 1..(i - 1) : db[k][j] # e
LRemAt(db, k, i) ==
    [db EXCEPT ![k] = SubSeq(@, 1, i - 1) \o SubSeq(@, i + 1, Len(@))]

\* RPOP: the tail of a non-empty key goes away.
RPop(db, k) == [db EXCEPT ![k] = SubSeq(@, 1, Len(@) - 1)]

\* RPOPLPUSH: the tail of src becomes the head of dst, in one command.
RPopLPush(db, src, dst) ==
    LPush(RPop(db, src), dst, db[src][Len(db[src])])

\* LSET at a position inside the list.
LSet(db, k, i, e) == [db EXCEPT ![k] = [@ EXCEPT ![i] = e]]

\* DEL: the key is absent afterwards, whatever it held.
Del(db, k) == [db EXCEPT ![k] = <<>>]
=============================================================================
