---------------------------- MODULE JobLifecycle ----------------------------
(***************************************************************************)
(* What the queues promise about one workflow job: it is queued once, at   *)
(* most one handler has it at a time, a handler gets it only from the      *)
(* queue and gives it back only to the queue, and once gone it never       *)
(* returns.                                                                *)
(***************************************************************************)
CONSTANTS Jobs, Handlers

VARIABLE where   \* job -> "new", "queued", the handler that has it, or "gone"

Init == where = [j \in Jobs |-> "new"]

Move(j, from, to) == where[j] = from /\ where' = [where EXCEPT ![j] = to]

Arrive(j) == Move(j, "new", "queued")
Claim(j, h) == Move(j, "queued", h)
Return(j, h) == Move(j, h, "queued")
Leave(j, h) == Move(j, h, "gone")

Next ==
    \E j \in Jobs :
        \/ Arrive(j)
        \/ \E h \in Handlers : Claim(j, h) \/ Return(j, h) \/ Leave(j, h)

Spec == Init /\ [][Next]_where
=============================================================================
