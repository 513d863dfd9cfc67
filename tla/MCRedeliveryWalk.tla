-------------------------- MODULE MCRedeliveryWalk --------------------------
(***************************************************************************)
(* Finite instances of RedeliveryWalk.                                     *)
(***************************************************************************)
EXTENDS RedeliveryWalk

CONSTANT j1

Failed(j, a) == [job |-> j, action |-> a, redelivery |-> FALSE, old |-> FALSE, labelled |-> TRUE]
Old(e) == [e EXCEPT !.old = TRUE]
Again(e) == [e EXCEPT !.redelivery = TRUE]
Unlabelled(e) == [e EXCEPT !.labelled = FALSE]

\* Pages of two: a job's two events, one of them redelivered before, and one
\* that is too old; an event without the label before one that is too old.
MixedLogs ==
    {<<Failed(j1, "completed"), Again(Failed(j1, "completed")),
       Failed(j1, "queued"), Old(Failed(j1, "queued"))>>,
     <<Failed(j1, "in_progress"), Unlabelled(Failed(j1, "completed")),
       Old(Failed(j1, "queued"))>>}

\* A claim, a paused job's takeover, what a cleanup takes up, puts back, returns
\* and ends; between a pop and a push a record is in no list.
CodeMoves ==
    {<<"main", "none">>, <<"none", "main">>, <<"none", "plugin">>, <<"plugin", "none">>,
     <<"plugin", "cleaning">>, <<"cleaning", "plugin">>, <<"cleaning", "none">>}
=============================================================================
