---------------------------- MODULE MCPausedJobs ----------------------------
(***************************************************************************)
(* Finite instances of PausedJobs.                                         *)
(***************************************************************************)
EXTENDS PausedJobs, TLC

CONSTANTS a, b, j1, j2

\* Host b always has room.
OneRoomy == [h \in Hosts |-> IF h = b THEN {TRUE} ELSE BOOLEAN]

BothJobs == <<j1, j2>>
OneJob == <<j1>>
=============================================================================
