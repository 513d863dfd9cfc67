---------------------------- MODULE MCJobQueues -----------------------------
(***************************************************************************)
(* Finite instances of JobQueues.                                          *)
(***************************************************************************)
EXTENDS JobQueues, TLC

CONSTANTS h1, h2, j1, j2, d1, d2, v1, v2

\* One delivery for each job (the job names its delivery), or several of j1.
OncePerJob == [d \in Deliveries |-> d]
Redelivered == [d \in Deliveries |-> j1]

VMSymmetry == Permutations(VMs)
HandlerSymmetry == Permutations(Handlers) \cup Permutations(VMs)
Symmetry == Permutations(Handlers) \cup Permutations(VMs) \cup Permutations(Jobs)
=============================================================================
